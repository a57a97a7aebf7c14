-------------------------------- MODULE Iqiq --------------------------------
(***************************************************************************)
(* iqiq: a profile is read into memory, its charset is changed to one that *)
(* libwbxml takes, and what the parser of libwbxml reports is printed.     *)
(*                                                                         *)
(* A profile has four bytes that iqunpack puts there, then WBXML: version, *)
(* public id, charset, and a tree of elements and text.  iqiq takes six    *)
(* bytes for the header, and so what is left of a public id of three or    *)
(* more bytes for a version and a shorter id.                              *)
(*                                                                         *)
(* The parser is not in the repository.  Here it skips a version and a     *)
(* number, refuses a charset that is not ASCII, reports the nodes of the   *)
(* tree in order, and may stop with an error anywhere.                     *)
(***************************************************************************)
EXTENDS Integers, Sequences, SequencesExt

CONSTANTS
  PublicIds,  \* public ids: the bytes before the last one have their high bit set
  Trees       \* what profiles hold: elements, or text

VARIABLES
  bytes,   \* the file up to the charset, or as much of it as there is
  tree,    \* its document
  todo,    \* what the parser has yet to report
  indent,  \* ctx.indent
  text,    \* what was printed
  pc, rc

vars == <<bytes, tree, todo, indent, text, pc, rc>>

TabWidth == 4
HeaderLength == 6

Latin1 == 4
Ascii == 3    \* WBXML_CHARSET_US_ASCII

Space == " "
NewLine == "\n"
Spaces(n) == [k \in 1..n |-> Space]

IsText(node) == "chars" \in DOMAIN node
IsEmpty(node) == node.inner = <<>>

-----------------------------------------------------------------------------
(***************************************************************************)
(* Reading the file, and changing its charset.                             *)
(***************************************************************************)

\* fopen, fseek, ftell, malloc or fread fails.
SlurpFails ==
  /\ pc = "slurp"
  /\ pc' = "exit" /\ rc' = 1
  /\ UNCHANGED <<bytes, tree, todo, indent, text>>

Slurp ==
  /\ pc = "slurp"
  /\ pc' = "patch"
  /\ UNCHANGED <<bytes, tree, todo, indent, text, rc>>

\* Behind the header, the version and a number: the first byte of it that does not go
\* on is its last.
CharsetAt ==
  LET ends == {k \in HeaderLength + 2 .. Len(bytes) : bytes[k] < 128}
  IN IF ends = {} THEN Len(bytes) + 1 ELSE 1 + CHOOSE k \in ends : \A l \in ends : k <= l

\* Mutant: a public id is one byte.
PatchCharsetShort ==
  /\ pc = "patch"
  /\ bytes' = [k \in DOMAIN bytes |-> IF k = HeaderLength + 3 THEN Ascii ELSE bytes[k]]
  /\ pc' = "parse"
  /\ UNCHANGED <<tree, todo, indent, text, rc>>

\* patch_charset
PatchCharset ==
  /\ pc = "patch"
  /\ bytes' = [k \in DOMAIN bytes |-> IF k = CharsetAt THEN Ascii ELSE bytes[k]]
  /\ pc' = "parse"
  /\ UNCHANGED <<tree, todo, indent, text, rc>>

-----------------------------------------------------------------------------
(***************************************************************************)
(* What is printed for each event.                                         *)
(***************************************************************************)

\* The attributes stand below each other.
Attributes(node) ==
  LET column == indent + Len(node.name) + 2
      one(k) == (IF k = 1 THEN <<Space>> ELSE <<NewLine>> \o Spaces(column))
                \o node.attrs[k].name \o <<"=">> \o node.attrs[k].value
  IN FlattenSeq([k \in DOMAIN node.attrs |-> one(k)])

Opening(node) ==
  Spaces(indent) \o <<"<">> \o node.name \o Attributes(node)
  \o (IF IsEmpty(node) THEN <<Space, "/", ">", NewLine>> ELSE <<">", NewLine>>)

Chars(node) ==
  LET c == node.chars
      one(k) == (IF k > 1 /\ c[k - 1] = NewLine /\ c[k] # NewLine
                 THEN Spaces(indent) ELSE <<>>) \o <<c[k]>>
  IN Spaces(indent) \o FlattenSeq([k \in DOMAIN c |-> one(k)])

\* start_element, and end_element at once for an element without content.
StartElement(node) ==
  /\ text' = text \o Opening(node)
  /\ IF IsEmpty(node)
     THEN todo' = Tail(todo) /\ UNCHANGED indent
     ELSE /\ todo' = node.inner \o <<[end |-> node.name]>> \o Tail(todo)
          /\ indent' = indent + TabWidth

\* Mutant: the end of an element is printed before the indentation goes back.
EndElementInside(name) ==
  /\ indent' = indent - TabWidth
  /\ text' = text \o Spaces(indent) \o <<"<", "/">> \o name \o <<">", NewLine>>
  /\ todo' = Tail(todo)

EndElement(name) ==
  /\ indent' = indent - TabWidth
  /\ text' = text \o Spaces(indent') \o <<"<", "/">> \o name \o <<">", NewLine>>
  /\ todo' = Tail(todo)

CData(node) ==
  /\ text' = text \o Chars(node)
  /\ todo' = Tail(todo)
  /\ UNCHANGED indent

-----------------------------------------------------------------------------
(***************************************************************************)
(* The parser.                                                             *)
(***************************************************************************)

\* The parser finds the charset where iqiq does, and needs what comes behind it.
Accepts == CharsetAt = Len(bytes) /\ bytes[CharsetAt] = Ascii

ParserTakes ==
  /\ pc = "parse" /\ Accepts
  /\ todo' = <<tree>>
  /\ pc' = "report"
  /\ UNCHANGED <<bytes, tree, indent, text, rc>>

Report ==
  /\ pc = "report" /\ todo # <<>>
  /\ LET event == Head(todo)
     IN IF "end" \in DOMAIN event THEN EndElement(event.end)
        ELSE IF IsText(event) THEN CData(event)
        ELSE StartElement(event)
  /\ UNCHANGED <<bytes, tree, pc, rc>>

\* The parser is not made, or stops; main does not look at what parse returns.
ParserFails ==
  /\ pc \in {"patch", "parse", "report"}
  /\ pc = "report" => todo # <<>>
  /\ pc' = "exit" /\ rc' = 0
  /\ UNCHANGED <<bytes, tree, todo, indent, text>>

Parsed ==
  /\ pc = "report" /\ todo = <<>>
  /\ pc' = "exit" /\ rc' = 0
  /\ UNCHANGED <<bytes, tree, todo, indent, text>>

-----------------------------------------------------------------------------
Profile(p, charset) == <<130, 41, 9, 0>> \o <<3>> \o p \o charset

\* Whole profiles, and those that end before the charset.
Init ==
  /\ \E p \in PublicIds :
       bytes \in {Profile(p, <<Latin1>>), Profile(p, <<>>), Profile(Front(p), <<>>)}
  /\ tree \in Trees
  /\ todo = <<>> /\ indent = 0 /\ text = <<>>
  /\ pc = "slurp" /\ rc = -1

Next ==
  \/ SlurpFails \/ Slurp \/ PatchCharset
  \/ ParserTakes \/ Report \/ ParserFails \/ Parsed

Spec == Init /\ [][Next]_vars

-----------------------------------------------------------------------------
(***************************************************************************)
(* Properties.                                                             *)
(***************************************************************************)

\* A document as text, from its tree: each element between its tags, four columns
\* further right, the attributes below the first one.
RECURSIVE Shown(_, _)
Shown(node, depth) ==
  LET margin == Spaces(TabWidth * depth)
      tag == margin \o <<"<">> \o node.name
      place == Spaces(Len(tag) + 1)
      attribute(k) == node.attrs[k].name \o <<"=">> \o node.attrs[k].value
      attributes ==
        FlattenSeq([k \in DOMAIN node.attrs |->
          (IF k = 1 THEN <<Space>> ELSE <<NewLine>> \o place) \o attribute(k)])
      inner == FlattenSeq([k \in DOMAIN node.inner |-> Shown(node.inner[k], depth + 1)])
      filled(k) == k = 1 \/ (node.chars[k - 1] = NewLine /\ node.chars[k] # NewLine)
  IN IF IsText(node)
     THEN FlattenSeq([k \in DOMAIN node.chars |->
            (IF filled(k) THEN margin ELSE <<>>) \o <<node.chars[k]>>])
     ELSE IF IsEmpty(node)
     THEN tag \o attributes \o <<Space, "/", ">", NewLine>>
     ELSE tag \o attributes \o <<">", NewLine>> \o inner
          \o margin \o <<"<", "/">> \o node.name \o <<">", NewLine>>

\* A profile is printed as its tree says (start_element, end_element, cdata): all of it
\* unless the parser stops, and then a beginning of it.  Profiles in ISO-8859-1 get to
\* the parser as ASCII, whatever the length of their public id (patch_charset), and
\* nothing else in them is changed.
ShowsProfile ==
  /\ IsPrefix(text, Shown(tree, 0))
  /\ pc = "report" /\ todo = <<>> => text = Shown(tree, 0) /\ indent = 0
  /\ pc = "parse" =>
       \E p \in PublicIds :
         bytes \in {Profile(p, <<Ascii>>), Profile(p, <<>>), Profile(Front(p), <<>>)}
  /\ rc = 1 => text = <<>>
=============================================================================
