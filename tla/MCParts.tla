------------------------------ MODULE MCParts ------------------------------
(***************************************************************************)
(* The parts of WhefsParts as one instance for TLC, and beside them those  *)
(* that nothing is proved about.  A behaviour is one of a single part;     *)
(* other names it when it is none of WhefsParts.                           *)
(***************************************************************************)
EXTENDS Integers, Sequences, WhefsParts

VARIABLES
  other,   \* the part whose behaviour this is, "none" when it is one of WhefsParts
  dev, items,                                                      \* Encoding
  kind, parts, string,                                             \* Patterns
  name, content, i, file, out, outlen, outfile, skipped,           \* Unpacking
  sink, pieces, starts, calls, sum, count, mem, pos, partial, gap, \* Printing
  bytes, tree, todo, indent, text,                                 \* Showing
  command, args, store, local, before, fsName, fsMode, fe, opts,
  found, shown, swallowed, stage, code,                            \* Tools
  place,         \* Unpacking: at
  step, status   \* Unpacking, Printing, Showing: pc, rc

EncodingVars  == <<dev, items>>
PatternsVars  == <<kind, parts, string>>
UnpackingVars == <<name, content, i, file, out, outlen, outfile, skipped, place>>
PrintingVars  == <<sink, pieces, starts, calls, sum, count, mem, pos, partial, gap>>
ShowingVars   == <<bytes, tree, todo, indent, text>>
ToolsVars     == <<command, args, store, local, before, fsName, fsMode, fe,
                  opts, found, shown, swallowed, stage, code>>
CounterVars   == <<step, status>>
UseCounter == {"unpacking", "printing", "showing"}

otherVars ==
  <<other, EncodingVars, PatternsVars, UnpackingVars,
           PrintingVars, ShowingVars, ToolsVars, CounterVars>>

-----------------------------------------------------------------------------
\* The ends of the ranges of all types where a byte has four values, and formats that
\* are beginnings of each other or differ in a width or a sign.
Unsigned(w) == 4 ^ w
Ends(w) ==
  {-(Unsigned(w) \div 2), -1, Unsigned(w) \div 2 - 1, Unsigned(w) \div 2,
   Unsigned(w) - 1}

U8  == [tag |-> 136, width |-> 1, signed |-> FALSE]
I8  == [tag |-> 136, width |-> 1, signed |-> TRUE]
U16 == [tag |-> 144, width |-> 2, signed |-> FALSE]
I16 == [tag |-> 145, width |-> 2, signed |-> TRUE]

Encoding ==
  INSTANCE WhioEncode WITH
    Base <- 4, Capacity <- 28, MaxItems <- 2,
    Numbers <- {0, 1} \cup UNION {Ends(b) : b \in {1, 2, 4, 8}},
    Few <- {-1, 0, 3},
    Strings <- {<<>>, <<1>>, <<2, 0, 3>>, <<0, 1>>},
    Formats <- {<<U8>>, <<I8>>, <<U8, U16>>, <<U8, I16>>, <<I16>>},
    Names <- {<<>>, <<1>>, <<2, 3>>, <<1, 1, 1>>},
    NameLength <- 3

\* Names that make a buffer grow, and fit into one that is left over; the first leaves no
\* room for a 0.
MCFileNames == {<<3>>, <<1, 2>>, <<2, 2, 2>>, <<1, 2, 3, 1>>}
MCSoughtPatterns == {{}, {<<3>>, <<2, 2, 2>>, <<1, 2, 3, 1>>, <<>>}}

\* Two letters that differ in case, what is special in a list, and a star.
Letters == {97, 65, 93, 45, 42}
WithLetters ==
  INSTANCE WhGlob WITH
    Alphabet <- Letters, Globs <- {}, Likes <- {}, MaxParts <- 0, MaxLength <- 0
Chars(set) == {WithLetters!Char(c) : c \in set}

Patterns ==
  INSTANCE WhGlob WITH
    Alphabet <- Letters, MaxParts <- 3, MaxLength <- 3,
    Globs <-
      {WithLetters!Many(42), WithLetters!Single(63),
       WithLetters!Escaped(42), WithLetters!Escaped(97),
       WithLetters!List(FALSE, FALSE, <<<<97>>, <<42>>>>, FALSE),
       WithLetters!List(TRUE, FALSE, <<<<65, 97>>>>, FALSE),
       WithLetters!List(FALSE, TRUE, <<<<43, 65>>>>, FALSE),
       WithLetters!List(TRUE, TRUE, <<>>, TRUE),
       WithLetters!List(FALSE, FALSE, <<<<97>>>>, TRUE)} \cup Chars({97, 93}),
    Likes <- {WithLetters!Many(37), WithLetters!Single(95)} \cup Chars({97, 65, 42, 93})

\* Bytes of eight values, and profiles with literals, copies that overlap themselves
\* and a distance of two bytes.
Lit(s) == [kind |-> "lit", bytes |-> s]
Copy(d, n) == [kind |-> "copy", back |-> d, count |-> n]

ProfilesOf(tokens, size) ==
  {[tokens |-> tokens, declared |-> n] : n \in {size - 1, size, size + 1} \cap Nat}

Unpacking ==
  INSTANCE Iqunpack WITH
    LastId <- 3, Names <- {"p", "q"}, NoName <- "", Half <- 4,
    Profiles <-
      ProfilesOf(<<>>, 0) \cup ProfilesOf(<<Lit(<<4>>)>>, 1)
      \cup ProfilesOf(<<Lit(<<5>>), Copy(1, 2), Lit(<<0, 7>>)>>, 5)
      \cup ProfilesOf(<<Lit(<<1, 2, 3>>), Copy(2, 5), Copy(6, 3)>>, 11),
    Outfiles <- {<<>>, [k \in 1..12 |-> 9]},
    at <- place, pc <- step, rc <- status

\* Every flag with widths and precisions on both sides of the digits and of what buf
\* holds, ordinals that differ from their last digit, and texts that escapes change.
Piece(type, arg, str) ==
  [type |-> type, arg |-> arg, str |-> str, long |-> FALSE, width |-> 0, precision |-> -1,
   left |-> FALSE, plus |-> FALSE, blank |-> FALSE, alt |-> FALSE, zero |-> FALSE]

Numbers(types, values, widths) ==
  {[Piece(t, v, <<>>) EXCEPT !.width = w, !.precision = n, !.zero = o, !.alt = a, !.long = a,
                             !.plus = (n = 2), !.blank = TRUE] :
     t \in types, v \in values, w \in widths, n \in {-1, 2}, o \in BOOLEAN, a \in BOOLEAN}

Texts(types, strings) ==
  {[Piece(t, 0, s) EXCEPT !.width = w, !.precision = n] :
     t \in types, s \in strings, w \in {0, 3}, n \in {-1, 1}}

Single ==
  Numbers({"d", "r"}, {-112, 3, 11}, {0, 5, -4})
  \cup Numbers({"u", "x", "X", "p", "o"}, {-1, 0, 11}, {0, 5})
  \cup {[Piece(t, -1, <<>>) EXCEPT !.width = 99, !.precision = 99, !.alt = TRUE, !.zero = o] :
          t \in {"d", "x"}, o \in BOOLEAN}
  \cup {[Piece("c", 65, <<>>) EXCEPT !.width = 5, !.precision = n, !.left = l] :
          n \in {-1, 0, 2, 99}, l \in BOOLEAN}
  \cup Texts({"s", "h", "t"}, {<<-1>>, <<>>, <<60, 38, 97>>, <<37, 43, 200>>})
  \cup Texts({"T"}, {<<43, 97>>, <<37, 52, 71, 97>>, <<37, 54, 49, 43>>})
  \cup {Piece("%", 0, <<>>)}

Together ==
  {Piece("n", 0, <<>>), Piece("text", 0, <<97, 98>>), Piece("s", 0, <<>>),
   Piece("h", 0, <<60, 97>>), Piece("t", 0, <<37>>)}

Printing ==
  INSTANCE Whprintf WITH
    BufSize <- 44, Word <- 512, LongWord <- 1024, MaxPieces <- 3,
    Pieces <- Single, More <- Together, pc <- step, rc <- status

\* What an imported file had in it, and what a fetch reads.
MCImported == <<8, 9, 8, 7>>
MCContent == <<1, 2, 3, 4, 5, 6>>

\* Options on both sides of what whefs_mkfs takes, and containers that can be extended
\* up to the last position.
Option(m, b, c, n, f) ==
  [magic |-> m, block_size |-> b, block_count |-> c, inode_count |-> n, filename_length |-> f]

MCRequested ==
  {Option(m, b, c, n, f) : m \in {0, 1, 2}, b \in {31, 32, 35}, c \in {2, 3},
                           n \in {1, 2, 3}, f \in {0, 1, 3, 129}}

\* Elements with none to three attributes, empty and nested ones, and text that begins,
\* ends or goes on with new lines.
Attribute(n, v) == [name |-> n, value |-> v]
Element(n, attributes, inner) == [name |-> n, attrs |-> attributes, inner |-> inner]
Text(c) == [chars |-> c]

Trees ==
  LET one    == Attribute(<<"N">>, <<"1">>)
      two    == Attribute(<<"V", "e">>, <<>>)
      leaf   == Element(<<"P", "a">>, <<one, two>>, <<>>)
      bare   == Element(<<"C">>, <<>>, <<>>)
      script == Text(<<"\n", "x", "\n", "\n", "y">>)
      deep   == Element(<<"S">>, <<two, one, one>>,
                        <<leaf, script, Element(<<"T", "r">>, <<>>, <<bare, leaf>>),
                          script, bare>>)
  IN {leaf, bare, deep, Element(<<"R">>, <<>>, <<deep, Text(<<"z", "\n">>), deep>>)}

Showing ==
  INSTANCE Iqiq WITH
    PublicIds <- {<<129, 128, 9>>, <<129, 128, 130, 9>>}, pc <- step, rc <- status

\* Command lines with each flag, before and behind the files, values that are missing, and
\* numbers at which what they count ends or wraps around.
NoValue == [given |-> FALSE, yes |-> FALSE, number |-> -1]
Yes == [NoValue EXCEPT !.given = TRUE, !.yes = TRUE]
No == [NoValue EXCEPT !.given = TRUE]
Number(n) == [given |-> TRUE, yes |-> n = 1, number |-> n]

Flag(k, v) == [kind |-> "flag", key |-> k, val |-> v]
Name(n) == [kind |-> "name", key |-> "", val |-> n]
Help == [kind |-> "help", key |-> "?", val |-> NoValue]
Flags(keys) == {<<>>} \cup {<<Flag(k, NoValue)>> : k \in keys}
Valued(k, values) == {<<Flag(k, v)>> : v \in values}

FilesOf(set) ==
  {<<>>, <<Name("c")>>} \cup {<<Name("c"), Name(n)>> : n \in set}
  \cup {<<Name("c"), Name(n), Name(m)>> : n, m \in set}

Lines(tool, front, files, back) ==
  {[tool |-> tool, args |-> f \o n \o b] : f \in front, n \in files, b \in back}

CommandLines ==
  Lines("cp", Flags({"i", "x", "V", "q"}) \cup {<<Help>>}, FilesOf({"a", "b", "long"}),
        {<<>>, <<Flag("i", NoValue)>>, <<Flag("i", No)>>, <<Flag("x", No)>>})
  \cup Lines("rm", Flags({"n"}), FilesOf({"a", "b", "*"}), {<<>>, <<Flag("m", Yes)>>})
  \cup Lines("cat", {<<>>, <<Help>>}, FilesOf({"a", "b"}), {<<>>})
  \cup Lines("ls", Flags({"1", "i", "b", "dump-core-magic"}), FilesOf({"b", "*"}),
             Flags({"B", "s"}))
  \cup Lines("mkfs", Flags({"n"}) \cup Valued("i", {Number(1), Number(3)})
                   \cup Valued("s", {Number(0), Number(2), Number(3)}), FilesOf({}),
             {<<>>} \cup Valued("c", {Number(2), Number(3), NoValue}))
  \cup Lines("addblocks", Flags({"a"}) \cup Valued("a", {Number(n) : n \in {-1, 0, 1, 5}}),
             FilesOf({}), {<<>>})

Stored(n, d, c) == [name |-> n, data |-> d, chain |-> c, used |-> TRUE]
Unstored == [name |-> "", data |-> <<>>, chain |-> <<>>, used |-> FALSE]

Tools ==
  INSTANCE WhefsApps WITH
    Commands <- CommandLines,
    Containers <-
      {[files |-> <<>>, blocks |-> 0],
       [files |-> <<Unstored, Stored("b", <<7>>, <<2>>), Unstored>>, blocks |-> 3],
       [files |-> <<Stored("b", <<>>, <<>>), Stored("a", <<5, 6, 5>>, <<3, 1>>),
                    Stored("z", <<4>>, <<2>>)>>, blocks |-> 4]},
    LocalFiles <-
      {[n \in {"a", "b", "long"} |-> CASE n = "a" -> <<9, 8>> [] n = "b" -> x
                                        [] OTHER  -> <<>>] :
         x \in {<<-1>>, <<1, 2, 3, 4, 5>>}},
    Matched <- [n \in {"a", "b", "long", "*"} |->
                  IF n = "*" THEN {"a", "b", "long", "z"} ELSE {n}],
    TooLong <- {"long"}, BlockSize <- 2, MaxId <- 7, MaxNameLength <- 2,
    ThisApp_MAX_COMMANDS <- 1,
    container <- store, fs <- fsMode, out <- shown, phase <- stage

ASSUME OtherAssumption ==
  /\ Encoding!BaseAssumption /\ Encoding!NameAssumption
  /\ Printing!SizeAssumption

-----------------------------------------------------------------------------
\* The variables of the parts that a behaviour is not of.
EncodingOff == dev = "off" /\ items = "off"
PatternsOff ==
  kind = "off" /\ parts = "off" /\ string = "off"
UnpackingOff ==
  name = "off" /\ content = "off" /\ i = "off" /\ file = "off"
  /\ out = "off" /\ outlen = "off" /\ outfile = "off" /\ skipped = "off" /\ place = "off"
PrintingOff ==
  sink = "off" /\ pieces = "off" /\ starts = "off" /\ calls = "off" /\ sum = "off"
  /\ count = "off" /\ mem = "off" /\ pos = "off" /\ partial = "off" /\ gap = "off"
ShowingOff ==
  bytes = "off" /\ tree = "off" /\ todo = "off" /\ indent = "off" /\ text = "off"
ToolsOff ==
  command = "off" /\ args = "off" /\ store = "off" /\ local = "off"
  /\ before = "off" /\ fsName = "off" /\ fsMode = "off" /\ fe = "off"
  /\ opts = "off" /\ found = "off" /\ shown = "off" /\ swallowed = "off"
  /\ stage = "off" /\ code = "off"
CounterOff == step = "off" /\ status = "off"

RestOff(p) ==
  /\ IF p = "encoding" THEN TRUE ELSE EncodingOff
  /\ IF p = "patterns" THEN TRUE ELSE PatternsOff
  /\ IF p = "unpacking" THEN TRUE ELSE UnpackingOff
  /\ IF p = "printing" THEN TRUE ELSE PrintingOff
  /\ IF p = "showing" THEN TRUE ELSE ShowingOff
  /\ IF p = "tools" THEN TRUE ELSE ToolsOff
  /\ IF p \in UseCounter THEN TRUE ELSE CounterOff

RestStay(p) ==
  /\ UNCHANGED other
  /\ IF p = "encoding" THEN TRUE ELSE UNCHANGED EncodingVars
  /\ IF p = "patterns" THEN TRUE ELSE UNCHANGED PatternsVars
  /\ IF p = "unpacking" THEN TRUE ELSE UNCHANGED UnpackingVars
  /\ IF p = "printing" THEN TRUE ELSE UNCHANGED PrintingVars
  /\ IF p = "showing" THEN TRUE ELSE UNCHANGED ShowingVars
  /\ IF p = "tools" THEN TRUE ELSE UNCHANGED ToolsVars
  /\ IF p \in UseCounter THEN TRUE ELSE UNCHANGED CounterVars

MCInit ==
  /\ PartsInit
  /\ \/ part # "others" /\ other = "none" /\ RestOff("none")
     \/ /\ part = "others"
        /\ \/ other = "encoding" /\ Encoding!Init /\ RestOff("encoding")
           \/ other = "patterns" /\ Patterns!Init /\ RestOff("patterns")
           \/ other = "unpacking" /\ Unpacking!Init /\ RestOff("unpacking")
           \/ other = "printing" /\ Printing!Init /\ RestOff("printing")
           \/ other = "showing" /\ Showing!Init /\ RestOff("showing")
           \/ other = "tools" /\ Tools!Init /\ RestOff("tools")

MCNext ==
  \/ PartsNext /\ UNCHANGED otherVars
  \/ /\ part = "others" /\ OthersStay("others")
     /\ \/ other = "encoding" /\ Encoding!Next /\ RestStay("encoding")
        \/ other = "patterns" /\ Patterns!Next /\ RestStay("patterns")
        \/ other = "unpacking" /\ Unpacking!Next /\ RestStay("unpacking")
        \/ other = "printing" /\ Printing!Next /\ RestStay("printing")
        \/ other = "showing" /\ Showing!Next /\ RestStay("showing")
        \/ other = "tools" /\ Tools!Next /\ RestStay("tools")

MCSpec == MCInit /\ [][MCNext]_<<partsVars, otherVars>>

\* Loops that copy run by themselves.
FairPartsSpec == MCSpec /\ WF_<<partsVars, otherVars>>(part = "copying" /\ MCNext)

-----------------------------------------------------------------------------
(***************************************************************************)
(* The properties of the parts, beside those in WhefsParts.                *)
(***************************************************************************)

ItemsTold == other = "encoding" => Encoding!ItemsTold
PatternsMatch == other = "patterns" => Patterns!PatternsMatch
UnpacksTruly == other = "unpacking" => Unpacking!ExpandsTruly /\ Unpacking!LastProfileWritten
OutputTold == other = "printing" => Printing!OutputTold
ToolsTold == other = "tools" => Tools!ToolsTold
ShowsProfile == other = "showing" => Showing!ShowsProfile

Terminates == part = "copying" => Copying!Terminates
=============================================================================
