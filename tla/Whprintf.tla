------------------------------ MODULE Whprintf ------------------------------
(***************************************************************************)
(* Formatted output (whprintf.c): whprintfv renders the pieces of a format *)
(* and hands them to an appender, call by call; the appenders put them     *)
(* into a string that grows (whprintf_str) or write them to a device, a    *)
(* stream or a FILE.                                                       *)
(*                                                                         *)
(* A format is a sequence of pieces, plain text and conversions, which are *)
(* read one at a time; a piece is what is left when flags, width and       *)
(* precision (-1: none) are parsed and the argument fetched.  Any write    *)
(* may be short, and memory may run out.  %i is as %d, and %z as %s.       *)
(* Conversions of real numbers, and those for SQL, which are not compiled  *)
(* by default, are left out.  A character is its code.                     *)
(***************************************************************************)
EXTENDS Integers, Sequences, SequencesExt

CONSTANTS
  BufSize,    \* WHPRINTF_BUF_SIZE, more than 40
  Word,       \* how many values an int has
  LongWord,   \* how many values a long int has
  Pieces,     \* pieces tried alone
  More,       \* pieces tried together
  MaxPieces   \* bound on the pieces of a format

SizeAssumption == BufSize > 40 /\ Word > 0 /\ LongWord % Word = 0

VARIABLES
  sink,    \* "string", "dev" or "stream", which a FILE is as well: the appender
  pieces,  \* what was read of the format
  starts,  \* for each piece, where its output begins and outCount then
  calls,   \* the calls of the appender that the piece still needs
  sum,     \* what the calls made by a spec_handler returned so far
  count,   \* outCount
  mem,     \* the bytes of the string's buffer, or what is on the device
  pos,     \* where the output ends in them
  partial, \* an appender did not take all it was given
  gap,     \* that was in a spec_handler of several calls
  pc, rc

vars == <<sink, pieces, starts, calls, sum, count, mem, pos, partial, gap, pc, rc>>

Sinks == {"string", "dev", "stream"}
Null == <<-1>>    \* the null pointer for a text
Junk == -2

Larger(a, b) == IF a > b THEN a ELSE b
Smaller(a, b) == IF a < b THEN a ELSE b
Repeated(c, n) == [k \in 1..n |-> c]
Spaces(n) == Repeated(32, n)

-----------------------------------------------------------------------------
(***************************************************************************)
(* Integers.                                                               *)
(***************************************************************************)

Hexadecimal == {"x", "X", "p"}
Base(type) == IF type \in Hexadecimal THEN 16 ELSE IF type = "o" THEN 8 ELSE 10
Signed(type) == type \in {"d", "r"}
IsInteger(type) == type \in Hexadecimal \cup {"d", "r", "u", "o"}

Digit(d, type) == IF d < 10 THEN 48 + d ELSE IF type = "x" THEN 87 + d ELSE 55 + d

Digits(v, type) ==
  LET n == CHOOSE n \in 1..16 : Base(type) ^ n > v /\ (n > 1 => Base(type) ^ (n - 1) <= v)
  IN [k \in 1..n |-> Digit((v \div Base(type) ^ (n - k)) % Base(type), type)]

Th == <<116, 104>>
OrdinalEnds == <<Th, <<115, 116>>, <<110, 100>>, <<114, 100>> >>

\* Mutant: 11, 12 and 13 are forgotten.
OrdinalPlain(v) == OrdinalEnds[IF v % 10 >= 4 THEN 1 ELSE (v % 10) + 1]

Ordinal(v) == OrdinalEnds[IF v % 10 >= 4 \/ (v \div 10) % 10 = 1 THEN 1 ELSE (v % 10) + 1]

\* The value: unsigned ones are what two's complement makes of them.
Value(p) ==
  IF Signed(p.type) THEN (IF p.arg < 0 THEN -p.arg ELSE p.arg)
  ELSE p.arg % (IF p.long \/ p.type = "p" THEN LongWord ELSE Word)

Sign(p) ==
  IF ~Signed(p.type) THEN <<>>
  ELSE IF p.arg < 0 THEN <<45>>
  ELSE IF p.plus THEN <<43>>
  ELSE IF p.blank THEN <<32>> ELSE <<>>

\* What "#" asks for, unless the digits begin so.
Prefix(p, digits) ==
  CASE ~p.alt \/ Value(p) = 0 -> <<>>
    [] p.type \in Hexadecimal -> <<48, IF p.type = "X" THEN 88 ELSE 120>>
    [] p.type = "o" /\ Head(digits) # 48 -> <<48>>
    [] OTHER -> <<>>

\* Mutant: zeros are filled in up to the width, sign or not.
IntegerWide(p) ==
  LET digits == Digits(Value(p), p.type) \o (IF p.type = "r" THEN Ordinal(Value(p)) ELSE <<>>)
      precision == IF p.zero THEN Larger(p.precision, p.width) ELSE p.precision
      padded == Repeated(48, precision - Len(digits)) \o digits
  IN Prefix(p, padded) \o Sign(p) \o padded

\* With "0" the precision is the width, less the sign.  The suffix of an ordinal
\* counts as digits, a prefix comes on top.
Integer(p) ==
  LET digits == Digits(Value(p), p.type) \o (IF p.type = "r" THEN Ordinal(Value(p)) ELSE <<>>)
      precision == IF p.zero THEN Larger(p.precision, p.width - Len(Sign(p))) ELSE p.precision
      padded == Repeated(48, precision - Len(digits)) \o digits
  IN Prefix(p, padded) \o Sign(p) \o padded

-----------------------------------------------------------------------------
(***************************************************************************)
(* Strings.                                                                *)
(***************************************************************************)

IsHandled(type) == type \in {"s", "h", "t", "T"}

HtmlEscape(c) ==
  CASE c = 60 -> <<38, 108, 116, 59>>
    [] c = 38 -> <<38, 97, 109, 112, 59>>
    [] OTHER -> <<c>>

Alphanumeric == 48..57 \cup 65..90 \cup 97..122

\* Mutant: the plus sign is taken for a safe character.
UrlEscapePlus(c) ==
  IF c \in Alphanumeric \/ c = 43 THEN <<c>>
  ELSE <<37, Digit(c \div 16, "X"), Digit(c % 16, "X")>>

UrlEscape(c) ==
  IF c \in Alphanumeric THEN <<c>>
  ELSE <<37, Digit(c \div 16, "X"), Digit(c % 16, "X")>>

HexDigits == 48..57 \cup 65..70 \cup 97..102
HexValue(c) == IF c >= 97 THEN c - 87 ELSE IF c >= 65 THEN c - 55 ELSE c - 48

\* What spech_urldecode sends for a text, in which two characters follow any "%".
UrlDecoded(s) ==
  LET at[i \in 1 .. Len(s) + 1] ==
        IF i > Len(s) THEN <<>>
        ELSE IF s[i] # 37 THEN <<<<IF s[i] = 43 THEN 32 ELSE s[i]>>>> \o at[i + 1]
        ELSE <<IF s[i + 1] \in HexDigits /\ s[i + 2] \in HexDigits
               THEN <<16 * HexValue(s[i + 1]) + HexValue(s[i + 2])>>
               ELSE SubSeq(s, i, i + 2)>> \o at[i + 3]
  IN at[1]

\* The texts a spec_handler sends, each in a call of its own.
Handled(p) ==
  CASE p.str = Null -> <<>>
    [] p.type = "s" -> <<p.str>>
    [] p.type = "h" -> [k \in DOMAIN p.str |-> HtmlEscape(p.str[k])]
    [] p.type = "t" -> [k \in DOMAIN p.str |-> UrlEscape(p.str[k])]
    [] p.type = "T" -> UrlDecoded(p.str)

-----------------------------------------------------------------------------
(***************************************************************************)
(* The calls for a piece.                                                  *)
(***************************************************************************)

\* A width given by "*" may be negative; width and precision are limited so that the
\* conversion fits into buf.
Limited(p) ==
  LET limit(w) == Smaller(IF w < 0 THEN -w ELSE w, BufSize - 10)
  IN [p EXCEPT !.left = @ \/ p.width < 0,
               !.width = limit(@),
               !.precision = IF IsHandled(p.type) THEN @ ELSE Smaller(@, BufSize - 40)]

Converted(p) ==
  CASE IsInteger(p.type) -> Integer(p)
    [] p.type = "c" -> Repeated(p.arg, IF p.precision >= 0 THEN p.precision ELSE 1)
    [] p.type = "%" -> <<37>>

Direct(text) == IF text = <<>> THEN <<>> ELSE <<[text |-> text, handler |-> "none"]>>

\* The handlers send the text before the width is looked at, as if it were empty.
CallsFor(q) ==
  LET p == Limited(q)
      texts == Handled(p)
  IN CASE q.type = "text" -> Direct(q.str)
       [] q.type = "n" -> <<>>
       [] IsHandled(q.type) ->
            [k \in DOMAIN texts |->
               [text |-> texts[k], handler |-> IF k < Len(texts) THEN "more" ELSE "last"]]
            \o Direct(Spaces(p.width))
       [] OTHER ->
            LET t == Converted(p)
                pad == Direct(Spaces(p.width - Len(t)))
            IN IF p.left THEN Direct(t) \o pad ELSE pad \o Direct(t)

-----------------------------------------------------------------------------
(***************************************************************************)
(* whprintfv.                                                              *)
(***************************************************************************)

\* The end of whprintfv, at the end of the format or because an appender failed.
\* (whprintfv_str returns no string if n is not positive.)
Return(end, n) ==
  /\ pc' = end
  /\ rc' = n
  /\ calls' = <<>>

Ready == pc = "run" /\ calls = <<>>

\* %n stores outCount, which is in starts.
ReadPiece(p) ==
  /\ Ready
  /\ Len(pieces) < MaxPieces
  /\ pieces # <<>> => Range(Append(pieces, p)) \subseteq More
  /\ pieces' = Append(pieces, p)
  /\ starts' = Append(starts, [pos |-> pos, count |-> count])
  /\ calls' = CallsFor(p)
  /\ UNCHANGED <<sink, sum, count, mem, pos, partial, gap, pc, rc>>

\* The end of the format, or a conversion that there is none of: the rest is dropped.
Finish ==
  /\ Ready
  /\ Return("done", count)
  /\ UNCHANGED <<sink, pieces, starts, sum, count, mem, pos, partial, gap>>

\* Mutant: what the calls of a handler return is not added up.
ReturnedLast(n) ==
  LET call == Head(calls)
      total == n
      more == call.handler = "more"
  IN /\ sum' = IF more THEN total ELSE 0
     /\ count' = IF more \/ total < 0 THEN count ELSE count + total
     /\ IF ~more /\ total < 0 THEN Return("failed", count)
        ELSE calls' = Tail(calls) /\ UNCHANGED <<pc, rc>>

\* An appender returned n: what is negative ends the output, but a handler goes on
\* and adds it to the rest.
Returned(n) ==
  LET call == Head(calls)
      total == sum + n
      more == call.handler = "more"
  IN /\ sum' = IF more THEN total ELSE 0
     /\ count' = IF more \/ total < 0 THEN count ELSE count + total
     /\ IF ~more /\ total < 0 THEN Return("failed", count)
        ELSE calls' = Tail(calls) /\ UNCHANGED <<pc, rc>>

Missed == partial' = TRUE /\ gap' = (gap \/ Head(calls).handler = "more" \/ sum # 0)

\* whprintfv_appender_stringbuf.
Put(bytes, s) == SubSeq(bytes, 1, pos) \o s \o SubSeq(bytes, pos + Len(s) + 1, Len(bytes))

\* Mutant: the buffer grows when there is no room left at all.
FitsBarely(s) == pos + Len(s) <= Len(mem) /\ mem # <<>>

Fits(s) == pos + Len(s) < Len(mem)

AppendToString ==
  /\ sink = "string" /\ calls # <<>>
  /\ LET s == Head(calls).text
         npos == pos + Len(s)
         grown == SubSeq(mem, 1, pos) \o Repeated(0, npos + 1 - pos)
                    \o Repeated(Junk, (3 * npos) \div 2 + 1 - (npos + 1))
     IN /\ mem' = IF s = <<>> THEN mem ELSE Put(IF Fits(s) THEN mem ELSE grown, s)
        /\ pos' = npos
        /\ Returned(Len(s))
  /\ UNCHANGED <<sink, pieces, starts, partial, gap>>

NoMemory ==
  /\ sink = "string" /\ calls # <<>>
  /\ Head(calls).text # <<>> /\ ~Fits(Head(calls).text)
  /\ Missed
  /\ Returned(-1)
  /\ UNCHANGED <<sink, pieces, starts, mem, pos>>

\* The appender for devices takes an empty text for an error.
AppendNothing ==
  /\ sink = "dev" /\ calls # <<>>
  /\ Head(calls).text = <<>>
  /\ Missed
  /\ Returned(-1)
  /\ UNCHANGED <<sink, pieces, starts, mem, pos>>

\* whio_dev_printf_appender, whio_stream_printf_appender, whprintf_FILE_appender.
AppendToDevice ==
  /\ sink # "string" /\ calls # <<>>
  /\ sink = "dev" => Head(calls).text # <<>>
  /\ \E n \in 0 .. Len(Head(calls).text) :
       /\ mem' = mem \o SubSeq(Head(calls).text, 1, n)
       /\ pos' = pos + n
       /\ partial' = (partial \/ n < Len(Head(calls).text))
       /\ Returned(n)
  /\ UNCHANGED <<sink, pieces, starts, gap>>

Init ==
  /\ sink \in Sinks
  /\ pieces = <<>> /\ starts = <<>> /\ calls = <<>>
  /\ sum = 0 /\ count = 0
  /\ mem = <<>> /\ pos = 0
  /\ partial = FALSE /\ gap = FALSE
  /\ pc = "run" /\ rc = 0

Next ==
  \/ \E p \in Pieces \cup More : ReadPiece(p)
  \/ Finish
  \/ AppendToString \/ NoMemory \/ AppendNothing \/ AppendToDevice

Spec == Init /\ [][Next]_vars

-----------------------------------------------------------------------------
(***************************************************************************)
(* What a conversion means, read from its output.                          *)
(***************************************************************************)

WidthOf(p) == Smaller(Larger(p.width, -p.width), BufSize - 10)
Magnitude(p) == Larger(p.arg, -p.arg)

\* Spaces on the side that "-" or a negative width says, as many as miss the width.
Padded(p, text, Body(_)) ==
  LET left == p.left \/ p.width < 0
  IN \E n \in 0 .. Len(text) :
       LET body == IF left THEN SubSeq(text, 1, n) ELSE SubSeq(text, Len(text) - n + 1, Len(text))
           pad == Spaces(WidthOf(p) - n)
       IN /\ text = IF left THEN body \o pad ELSE pad \o body
          /\ Body(body)

NumberIn(digits, base) == FoldLeft(LAMBDA v, c : base * v + HexValue(c), 0, digits)

\* The digits are the argument modulo what its type holds.
Denotes(p, digits) ==
  LET v == NumberIn(digits, Base(p.type))
  IN IF Signed(p.type) THEN v = Magnitude(p)
     ELSE /\ v < LongWord
          /\ (v - p.arg) % (IF p.long \/ p.type = "p" THEN LongWord ELSE Word) = 0
          /\ p.long \/ p.type = "p" \/ v < Word

SignText(p) ==
  CASE ~Signed(p.type) -> <<>>
    [] Signed(p.type) /\ p.arg < 0 -> <<45>>
    [] Signed(p.type) /\ p.arg >= 0 ->
         IF p.plus THEN <<43>> ELSE IF p.blank THEN <<32>> ELSE <<>>

PrefixTexts(p) ==
  {<<>>} \cup (IF ~p.alt THEN {}
              ELSE CASE p.type \in {"x", "p"} -> {<<48, 120>>}
                     [] p.type = "X" -> {<<48, 88>>}
                     [] p.type = "o" -> {<<48>>}
                     [] OTHER -> {})

SuffixText(p) ==
  IF p.type # "r" THEN <<>>
  ELSE CASE Magnitude(p) % 10 = 1 /\ Magnitude(p) % 100 # 11 -> <<115, 116>>
         [] Magnitude(p) % 10 = 2 /\ Magnitude(p) % 100 # 12 -> <<110, 100>>
         [] Magnitude(p) % 10 = 3 /\ Magnitude(p) % 100 # 13 -> <<114, 100>>
         [] OTHER -> <<116, 104>>

\* A prefix, a sign, digits and a suffix that fit into buf, with zeros in front only
\* up to the precision, or with "0" up to the width, which a prefix does not count to.
IsNumber(p, body) ==
  \E prefix \in PrefixTexts(p) :
    LET front == prefix \o SignText(p)
        digits == SubSeq(body, Len(front) + 1, Len(body) - Len(SuffixText(p)))
        zeros == Len(digits) > 1 /\ digits[1] = 48
        shown == Len(digits) + Len(SuffixText(p))
        precision == Smaller(p.precision, BufSize - 40)
    IN /\ Len(body) < BufSize
       /\ digits # <<>> /\ body = front \o digits \o SuffixText(p)
       /\ Range(digits) \subseteq HexDigits /\ Denotes(p, digits)
       /\ prefix = <<>> => p.arg = 0 \/ PrefixTexts(p) = {<<>>} \/ (p.type = "o" /\ zeros)
       /\ shown >= precision /\ (p.zero => Len(body) >= WidthOf(p))
       /\ zeros => shown = precision \/ (p.zero /\ Len(body) = WidthOf(p) + Len(prefix))

\* A text without its entities.
Unescaped(s) ==
  LET at[i \in 1 .. Len(s) + 1] ==
        IF i > Len(s) THEN <<>>
        ELSE IF IsPrefix(HtmlEscape(60), SubSeq(s, i, Len(s))) THEN <<60>> \o at[i + 4]
        ELSE IF IsPrefix(HtmlEscape(38), SubSeq(s, i, Len(s))) THEN <<38>> \o at[i + 5]
        ELSE <<s[i]>> \o at[i + 1]
  IN at[1]

\* What is written for a text itself.
IsBody(p, body) ==
  LET str == IF p.str = Null THEN <<>> ELSE p.str
  IN CASE p.type = "s" -> body = str
       [] p.type = "h" -> Unescaped(body) = str /\ 60 \notin Range(body)
       [] p.type = "t" -> FlattenSeq(UrlDecoded(body)) = str
       [] p.type = "T" ->
            \/ \E c \in Range(str) : c = 37
            \/ body = [k \in DOMAIN str |-> IF str[k] = 43 THEN 32 ELSE str[k]]

\* With a width or a precision "the format string, as in the usual printf()"
\* (whprintf.h:79) is not what the code goes by: the text is written in full whatever
\* the precision, and as many spaces as the width says are behind it.
NotAsPrintf(p, text) ==
  LET body == SubSeq(text, 1, Len(text) - WidthOf(p))
  IN text = body \o Spaces(WidthOf(p)) /\ IsBody(p, body)

IsText(p, text) ==
  IF p.width = 0 /\ p.precision = -1 THEN IsBody(p, text) ELSE NotAsPrintf(p, text)

IsChars(p, body) ==
  body = Repeated(p.arg, IF p.precision = -1 THEN 1 ELSE Smaller(p.precision, BufSize - 40))

Says(p, text) ==
  CASE p.type = "text" -> text = p.str
    [] p.type = "n" -> text = <<>>
    [] p.type = "%" -> Padded(p, text, LAMBDA body : body = <<37>>)
    [] p.type = "c" -> Padded(p, text, LAMBDA body : IsChars(p, body))
    [] IsInteger(p.type) -> Padded(p, text, LAMBDA body : IsNumber(p, body))
    [] IsHandled(p.type) -> IsText(p, text)

\* Where the output of the piece k ends, if it was read to its end.
EndOf(k) == IF k < Len(pieces) THEN starts[k + 1].pos ELSE pos
IsOut(k) == k < Len(pieces) \/ calls = <<>>

\* As long as the appenders take all, each piece is in the output as its conversion
\* says, for texts but for what is NotAsPrintf, and nothing else is.
TextTold ==
  ~partial =>
    \A k \in DOMAIN pieces :
      IsOut(k) => Says(pieces[k], SubSeq(mem, starts[k].pos + 1, EndOf(k)))

\* "Returns -1 on a error" (whprintf.c:731-732), and by whprintf.h a negative number when
\* nothing was output before.  The code does neither: when an appender fails, what is
\* returned is the length of the output, be it 0.
ErrorNotReturned == pc = "failed" /\ partial /\ rc = pos

\* What is returned, and stored by %n, is the length of the output, also when writes are
\* short.  That is so with ErrorNotReturned when an appender fails, and not at all when
\* one call fails of several that a conversion makes.
CountTold ==
  ~gap =>
    /\ count + sum = pos
    /\ pc = "done" => rc = pos
    /\ pc = "failed" => ErrorNotReturned
    /\ \A k \in DOMAIN pieces : starts[k].count = starts[k].pos

\* The length of the buffer when it was made longer for the last text.
JustGrown == Len(mem) = (3 * pos) \div 2 + 1

\* The string's buffer keeps room for the 0 that ends it, and holds no byte that nobody
\* wrote before it.  The 0 is there when the buffer was made longer for the last text;
\* behind one that did fit in it may be missing, though "The buffer will always be null
\* terminated" by whprintf.c:1346-1352.
RoomLeft ==
  sink = "string" =>
    /\ mem # <<>> => pos < Len(mem)
    /\ mem # <<>> /\ JustGrown => mem[pos + 1] = 0
    /\ Junk \notin Range(SubSeq(mem, 1, pos))

\* Formatting is what the conversions say, counted truly and kept within the buffer,
\* however the appenders fail (whprintfv, its spec_handlers and its appenders), with the
\* exceptions NotAsPrintf, ErrorNotReturned and a 0 that is missing behind the string.
OutputTold == TextTold /\ CountTold /\ RoomLeft
=============================================================================
