------------------------------- MODULE WhGlob -------------------------------
(***************************************************************************)
(* The matching of names against patterns (whglob.c), which whefs_ls uses: *)
(* shell patterns and those of SQL's LIKE.  patternCompare walks over the  *)
(* text of a pattern; the properties hold it against what the pattern is   *)
(* meant to say.  So a pattern is put together of parts here, each with    *)
(* its text and with the characters it stands for.                         *)
(*                                                                         *)
(* A character is its code.  How it is spelled in UTF-8 is left out.       *)
(***************************************************************************)
EXTENDS Integers, Sequences, SequencesExt

CONSTANTS
  Alphabet,   \* characters of the strings
  Globs,      \* parts of shell patterns
  Likes,      \* parts of LIKE patterns
  MaxParts,   \* bound on the parts of a pattern
  MaxLength   \* bound on the length of a string

VARIABLES
  kind,    \* "glob", "like" or "like_case": which function is called
  parts,   \* the parts of the pattern
  string   \* the string it is compared with

vars == <<kind, parts, string>>

Star == 42
Question == 63
Open == 91
Close == 93
Caret == 94
Dash == 45
Backslash == 92
Percent == 37
Underscore == 95
None == 0

\* How to compare: the characters that are special, and whether case counts.
Glob == [all |-> Star, one |-> Question, set |-> Open, esc |-> Backslash, noCase |-> FALSE]
Like(noCase) ==
  [all |-> Percent, one |-> Underscore, set |-> None, esc |-> Percent, noCase |-> noCase]

\* Mutant: lower case whatever is asked for.
LowerAlways(c, how) == IF c \in 65..90 THEN c + 32 ELSE c

Lower(c, how) == IF how.noCase /\ c \in 65..90 THEN c + 32 ELSE c

From(s, i) == SubSeq(s, i, Len(s))

RECURSIVE Compare(_, _, _, _), SetBody(_, _)

\* The characters of a list up to its end, and what follows.  A dash stands for a
\* range if something is on both sides of it.
SetBody(p, prior) ==
  IF p = <<>> \/ Head(p) = Close
  THEN [closed |-> p # <<>>, chars |-> {}, rest |-> From(p, 2)]
  ELSE LET range == Head(p) = Dash /\ Len(p) > 1 /\ p[2] # Close /\ prior # None
           later == IF range THEN SetBody(From(p, 3), None) ELSE SetBody(Tail(p), Head(p))
       IN [later EXCEPT !.chars = @ \cup (IF range THEN prior..p[2] ELSE {Head(p)})]

\* Mutant: a bracket that comes first ends the list.
CompareSetPlain(p, s, escaped, how) ==
  LET invert == p # <<>> /\ Head(p) = Caret
      set == SetBody(From(p, IF invert THEN 2 ELSE 1), None)
  IN /\ s # <<>>
     /\ set.closed
     /\ (Head(s) \in set.chars) # invert
     /\ Compare(set.rest, Tail(s), escaped, how)

\* After "[".  A bracket that comes first belongs to the list.
CompareSet(p, s, escaped, how) ==
  LET invert == p # <<>> /\ Head(p) = Caret
      list == From(p, IF invert THEN 2 ELSE 1)
      bracket == list # <<>> /\ Head(list) = Close
      set == SetBody(From(list, IF bracket THEN 2 ELSE 1), None)
      chars == set.chars \cup (IF bracket THEN {Close} ELSE {})
  IN /\ s # <<>>
     /\ set.closed
     /\ (Head(s) \in chars) # invert
     /\ Compare(set.rest, Tail(s), escaped, how)

\* Mutant: only the first place where the string goes on as the pattern is tried.
CompareAllGreedy(p, s, how) ==
  LET n == SelectInSeq(p, LAMBDA c : c \notin {how.all, how.one})
      ones == Len(SelectSeq(SubSeq(p, 1, n - 1), LAMBDA c : c = how.one))
      first == SelectInSeq(From(s, ones + 1), LAMBDA c : Lower(c, how) = Lower(p[n], how))
  IN IF n = 0 THEN Len(s) >= Len(SelectSeq(p, LAMBDA c : c = how.one))
     ELSE /\ p[n] # how.set
          /\ Len(s) >= ones
          /\ first # 0
          /\ Compare(From(p, n + 1), From(s, ones + first + 1), FALSE, how)

\* After "*": the rest of the pattern, with the stars and question marks it begins
\* with taken off, is tried behind every place where its first character is.  A list
\* is never tried.
CompareAll(p, s, how) ==
  LET wild == SelectInSeq(p, LAMBDA c : c \notin {how.all, how.one})
      ones == Len(SelectSeq(IF wild = 0 THEN p ELSE SubSeq(p, 1, wild - 1),
                            LAMBDA c : c = how.one))
      at == IF p[wild] = how.esc THEN wild + 1 ELSE wild
      left == From(s, ones + 1)
  IN /\ Len(s) >= ones
     /\ \/ wild = 0
        \/ /\ at <= Len(p)
           /\ at = wild => p[at] # how.set
           /\ \E i \in DOMAIN left :
                /\ Lower(left[i], how) = Lower(p[at], how)
                /\ Compare(From(p, at + 1), From(left, i + 1), FALSE, how)

\* patternCompare; escaped says that the character before was the escape.
Compare(p, s, escaped, how) ==
  IF p = <<>> THEN s = <<>>
  ELSE LET c == Head(p) IN
    IF ~escaped /\ c = how.all THEN CompareAll(Tail(p), s, how)
    ELSE IF ~escaped /\ c = how.one THEN s # <<>> /\ Compare(Tail(p), Tail(s), FALSE, how)
    ELSE IF c = how.set THEN CompareSet(Tail(p), s, escaped, how)
    ELSE IF ~escaped /\ c = how.esc THEN Compare(Tail(p), s, TRUE, how)
    ELSE /\ s # <<>>
         /\ Lower(c, how) = Lower(Head(s), how)
         /\ Compare(Tail(p), Tail(s), FALSE, how)

whglob_matches(p, s) == Compare(p, s, FALSE, Glob)

whglob_matches_like(p, s, caseSensitive) == Compare(p, s, FALSE, Like(~caseSensitive))

-----------------------------------------------------------------------------
(***************************************************************************)
(* Patterns, part by part.                                                 *)
(***************************************************************************)

Many(c) == [text |-> <<c>>, many |-> TRUE, chars |-> Alphabet]
Single(c) == [text |-> <<c>>, many |-> FALSE, chars |-> Alphabet]
Char(c) == [text |-> <<c>>, many |-> FALSE, chars |-> {c}]
Escaped(c) == [text |-> <<Backslash, c>>, many |-> FALSE, chars |-> {c}]

\* A list: a bracket comes first, then single characters and ranges, then a dash.
List(not, bracket, items, dash) ==
  LET all == UNION ({i[1]..i[Len(i)] : i \in {items[k] : k \in DOMAIN items}}
                    \cup {IF bracket THEN {Close} ELSE {}, IF dash THEN {Dash} ELSE {}})
  IN [text |-> <<Open>> \o (IF not THEN <<Caret>> ELSE <<>>)
                \o (IF bracket THEN <<Close>> ELSE <<>>)
                \o FlattenSeq([k \in DOMAIN items |->
                     IF Len(items[k]) = 1 THEN items[k]
                     ELSE <<items[k][1], Dash, items[k][2]>>])
                \o (IF dash THEN <<Dash>> ELSE <<>>) \o <<Close>>,
      many |-> FALSE,
      chars |-> IF not THEN Alphabet \ all ELSE all \cap Alphabet]

Text == FlattenSeq([i \in DOMAIN parts |-> parts[i].text])

\* The string falls into pieces, one for each part.
Fits(eq(_, _)) ==
  \E cut \in [0..Len(parts) -> 0..Len(string)] :
    /\ cut[0] = 0
    /\ cut[Len(parts)] = Len(string)
    /\ \A i \in 1..Len(parts) :
         /\ IF parts[i].many THEN cut[i - 1] <= cut[i] ELSE cut[i] = cut[i - 1] + 1
         /\ \A k \in cut[i - 1] + 1 .. cut[i] : \E c \in parts[i].chars : eq(c, string[k])

Init ==
  /\ kind \in {"glob", "like", "like_case"}
  /\ parts = <<>>
  /\ string = <<>>

AddPart ==
  /\ Len(parts) < MaxParts
  /\ \E part \in IF kind = "glob" THEN Globs ELSE Likes : parts' = Append(parts, part)
  /\ UNCHANGED <<kind, string>>

AddChar ==
  /\ Len(string) < MaxLength
  /\ \E c \in Alphabet : string' = Append(string, c)
  /\ UNCHANGED <<kind, parts>>

Next == AddPart \/ AddChar

Spec == Init /\ [][Next]_vars

-----------------------------------------------------------------------------
(***************************************************************************)
(* Properties.                                                             *)
(***************************************************************************)

Same(c, d) == c = d
SameLetter(c, d) == Lower(c, Like(TRUE)) = Lower(d, Like(TRUE))

\* A list comes after a star, with nothing but stars and question marks between.
ListAfterStar ==
  \E i, k \in DOMAIN parts :
    /\ i < k
    /\ parts[i].many
    /\ parts[k].text[1] = Open
    /\ \A m \in i + 1 .. k - 1 : parts[m].text \in {<<Star>>, <<Question>>}

\* The functions match as whglob.h documents them: a star any characters, a question
\* mark one, a list one of its characters or one that is not in it, with brackets and
\* dashes where they may stand; for LIKE % any characters and _ one, with or without
\* case.  Backtracking never misses a match, with one exception, which no string can
\* match: a shell pattern with a list right after a star, which the rules at
\* whglob.h:31-34 do not except.
PatternsMatch ==
  /\ kind = "glob" => (whglob_matches(Text, string) <=> Fits(Same) /\ ~ListAfterStar)
  /\ kind = "like" => (whglob_matches_like(Text, string, FALSE) <=> Fits(SameLetter))
  /\ kind = "like_case" => (whglob_matches_like(Text, string, TRUE) <=> Fits(Same))
=============================================================================
