------------------------------ MODULE Iqunpack ------------------------------
(***************************************************************************)
(* iqunpack: the search of a container for profiles, and the expansion of  *)
(* those it finds into the output file.  lzUncompress takes one token at a *)
(* time, the rest of the program one file at a time.                       *)
(*                                                                         *)
(* A byte has 2 * Half values here instead of 256: the lower half of them  *)
(* are what 7 bits can hold.  Profiles consist of whole tokens that lead   *)
(* back no further than to the beginning of the output; the size they      *)
(* declare may be wrong.  Every read may fail, and a write may be short.   *)
(***************************************************************************)
EXTENDS Integers, Sequences, SequencesExt, Bitwise

CONSTANTS
  LastId,    \* options.inode_count
  Names,     \* names of files
  NoName,    \* the name of an inode without a file
  Half,      \* 128 in the code
  Profiles,  \* what profiles consist of: tokens, and the size they declare
  Outfiles   \* what may be in the output file before

VARIABLES
  name, content,  \* inode -> its name, and what is in its file
  i,              \* the inode that main has come to
  file,           \* the inode of the file that is open
  at,             \* how far lzUncompress is in the body of the file
  out, outlen,    \* what it has made, and the room it has for that
  outfile,        \* what is in the output file
  skipped,        \* the inodes that could not be read
  pc, rc

vars == <<name, content, i, file, at, out, outlen, outfile, skipped, pc, rc>>

Ids == 1..LastId
Base == 2 * Half
Magic == <<130, 41, 9, 0>>
Junk == -1

From(s, k) == SubSeq(s, k, Len(s))

-----------------------------------------------------------------------------
(***************************************************************************)
(* Profiles.  A token is a literal or a copy of what came before.          *)
(***************************************************************************)

Lit(s) == [kind |-> "lit", bytes |-> s]
Copy(d, n) == [kind |-> "copy", back |-> d, count |-> n]

\* What the tokens stand for.
Meaning(tokens) ==
  FoldLeft(LAMBDA s, t :
             s \o (IF t.kind = "lit" THEN t.bytes
                   ELSE [k \in 1..t.count |-> s[Len(s) + 1 - t.back + ((k - 1) % t.back)]]),
           <<>>, tokens)

\* Numbers, seven bits a byte; the key of the byte that has p bytes before it in the
\* body (0x55 and four bytes more, counted from the fourth of the file).
Number(v) == IF v < Half THEN <<v>> ELSE <<Half + (v % Half), v \div Half>>
Key(p) == (85 + 4 + p) % Base

Body(profile) ==
  FoldLeft(LAMBDA b, t :
             b \o (IF t.kind = "lit"
                   THEN <<Len(t.bytes)>>
                        \o [k \in DOMAIN t.bytes |-> t.bytes[k] ^^ Key(Len(b) + k)]
                   ELSE <<Half + t.count - 2>> \o Number(t.back - 1)),
           Number(profile.declared), profile.tokens)

\* A file: its first eight bytes say whether it is a profile, if it has as many.
Plain == [kind |-> "plain"]
Short == [kind |-> "short"]
Profile(p) == [kind |-> "ZLQI", body |-> Body(p), profile |-> p]
Files == {Plain, Short} \cup {Profile(p) : p \in Profiles}

-----------------------------------------------------------------------------
(***************************************************************************)
(* main: the loop over all inodes, from 0 on.                              *)
(***************************************************************************)

NextInode == i' = i + 1 /\ pc' = "scan" /\ UNCHANGED rc
Exit(r) == pc' = "exit" /\ rc' = r /\ UNCHANGED i

\* "For some reason some of the inodes return an error": inode 0 always does, and any
\* other may.
Unreadable ==
  /\ pc = "scan" /\ i <= LastId
  /\ skipped' = skipped \cup {i}
  /\ NextInode
  /\ UNCHANGED <<name, content, file, at, out, outlen, outfile>>

Unnamed ==
  /\ pc = "scan" /\ i \in Ids
  /\ name[i] = NoName
  /\ NextInode
  /\ UNCHANGED <<name, content, file, at, out, outlen, outfile, skipped>>

\* The file is opened by its name.
Open ==
  /\ pc = "scan" /\ i \in Ids
  /\ name[i] # NoName
  /\ \E f \in Ids :
       /\ name[f] = name[i]
       /\ IF content[f].kind = "ZLQI"
          THEN file' = f /\ pc' = "profile" /\ UNCHANGED <<i, rc>>
          ELSE NextInode /\ UNCHANGED file
  /\ UNCHANGED <<name, content, at, out, outlen, outfile, skipped>>

\* Mutant: the last inode is left out.
ScannedEarly ==
  /\ pc = "scan" /\ i >= LastId
  /\ Exit(0)
  /\ UNCHANGED <<name, content, file, at, out, outlen, outfile, skipped>>

Scanned ==
  /\ pc = "scan" /\ i > LastId
  /\ Exit(0)
  /\ UNCHANGED <<name, content, file, at, out, outlen, outfile, skipped>>

-----------------------------------------------------------------------------
(***************************************************************************)
(* handleProfile.                                                          *)
(***************************************************************************)

body == content[file].body

\* A number at p with the bytes after it: the third one is shifted by 15.
ReadNumber(p) ==
  LET low(k) == body[p + k] % Half
      more(k) == body[p + k] >= Half
  IN IF ~more(0) THEN [value |-> low(0), next |-> p + 1]
     ELSE IF ~more(1) THEN [value |-> low(0) + Half * low(1), next |-> p + 2]
     ELSE [value |-> low(0) + Half * low(1) + 2 * Half * Half * low(2), next |-> p + 3]

\* The bytes of a size are skipped while they say that there are more.
AfterSize == SelectInSeq(body, LAMBDA c : c < Half) + 1

Begin ==
  /\ pc = "profile"
  /\ outlen' = ReadNumber(1).value
  /\ out' = <<>>
  /\ at' = AfterSize
  /\ pc' = "expand"
  /\ UNCHANGED <<name, content, i, file, outfile, skipped, rc>>

\* Stat, seek, read or memory fails, or the output file cannot be opened.
Fails ==
  /\ pc \in {"profile", "write"}
  /\ Exit(1)
  /\ UNCHANGED <<name, content, file, at, out, outlen, outfile, skipped>>

\* Mutant: a copy may end one byte behind the room.
EmitOneMore(s, next) ==
  IF Len(s) <= outlen + 1
  THEN out' = s /\ at' = next /\ UNCHANGED <<i, pc, rc>>
  ELSE Exit(1) /\ UNCHANGED <<out, at>>

\* The room for the output is never exceeded: lzUncompress gives up before.
Emit(s, next) ==
  IF Len(s) <= outlen
  THEN out' = s /\ at' = next /\ UNCHANGED <<i, pc, rc>>
  ELSE Exit(1) /\ UNCHANGED <<out, at>>

\* The bytes that are copied may be among those that the copy makes.
CopyToken ==
  /\ pc = "expand" /\ at <= Len(body)
  /\ body[at] >= Half
  /\ LET offset == ReadNumber(at + 1)
         step(s, k) == Append(s, s[Len(s) - offset.value])
     IN Emit(FoldLeft(step, out, [k \in 1 .. (body[at] % Half) + 2 |-> k]), offset.next)
  /\ UNCHANGED <<name, content, file, outlen, outfile, skipped>>

\* Mutant: the key does not change along a literal.
LitTokenOneKey ==
  /\ pc = "expand" /\ at <= Len(body)
  /\ body[at] < Half
  /\ LET num == 85 + 4 + at
     IN Emit(out \o [k \in 1..body[at] |-> body[at + k] ^^ (num % Base)],
             at + body[at] + 1)
  /\ UNCHANGED <<name, content, file, outlen, outfile, skipped>>

LitToken ==
  /\ pc = "expand" /\ at <= Len(body)
  /\ body[at] < Half
  /\ LET num == 85 + 4 + at
     IN Emit(out \o [k \in 1..body[at] |-> body[at + k] ^^ ((num + k - 1) % Base)],
             at + body[at] + 1)
  /\ UNCHANGED <<name, content, file, outlen, outfile, skipped>>

Expanded ==
  /\ pc = "expand" /\ at > Len(body)
  /\ pc' = "write"
  /\ UNCHANGED <<name, content, i, file, at, out, outlen, outfile, skipped, rc>>

\* The first four bytes, and all of the room: what lzUncompress did not reach is what
\* malloc left there.
Output == Magic \o out \o [k \in 1 .. outlen - Len(out) |-> Junk]

\* The file is not emptied before.
Write ==
  /\ pc = "write"
  /\ \E n \in 0..Len(Output) :
       /\ outfile' = SubSeq(Output, 1, n) \o From(outfile, n + 1)
       /\ IF n = Len(Output) THEN NextInode ELSE Exit(1)
  /\ UNCHANGED <<name, content, file, at, out, outlen, skipped>>

-----------------------------------------------------------------------------
\* The root and inodes without a file have no name.
Init ==
  /\ name \in {n \in [Ids -> Names \cup {NoName}] : n[1] = NoName}
  /\ content \in {c \in [Ids -> Files] : \A f \in Ids : name[f] = NoName => c[f] = Short}
  /\ outfile \in Outfiles
  /\ i = 0 /\ file = 1 /\ at = 1
  /\ out = <<>> /\ outlen = 0
  /\ skipped = {}
  /\ pc = "scan" /\ rc = -1

Next ==
  \/ Unreadable \/ Unnamed \/ Open \/ Scanned
  \/ Begin \/ Fails \/ CopyToken \/ LitToken \/ Expanded \/ Write

Spec == Init /\ [][Next]_vars

-----------------------------------------------------------------------------
(***************************************************************************)
(* Properties.                                                             *)
(***************************************************************************)

MeaningOf(f) == Meaning(content[f].profile.tokens)

\* lzUncompress makes what the tokens mean, from the beginning on and byte by byte
\* (keys, distances of one and two bytes, and copies that overlap themselves), puts
\* nothing behind the room there is, and gives up if a profile has more in it than it
\* declares.
ExpandsTruly ==
  /\ Len(out) <= outlen
  /\ pc = "expand" => IsPrefix(out, MeaningOf(file))
  /\ pc = "write" => /\ out = MeaningOf(file)
                     /\ Len(out) <= content[file].profile.declared

\* The profiles that a run can find, and the last of them.
Found == {f \in Ids \ skipped : name[f] # NoName /\ content[f].kind = "ZLQI"}
LastFound == CHOOSE f \in Found : \A g \in Found : g <= f
NamesDiffer == \A f, g \in Ids : name[f] = name[g] /\ name[f] # NoName => f = g

Wanted == Magic \o MeaningOf(LastFound)

\* A run that succeeds has looked at every inode: the output begins with the profile
\* of the last inode that has one, and is as it was if there is none.
LastProfileWritten ==
  rc = 0 /\ NamesDiffer =>
    IF Found = {} THEN outfile \in Outfiles ELSE IsPrefix(Wanted, outfile)

\* The output file is the expanded profile ("will decompress the profile and write it
\* to the specified output file", iqunpack.c:7-8), if that declares its size.
OutfileIsProfile ==
  rc = 0 /\ NamesDiffer /\ Found # {}
    /\ content[LastFound].profile.declared = Len(MeaningOf(LastFound))
  => outfile = Wanted
=============================================================================
