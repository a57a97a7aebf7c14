------------------------------ MODULE ByteFiles ------------------------------
(***************************************************************************)
(* What the pseudofiles of a whefs container promise to a client: a file   *)
(* is a sequence of bytes, each device has a position in its file, and     *)
(* there are no blocks, lists or hints.  A write may transfer fewer bytes  *)
(* than asked for; the gap a write leaves behind the end of the file, and  *)
(* the bytes a truncation adds, are zero.                                  *)
(***************************************************************************)
EXTENDS Integers, Sequences

CONSTANTS
  File,    \* the files there can be
  Handle,  \* the devices a client may have open
  Byte,    \* the values of a byte, 0 among them
  Length,  \* the lengths and positions there can be
  Absent   \* the content of a file that does not exist, no sequence

VARIABLES
  content,  \* [File -> Seq(Byte) \cup {Absent}]
  cur       \* the opened devices: [Handle -> [file, rw, pos]]

NoCursor == [file |-> 0, rw |-> FALSE, pos |-> 0]

FilesInit ==
  /\ content = [f \in File |-> Absent]
  /\ cur = [h \in Handle |-> NoCursor]

\* The first n bytes of s, filled up with zeroes.
Resized(s, n) == [k \in 1..n |-> IF k <= Len(s) THEN s[k] ELSE 0]

\* s after n bytes v were written at position p.
Overwritten(s, p, n, v) ==
  [k \in 1..(IF n > 0 /\ p + n > Len(s) THEN p + n ELSE Len(s)) |->
     IF k \in p + 1..p + n THEN v ELSE IF k <= Len(s) THEN s[k] ELSE 0]

OpenFile(h, f, rw) ==
  /\ cur[h] = NoCursor
  /\ content[f] # Absent
  /\ rw => \A g \in Handle : ~(cur[g].file = f /\ cur[g].rw)
  /\ cur' = [cur EXCEPT ![h] = [file |-> f, rw |-> rw, pos |-> 0]]
  /\ UNCHANGED content

CreateFile(h, f) ==
  /\ cur[h] = NoCursor
  /\ content[f] = Absent
  /\ cur' = [cur EXCEPT ![h] = [file |-> f, rw |-> TRUE, pos |-> 0]]
  /\ content' = [content EXCEPT ![f] = <<>>]

MoveCursor(h, p) ==
  /\ cur[h] # NoCursor
  /\ cur' = [cur EXCEPT ![h].pos = p]
  /\ UNCHANGED content

\* n bytes are transferred, of those asked for.
WriteBytes(h, n, v) ==
  LET f == cur[h].file IN
  /\ cur[h].rw
  /\ cur' = [cur EXCEPT ![h].pos = @ + n]
  /\ content' = [content EXCEPT ![f] = Overwritten(@, cur[h].pos, n, v)]

\* The position does not move.
ResizeFile(h, n) ==
  /\ cur[h].rw
  /\ UNCHANGED cur
  /\ content' = [content EXCEPT ![cur[h].file] = Resized(@, n)]

CloseFile(h) ==
  /\ cur[h] # NoCursor
  /\ cur' = [cur EXCEPT ![h] = NoCursor]
  /\ UNCHANGED content

\* A file that is open is not removed.
RemoveFile(f) ==
  /\ content[f] # Absent
  /\ \A h \in Handle : cur[h].file # f
  /\ UNCHANGED cur
  /\ content' = [content EXCEPT ![f] = Absent]

CloseAll ==
  /\ cur' = [h \in Handle |-> NoCursor]
  /\ UNCHANGED content

FilesNext ==
  \/ \E h \in Handle, f \in File, rw \in BOOLEAN : OpenFile(h, f, rw)
  \/ \E h \in Handle, f \in File : CreateFile(h, f)
  \/ \E h \in Handle, p \in Length : MoveCursor(h, p)
  \/ \E h \in Handle, n \in Length, v \in Byte : WriteBytes(h, n, v)
  \/ \E h \in Handle, n \in Length : ResizeFile(h, n)
  \/ \E h \in Handle : CloseFile(h)
  \/ \E f \in File : RemoveFile(f)
  \/ CloseAll

FilesSpec == FilesInit /\ [][FilesNext]_<<content, cur>>
=============================================================================
