----------------------------- MODULE WhioDevice -----------------------------
(***************************************************************************)
(* What whio_dev.h and whio_devs.h promise of a device and of the devices  *)
(* on parts of it.  The device is a sequence of bytes with a position; a   *)
(* part is a window on it with a position of its own, whose reads and      *)
(* writes stay in the window and leave all other positions alone.          *)
(*                                                                         *)
(* How far a device can grow, and what is in bytes that nobody wrote, is   *)
(* left open.                                                              *)
(*                                                                         *)
(* In two points the code of parts does not keep what whio_devs.h says.    *)
(* These steps are NotPromised: an implementation may take them, and       *)
(* Promised alone is what the header says.                                 *)
(***************************************************************************)
EXTENDS Integers, Sequences

CONSTANTS
  Sub,    \* the devices on parts
  Byte,   \* the values of a byte
  MaxPos  \* bounds positions and lengths

VARIABLES
  data,   \* the bytes of the device
  pos,    \* its position
  part,   \* the window and the position of each part
  answer  \* the bytes that the last call transferred

vars == <<data, pos, part, answer>>

Upto(n) == {s \in Seq(Byte) : Len(s) <= n}
Least(a, b) == IF a <= b THEN a ELSE b

\* At most n bytes from position p on.
From(p, n) == SubSeq(data, p + 1, Least(p + n, Len(data)))

\* The bytes s are at p; what is between the end and p may be anything.  A write
\* of nothing may leave the device longer, with p at its end or behind it.
Holds(d, p, s) ==
  /\ Len(d) >= Len(data)
  /\ Len(d) > Len(data) => Len(d) <= p + Len(s) /\ (s # <<>> => Len(d) = p + Len(s))
  /\ s # <<>> => p + Len(s) <= Len(d) /\ SubSeq(d, p + 1, p + Len(s)) = s
  /\ \A i \in 1..Len(data) : i \notin (p + 1)..(p + Len(s)) => d[i] = data[i]

\* Whether a window has an upper bound: 0 stands for none.
Limited(w) == w.upper # 0

\* How many bytes from its position on are in a window.
Room(w) == IF w.pos \in w.lower..(w.upper - 1) THEN w.upper - w.pos ELSE 0

Init ==
  /\ data \in Upto(MaxPos)
  /\ pos = 0
  /\ part = [s \in Sub |-> [lower |-> 0, upper |-> 0, pos |-> 0]]
  /\ answer = <<>>

ReadFrom(p) ==
  /\ \E n \in 0..MaxPos : answer' = From(p, n)
  /\ pos' = p + Len(answer')
  /\ UNCHANGED <<data, part>>

WriteTo(p) ==
  /\ answer' \in Upto(MaxPos)
  /\ data' \in Upto(MaxPos) /\ Holds(data', p, answer')
  /\ pos' = p + Len(answer')
  /\ UNCHANGED part

Read == ReadFrom(pos)
Write == WriteTo(pos)
ReadAt == \E p \in 0..MaxPos : ReadFrom(p)
WriteAt == \E p \in 0..MaxPos : WriteTo(p)

Seek ==
  /\ pos' \in 0..MaxPos
  /\ answer' = <<>>
  /\ UNCHANGED <<data, part>>

\* Grown bytes may be anything.
Truncate ==
  /\ data' \in Upto(MaxPos)
  /\ \A i \in 1..Least(Len(data), Len(data')) : data'[i] = data[i]
  /\ answer' = <<>>
  /\ UNCHANGED <<pos, part>>

\* A read and a write of part s, whose window and position are w.
ReadIn(s, w) ==
  /\ \E n \in 0..Room(w) : answer' = From(w.pos, n)
  /\ part' = [part EXCEPT ![s] = [w EXCEPT !.pos = @ + Len(answer')]]
  /\ UNCHANGED data

WriteIn(s, w) ==
  /\ answer' \in Upto(Room(w))
  /\ data' \in Upto(MaxPos) /\ Holds(data', w.pos, answer')
  /\ part' = [part EXCEPT ![s] = [w EXCEPT !.pos = @ + Len(answer')]]

PartRead(s) == Limited(part[s]) /\ ReadIn(s, part[s]) /\ UNCHANGED pos
PartWrite(s) == Limited(part[s]) /\ WriteIn(s, part[s]) /\ UNCHANGED pos

SeekTo(s, p) ==
  /\ part' = [part EXCEPT ![s].pos = p]
  /\ answer' = <<>>
  /\ UNCHANGED data

PartSeek(s) == UNCHANGED pos /\ \E p \in 0..MaxPos : SeekTo(s, p)

\* A record: the part is moved there first.
RecordAt(s, p) ==
  LET w == [part[s] EXCEPT !.pos = p] IN
  Limited(w) /\ (ReadIn(s, w) \/ WriteIn(s, w))

Record(s) == UNCHANGED pos /\ \E p \in part[s].lower..MaxPos : RecordAt(s, p)

Rebound(s) ==
  /\ \E l, u \in 0..MaxPos :
       part' = [part EXCEPT ![s] = [lower |-> l, upper |-> u, pos |-> l]]
  /\ answer' = <<>>
  /\ UNCHANGED <<data, pos>>

Promised ==
  \/ Read \/ Write \/ ReadAt \/ WriteAt \/ Seek \/ Truncate
  \/ \E s \in Sub : PartRead(s) \/ PartWrite(s) \/ PartSeek(s) \/ Record(s) \/ Rebound(s)

-----------------------------------------------------------------------------
(***************************************************************************)
(* What the code does instead.                                             *)
(***************************************************************************)

\* An upper bound of 0 "is treated as unlimited" (whio_devs.h:336-338).  A part with
\* it transfers nothing: no position is below 0 (whio_dev_subdev.c:139, 168).
UnlimitedIsEmpty(s) ==
  /\ ~Limited(part[s])
  /\ answer' = <<>>
  /\ UNCHANGED <<data, pos, part>>

\* "seek() and tell() work independently of the parent device" (whio_devs.h:373-374).
\* A seek of a part leaves the device at the position of the part
\* (whio_dev_subdev.c:263), and so do the seeks for the records.
SeekMovesDevice(s) == \E p \in 0..MaxPos : SeekTo(s, p) /\ pos' = p
RecordMovesDevice(s) == \E p \in part[s].lower..MaxPos : RecordAt(s, p) /\ pos' = p

NotPromised ==
  \E s \in Sub : UnlimitedIsEmpty(s) \/ SeekMovesDevice(s) \/ RecordMovesDevice(s)

Next == Promised \/ NotPromised

Spec == Init /\ [][Next]_vars
=============================================================================
