----------------------------- MODULE WhioMemory -----------------------------
(***************************************************************************)
(* The devices of whio: a buffer in memory that grows or does not, memory  *)
(* of the client that may be read only, and a file of the host; with two   *)
(* kinds of devices on parts of them, windows (whio_dev_subdev) and        *)
(* windows of records of one size (whio_blockdev).                         *)
(*                                                                         *)
(* Positions are absolute: the three bases of a seek only compute them.    *)
(* The end-of-file and error flags are left out.                           *)
(***************************************************************************)
EXTENDS Integers, Sequences

CONSTANTS
  Sub,         \* the devices on parts of the device
  Kind,        \* the kinds of devices of this instance
  Byte,        \* the values of a byte; 0 is one
  Windows,     \* the windows of parts, as <<lower, upper>>
  RecordSize,  \* the size of the records of a whio_blockdev
  Factor,      \* expfactor in percent
  MaxPos,      \* bounds positions and lengths
  MaxIo        \* bounds what a call reads or writes

ASSUME ByteAssumption == 0 \in Byte
ASSUME KindAssumption == Kind \subseteq {"growing", "fixed", "map", "const map", "file"}
ASSUME SizesAssumption ==
  /\ RecordSize \in Nat \ {0} /\ Factor \in Nat /\ Factor >= 100
  /\ MaxPos \in Nat /\ MaxIo \in 1..MaxPos
ASSUME WindowsAssumption ==
  /\ Windows \subseteq (0..MaxPos) \X (0..MaxPos)
  /\ \A w \in Windows : w[2] = 0 \/ w[2] > w[1]

VARIABLES
  dev,     \* the device: kind, buffer, size (the end of file), pos
  sub,     \* for each part: lower, upper, pos
  answer,  \* the bytes that the last call transferred
  overrun  \* a write went behind the end of the buffer

vars == <<dev, sub, answer, overrun>>

Some(n) == [1..n -> Byte]
Upto(n) == UNION {Some(m) : m \in 0..n}
Least(a, b) == IF a <= b THEN a ELSE b
Most(a, b) == IF a >= b THEN a ELSE b

\* The allocated bytes.
Alloced(d) == Len(d.buffer)

\* A buffer that grew may be longer than MaxPos.
Device == [kind : Kind, buffer : Seq(Byte), size : 0..MaxPos, pos : 0..MaxPos]
Part == [lower : 0..MaxPos, upper : 0..MaxPos, pos : 0..MaxPos]

\* The factories: a new buffer is zero, memory of the client is not empty.
Init ==
  /\ \E k \in Kind, b \in Upto(MaxIo) :
       /\ k \in {"growing", "fixed"} => \A i \in DOMAIN b : b[i] = 0
       /\ k \in {"map", "const map"} => b # <<>>
       /\ dev = [kind |-> k, buffer |-> b, size |-> Len(b), pos |-> 0]
  /\ sub = [s \in Sub |-> [lower |-> 0, upper |-> 0, pos |-> 0]]
  /\ answer = <<>>
  /\ overrun = FALSE

-----------------------------------------------------------------------------
(***************************************************************************)
(* What a call does to a device d.  got: realloc() found the memory.       *)
(***************************************************************************)

\* n bytes of memory that begin with b; new memory is cleared.
Realloc(b, n) == [i \in 1..n |-> IF i <= Len(b) THEN b[i] ELSE 0]

\* What a growing buffer grows to at least.
Grown(d, n) == IF d.kind = "growing" THEN Most(n, (Alloced(d) * (Factor + 1)) \div 100) ELSE n

\* Whether a growing buffer of n bytes is worth giving memory back.
Shrinks(d, n) == d.kind = "growing" /\ n * Factor < Alloced(d) * 100

\* whio_dev_membuf_trunc.
TruncMembuf(d, n, got) ==
  CASE n > Alloced(d) /\ got  ->
         [d EXCEPT !.buffer = Realloc(@, Grown(d, n)), !.size = n]
    [] n > Alloced(d) /\ ~got -> d
    [] n <= Alloced(d) /\ Shrinks(d, n) /\ (got \/ n = 0) ->
         [d EXCEPT !.buffer = Realloc(@, n), !.size = n]
    [] OTHER -> [d EXCEPT !.size = n]

\* whio_dev_memmap_trunc.
TruncMemmap(d, n) == IF n > Alloced(d) THEN d ELSE [d EXCEPT !.size = n]

\* ftruncate().
TruncFile(d, n, got) ==
  IF got THEN [d EXCEPT !.buffer = Realloc(@, n), !.size = n] ELSE d

Trunc(d, n, got) ==
  CASE d.kind \in {"growing", "fixed"}  -> TruncMembuf(d, n, got)
    [] d.kind \in {"map", "const map"}  -> TruncMemmap(d, n)
    [] d.kind = "file"                  -> TruncFile(d, n, got)

\* What is read from there on.
Bytes(d, n) == SubSeq(d.buffer, d.pos + 1, Least(d.pos + n, d.size))

Skip(d, n) == [d EXCEPT !.pos = @ + n]

\* s in the buffer at the position, which moves behind it.
Put(d, s) ==
  Skip([d EXCEPT !.buffer = [i \in 1..Alloced(d) |->
         IF i - d.pos \in DOMAIN s THEN s[i - d.pos] ELSE d.buffer[i]]], Len(s))

\* The device before a write up to newEnd: a buffer is made longer first.
Widened(d, newEnd, got) ==
  CASE d.kind = "growing" /\ newEnd >= d.size -> Trunc(d, newEnd, got)
    [] d.kind = "fixed" /\ newEnd >= d.size   -> [d EXCEPT !.size = Least(newEnd, Alloced(d))]
    [] d.kind = "file" /\ newEnd >= d.size    -> TruncFile(d, newEnd, TRUE)
    [] OTHER -> d

\* How many of n bytes fit between the position and the end.
Fits(d, n) == IF d.kind = "const map" THEN 0 ELSE Least(n, Most(0, d.size - d.pos))

\* What fits is written.
Stored(d, s, got) ==
  LET e == Widened(d, d.pos + Len(s), got)
      t == SubSeq(s, 1, Fits(e, Len(s)))
  IN [dev |-> Put(e, t), answer |-> t]

\* A write to a file of the host may also stop earlier.
Written(d, s, got) ==
  CASE s = <<>>          -> {[dev |-> d, answer |-> s]}
    [] d.kind = "file"   -> {Stored(d, SubSeq(s, 1, k), got) : k \in 1..Len(s)}
                              \cup {[dev |-> d, answer |-> <<>>]}
    [] OTHER             -> {Stored(d, s, got)}

\* The buffer could not grow and the position is not before its end: the end of
\* file is set behind the buffer nevertheless and the bytes are copied there.
Overruns(d, s, got) ==
  /\ d.kind = "growing" /\ s # <<>> /\ ~got
  /\ d.pos + Len(s) > Alloced(d) /\ d.pos >= d.size

-----------------------------------------------------------------------------
(***************************************************************************)
(* Calls on the device.                                                    *)
(***************************************************************************)

InBounds(p, n) == p + n <= MaxPos

ReadFrom(p) ==
  /\ \E n \in 1..MaxIo : answer' = Bytes([dev EXCEPT !.pos = p], n)
  /\ dev' = Skip([dev EXCEPT !.pos = p], Len(answer'))
  /\ UNCHANGED <<sub, overrun>>

\* A write of s to d; then keep(d) is the device.
WriteTo(d, s, keep(_)) ==
  \E got \in BOOLEAN :
    \/ /\ ~Overruns(d, s, got)
       /\ \E r \in Written(d, s, got) : dev' = keep(r.dev) /\ answer' = r.answer
       /\ UNCHANGED overrun
    \/ Overruns(d, s, got) /\ overrun' = TRUE /\ UNCHANGED <<dev, answer>>

Itself(d) == d

WriteFrom(p) ==
  \E s \in Upto(MaxIo) \ {<<>>} :
    /\ InBounds(p, Len(s))
    /\ WriteTo([dev EXCEPT !.pos = p], s, Itself)
    /\ UNCHANGED sub

Read == ReadFrom(dev.pos)
Write == WriteFrom(dev.pos)

\* whio_dev_readat and whio_dev_writeat.
ReadAt == \E p \in 0..MaxPos : ReadFrom(p)
WriteAt == \E p \in 0..MaxPos : WriteFrom(p)

Seek ==
  /\ \E p \in 0..MaxPos : dev' = [dev EXCEPT !.pos = p]
  /\ answer' = <<>>
  /\ UNCHANGED <<sub, overrun>>

Truncate ==
  /\ \E n \in 0..MaxPos, got \in BOOLEAN :
       InBounds(Grown(dev, n), 0) /\ dev' = Trunc(dev, n, got)
  /\ answer' = <<>>
  /\ UNCHANGED <<sub, overrun>>

-----------------------------------------------------------------------------
(***************************************************************************)
(* Calls on a part: the device is moved to its position and, after a read  *)
(* or a write, moved back.  w is the window with its position.             *)
(***************************************************************************)

Outside(w) == w.pos < w.lower \/ w.pos >= w.upper

Room(w) == IF Outside(w) THEN 0 ELSE w.upper - w.pos

\* The device where a part begins, and where it was.
MoveTo(w) == [dev EXCEPT !.pos = w.pos]

\* Mutant: the position of the device is not put back.
LeaveMoved(d, p) == d

MoveBack(d, p) == [d EXCEPT !.pos = p]

PartAdvances(s, w) == sub' = [sub EXCEPT ![s] = [w EXCEPT !.pos = @ + Len(answer')]]

\* p is where the device is left.
ReadIn(s, w, p) ==
  /\ \E n \in 1..MaxIo : answer' = Bytes(MoveTo(w), Least(n, Room(w)))
  /\ dev' = MoveBack(Skip(MoveTo(w), Len(answer')), p)
  /\ PartAdvances(s, w)
  /\ UNCHANGED overrun

WriteIn(s, w, p) ==
  LET Back(d) == MoveBack(d, p) IN
  \E b \in Upto(MaxIo) \ {<<>>} :
    LET c == SubSeq(b, 1, Least(Len(b), Room(w))) IN
    /\ InBounds(w.pos, Len(c))
    /\ IF c = <<>>
       THEN dev' = Back(dev) /\ answer' = c /\ UNCHANGED overrun
       ELSE WriteTo(MoveTo(w), c, Back)
    /\ IF overrun' THEN UNCHANGED sub ELSE PartAdvances(s, w)

PartRead(s) == ReadIn(s, sub[s], dev.pos)
PartWrite(s) == WriteIn(s, sub[s], dev.pos)

\* The device is moved, too.  A seek back may end before the window.
PartSeek(s) ==
  \E p \in 0..MaxPos :
    /\ sub' = [sub EXCEPT ![s].pos = p]
    /\ dev' = MoveTo(sub'[s])
    /\ answer' = <<>>
    /\ UNCHANGED overrun

\* whio_blockdev_read and whio_blockdev_write: a seek and a transfer of one record.
Records(s) == {i \in 0..MaxPos : sub[s].lower + (i + 1) * RecordSize <= sub[s].upper}

RecordAt(s, i) == [sub[s] EXCEPT !.pos = sub[s].lower + i * RecordSize]

Record(s) ==
  \E i \in Records(s) :
    LET w == RecordAt(s, i) IN ReadIn(s, w, w.pos) \/ WriteIn(s, w, w.pos)

\* whio_dev_subdev_create and whio_dev_subdev_rebound.
Rebound(s) ==
  /\ \E w \in Windows :
       sub' = [sub EXCEPT ![s] = [lower |-> w[1], upper |-> w[2], pos |-> w[1]]]
  /\ answer' = <<>>
  /\ UNCHANGED <<dev, overrun>>

\* What the program does with its memory overwritten is not known.
Ruined == overrun /\ UNCHANGED vars

Next ==
  \/ ~overrun /\ (Read \/ Write \/ ReadAt \/ WriteAt \/ Seek \/ Truncate)
  \/ ~overrun /\ \E s \in Sub : \/ PartRead(s) \/ PartWrite(s) \/ PartSeek(s)
                               \/ Record(s) \/ Rebound(s)
  \/ Ruined

Spec == Init /\ [][Next]_vars

-----------------------------------------------------------------------------
(***************************************************************************)
(* Properties.                                                             *)
(***************************************************************************)

TypeOK ==
  /\ dev \in Device /\ dev.size <= Alloced(dev)
  /\ sub \in [Sub -> Part]
  /\ answer \in Upto(MaxIo)
  /\ overrun \in BOOLEAN

\* A device is the sequence of bytes up to its end of file, whatever is in its buffer.
Abstract ==
  INSTANCE WhioDevice WITH
    data <- SubSeq(dev.buffer, 1, dev.size), pos <- dev.pos, part <- sub

\* Every call does what whio_devs.h promises (whio_devs.h:315-400), but for two kinds of
\* calls on parts: those that WhioDevice names, in which the code does otherwise.  A
\* part without upper bound transfers nothing, where the header says unlimited, and a
\* seek of a part, or for a record, moves the device, where it says independent.
ImplementsDevice == Abstract!Spec
=============================================================================
