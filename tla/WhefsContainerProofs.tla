------------------------ MODULE WhefsContainerProofs ------------------------
(***************************************************************************)
(* Proofs of the safety properties of WhefsContainer, for any number of    *)
(* processes and blocks.  The lock on the file makes each writer alone     *)
(* (LockInv); so what a writer knows of the file at each stage of its call *)
(* (Knows) stays true until its next step, and the file is sound whenever  *)
(* nobody is in the middle of a change (FileSound).                        *)
(***************************************************************************)
EXTENDS WhefsContainer, TLAPS

-----------------------------------------------------------------------------
(***************************************************************************)
(* The inductive invariant.                                                *)
(***************************************************************************)

\* The stages that format blocks have one left to format.
Formats == {"options", "hints", "tables"} \cup Magic \cup Append
Progress == \A p \in Proc : pc[p] \in Formats => fs[p].done < fs[p].blocks

\* The stages that only a handle for writing comes to.
Writes == {"create", "wait mkfs", "save"} \cup Mkfs \cup Append

LockInv ==
  /\ \A p \in Proc :
       lock[p] = IF pc[p] \in Inside THEN (IF fs[p].rw THEN "write" ELSE "read") ELSE "none"
  /\ \A p, q \in Proc : p # q /\ lock[p] = "write" => lock[q] = "none"
  /\ \A p \in Proc : pc[p] \in Writes => fs[p].rw

Formatted(f, n) == 0..n \subseteq f.wiped

\* A file that has the size of a container is one.
Sound(f) ==
  f.size # 0 => f.size = f.len /\ f.blocks = f.size /\ Formatted(f, f.blocks)

\* The same of a file whose length may have changed.
SoundIfAgreed(f) ==
  SizesAgree(f) => f.blocks = f.size /\ Formatted(f, f.blocks)

\* What whefs_openfs looks for is there.
Marked(f) == f.magic /\ f.client /\ f.sizes /\ f.hints

\* What holds of file f when a process with handle h is at a stage.
Knows(stage, h, f) ==
  /\ stage \in {"magic", "no size"} => SoundIfAgreed(f)
  /\ stage \in {"client length", "client magic", "options", "hints", "tables", "size"}
       => f.magic /\ f.size = 0
  /\ stage \in {"client magic", "options", "hints", "tables", "size"} => f.client
  /\ stage \in {"hints", "tables", "size"} => f.sizes
  /\ stage \in {"hints", "tables", "size"} => f.blocks = h.blocks
  /\ stage \in {"tables", "size"} => f.hints /\ Formatted(f, h.done)
  /\ stage = "size" => h.done = h.blocks
  /\ stage \in Append \cup {"open"} => Marked(f) /\ f.len = h.blocks /\ h.blocks # 0
  /\ stage \in Append => Formatted(f, h.done)
  /\ stage \in {"new options", "new blocks", "open"} => f.size = h.blocks
  /\ stage \in {"new blocks", "open"} => f.blocks = h.blocks

Busy == {"magic", "no size"} \cup Append

FileSound == Sound(file) \/ \E p \in Proc : pc[p] \in Busy

DataInv == FileSound /\ \A p \in Proc : Knows(pc[p], fs[p], file)

\* The block count of a new container, none of which is formatted before "tables".
Unformatted == {"options", "hints"} \cup Magic

Chosen ==
  /\ \A p \in Proc : pc[p] \in Unformatted => fs[p].done = -1
  /\ \A p \in Proc : pc[p] \in Unformatted \cup {"tables", "size"} => fs[p].blocks # 0

Safe == TypeOK /\ Progress /\ LockInv

IInv == Safe /\ Chosen /\ (~damaged => DataInv)

-----------------------------------------------------------------------------
(***************************************************************************)
(* What a step of process p does to p, and that it leaves the others alone. *)
(***************************************************************************)

Step(p) == Call(p) \/ Proceed(p) \/ Crash(p)

\* The new stage, handle and lock of p.
Becomes(p, s, h, l) ==
  /\ pc' = [pc EXCEPT ![p] = s]
  /\ fs' = [fs EXCEPT ![p] = h]
  /\ lock' = [lock EXCEPT ![p] = l]

LockFor(s, h) == IF s \in Inside THEN (IF h.rw THEN "write" ELSE "read") ELSE "none"

\* What the invariant says of a process by itself.
Local(s, h, l) ==
  /\ s \in Stage /\ h \in Handle
  /\ s \in Formats => h.done < h.blocks
  /\ s \in Writes => h.rw
  /\ l = LockFor(s, h)

\* A lock is kept, given back, or taken when it is compatible.
LockMoves(p, l) ==
  l \in {lock[p], "none"}
    \/ (Compatible(p) /\ l = (IF fs[p].rw THEN "write" ELSE "read"))

\* Who changes the file, or repairs it, is its only user, or spoils it by w+b.
FileMoves(p) ==
  \/ file' = file /\ (damaged => damaged')
  \/ lock[p] = "write"
  \/ damaged' \/ \A q \in Proc : lock[q] = "none"

Shaped(p) ==
  /\ file' \in File /\ damaged' \in BOOLEAN
  /\ FileMoves(p)
  /\ \E s \in Stage, h \in Handle, l \in {"none", "read", "write"} :
       Becomes(p, s, h, l) /\ Local(s, h, l) /\ LockMoves(p, l)

LEMMA LocalOfEach ==
  ASSUME Safe, NEW p \in Proc
  PROVE  Local(pc[p], fs[p], lock[p])
BY DEF Safe, TypeOK, Progress, LockInv, Local, LockFor

LEMMA Unmoved ==
  ASSUME Safe, NEW p \in Proc
  PROVE  /\ fs = [fs EXCEPT ![p] = fs[p]]
         /\ pc = [pc EXCEPT ![p] = pc[p]]
         /\ lock = [lock EXCEPT ![p] = lock[p]]
BY DEF Safe, TypeOK

LEMMA ShapedBy ==
  ASSUME NEW p \in Proc, NEW s, NEW h, NEW l, Becomes(p, s, h, l), Local(s, h, l),
         LockMoves(p, l), FileMoves(p), file' \in File, damaged' \in BOOLEAN
  PROVE  Shaped(p)
<1>1. s \in Stage /\ h \in Handle /\ l \in {"none", "read", "write"} BY DEF Local, LockFor
<1> QED BY <1>1 DEF Shaped

\* A step that keeps the lock, or goes without.
LEMMA KeepsLock ==
  ASSUME Safe, NEW p \in Proc, NEW s \in Stage, NEW h \in Handle,
         pc' = [pc EXCEPT ![p] = s], fs' = [fs EXCEPT ![p] = h], lock' = lock,
         pc[p] \in Inside <=> s \in Inside,
         s \in Inside => h.rw = fs[p].rw,
         s \in Formats => h.done < h.blocks,
         s \in Writes => h.rw,
         file' \in File, damaged' \in BOOLEAN,
         FileMoves(p)
  PROVE  Shaped(p)
<1>1. Becomes(p, s, h, lock[p]) BY Unmoved DEF Becomes
<1>2. Local(s, h, lock[p])
  <2>1. lock[p] = LockFor(pc[p], fs[p]) BY LocalOfEach DEF Local
  <2>2. lock[p] = LockFor(s, h) BY <2>1 DEF LockFor
  <2> QED BY <2>2 DEF Local
<1>3. LockMoves(p, lock[p]) BY DEF LockMoves
<1> QED BY <1>1, <1>2, <1>3, ShapedBy

\* A step that keeps the handle as well.
LEMMA KeepsHandle ==
  ASSUME Safe, NEW p \in Proc, NEW s \in Stage,
         pc' = [pc EXCEPT ![p] = s], fs' = fs, lock' = lock,
         pc[p] \in Inside <=> s \in Inside,
         s \in Formats => pc[p] \in Formats,
         s \in Writes => fs[p].rw,
         file' \in File, damaged' \in BOOLEAN,
         FileMoves(p)
  PROVE  Shaped(p)
<1>1. fs[p] \in Handle /\ (pc[p] \in Formats => fs[p].done < fs[p].blocks)
  BY DEF Safe, TypeOK, Progress
<1>2. fs' = [fs EXCEPT ![p] = fs[p]] BY Unmoved
<1> DEFINE h == fs[p]
<1>3. h \in Handle /\ h.rw = fs[p].rw /\ (s \in Formats => h.done < h.blocks) /\ (s \in Writes => h.rw)
  BY <1>1
<1>4. fs' = [fs EXCEPT ![p] = h] BY <1>2
<1> HIDE DEF h
<1> QED BY <1>3, <1>4, KeepsLock

LEMMA WriterLocks ==
  ASSUME Safe, NEW p \in Proc, pc[p] \in Inside, fs[p].rw
  PROVE  lock[p] = "write"
BY DEF Safe, LockInv

LEMMA Typed ==
  ASSUME Safe, NEW p \in Proc
  PROVE  /\ file \in File /\ damaged \in BOOLEAN
         /\ pc[p] \in Stage /\ fs[p] \in Handle
         /\ pc[p] \in Writes => fs[p].rw
         /\ pc[p] \in Formats => fs[p].done < fs[p].blocks
BY DEF Safe, TypeOK, Progress, LockInv

-----------------------------------------------------------------------------
(***************************************************************************)
(* Every action has this shape.                                            *)
(***************************************************************************)

LEMMA ShapeOfOpening ==
  ASSUME Safe, NEW p \in Proc,
         (\E rw \in BOOLEAN : OpenFile(p, rw)) \/ OpenOrCreate(p) \/ Create(p)
  PROVE  Shaped(p)
<1>1. ASSUME NEW rw \in BOOLEAN, OpenFile(p, rw) PROVE Shaped(p)
  <2> DEFINE h == [rw |-> rw, blocks |-> 0, done |-> -1]
  <2>1. h \in Handle BY MaxBlocksAssumption DEF Handle
  <2>2. [Closed EXCEPT !.rw = rw] = h BY DEF Closed
  <2>3. /\ pc' = [pc EXCEPT ![p] = "wait open"] /\ fs' = [fs EXCEPT ![p] = h] /\ lock' = lock
        /\ pc[p] = "out" /\ file' = file /\ damaged' = damaged
    BY <1>1, <2>2 DEF OpenFile, Go
  <2>4. /\ "wait open" \in Stage /\ "wait open" \notin Inside /\ "out" \notin Inside
        /\ "wait open" \notin Formats /\ "wait open" \notin Writes
    BY DEF Stage, Waits, Inside, Mkfs, Magic, Append, Closing, Formats, Writes
  <2> HIDE DEF h
  <2> QED BY <2>1, <2>3, <2>4, KeepsLock, Typed DEF FileMoves
<1>2. CASE OpenOrCreate(p)
  <2> DEFINE h == [rw |-> TRUE, blocks |-> 0, done |-> -1]
             s == IF file.exists THEN "wait mkfs" ELSE "create"
  <2>1. h \in Handle /\ h.rw BY MaxBlocksAssumption DEF Handle
  <2>2. [Closed EXCEPT !.rw = TRUE] = h
    <3>1. \A rw : [Closed EXCEPT !.rw = rw] = [rw |-> rw, blocks |-> 0, done |-> -1] BY DEF Closed
    <3> QED BY <3>1
  <2>3. /\ pc' = [pc EXCEPT ![p] = s] /\ fs' = [fs EXCEPT ![p] = h] /\ lock' = lock
        /\ pc[p] = "out" /\ file' = file /\ damaged' = damaged
    BY <1>2, <2>2 DEF OpenOrCreate, Go
  <2>4. s \in Stage /\ s \notin Inside /\ "out" \notin Inside /\ s \notin Formats
    BY DEF Stage, Waits, Inside, Mkfs, Magic, Append, Closing, Formats
  <2> HIDE DEF h, s
  <2> QED BY <2>1, <2>3, <2>4, KeepsLock, Typed DEF FileMoves
<1>3. CASE Create(p)
  <2>1. EmptyFile \in File
    <3>1. 0 \in 0..MaxBlocks /\ {} \in SUBSET (0..MaxBlocks) BY MaxBlocksAssumption
    <3>2. NoFile \in File BY <3>1 DEF NoFile, File
    <3> QED BY <3>2 DEF EmptyFile, File
  <2>2. FileMoves(p) BY <1>3 DEF Create, FileMoves
  <2>3. /\ pc' = [pc EXCEPT ![p] = "wait mkfs"] /\ fs' = fs /\ lock' = lock
        /\ pc[p] = "create" /\ file' = EmptyFile /\ damaged' \in BOOLEAN
    BY <1>3, Typed DEF Create, Go
  <2>4. /\ "wait mkfs" \in Stage /\ "wait mkfs" \notin Inside /\ "create" \notin Inside
        /\ "wait mkfs" \notin Formats /\ "create" \in Writes
    BY DEF Stage, Waits, Inside, Mkfs, Magic, Append, Closing, Formats, Writes
  <2> QED BY <2>1, <2>2, <2>3, <2>4, KeepsHandle, Typed
<1> QED BY <1>1, <1>2, <1>3

LEMMA ShapeOfLock ==
  ASSUME Safe, NEW p \in Proc, Lock(p)
  PROVE  Shaped(p)
<1> DEFINE s == IF pc[p] = "wait open" THEN "read" ELSE "truncate"
           l == IF fs[p].rw THEN "write" ELSE "read"
<1>1. Becomes(p, s, fs[p], l) BY Unmoved DEF Becomes, Lock, TakeLock, Go
<1>2. /\ s \in Stage /\ s \in Inside
      /\ s \in Formats => pc[p] \in Formats
      /\ s \in Writes => pc[p] \in Writes
  BY DEF Lock, Stage, Inside, Mkfs, Magic, Append, Closing, Formats, Writes
<1>3. Local(s, fs[p], l) BY <1>2, Typed DEF Local, LockFor
<1>4. LockMoves(p, l) BY DEF LockMoves, Lock
<1>5. file' = file /\ damaged' = damaged BY DEF Lock
<1> HIDE DEF s, l
<1> QED BY <1>1, <1>3, <1>4, <1>5, ShapedBy, Typed DEF FileMoves

LEMMA ShapeOfReading ==
  ASSUME Safe, NEW p \in Proc, ReadHeader(p) \/ Refuse(p)
  PROVE  Shaped(p)
<1>0. /\ {"read", "refuse", "open", "close"} \subseteq Stage \cap Inside
      /\ {"refuse", "open", "close"} \cap (Formats \cup Writes) = {}
  BY DEF Stage, Inside, Mkfs, Magic, Append, Closing, Formats, Writes
<1>1. CASE ReadHeader(p)
  <2>0. pc[p] = "read" /\ lock' = lock /\ file' = file /\ damaged' = damaged
    BY <1>1 DEF ReadHeader
  <2>1. CASE Readable(file)
    <3> DEFINE h == [fs[p] EXCEPT !.blocks = file.blocks]
               s == IF file.hints THEN "open" ELSE "refuse"
    <3>1. h \in Handle /\ h.rw = fs[p].rw BY Typed DEF Handle, File
    <3>2. fs' = [fs EXCEPT ![p] = h]
      <4>1. fs' = [fs EXCEPT ![p].blocks = file.blocks] BY <1>1, <2>1 DEF ReadHeader
      <4> QED BY <4>1
    <3>3. pc' = [pc EXCEPT ![p] = s] BY <1>1, <2>1 DEF ReadHeader, Go
    <3>4. s \in {"open", "refuse"} OBVIOUS
    <3> HIDE DEF h, s
    <3> QED BY <1>0, <2>0, <3>1, <3>2, <3>3, <3>4, KeepsLock, Typed DEF FileMoves
  <2>2. CASE ~Readable(file)
    <3>1. fs' = fs /\ pc' = [pc EXCEPT ![p] = "refuse"] BY <1>1, <2>2 DEF ReadHeader, Go
    <3> QED BY <1>0, <2>0, <3>1, KeepsHandle, Typed DEF FileMoves
  <2> QED BY <2>1, <2>2
<1>2. CASE Refuse(p)
  <2>0. /\ pc[p] = "refuse" /\ lock' = lock /\ fs' = fs /\ damaged' = damaged
        /\ pc' = [pc EXCEPT ![p] = "close"]
    BY <1>2 DEF Refuse, Go
  <2>1. file' \in File BY <1>2, Typed DEF Refuse, File
  <2>2. FileMoves(p)
    <3>1. CASE ~fs[p].rw
      <4>1. fs[p].rw \in BOOLEAN BY Typed DEF Handle
      <4>2. file' = file BY <1>2, <3>1, <4>1 DEF Refuse
      <4> QED BY <2>0, <4>2, Typed DEF FileMoves
    <3>2. CASE fs[p].rw BY <1>0, <2>0, <3>2, WriterLocks DEF FileMoves
    <3> QED BY <3>1, <3>2
  <2> QED BY <1>0, <2>0, <2>1, <2>2, KeepsHandle, Typed
<1> QED BY <1>1, <1>2

LEMMA ShapeOfMkfs ==
  ASSUME Safe, NEW p \in Proc,
         \/ \E n \in Count : MkfsTruncate(p, n)
         \/ MkfsMagic(p) \/ MkfsNoSize(p) \/ MkfsClientLength(p) \/ MkfsClientMagic(p)
         \/ MkfsOptions(p) \/ MkfsHints(p)
  PROVE  Shaped(p)
<1>0. /\ Magic \cup {"truncate", "options", "hints", "tables", "save"}
           \subseteq Stage \cap Inside \cap Writes
      /\ Magic \cup {"options", "hints"} \subseteq Formats
      /\ "save" \notin Formats
      /\ Magic = {"magic", "no size", "client length", "client magic"}
  BY DEF Stage, Inside, Mkfs, Magic, Append, Closing, Formats, Writes
<1>1. file \in File /\ fs[p] \in Handle /\ 0 \in 0..MaxBlocks /\ fs[p].blocks \in 0..MaxBlocks
  BY Typed, MaxBlocksAssumption DEF Handle
\* All steps but the first leave the handle alone.
<1>2. ASSUME pc[p] \in Magic \cup {"options", "hints"},
             NEW s \in Magic \cup {"options", "hints", "tables", "save"},
             pc' = [pc EXCEPT ![p] = s], fs' = fs, lock' = lock,
             file' \in File, damaged' \in BOOLEAN
      PROVE  Shaped(p)
  <2>1. fs[p].rw /\ lock[p] = "write" BY <1>0, <1>2, Typed, WriterLocks
  <2>2. s \in Stage /\ s \in Inside /\ pc[p] \in Inside /\ pc[p] \in Formats BY <1>0, <1>2
  <2> QED BY <1>2, <2>1, <2>2, KeepsHandle DEF FileMoves
<1>3. ASSUME NEW n \in Count, MkfsTruncate(p, n) PROVE Shaped(p)
  <2> DEFINE h == [rw |-> TRUE, blocks |-> n, done |-> -1]
  <2>1. n \in 0..MaxBlocks /\ -1 < n /\ -1 \in -1..MaxBlocks BY MaxBlocksAssumption DEF Count
  <2>2. h \in Handle /\ h.rw /\ h.done < h.blocks BY <2>1 DEF Handle
  <2>3. /\ pc[p] = "truncate" /\ lock' = lock /\ damaged' = damaged
        /\ fs' = [fs EXCEPT ![p] = h]
        /\ \/ file' = Resized(n) /\ pc' = [pc EXCEPT ![p] = "magic"]
           \/ file' = file /\ pc' = [pc EXCEPT ![p] = "save"]
    BY <1>3 DEF MkfsTruncate, Go
  <2>4. Resized(n) \in File BY <1>1, <2>1 DEF Resized, File
  <2>5. fs[p].rw /\ lock[p] = "write" /\ damaged \in BOOLEAN
    BY <1>0, <2>3, Typed, WriterLocks
  <2>6. FileMoves(p) BY <2>5 DEF FileMoves
  <2>7. PICK s \in {"magic", "save"} : pc' = [pc EXCEPT ![p] = s] BY <2>3
  <2>8. s \in Stage /\ s \in Inside /\ pc[p] \in Inside BY <1>0, <2>3, <2>7
  <2>9. h.rw = fs[p].rw BY <1>1, <2>5 DEF Handle
  <2>10. file' \in File BY <1>1, <2>3, <2>4
  <2> HIDE DEF h
  <2> QED BY <2>2, <2>3, <2>5, <2>6, <2>7, <2>8, <2>9, <2>10, KeepsLock
<1>4. /\ [file EXCEPT !.magic = TRUE] \in File
      /\ [file EXCEPT !.wiped = {}] \in File
      /\ [[file EXCEPT !.wiped = {}] EXCEPT !.size = 0] \in File
      /\ [file EXCEPT !.client = TRUE] \in File
      /\ [file EXCEPT !.hints = TRUE] \in File
  BY <1>1 DEF File
<1>5. /\ [file EXCEPT !.blocks = fs[p].blocks] \in File
      /\ [[file EXCEPT !.blocks = fs[p].blocks] EXCEPT !.sizes = TRUE] \in File
  BY <1>1 DEF File
<1>6. damaged \in BOOLEAN BY Typed
<1>7. CASE MkfsMagic(p)
  <2>1. /\ pc[p] = "magic" /\ pc' = [pc EXCEPT ![p] = "no size"] /\ fs' = fs /\ lock' = lock
        /\ file' \in File /\ damaged' \in BOOLEAN
    BY <1>1, <1>4, <1>6, <1>7 DEF MkfsMagic, Unchecked, Go
  <2> QED BY <1>0, <1>2, <2>1
<1>8. CASE MkfsNoSize(p)
  <2>1. /\ pc[p] = "no size" /\ pc' = [pc EXCEPT ![p] = "client length"] /\ fs' = fs
        /\ lock' = lock /\ file' \in File
    BY <1>1, <1>4, <1>8 DEF MkfsNoSize, Go
  <2>2. damaged' \in BOOLEAN BY <1>8 DEF MkfsNoSize
  <2> QED BY <1>0, <1>2, <2>1, <2>2
<1>9. CASE MkfsClientLength(p)
  <2>1. /\ pc[p] = "client length" /\ pc' = [pc EXCEPT ![p] = "client magic"] /\ fs' = fs
        /\ lock' = lock /\ file' \in File
    BY <1>1, <1>4, <1>9 DEF MkfsClientLength, Unchecked, Go
  <2>2. damaged' \in BOOLEAN BY <1>9 DEF MkfsClientLength
  <2> QED BY <1>0, <1>2, <2>1, <2>2
<1>10. CASE MkfsClientMagic(p)
  <2>1. /\ pc[p] = "client magic" /\ fs' = fs /\ lock' = lock /\ file' \in File
        /\ damaged' \in BOOLEAN
    BY <1>1, <1>6, <1>10 DEF MkfsClientMagic, MkfsStep
  <2>2. PICK s \in {"options", "save"} : pc' = [pc EXCEPT ![p] = s]
    BY <1>10 DEF MkfsClientMagic, MkfsStep, Go
  <2> QED BY <1>0, <1>2, <2>1, <2>2
<1>11. CASE MkfsOptions(p)
  <2>1. /\ pc[p] = "options" /\ fs' = fs /\ lock' = lock /\ file' \in File
    BY <1>1, <1>5, <1>11 DEF MkfsOptions
  <2>2. damaged' \in BOOLEAN BY <1>11 DEF MkfsOptions
  <2>3. PICK s \in {"hints", "save"} : pc' = [pc EXCEPT ![p] = s]
    BY <1>11 DEF MkfsOptions, Go
  <2> QED BY <1>0, <1>2, <2>1, <2>2, <2>3
<1>12. CASE MkfsHints(p)
  <2>1. /\ pc[p] = "hints" /\ fs' = fs /\ lock' = lock /\ file' \in File
        /\ damaged' \in BOOLEAN
    BY <1>1, <1>4, <1>6, <1>12 DEF MkfsHints, MkfsStep
  <2>2. PICK s \in {"tables", "save"} : pc' = [pc EXCEPT ![p] = s]
    BY <1>12 DEF MkfsHints, MkfsStep, Go
  <2> QED BY <1>0, <1>2, <2>1, <2>2
<1> QED BY <1>3, <1>7, <1>8, <1>9, <1>10, <1>11, <1>12

\* Formatting one more block.
LEMMA OneMore ==
  ASSUME Safe, NEW p \in Proc, pc[p] \in Formats
  PROVE  /\ fs[p].done + 1 \in 0..fs[p].blocks
         /\ fs[p].done + 1 # fs[p].blocks => fs[p].done + 1 < fs[p].blocks
         /\ Wiped(fs[p].done + 1) \in File
         /\ [fs[p] EXCEPT !.done = fs[p].done + 1] \in Handle
<1>1. fs[p] \in Handle /\ file \in File /\ fs[p].done < fs[p].blocks BY Typed
<1> DEFINE b == fs[p].done + 1
<1>2. b \in 0..fs[p].blocks /\ b \in 0..MaxBlocks /\ (b # fs[p].blocks => b < fs[p].blocks)
  BY <1>1, MaxBlocksAssumption DEF Handle
<1>3. [fs[p] EXCEPT !.done = b] \in Handle BY <1>1, <1>2, MaxBlocksAssumption DEF Handle
<1> HIDE DEF b
<1>4. Wiped(b) \in File
  <2>1. Max2(file.len, b) \in 0..MaxBlocks BY <1>1, <1>2 DEF Max2, File
  <2>2. file.wiped \cup {b} \in SUBSET (0..MaxBlocks) BY <1>1, <1>2 DEF File
  <2> QED BY <1>1, <2>1, <2>2 DEF Wiped, File
<1> QED BY <1>2, <1>3, <1>4 DEF b

LEMMA ShapeOfFormatting ==
  ASSUME Safe, NEW p \in Proc, MkfsTables(p) \/ MkfsSize(p) \/ AppendBlocks(p)
  PROVE  Shaped(p)
<1>0. /\ {"tables", "size", "save", "new blocks", "open"} \subseteq Stage \cap Inside
      /\ {"tables", "size", "new blocks"} \subseteq Writes
      /\ {"tables", "new blocks"} \subseteq Formats
      /\ {"size", "save", "open"} \cap Formats = {}
  BY DEF Stage, Inside, Mkfs, Magic, Append, Closing, Formats, Writes
<1>1. /\ pc[p] \in {"tables", "size", "new blocks"} /\ lock' = lock /\ damaged' \in BOOLEAN
  BY Typed DEF MkfsTables, MkfsSize, AppendBlocks
<1>2. fs[p].rw /\ lock[p] = "write" BY <1>0, <1>1, Typed, WriterLocks
<1>3. FileMoves(p) BY <1>2 DEF FileMoves
<1> DEFINE b == fs[p].done + 1
           h == [fs[p] EXCEPT !.done = b]
<1>4. ASSUME NEW s \in {"tables", "size", "new blocks", "open"}, pc[p] \in Formats,
             s \in {"tables", "new blocks"} => b # fs[p].blocks,
             pc' = [pc EXCEPT ![p] = s], fs' = [fs EXCEPT ![p].done = b], file' = Wiped(b)
      PROVE  Shaped(p)
  <2>1. h \in Handle /\ file' \in File /\ (s \in Formats => b < fs[p].blocks)
    BY <1>0, <1>4, OneMore
  <2>2. h.rw /\ h.done = b /\ h.blocks = fs[p].blocks /\ h.rw = fs[p].rw BY <1>2, Typed DEF Handle
  <2>3. fs' = [fs EXCEPT ![p] = h] BY <1>4
  <2> HIDE DEF b, h
  <2> QED BY <1>0, <1>1, <1>2, <1>3, <1>4, <2>1, <2>2, <2>3, KeepsLock
<1>5. ASSUME NEW s \in {"save", "open"}, pc' = [pc EXCEPT ![p] = s], fs' = fs, file' \in File
      PROVE  Shaped(p)
  BY <1>0, <1>1, <1>2, <1>3, <1>5, KeepsHandle
<1>6. CASE MkfsTables(p)
  <2> DEFINE s == IF b = fs[p].blocks THEN "size" ELSE "tables"
  <2>1. s \in {"tables", "size"} /\ (s = "tables" => b # fs[p].blocks) OBVIOUS
  <2>2. pc[p] \in Formats BY <1>0, <1>6 DEF MkfsTables
  <2>3. \/ pc' = [pc EXCEPT ![p] = s] /\ fs' = [fs EXCEPT ![p].done = b] /\ file' = Wiped(b)
        \/ pc' = [pc EXCEPT ![p] = "save"] /\ fs' = fs /\ file' = file
    BY <1>6 DEF MkfsTables, Go
  <2> HIDE DEF b, h, s
  <2> QED BY <1>4, <1>5, <2>1, <2>2, <2>3, Typed
<1>7. CASE AppendBlocks(p)
  <2> DEFINE s == IF b = fs[p].blocks THEN "open" ELSE "new blocks"
  <2>1. s \in {"new blocks", "open"} /\ (s = "new blocks" => b # fs[p].blocks) OBVIOUS
  <2>2. pc[p] \in Formats BY <1>0, <1>7 DEF AppendBlocks
  <2>3. \/ pc' = [pc EXCEPT ![p] = s] /\ fs' = [fs EXCEPT ![p].done = b] /\ file' = Wiped(b)
        \/ pc' = [pc EXCEPT ![p] = "open"] /\ fs' = fs /\ file' = file
    BY <1>7 DEF AppendBlocks, Go
  <2> HIDE DEF b, h, s
  <2> QED BY <1>4, <1>5, <2>1, <2>2, <2>3, Typed
<1>8. CASE MkfsSize(p)
  <2>1. [file EXCEPT !.size = fs[p].blocks] \in File BY Typed DEF File, Handle
  <2>2. fs' = fs /\ file' \in File BY <1>8, <2>1, Typed DEF MkfsSize
  <2>3. \E s \in {"save", "open"} : pc' = [pc EXCEPT ![p] = s] BY <1>8 DEF MkfsSize, Go
  <2> QED BY <1>5, <2>2, <2>3
<1> QED BY <1>6, <1>7, <1>8

LEMMA ShapeOfGrowing ==
  ASSUME Safe, NEW p \in Proc,
         (\E n \in Count : Grow(p, n)) \/ AppendSize(p) \/ AppendOptions(p)
  PROVE  Shaped(p)
<1>0. /\ {"open", "new size", "new options", "new blocks"} \subseteq Stage \cap Inside
      /\ {"new size", "new options", "new blocks"} \subseteq Writes \cap Formats
      /\ "open" \notin Formats \cup Writes
  BY DEF Stage, Inside, Mkfs, Magic, Append, Closing, Formats, Writes
<1>1. ASSUME NEW n \in Count, Grow(p, n) PROVE Shaped(p)
  <2> DEFINE old == fs[p].blocks
             h == [fs[p] EXCEPT !.blocks = old + n, !.done = old]
  <2>1. old \in 0..MaxBlocks /\ old + n \in 0..MaxBlocks /\ old < old + n
    <3>1. old + n <= MaxBlocks BY <1>1 DEF Grow
    <3>2. old \in 0..MaxBlocks BY Typed DEF Handle
    <3>3. n \in 1..MaxBlocks BY DEF Count
    <3> HIDE DEF old
    <3> QED BY <3>1, <3>2, <3>3, MaxBlocksAssumption
  <2>2. Resized(old) \in File /\ Resized(old + n) \in File
    BY <2>1, Typed DEF Resized, File
  <2>3. h \in Handle /\ h.rw = fs[p].rw /\ h.done < h.blocks
    <3>1. fs[p] \in Handle BY Typed
    <3>2. old \in -1..MaxBlocks BY <2>1, MaxBlocksAssumption
    <3> HIDE DEF old
    <3> QED BY <2>1, <3>1, <3>2 DEF Handle
  <2>4. /\ pc[p] = "open" /\ fs[p].rw /\ lock' = lock /\ damaged' = damaged
        /\ \/ /\ file' = Resized(old + n) /\ fs' = [fs EXCEPT ![p] = h]
              /\ pc' = [pc EXCEPT ![p] = "new size"]
           \/ file' = Resized(old) /\ pc' = pc /\ fs' = fs
    BY <1>1 DEF Grow, Go
  <2>5. FileMoves(p) BY <1>0, <2>4, WriterLocks DEF FileMoves
  <2>6. pc = [pc EXCEPT ![p] = "open"] BY <2>4, Unmoved
  <2> HIDE DEF old, h
  <2>7. CASE fs' = [fs EXCEPT ![p] = h] /\ pc' = [pc EXCEPT ![p] = "new size"] /\ file' = Resized(old + n)
    BY <1>0, <2>2, <2>3, <2>4, <2>5, <2>7, KeepsLock, Typed
  <2>8. CASE fs' = fs /\ pc' = pc /\ file' = Resized(old)
    BY <1>0, <2>2, <2>4, <2>5, <2>6, <2>8, KeepsHandle, Typed
  <2> QED BY <2>4, <2>7, <2>8
<1>2. CASE AppendSize(p) \/ AppendOptions(p)
  <2>1. /\ [file EXCEPT !.size = fs[p].blocks] \in File
        /\ [file EXCEPT !.blocks = fs[p].blocks] \in File
    BY Typed DEF File, Handle
  <2>2. file' \in File /\ damaged' \in BOOLEAN /\ lock' = lock /\ fs' = fs
        /\ pc[p] \in {"new size", "new options"}
    BY <1>2, <2>1, Typed DEF AppendSize, AppendOptions, AppendStep
  <2>3. PICK s \in {"new options", "new blocks"} : pc' = [pc EXCEPT ![p] = s]
    BY <1>2 DEF AppendSize, AppendOptions, AppendStep, Go
  <2>4. FileMoves(p) BY <1>0, <2>2, WriterLocks, Typed DEF FileMoves
  <2> QED BY <1>0, <2>2, <2>3, <2>4, KeepsHandle, Typed
<1> QED BY <1>1, <1>2

LEMMA ShapeOfClosing ==
  ASSUME Safe, NEW p \in Proc, Finalize(p) \/ SaveHints(p) \/ Close(p) \/ Crash(p)
  PROVE  Shaped(p)
<1>0. /\ {"open", "save", "close"} \subseteq Stage \cap Inside
      /\ "save" \in Writes /\ "close" \notin Writes
      /\ {"save", "close"} \cap Formats = {}
      /\ "out" \in Stage /\ "out" \notin Inside \cup Formats \cup Writes
  BY DEF Stage, Inside, Mkfs, Magic, Append, Closing, Waits, Formats, Writes
<1>1. CASE Finalize(p)
  <2> DEFINE s == IF fs[p].rw THEN "save" ELSE "close"
  <2>1. /\ pc[p] = "open" /\ pc' = [pc EXCEPT ![p] = s] /\ fs' = fs /\ lock' = lock
        /\ file' = file /\ damaged' = damaged
    BY <1>1 DEF Finalize, Go
  <2>2. s \in {"save", "close"} /\ (s = "save" => fs[p].rw) OBVIOUS
  <2> HIDE DEF s
  <2> QED BY <1>0, <2>1, <2>2, KeepsHandle, Typed DEF FileMoves
<1>2. CASE SaveHints(p)
  <2>1. [file EXCEPT !.hints = TRUE] \in File BY Typed DEF File
  <2>2. /\ pc[p] = "save" /\ pc' = [pc EXCEPT ![p] = "close"] /\ fs' = fs /\ lock' = lock
        /\ file' \in File /\ damaged' = damaged
    BY <1>2, <2>1, Typed DEF SaveHints, Go
  <2>3. FileMoves(p) BY <1>0, <2>2, WriterLocks, Typed DEF FileMoves
  <2> QED BY <1>0, <2>2, <2>3, KeepsHandle, Typed
<1>3. CASE Close(p) \/ Crash(p)
  <2>1. Becomes(p, "out", Closed, "none") /\ file' = file
    BY <1>3 DEF Close, Crash, Becomes, Go
  <2>2. damaged' \in BOOLEAN /\ (damaged => damaged')
    <3>1. CASE Close(p) BY <3>1, Typed DEF Close
    <3>2. CASE Crash(p)
      <4> DEFINE hit == \/ pc[p] \in {"magic", "no size"} /\ file.len # file.size
                        \/ pc[p] \in {"new size", "new options", "new blocks"}
      <4>1. damaged' = (damaged \/ hit) BY <3>2, Zenon DEF Crash
      <4> HIDE DEF hit
      <4> QED BY <4>1
    <3> QED BY <1>3, <3>1, <3>2
  <2>3. Closed \in Handle BY MaxBlocksAssumption DEF Closed, Handle
  <2>4. Local("out", Closed, "none") BY <1>0, <2>3 DEF Local, LockFor
  <2>5. LockMoves(p, "none") BY DEF LockMoves
  <2> QED BY <2>1, <2>2, <2>4, <2>5, ShapedBy, Typed DEF FileMoves
<1> QED BY <1>1, <1>2, <1>3

LEMMA StepShaped ==
  ASSUME Safe, NEW p \in Proc, Step(p)
  PROVE  Shaped(p)
BY ShapeOfOpening, ShapeOfLock, ShapeOfReading, ShapeOfMkfs, ShapeOfFormatting,
   ShapeOfGrowing, ShapeOfClosing
DEF Step, Call, Proceed

-----------------------------------------------------------------------------
(***************************************************************************)
(* The types and the lock.                                                 *)
(***************************************************************************)

LEMMA InitSafe ==
  ASSUME Init
  PROVE  Safe
<1>1. NoFile \in File /\ Closed \in Handle
  <2>1. 0 \in 0..MaxBlocks /\ {} \in SUBSET (0..MaxBlocks) /\ -1 \in -1..MaxBlocks
    BY MaxBlocksAssumption
  <2> QED BY <2>1 DEF NoFile, File, Closed, Handle
<1>2. "out" \in Stage /\ "out" \notin Inside \cup Formats \cup Writes
  BY DEF Stage, Inside, Mkfs, Magic, Append, Closing, Waits, Formats, Writes
<1>3. TypeOK BY <1>1, <1>2 DEF Init, TypeOK
<1>4. Progress BY <1>2 DEF Init, Progress
<1>5. LockInv BY <1>2 DEF Init, LockInv
<1> QED BY <1>3, <1>4, <1>5 DEF Safe

\* Locks that are compatible when they are taken stay so.
LEMMA StepSafe ==
  ASSUME Safe, NEW p \in Proc, Shaped(p)
  PROVE  Safe'
<1>1. PICK s \in Stage, h \in Handle, l \in {"none", "read", "write"} :
        Becomes(p, s, h, l) /\ Local(s, h, l) /\ LockMoves(p, l)
  BY DEF Shaped
<1>2. /\ pc \in [Proc -> Stage] /\ fs \in [Proc -> Handle]
      /\ lock \in [Proc -> {"none", "read", "write"}]
  BY DEF Safe, TypeOK
<1>3. /\ pc' \in [Proc -> Stage] /\ fs' \in [Proc -> Handle]
      /\ lock' \in [Proc -> {"none", "read", "write"}]
      /\ pc'[p] = s /\ fs'[p] = h /\ lock'[p] = l
      /\ \A q \in Proc : q # p => pc'[q] = pc[q] /\ fs'[q] = fs[q] /\ lock'[q] = lock[q]
  BY <1>1, <1>2 DEF Becomes
<1>4. TypeOK' BY <1>3 DEF TypeOK, Shaped
<1>5. ASSUME NEW q \in Proc PROVE Local(pc'[q], fs'[q], lock'[q])
  BY <1>1, <1>3, LocalOfEach
<1>6. Progress' BY <1>5 DEF Progress, Local
<1>7. LockInv'
  <2>1. \A q, r \in Proc : q # r /\ lock[q] = "write" => lock[r] = "none" BY DEF Safe, LockInv
  <2>2. ASSUME NEW q \in Proc, NEW r \in Proc, q # r, lock'[q] = "write" PROVE lock'[r] = "none"
    <3>1. CASE l \in {lock[p], "none"} BY <1>3, <2>1, <2>2, <3>1
    <3>2. CASE Compatible(p) /\ l = (IF fs[p].rw THEN "write" ELSE "read")
      BY <1>3, <2>1, <2>2, <3>2 DEF Compatible
    <3> QED BY <1>1, <3>1, <3>2 DEF LockMoves
  <2> QED BY <1>5, <2>2 DEF LockInv, Local, LockFor
<1> QED BY <1>4, <1>6, <1>7 DEF Safe

LEMMA SafeIsInductive == Safe /\ [Next]_vars => Safe'
<1> SUFFICES ASSUME Safe, [Next]_vars PROVE Safe'
  OBVIOUS
<1>1. ASSUME NEW p \in Proc, Step(p) PROVE Safe' BY <1>1, StepShaped, StepSafe
<1>2. CASE UNCHANGED vars BY <1>2 DEF vars, Safe, TypeOK, Progress, LockInv
<1> QED BY <1>1, <1>2 DEF Next, Step

THEOREM AlwaysSafe == Spec => []Safe
<1>1. Init => Safe BY InitSafe
<1> QED BY <1>1, SafeIsInductive, PTL DEF Spec

\* Every reachable state has its type.
THEOREM ContainerTypeCorrect == Spec => []TypeOK
<1>1. Safe => TypeOK BY DEF Safe
<1> QED BY <1>1, AlwaysSafe, PTL

-----------------------------------------------------------------------------
(***************************************************************************)
(* A writer is alone.                                                      *)
(***************************************************************************)

LEMMA WriterAlone ==
  ASSUME Safe, NEW p \in Proc, lock[p] = "write", NEW q \in Proc, q # p
  PROVE  pc[q] \notin Inside
<1>1. lock[q] = "none" BY DEF Safe, LockInv
<1>2. lock[q] = IF pc[q] \in Inside THEN (IF fs[q].rw THEN "write" ELSE "read") ELSE "none"
  BY DEF Safe, LockInv
<1> QED BY <1>1, <1>2

\* Only opening with w+b changes the file without the lock for writing.
LEMMA ChangesHoldLock ==
  ASSUME Safe, NEW p \in Proc, Call(p) \/ Proceed(p), ~Create(p), file' # file
  PROVE  lock[p] = "write"
<1>1. pc[p] \in Inside /\ fs[p].rw
  <2>1. Mkfs \cup Append \cup {"save", "refuse", "open"} \subseteq Inside
    BY DEF Inside, Closing
  <2>2. Mkfs \cup Append \cup {"save"} \subseteq Writes BY DEF Writes
  <2>3. CASE Refuse(p)
    BY <2>1, <2>3 DEF Refuse
  <2>4. CASE \E n \in Count : Grow(p, n) BY <2>1, <2>4 DEF Grow
  <2>5. CASE \/ \E n \in Count : MkfsTruncate(p, n)
             \/ MkfsMagic(p) \/ MkfsNoSize(p) \/ MkfsClientLength(p) \/ MkfsClientMagic(p)
             \/ MkfsOptions(p) \/ MkfsHints(p) \/ MkfsTables(p) \/ MkfsSize(p)
    <3>1. pc[p] \in Mkfs
      BY <2>5 DEF MkfsTruncate, MkfsMagic, MkfsNoSize, MkfsClientLength, MkfsClientMagic,
                  MkfsOptions, MkfsHints, MkfsStep, Unchecked, MkfsTables, MkfsSize, Mkfs, Magic
    <3> QED BY <2>1, <2>2, <3>1, Typed
  <2>6. CASE AppendSize(p) \/ AppendOptions(p) \/ AppendBlocks(p)
    <3>1. pc[p] \in Append
      BY <2>6 DEF AppendSize, AppendOptions, AppendStep, AppendBlocks, Append
    <3> QED BY <2>1, <2>2, <3>1, Typed
  <2>7. CASE SaveHints(p)
    BY <2>1, <2>2, <2>7, Typed DEF SaveHints
  <2>8. ~(\E rw \in BOOLEAN : OpenFile(p, rw)) /\ ~OpenOrCreate(p)
        /\ ~Finalize(p) /\ ~Lock(p) /\ ~ReadHeader(p) /\ ~Close(p)
    BY DEF OpenFile, OpenOrCreate, Finalize, Lock, ReadHeader, Close
  <2> QED BY <2>3, <2>4, <2>5, <2>6, <2>7, <2>8 DEF Call, Proceed
<1> QED BY <1>1, WriterLocks

\* A process that changes the file, other than by making it, has it for itself: what
\* the locks of whefs_open_FILE are for.
THEOREM WritersAlone == Spec => ChangedAlone
<1>1. Safe /\ [Next]_vars =>
        [\A p \in Proc : (Call(p) \/ Proceed(p)) /\ ~Create(p) /\ file' # file =>
           \A q \in Proc \ {p} : pc[q] \notin Inside]_vars
  BY ChangesHoldLock, WriterAlone
<1> QED BY <1>1, AlwaysSafe, PTL DEF Spec, ChangedAlone

-----------------------------------------------------------------------------
(***************************************************************************)
(* What a whefs_mkfs starts with.                                          *)
(***************************************************************************)

LEMMA StepChosen ==
  ASSUME Safe, Chosen, NEW p \in Proc, Step(p)
  PROVE  Chosen'
<1>0. PICK s \in Stage, h \in Handle, l \in {"none", "read", "write"} :
        Becomes(p, s, h, l) /\ Local(s, h, l) /\ LockMoves(p, l)
  BY StepShaped DEF Shaped
<1>1. /\ pc'[p] = s /\ fs'[p] = h
      /\ \A q \in Proc : q # p => pc'[q] = pc[q] /\ fs'[q] = fs[q]
  BY <1>0 DEF Becomes, Safe, TypeOK
<1>2. pc'[p] = s /\ pc \in [Proc -> Stage] /\ fs \in [Proc -> Handle]
  BY <1>1 DEF Safe, TypeOK
<1> DEFINE Fine == /\ pc'[p] \in Unformatted => fs'[p].done = -1
                   /\ pc'[p] \in Unformatted \cup {"tables", "size"} => fs'[p].blocks # 0
<1> SUFFICES Fine
  BY <1>1 DEF Chosen
<1> HIDE DEF Fine
<1>3. ASSUME pc'[p] \notin Unformatted \cup {"tables", "size"} PROVE Fine
  BY <1>3 DEF Fine
<1>4. ASSUME fs' = fs, pc[p] \in Unformatted, pc'[p] \in Unformatted \cup {"tables", "size"} PROVE Fine
  BY <1>4 DEF Chosen, Fine
<1>5. CASE \E rw \in BOOLEAN : OpenFile(p, rw)
  BY <1>2, <1>3, <1>5 DEF OpenFile, Go, Unformatted, Magic
<1>6. CASE OpenOrCreate(p)
  BY <1>2, <1>3, <1>6 DEF OpenOrCreate, Go, Unformatted, Magic
<1>7. CASE Create(p)
  BY <1>2, <1>3, <1>7 DEF Create, Go, Unformatted, Magic
<1>8. CASE Lock(p)
  BY <1>2, <1>3, <1>8 DEF Lock, Go, Unformatted, Magic
<1>9. CASE ReadHeader(p) \/ Refuse(p)
  <2>1. pc'[p] \in {"open", "refuse", "close"} BY <1>2, <1>9 DEF ReadHeader, Refuse, Go
  <2> QED BY <1>3, <2>1 DEF Unformatted, Magic
<1>10. CASE \/ MkfsMagic(p) \/ MkfsNoSize(p) \/ MkfsClientLength(p) \/ MkfsClientMagic(p)
            \/ MkfsOptions(p) \/ MkfsHints(p)
  <2>1. /\ fs' = fs /\ pc[p] \in {"options", "hints"} \cup Magic
        /\ pc'[p] \in {"options", "hints", "tables", "save"} \cup Magic
    BY <1>2, <1>10
    DEF MkfsMagic, MkfsNoSize, MkfsClientLength, MkfsClientMagic, MkfsOptions, MkfsHints,
        MkfsStep, Unchecked, Go, Magic
  <2> QED BY <1>3, <1>4, <2>1 DEF Unformatted, Magic
<1>16. ASSUME NEW n \in Count, MkfsTruncate(p, n) PROVE Fine
  <2>1. fs'[p] = [rw |-> TRUE, blocks |-> n, done |-> -1] BY <1>2, <1>16 DEF MkfsTruncate
  <2>2. n # 0 BY DEF Count
  <2> QED BY <2>1, <2>2 DEF Fine
<1>11. CASE MkfsTables(p)
  <2>1. pc'[p] \in {"tables", "size", "save"} /\ pc[p] = "tables" /\ fs'[p].blocks = fs[p].blocks
    BY <1>2, <1>11 DEF MkfsTables, Go, Handle
  <2> QED BY <2>1 DEF Unformatted, Magic, Chosen, Fine
<1>12. CASE MkfsSize(p)
  <2>1. pc'[p] \in {"open", "save"} BY <1>2, <1>12 DEF MkfsSize, Go
  <2> QED BY <1>3, <2>1 DEF Unformatted, Magic
<1>13. CASE \E n \in Count : Grow(p, n)
  <2>1. pc'[p] \in {"open", "new size"} BY <1>2, <1>13 DEF Grow, Go
  <2> QED BY <1>3, <2>1 DEF Unformatted, Magic
<1>14. CASE AppendSize(p) \/ AppendOptions(p) \/ AppendBlocks(p)
  <2>1. pc'[p] \in {"open"} \cup Append
    BY <1>2, <1>14 DEF AppendSize, AppendOptions, AppendStep, AppendBlocks, Go, Append
  <2> QED BY <1>3, <2>1 DEF Unformatted, Magic, Append
<1>15. CASE Finalize(p) \/ SaveHints(p) \/ Close(p) \/ Crash(p)
  <2>1. pc'[p] \in {"save", "close", "out"} BY <1>2, <1>15 DEF Finalize, SaveHints, Close, Crash, Go
  <2> QED BY <1>3, <2>1 DEF Unformatted, Magic
<1> QED
  BY <1>5, <1>6, <1>7, <1>8, <1>9, <1>10, <1>16, <1>11, <1>12, <1>13, <1>14, <1>15
  DEF Step, Call, Proceed

-----------------------------------------------------------------------------
(***************************************************************************)
(* What the file holds.                                                    *)
(***************************************************************************)

LEMMA BusyWrites ==
  ASSUME Safe, NEW p \in Proc, pc[p] \in Busy
  PROVE  lock[p] = "write"
<1>1. Busy \subseteq Inside /\ Busy \subseteq Writes
  BY DEF Busy, Inside, Writes, Mkfs, Magic
<1> QED BY <1>1, Typed, WriterLocks

\* A process that has the file and is not in the middle of a change finds it sound.
LEMMA SoundWhenQuiet ==
  ASSUME IInv, ~damaged, NEW p \in Proc, pc[p] \in Inside, pc[p] \notin Busy
  PROVE  Sound(file)
<1>1. CASE \E q \in Proc : pc[q] \in Busy
  <2>1. PICK q \in Proc : pc[q] \in Busy BY <1>1
  <2> QED BY <2>1, BusyWrites, WriterAlone DEF IInv
<1> QED BY <1>1 DEF IInv, DataInv, FileSound

LEMMA KnowsOfEach ==
  ASSUME IInv, ~damaged, NEW p \in Proc
  PROVE  Knows(pc[p], fs[p], file)
BY DEF IInv, DataInv

\* What is to be shown of the process that takes the step.
Kept(p) ==
  /\ Knows(pc'[p], fs'[p], file')
  /\ \/ Sound(file') \/ pc'[p] \in Busy
     \/ file' = file /\ pc[p] \notin Busy /\ (damaged => damaged')

\* What the others know is not disturbed.
LEMMA KeptByAll ==
  ASSUME IInv, NEW p \in Proc, Step(p), ~damaged', Kept(p)
  PROVE  DataInv'
<1>0. Safe BY DEF IInv
<1>1. /\ \A q \in Proc : q # p => pc'[q] = pc[q] /\ fs'[q] = fs[q]
      /\ FileMoves(p)
  BY <1>0, StepShaped DEF Shaped, Becomes, Safe, TypeOK
<1>2. ASSUME NEW q \in Proc PROVE Knows(pc'[q], fs'[q], file')
  <2>1. CASE q = p BY <2>1 DEF Kept
  <2>2. CASE q # p /\ pc[q] \notin Inside
    <3>1. Magic \cup Append \cup {"options", "hints", "tables", "size", "open"} \subseteq Inside
      BY DEF Inside, Mkfs
    <3>2. /\ Append = {"new size", "new options", "new blocks"}
          /\ Magic = {"magic", "no size", "client length", "client magic"}
      BY DEF Append, Magic
    <3>3. pc'[q] = pc[q] BY <1>1, <2>2
    <3> QED BY <2>2, <3>1, <3>2, <3>3 DEF Knows
  <2>3. CASE q # p /\ pc[q] \in Inside
    <3>1. lock[q] # "none" BY <1>0, <2>3 DEF Safe, LockInv
    <3>2. lock[p] # "write" BY <1>0, <2>3, WriterAlone
    <3>3. file' = file /\ ~damaged BY <1>1, <3>1, <3>2 DEF FileMoves
    <3> QED BY <1>1, <2>3, <3>3, KnowsOfEach
  <2> QED BY <2>1, <2>2, <2>3
<1>3. FileSound'
  <2>1. CASE Sound(file') BY <2>1 DEF FileSound, Sound, Formatted
  <2>2. CASE pc'[p] \in Busy BY <2>2 DEF FileSound, Busy, Append
  <2>3. CASE file' = file /\ pc[p] \notin Busy /\ (damaged => damaged')
    <3>1. FileSound BY <2>3 DEF IInv, DataInv
    <3>2. CASE Sound(file) BY <2>3, <3>2 DEF FileSound, Sound, Formatted
    <3>3. CASE \E q \in Proc : pc[q] \in Busy
      <4>1. PICK q \in Proc : pc[q] \in Busy BY <3>3
      <4>2. pc'[q] \in Busy BY <1>1, <2>3, <4>1
      <4> QED BY <4>2 DEF FileSound, Busy, Append
    <3> QED BY <3>1, <3>2, <3>3 DEF FileSound
  <2> QED BY <2>1, <2>2, <2>3 DEF Kept
<1> QED BY <1>2, <1>3 DEF DataInv, Knows, Marked, Sound, SoundIfAgreed, SizesAgree, Formatted, Append

-----------------------------------------------------------------------------
(***************************************************************************)
(* Each action keeps what the process knows and leaves the file sound, or  *)
(* is followed by another that does.                                       *)
(***************************************************************************)

\* The stages in which nothing is known of the file.
Ignorant == {"out", "wait open", "wait mkfs", "create", "read", "refuse", "truncate", "save", "close"}

LEMMA KnowsNothing ==
  ASSUME NEW s \in Ignorant, NEW h, NEW f
  PROVE  Knows(s, h, f)
BY DEF Ignorant, Knows, Append

LEMMA Moved ==
  ASSUME Safe, NEW p \in Proc, NEW s, pc' = [pc EXCEPT ![p] = s]
  PROVE  pc'[p] = s
BY DEF Safe, TypeOK

\* A step that only goes on to such a stage.
LEMMA KeptByGoing ==
  ASSUME Safe, NEW p \in Proc, NEW s \in Ignorant,
         pc' = [pc EXCEPT ![p] = s],
         Sound(file') \/ (file' = file /\ pc[p] \notin Busy /\ (damaged => damaged'))
  PROVE  Kept(p)
<1>1. pc'[p] = s BY Moved
<1>2. Knows(pc'[p], fs'[p], file') BY <1>1, KnowsNothing
<1> QED BY <1>2 DEF Kept

LEMMA KeptOutside ==
  ASSUME IInv, NEW p \in Proc, ~damaged',
         \/ \E rw \in BOOLEAN : OpenFile(p, rw)
         \/ OpenOrCreate(p)
         \/ Create(p) \/ Lock(p) \/ Finalize(p) \/ Close(p) \/ Crash(p)
  PROVE  Kept(p)
<1>0. Safe BY DEF IInv
<1>1. CASE \E rw \in BOOLEAN : OpenFile(p, rw)
  <2>1. /\ pc[p] = "out" /\ pc' = [pc EXCEPT ![p] = "wait open"]
        /\ file' = file /\ damaged' = damaged
    BY <1>1 DEF OpenFile, Go
  <2> QED BY <1>0, <2>1, KeptByGoing DEF Ignorant, Busy, Append
<1>2. CASE OpenOrCreate(p)
  <2> DEFINE s == IF file.exists THEN "wait mkfs" ELSE "create"
  <2>1. /\ pc[p] = "out" /\ pc' = [pc EXCEPT ![p] = s]
        /\ file' = file /\ damaged' = damaged
    BY <1>2 DEF OpenOrCreate, Go
  <2>2. s \in Ignorant BY DEF Ignorant
  <2> HIDE DEF s
  <2> QED BY <1>0, <2>1, <2>2, KeptByGoing DEF Busy, Append
<1>3. CASE Create(p)
  <2>1. EmptyFile.size = 0 BY DEF EmptyFile, NoFile
  <2>2. Sound(file') BY <1>3, <2>1 DEF Create, Sound
  <2> QED BY <1>0, <1>3, <2>2, KeptByGoing DEF Create, Go, Ignorant
<1>4. CASE Lock(p)
  BY <1>0, <1>4, KeptByGoing DEF Lock, Go, Ignorant, Busy, Append
<1>5. CASE Finalize(p)
  BY <1>0, <1>5, KeptByGoing DEF Finalize, Go, Ignorant, Busy, Append
<1>6. CASE Close(p)
  BY <1>0, <1>6, KeptByGoing DEF Close, Go, Ignorant, Busy, Append
<1>7. CASE Crash(p)
  <2>1. /\ file' = file /\ pc' = [pc EXCEPT ![p] = "out"]
        /\ ~damaged /\ pc[p] \notin Append /\ ~(pc[p] \in {"magic", "no size"} /\ file.len # file.size)
    BY <1>7 DEF Crash, Go, Append
  <2>2. CASE pc[p] \in {"magic", "no size"}
    <3>1. SoundIfAgreed(file) BY <2>1, <2>2, KnowsOfEach DEF Knows
    <3>2. Sound(file) BY <2>1, <2>2, <3>1 DEF SoundIfAgreed, SizesAgree, Sound
    <3>3. Sound(file') BY <2>1, <3>2
    <3> QED BY <1>0, <2>1, <3>3, KeptByGoing DEF Ignorant
  <2>3. CASE pc[p] \notin {"magic", "no size"}
    BY <1>0, <2>1, <2>3, KeptByGoing DEF Ignorant, Busy
  <2> QED BY <2>2, <2>3
<1> QED BY <1>1, <1>2, <1>3, <1>4, <1>5, <1>6, <1>7

LEMMA SoundWithHints ==
  ASSUME NEW f \in File, Sound(f)
  PROVE  Sound([f EXCEPT !.hints = TRUE])
BY DEF Sound, Formatted, File

LEMMA KeptReading ==
  ASSUME IInv, NEW p \in Proc, ~damaged', ReadHeader(p) \/ Refuse(p) \/ SaveHints(p)
  PROVE  Kept(p)
<1>0. Safe BY DEF IInv
<1>1. ~damaged /\ pc[p] \in Inside /\ pc[p] \notin Busy
  <2>1. pc[p] \in {"read", "refuse", "save"} BY DEF ReadHeader, Refuse, SaveHints
  <2>2. UNCHANGED damaged BY DEF ReadHeader, Refuse, SaveHints
  <2> QED BY <2>1, <2>2 DEF Inside, Closing, Busy, Append
<1>2. Sound(file) BY <1>1, SoundWhenQuiet
<1>3. CASE ReadHeader(p)
  <2>0. file' = file BY <1>3 DEF ReadHeader
  <2>1. CASE Readable(file) /\ file.hints
    <3>1. /\ pc' = [pc EXCEPT ![p] = "open"] /\ fs' = [fs EXCEPT ![p].blocks = file.blocks]
      BY <1>3, <2>1 DEF ReadHeader, Go
    <3>2. pc'[p] = "open" /\ fs'[p].blocks = file.blocks
      BY <1>0, <3>1, Moved DEF Safe, TypeOK, Handle
    <3>3. file.size = file.len /\ file.blocks = file.size /\ file.size # 0
      BY <1>2, <2>1 DEF Sound, SizesAgree, Readable
    <3>4. Knows("open", fs'[p], file) BY <2>1, <3>2, <3>3 DEF Knows, Marked, Readable, Append
    <3> QED BY <1>2, <2>0, <3>2, <3>4 DEF Kept
  <2>2. CASE ~(Readable(file) /\ file.hints)
    <3>1. pc' = [pc EXCEPT ![p] = "refuse"] BY <1>3, <2>2 DEF ReadHeader, Go
    <3> QED BY <1>0, <1>2, <2>0, <3>1, KeptByGoing DEF Ignorant
  <2> QED BY <2>1, <2>2
<1>4. CASE Refuse(p)
  <2>1. pc' = [pc EXCEPT ![p] = "close"] BY <1>4 DEF Refuse, Go
  <2>2. file' \in {file, [file EXCEPT !.magic = FALSE], [file EXCEPT !.hints = TRUE]}
    BY <1>4 DEF Refuse
  <2>3. Sound([file EXCEPT !.magic = FALSE]) BY <1>0, <1>2, Typed DEF Sound, Formatted, File
  <2>4. Sound(file') BY <1>0, <1>2, <2>2, <2>3, SoundWithHints, Typed
  <2> QED BY <1>0, <2>1, <2>4, KeptByGoing DEF Ignorant
<1>5. CASE SaveHints(p)
  <2>1. pc' = [pc EXCEPT ![p] = "close"] /\ file' \in {file, [file EXCEPT !.hints = TRUE]}
    BY <1>5 DEF SaveHints, Go
  <2>2. Sound(file') BY <1>0, <1>2, <2>1, SoundWithHints, Typed
  <2> QED BY <1>0, <2>1, <2>2, KeptByGoing DEF Ignorant
<1> QED BY <1>3, <1>4, <1>5

LEMMA KeptByTruncating ==
  ASSUME IInv, NEW p \in Proc, ~damaged', NEW n \in Count, MkfsTruncate(p, n)
  PROVE  Kept(p)
<1>0. Safe /\ file \in File /\ n \in 0..MaxBlocks BY Typed, MaxBlocksAssumption DEF IInv, Count
<1>1. /\ pc[p] = "truncate" /\ ~damaged
      /\ \/ file' = Resized(n) /\ pc' = [pc EXCEPT ![p] = "magic"]
         \/ file' = file /\ pc' = [pc EXCEPT ![p] = "save"]
  BY DEF MkfsTruncate, Go
<1>2. Sound(file) BY <1>1, SoundWhenQuiet DEF Inside, Mkfs, Busy, Append
<1>3. CASE file' = Resized(n) /\ pc' = [pc EXCEPT ![p] = "magic"]
  <2>1. SoundIfAgreed(file')
    BY <1>0, <1>2, <1>3 DEF Resized, File, Sound, SoundIfAgreed, SizesAgree, Formatted
  <2>2. pc'[p] = "magic" BY <1>0, <1>3, Moved
  <2>3. Knows("magic", fs'[p], file') BY <2>1 DEF Knows, Append
  <2> QED BY <2>2, <2>3 DEF Kept, Busy
<1>4. CASE file' = file /\ pc' = [pc EXCEPT ![p] = "save"]
  BY <1>0, <1>2, <1>4, KeptByGoing DEF Ignorant
<1> QED BY <1>1, <1>3, <1>4

\* The four writes of whefs_mkfs_write_magic.
LEMMA KeptByMagic ==
  ASSUME IInv, NEW p \in Proc, ~damaged',
         MkfsMagic(p) \/ MkfsNoSize(p) \/ MkfsClientLength(p) \/ MkfsClientMagic(p)
  PROVE  Kept(p)
<1>0. Safe /\ file \in File BY Typed DEF IInv
<1>1. CASE MkfsMagic(p)
  <2>1. /\ pc[p] = "magic" /\ ~damaged /\ pc' = [pc EXCEPT ![p] = "no size"]
        /\ file' \in {file, [file EXCEPT !.magic = TRUE]}
    BY <1>1 DEF MkfsMagic, Unchecked, Go
  <2>2. SoundIfAgreed(file) BY <2>1, KnowsOfEach DEF Knows
  <2>3. SoundIfAgreed(file')
    BY <1>0, <2>1, <2>2 DEF SoundIfAgreed, SizesAgree, Formatted, File
  <2>4. pc'[p] = "no size" BY <1>0, <2>1, Moved
  <2>5. Knows("no size", fs'[p], file') BY <2>3 DEF Knows, Append
  <2> QED BY <2>4, <2>5 DEF Kept, Busy
<1>2. CASE MkfsNoSize(p)
  <2>1. /\ pc' = [pc EXCEPT ![p] = "client length"]
        /\ file' \in {[file EXCEPT !.wiped = {}], [[file EXCEPT !.wiped = {}] EXCEPT !.size = 0]}
        /\ file.magic /\ file'.size = 0
    BY <1>2 DEF MkfsNoSize, Go
  <2>2. file'.magic BY <1>0, <2>1 DEF File
  <2>3. pc'[p] = "client length" BY <1>0, <2>1, Moved
  <2>4. Knows("client length", fs'[p], file') BY <2>1, <2>2 DEF Knows, Append
  <2>5. Sound(file') BY <2>1 DEF Sound
  <2> QED BY <2>3, <2>4, <2>5 DEF Kept
<1>3. CASE MkfsClientLength(p)
  <2>1. /\ pc[p] = "client length" /\ pc' = [pc EXCEPT ![p] = "client magic"]
        /\ file' \in {file, [file EXCEPT !.client = TRUE]}
        /\ ~damaged /\ file'.client
    BY <1>3 DEF MkfsClientLength, Unchecked, Go
  <2>2. file.magic /\ file.size = 0 BY <2>1, KnowsOfEach DEF Knows
  <2>3. file'.magic /\ file'.size = 0 BY <1>0, <2>1, <2>2 DEF File
  <2>4. pc'[p] = "client magic" BY <1>0, <2>1, Moved
  <2>5. Knows("client magic", fs'[p], file') BY <2>1, <2>3 DEF Knows, Append
  <2>6. Sound(file') BY <2>3 DEF Sound
  <2> QED BY <2>4, <2>5, <2>6 DEF Kept
<1>4. CASE MkfsClientMagic(p)
  <2>1. /\ pc[p] = "client magic" /\ ~damaged /\ file' = file
        /\ \/ pc' = [pc EXCEPT ![p] = "options"] \/ pc' = [pc EXCEPT ![p] = "save"]
    BY <1>4 DEF MkfsClientMagic, MkfsStep, Go
  <2>2. file.magic /\ file.client /\ file.size = 0 BY <2>1, KnowsOfEach DEF Knows
  <2>3. Sound(file') BY <2>1, <2>2 DEF Sound
  <2>4. CASE pc' = [pc EXCEPT ![p] = "options"]
    <3>1. pc'[p] = "options" BY <1>0, <2>4, Moved
    <3>2. Knows("options", fs'[p], file') BY <2>1, <2>2 DEF Knows, Append
    <3> QED BY <2>3, <3>1, <3>2 DEF Kept
  <2>5. CASE pc' = [pc EXCEPT ![p] = "save"]
    BY <1>0, <2>3, <2>5, KeptByGoing DEF Ignorant
  <2> QED BY <2>1, <2>4, <2>5
<1> QED BY <1>1, <1>2, <1>3, <1>4

LEMMA KeptByMkfs ==
  ASSUME IInv, NEW p \in Proc, ~damaged', MkfsOptions(p) \/ MkfsHints(p)
  PROVE  Kept(p)
<1>0. Safe /\ file \in File /\ fs[p] \in Handle BY Typed DEF IInv
<1> DEFINE n == fs[p].blocks
<1>1. n \in 0..MaxBlocks BY <1>0, MaxBlocksAssumption DEF Handle
<1> HIDE DEF n
<1>2. CASE MkfsOptions(p)
  <2> DEFINE f == [file EXCEPT !.blocks = n]
  <2>1. /\ pc[p] = "options" /\ ~damaged /\ fs' = fs /\ file'.sizes
        /\ \/ /\ file' \in {f, [f EXCEPT !.sizes = TRUE]}
              /\ pc' = [pc EXCEPT ![p] = "hints"]
           \/ file' \in {file, f} /\ pc' = [pc EXCEPT ![p] = "save"]
    BY <1>2 DEF MkfsOptions, Go, n
  <2>2. file.magic /\ file.client /\ file.size = 0 BY <2>1, KnowsOfEach DEF Knows
  <2>3. /\ f.magic /\ f.client /\ f.size = 0 /\ f.blocks = n
        /\ [f EXCEPT !.sizes = TRUE].magic /\ [f EXCEPT !.sizes = TRUE].client
        /\ [f EXCEPT !.sizes = TRUE].size = 0 /\ [f EXCEPT !.sizes = TRUE].blocks = n
    BY <1>0, <2>2 DEF File
  <2> HIDE DEF f
  <2>4. file'.size = 0 BY <2>1, <2>2, <2>3
  <2>5. Sound(file') BY <2>4 DEF Sound
  <2>6. CASE file' \in {f, [f EXCEPT !.sizes = TRUE]} /\ pc' = [pc EXCEPT ![p] = "hints"]
    <3>1. file'.magic /\ file'.client /\ file'.blocks = fs'[p].blocks
      BY <2>1, <2>3, <2>6 DEF n
    <3>2. pc'[p] = "hints" BY <1>0, <2>6, Moved
    <3>3. Knows("hints", fs'[p], file') BY <2>1, <2>4, <3>1 DEF Knows, Append
    <3> QED BY <2>5, <3>2, <3>3 DEF Kept
  <2>7. CASE pc' = [pc EXCEPT ![p] = "save"]
    BY <1>0, <2>5, <2>7, KeptByGoing DEF Ignorant
  <2> QED BY <2>1, <2>6, <2>7
<1>3. CASE MkfsHints(p)
  <2>1. /\ pc[p] = "hints" /\ ~damaged /\ fs' = fs
        /\ \/ file' = [file EXCEPT !.hints = TRUE] /\ pc' = [pc EXCEPT ![p] = "tables"]
           \/ file' = file /\ pc' = [pc EXCEPT ![p] = "save"]
    BY <1>3 DEF MkfsHints, MkfsStep, Go
  <2>2. /\ file.magic /\ file.client /\ file.sizes /\ file.size = 0
        /\ file.blocks = fs[p].blocks
    BY <2>1, KnowsOfEach DEF Knows
  <2>3. fs[p].done = -1 BY <2>1 DEF IInv, Chosen, Unformatted
  <2>4. CASE file' = [file EXCEPT !.hints = TRUE] /\ pc' = [pc EXCEPT ![p] = "tables"]
    <3>1. /\ file'.magic /\ file'.client /\ file'.sizes /\ file'.size = 0
          /\ file'.blocks = fs'[p].blocks /\ file'.hints
      BY <1>0, <2>1, <2>2, <2>4 DEF File
    <3>2. pc'[p] = "tables" BY <1>0, <2>4, Moved
    <3>3. Formatted(file', fs'[p].done) BY <2>1, <2>3 DEF Formatted
    <3>4. Knows("tables", fs'[p], file') BY <3>1, <3>3 DEF Knows, Append
    <3>5. Sound(file') BY <3>1 DEF Sound
    <3> QED BY <3>2, <3>4, <3>5 DEF Kept
  <2>5. CASE file' = file /\ pc' = [pc EXCEPT ![p] = "save"]
    <3>1. Sound(file') BY <2>2, <2>5 DEF Sound
    <3> QED BY <1>0, <2>5, <3>1, KeptByGoing DEF Ignorant
  <2> QED BY <2>1, <2>4, <2>5
<1> QED BY <1>2, <1>3

\* One more block is formatted.
LEMMA WipedFormats ==
  ASSUME NEW f \in File, NEW n \in -1..MaxBlocks, n < MaxBlocks, f = file, Formatted(f, n)
  PROVE  /\ Formatted(Wiped(n + 1), n + 1)
         /\ Wiped(n + 1).magic = f.magic /\ Wiped(n + 1).hints = f.hints
         /\ Wiped(n + 1).client = f.client /\ Wiped(n + 1).sizes = f.sizes
         /\ Wiped(n + 1).size = f.size /\ Wiped(n + 1).blocks = f.blocks
         /\ n + 1 <= f.len => Wiped(n + 1).len = f.len
<1> DEFINE b == n + 1
<1>1. 0..b \subseteq (0..n) \cup {b} BY MaxBlocksAssumption
<1>2. b \in Nat BY MaxBlocksAssumption
<1> HIDE DEF b
<1>3. /\ Wiped(b).wiped = f.wiped \cup {b} /\ Wiped(b).magic = f.magic /\ Wiped(b).hints = f.hints
      /\ Wiped(b).client = f.client /\ Wiped(b).sizes = f.sizes
      /\ Wiped(b).size = f.size /\ Wiped(b).blocks = f.blocks /\ Wiped(b).len = Max2(f.len, b)
  BY DEF Wiped, File
<1>4. Formatted(Wiped(b), b) BY <1>1, <1>3 DEF Formatted
<1>5. b <= f.len => Max2(f.len, b) = f.len BY <1>2, MaxBlocksAssumption DEF Max2, File
<1> QED BY <1>3, <1>4, <1>5 DEF b

LEMMA KeptByFormatting ==
  ASSUME IInv, NEW p \in Proc, ~damaged', MkfsTables(p) \/ MkfsSize(p)
  PROVE  Kept(p)
<1>0. Safe /\ file \in File /\ fs[p] \in Handle BY Typed DEF IInv
<1>1. /\ pc[p] \in {"tables", "size"} /\ ~damaged
  BY <1>0, Typed DEF MkfsTables, MkfsSize
<1>2. /\ Marked(file) /\ file.size = 0 /\ file.blocks = fs[p].blocks
      /\ Formatted(file, fs[p].done)
      /\ pc[p] = "size" => fs[p].done = fs[p].blocks
  BY <1>1, KnowsOfEach DEF Knows, Marked
<1>3. CASE MkfsTables(p)
  <2> DEFINE b == fs[p].done + 1
             s == IF b = fs[p].blocks THEN "size" ELSE "tables"
  <2>1. \/ file' = Wiped(b) /\ pc' = [pc EXCEPT ![p] = s] /\ fs' = [fs EXCEPT ![p].done = b]
        \/ file' = file /\ pc' = [pc EXCEPT ![p] = "save"]
    BY <1>3 DEF MkfsTables, Go
  <2>2. fs[p].done \in -1..MaxBlocks /\ fs[p].done < MaxBlocks
    <3>1. fs[p].done < fs[p].blocks BY <1>0, <1>3, Typed DEF MkfsTables, Formats
    <3> QED BY <1>0, <3>1, MaxBlocksAssumption DEF Handle
  <2>3. CASE file' = Wiped(b) /\ pc' = [pc EXCEPT ![p] = s] /\ fs' = [fs EXCEPT ![p].done = b]
    <3>1. /\ Marked(file') /\ file'.size = 0 /\ file'.blocks = fs[p].blocks
          /\ Formatted(file', b)
      BY <1>0, <1>2, <2>2, <2>3, WipedFormats DEF Marked
    <3>2. fs'[p].blocks = fs[p].blocks /\ fs'[p].done = b
      BY <1>0, <2>3 DEF Safe, TypeOK, Handle
    <3>3. pc'[p] = s BY <1>0, <2>3, Moved
    <3>4. s \in {"tables", "size"} /\ (s = "size" => b = fs[p].blocks) OBVIOUS
    <3> HIDE DEF b, s
    <3>5. Knows(s, fs'[p], file') BY <3>1, <3>2, <3>4 DEF Knows, Marked, Append
    <3>6. Sound(file') BY <3>1 DEF Sound
    <3> QED BY <3>3, <3>5, <3>6 DEF Kept
  <2>4. CASE file' = file /\ pc' = [pc EXCEPT ![p] = "save"]
    <3>1. Sound(file') BY <1>2, <2>4 DEF Sound
    <3> QED BY <1>0, <2>4, <3>1, KeptByGoing DEF Ignorant
  <2> QED BY <2>1, <2>3, <2>4
<1>4. CASE MkfsSize(p)
  <2>1. /\ pc[p] = "size" /\ fs' = fs
        /\ \/ /\ file.len = fs[p].blocks /\ file' = [file EXCEPT !.size = fs[p].blocks]
              /\ pc' = [pc EXCEPT ![p] = "open"]
           \/ file' = file /\ pc' = [pc EXCEPT ![p] = "save"]
    BY <1>4 DEF MkfsSize, Go
  <2>2. CASE /\ file.len = fs[p].blocks /\ file' = [file EXCEPT !.size = fs[p].blocks]
             /\ pc' = [pc EXCEPT ![p] = "open"]
    <3>1. /\ Marked(file') /\ file'.len = fs[p].blocks /\ file'.size = fs[p].blocks
          /\ file'.blocks = fs[p].blocks /\ Formatted(file', fs[p].blocks)
      BY <1>0, <1>2, <2>1, <2>2 DEF File, Formatted, Marked
    <3>2. fs[p].blocks # 0 BY <2>1 DEF IInv, Chosen
    <3>3. pc'[p] = "open" BY <1>0, <2>2, Moved
    <3>4. Knows("open", fs'[p], file') BY <2>1, <3>1, <3>2 DEF Knows, Append
    <3>5. Sound(file') BY <3>1 DEF Sound
    <3> QED BY <3>3, <3>4, <3>5 DEF Kept
  <2>3. CASE file' = file /\ pc' = [pc EXCEPT ![p] = "save"]
    <3>1. Sound(file') BY <1>2, <2>3 DEF Sound
    <3> QED BY <1>0, <2>3, <3>1, KeptByGoing DEF Ignorant
  <2> QED BY <2>1, <2>2, <2>3
<1> QED BY <1>3, <1>4

LEMMA KeptByGrowing ==
  ASSUME IInv, NEW p \in Proc, ~damaged', NEW n \in Count, Grow(p, n)
  PROVE  Kept(p)
<1>0. Safe /\ file \in File /\ fs[p] \in Handle BY Typed DEF IInv
<1> DEFINE old == fs[p].blocks
           new == old + n
<1>1. /\ pc[p] = "open" /\ ~damaged /\ new <= MaxBlocks
      /\ \/ /\ file' = Resized(new) /\ pc' = [pc EXCEPT ![p] = "new size"]
            /\ fs' = [fs EXCEPT ![p] = [fs[p] EXCEPT !.blocks = new, !.done = old]]
         \/ file' = Resized(old) /\ pc' = pc /\ fs' = fs
  BY DEF Grow, Go
<1>2. old \in 0..MaxBlocks /\ new \in 0..MaxBlocks /\ old < new /\ new # 0
  <2>1. old \in 0..MaxBlocks BY <1>0 DEF Handle
  <2>2. n \in 1..MaxBlocks BY DEF Count
  <2>3. old + n <= MaxBlocks BY <1>1
  <2> HIDE DEF old
  <2>4. /\ old + n \in 0..MaxBlocks /\ old < old + n /\ old + n # 0
    BY <2>1, <2>2, <2>3, MaxBlocksAssumption
  <2> QED BY <2>1, <2>4
<1>3. /\ Marked(file) /\ file.len = old /\ old # 0 /\ file.size = old /\ file.blocks = old
  BY <1>1, KnowsOfEach DEF Knows
<1>4. Formatted(file, old)
  <2>1. Sound(file) BY <1>1, SoundWhenQuiet DEF Inside, Busy, Append
  <2> QED BY <1>3, <2>1 DEF Sound
<1>5. \A m \in {old, new} :
        /\ Marked(Resized(m)) /\ Resized(m).len = m
        /\ Resized(m).size = old /\ Resized(m).blocks = old /\ Formatted(Resized(m), old)
  <2> SUFFICES ASSUME NEW m \in {old, new}
      PROVE  /\ Marked(Resized(m)) /\ Resized(m).len = m
             /\ Resized(m).size = old /\ Resized(m).blocks = old /\ Formatted(Resized(m), old)
    OBVIOUS
  <2> HIDE DEF old, new
  <2>1. 0..old \subseteq 0..m BY <1>2, MaxBlocksAssumption
  <2> QED BY <1>0, <1>3, <1>4, <2>1 DEF Resized, File, Formatted, Marked
<1> HIDE DEF old, new
<1>6. CASE /\ file' = Resized(new) /\ pc' = [pc EXCEPT ![p] = "new size"]
           /\ fs' = [fs EXCEPT ![p] = [fs[p] EXCEPT !.blocks = new, !.done = old]]
  <2>1. fs'[p].blocks = new /\ fs'[p].done = old BY <1>0, <1>6 DEF Safe, TypeOK, Handle
  <2>2. pc'[p] = "new size" BY <1>0, <1>6, Moved
  <2>3. Knows("new size", fs'[p], file') BY <1>2, <1>5, <1>6, <2>1 DEF Knows, Append
  <2> QED BY <2>2, <2>3 DEF Kept, Busy, Append
<1>7. CASE file' = Resized(old) /\ pc' = pc /\ fs' = fs
  <2>1. fs'[p].blocks = old BY <1>7 DEF old
  <2>2. Knows("open", fs'[p], file') BY <1>3, <1>5, <1>7, <2>1 DEF Knows, Append
  <2>3. Sound(file') BY <1>5, <1>7 DEF Sound
  <2> QED BY <1>1, <1>7, <2>2, <2>3 DEF Kept
<1> QED BY <1>1, <1>6, <1>7

LEMMA KeptByAppending ==
  ASSUME IInv, NEW p \in Proc, ~damaged', AppendSize(p) \/ AppendOptions(p) \/ AppendBlocks(p)
  PROVE  Kept(p)
<1>0. Safe /\ file \in File /\ fs[p] \in Handle BY Typed DEF IInv
<1>1. pc[p] \in Append /\ ~damaged
  <2>1. pc[p] \in Append BY DEF AppendSize, AppendOptions, AppendStep, AppendBlocks, Append
  <2>2. UNCHANGED damaged BY DEF AppendSize, AppendOptions, AppendStep, AppendBlocks
  <2> QED BY <2>1, <2>2
<1>2. /\ Marked(file) /\ file.len = fs[p].blocks /\ fs[p].blocks # 0
      /\ Formatted(file, fs[p].done)
      /\ pc[p] # "new size" => file.size = fs[p].blocks
      /\ pc[p] = "new blocks" => file.blocks = fs[p].blocks
  BY <1>1, KnowsOfEach DEF Knows, Append
<1>3. CASE AppendSize(p)
  <2>1. /\ file' = [file EXCEPT !.size = fs[p].blocks] /\ fs' = fs
        /\ pc' = [pc EXCEPT ![p] = "new options"]
    BY <1>3 DEF AppendSize, AppendStep, Go
  <2>2. pc'[p] = "new options" BY <1>0, <2>1, Moved
  <2>3. /\ Marked(file') /\ file'.len = fs[p].blocks /\ file'.size = fs[p].blocks
        /\ Formatted(file', fs[p].done)
    BY <1>0, <1>2, <2>1 DEF File, Formatted, Marked
  <2>4. Knows("new options", fs'[p], file') BY <1>2, <2>1, <2>3 DEF Knows, Append
  <2> QED BY <2>2, <2>4 DEF Kept, Busy, Append
<1>4. CASE AppendOptions(p)
  <2>1. /\ file' = [file EXCEPT !.blocks = fs[p].blocks] /\ fs' = fs /\ pc[p] = "new options"
        /\ pc' = [pc EXCEPT ![p] = "new blocks"]
    BY <1>4 DEF AppendOptions, AppendStep, Go
  <2>2. pc'[p] = "new blocks" BY <1>0, <2>1, Moved
  <2>3. /\ Marked(file') /\ file'.len = fs[p].blocks /\ file'.size = fs[p].blocks
        /\ file'.blocks = fs[p].blocks /\ Formatted(file', fs[p].done)
    BY <1>0, <1>2, <2>1 DEF File, Formatted, Marked
  <2>4. Knows("new blocks", fs'[p], file') BY <1>2, <2>1, <2>3 DEF Knows, Append
  <2> QED BY <2>2, <2>4 DEF Kept, Busy, Append
<1>5. CASE AppendBlocks(p)
  <2> DEFINE b == fs[p].done + 1
             s == IF b = fs[p].blocks THEN "open" ELSE "new blocks"
  <2>1. /\ pc[p] = "new blocks" /\ file' = Wiped(b)
        /\ pc' = [pc EXCEPT ![p] = s] /\ fs' = [fs EXCEPT ![p].done = b]
    BY <1>5 DEF AppendBlocks, Go
  <2>2. fs[p].done \in -1..MaxBlocks /\ fs[p].done < MaxBlocks /\ b <= fs[p].blocks
    <3>1. fs[p].done < fs[p].blocks BY <1>0, <1>1, Typed DEF Formats
    <3> QED BY <1>0, <3>1, MaxBlocksAssumption DEF Handle
  <2>3. /\ Marked(file') /\ file'.len = fs[p].blocks /\ file'.size = fs[p].blocks
        /\ file'.blocks = fs[p].blocks /\ Formatted(file', b)
    BY <1>0, <1>2, <2>1, <2>2, WipedFormats DEF Marked
  <2>4. fs'[p].blocks = fs[p].blocks /\ fs'[p].done = b
    BY <1>0, <2>1 DEF Safe, TypeOK, Handle
  <2>5. pc'[p] = s BY <1>0, <2>1, Moved
  <2>6. s \in {"open", "new blocks"} /\ (s = "open" => b = fs[p].blocks) OBVIOUS
  <2> HIDE DEF b, s
  <2>7. Knows(s, fs'[p], file') BY <1>2, <2>3, <2>4, <2>6 DEF Knows, Append
  <2>8. CASE s = "open"
    <3>1. Sound(file') BY <2>3, <2>6, <2>8 DEF Sound
    <3> QED BY <2>5, <2>7, <3>1 DEF Kept
  <2>9. CASE s = "new blocks" BY <2>5, <2>7, <2>9 DEF Kept, Busy, Append
  <2> QED BY <2>6, <2>8, <2>9
<1> QED BY <1>3, <1>4, <1>5

LEMMA StepKept ==
  ASSUME IInv, NEW p \in Proc, ~damaged', Step(p)
  PROVE  Kept(p)
BY KeptOutside, KeptReading, KeptByTruncating, KeptByMagic, KeptByMkfs, KeptByFormatting, KeptByGrowing, KeptByAppending
DEF Step, Call, Proceed

-----------------------------------------------------------------------------
(***************************************************************************)
(* The theorems.                                                           *)
(***************************************************************************)

LEMMA InitIInv ==
  ASSUME Init
  PROVE  IInv
<1>1. Safe BY InitSafe
<1>2. Chosen BY DEF Init, Chosen, Unformatted, Magic
<1>3. Sound(file) BY DEF Init, NoFile, Sound
<1>4. \A p \in Proc : Knows(pc[p], fs[p], file) BY KnowsNothing DEF Init, Ignorant
<1> QED BY <1>1, <1>2, <1>3, <1>4 DEF IInv, DataInv, FileSound

LEMMA IInvIsInductive == IInv /\ [Next]_vars => IInv'
<1> SUFFICES ASSUME IInv, [Next]_vars PROVE IInv'
  OBVIOUS
<1>1. ASSUME NEW p \in Proc, Step(p) PROVE IInv'
  <2>1. Safe' BY <1>1, StepShaped, StepSafe DEF IInv
  <2>2. Chosen' BY <1>1, StepChosen DEF IInv
  <2>3. ~damaged' => DataInv' BY <1>1, StepKept, KeptByAll
  <2> QED BY <2>1, <2>2, <2>3 DEF IInv
<1>2. CASE UNCHANGED vars
  BY <1>2 DEF vars, IInv, Safe, TypeOK, Progress, LockInv, Chosen, Unformatted, DataInv,
              FileSound, Sound, Formatted, Busy, Append, Knows, Marked, SoundIfAgreed, SizesAgree
<1> QED BY <1>1, <1>2 DEF Next, Step

THEOREM AlwaysIInv == Spec => []IInv
<1>1. Init => IInv BY InitIInv
<1> QED BY <1>1, IInvIsInductive, PTL DEF Spec

\* Unless a write was lost unnoticed, that of size 0 over an older container above all,
\* or a call that adds blocks was cut short, only complete containers pass the checks of
\* whefs_openfs, although whefs_mkfs writes them piece by piece over what was there.
THEOREM OnlyCompleteOpens == Spec => []OpensOnlyComplete
<1>1. IInv => OpensOnlyComplete
  <2> SUFFICES ASSUME IInv, ~damaged, Readable(file),
                      \A p \in Proc : pc[p] \notin Append
      PROVE  file.blocks = file.size /\ 0..file.blocks \subseteq file.wiped
    BY DEF OpensOnlyComplete
  <2>1. CASE \E p \in Proc : pc[p] \in {"magic", "no size"}
    BY <2>1, KnowsOfEach DEF Knows, SoundIfAgreed, Formatted, Readable
  <2>2. CASE \A p \in Proc : pc[p] \notin {"magic", "no size"}
    <3>1. Sound(file) BY <2>2 DEF IInv, DataInv, FileSound, Busy
    <3> QED BY <3>1 DEF Sound, SizesAgree, Formatted, Readable
  <2> QED BY <2>1, <2>2
<1> QED BY <1>1, AlwaysIInv, PTL

\* What an open handle has of the container in memory is what is in the file, for
\* any number of readers and of processes that make, extend and close containers.
THEOREM HandlesAgree == Spec => []HandleAgrees
<1>1. IInv => HandleAgrees
  BY KnowsOfEach DEF HandleAgrees, Knows, Marked
<1> QED BY <1>1, AlwaysIInv, PTL
=============================================================================
