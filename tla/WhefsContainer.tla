--------------------------- MODULE WhefsContainer ---------------------------
(***************************************************************************)
(* The life of a container file that several processes use: whefs_mkfs,    *)
(* whefs_openfs, whefs_fs_append_blocks and whefs_fs_finalize, with the    *)
(* lock on the whole file that each takes when it has opened it.           *)
(*                                                                         *)
(* Each write to the file is a step, so that another process may run or    *)
(* the process may stop between any two, and may fail.  A process that     *)
(* ends drops its lock.  Sizes are counted in blocks: the header and the   *)
(* tables have the same size in all containers here, and a length of 0 is  *)
(* a file without blocks.  What is in the files of a container is left out. *)
(***************************************************************************)
EXTENDS Integers, FiniteSets

CONSTANTS
  Proc,      \* the processes; each has at most one handle at a time
  MaxBlocks  \* bounds the number of blocks of a container

ASSUME MaxBlocksAssumption == MaxBlocks \in Nat \ {0}

VARIABLES
  file,    \* the container file
  lock,    \* the fcntl() lock each process holds on it
  pc,      \* what each process does next
  fs,      \* its whefs_fs: rw, options.block_count, and the blocks done so far
  damaged  \* a write was lost unnoticed, or a call that adds blocks was cut short

vars == <<file, lock, pc, fs, damaged>>

Count == 1..MaxBlocks

File ==
  [exists : BOOLEAN,
   magic  : BOOLEAN,           \* the magic bytes are there
   client : BOOLEAN,           \* the length of the client's magic is there
   sizes  : BOOLEAN,           \* the block size and the length of names are there
   size   : 0..MaxBlocks,      \* the recorded size, 0 while whefs_mkfs runs
   blocks : 0..MaxBlocks,      \* the recorded block count
   hints  : BOOLEAN,           \* the hints have their tag
   wiped  : SUBSET (0..MaxBlocks), \* what is formatted: 0 the tables, b block b
   len    : 0..MaxBlocks]      \* the length of the file

NoFile ==
  [exists |-> FALSE, magic |-> FALSE, client |-> FALSE, sizes |-> FALSE, size |-> 0,
   blocks |-> 0, hints |-> FALSE, wiped |-> {}, len |-> 0]
EmptyFile == [NoFile EXCEPT !.exists = TRUE]

Handle == [rw : BOOLEAN, blocks : 0..MaxBlocks, done : -1..MaxBlocks]
Closed == [rw |-> FALSE, blocks |-> 0, done |-> -1]

Waits   == {"create", "wait open", "wait mkfs"}
Magic   == {"magic", "no size", "client length", "client magic"}
Mkfs    == {"truncate", "options", "hints", "tables", "size"} \cup Magic
Append  == {"new size", "new options", "new blocks"}
Closing == {"refuse", "save", "close"}
Inside  == {"read", "open"} \cup Mkfs \cup Append \cup Closing
Stage   == {"out"} \cup Waits \cup Inside

Init ==
  /\ file = NoFile
  /\ lock = [p \in Proc |-> "none"]
  /\ pc = [p \in Proc |-> "out"]
  /\ fs = [p \in Proc |-> Closed]
  /\ damaged = FALSE

Go(p, stage) == pc' = [pc EXCEPT ![p] = stage]

Max2(a, b) == IF a >= b THEN a ELSE b

-----------------------------------------------------------------------------
(***************************************************************************)
(* Opening the file and locking it: whefs_open_FILE.                       *)
(***************************************************************************)

\* whefs_openfs: "r+b" or "rb".
OpenFile(p, rw) ==
  /\ pc[p] = "out"
  /\ file.exists
  /\ Go(p, "wait open")
  /\ fs' = [fs EXCEPT ![p] = [Closed EXCEPT !.rw = rw]]
  /\ UNCHANGED <<file, lock, damaged>>

\* whefs_mkfs: "r+b", and "w+b" next if there is no such file.  The number of
\* blocks is first looked at in MkfsTruncate, where it is chosen.
OpenOrCreate(p) ==
  /\ pc[p] = "out"
  /\ Go(p, IF file.exists THEN "wait mkfs" ELSE "create")
  /\ fs' = [fs EXCEPT ![p] = [Closed EXCEPT !.rw = TRUE]]
  /\ UNCHANGED <<file, lock, damaged>>

\* "w+b" empties the file that another process may have created meanwhile.
Create(p) ==
  /\ pc[p] = "create"
  /\ Go(p, "wait mkfs")
  /\ file' = EmptyFile
  /\ damaged' = (damaged \/ \E q \in Proc : lock[q] # "none")
  /\ UNCHANGED <<lock, fs>>

\* Mutant: every lock is a lock for reading.
LockShared(p) == [lock EXCEPT ![p] = "read"]

\* F_WRLCK or F_RDLCK on the whole file.
TakeLock(p) == [lock EXCEPT ![p] = IF fs[p].rw THEN "write" ELSE "read"]

Compatible(p) ==
  \A q \in Proc \ {p} : lock[q] = "none" \/ (lock[q] = "read" /\ ~fs[p].rw)

\* whefs_fs_lock: F_SETLKW waits until no other process holds the file.
Lock(p) ==
  /\ pc[p] \in {"wait open", "wait mkfs"}
  /\ Compatible(p)
  /\ lock' = TakeLock(p)
  /\ Go(p, IF pc[p] = "wait open" THEN "read" ELSE "truncate")
  /\ UNCHANGED <<file, fs, damaged>>

-----------------------------------------------------------------------------
(***************************************************************************)
(* whefs_openfs_stage2.  A handle that is refused goes to                  *)
(* whefs_fs_finalize, which writes the hints of a handle for writing.      *)
(***************************************************************************)

SizesAgree(f) == f.size # 0 /\ f.size = f.len

\* What is read before the hints: the magic bytes, the size, the length of the
\* client's magic, by which the options are found, and the options.  A number
\* that was never written lacks its tag.
Readable(f) == f.magic /\ SizesAgree(f) /\ f.client /\ f.sizes

\* Mutant: the handle is dropped, not finalized.
ReadAndLeak(p) ==
  /\ pc[p] = "read"
  /\ IF Readable(file) /\ file.hints
     THEN fs' = [fs EXCEPT ![p].blocks = file.blocks] /\ Go(p, "open")
     ELSE fs' = [fs EXCEPT ![p] = Closed] /\ Go(p, "out")
  /\ UNCHANGED <<file, lock, damaged>>

\* The header up to the tag of the hints.
ReadHeader(p) ==
  /\ pc[p] = "read"
  /\ IF Readable(file)
     THEN /\ fs' = [fs EXCEPT ![p].blocks = file.blocks]
          /\ Go(p, IF file.hints THEN "open" ELSE "refuse")
     ELSE Go(p, "refuse") /\ UNCHANGED fs
  /\ UNCHANGED <<file, lock, damaged>>

\* The offsets are only known when the options were read: before, the hints
\* go to offset 0, over the magic bytes.
Refuse(p) ==
  /\ pc[p] = "refuse"
  /\ file' = IF ~fs[p].rw THEN file
             ELSE IF fs[p].blocks = 0 THEN [file EXCEPT !.magic = FALSE]
             ELSE [file EXCEPT !.hints = TRUE]
  /\ Go(p, "close")
  /\ UNCHANGED <<lock, fs, damaged>>

-----------------------------------------------------------------------------
(***************************************************************************)
(* whefs_mkfs_stage2.  The recorded size stays 0 until the end; the other  *)
(* parts keep what an earlier container left until they are written.  When *)
(* a write is found to have failed the handle is finalized, which writes   *)
(* the hints; the results of some writes are not looked at.                *)
(***************************************************************************)

MkfsStep(p, stage, f, next) ==
  /\ pc[p] = stage
  /\ \/ file' = f /\ Go(p, next)
     \/ UNCHANGED file /\ Go(p, "save")
  /\ UNCHANGED <<lock, fs>>

Resized(n) == [file EXCEPT !.len = n, !.wiped = @ \cap 0..n]

MkfsTruncate(p, n) ==
  /\ pc[p] = "truncate"
  /\ fs' = [fs EXCEPT ![p] = [rw |-> TRUE, blocks |-> n, done |-> -1]]
  /\ \/ file' = Resized(n) /\ Go(p, "magic")
     \/ UNCHANGED file /\ Go(p, "save")
  /\ UNCHANGED <<lock, damaged>>

\* A write whose result is ignored.
Unchecked(p, stage, f, next) ==
  /\ pc[p] = stage
  /\ file' \in {file, f}
  /\ Go(p, next)
  /\ UNCHANGED <<lock, fs>>

\* whefs_mkfs_write_magic makes four writes and looks at the result of the last.
MkfsMagic(p) ==
  Unchecked(p, "magic", [file EXCEPT !.magic = TRUE], "no size") /\ UNCHANGED damaged

\* Mutant: the size of an earlier container stays.
OldSizeStays(p) ==
  /\ pc[p] = "no size"
  /\ file' = [file EXCEPT !.wiped = {}]
  /\ damaged' = ~file.magic
  /\ Go(p, "client length")
  /\ UNCHANGED <<lock, fs>>

\* From here on an earlier container is gone.  If the write is lost over one, its
\* size stays, and so what is made here looks complete before it is.
MkfsNoSize(p) ==
  LET f == [file EXCEPT !.wiped = {}] IN
  /\ pc[p] = "no size"
  /\ file' \in {f, [f EXCEPT !.size = 0]}
  /\ damaged' = (~file.magic \/ file'.size # 0)
  /\ Go(p, "client length")
  /\ UNCHANGED <<lock, fs>>

MkfsClientLength(p) ==
  /\ Unchecked(p, "client length", [file EXCEPT !.client = TRUE], "client magic")
  /\ damaged' = (damaged \/ ~file'.client)

\* What the client's magic is, nobody reads.
MkfsClientMagic(p) ==
  MkfsStep(p, "client magic", file, "options") /\ UNCHANGED damaged

\* Of the options only the two counts are checked.
MkfsOptions(p) ==
  LET f == [file EXCEPT !.blocks = fs[p].blocks] IN
  /\ pc[p] = "options"
  /\ \/ file' \in {f, [f EXCEPT !.sizes = TRUE]} /\ Go(p, "hints")
     \/ file' \in {file, f} /\ Go(p, "save")
  /\ damaged' = (damaged \/ ~file'.sizes)
  /\ UNCHANGED <<lock, fs>>

MkfsHints(p) ==
  MkfsStep(p, "hints", [file EXCEPT !.hints = TRUE], "tables") /\ UNCHANGED damaged

\* What is formatted: the tables, then block after block.
Wiped(b) == [file EXCEPT !.wiped = @ \cup {b}, !.len = Max2(@, b)]

MkfsTables(p) ==
  LET b == fs[p].done + 1 IN
  /\ pc[p] = "tables"
  /\ \/ /\ file' = Wiped(b)
        /\ fs' = [fs EXCEPT ![p].done = b]
        /\ Go(p, IF b = fs[p].blocks THEN "size" ELSE "tables")
     \/ Go(p, "save") /\ UNCHANGED <<file, fs>>
  /\ UNCHANGED <<lock, damaged>>

\* The length is checked and recorded; the result of that write is ignored.
MkfsSize(p) ==
  /\ pc[p] = "size"
  /\ \/ /\ file.len = fs[p].blocks
        /\ file' = [file EXCEPT !.size = fs[p].blocks]
        /\ Go(p, "open")
        /\ UNCHANGED damaged
     \/ file.len = fs[p].blocks /\ Go(p, "open") /\ damaged' = TRUE /\ UNCHANGED file
     \/ file.len # fs[p].blocks /\ Go(p, "save") /\ UNCHANGED <<file, damaged>>
  /\ UNCHANGED <<lock, fs>>

-----------------------------------------------------------------------------
(***************************************************************************)
(* whefs_fs_append_blocks, which stops at a block that it fails to wipe    *)
(* and ignores the other writes that fail.                                 *)
(***************************************************************************)

\* Mutant: the blocks count even if the file did not grow.
GrowCountsFirst(p, n) ==
  LET old == fs[p].blocks IN
  /\ pc[p] = "open"
  /\ fs[p].rw
  /\ old + n <= MaxBlocks
  /\ fs' = [fs EXCEPT ![p].blocks = old + n, ![p].done = old]
  /\ \/ file' = Resized(old + n) /\ Go(p, "new size")
     \/ file' = Resized(old) /\ UNCHANGED pc
  /\ UNCHANGED <<lock, damaged>>

\* The file is truncated to its new length; if that fails, to the old one.
Grow(p, n) ==
  LET old == fs[p].blocks IN
  /\ pc[p] = "open"
  /\ fs[p].rw
  /\ old + n <= MaxBlocks
  /\ \/ /\ file' = Resized(old + n)
        /\ fs' = [fs EXCEPT ![p].blocks = old + n, ![p].done = old]
        /\ Go(p, "new size")
     \/ file' = Resized(old) /\ UNCHANGED <<pc, fs>>
  /\ UNCHANGED <<lock, damaged>>

AppendStep(p, stage, f, next) ==
  /\ pc[p] = stage
  /\ Go(p, next)
  /\ \/ file' = f /\ UNCHANGED damaged
     \/ UNCHANGED file /\ damaged' = TRUE
  /\ UNCHANGED <<lock, fs>>

AppendSize(p) ==
  AppendStep(p, "new size", [file EXCEPT !.size = fs[p].blocks], "new options")

AppendOptions(p) ==
  AppendStep(p, "new options", [file EXCEPT !.blocks = fs[p].blocks], "new blocks")

AppendBlocks(p) ==
  LET b == fs[p].done + 1 IN
  /\ pc[p] = "new blocks"
  /\ \/ /\ file' = Wiped(b)
        /\ fs' = [fs EXCEPT ![p].done = b]
        /\ Go(p, IF b = fs[p].blocks THEN "open" ELSE "new blocks")
        /\ UNCHANGED damaged
     \/ Go(p, "open") /\ damaged' = TRUE /\ UNCHANGED <<file, fs>>
  /\ UNCHANGED lock

-----------------------------------------------------------------------------
(***************************************************************************)
(* whefs_fs_finalize, and a process that ends.                             *)
(***************************************************************************)

Finalize(p) ==
  /\ pc[p] = "open"
  /\ Go(p, IF fs[p].rw THEN "save" ELSE "close")
  /\ UNCHANGED <<file, lock, fs, damaged>>

\* whefs_fs_hints_write, whose result is ignored.
SaveHints(p) ==
  /\ pc[p] = "save"
  /\ file' \in {file, [file EXCEPT !.hints = TRUE]}
  /\ Go(p, "close")
  /\ UNCHANGED <<lock, fs, damaged>>

\* The lock goes before the device is closed.
Close(p) ==
  /\ pc[p] = "close"
  /\ lock' = [lock EXCEPT ![p] = "none"]
  /\ Go(p, "out")
  /\ fs' = [fs EXCEPT ![p] = Closed]
  /\ UNCHANGED <<file, damaged>>

\* A process that ends between two steps; before the last it is the same as Close.
Crash(p) ==
  /\ pc[p] \notin {"out", "close"}
  /\ lock' = [lock EXCEPT ![p] = "none"]
  /\ Go(p, "out")
  /\ fs' = [fs EXCEPT ![p] = Closed]
  /\ damaged' = (\/ damaged
                 \/ pc[p] \in {"magic", "no size"} /\ file.len # file.size
                 \/ pc[p] \in {"new size", "new options", "new blocks"})
  /\ UNCHANGED file

-----------------------------------------------------------------------------
\* What a call does once it has begun.
Proceed(p) ==
  \/ Create(p) \/ Lock(p) \/ ReadHeader(p) \/ Refuse(p)
  \/ (\E n \in Count : MkfsTruncate(p, n)) \/ MkfsMagic(p) \/ MkfsNoSize(p) \/ MkfsClientLength(p)
  \/ MkfsClientMagic(p) \/ MkfsOptions(p) \/ MkfsHints(p)
  \/ MkfsTables(p) \/ MkfsSize(p)
  \/ AppendSize(p) \/ AppendOptions(p) \/ AppendBlocks(p)
  \/ SaveHints(p) \/ Close(p)

\* What the program does with it.
Call(p) ==
  \/ \E rw \in BOOLEAN : OpenFile(p, rw)
  \/ OpenOrCreate(p)
  \/ \E n \in Count : Grow(p, n)
  \/ Finalize(p)

Next == \E p \in Proc : Call(p) \/ Proceed(p) \/ Crash(p)

Spec == Init /\ [][Next]_vars

\* A call that has begun goes on; a container is finalized some time, as whefs.h
\* asks of its clients; a lock that is free is given to one of those that wait.
Fairness ==
  /\ \A p \in Proc : WF_vars(Proceed(p) \/ Finalize(p))
  /\ WF_vars(\E p \in Proc : Lock(p))

FairSpec == Spec /\ Fairness

-----------------------------------------------------------------------------
(***************************************************************************)
(* Properties.                                                             *)
(***************************************************************************)

TypeOK ==
  /\ file \in File
  /\ lock \in [Proc -> {"none", "read", "write"}]
  /\ pc \in [Proc -> Stage]
  /\ fs \in [Proc -> Handle]
  /\ damaged \in BOOLEAN

\* What passes the checks of whefs_openfs is a complete container: its block
\* count is that of its size, its tables and all its blocks are formatted.  A
\* whefs_mkfs that was cut short or failed leaves nothing that can be opened,
\* whatever was in the file before, if the write of size 0 it begins with was
\* not lost: the code does not look whether it was (whefs_fs.c:586).
OpensOnlyComplete ==
  ~damaged /\ Readable(file) /\ (\A p \in Proc : pc[p] \notin Append)
    => file.blocks = file.size /\ 0..file.blocks \subseteq file.wiped

\* As long as a container is open, by one writer or several readers, what each
\* handle has in memory agrees with the file: nobody changed it behind its back.
HandleAgrees ==
  ~damaged => \A p \in Proc : pc[p] = "open" =>
    /\ file.magic /\ file.client /\ file.sizes /\ file.hints
    /\ file.blocks = fs[p].blocks /\ file.size = fs[p].blocks /\ file.len = fs[p].blocks

\* A process changes the file only when no other process has it open.
ChangedAlone ==
  [][\A p \in Proc : (Call(p) \/ Proceed(p)) /\ ~Create(p) /\ file' # file =>
       \A q \in Proc \ {p} : pc[q] \notin Inside]_vars

Waiting == {p \in Proc : pc[p] \in {"wait open", "wait mkfs"}}

\* When processes wait for the lock one of them gets it in the end.
WaitersAdvance ==
  Waiting # {} ~> Waiting = {} \/ \E p \in Proc : pc[p] \in {"read", "truncate"}
=============================================================================
