----------------------------- MODULE WhefsFile -----------------------------
(***************************************************************************)
(* Pseudofiles: the i/o device of an inode (whefs_nodedev.c) over the      *)
(* block store.  A device maps file positions to the blocks of its inode's *)
(* chain, which it caches in the opened inode (ino->blocks.list) and grows *)
(* on writes; truncation shrinks or grows the chain; unlinking frees it.   *)
(*                                                                         *)
(* A whefs_fs is used by one thread and one process at a time (the         *)
(* container is locked as a whole), so an API call is one action.  The     *)
(* process does not crash here: the steps inside a call are the subject    *)
(* of WhefsCrash.  A file is named by its inode id.                        *)
(***************************************************************************)
EXTENDS WhefsBlocks

CONSTANTS
  NumInodes,  \* the client-usable inodes are 1..NumInodes here, 2.. in the code
  Handle,     \* the whio_dev objects a client may have open at one time
  NoHandle,   \* a null writer pointer
  IoLen,      \* the lengths a read or write asks for
  TruncLen,   \* the lengths given to truncate
  SeekPos,    \* the positions a device is moved to
  MaxPos      \* bound on the position of a device before a read or write

ASSUME NumInodesAssumption == NumInodes \in Nat \ {0}
ASSUME HandlesAssumption   == IsFiniteSet(Handle) /\ NoHandle \notin Handle
\* NoHandle also stands for the content of a file that does not exist.
ASSUME AbsentAssumption    == NoHandle \notin Seq(Byte)
ASSUME LengthsAssumption   == /\ IoLen \subseteq Nat \ {0}
                               /\ TruncLen \subseteq Nat
                               /\ SeekPos \subseteq Nat
                               /\ IsFiniteSet(IoLen \cup TruncLen \cup SeekPos)
                               /\ IoLen \cup TruncLen \cup SeekPos # {}
ASSUME MaxPosAssumption    == MaxPos \in Nat

VARIABLES
  blk,      \* the blocks of the container: [BlockId -> Block]
  inode,    \* the inode table of the container: [Inode -> DiskInode]
  bhint,    \* fs->hints.unused_block_start
  ihint,    \* fs->hints.unused_inode_start
  opened,   \* fs->opened_nodes: [Inode -> Entry]
  dev,      \* the opened devices: [Handle -> Device]
  aborted   \* an assert() of the library has failed

vars == <<blk, inode, bhint, ihint, opened, dev, aborted>>

Inode   == 1..NumInodes
MaxSize == MaxPos + Max(IoLen \cup TruncLen \cup SeekPos)

DiskInode == [used : BOOLEAN, size : 0..MaxSize, first : 0..NumBlocks]
\* An entry of ino->blocks.list: the id and next_block of a block.
ListItem  == [id : BlockId, next : 0..NumBlocks]
Entry     == [count : Nat, writer : Handle \cup {NoHandle},
              size : 0..MaxSize, first : 0..NumBlocks, list : Seq(ListItem)]
Device    == [ino : Inode, rw : BOOLEAN, pos : 0..MaxSize]

Unused    == [used |-> FALSE, size |-> 0, first |-> 0]
NotOpened == [count |-> 0, writer |-> NoHandle, size |-> 0, first |-> 0, list |-> <<>>]
NoDev     == [ino |-> 0, rw |-> FALSE, pos |-> 0]

IsOpened(i) == opened[i].count > 0

Init ==
  /\ blk = [b \in BlockId |-> EmptyBlock]
  /\ inode = [i \in Inode |-> Unused]
  /\ bhint = 1
  /\ ihint = 1
  /\ opened = [i \in Inode |-> NotOpened]
  /\ dev = [h \in Handle |-> NoDev]
  /\ aborted = FALSE

-----------------------------------------------------------------------------
(***************************************************************************)
(* One call on a device runs on a session: the state it may change, its    *)
(* result code rc, and the block (bl) whefs_block_for_pos found.  left is  *)
(* what is still to be transferred and out what was read.                  *)
(***************************************************************************)

Session(i, pos, n, v) ==
  [blk |-> blk, hint |-> bhint, di |-> inode[i], e |-> opened[i], rc |-> "OK",
   bl |-> [id |-> 0, next |-> 0], pos |-> pos, left |-> n, val |-> v, out |-> <<>>]

\* whefs_inode_flush of the opened inode.
FlushInode(s) ==
  [s EXCEPT !.di = [used |-> TRUE, size |-> s.e.size, first |-> s.e.first]]

\* An append that leaves the previous block of the container as it is.
AppendInMemory(s, bl) ==
  LET n == Len(s.e.list)
      t == [s EXCEPT !.e.list = Append(@, bl), !.bl = bl]
  IN  IF n = 0 THEN FlushInode([t EXCEPT !.e.first = bl.id])
      ELSE [t EXCEPT !.e.list[n].next = bl.id]

\* whefs_inode_block_list_append: link the block bl behind the last one of the
\* list, or make it the first block of the inode.
AppendToList(s, bl) ==
  LET n    == Len(s.e.list)
      prev == s.e.list[n]
      t    == [s EXCEPT !.e.list = Append(@, bl), !.bl = bl]
  IN  CASE n = 0 /\ s.e.first = 0 -> FlushInode([t EXCEPT !.e.first = bl.id])
        [] n = 0 /\ s.e.first = bl.id -> t
        [] n > 0 /\ prev.next = 0 ->
             [t EXCEPT !.e.list[n].next = bl.id, !.blk[prev.id].next = bl.id]
        [] n > 0 /\ prev.next = bl.id -> t
        [] OTHER -> [s EXCEPT !.rc = "Assert"]

\* One turn of the loop that expands the list: take a free block, append it.
AddBlock(s) ==
  LET b == NextFree(s.blk, s.hint)
  IN  IF b = 0
      THEN [s EXCEPT !.rc = "FSFull"]
      ELSE AppendToList([s EXCEPT !.blk = MarkUsed(@, b), !.hint = b + 1],
                        [id |-> b, next |-> s.blk[b].next])

\* A block list that is not loaded when a file is opened again.
LoadForgotten(s) == s

\* whefs_inode_block_list_load, when the list is not there yet.
LoadList(s) ==
  IF s.e.list # <<>> THEN s
  ELSE LET c == Chain(s.blk, s.e.first)
       IN  [s EXCEPT !.e.list = [k \in 1..Len(c) |->
                                   [id |-> c[k], next |-> s.blk[c[k]].next]]]

\* Do step(s) n times, or until it fails.
Repeat(step(_), s, n) ==
  LET after[k \in 0..n] ==
        IF k = 0 THEN s
        ELSE IF after[k - 1].rc = "OK" THEN step(after[k - 1]) ELSE after[k - 1]
  IN  after[n]

\* whefs_block_for_pos: find the block of a position, growing the chain when
\* expand is set.  Blocks added before a failure stay in the chain.
BlockForPos(s, pos, expand) ==
  LET bc == 1 + (pos \div BlockSize)
      t  == LoadList(s)
      n  == Len(t.e.list)
  IN  IF (s.e.size <= pos /\ ~expand) \/ bc > NumBlocks
      THEN [s EXCEPT !.rc = "RangeError"]
      ELSE CASE bc <= n           -> [t EXCEPT !.bl = t.e.list[bc]]
             [] n < bc /\ ~expand -> [t EXCEPT !.rc = "RangeError"]
             [] n < bc /\ expand  -> Repeat(AddBlock, t, bc - n)

\* A read that does not stop at the end of the file.
ReadWholeBlock(s) ==
  LET t    == BlockForPos(s, s.pos, FALSE)
      from == s.pos % BlockSize
      len  == Min({s.left, BlockSize - from})
  IN  IF s.left = 0 \/ t.rc # "OK" THEN [s EXCEPT !.rc = "EOF"]
      ELSE [t EXCEPT !.pos = @ + len, !.left = @ - len,
              !.out = @ \o [k \in 1..len |-> t.blk[t.bl.id].data[from + k - 1]]]

\* One turn of whio_dev_inode_read: the bytes of one block, up to the end of
\* the file.  A failure ends the read short.
ReadChunk(s) ==
  LET t    == BlockForPos(s, s.pos, FALSE)
      from == s.pos % BlockSize
      len  == Min({s.left, BlockSize - from, s.e.size - s.pos})
  IN  IF s.left = 0 \/ s.pos >= s.e.size THEN [s EXCEPT !.rc = "EOF"]
      ELSE IF t.rc # "OK" THEN t
      ELSE [t EXCEPT !.pos = @ + len, !.left = @ - len,
              !.out = @ \o [k \in 1..len |-> t.blk[t.bl.id].data[from + k - 1]]]

\* A write that sets the end of the file to where it ends.
WriteMovesEnd(s) ==
  LET t    == BlockForPos(s, s.pos, TRUE)
      from == s.pos % BlockSize
      len  == Min({s.left, BlockSize - from})
  IN  IF s.left = 0 \/ t.rc # "OK" THEN t
      ELSE [t EXCEPT !.pos = @ + len, !.left = @ - len, !.e.size = s.pos + len,
                     !.blk = PutBytes(@, t.bl.id, from, len, s.val)]

\* One turn of whio_dev_inode_write.  The new size stays in memory.
WriteChunk(s) ==
  LET t    == BlockForPos(s, s.pos, TRUE)
      from == s.pos % BlockSize
      len  == Min({s.left, BlockSize - from})
  IN  IF s.left = 0 THEN s
      ELSE IF t.rc # "OK" THEN t
      ELSE [t EXCEPT !.pos = @ + len, !.left = @ - len,
              !.e.size = Max({@, s.pos + len}),
              !.blk = PutBytes(@, t.bl.id, from, len, s.val)]

\* A shrink that does not write the new end of the chain.
ShrinkKeepsLink(s, len) ==
  LET t     == [s EXCEPT !.blk = WipeData(@, s.bl.id, len % BlockSize)]
      list  == t.e.list
      after == {k \in 2..Len(list) : list[k].id = s.bl.next}
      x     == Min(after)
      tail  == {list[x].id} \cup ToSet(Chain(t.blk, list[x].next))
  IN  IF after = {} THEN t
      ELSE [t EXCEPT !.e.list = SubSeq(list, 1, x - 1), !.blk = Wipe(@, tail),
                     !.hint = WipeHint(@, tail)]

\* The end of whio_dev_inode_trunc when the file shrinks to len bytes; bl is
\* the block of the last byte that stays.  Its end is zeroed; the blocks behind
\* it are wiped and it becomes the end of the chain.
Shrink(s, len) ==
  LET t     == [s EXCEPT !.blk = WipeData(@, s.bl.id, len % BlockSize)]
      list  == t.e.list
      after == {k \in 2..Len(list) : list[k].id = s.bl.next}
      x     == Min(after)
      tail  == {list[x].id} \cup ToSet(Chain(t.blk, list[x].next))
  IN  CASE s.bl.next = 0 -> [t EXCEPT !.e.list = SubSeq(list, 1, 1)]
        [] s.bl.next # 0 /\ after = {} -> [t EXCEPT !.rc = "InternalError"]
        [] OTHER ->
             [t EXCEPT !.e.list = [SubSeq(list, 1, x - 1) EXCEPT ![x - 1].next = 0],
                       !.blk = [Wipe(@, tail) EXCEPT ![list[x - 1].id].next = 0],
                       !.hint = WipeHint(@, tail)]

\* whio_dev_inode_trunc.  Truncating to zero reads the first block and, as that
\* succeeds, does not wipe the chain.  A growing file gets its blocks from
\* whefs_block_for_pos; the loop that fills it with zeroes writes nothing.
Trunc(s, len) ==
  LET empty == [s EXCEPT !.e.list = <<>>, !.e.first = 0, !.e.size = 0]
      sized == FlushInode([s EXCEPT !.e.size = len])
      found == BlockForPos(sized, len - 1, TRUE)
  IN  CASE len = s.e.size -> s
        [] len = 0 /\ len # s.e.size -> FlushInode(empty)
        [] len # 0 /\ len < s.e.size /\ found.rc = "OK" -> Shrink(found, len)
        [] OTHER -> found

\* The state after a call on the device h.  A failed assertion ends the process.
Commit(h, s) ==
  /\ blk' = s.blk
  /\ bhint' = s.hint
  /\ inode' = [inode EXCEPT ![dev[h].ino] = s.di]
  /\ opened' = [opened EXCEPT ![dev[h].ino] = s.e]
  /\ dev' = [dev EXCEPT ![h].pos = s.pos]
  /\ aborted' = (s.rc = "Assert")
  /\ UNCHANGED ihint

-----------------------------------------------------------------------------
(***************************************************************************)
(* Opening and closing.                                                    *)
(***************************************************************************)

\* whefs_inode_open for the device h.
Share(i, h, rw) ==
  LET w == IF rw THEN h ELSE NoHandle
  IN  IF IsOpened(i)
      THEN [opened[i] EXCEPT !.count = @ + 1,
                             !.writer = IF @ = NoHandle THEN w ELSE @]
      ELSE [NotOpened EXCEPT !.count = 1, !.writer = w,
                             !.size = inode[i].size, !.first = inode[i].first]

\* Opening an existing file; a second writer gets AccessError.
Open(h, i, rw) ==
  /\ ~aborted
  /\ dev[h] = NoDev
  /\ inode[i].used
  /\ ~(rw /\ opened[i].writer # NoHandle)
  /\ opened' = [opened EXCEPT ![i] = Share(i, h, rw)]
  /\ dev' = [dev EXCEPT ![h] = [ino |-> i, rw |-> rw, pos |-> 0]]
  /\ UNCHANGED <<blk, inode, bhint, ihint, aborted>>

\* Opening a new file in write mode: whefs_inode_next_free takes the first
\* unused inode from the hint on.
Create(h) ==
  LET free == {i \in Inode : i >= ihint /\ ~inode[i].used}
      i    == Min(free)
  IN  /\ ~aborted
      /\ dev[h] = NoDev
      /\ free # {}
      /\ inode' = [inode EXCEPT ![i].used = TRUE]
      /\ ihint' = i + 1
      /\ opened' = [opened EXCEPT ![i] = [NotOpened EXCEPT !.count = 1, !.writer = h,
                                                           !.size = inode[i].size,
                                                           !.first = inode[i].first]]
      /\ dev' = [dev EXCEPT ![h] = [ino |-> i, rw |-> TRUE, pos |-> 0]]
      /\ UNCHANGED <<blk, bhint, aborted>>

\* The inode of the container after whefs_inode_flush of the opened inode i.
FlushedInode(i) == [used |-> TRUE, size |-> opened[i].size, first |-> opened[i].first]

\* whefs_inode_close: the entry of the inode i once the device h let go of it.
Release(i, h) ==
  IF opened[i].count = 1
  THEN NotOpened
  ELSE [opened[i] EXCEPT !.count = @ - 1,
                         !.writer = IF @ = h THEN NoHandle ELSE @]

\* A close that leaves the inode as it was last flushed.
CloseUnflushed(h) ==
  /\ ~aborted
  /\ dev[h] # NoDev
  /\ opened' = [opened EXCEPT ![dev[h].ino] = Release(dev[h].ino, h)]
  /\ dev' = [dev EXCEPT ![h] = NoDev]
  /\ UNCHANGED <<blk, inode, bhint, ihint, aborted>>

\* A device that is the writer flushes its inode and leaves the entry, which
\* goes with its last device (whio_dev_inode_close, whefs_inode_close).
Close(h) ==
  LET i == dev[h].ino IN
  /\ ~aborted
  /\ dev[h] # NoDev
  /\ inode' = IF dev[h].rw THEN [inode EXCEPT ![i] = FlushedInode(i)] ELSE inode
  /\ opened' = [opened EXCEPT ![i] = Release(i, h)]
  /\ dev' = [dev EXCEPT ![h] = NoDev]
  /\ UNCHANGED <<blk, bhint, ihint, aborted>>

\* whefs_fs_finalize and whefs_openfs: the devices still open are closed; the
\* hints are written before and read back.
Reopen ==
  /\ ~aborted
  /\ inode' = [i \in Inode |-> IF opened[i].writer # NoHandle
                               THEN FlushedInode(i) ELSE inode[i]]
  /\ opened' = [i \in Inode |-> NotOpened]
  /\ dev' = [h \in Handle |-> NoDev]
  /\ UNCHANGED <<blk, bhint, ihint, aborted>>

-----------------------------------------------------------------------------
(***************************************************************************)
(* Reading, writing and removing.                                          *)
(***************************************************************************)

Seek(h, p) ==
  /\ ~aborted
  /\ dev[h] # NoDev
  /\ dev' = [dev EXCEPT ![h].pos = p]
  /\ UNCHANGED <<blk, inode, bhint, ihint, opened, aborted>>

Read(h, n) ==
  LET i == dev[h].ino IN
  /\ ~aborted
  /\ dev[h] # NoDev
  /\ dev[h].pos <= MaxPos
  /\ Commit(h, Repeat(ReadChunk, Session(i, dev[h].pos, n, 0), n))

\* The state of a call that writes n bytes v at the position of the device.
Written(h, n, v) == Repeat(WriteChunk, Session(dev[h].ino, dev[h].pos, n, v), n)

Write(h, n, v) ==
  /\ ~aborted
  /\ dev[h].rw
  /\ dev[h].pos <= MaxPos
  /\ Commit(h, Written(h, n, v))

Truncate(h, len) ==
  LET i == dev[h].ino IN
  /\ ~aborted
  /\ dev[h].rw
  /\ Commit(h, Trunc(Session(i, dev[h].pos, 0, 0), len))

Flush(h) ==
  /\ ~aborted
  /\ dev[h].rw
  /\ inode' = [inode EXCEPT ![dev[h].ino] = FlushedInode(dev[h].ino)]
  /\ UNCHANGED <<blk, bhint, ihint, opened, dev, aborted>>

\* An unlink that wipes only the first block.
UnlinkFirst(i) ==
  LET S == {inode[i].first} \ {0} IN
  /\ ~aborted
  /\ inode[i].used
  /\ ~IsOpened(i)
  /\ blk' = Wipe(blk, S)
  /\ bhint' = WipeHint(bhint, S)
  /\ inode' = [inode EXCEPT ![i] = Unused]
  /\ ihint' = Min({ihint, i})
  /\ UNCHANGED <<opened, dev, aborted>>

\* whefs_inode_unlink: refused while the inode is opened; the chain is wiped,
\* the inode becomes unused, and both search hints move down.
Unlink(i) ==
  LET S == ToSet(Chain(blk, inode[i].first)) IN
  /\ ~aborted
  /\ inode[i].used
  /\ ~IsOpened(i)
  /\ blk' = Wipe(blk, S)
  /\ bhint' = WipeHint(bhint, S)
  /\ inode' = [inode EXCEPT ![i] = Unused]
  /\ ihint' = Min({ihint, i})
  /\ UNCHANGED <<opened, dev, aborted>>

\* whefs_import_dev of a new file of n bytes that does not fit.  The device of
\* the new inode is truncated to n, then back to zero, and closed; the inode
\* that is unlinked is the caller's copy of before, without a first block, so
\* the blocks the truncation took stay used.  All other imports are sequences of
\* the actions above: once the blocks are there, no write is short.
FailedImport(n) ==
  LET free == {i \in Inode : i >= ihint /\ ~inode[i].used}
      i    == Min(free)
      s    == Trunc(Session(i, 0, 0, 0), n)
  IN  /\ ~aborted
      /\ free # {}
      /\ s.rc # "OK"
      /\ blk' = s.blk
      /\ bhint' = s.hint
      /\ inode' = [inode EXCEPT ![i] = Unused]
      /\ ihint' = i
      /\ UNCHANGED <<opened, dev, aborted>>

-----------------------------------------------------------------------------
\* The truncations that do not meet the defects of whio_dev_inode_trunc: not to
\* zero with blocks, not beyond the free space, and, when the file shrinks, not
\* to a multiple of the block size or within a last block that is not the first.
SafeTruncate(h, len) ==
  LET e == opened[dev[h].ino]
      s == Session(dev[h].ino, dev[h].pos, 0, 0)
      f == BlockForPos(FlushInode([s EXCEPT !.e.size = len]), len - 1, TRUE)
  IN  /\ dev[h].rw
      /\ len = 0 => e.first = 0
      /\ len # 0 => f.rc = "OK"
      /\ len # 0 /\ len < e.size =>
           len % BlockSize # 0 /\ (f.bl.next # 0 \/ f.bl.id = e.first)
      /\ Truncate(h, len)

\* A program whose assertion failed has ended.
Stopped == aborted /\ UNCHANGED vars

Always ==
  \/ \E h \in Handle, i \in Inode, rw \in BOOLEAN : Open(h, i, rw)
  \/ \E h \in Handle : Create(h) \/ Flush(h) \/ Close(h)
  \/ \E h \in Handle, p \in SeekPos : Seek(h, p)
  \/ \E h \in Handle, n \in IoLen : Read(h, n)
  \/ \E h \in Handle, n \in IoLen, v \in Byte : Write(h, n, v)
  \/ \E i \in Inode : Unlink(i)
  \/ Reopen

Next ==
  \/ Always
  \/ \E h \in Handle, len \in TruncLen : Truncate(h, len)
  \/ \E n \in TruncLen : FailedImport(n)
  \/ Stopped

\* The clients that stay within SafeTruncate.
SafeNext ==
  \/ Always
  \/ \E h \in Handle, len \in TruncLen : SafeTruncate(h, len)

Spec     == Init /\ [][Next]_vars
SafeSpec == Init /\ [][SafeNext]_vars

-----------------------------------------------------------------------------
(***************************************************************************)
(* What clients see of a file.                                             *)
(***************************************************************************)

\* The entry a device opened now would work on.
EntryOf(i) ==
  IF IsOpened(i) THEN opened[i]
  ELSE [NotOpened EXCEPT !.size = inode[i].size, !.first = inode[i].first]

\* The chain of an inode and its blocks.
ChainOf(i) == Chain(blk, EntryOf(i).first)
BlocksOf(i) == ToSet(ChainOf(i))

\* The bytes of a file: those of its chain, up to its size.
Content(i) ==
  LET c == ChainOf(i)
  IN  [k \in 1..Min({EntryOf(i).size, Len(c) * BlockSize}) |->
         blk[c[1 + ((k - 1) \div BlockSize)]].data[(k - 1) % BlockSize]]

\* What a device gets that reads up to n bytes at a position.
ReadAt(h, pos, n) == Repeat(ReadChunk, Session(dev[h].ino, pos, n, 0), n).out

-----------------------------------------------------------------------------
(***************************************************************************)
(* Properties of every client.                                             *)
(***************************************************************************)

TypeOK ==
  /\ blk \in [BlockId -> Block]
  /\ inode \in [Inode -> DiskInode]
  /\ bhint \in 1..NumBlocks + 1
  /\ ihint \in 1..NumInodes + 1
  /\ opened \in [Inode -> Entry]
  /\ dev \in [Handle -> Device \cup {NoDev}]
  /\ aborted \in BOOLEAN

Used == {i \in Inode : inode[i].used}

\* Nothing below a search hint is free: whefs_block_next_free and
\* whefs_inode_next_free never look there, so what is freed below a hint that
\* does not move down is lost.
NoFreeBelowHint ==
  /\ \A b \in BlockId : b < bhint => blk[b].used
  /\ \A i \in Inode : i < ihint => inode[i].used

\* The chains of the files are sound: they consist of used blocks, end, meet
\* no block twice, and no two files share a block.
ChainsSound ==
  /\ \A i \in Used : \A b \in BlocksOf(i) : blk[b].used
  /\ \A i \in Used : Cardinality(BlocksOf(i)) = Len(ChainOf(i))
  /\ \A i \in Used : ChainOf(i) # <<>> => blk[Last(ChainOf(i))].next = 0
  /\ \A i, j \in Used : i # j => BlocksOf(i) \cap BlocksOf(j) = {}

\* The block list cached in an opened inode agrees, as far as it goes, with the
\* chain in the container, and so does the first block: they are changed
\* together by hand in whefs_inode_block_list_append and in the truncation.
ListAgrees ==
  \A i \in Inode : IsOpened(i) =>
    LET list == opened[i].list IN
    /\ opened[i].first = inode[i].first
    /\ IsPrefix([k \in DOMAIN list |-> list[k].id], ChainOf(i))
    /\ \A k \in DOMAIN list : list[k].next = blk[list[k].id].next

\* Wherever the blocks of a file are recorded - on the medium, in the list of an
\* opened inode, and in the hints that tell where free ones are - the records agree.
BlocksSound == TypeOK /\ NoFreeBelowHint /\ ChainsSound /\ ListAgrees

\* A write would be cut short only if it left no block free in the container, or
\* if the file would need more blocks than the container has.
ShortWriteOnlyWhenFull ==
  \A h \in Handle, n \in IoLen, v \in Byte :
    dev[h].rw /\ dev[h].pos <= MaxPos =>
      LET s == Written(h, n, v)
      IN  \/ s.left = 0
          \/ s.rc = "Assert"
          \/ \A b \in BlockId : s.blk[b].used
          \/ dev[h].pos + n > NumBlocks * BlockSize

\* The devices and entries are those of the table of opened inodes.
TableOpened == [i \in Inode |-> [count |-> opened[i].count, writer |-> opened[i].writer,
                                 size |-> opened[i].size]]
TableDev    == [h \in Handle |-> [ino |-> dev[h].ino, rw |-> dev[h].rw]]
TableDisk   == [i \in Inode |-> [used |-> inode[i].used, size |-> inode[i].size]]

Table == INSTANCE WhefsInodes WITH opened <- TableOpened, dev <- TableDev, disk <- TableDisk

\* Every call on a file is, for the table of opened inodes, one of its steps or
\* no step at all.
ImplementsTable == Table!Spec

-----------------------------------------------------------------------------
(***************************************************************************)
(* Properties of the clients of SafeSpec, and, under Spec, of none.        *)
(***************************************************************************)

\* Every used block is in the chain of a file: no block is lost.
NoLostBlock ==
  \A b \in BlockId : blk[b].used => \E i \in Used : b \in BlocksOf(i)

\* The files and the devices as a client sees them: sequences of bytes, and
\* positions in them.
ClientFiles == [i \in Inode |-> IF inode[i].used THEN Content(i) ELSE NoHandle]
ClientDevs  == [h \in Handle |-> [file |-> dev[h].ino, rw |-> dev[h].rw, pos |-> dev[h].pos]]

Files == INSTANCE ByteFiles WITH File <- Inode, Length <- 0..MaxSize, Absent <- NoHandle,
                                 content <- ClientFiles, cur <- ClientDevs

\* Whatever blocks, lists and hints do, a client sees files that are sequences
\* of bytes: each call has the effect ByteFiles gives it, on its own file only.
ImplementsFiles == Files!FilesSpec

\* The size of a file, in memory and in the container, is covered by its chain,
\* and a device reads at any position what the file has there: the list it goes
\* through, loaded once and changed since, leads it to the right blocks.
ReadsContent ==
  /\ \A i \in Used : /\ EntryOf(i).size <= Len(ChainOf(i)) * BlockSize
                     /\ inode[i].size <= Len(ChainOf(i)) * BlockSize
  /\ \A h \in Handle : dev[h] # NoDev =>
        LET c == Content(dev[h].ino)
        IN  \A p \in 0..MaxPos : ReadAt(h, p, MaxSize) = SubSeq(c, p + 1, Len(c))

\* The assertion in whefs_inode_block_list_append never fails.
AssertionHolds == ~aborted

\* A truncation keeps the bytes before the new end.
TruncateKeepsData ==
  [][\A h \in Handle, len \in TruncLen : Truncate(h, len) =>
        LET i == dev[h].ino
            n == Min({len, Len(Content(i))})
        IN  SubSeq(Content(i)', 1, n) = SubSeq(Content(i), 1, n)]_vars

=============================================================================
