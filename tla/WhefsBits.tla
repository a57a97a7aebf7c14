----------------------------- MODULE WhefsBits ------------------------------
(***************************************************************************)
(* The bitsets of a handle, which remember the inodes and blocks in use    *)
(* (WHEFS_CONFIG_ENABLE_BITSET_CACHE).  They are kept from the start, and  *)
(* asked once the caches are loaded (WHEFS_LOAD_CACHES_ON_OPEN): a search  *)
(* for a free inode or block then skips what has its bit set, a listing    *)
(* what has not.  Any read or write may fail.                              *)
(***************************************************************************)
EXTENDS Integers, FiniteSets

CONSTANTS
  ByteSize,     \* bits in a byte: 8
  InodeCount,   \* options.inode_count
  BlockCounts,  \* values of options.block_count a container is made with
  MaxBlocks     \* bound on block_count

BitsAssumption ==
  /\ ByteSize \in Nat \ {0} /\ InodeCount \in Nat \ {0, 1} /\ MaxBlocks \in Nat
  /\ BlockCounts \subseteq 1..MaxBlocks

VARIABLES
  inodes,      \* the inodes that are marked as used in the container
  blocks,      \* and the blocks
  blockCount,  \* options.block_count
  opened,      \* there is a handle
  bits,        \* fs->bits
  hints,       \* fs->hints
  unsure,      \* inodes and blocks of which the last read or write failed
  aborted      \* an assertion has failed

vars == <<inodes, blocks, blockCount, opened, bits, hints, unsure, aborted>>

-----------------------------------------------------------------------------
Ids == 2..InodeCount
BlockIds == 1..blockCount

NoBits == [on |-> {}, sz_bits |-> 0, sz_bytes |-> 0, sz_alloc |-> 0]

Least(ids) == CHOOSE i \in ids : \A j \in ids : i <= j

\* Mutant: what an allocation gives is not cleared.
WhbitsInitRaw(b, count) ==
  LET bytes == (count + ByteSize - 1) \div ByteSize
      kept  == {n \in b.on : n < b.sz_alloc * ByteSize}
  IN [on |-> kept \cup b.sz_alloc * ByteSize..bytes * ByteSize - 1, sz_bits |-> count,
      sz_bytes |-> bytes, sz_alloc |-> bytes]

\* Memory is used again as long as it is enough; of longer memory, the new bytes are
\* cleared.  Bits are on in the bytes beyond sz_bytes until they are used again.
WhbitsInit(b, count) ==
  LET bytes == (count + ByteSize - 1) \div ByteSize
      from  == CASE b.sz_alloc < bytes -> b.sz_alloc
                 [] b.sz_bytes < bytes -> b.sz_bytes
                 [] OTHER              -> bytes
  IN [on |-> IF b.sz_bytes = bytes THEN b.on ELSE {n \in b.on : n < from * ByteSize},
      sz_bits |-> count, sz_bytes |-> bytes,
      sz_alloc |-> IF b.sz_alloc < bytes THEN bytes ELSE b.sz_alloc]

Put(b, n, on) == [b EXCEPT !.on = IF on THEN @ \cup {n} ELSE @ \ {n}]

\* whefs_fs_init_bitset_inodes
InitInodeBits(s) == [s EXCEPT !.i = Put(Put(WhbitsInit(@, InodeCount + 1), 0, TRUE), 1, TRUE)]

\* The bit for block 0 is set among those of the inodes.
InitBlockBits(s, count) ==
  [s EXCEPT !.b = WhbitsInit(@, count + 1), !.i = Put(@, 0, TRUE)]

Closed == [i |-> NoBits, b |-> NoBits, i_loaded |-> FALSE, b_loaded |-> FALSE]

Init ==
  /\ inodes \in SUBSET Ids
  /\ blockCount \in BlockCounts
  /\ blocks \in SUBSET (1..blockCount)
  /\ opened = FALSE /\ aborted = FALSE
  /\ bits = Closed
  /\ hints = [i |-> 0, b |-> 0]
  /\ unsure = {}

-----------------------------------------------------------------------------
(***************************************************************************)
(* Looking at an inode or a block updates the bits, and a free one lowers  *)
(* the hint.                                                               *)
(***************************************************************************)

State == [bits |-> bits, hints |-> hints]

\* Mutant: the bit of an inode that is not used any more stays.
InodeUpdateUsedOnly(s, id, used) ==
  IF used THEN [s EXCEPT !.bits.i = Put(@, id, TRUE)] ELSE s

\* whefs_inode_update_used
InodeUpdateUsed(s, id, used) ==
  [s EXCEPT !.bits.i = Put(@, id, used),
            !.hints.i = IF ~used /\ @ > id THEN id ELSE @]

\* Mutant: the bit of a block that is not used any more stays.
BlockUpdateUsedOnly(s, id, used) ==
  IF used /\ s.bits.b_loaded THEN [s EXCEPT !.bits.b = Put(@, id, TRUE)] ELSE s

\* whefs_block_update_used does nothing until b_loaded is set.
BlockUpdateUsed(s, id, used) ==
  IF s.bits.b_loaded
  THEN [s EXCEPT !.bits.b = Put(@, id, used),
                 !.hints.b = IF ~used /\ @ > id THEN id ELSE @]
  ELSE s

\* All inodes in ids are read.
ReadInodes(s, ids) ==
  [bits |-> [s.bits EXCEPT !.i.on = (@ \ ids) \cup (ids \cap inodes)],
   hints |-> [s.hints EXCEPT !.i = Least({@} \cup (ids \ inodes))]]

ReadBlocks(s, ids) ==
  IF s.bits.b_loaded
  THEN [bits |-> [s.bits EXCEPT !.b.on = (@ \ ids) \cup (ids \cap blocks)],
        hints |-> [s.hints EXCEPT !.b = Least({@} \cup (ids \ blocks))]]
  ELSE s

Become(s) == bits' = s.bits /\ hints' = s.hints

Inode(id) == <<"inode", id>>
Block(id) == <<"block", id>>
OfInodes(ids) == {Inode(id) : id \in ids}
OfBlocks(ids) == {Block(id) : id \in ids}

\* The bit of a block is beyond the bits there are.
OutOfRange(id) == bits.b_loaded /\ bits.b.sz_bits <= id

-----------------------------------------------------------------------------
\* Mutant: the last inode is not looked at.
LoadedInodesShort == Ids \ {InodeCount}

LoadedInodes == Ids

\* The last steps of whefs_mkfs_stage1 or whefs_openfs_stage2, where the caches are not
\* loaded, or loaded after the bitsets and the hints.  An inode of which the read is
\* short gets the bit of the one before it.  Reading the blocks sets no bit: b_loaded is
\* set behind the loop.
Open ==
  /\ ~opened
  /\ LET fresh == InitBlockBits(InitInodeBits(Closed), blockCount)
         s == [bits |-> fresh, hints |-> hints]
         r == ReadInodes(s, LoadedInodes)
     IN \/ Become(s) /\ unsure' = {}
        \/ /\ Become([r EXCEPT !.bits.i_loaded = TRUE, !.bits.b_loaded = TRUE])
           /\ unsure' = {}
        \/ \E id \in Ids :
             /\ Become([InodeUpdateUsed(r, id, id - 1 \in inodes)
                          EXCEPT !.bits.i_loaded = TRUE, !.bits.b_loaded = TRUE])
             /\ unsure' = {Inode(id)}
  /\ opened' = TRUE
  /\ UNCHANGED <<inodes, blocks, blockCount, aborted>>

\* whefs_fs_finalize: whefs_fs_caches_clear frees the bits, and the hints are written.
Finalize ==
  /\ opened
  /\ opened' = FALSE /\ bits' = Closed /\ unsure' = {}
  /\ UNCHANGED <<inodes, blocks, blockCount, hints, aborted>>

ReadInode ==
  /\ opened
  /\ \E id \in Ids :
       /\ Become(InodeUpdateUsed(State, id, id \in inodes))
       /\ unsure' = unsure \ {Inode(id)}
  /\ UNCHANGED <<inodes, blocks, blockCount, opened, aborted>>

ReadBlock ==
  /\ opened
  /\ \E id \in BlockIds :
       IF OutOfRange(id)
       THEN aborted' = TRUE /\ UNCHANGED <<bits, hints, unsure>>
       ELSE /\ Become(BlockUpdateUsed(State, id, id \in blocks))
            /\ unsure' = unsure \ {Block(id)}
            /\ UNCHANGED aborted
  /\ UNCHANGED <<inodes, blocks, blockCount, opened>>

\* whefs_inode_flush of s, which updates the bit and then writes.  What a failing write
\* leaves may be either.
FlushInode(s, id, used) ==
  /\ Become(InodeUpdateUsed(s, id, used))
  /\ \/ /\ inodes' = IF used THEN inodes \cup {id} ELSE inodes \ {id}
        /\ unsure' = unsure \ {Inode(id)}
     \/ /\ inodes' \in {inodes, inodes \cup {id}, inodes \ {id}}
        /\ unsure' = unsure \cup {Inode(id)}

WriteInode ==
  /\ opened
  /\ \E id \in Ids, used \in BOOLEAN : FlushInode(State, id, used)
  /\ UNCHANGED <<blocks, blockCount, opened, aborted>>

\* After a write that did not fail, whefs_block_flush updates the bit, and
\* whefs_block_wipe lowers the hint in any case.
FlushBlock(id, used) ==
  \/ /\ Become([BlockUpdateUsed(State, id, used)
                 EXCEPT !.hints.b = IF ~used /\ id < @ THEN id ELSE @])
     /\ blocks' = IF used THEN blocks \cup {id} ELSE blocks \ {id}
     /\ unsure' = unsure \ {Block(id)}
  \/ /\ Become(State)
     /\ blocks' \in {blocks, blocks \cup {id}, blocks \ {id}}
     /\ unsure' = unsure \cup {Block(id)}

\* whefs_block_flush of a block in use, or whefs_block_wipe.
WriteBlock ==
  /\ opened
  /\ \E id \in BlockIds, used \in BOOLEAN :
       IF OutOfRange(id)
       THEN aborted' = TRUE /\ UNCHANGED <<bits, hints, blocks, unsure>>
       ELSE FlushBlock(id, used) /\ UNCHANGED aborted
  /\ UNCHANGED <<inodes, blockCount, opened>>

\* Those with their bit set are skipped, and those before the first free one are read.
Skipped(b, loaded, ids) == IF loaded THEN b.on \cap ids ELSE {}

NextFreeInode ==
  /\ opened
  /\ LET from == IF hints.i < 2 THEN 2 ELSE hints.i
         ids  == {id \in Ids : id >= from} \ Skipped(bits.i, bits.i_loaded, Ids)
         free == ids \ inodes
         h    == [State EXCEPT !.hints.i = from]
     IN IF free = {}
        THEN /\ Become(ReadInodes(h, ids)) /\ unsure' = unsure \ OfInodes(ids)
             /\ UNCHANGED inodes
        ELSE LET id == Least(free)
                 r  == ReadInodes(h, {n \in ids : n < id})
             IN /\ \/ inodes' = inodes \cup {id} /\ unsure' = unsure \ OfInodes({n \in ids : n <= id})
                   \/ inodes' = inodes /\ unsure' = (unsure \ OfInodes({n \in ids : n < id})) \cup {Inode(id)}
                /\ Become([InodeUpdateUsed(r, id, TRUE) EXCEPT !.hints.i = id + 1])
  /\ UNCHANGED <<blocks, blockCount, opened, aborted>>

NextFreeBlock ==
  /\ opened
  /\ LET from == IF hints.b = 0 THEN 1 ELSE hints.b
         ids  == {id \in BlockIds : id >= from} \ Skipped(bits.b, bits.b_loaded, BlockIds)
         free == ids \ blocks
         h    == [State EXCEPT !.hints.b = from]
         id   == Least(free)
         r    == ReadBlocks(h, {n \in ids : free # {} => n < id})
     IN IF \E n \in ids : OutOfRange(n) /\ (free # {} => n <= id)
        THEN aborted' = TRUE /\ UNCHANGED <<bits, hints, blocks, unsure>>
        ELSE /\ UNCHANGED aborted
             /\ IF free = {}
                THEN Become(r) /\ unsure' = unsure \ OfBlocks(ids) /\ UNCHANGED blocks
                ELSE \/ /\ Become([BlockUpdateUsed(r, id, TRUE) EXCEPT !.hints.b = id + 1])
                        /\ blocks' = blocks \cup {id}
                        /\ unsure' = unsure \ OfBlocks({n \in ids : n <= id})
                     \/ /\ Become([r EXCEPT !.hints.b = id + 1])
                        /\ UNCHANGED blocks
                        /\ unsure' = (unsure \ OfBlocks({n \in ids : n < id})) \cup {Block(id)}
  /\ UNCHANGED <<inodes, blockCount, opened>>

\* The bits are made for the new count, then the blocks are wiped in order, until one
\* cannot be.  Without memory, which is not noticed, there are no bits for them.
AppendBlocks ==
  /\ opened /\ blockCount < MaxBlocks
  /\ \E k \in 1..MaxBlocks - blockCount, enough \in BOOLEAN :
       LET new == blockCount + 1..blockCount + k
           s   == IF enough \/ bits.b.sz_alloc * ByteSize > blockCount + k
                  THEN [State EXCEPT !.bits = InitBlockBits(@, blockCount + k)] ELSE State
           low(h, ids) == IF ids = {} THEN h ELSE Least({h} \cup ids)
       IN /\ blockCount' = blockCount + k
          /\ IF s.bits.b_loaded /\ s.bits.b.sz_bits <= blockCount + k
             THEN aborted' = TRUE /\ UNCHANGED <<bits, hints, unsure>>
             ELSE /\ UNCHANGED aborted
                  /\ \E wiped \in 0..k :
                       LET ids == {id \in new : id <= blockCount + wiped}
                       IN /\ bits' = IF s.bits.b_loaded
                                     THEN [s.bits EXCEPT !.b.on = @ \ ids] ELSE s.bits
                          /\ hints' = [hints EXCEPT !.b = low(@, ids)]
                          /\ unsure' = unsure \cup OfBlocks(new \ ids)
  /\ UNCHANGED <<inodes, blocks, opened>>

\* Nothing follows a failed assertion.
Next ==
  /\ ~aborted
  /\ \/ Open \/ Finalize \/ ReadInode \/ ReadBlock \/ WriteInode \/ WriteBlock
     \/ NextFreeInode \/ NextFreeBlock \/ AppendBlocks

Spec == Init /\ [][Next]_vars

-----------------------------------------------------------------------------
\* A bit never hides what is there, however the container has grown and whatever has
\* failed before: no inode or block that is free has its bit set when it is asked, no
\* inode in use is left out of a listing, except where the last read or write of it
\* failed.
BitsTrue ==
  opened =>
    /\ \A id \in Ids :
         Inode(id) \notin unsure /\ bits.i_loaded => (id \in bits.i.on <=> id \in inodes)
    /\ \A id \in BlockIds :
         Block(id) \notin unsure /\ bits.b_loaded /\ id \in bits.b.on => id \in blocks
    /\ bits.i.sz_bits = InodeCount + 1 /\ bits.b.sz_bytes <= bits.b.sz_alloc
=============================================================================
