---------------------------- MODULE WhefsBlocks ----------------------------
(***************************************************************************)
(* The data blocks of a whefs container (whefs_block.c) as a function from *)
(* block ids to blocks, and what the operations of the block store do to   *)
(* it: searching and marking a free block, following and wiping a chain,   *)
(* zeroing the end of a block.                                             *)
(***************************************************************************)
EXTENDS Integers, Sequences, SequencesExt

CONSTANTS
  NumBlocks,   \* fs->options.block_count
  BlockSize,   \* fs->options.block_size
  Byte         \* the values of a byte

ASSUME BlockCountAssumption == NumBlocks \in Nat \ {0}
ASSUME BlockSizeAssumption  == BlockSize \in Nat \ {0}
ASSUME ByteAssumption       == 0 \in Byte

BlockId == 1..NumBlocks
Offset  == 0..BlockSize - 1

\* whefs_block, with the data that follows its encoded form in the container.
\* A next block of 0 ends a chain.
Block == [used : BOOLEAN, next : 0..NumBlocks, data : [Offset -> Byte]]

Zeroes     == [k \in Offset |-> 0]
EmptyBlock == [used |-> FALSE, next |-> 0, data |-> Zeroes]

\* A search that starts behind the hint.
NextFreeBehind(blk, hint) ==
  LET S == {b \in BlockId : b > hint /\ ~blk[b].used}
  IN  IF S = {} THEN 0 ELSE Min(S)

\* The free block whefs_block_next_free finds when it starts at the hint, 0
\* when it reports FSFull.  It never looks at a block below the hint.
NextFree(blk, hint) ==
  LET S == {b \in BlockId : b >= hint /\ ~blk[b].used}
  IN  IF S = {} THEN 0 ELSE Min(S)

\* whefs_block_next_free marks the block used; its next block stays as read.
MarkUsed(blk, b) == [blk EXCEPT ![b].used = TRUE]

\* The ids met by following next_block from b (whefs_block_read_next).
Chain(blk, b) ==
  LET at[k \in BlockId] ==
        IF k = 1 THEN b ELSE IF at[k - 1] = 0 THEN 0 ELSE blk[at[k - 1]].next
  IN  [k \in {j \in BlockId : at[j] # 0} |-> at[k]]

\* whefs_block_wipe of every block in a set, metadata and data.
Wipe(blk, S) == [b \in BlockId |-> IF b \in S THEN EmptyBlock ELSE blk[b]]

\* A hint that stays.
KeepHint(hint, S) == hint

\* ... and the search hint, which moves down to the lowest wiped block.
WipeHint(hint, S) == Min(S \cup {hint})

\* Mutant: one byte too few is wiped.
WipeDataLate(blk, b, from) ==
  [blk EXCEPT ![b].data = [k \in Offset |-> IF k > from THEN 0 ELSE @[k]]]

\* whefs_block_wipe_data: zero the data from the given offset to the end.
WipeData(blk, b, from) ==
  [blk EXCEPT ![b].data = [k \in Offset |-> IF k >= from THEN 0 ELSE @[k]]]

\* Bytes written into one block.
PutBytes(blk, b, from, len, v) ==
  [blk EXCEPT ![b].data =
     [k \in Offset |-> IF k \in from..(from + len - 1) THEN v ELSE @[k]]]
=============================================================================
