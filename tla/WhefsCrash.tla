----------------------------- MODULE WhefsCrash -----------------------------
(***************************************************************************)
(* The metadata of a whefs container when the process may stop between any *)
(* two writes.  whefs has no journal: an API call is a sequence of writes  *)
(* to the container, which is all that is left of it after a crash.  A     *)
(* call puts its writes into job and Step performs the next one; the       *)
(* search hints live in memory and are written by whefs_fs_finalize only.  *)
(*                                                                         *)
(* A write of one inode or of the metadata of one block is atomic, and     *)
(* writes reach the container in order.  File names and sizes are left     *)
(* out, and of the data of a block it only matters whether it is zero.     *)
(* What is done with a damaged container is left out: it is not opened.    *)
(***************************************************************************)
EXTENDS Integers, Sequences, FiniteSets

CONSTANTS
  NumBlocks,  \* fs->options.block_count
  NumInodes   \* the client-usable inodes are 1..NumInodes here, 2.. in the code

ASSUME BlockCountAssumption == NumBlocks \in Nat \ {0}
ASSUME InodeCountAssumption == NumInodes \in Nat \ {0}

BlockId == 1..NumBlocks
Inode   == 1..NumInodes

VARIABLES
  block,    \* the metadata of the blocks: [BlockId -> BlockMeta]
  dirty,    \* the blocks whose data is not all zero
  inode,    \* the inode table: [Inode -> InodeMeta]
  saved,    \* the hints in the container
  hint,     \* fs->hints: where the searches for a free block and inode start
  mounted,  \* the container is open
  job,      \* the writes the current call has still to make
  \* What happened so far:
  torn,     \* a crash hit a call that was wiping blocks
  freed,    \* the blocks that were freed since the hints were written
  lost      \* the blocks that were freed in a session that crashed

vars == <<block, dirty, inode, saved, hint, mounted, job, torn, freed, lost>>

BlockMeta == [used : BOOLEAN, next : 0..NumBlocks]
InodeMeta == [used : BOOLEAN, first : 0..NumBlocks]
Hints     == [block : 1..NumBlocks + 1, inode : 1..NumInodes + 1]

FreeBlock  == [used |-> FALSE, next |-> 0]
FreeInode  == [used |-> FALSE, first |-> 0]
FirstHints == [block |-> 1, inode |-> 1]

\* The writes of a job: what is done to the block or inode at, and what the
\* next block of the one, or the first block of the other, becomes.
Write ==
  [kind : {"mark", "free", "zero", "data", "link"}, at : BlockId, to : 0..NumBlocks]
    \cup [kind : {"take", "clear", "first"}, at : Inode, to : 0..NumBlocks]
    \cup [kind : {"hints"}, at : {0}, to : {0}]

Mark(b)     == [kind |-> "mark",  at |-> b, to |-> 0]
Free(b)     == [kind |-> "free",  at |-> b, to |-> 0]
Zero(b)     == [kind |-> "zero",  at |-> b, to |-> 0]
Data(b)     == [kind |-> "data",  at |-> b, to |-> 0]
Link(b, c)  == [kind |-> "link",  at |-> b, to |-> c]
Take(i)     == [kind |-> "take",  at |-> i, to |-> 0]
Clear(i)    == [kind |-> "clear", at |-> i, to |-> 0]
First(i, c) == [kind |-> "first", at |-> i, to |-> c]
SaveHints   == [kind |-> "hints", at |-> 0, to |-> 0]

Pending(w) == \E k \in DOMAIN job : job[k] = w

\* c is the chain of blocks that starts at b.
IsChain(c, b) ==
  /\ c = <<>> <=> b = 0
  /\ c # <<>> => c[1] = b /\ block[c[Len(c)]].next = 0
  /\ \A k \in 1..Len(c) - 1 : block[c[k]].next = c[k + 1]

Chains == UNION {[1..n -> BlockId] : n \in 0..NumBlocks}

\* Mutant: the data of a wiped block is left as it is.
WipeMetaOnly(c) ==
  [k \in 1..Len(c) |-> IF k = Len(c) THEN Free(c[1]) ELSE Free(c[k + 1])]

\* whefs_block_wipe of a chain: the blocks behind the first one in their order,
\* the first one last, each freed before its data is zeroed.
WipeChain(c) ==
  [k \in 1..2 * Len(c) |->
     LET n == (k + 1) \div 2
         b == IF n = Len(c) THEN c[1] ELSE c[n + 1]
     IN  IF k % 2 = 1 THEN Free(b) ELSE Zero(b)]

Init ==
  /\ block = [b \in BlockId |-> FreeBlock]
  /\ dirty = {}
  /\ inode = [i \in Inode |-> FreeInode]
  /\ saved = FirstHints
  /\ hint = FirstHints
  /\ mounted = TRUE
  /\ job = <<>>
  /\ torn = FALSE
  /\ freed = {}
  /\ lost = {}

-----------------------------------------------------------------------------
(***************************************************************************)
(* The calls.  Each starts when the previous one is done.                  *)
(***************************************************************************)

Idle == mounted /\ job = <<>>

Start(writes) ==
  /\ Idle
  /\ job' = writes
  /\ UNCHANGED <<block, dirty, inode, saved, hint, mounted, torn, freed, lost>>

FreeBlocks == {b \in BlockId : b >= hint.block /\ ~block[b].used}
FreeInodes == {i \in Inode : i >= hint.inode /\ ~inode[i].used}

\* whefs_inode_next_free finds i.
Create(i) ==
  /\ i \in FreeInodes
  /\ \A j \in FreeInodes : i <= j
  /\ Start(<<Take(i)>>)

\* Mutant: the new block is linked before it is marked used.
GrowLinkFirst(i, c, b) ==
  /\ inode[i].used
  /\ IsChain(c, inode[i].first)
  /\ b \in FreeBlocks
  /\ \A k \in FreeBlocks : b <= k
  /\ Start(<<IF c = <<>> THEN First(i, b) ELSE Link(c[Len(c)], b), Mark(b), Data(b)>>)

\* A write behind the last block: whefs_block_next_free finds the block b and
\* marks it, whefs_inode_block_list_append links it, then the data is written.
Grow(i, c, b) ==
  /\ inode[i].used
  /\ IsChain(c, inode[i].first)
  /\ b \in FreeBlocks
  /\ \A k \in FreeBlocks : b <= k
  /\ Start(<<Mark(b), IF c = <<>> THEN First(i, b) ELSE Link(c[Len(c)], b), Data(b)>>)

\* whefs_inode_unlink: the chain is wiped before the inode is cleared.
Unlink(i, c) ==
  /\ inode[i].used
  /\ IsChain(c, inode[i].first)
  /\ Start(WipeChain(c) \o <<Clear(i)>>)

\* Mutant: the last block that stays is not cut off from the wiped ones.
ShrinkKeepsLink(i, c, n) ==
  /\ inode[i].used
  /\ IsChain(c, inode[i].first)
  /\ n \in 1..Len(c) - 1
  /\ Start(WipeChain(SubSeq(c, n + 1, Len(c))))

\* whio_dev_inode_trunc to a length of n blocks: the blocks behind are wiped
\* before the chain is cut.
Shrink(i, c, n) ==
  /\ inode[i].used
  /\ IsChain(c, inode[i].first)
  /\ n \in 1..Len(c) - 1
  /\ Start(WipeChain(SubSeq(c, n + 1, Len(c))) \o <<Link(c[n], 0)>>)

\* whio_dev_inode_trunc to zero, which wipes nothing.
TruncateToZero(i) ==
  /\ inode[i].used
  /\ inode[i].first # 0
  /\ Start(<<First(i, 0)>>)

\* whefs_fs_finalize.  The process is done with the container after the step.
Finalize == Start(<<SaveHints>>)

-----------------------------------------------------------------------------
(***************************************************************************)
(* The next write of the current call.                                     *)
(***************************************************************************)

\* The effect on the metadata of the blocks; whefs_block_next_free marks a
\* block with the next block it was read with.
WriteBlock(w) ==
  block' = CASE w.kind = "mark" -> [block EXCEPT ![w.at].used = TRUE]
             [] w.kind = "free" -> [block EXCEPT ![w.at] = FreeBlock]
             [] w.kind = "link" -> [block EXCEPT ![w.at].next = w.to]
             [] OTHER           -> block

WriteInode(w) ==
  inode' = CASE w.kind = "take"  -> [inode EXCEPT ![w.at].used = TRUE]
             [] w.kind = "clear" -> [inode EXCEPT ![w.at] = FreeInode]
             [] w.kind = "first" -> [inode EXCEPT ![w.at].first = w.to]
             [] OTHER            -> inode

WriteData(w) ==
  dirty' = CASE w.kind = "data" -> dirty \cup {w.at}
             [] w.kind = "zero" -> dirty \ {w.at}
             [] OTHER           -> dirty

HintOnlyUp(w) == IF w.kind = "mark" THEN w.at + 1 ELSE hint.block

\* The search hints follow the writes: up behind what whefs_block_next_free and
\* whefs_inode_next_free took, down to what whefs_block_wipe and
\* whefs_inode_update_used freed.
BlockHint(w) ==
  CASE w.kind = "mark"                      -> w.at + 1
    [] w.kind = "free" /\ w.at < hint.block -> w.at
    [] OTHER                                -> hint.block

InodeHint(w) ==
  CASE w.kind = "take"                       -> w.at + 1
    [] w.kind = "clear" /\ w.at < hint.inode -> w.at
    [] OTHER                                 -> hint.inode

MoveHints(w) == hint' = [block |-> BlockHint(w), inode |-> InodeHint(w)]

\* Freed blocks are remembered until they are used again or the hints written.
Remember(w) ==
  /\ freed' = CASE w.kind = "free"  -> freed \cup {w.at}
                [] w.kind = "mark"  -> freed \ {w.at}
                [] w.kind = "hints" -> {}
                [] OTHER            -> freed
  /\ lost' = IF w.kind = "mark" THEN lost \ {w.at} ELSE lost

Step ==
  LET w == Head(job) IN
  /\ mounted
  /\ job # <<>>
  /\ WriteBlock(w) /\ WriteInode(w) /\ WriteData(w) /\ MoveHints(w) /\ Remember(w)
  /\ saved' = IF w.kind = "hints" THEN hint ELSE saved
  /\ mounted' = (w.kind # "hints")
  /\ job' = Tail(job)
  /\ UNCHANGED torn

\* The current call wipes blocks, or has still to remove what leads to them.
Wiping ==
  \E k \in DOMAIN job :
    \/ job[k].kind \in {"free", "zero"}
    \/ job[k].kind = "clear" /\ inode[job[k].at].first # 0
    \/ job[k].kind = "link" /\ job[k].to = 0

\* The process ends; what the call has still to write is never written.
Crash ==
  /\ mounted
  /\ mounted' = FALSE
  /\ job' = <<>>
  /\ torn' = (torn \/ Wiping)
  /\ lost' = lost \cup freed
  /\ freed' = {}
  /\ UNCHANGED <<block, dirty, inode, saved, hint>>

\* whefs_openfs: the hints are read.
Mount ==
  /\ ~mounted
  /\ ~torn
  /\ mounted' = TRUE
  /\ hint' = saved
  /\ UNCHANGED <<block, dirty, inode, saved, job, torn, freed, lost>>

Damaged == torn /\ UNCHANGED vars

Next ==
  \/ \E i \in Inode : Create(i)
  \/ \E i \in Inode, c \in Chains, b \in BlockId : Grow(i, c, b)
  \/ \E i \in Inode, c \in Chains : Unlink(i, c)
  \/ \E i \in Inode, c \in Chains, n \in BlockId : Shrink(i, c, n)
  \/ \E i \in Inode : TruncateToZero(i)
  \/ Finalize
  \/ Step
  \/ Crash
  \/ Mount
  \/ Damaged

Spec == Init /\ [][Next]_vars

-----------------------------------------------------------------------------
(***************************************************************************)
(* Properties.                                                             *)
(***************************************************************************)

TypeOK ==
  /\ block \in [BlockId -> BlockMeta]
  /\ dirty \subseteq BlockId
  /\ inode \in [Inode -> InodeMeta]
  /\ saved \in Hints
  /\ hint \in Hints
  /\ mounted \in BOOLEAN
  /\ job \in Seq(Write)
  /\ torn \in BOOLEAN
  /\ freed \subseteq BlockId
  /\ lost \subseteq BlockId

\* A container is intact unless a crash hit a call that was wiping blocks:
\* what a used inode or block points to is a used block.  A crash while a file
\* grows, or between two calls, is harmless.
PointersLeadToUsed ==
  ~torn /\ ~Wiping =>
    /\ \A i \in Inode : inode[i].used /\ inode[i].first # 0 => block[inode[i].first].used
    /\ \A b \in BlockId : block[b].used /\ block[b].next # 0 => block[block[b].next].used

\* At no time, not even between the writes of a call, do two inodes, two blocks,
\* or an inode and a block, point to the same block: files never share one.
PointersUnshared ==
  /\ \A i, j \in Inode : inode[i].used /\ inode[j].used /\ inode[i].first # 0
       /\ inode[i].first = inode[j].first => i = j
  /\ \A a, b \in BlockId : block[a].used /\ block[b].used /\ block[a].next # 0
       /\ block[a].next = block[b].next => a = b
  /\ \A i \in Inode, b \in BlockId : inode[i].used /\ block[b].used
       /\ inode[i].first # 0 => inode[i].first # block[b].next

\* A free block can be handed out as it is: it ends a chain and, unless a crash
\* hit a call that was wiping, its data is zero (whefs_block_next_free does not
\* clear it, and files show it in their gaps).
FreeIsBlank ==
  \A b \in BlockId : ~block[b].used =>
    /\ block[b].next = 0
    /\ ~torn /\ ~Wiping => b \notin dirty

\* The search for a free block starts at the hint and does not wrap around.  It
\* misses only blocks that were freed in a session that crashed: those that
\* are written by the next session find the hints of the one before.
OnlyLostBelowHint ==
  mounted => \A b \in BlockId : b < hint.block /\ ~block[b].used => b \in lost
=============================================================================
