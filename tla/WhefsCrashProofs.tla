-------------------------- MODULE WhefsCrashProofs --------------------------
(***************************************************************************)
(* A whefs container stays intact through crashes at any point, for any    *)
(* number of blocks and inodes, unless the crash hits a call that is       *)
(* wiping blocks.  The inductive invariant says what the writes a call has *)
(* still to make will repair: whatever leads to a block that is free, or   *)
(* is about to be, is itself about to be freed, cleared or cut.            *)
(***************************************************************************)
EXTENDS WhefsCrash, TLAPS

\* Nothing in the container leads to b.
NoneLeadTo(b) ==
  /\ \A i \in Inode : inode[i].used => inode[i].first # b
  /\ \A a \in BlockId : block[a].used => block[a].next # b

\* The write that makes b part of a file, and what it changes.
Leads(w, b) ==
  \/ \E a \in BlockId : w = Link(a, b) /\ block[a].used /\ block[a].next = 0
  \/ \E i \in Inode : w = First(i, b) /\ inode[i].used /\ inode[i].first = 0

\* A call that grows a file by the block b, before each of its three writes.
GrowShape(b) ==
  \/ /\ Len(job) = 3
     /\ job[1] = Mark(b) /\ Leads(job[2], b) /\ job[3] = Data(b)
     /\ ~block[b].used
     /\ NoneLeadTo(b)
     /\ \A a \in BlockId : hint.block <= a /\ a < b => block[a].used
  \/ /\ Len(job) = 2
     /\ Leads(job[1], b) /\ job[2] = Data(b)
     /\ block[b].used
     /\ NoneLeadTo(b)
  \/ /\ Len(job) = 1
     /\ job[1] = Data(b)
     /\ block[b].used

\* A call that wipes blocks: each is zeroed right after it was freed.
WipeShape ==
  \A k \in 1..Len(job) :
    \/ /\ k + 1 \in 1..Len(job)
       /\ \E b \in BlockId : job[k] = Free(b) /\ job[k + 1] = Zero(b)
    \/ job[k].kind \in {"zero", "clear"}
    \/ job[k].kind = "link" /\ job[k].to = 0

\* The other calls consist of one write.
SingleShape ==
  /\ Len(job) = 1
  /\ \/ job[1].kind \in {"take", "hints"}
     \/ job[1].kind = "first" /\ job[1].to = 0

Shape ==
  /\ ~mounted => job = <<>> /\ freed = {}
  /\ torn => ~mounted
  /\ WipeShape \/ SingleShape \/ \E b \in BlockId : GrowShape(b)

\* What is not used leads nowhere.
Blank ==
  /\ \A b \in BlockId : ~block[b].used => block[b].next = 0
  /\ \A i \in Inode : ~inode[i].used => inode[i].first = 0

\* The block b is free, or will be when the call is done.
Going(b) == ~block[b].used \/ Pending(Free(b))

Covered ==
  ~torn =>
    /\ \A a \in BlockId : block[a].used /\ block[a].next # 0 /\ Going(block[a].next) =>
         Pending(Free(a)) \/ Pending(Link(a, 0))
    /\ \A i \in Inode : inode[i].used /\ inode[i].first # 0 /\ Going(inode[i].first) =>
         Pending(Clear(i))

\* Data in a free block is about to be zeroed.
DirtyPending ==
  ~torn => \A b \in dirty : block[b].used \/ Pending(Zero(b))

\* Free blocks below the hints, in memory and in the container, are known.
HintsKnown ==
  /\ OnlyLostBelowHint
  /\ \A b \in BlockId : b < saved.block /\ ~block[b].used => b \in lost \cup freed

Intact ==
  /\ TypeOK
  /\ Shape
  /\ Blank
  /\ PointersUnshared
  /\ Covered
  /\ DirtyPending
  /\ HintsKnown

-----------------------------------------------------------------------------
(***************************************************************************)
(* Jobs: what is left after a write, and the writes of a wiped chain.      *)
(***************************************************************************)

\* The jobs a container can have start from none.
LEMMA InitIntact == Init => Intact
<1> USE BlockCountAssumption, InodeCountAssumption
<1> SUFFICES ASSUME Init PROVE Intact
  OBVIOUS
<1>1. TypeOK
  <2>1. FreeBlock \in BlockMeta /\ FreeInode \in InodeMeta /\ FirstHints \in Hints
    BY DEF FreeBlock, FreeInode, FirstHints, BlockMeta, InodeMeta, Hints
  <2>2. job \in Seq(Write)
    BY DEF Init
  <2>3. block \in [BlockId -> BlockMeta] /\ inode \in [Inode -> InodeMeta]
    BY <2>1 DEF Init
  <2> QED
    BY <2>1, <2>2, <2>3 DEF Init, TypeOK
<1>2. Shape
  BY DEF Init, Shape, WipeShape
<1>3. Blank /\ PointersUnshared /\ Covered /\ DirtyPending
  BY DEF Init, Blank, PointersUnshared, Covered, DirtyPending, FreeBlock, FreeInode
<1>4. HintsKnown
  BY DEF Init, HintsKnown, OnlyLostBelowHint, FirstHints, BlockId
<1> QED
  BY <1>1, <1>2, <1>3, <1>4 DEF Intact

\* What is left of a job when its first write is done.
LEMMA TailFacts ==
  ASSUME NEW S, NEW s \in Seq(S), s # <<>>
  PROVE  /\ Tail(s) \in Seq(S)
         /\ Head(s) = s[1] /\ s[1] \in S
         /\ Len(s) \in Nat \ {0}
         /\ Len(Tail(s)) = Len(s) - 1
         /\ \A k \in 1..Len(s) - 1 : Tail(s)[k] = s[k + 1]
  OBVIOUS

\* The writes that wipe a chain and end with the write f: every block of the
\* chain is freed, no other block is, and each is zeroed when it was freed.
LEMMA WipeFacts ==
  ASSUME NEW n \in Nat, NEW c \in [1..n -> BlockId], NEW f \in Write,
         f.kind \notin {"free", "zero"}
  PROVE  /\ WipeChain(c) \o <<f>> \in Seq(Write)
         /\ Len(WipeChain(c) \o <<f>>) = 2 * n + 1
         /\ (WipeChain(c) \o <<f>>)[2 * n + 1] = f
         /\ \A m \in 1..n : \E k \in 1..2 * n : (WipeChain(c) \o <<f>>)[k] = Free(c[m])
         /\ \A k \in 1..2 * n :
              \/ /\ k + 1 <= 2 * n
                 /\ \E m \in 1..n : /\ (WipeChain(c) \o <<f>>)[k] = Free(c[m])
                                    /\ (WipeChain(c) \o <<f>>)[k + 1] = Zero(c[m])
              \/ \E m \in 1..n : (WipeChain(c) \o <<f>>)[k] = Zero(c[m])
<1> DEFINE at(k) == IF (k + 1) \div 2 = n THEN 1 ELSE (k + 1) \div 2 + 1
           w == WipeChain(c)
           job0 == w \o <<f>>
<1>1. Len(c) = n
  OBVIOUS
<1>2. \A k \in 1..2 * n : at(k) \in 1..n
  OBVIOUS
<1>3. w = [k \in 1..2 * n |-> IF k % 2 = 1 THEN Free(c[at(k)]) ELSE Zero(c[at(k)])]
  BY <1>1 DEF WipeChain
<1>4. \A k \in 1..2 * n : Free(c[at(k)]) \in Write /\ Zero(c[at(k)]) \in Write
  <2> SUFFICES ASSUME NEW b \in BlockId PROVE Free(b) \in Write /\ Zero(b) \in Write
    BY <1>2
  <2> QED
    BY BlockCountAssumption DEF Free, Zero, Write
<1>5. w \in Seq(Write) /\ Len(w) = 2 * n
  BY <1>3, <1>4
<1>6. job0 \in Seq(Write) /\ Len(job0) = 2 * n + 1 /\ job0[2 * n + 1] = f
  BY <1>5
<1>7. \A k \in 1..2 * n : job0[k] = IF k % 2 = 1 THEN Free(c[at(k)]) ELSE Zero(c[at(k)])
  BY <1>3, <1>5
<1>8. ASSUME NEW m \in 1..n PROVE \E k \in 1..2 * n : job0[k] = Free(c[m])
  <2>1. CASE m = 1
    <3>1. 2 * n - 1 \in 1..2 * n /\ (2 * n - 1) % 2 = 1 /\ at(2 * n - 1) = 1
      OBVIOUS
    <3> QED BY <1>7, <2>1, <3>1
  <2>2. CASE m # 1
    <3>1. 2 * m - 3 \in 1..2 * n /\ (2 * m - 3) % 2 = 1 /\ at(2 * m - 3) = m
      BY <2>2
    <3> QED BY <1>7, <3>1
  <2> QED BY <2>1, <2>2
<1>9. ASSUME NEW k \in 1..2 * n
      PROVE  \/ /\ k + 1 <= 2 * n
                /\ \E m \in 1..n : job0[k] = Free(c[m]) /\ job0[k + 1] = Zero(c[m])
             \/ \E m \in 1..n : job0[k] = Zero(c[m])
  <2>1. CASE k % 2 = 1
    <3>1. k + 1 \in 1..2 * n /\ (k + 1) % 2 # 1 /\ at(k + 1) = at(k)
      BY <2>1
    <3> HIDE DEF at, job0
    <3>2. job0[k] = Free(c[at(k)]) /\ job0[k + 1] = Zero(c[at(k)])
      BY <1>7, <2>1, <3>1
    <3>3. at(k) \in 1..n /\ k + 1 <= 2 * n
      BY <1>2, <3>1
    <3> QED BY <3>2, <3>3
  <2>2. CASE k % 2 # 1
    <3> HIDE DEF at, job0
    <3> QED BY <1>2, <1>7, <2>2
  <2> QED BY <2>1, <2>2
<1> QED
  BY <1>6, <1>8, <1>9

-----------------------------------------------------------------------------
(***************************************************************************)
(* The calls.                                                              *)
(***************************************************************************)

\* Between two calls nothing is pending, so nothing leads to a free block.
LEMMA IdleFacts ==
  ASSUME Intact, Idle
  PROVE  /\ ~torn
         /\ \A a \in BlockId : block[a].used /\ block[a].next # 0 => block[block[a].next].used
         /\ \A i \in Inode : inode[i].used /\ inode[i].first # 0 => block[inode[i].first].used
         /\ \A b \in dirty : block[b].used
<1>1. ~torn
  BY DEF Intact, Idle, Shape
<1>2. \A x : ~Pending(x)
  BY DEF Idle, Pending
<1> QED
  BY <1>1, <1>2 DEF Intact, Covered, DirtyPending, Going

\* A call keeps the container intact when its job has a known shape and covers
\* what it frees: starting it changes nothing else.
LEMMA StartKeeps ==
  ASSUME Intact, NEW w \in Seq(Write), Start(w),
         (WipeShape \/ SingleShape \/ \E b \in BlockId : GrowShape(b))',
         Covered'
  PROVE  Intact'
<1>1. TypeOK'
  BY DEF Intact, Start, TypeOK
<1>2. Shape'
  BY DEF Intact, Start, Shape, Idle
<1>3. Blank' /\ PointersUnshared' /\ HintsKnown'
  BY DEF Intact, Start, Blank, PointersUnshared, HintsKnown, OnlyLostBelowHint
<1>4. DirtyPending'
  BY IdleFacts DEF Start, DirtyPending
<1> QED
  BY <1>1, <1>2, <1>3, <1>4 DEF Intact

\* A call that frees nothing has nothing to cover.
LEMMA StartNoFree ==
  ASSUME Intact, NEW w \in Seq(Write), Start(w),
         (SingleShape \/ \E b \in BlockId : GrowShape(b))',
         \A k \in 1..Len(w) : w[k].kind # "free"
  PROVE  Intact'
<1>1. ASSUME NEW b \in BlockId, block[b].used PROVE ~Going(b)'
  BY <1>1 DEF Going, Pending, Start, Free
<1>2. block' = block /\ inode' = inode
  BY DEF Start
<1>3. ASSUME NEW a \in BlockId, block[a].used, block[a].next # 0 PROVE ~Going(block[a].next)'
  <2>1. PICK b \in BlockId : b = block[a].next
    BY <1>3 DEF Intact, TypeOK, BlockMeta, BlockId
  <2> QED
    BY <1>1, <1>2, <1>3, <2>1, IdleFacts DEF Start, Going
<1>4. ASSUME NEW i \in Inode, inode[i].used, inode[i].first # 0 PROVE ~Going(inode[i].first)'
  <2>1. PICK b \in BlockId : b = inode[i].first
    BY <1>4 DEF Intact, TypeOK, InodeMeta, BlockId
  <2> QED
    BY <1>1, <1>2, <1>4, <2>1, IdleFacts DEF Start, Going
<1>5. Covered'
  BY <1>2, <1>3, <1>4 DEF Covered
<1> QED
  BY <1>5, StartKeeps

LEMMA CreateKeeps ==
  ASSUME Intact, NEW i \in Inode, Create(i) PROVE Intact'
<1>1. <<Take(i)>> \in Seq(Write) /\ Start(<<Take(i)>>)
  BY BlockCountAssumption DEF Create, Take, Write
<1>2. SingleShape'
  BY <1>1 DEF Start, SingleShape, Take
<1>3. \A k \in 1..Len(<<Take(i)>>) : <<Take(i)>>[k].kind # "free"
  BY DEF Take
<1> QED
  BY <1>1, <1>2, <1>3, StartNoFree

LEMMA TruncateToZeroKeeps ==
  ASSUME Intact, NEW i \in Inode, TruncateToZero(i) PROVE Intact'
<1>1. <<First(i, 0)>> \in Seq(Write) /\ Start(<<First(i, 0)>>)
  BY BlockCountAssumption DEF TruncateToZero, First, Write
<1>2. SingleShape'
  BY <1>1 DEF Start, SingleShape, First
<1>3. \A k \in 1..Len(<<First(i, 0)>>) : <<First(i, 0)>>[k].kind # "free"
  BY DEF First
<1> QED
  BY <1>1, <1>2, <1>3, StartNoFree

LEMMA FinalizeKeeps ==
  ASSUME Intact, Finalize PROVE Intact'
<1>1. <<SaveHints>> \in Seq(Write) /\ Start(<<SaveHints>>)
  BY DEF Finalize, SaveHints, Write
<1>2. SingleShape'
  BY <1>1 DEF Start, SingleShape, SaveHints
<1>3. \A k \in 1..Len(<<SaveHints>>) : <<SaveHints>>[k].kind # "free"
  BY DEF SaveHints
<1> QED
  BY <1>1, <1>2, <1>3, StartNoFree

LEMMA GrowKeeps ==
  ASSUME Intact, NEW i \in Inode, NEW c \in Chains, NEW b \in BlockId, Grow(i, c, b)
  PROVE  Intact'
<1> DEFINE link == IF c = <<>> THEN First(i, b) ELSE Link(c[Len(c)], b)
           w    == <<Mark(b), link, Data(b)>>
<1>1. PICK n \in 0..NumBlocks : c \in [1..n -> BlockId]
  BY DEF Chains
<1>2. c # <<>> => c[Len(c)] \in BlockId
  BY <1>1, BlockCountAssumption
<1>3. Start(w)
  BY DEF Grow
<1>4. w \in Seq(Write)
  <2>1. Mark(b) \in Write /\ Data(b) \in Write
    BY BlockCountAssumption DEF Mark, Data, Write
  <2>2. link \in Write
    BY <1>2 DEF Link, First, Write, BlockId
  <2> QED BY <2>1, <2>2
<1>5. NoneLeadTo(b)
  <2>1. ~block[b].used /\ b # 0
    BY DEF Grow, FreeBlocks, BlockId
  <2> QED
    BY <1>3, <2>1, IdleFacts DEF Start, NoneLeadTo
<1>6. Leads(link, b)
  <2>1. CASE c = <<>>
    BY <2>1 DEF Grow, IsChain, Leads
  <2>2. CASE c # <<>>
    <3>1. PICK a \in BlockId : a = c[Len(c)]
      BY <1>2, <2>2
    <3>2. block[a].next = 0
      BY <2>2, <3>1 DEF Grow, IsChain
    <3>3. block[a].used
      <4>1. CASE Len(c) = 1
        BY <1>3, <2>2, <3>1, <4>1, IdleFacts DEF Grow, IsChain, Start, BlockId
      <4>2. CASE Len(c) # 1
        <5>1. Len(c) - 1 \in 1..Len(c) - 1 /\ c[Len(c) - 1] \in BlockId
          BY <1>1, <2>2, <4>2
        <5>2. block[c[Len(c) - 1]].next = a
          BY <3>1, <5>1 DEF Grow, IsChain
        <5>3. block[c[Len(c) - 1]].used
          BY <5>1, <5>2 DEF Intact, Blank, BlockId
        <5> QED
          BY <1>3, <5>1, <5>2, <5>3, IdleFacts DEF Start, BlockId
      <4> QED BY <4>1, <4>2
    <3> QED
      BY <2>2, <3>1, <3>2, <3>3 DEF Leads
  <2> QED BY <2>1, <2>2
<1>7. GrowShape(b)'
  <2>1. job' = w /\ block' = block /\ inode' = inode /\ hint' = hint
    BY <1>3 DEF Start
  <2>2. \A a \in BlockId : hint.block <= a /\ a < b => block[a].used
    <3> SUFFICES ASSUME NEW a \in BlockId, hint.block <= a, a < b, ~block[a].used
                 PROVE  FALSE
      OBVIOUS
    <3>1. a \in FreeBlocks
      BY DEF FreeBlocks
    <3>2. b <= a
      BY <3>1 DEF Grow
    <3> QED
      BY <3>2 DEF BlockId
  <2>3. ~block[b].used
    BY DEF Grow, FreeBlocks
  <2>4. NoneLeadTo(b)'
    BY <1>5, <2>1 DEF NoneLeadTo
  <2>5. Leads(job[2], b)'
    <3> HIDE DEF link
    <3>1. job'[2] = link
      BY <2>1
    <3> QED
      BY <1>6, <2>1, <3>1 DEF Leads
  <2> HIDE DEF link
  <2>6. Len(job') = 3 /\ job'[1] = Mark(b) /\ job'[3] = Data(b)
    BY <2>1
  <2> QED
    BY <2>1, <2>2, <2>3, <2>4, <2>5, <2>6 DEF GrowShape
<1>8. \A k \in 1..Len(w) : w[k].kind # "free"
  BY DEF Mark, Link, First, Data
<1> QED
  <2> HIDE DEF w
  <2> QED BY <1>3, <1>4, <1>7, <1>8, StartNoFree

\* A call that wipes the chain c and then removes what leads to it, by the write
\* f: what leads to a block of c is the block before it, or what f changes.
LEMMA StartWipe ==
  ASSUME Intact, NEW n \in Nat, NEW c \in [1..n -> BlockId], NEW f \in Write,
         Start(WipeChain(c) \o <<f>>),
         \A k \in 1..n - 1 : block[c[k]].next = c[k + 1],
         \/ \E i \in Inode : /\ f = Clear(i)
                             /\ n > 0 => inode[i].used /\ inode[i].first = c[1]
         \/ \E a \in BlockId : f = Link(a, 0) /\ (n > 0 => block[a].next = c[1])
  PROVE  Intact'
<1> DEFINE w == WipeChain(c) \o <<f>>
<1>1. f.kind \in {"clear", "link"} /\ (f.kind = "link" => f.to = 0)
  BY DEF Clear, Link
<1>2. /\ w \in Seq(Write) /\ Len(w) = 2 * n + 1 /\ w[2 * n + 1] = f
      /\ \A m \in 1..n : \E k \in 1..2 * n : w[k] = Free(c[m])
      /\ \A k \in 1..2 * n :
           \/ /\ k + 1 <= 2 * n
              /\ \E m \in 1..n : w[k] = Free(c[m]) /\ w[k + 1] = Zero(c[m])
           \/ \E m \in 1..n : w[k] = Zero(c[m])
  BY <1>1, WipeFacts
<1>3. job' = w /\ block' = block /\ inode' = inode
  BY DEF Start
<1> HIDE DEF w
<1>3a. DOMAIN job' = 1..2 * n + 1
  BY <1>2, <1>3
<1>4. WipeShape'
  <2> SUFFICES ASSUME NEW k \in 1..Len(w)
               PROVE  \/ /\ k + 1 \in 1..Len(w)
                         /\ \E b \in BlockId : w[k] = Free(b) /\ w[k + 1] = Zero(b)
                      \/ w[k].kind \in {"zero", "clear"}
                      \/ w[k].kind = "link" /\ w[k].to = 0
    BY <1>3 DEF WipeShape
  <2>1. CASE k = 2 * n + 1
    BY <1>1, <1>2, <2>1
  <2>2. CASE k \in 1..2 * n /\ \E m \in 1..n : w[k] = Zero(c[m])
    BY <2>2 DEF Zero
  <2>3. CASE /\ k + 1 <= 2 * n
             /\ \E m \in 1..n : w[k] = Free(c[m]) /\ w[k + 1] = Zero(c[m])
    BY <1>2, <2>3
  <2> QED BY <1>2, <2>1, <2>2, <2>3
<1>5. ASSUME NEW y, Pending(Free(y))' PROVE \E m \in 1..n : c[m] = y
  <2>1. PICK k \in 1..2 * n + 1 : w[k] = Free(y)
    BY <1>2, <1>3, <1>5 DEF Pending
  <2>2. k \in 1..2 * n
    BY <1>1, <1>2, <2>1 DEF Free
  <2>3. ASSUME NEW m \in 1..n, w[k] = Zero(c[m]) PROVE FALSE
    <3>1. w[k].kind = "free"
      BY <2>1 DEF Free
    <3>2. w[k].kind = "zero"
      BY <2>3 DEF Zero
    <3> QED BY <3>1, <3>2
  <2>4. PICK m \in 1..n : w[k] = Free(c[m])
    BY <1>2, <2>2, <2>3
  <2> QED BY <2>1, <2>4 DEF Free
<1>6. \A m \in 1..n : Pending(Free(c[m]))'
  <2> SUFFICES ASSUME NEW m \in 1..n PROVE Pending(Free(c[m]))'
    OBVIOUS
  <2>1. PICK k \in 1..2 * n : w[k] = Free(c[m])
    BY <1>2
  <2>2. k \in DOMAIN job'
    BY <1>3a
  <2> QED BY <1>3, <2>1, <2>2 DEF Pending
<1>7. Pending(f)'
  <2>1. 2 * n + 1 \in DOMAIN job'
    BY <1>3a
  <2> QED BY <1>2, <1>3, <2>1 DEF Pending
<1>8. \A b \in BlockId : block[b].next # 0 => block[b].used
  BY DEF Intact, Blank
<1>9. \A m \in 2..n : c[m - 1] \in BlockId /\ block[c[m - 1]].next = c[m] /\ c[m] # 0
  <2> SUFFICES ASSUME NEW m \in 2..n
               PROVE  c[m - 1] \in BlockId /\ block[c[m - 1]].next = c[m] /\ c[m] # 0
    OBVIOUS
  <2>1. m - 1 \in 1..n - 1 /\ (m - 1) + 1 = m /\ m \in 1..n
    OBVIOUS
  <2> QED
    BY <2>1 DEF BlockId
<1>10. ASSUME NEW y \in BlockId, Going(y)', block[y].used PROVE \E m \in 1..n : c[m] = y
  BY <1>3, <1>5, <1>10 DEF Going
<1>11. ASSUME NEW a \in BlockId, block[a].used, block[a].next # 0, Going(block[a].next)'
       PROVE  Pending(Free(a))' \/ Pending(Link(a, 0))'
  <2>1. block[a].next \in BlockId /\ block[block[a].next].used
    BY <1>11, IdleFacts DEF Intact, TypeOK, BlockMeta, BlockId, Start
  <2>2. PICK m \in 1..n : c[m] = block[a].next
    <3>1. PICK y \in BlockId : y = block[a].next
      BY <2>1
    <3> QED BY <1>3, <1>10, <1>11, <2>1, <3>1 DEF Going
  <2>3. CASE m = 1
    <3>1. CASE \E i \in Inode : f = Clear(i) /\ (n > 0 => inode[i].used /\ inode[i].first = c[1])
      BY <1>11, <2>2, <2>3, <3>1 DEF Intact, PointersUnshared
    <3>2. CASE \E d \in BlockId : f = Link(d, 0) /\ (n > 0 => block[d].next = c[1])
      <4>1. PICK d \in BlockId : f = Link(d, 0) /\ block[d].next = c[1]
        BY <2>2, <3>2
      <4>2. block[d].used
        BY <1>8, <1>11, <2>2, <2>3, <4>1
      <4>3. d = a
        BY <1>11, <2>2, <2>3, <4>1, <4>2 DEF Intact, PointersUnshared
      <4> QED BY <1>7, <4>1, <4>3
    <3> QED BY <3>1, <3>2
  <2>4. CASE m # 1
    <3>1. m - 1 \in 1..n /\ m \in 2..n
      BY <2>4
    <3>2. c[m - 1] \in BlockId /\ block[c[m - 1]].next = block[a].next /\ block[c[m - 1]].used
      BY <1>8, <1>9, <2>2, <3>1
    <3>3. c[m - 1] = a
      BY <1>11, <3>2 DEF Intact, PointersUnshared
    <3> QED BY <1>6, <3>1, <3>3
  <2> QED BY <2>3, <2>4
<1>12. ASSUME NEW i \in Inode, inode[i].used, inode[i].first # 0, Going(inode[i].first)'
       PROVE  Pending(Clear(i))'
  <2>1. inode[i].first \in BlockId /\ block[inode[i].first].used
    BY <1>12, IdleFacts DEF Intact, TypeOK, InodeMeta, BlockId, Start
  <2>2. PICK m \in 1..n : c[m] = inode[i].first
    <3>1. PICK y \in BlockId : y = inode[i].first
      BY <2>1
    <3> QED BY <1>3, <1>10, <1>12, <2>1, <3>1 DEF Going
  <2>3. CASE m = 1
    <3>1. CASE \E d \in BlockId : f = Link(d, 0) /\ (n > 0 => block[d].next = c[1])
      <4>1. PICK d \in BlockId : block[d].next = c[1]
        BY <2>2, <3>1
      <4>2. block[d].used
        BY <1>8, <1>12, <2>2, <2>3, <4>1
      <4> QED BY <1>12, <2>2, <2>3, <4>1, <4>2 DEF Intact, PointersUnshared
    <3>2. CASE \E d \in Inode : f = Clear(d) /\ (n > 0 => inode[d].used /\ inode[d].first = c[1])
      <4>1. PICK d \in Inode : f = Clear(d) /\ inode[d].used /\ inode[d].first = c[1]
        BY <2>2, <3>2
      <4>2. d = i
        BY <1>12, <2>2, <2>3, <4>1 DEF Intact, PointersUnshared
      <4> QED BY <1>7, <4>1, <4>2
    <3> QED BY <3>1, <3>2
  <2>4. CASE m # 1
    <3>1. m - 1 \in 1..n /\ m \in 2..n
      BY <2>4
    <3>2. c[m - 1] \in BlockId /\ block[c[m - 1]].next = inode[i].first /\ block[c[m - 1]].used
      BY <1>8, <1>9, <2>2, <3>1
    <3> QED BY <1>12, <3>2 DEF Intact, PointersUnshared
  <2> QED BY <2>3, <2>4
<1>13. Covered'
  BY <1>3, <1>11, <1>12 DEF Covered
<1> QED
  BY <1>2, <1>4, <1>13, StartKeeps DEF w

LEMMA UnlinkKeeps ==
  ASSUME Intact, NEW i \in Inode, NEW c \in Chains, Unlink(i, c) PROVE Intact'
<1>1. PICK n \in 0..NumBlocks : c \in [1..n -> BlockId]
  BY DEF Chains
<1>2. n > 0 => c # <<>> /\ Len(c) = n
  BY <1>1, BlockCountAssumption
<1>3. Clear(i) \in Write
  BY BlockCountAssumption DEF Clear, Write
<1>4. n > 0 => inode[i].used /\ inode[i].first = c[1]
  BY <1>2 DEF Unlink, IsChain
<1>5. \A k \in 1..n - 1 : block[c[k]].next = c[k + 1]
  BY <1>1, <1>2, BlockCountAssumption DEF Unlink, IsChain
<1>6. Start(WipeChain(c) \o <<Clear(i)>>)
  BY DEF Unlink
<1>7. n \in Nat
  BY BlockCountAssumption
<1> QED
  BY <1>1, <1>3, <1>4, <1>5, <1>6, <1>7, StartWipe

LEMMA ShrinkKeeps ==
  ASSUME Intact, NEW i \in Inode, NEW c \in Chains, NEW n \in BlockId, Shrink(i, c, n)
  PROVE  Intact'
<1> DEFINE d == SubSeq(c, n + 1, Len(c))
<1>1. PICK l \in 0..NumBlocks : c \in [1..l -> BlockId]
  BY DEF Chains
<1>2. Len(c) = l /\ l \in Nat /\ n \in 1..l - 1 /\ l - n \in Nat
  BY <1>1, BlockCountAssumption DEF Shrink
<1>3. d = [k \in 1..l - n |-> c[n + k]]
  BY <1>1, <1>2
<1>4. d \in [1..l - n -> BlockId]
  <2>1. \A k \in 1..l - n : c[n + k] \in BlockId
    BY <1>1, <1>2
  <2> QED BY <1>3, <2>1
<1>5. \A k \in 1..l - 1 : block[c[k]].next = c[k + 1]
  BY <1>2 DEF Shrink, IsChain
<1>6. \A k \in 1..(l - n) - 1 : block[d[k]].next = d[k + 1]
  <2> SUFFICES ASSUME NEW k \in 1..(l - n) - 1 PROVE block[d[k]].next = d[k + 1]
    OBVIOUS
  <2>1. d[k] = c[n + k] /\ d[k + 1] = c[n + k + 1] /\ n + k \in 1..l - 1
    BY <1>2, <1>3
  <2> QED BY <1>5, <2>1
<1>7. c[n] \in BlockId /\ block[c[n]].next = d[1]
  BY <1>1, <1>2, <1>3, <1>5
<1>8. Link(c[n], 0) \in Write
  BY <1>7, BlockCountAssumption DEF Link, Write
<1>9. Start(WipeChain(d) \o <<Link(c[n], 0)>>)
  BY DEF Shrink
<1> HIDE DEF d
<1> QED
  BY <1>2, <1>4, <1>6, <1>7, <1>8, <1>9, StartWipe

-----------------------------------------------------------------------------
(***************************************************************************)
(* The writes.                                                             *)
(***************************************************************************)

\* MoveHints, told by the one hint that each kind of write moves.
HintMoved(w) ==
  hint' = CASE w.kind = "mark"  -> [hint EXCEPT !.block = w.at + 1]
            [] w.kind = "free"  -> [hint EXCEPT !.block = IF w.at < @ THEN w.at ELSE @]
            [] w.kind = "take"  -> [hint EXCEPT !.inode = w.at + 1]
            [] w.kind = "clear" -> [hint EXCEPT !.inode = IF w.at < @ THEN w.at ELSE @]
            [] OTHER            -> hint

LEMMA HintsMove ==
  ASSUME TypeOK, NEW w \in Write, MoveHints(w)
  PROVE  HintMoved(w)
<1>1. hint = [block |-> hint.block, inode |-> hint.inode]
  BY DEF TypeOK, Hints
<1>2. \A m : /\ [hint EXCEPT !.block = m] = [block |-> m, inode |-> hint.inode]
            /\ [hint EXCEPT !.inode = m] = [block |-> hint.block, inode |-> m]
  BY <1>1
<1>3. CASE w.kind = "mark"
  BY <1>2, <1>3 DEF MoveHints, BlockHint, InodeHint, HintMoved
<1>4. CASE w.kind = "free"
  BY <1>1, <1>2, <1>4 DEF MoveHints, BlockHint, InodeHint, HintMoved
<1>5. CASE w.kind = "take"
  BY <1>2, <1>5 DEF MoveHints, BlockHint, InodeHint, HintMoved
<1>6. CASE w.kind = "clear"
  BY <1>1, <1>2, <1>6 DEF MoveHints, BlockHint, InodeHint, HintMoved
<1>7. CASE w.kind \notin {"mark", "free", "take", "clear"}
  BY <1>1, <1>7 DEF MoveHints, BlockHint, InodeHint, HintMoved
<1> QED
  BY <1>3, <1>4, <1>5, <1>6, <1>7

\* The parts of Step, with the write that is done.
LEMMA StepFacts ==
  ASSUME TypeOK, Step
  PROVE  \E w \in Write :
           /\ w = job[1] /\ Len(job) \in Nat \ {0}
           /\ mounted /\ mounted' = (w.kind # "hints")
           /\ saved' = (IF w.kind = "hints" THEN hint ELSE saved)
           /\ WriteBlock(w) /\ WriteInode(w) /\ WriteData(w) /\ HintMoved(w) /\ Remember(w)
           /\ torn' = torn
           /\ job' \in Seq(Write) /\ Len(job') = Len(job) - 1
           /\ \A k \in 1..Len(job) - 1 : job'[k] = job[k + 1]
<1>1. job \in Seq(Write) /\ job # <<>>
  BY DEF TypeOK, Step
<1>2. /\ Tail(job) \in Seq(Write)
      /\ Head(job) = job[1] /\ job[1] \in Write
      /\ Len(job) \in Nat \ {0}
      /\ Len(Tail(job)) = Len(job) - 1
      /\ \A k \in 1..Len(job) - 1 : Tail(job)[k] = job[k + 1]
  BY <1>1, TailFacts
<1>3. /\ mounted /\ job' = Tail(job) /\ torn' = torn
      /\ mounted' = (job[1].kind # "hints")
      /\ saved' = (IF job[1].kind = "hints" THEN hint ELSE saved)
      /\ WriteBlock(job[1]) /\ WriteInode(job[1]) /\ WriteData(job[1])
      /\ MoveHints(job[1]) /\ Remember(job[1])
  BY <1>2 DEF Step
<1>4. HintMoved(job[1])
  BY <1>2, <1>3, HintsMove
<1> QED
  BY <1>2, <1>3, <1>4

\* What is pending after a write was pending before, and the other way round
\* except for the write itself.
LEMMA PendingFacts ==
  ASSUME TypeOK, Step
  PROVE  /\ \A x : Pending(x)' => Pending(x)
         /\ \A x : Pending(x) /\ x # job[1] => Pending(x)'
<1>1. /\ Len(job) \in Nat \ {0} /\ job' \in Seq(Write) /\ Len(job') = Len(job) - 1
      /\ \A k \in 1..Len(job) - 1 : job'[k] = job[k + 1]
  BY StepFacts
<1>2. DOMAIN job = 1..Len(job) /\ DOMAIN job' = 1..Len(job) - 1
  BY <1>1 DEF TypeOK
<1>3. ASSUME NEW x, Pending(x)' PROVE Pending(x)
  <2>1. PICK k \in 1..Len(job) - 1 : job[k + 1] = x
    BY <1>1, <1>2, <1>3 DEF Pending
  <2>2. k + 1 \in DOMAIN job
    BY <1>1, <1>2
  <2> QED BY <2>1, <2>2 DEF Pending
<1>4. ASSUME NEW x, Pending(x), x # job[1] PROVE Pending(x)'
  <2>1. PICK k \in 1..Len(job) : job[k] = x
    BY <1>2, <1>4 DEF Pending
  <2>2. k - 1 \in 1..Len(job) - 1 /\ (k - 1) + 1 = k
    BY <1>1, <1>4, <2>1
  <2>3. job'[k - 1] = x
    BY <1>1, <2>1, <2>2
  <2> QED BY <1>2, <2>2, <2>3 DEF Pending
<1> QED
  BY <1>3, <1>4

LEMMA StepType ==
  ASSUME TypeOK, Step PROVE TypeOK'
<1>1. PICK w \in Write :
        /\ mounted' = (w.kind # "hints")
        /\ saved' = (IF w.kind = "hints" THEN hint ELSE saved)
        /\ WriteBlock(w) /\ WriteInode(w) /\ WriteData(w) /\ HintMoved(w) /\ Remember(w)
        /\ torn' = torn
        /\ job' \in Seq(Write)
  BY StepFacts
<1>2. /\ w.kind \in {"mark", "free", "zero", "data", "link"} => w.at \in BlockId
      /\ w.kind \in {"take", "clear", "first"} => w.at \in Inode
      /\ w.kind \in {"link", "first"} => w.to \in 0..NumBlocks
  BY DEF Write
<1>3. FreeBlock \in BlockMeta /\ FreeInode \in InodeMeta
  BY BlockCountAssumption DEF FreeBlock, FreeInode, BlockMeta, InodeMeta
<1>4. block' \in [BlockId -> BlockMeta]
  <2>1. \A a \in BlockId : /\ [block[a] EXCEPT !.used = TRUE] \in BlockMeta
                           /\ \A t \in 0..NumBlocks : [block[a] EXCEPT !.next = t] \in BlockMeta
    BY DEF TypeOK, BlockMeta
  <2> QED
    BY <1>1, <1>2, <1>3, <2>1 DEF WriteBlock, TypeOK
<1>5. inode' \in [Inode -> InodeMeta]
  <2>1. \A i \in Inode : /\ [inode[i] EXCEPT !.used = TRUE] \in InodeMeta
                         /\ \A t \in 0..NumBlocks : [inode[i] EXCEPT !.first = t] \in InodeMeta
    BY DEF TypeOK, InodeMeta
  <2> QED
    BY <1>1, <1>2, <1>3, <2>1 DEF WriteInode, TypeOK
<1>6. dirty' \subseteq BlockId
  BY <1>1, <1>2 DEF WriteData, TypeOK
<1>7. hint' \in Hints
  <2>1. hint.block \in 1..NumBlocks + 1 /\ hint.inode \in 1..NumInodes + 1
    BY DEF TypeOK, Hints
  <2>2. ASSUME NEW n \in 1..NumBlocks + 1 PROVE [hint EXCEPT !.block = n] \in Hints
    BY DEF TypeOK, Hints
  <2>3. ASSUME NEW n \in 1..NumInodes + 1 PROVE [hint EXCEPT !.inode = n] \in Hints
    BY DEF TypeOK, Hints
  <2>4. CASE w.kind = "mark"
    <3>1. w.at + 1 \in 1..NumBlocks + 1
      BY <1>2, <2>4, BlockCountAssumption DEF BlockId
    <3> QED BY <1>1, <2>2, <2>4, <3>1 DEF HintMoved
  <2>5. CASE w.kind = "free"
    <3>1. (IF w.at < hint.block THEN w.at ELSE hint.block) \in 1..NumBlocks + 1
      BY <1>2, <2>1, <2>5, BlockCountAssumption DEF BlockId
    <3> QED BY <1>1, <2>2, <2>5, <3>1 DEF HintMoved
  <2>6. CASE w.kind = "take"
    <3>1. w.at + 1 \in 1..NumInodes + 1
      BY <1>2, <2>6, InodeCountAssumption DEF Inode
    <3> QED BY <1>1, <2>3, <2>6, <3>1 DEF HintMoved
  <2>7. CASE w.kind = "clear"
    <3>1. (IF w.at < hint.inode THEN w.at ELSE hint.inode) \in 1..NumInodes + 1
      BY <1>2, <2>1, <2>7, InodeCountAssumption DEF Inode
    <3> QED BY <1>1, <2>3, <2>7, <3>1 DEF HintMoved
  <2>8. CASE w.kind \notin {"mark", "free", "take", "clear"}
    BY <1>1, <2>8 DEF HintMoved, TypeOK
  <2> QED BY <2>4, <2>5, <2>6, <2>7, <2>8
<1>8. freed' \subseteq BlockId /\ lost' \subseteq BlockId
  BY <1>1, <1>2 DEF Remember, TypeOK
<1>9. saved' \in Hints /\ mounted' \in BOOLEAN /\ torn' \in BOOLEAN
  BY <1>1 DEF TypeOK
<1> QED
  BY <1>1, <1>4, <1>5, <1>6, <1>7, <1>8, <1>9 DEF TypeOK

\* What every write shares.
LEMMA StepFrame ==
  ASSUME Intact, Step
  PROVE  /\ ~torn /\ ~torn' /\ TypeOK' /\ mounted
         /\ \A x : Pending(x)' => Pending(x)
         /\ \A x : Pending(x) /\ x # job[1] => Pending(x)'
         /\ \A b : Going(b)' /\ (block[b].used => block'[b].used) => Going(b)
         /\ \A b \in BlockId : b # 0
<1>1. TypeOK
  BY DEF Intact
<1>2. ~torn /\ ~torn' /\ mounted
  BY DEF Intact, Shape, Step
<1>3. /\ \A x : Pending(x)' => Pending(x)
      /\ \A x : Pending(x) /\ x # job[1] => Pending(x)'
  BY <1>1, PendingFacts
<1>4. TypeOK'
  BY <1>1, StepType
<1>5. \A b : Going(b)' /\ (block[b].used => block'[b].used) => Going(b)
  BY <1>3 DEF Going
<1> QED
  BY <1>2, <1>3, <1>4, <1>5 DEF BlockId

\* Growing, first write: the block that was found is marked used.
LEMMA MarkKeeps ==
  ASSUME Intact, Step, NEW b \in BlockId,
         Len(job) = 3, job[1] = Mark(b), Leads(job[2], b), job[3] = Data(b),
         ~block[b].used, NoneLeadTo(b),
         \A a \in BlockId : hint.block <= a /\ a < b => block[a].used
  PROVE  Intact'
<1>1. /\ block' = [block EXCEPT ![b].used = TRUE]
      /\ inode' = inode /\ dirty' = dirty /\ saved' = saved
      /\ hint' = [hint EXCEPT !.block = b + 1]
      /\ freed' = freed \ {b} /\ lost' = lost \ {b} /\ mounted'
  <2>1. job[1].kind = "mark" /\ job[1].at = b
    BY DEF Mark
  <2> QED
    BY <2>1, StepFacts DEF Intact, WriteBlock, WriteInode, WriteData, HintMoved, Remember
<1>1a. Len(job') = 2 /\ job'[1] = job[2] /\ job'[2] = job[3]
  BY StepFacts DEF Intact
<1>2. block \in [BlockId -> BlockMeta] /\ block[b].next = 0
  BY DEF Intact, TypeOK, Blank
<1>3. /\ \A a \in BlockId : block'[a].next = block[a].next
      /\ \A a \in BlockId : a # b => block'[a].used = block[a].used
      /\ block'[b].used
  BY <1>1, <1>2 DEF BlockMeta
<1>4. Shape'
  <2>1. Leads(job[1], b)'
    <3>1. CASE \E a \in BlockId : job[2] = Link(a, b) /\ block[a].used /\ block[a].next = 0
      <4>1. PICK a \in BlockId : job[2] = Link(a, b) /\ block[a].used /\ block[a].next = 0
        BY <3>1
      <4>2. job'[1] = Link(a, b) /\ block'[a].used /\ block'[a].next = 0
        BY <1>1a, <1>3, <4>1
      <4> QED BY <4>2 DEF Leads
    <3>2. CASE \E i \in Inode : job[2] = First(i, b) /\ inode[i].used /\ inode[i].first = 0
      BY <1>1, <1>1a, <3>2 DEF Leads
    <3> QED BY <3>1, <3>2 DEF Leads
  <2>2. NoneLeadTo(b)'
    BY <1>1, <1>2, <1>3, StepFrame DEF NoneLeadTo
  <2>3. GrowShape(b)'
    BY <1>1a, <1>3, <2>1, <2>2 DEF GrowShape
  <2> QED
    BY <1>1, <2>3, StepFrame DEF Shape
<1>5. Blank'
  BY <1>1, <1>3 DEF Intact, Blank
<1>6. PointersUnshared'
  BY <1>1, <1>2, <1>3 DEF Intact, PointersUnshared
<1>7. Covered'
  <2>1. \A y : block[y].used => block'[y].used
    BY <1>1, <1>2
  <2>2. \A a \in BlockId : Free(a) # job[1] /\ Link(a, 0) # job[1]
    BY DEF Free, Link, Mark
  <2>3. \A i \in Inode : Clear(i) # job[1]
    BY DEF Clear, Mark
  <2> QED
    BY <1>1, <1>2, <1>3, <2>1, <2>2, <2>3, StepFrame DEF Intact, Covered
<1>8. DirtyPending'
  <2>1. \A x \in BlockId : Zero(x) # job[1]
    BY DEF Zero, Mark
  <2> QED
    BY <1>1, <1>3, <2>1, StepFrame DEF Intact, DirtyPending, TypeOK
<1>9. HintsKnown'
  <2>1. hint'.block = b + 1
    BY <1>1 DEF Intact, TypeOK, Hints
  <2>2. ASSUME NEW a \in BlockId, a < b + 1, ~block'[a].used PROVE a \in lost'
    <3>1. a # b /\ a < b /\ ~block[a].used
      BY <1>3, <2>2 DEF BlockId
    <3>2. a < hint.block
      BY <3>1 DEF Intact, TypeOK, Hints, BlockId
    <3> QED
      BY <1>1, <3>1, <3>2, StepFrame DEF Intact, HintsKnown, OnlyLostBelowHint
  <2>3. ASSUME NEW a \in BlockId, a < saved.block, ~block'[a].used PROVE a \in lost' \cup freed'
    BY <1>1, <1>3, <2>3 DEF Intact, HintsKnown
  <2> QED
    BY <1>1, <2>1, <2>2, <2>3 DEF HintsKnown, OnlyLostBelowHint
<1> QED
  BY <1>4, <1>5, <1>6, <1>7, <1>8, <1>9, StepFrame DEF Intact

\* Growing, second write, behind the last block of a file.
LEMMA LinkKeeps ==
  ASSUME Intact, Step, NEW b \in BlockId, NEW a \in BlockId,
         Len(job) = 2, job[1] = Link(a, b), block[a].used, block[a].next = 0,
         job[2] = Data(b), block[b].used, NoneLeadTo(b)
  PROVE  Intact'
<1>1. /\ block' = [block EXCEPT ![a].next = b]
      /\ inode' = inode /\ dirty' = dirty /\ saved' = saved /\ hint' = hint
      /\ freed' = freed /\ lost' = lost /\ mounted'
  <2>1. PICK w \in Write :
          /\ w = job[1] /\ mounted' = (w.kind # "hints")
          /\ saved' = (IF w.kind = "hints" THEN hint ELSE saved)
          /\ WriteBlock(w) /\ WriteInode(w) /\ WriteData(w) /\ HintMoved(w) /\ Remember(w)
    BY StepFacts DEF Intact
  <2>2. w.kind = "link" /\ w.at = a /\ w.to = b
    BY <2>1 DEF Link
  <2> QED
    BY <2>1, <2>2 DEF WriteBlock, WriteInode, WriteData, HintMoved, Remember
<1>2. Len(job') = 1 /\ job'[1] = job[2]
  BY StepFacts DEF Intact
<1>3. /\ \A d \in BlockId : block'[d].used = block[d].used
      /\ \A d \in BlockId : d # a => block'[d].next = block[d].next
      /\ block'[a].next = b
  BY <1>1 DEF Intact, TypeOK, BlockMeta
<1>4. Shape'
  <2>1. GrowShape(b)'
    BY <1>2, <1>3 DEF GrowShape
  <2> QED
    BY <1>1, <2>1, StepFrame DEF Shape
<1>5. Blank'
  BY <1>1, <1>3 DEF Intact, Blank
<1>6. PointersUnshared'
  BY <1>1, <1>3 DEF Intact, PointersUnshared, NoneLeadTo
<1>7. Covered'
  <2>1. \A y \in BlockId : Going(y)' => Going(y)
    BY <1>3, StepFrame
  <2>2. ~Pending(Free(b))'
    <3>1. Data(b) # Free(b)
      BY DEF Data, Free
    <3> QED BY <1>2, <3>1, StepFacts DEF Pending, Intact
  <2>3. \A d \in BlockId : Free(d) # job[1] /\ Link(d, 0) # job[1]
    BY StepFrame DEF Free, Link
  <2>4. \A i \in Inode : Clear(i) # job[1]
    BY DEF Clear, Link
  <2>5. ~Going(b)'
    BY <1>3, <2>2 DEF Going
  <2>6. ASSUME NEW d \in BlockId, block'[d].used, block'[d].next # 0, Going(block[d].next)', d # a
        PROVE  Pending(Free(d))' \/ Pending(Link(d, 0))'
    <3>1. block[d].next \in BlockId /\ block[d].used /\ block[d].next # 0
      BY <1>3, <2>6 DEF Intact, TypeOK, BlockMeta, BlockId
    <3>2. PICK y \in BlockId : y = block[d].next
      BY <3>1
    <3>3. Going(y)'
      BY <1>3, <2>6, <3>2 DEF Going
    <3> QED BY <2>1, <2>3, <3>1, <3>2, <3>3, StepFrame DEF Intact, Covered
  <2>7. ASSUME NEW i \in Inode, inode[i].used, inode[i].first # 0, Going(inode[i].first)'
        PROVE  Pending(Clear(i))'
    <3>1. PICK y \in BlockId : y = inode[i].first
      BY <2>7 DEF Intact, TypeOK, InodeMeta, BlockId
    <3>2. Going(y)'
      BY <1>1, <2>7, <3>1 DEF Going
    <3> QED BY <2>1, <2>4, <2>7, <3>1, <3>2, StepFrame DEF Intact, Covered
  <2> QED
    BY <1>1, <1>3, <2>5, <2>6, <2>7 DEF Covered, Going
<1>8. DirtyPending'
  <2>1. \A x \in BlockId : Zero(x) # job[1]
    BY DEF Zero, Link
  <2> QED
    BY <1>1, <1>3, <2>1, StepFrame DEF Intact, DirtyPending, TypeOK
<1>9. HintsKnown'
  BY <1>1, <1>3, StepFrame DEF Intact, HintsKnown, OnlyLostBelowHint
<1> QED
  BY <1>4, <1>5, <1>6, <1>7, <1>8, <1>9, StepFrame DEF Intact

\* Growing, second write, of an empty file.
LEMMA FirstKeeps ==
  ASSUME Intact, Step, NEW b \in BlockId, NEW i \in Inode,
         Len(job) = 2, job[1] = First(i, b), inode[i].used, inode[i].first = 0,
         job[2] = Data(b), block[b].used, NoneLeadTo(b)
  PROVE  Intact'
<1>1. /\ inode' = [inode EXCEPT ![i].first = b]
      /\ block' = block /\ dirty' = dirty /\ saved' = saved /\ hint' = hint
      /\ freed' = freed /\ lost' = lost /\ mounted'
  <2>1. PICK w \in Write :
          /\ w = job[1] /\ mounted' = (w.kind # "hints")
          /\ saved' = (IF w.kind = "hints" THEN hint ELSE saved)
          /\ WriteBlock(w) /\ WriteInode(w) /\ WriteData(w) /\ HintMoved(w) /\ Remember(w)
    BY StepFacts DEF Intact
  <2>2. w.kind = "first" /\ w.at = i /\ w.to = b
    BY <2>1 DEF First
  <2> QED
    BY <2>1, <2>2 DEF WriteBlock, WriteInode, WriteData, HintMoved, Remember
<1>2. Len(job') = 1 /\ job'[1] = job[2]
  BY StepFacts DEF Intact
<1>3. /\ \A j \in Inode : inode'[j].used = inode[j].used
      /\ \A j \in Inode : j # i => inode'[j].first = inode[j].first
      /\ inode'[i].first = b
  BY <1>1 DEF Intact, TypeOK, InodeMeta
<1>4. Shape'
  <2>1. GrowShape(b)'
    BY <1>1, <1>2 DEF GrowShape
  <2> QED
    BY <1>1, <2>1, StepFrame DEF Shape
<1>5. Blank'
  BY <1>1, <1>3 DEF Intact, Blank
<1>6. PointersUnshared'
  BY <1>1, <1>3 DEF Intact, PointersUnshared, NoneLeadTo
<1>7. Covered'
  <2>1. \A y \in BlockId : Going(y)' => Going(y)
    BY <1>1, StepFrame
  <2>2. ~Pending(Free(b))'
    <3>1. Data(b) # Free(b)
      BY DEF Data, Free
    <3> QED BY <1>2, <3>1, StepFacts DEF Pending, Intact
  <2>3. \A d \in BlockId : Free(d) # job[1] /\ Link(d, 0) # job[1]
    BY DEF Free, Link, First
  <2>4. \A j \in Inode : Clear(j) # job[1]
    BY DEF Clear, First
  <2>5. ~Going(b)'
    BY <1>1, <2>2 DEF Going
  <2>6. ASSUME NEW d \in BlockId, block[d].used, block[d].next # 0, Going(block[d].next)'
        PROVE  Pending(Free(d))' \/ Pending(Link(d, 0))'
    <3>1. PICK y \in BlockId : y = block[d].next
      BY <2>6 DEF Intact, TypeOK, BlockMeta, BlockId
    <3>2. Going(y)'
      BY <1>1, <2>6, <3>1 DEF Going
    <3> QED BY <2>1, <2>3, <2>6, <3>1, <3>2, StepFrame DEF Intact, Covered
  <2>7. ASSUME NEW j \in Inode, inode'[j].used, inode'[j].first # 0, Going(inode[j].first)', j # i
        PROVE  Pending(Clear(j))'
    <3>1. inode[j].used /\ inode[j].first # 0
      BY <1>3, <2>7
    <3>2. PICK y \in BlockId : y = inode[j].first
      BY <3>1 DEF Intact, TypeOK, InodeMeta, BlockId
    <3>3. Going(y)'
      BY <1>3, <2>7, <3>2 DEF Going
    <3> QED BY <2>1, <2>4, <3>1, <3>2, <3>3, StepFrame DEF Intact, Covered
  <2> QED
    BY <1>1, <1>3, <2>5, <2>6, <2>7 DEF Covered, Going
<1>8. DirtyPending'
  <2>1. \A x \in BlockId : Zero(x) # job[1]
    BY DEF Zero, First
  <2> QED
    BY <1>1, <2>1, StepFrame DEF Intact, DirtyPending, TypeOK
<1>9. HintsKnown'
  BY <1>1, StepFrame DEF Intact, HintsKnown, OnlyLostBelowHint
<1> QED
  BY <1>4, <1>5, <1>6, <1>7, <1>8, <1>9, StepFrame DEF Intact

\* Covered is kept by a write that adds no pointer and frees nothing but what
\* was about to be freed, if what it removes from the job leads nowhere now.
LEMMA CoveredKept ==
  ASSUME Intact, Step,
         \A y \in BlockId : Going(y)' => Going(y),
         \A d \in BlockId : block'[d].used /\ block'[d].next # 0 =>
           /\ block[d].used /\ block'[d].next = block[d].next
           /\ Free(d) # job[1] /\ Link(d, 0) # job[1],
         \A j \in Inode : inode'[j].used /\ inode'[j].first # 0 =>
           /\ inode[j].used /\ inode'[j].first = inode[j].first
           /\ Clear(j) # job[1]
  PROVE  Covered'
<1>1. ASSUME NEW d \in BlockId, block'[d].used, block'[d].next # 0, Going(block[d].next)'
      PROVE  Pending(Free(d))' \/ Pending(Link(d, 0))'
  <2>1. PICK y \in BlockId : y = block[d].next /\ y # 0
    BY <1>1 DEF Intact, TypeOK, BlockMeta, BlockId
  <2>2. Going(y)'
    BY <1>1, <2>1 DEF Going
  <2> QED BY <1>1, <2>1, <2>2, StepFrame DEF Intact, Covered
<1>2. ASSUME NEW j \in Inode, inode'[j].used, inode'[j].first # 0, Going(inode[j].first)'
      PROVE  Pending(Clear(j))'
  <2>1. PICK y \in BlockId : y = inode[j].first /\ y # 0
    BY <1>2 DEF Intact, TypeOK, InodeMeta, BlockId
  <2>2. Going(y)'
    BY <1>2, <2>1 DEF Going
  <2> QED BY <1>2, <2>1, <2>2, StepFrame DEF Intact, Covered
<1> QED
  BY <1>1, <1>2 DEF Covered, Going

\* The rest of a job that wipes still is one.
LEMMA WipeShapeKept ==
  ASSUME Intact, Step, WipeShape PROVE WipeShape'
<1>1. /\ Len(job) \in Nat \ {0} /\ Len(job') = Len(job) - 1
      /\ \A k \in 1..Len(job) - 1 : job'[k] = job[k + 1]
  BY StepFacts DEF Intact
<1> SUFFICES ASSUME NEW k \in 1..Len(job) - 1
             PROVE  \/ /\ k + 1 \in 1..Len(job) - 1
                       /\ \E b \in BlockId : job'[k] = Free(b) /\ job'[k + 1] = Zero(b)
                    \/ job'[k].kind \in {"zero", "clear"}
                    \/ job'[k].kind = "link" /\ job'[k].to = 0
  BY <1>1 DEF WipeShape
<1>2. k + 1 \in 1..Len(job) /\ job'[k] = job[k + 1]
  BY <1>1
<1>3. CASE /\ (k + 1) + 1 \in 1..Len(job)
           /\ \E b \in BlockId : job[k + 1] = Free(b) /\ job[(k + 1) + 1] = Zero(b)
  <2>1. k + 1 \in 1..Len(job) - 1 /\ job'[k + 1] = job[(k + 1) + 1]
    BY <1>1, <1>3
  <2> QED BY <1>2, <1>3, <2>1
<1>4. CASE job[k + 1].kind \in {"zero", "clear"} \/ (job[k + 1].kind = "link" /\ job[k + 1].to = 0)
  BY <1>2, <1>4
<1> QED
  BY <1>2, <1>3, <1>4 DEF WipeShape

\* Growing, last write: the data.
LEMMA DataKeeps ==
  ASSUME Intact, Step, NEW b \in BlockId,
         Len(job) = 1, job[1] = Data(b), block[b].used
  PROVE  Intact'
<1>1. /\ block' = block /\ inode' = inode /\ dirty' = dirty \cup {b}
      /\ saved' = saved /\ hint' = hint /\ freed' = freed /\ lost' = lost /\ mounted'
  <2>1. PICK w \in Write :
          /\ w = job[1] /\ mounted' = (w.kind # "hints")
          /\ saved' = (IF w.kind = "hints" THEN hint ELSE saved)
          /\ WriteBlock(w) /\ WriteInode(w) /\ WriteData(w) /\ HintMoved(w) /\ Remember(w)
    BY StepFacts DEF Intact
  <2>2. w.kind = "data" /\ w.at = b
    BY <2>1 DEF Data
  <2> QED
    BY <2>1, <2>2 DEF WriteBlock, WriteInode, WriteData, HintMoved, Remember
<1>2. WipeShape'
  BY StepFacts DEF Intact, WipeShape
<1>3. Shape'
  BY <1>1, <1>2, StepFrame DEF Shape
<1>4. Blank' /\ PointersUnshared' /\ HintsKnown'
  BY <1>1, StepFrame DEF Intact, Blank, PointersUnshared, HintsKnown, OnlyLostBelowHint
<1>5. Covered'
  <2>1. \A y \in BlockId : Going(y)' => Going(y)
    BY <1>1, StepFrame
  <2> QED
    BY <1>1, <2>1, CoveredKept DEF Free, Link, Clear, Data
<1>6. DirtyPending'
  <2>1. \A x \in BlockId : Zero(x) # job[1]
    BY DEF Zero, Data
  <2> QED
    BY <1>1, <2>1, StepFrame DEF Intact, DirtyPending, TypeOK
<1> QED
  BY <1>3, <1>4, <1>5, <1>6, StepFrame DEF Intact

\* Wiping: a block is freed.
LEMMA FreeKeeps ==
  ASSUME Intact, Step, WipeShape, NEW b \in BlockId,
         Len(job) > 1, job[1] = Free(b), job[2] = Zero(b)
  PROVE  Intact'
<1>1. /\ block' = [block EXCEPT ![b] = FreeBlock]
      /\ inode' = inode /\ dirty' = dirty /\ saved' = saved
      /\ hint' = [hint EXCEPT !.block = IF b < @ THEN b ELSE @]
      /\ freed' = freed \cup {b} /\ lost' = lost /\ mounted'
  <2>1. PICK w \in Write :
          /\ w = job[1] /\ mounted' = (w.kind # "hints")
          /\ saved' = (IF w.kind = "hints" THEN hint ELSE saved)
          /\ WriteBlock(w) /\ WriteInode(w) /\ WriteData(w) /\ HintMoved(w) /\ Remember(w)
    BY StepFacts DEF Intact
  <2>2. w.kind = "free" /\ w.at = b
    BY <2>1 DEF Free
  <2> QED
    BY <2>1, <2>2 DEF WriteBlock, WriteInode, WriteData, HintMoved, Remember
<1>2. /\ \A d \in BlockId : d # b => block'[d] = block[d]
      /\ ~block'[b].used /\ block'[b].next = 0
  BY <1>1 DEF Intact, TypeOK, FreeBlock
<1>3. Shape'
  BY <1>1, WipeShapeKept, StepFrame DEF Shape
<1>4. Blank'
  BY <1>1, <1>2 DEF Intact, Blank
<1>5. PointersUnshared'
  BY <1>1, <1>2 DEF Intact, PointersUnshared
<1>6. Pending(Free(b))
  BY StepFacts DEF Intact, Pending, TypeOK
<1>7. \A y \in BlockId : Going(y)' => Going(y)
  BY <1>2, <1>6, StepFrame DEF Going
<1>8. Covered'
  BY <1>1, <1>2, <1>7, CoveredKept DEF Free, Link, Clear
<1>9. DirtyPending'
  <2>1. Pending(Zero(b))'
    <3>1. 1 \in DOMAIN job' /\ job'[1] = Zero(b)
      BY StepFacts DEF Intact
    <3> QED BY <3>1 DEF Pending
  <2>2. \A x \in BlockId : Zero(x) # job[1]
    BY DEF Zero, Free
  <2>3. ASSUME NEW x \in dirty PROVE block'[x].used \/ Pending(Zero(x))'
    BY <1>2, <2>1, <2>2, StepFrame DEF Intact, DirtyPending, TypeOK
  <2> QED
    BY <1>1, <2>3 DEF DirtyPending
<1>10. HintsKnown'
  <2>1. hint'.block <= b /\ hint'.block <= hint.block
    BY <1>1 DEF Intact, TypeOK, Hints, BlockId
  <2>2. ASSUME NEW a \in BlockId, a < hint'.block, ~block'[a].used PROVE a \in lost'
    <3>1. a # b /\ a < hint.block
      BY <2>1, <2>2, StepFrame DEF BlockId, Intact, TypeOK, Hints
    <3> QED
      BY <1>1, <1>2, <2>2, <3>1, StepFrame DEF Intact, HintsKnown, OnlyLostBelowHint
  <2>3. ASSUME NEW a \in BlockId, a < saved.block, ~block'[a].used PROVE a \in lost' \cup freed'
    BY <1>1, <1>2, <2>3 DEF Intact, HintsKnown
  <2> QED
    BY <1>1, <2>2, <2>3 DEF HintsKnown, OnlyLostBelowHint
<1> QED
  BY <1>3, <1>4, <1>5, <1>8, <1>9, <1>10, StepFrame DEF Intact

\* Wiping: the data of a block is zeroed.
LEMMA ZeroKeeps ==
  ASSUME Intact, Step, WipeShape, job[1].kind = "zero"
  PROVE  Intact'
<1>1. /\ block' = block /\ inode' = inode /\ dirty' = dirty \ {job[1].at}
      /\ saved' = saved /\ hint' = hint /\ freed' = freed /\ lost' = lost /\ mounted'
  <2>1. PICK w \in Write :
          /\ w = job[1] /\ mounted' = (w.kind # "hints")
          /\ saved' = (IF w.kind = "hints" THEN hint ELSE saved)
          /\ WriteBlock(w) /\ WriteInode(w) /\ WriteData(w) /\ HintMoved(w) /\ Remember(w)
    BY StepFacts DEF Intact
  <2>2. w.kind = "zero" /\ w.at = job[1].at
    BY <2>1
  <2> QED
    BY <2>1, <2>2 DEF WriteBlock, WriteInode, WriteData, HintMoved, Remember
<1>2. Shape'
  BY <1>1, WipeShapeKept, StepFrame DEF Shape
<1>3. Blank' /\ PointersUnshared' /\ HintsKnown'
  BY <1>1, StepFrame DEF Intact, Blank, PointersUnshared, HintsKnown, OnlyLostBelowHint
<1>4. Covered'
  <2>1. \A y \in BlockId : Going(y)' => Going(y)
    BY <1>1, StepFrame
  <2> QED
    BY <1>1, <2>1, CoveredKept DEF Free, Link, Clear
<1>5. DirtyPending'
  <2>1. \A x \in dirty' : x \in dirty /\ Zero(x) # job[1]
    BY <1>1 DEF Zero
  <2> QED
    BY <1>1, <2>1, StepFrame DEF Intact, DirtyPending
<1> QED
  BY <1>2, <1>3, <1>4, <1>5, StepFrame DEF Intact

\* Wiping, last write of an unlink: the inode is cleared.
LEMMA ClearKeeps ==
  ASSUME Intact, Step, WipeShape, NEW i \in Inode, job[1].kind = "clear", job[1].at = i
  PROVE  Intact'
<1>1. /\ inode' = [inode EXCEPT ![i] = FreeInode]
      /\ block' = block /\ dirty' = dirty /\ saved' = saved /\ hint'.block = hint.block
      /\ freed' = freed /\ lost' = lost /\ mounted'
  <2>1. PICK w \in Write :
          /\ w = job[1] /\ mounted' = (w.kind # "hints")
          /\ saved' = (IF w.kind = "hints" THEN hint ELSE saved)
          /\ WriteBlock(w) /\ WriteInode(w) /\ WriteData(w) /\ HintMoved(w) /\ Remember(w)
    BY StepFacts DEF Intact
  <2>2. w.kind = "clear" /\ w.at = i
    BY <2>1
  <2>3. hint'.block = hint.block
    BY <2>1, <2>2 DEF HintMoved, Intact, TypeOK, Hints
  <2> QED
    BY <2>1, <2>2, <2>3 DEF WriteBlock, WriteInode, WriteData, Remember
<1>2. /\ \A j \in Inode : j # i => inode'[j] = inode[j]
      /\ ~inode'[i].used /\ inode'[i].first = 0
  BY <1>1 DEF Intact, TypeOK, FreeInode
<1>3. Shape'
  BY <1>1, WipeShapeKept, StepFrame DEF Shape
<1>4. Blank' /\ PointersUnshared' /\ HintsKnown'
  BY <1>1, <1>2, StepFrame
     DEF Intact, Blank, PointersUnshared, HintsKnown, OnlyLostBelowHint
<1>5. Covered'
  <2>1. \A y \in BlockId : Going(y)' => Going(y)
    BY <1>1, StepFrame
  <2> QED
    BY <1>1, <1>2, <2>1, CoveredKept DEF Free, Link, Clear
<1>6. DirtyPending'
  <2>1. \A x \in dirty : Zero(x) # job[1]
    BY DEF Zero
  <2> QED
    BY <1>1, <2>1, StepFrame DEF Intact, DirtyPending
<1> QED
  BY <1>3, <1>4, <1>5, <1>6, StepFrame DEF Intact

\* Wiping, last write of a shrink: the chain is cut.
LEMMA CutKeeps ==
  ASSUME Intact, Step, WipeShape, NEW a \in BlockId,
         job[1].kind = "link", job[1].at = a, job[1].to = 0
  PROVE  Intact'
<1>1. /\ block' = [block EXCEPT ![a].next = 0]
      /\ inode' = inode /\ dirty' = dirty /\ saved' = saved /\ hint' = hint
      /\ freed' = freed /\ lost' = lost /\ mounted'
  <2>1. PICK w \in Write :
          /\ w = job[1] /\ mounted' = (w.kind # "hints")
          /\ saved' = (IF w.kind = "hints" THEN hint ELSE saved)
          /\ WriteBlock(w) /\ WriteInode(w) /\ WriteData(w) /\ HintMoved(w) /\ Remember(w)
    BY StepFacts DEF Intact
  <2>2. w.kind = "link" /\ w.at = a /\ w.to = 0
    BY <2>1
  <2> QED
    BY <2>1, <2>2 DEF WriteBlock, WriteInode, WriteData, HintMoved, Remember
<1>2. /\ \A d \in BlockId : block'[d].used = block[d].used
      /\ \A d \in BlockId : d # a => block'[d].next = block[d].next
      /\ block'[a].next = 0
  BY <1>1 DEF Intact, TypeOK, BlockMeta
<1>3. Shape'
  BY <1>1, WipeShapeKept, StepFrame DEF Shape
<1>4. Blank' /\ PointersUnshared'
  BY <1>1, <1>2 DEF Intact, Blank, PointersUnshared
<1>5. HintsKnown'
  BY <1>1, <1>2, StepFrame DEF Intact, HintsKnown, OnlyLostBelowHint
<1>6. Covered'
  <2>1. \A y \in BlockId : Going(y)' => Going(y)
    BY <1>2, StepFrame
  <2> QED
    BY <1>1, <1>2, <2>1, CoveredKept DEF Free, Link, Clear
<1>7. DirtyPending'
  <2>1. \A x \in dirty : Zero(x) # job[1]
    BY DEF Zero
  <2> QED
    BY <1>1, <1>2, <2>1, StepFrame DEF Intact, DirtyPending, TypeOK
<1> QED
  BY <1>3, <1>4, <1>5, <1>6, <1>7, StepFrame DEF Intact

\* The only write of a call: an inode is taken.
LEMMA TakeKeeps ==
  ASSUME Intact, Step, Len(job) = 1, NEW i \in Inode, job[1].kind = "take", job[1].at = i
  PROVE  Intact'
<1>1. /\ inode' = [inode EXCEPT ![i].used = TRUE]
      /\ block' = block /\ dirty' = dirty /\ saved' = saved /\ hint'.block = hint.block
      /\ freed' = freed /\ lost' = lost /\ mounted'
  <2>1. PICK w \in Write :
          /\ w = job[1] /\ mounted' = (w.kind # "hints")
          /\ saved' = (IF w.kind = "hints" THEN hint ELSE saved)
          /\ WriteBlock(w) /\ WriteInode(w) /\ WriteData(w) /\ HintMoved(w) /\ Remember(w)
    BY StepFacts DEF Intact
  <2>2. w.kind = "take" /\ w.at = i
    BY <2>1
  <2>3. hint'.block = hint.block
    BY <2>1, <2>2 DEF HintMoved, Intact, TypeOK, Hints
  <2> QED
    BY <2>1, <2>2, <2>3 DEF WriteBlock, WriteInode, WriteData, Remember
<1>2. /\ \A j \in Inode : inode'[j].first = inode[j].first
      /\ \A j \in Inode : inode'[j].first # 0 => inode'[j].used = inode[j].used
      /\ \A j \in Inode : inode[j].used => inode'[j].used
  BY <1>1 DEF Intact, TypeOK, InodeMeta, Blank
<1>3. WipeShape'
  BY StepFacts DEF Intact, WipeShape
<1>4. Shape'
  BY <1>1, <1>3, StepFrame DEF Shape
<1>5. Blank' /\ PointersUnshared' /\ HintsKnown'
  BY <1>1, <1>2, StepFrame
     DEF Intact, Blank, PointersUnshared, HintsKnown, OnlyLostBelowHint
<1>6. Covered'
  <2>1. \A y \in BlockId : Going(y)' => Going(y)
    BY <1>1, StepFrame
  <2>2. \A d \in BlockId : Free(d) # job[1] /\ Link(d, 0) # job[1]
    BY DEF Free, Link
  <2>3. \A j \in Inode : Clear(j) # job[1]
    BY DEF Clear
  <2>4. \A d \in BlockId : block'[d].used /\ block'[d].next # 0 =>
          /\ block[d].used /\ block'[d].next = block[d].next
          /\ Free(d) # job[1] /\ Link(d, 0) # job[1]
    BY <1>1, <2>2
  <2>5. \A j \in Inode : inode'[j].used /\ inode'[j].first # 0 =>
          /\ inode[j].used /\ inode'[j].first = inode[j].first
          /\ Clear(j) # job[1]
    BY <1>2, <2>3
  <2> QED
    BY <2>1, <2>4, <2>5, CoveredKept
<1>7. DirtyPending'
  <2>1. \A x \in dirty : Zero(x) # job[1]
    BY DEF Zero
  <2> QED
    BY <1>1, <2>1, StepFrame DEF Intact, DirtyPending
<1> QED
  BY <1>4, <1>5, <1>6, <1>7, StepFrame DEF Intact

\* The only write of a call: a file is truncated to nothing.
LEMMA DropKeeps ==
  ASSUME Intact, Step, Len(job) = 1, NEW i \in Inode,
         job[1].kind = "first", job[1].at = i, job[1].to = 0
  PROVE  Intact'
<1>1. /\ inode' = [inode EXCEPT ![i].first = 0]
      /\ block' = block /\ dirty' = dirty /\ saved' = saved /\ hint' = hint
      /\ freed' = freed /\ lost' = lost /\ mounted'
  <2>1. PICK w \in Write :
          /\ w = job[1] /\ mounted' = (w.kind # "hints")
          /\ saved' = (IF w.kind = "hints" THEN hint ELSE saved)
          /\ WriteBlock(w) /\ WriteInode(w) /\ WriteData(w) /\ HintMoved(w) /\ Remember(w)
    BY StepFacts DEF Intact
  <2>2. w.kind = "first" /\ w.at = i /\ w.to = 0
    BY <2>1
  <2> QED
    BY <2>1, <2>2 DEF WriteBlock, WriteInode, WriteData, HintMoved, Remember
<1>2. /\ \A j \in Inode : inode'[j].used = inode[j].used
      /\ \A j \in Inode : j # i => inode'[j].first = inode[j].first
      /\ inode'[i].first = 0
  BY <1>1 DEF Intact, TypeOK, InodeMeta
<1>3. WipeShape'
  BY StepFacts DEF Intact, WipeShape
<1>4. Shape'
  BY <1>1, <1>3, StepFrame DEF Shape
<1>5. Blank' /\ PointersUnshared' /\ HintsKnown'
  BY <1>1, <1>2, StepFrame
     DEF Intact, Blank, PointersUnshared, HintsKnown, OnlyLostBelowHint
<1>6. Covered'
  <2>1. \A y \in BlockId : Going(y)' => Going(y)
    BY <1>1, StepFrame
  <2> QED
    BY <1>1, <1>2, <2>1, CoveredKept DEF Free, Link, Clear
<1>7. DirtyPending'
  <2>1. \A x \in dirty : Zero(x) # job[1]
    BY DEF Zero
  <2> QED
    BY <1>1, <2>1, StepFrame DEF Intact, DirtyPending
<1> QED
  BY <1>4, <1>5, <1>6, <1>7, StepFrame DEF Intact

\* The only write of a call: the hints are saved, and the container is closed.
LEMMA SaveKeeps ==
  ASSUME Intact, Step, Len(job) = 1, job[1].kind = "hints"
  PROVE  Intact'
<1>1. /\ block' = block /\ inode' = inode /\ dirty' = dirty
      /\ saved' = hint /\ hint' = hint /\ freed' = {} /\ lost' = lost /\ ~mounted'
  <2>1. PICK w \in Write :
          /\ w = job[1] /\ mounted' = (w.kind # "hints")
          /\ saved' = (IF w.kind = "hints" THEN hint ELSE saved)
          /\ WriteBlock(w) /\ WriteInode(w) /\ WriteData(w) /\ HintMoved(w) /\ Remember(w)
    BY StepFacts DEF Intact
  <2>2. w.kind = "hints"
    BY <2>1
  <2> QED
    BY <2>1, <2>2 DEF WriteBlock, WriteInode, WriteData, HintMoved, Remember
<1>2. job' = <<>>
  BY StepFacts DEF Intact
<1>3. Shape'
  BY <1>1, <1>2, StepFrame DEF Shape, WipeShape
<1>4. Blank' /\ PointersUnshared' /\ HintsKnown'
  BY <1>1, StepFrame DEF Intact, Blank, PointersUnshared, HintsKnown, OnlyLostBelowHint
<1>5. Covered'
  <2>1. \A y \in BlockId : Going(y)' => Going(y)
    BY <1>1, StepFrame
  <2> QED
    BY <1>1, <2>1, CoveredKept DEF Free, Link, Clear
<1>6. DirtyPending'
  <2>1. \A x \in dirty : Zero(x) # job[1]
    BY DEF Zero
  <2> QED
    BY <1>1, <2>1, StepFrame DEF Intact, DirtyPending
<1> QED
  BY <1>3, <1>4, <1>5, <1>6, StepFrame DEF Intact

\* Every write keeps the container intact: the shape of the job says which
\* writes there are.
LEMMA StepKeeps ==
  ASSUME Intact, Step PROVE Intact'
<1>1. /\ job[1] \in Write /\ Len(job) \in Nat \ {0}
  BY StepFacts DEF Intact
<1>2. CASE WipeShape
  <2>1. \/ /\ 2 \in 1..Len(job)
           /\ \E b \in BlockId : job[1] = Free(b) /\ job[2] = Zero(b)
        \/ job[1].kind \in {"zero", "clear"}
        \/ job[1].kind = "link" /\ job[1].to = 0
    BY <1>1, <1>2 DEF WipeShape
  <2>2. CASE 2 \in 1..Len(job) /\ \E b \in BlockId : job[1] = Free(b) /\ job[2] = Zero(b)
    BY <1>1, <1>2, <2>2, FreeKeeps
  <2>3. CASE job[1].kind = "zero"
    BY <1>2, <2>3, ZeroKeeps
  <2>4. CASE job[1].kind = "clear"
    BY <1>1, <1>2, <2>4, ClearKeeps DEF Write
  <2>5. CASE job[1].kind = "link" /\ job[1].to = 0
    BY <1>1, <1>2, <2>5, CutKeeps DEF Write
  <2> QED BY <2>1, <2>2, <2>3, <2>4, <2>5
<1>3. CASE SingleShape
  <2>1. CASE job[1].kind = "take"
    BY <1>1, <1>3, <2>1, TakeKeeps DEF Write, SingleShape
  <2>2. CASE job[1].kind = "hints"
    BY <1>3, <2>2, SaveKeeps DEF SingleShape
  <2>3. CASE job[1].kind = "first" /\ job[1].to = 0
    BY <1>1, <1>3, <2>3, DropKeeps DEF Write, SingleShape
  <2> QED BY <1>3, <2>1, <2>2, <2>3 DEF SingleShape
<1>4. CASE \E b \in BlockId : GrowShape(b)
  <2>1. PICK b \in BlockId : GrowShape(b)
    BY <1>4
  <2>2. CASE Len(job) = 3
    BY <2>1, <2>2, MarkKeeps DEF GrowShape
  <2>3. CASE Len(job) = 2
    <3>1. Leads(job[1], b) /\ job[2] = Data(b) /\ block[b].used /\ NoneLeadTo(b)
      BY <2>1, <2>3 DEF GrowShape
    <3> QED BY <2>3, <3>1, LinkKeeps, FirstKeeps DEF Leads
  <2>4. CASE Len(job) = 1
    BY <2>1, <2>4, DataKeeps DEF GrowShape
  <2> QED BY <2>1, <2>2, <2>3, <2>4 DEF GrowShape
<1> QED
  BY <1>2, <1>3, <1>4 DEF Intact, Shape

-----------------------------------------------------------------------------
(***************************************************************************)
(* Crashes, and the invariant.                                             *)
(***************************************************************************)

\* A crash drops what is pending: unless the call was wiping, that covered
\* nothing.
LEMMA CrashKeeps ==
  ASSUME Intact, Crash PROVE Intact'
<1>1. /\ block' = block /\ inode' = inode /\ dirty' = dirty /\ saved' = saved /\ hint' = hint
      /\ ~mounted' /\ job' = <<>> /\ freed' = {} /\ lost' = lost \cup freed
      /\ (torn' <=> torn \/ Wiping)
  BY DEF Crash
<1>2. TypeOK'
  <2>1. <<>> \in Seq(Write)
    OBVIOUS
  <2>2. torn' \in BOOLEAN /\ mounted' \in BOOLEAN
    BY DEF Crash
  <2>3. lost' \subseteq BlockId /\ freed' \subseteq BlockId
    BY <1>1 DEF Intact, TypeOK
  <2> QED
    BY <1>1, <2>1, <2>2, <2>3 DEF Intact, TypeOK
<1>3. Shape'
  BY <1>1 DEF Shape, WipeShape
<1>4. Blank' /\ PointersUnshared' /\ HintsKnown'
  BY <1>1 DEF Intact, Blank, PointersUnshared, HintsKnown, OnlyLostBelowHint
<1>5. ASSUME ~torn'
      PROVE  /\ ~torn
             /\ \A b : ~Pending(Free(b)) /\ ~Pending(Zero(b)) /\ ~Pending(Link(b, 0))
             /\ \A i : inode[i].first # 0 => ~Pending(Clear(i))
  BY <1>1, <1>5 DEF Wiping, Pending, Free, Zero, Link, Clear
<1>6. Covered'
  <2>1. \A b : Going(b)' => ~block[b].used
    BY <1>1 DEF Going, Pending
  <2>2. ASSUME ~torn', NEW a \in BlockId, block[a].used, block[a].next # 0
        PROVE  block[block[a].next].used
    BY <1>5, <2>2 DEF Intact, Covered, Going
  <2>3. ASSUME ~torn', NEW i \in Inode, inode[i].used, inode[i].first # 0
        PROVE  block[inode[i].first].used
    BY <1>5, <2>3 DEF Intact, Covered, Going
  <2> QED
    BY <1>1, <2>1, <2>2, <2>3 DEF Covered, Going, Pending
<1>7. DirtyPending'
  BY <1>1, <1>5 DEF Intact, DirtyPending
<1> QED
  BY <1>2, <1>3, <1>4, <1>6, <1>7 DEF Intact

LEMMA MountKeeps ==
  ASSUME Intact, Mount PROVE Intact'
<1>1. /\ block' = block /\ inode' = inode /\ dirty' = dirty /\ saved' = saved /\ hint' = saved
      /\ mounted' /\ job' = job /\ torn' = torn /\ freed' = freed /\ lost' = lost
      /\ ~torn /\ ~mounted /\ job = <<>> /\ freed = {}
  BY DEF Mount, Intact, Shape
<1>2. TypeOK'
  BY <1>1 DEF Intact, TypeOK
<1>3. Shape'
  BY <1>1 DEF Shape, WipeShape
<1>4. Blank' /\ PointersUnshared' /\ Covered' /\ DirtyPending'
  BY <1>1 DEF Intact, Blank, PointersUnshared, Covered, DirtyPending, Going, Pending
<1>5. HintsKnown'
  BY <1>1 DEF Intact, HintsKnown, OnlyLostBelowHint
<1> QED
  BY <1>2, <1>3, <1>4, <1>5 DEF Intact

\* The invariant of the container, through every write of every call and through
\* crashes between them.
THEOREM IntactInvariant == Spec => []Intact
<1>1. Init => Intact
  BY InitIntact
<1>2. Intact /\ [Next]_vars => Intact'
  <2> SUFFICES ASSUME Intact, [Next]_vars PROVE Intact'
    OBVIOUS
  <2>1. CASE \E i \in Inode : Create(i) \/ TruncateToZero(i)
    BY <2>1, CreateKeeps, TruncateToZeroKeeps
  <2>2. CASE \E i \in Inode, c \in Chains, b \in BlockId : Grow(i, c, b) \/ Shrink(i, c, b)
    BY <2>2, GrowKeeps, ShrinkKeeps
  <2>3. CASE \E i \in Inode, c \in Chains : Unlink(i, c)
    BY <2>3, UnlinkKeeps
  <2>4. CASE Finalize
    BY <2>4, FinalizeKeeps
  <2>5. CASE Step
    BY <2>5, StepKeeps
  <2>6. CASE Crash
    BY <2>6, CrashKeeps
  <2>7. CASE Mount
    BY <2>7, MountKeeps
  <2>8. CASE UNCHANGED vars
    BY <2>8 DEF vars, Intact, TypeOK, Shape, WipeShape, SingleShape, GrowShape, NoneLeadTo,
                Leads, Blank, PointersUnshared, Covered, Going, Pending, DirtyPending,
                HintsKnown, OnlyLostBelowHint
  <2> QED
    BY <2>1, <2>2, <2>3, <2>4, <2>5, <2>6, <2>7, <2>8 DEF Next, Damaged
<1> QED
  BY <1>1, <1>2, PTL DEF Spec

\* Types, for every number of blocks and inodes.
THEOREM CrashTypeCorrect == Spec => []TypeOK
<1>1. Intact => TypeOK
  BY DEF Intact
<1> QED
  BY <1>1, IntactInvariant, PTL

\* A crash damages a container only when it hits a call that is wiping blocks.
THEOREM CrashSafe == Spec => []PointersLeadToUsed
<1>1. Intact => PointersLeadToUsed
  <2> SUFFICES ASSUME Intact, ~torn, ~Wiping PROVE PointersLeadToUsed
    BY DEF PointersLeadToUsed
  <2>1. /\ \A b : ~Pending(Link(b, 0)) /\ ~Pending(Free(b))
        /\ \A i : inode[i].first # 0 => ~Pending(Clear(i))
    BY DEF Wiping, Pending, Free, Link, Clear
  <2> QED
    BY <2>1 DEF Intact, Covered, Going, PointersLeadToUsed
<1> QED
  BY <1>1, IntactInvariant, PTL

\* Files never share a block, whatever was cut short by a crash.
THEOREM BlocksUnshared == Spec => []PointersUnshared
<1>1. Intact => PointersUnshared
  BY DEF Intact
<1> QED
  BY <1>1, IntactInvariant, PTL

\* A block that is handed out is blank.
THEOREM FreeBlank == Spec => []FreeIsBlank
<1>1. Intact => FreeIsBlank
  <2> SUFFICES ASSUME Intact, NEW b \in BlockId, ~block[b].used
               PROVE  block[b].next = 0 /\ (~torn /\ ~Wiping => b \notin dirty)
    BY DEF FreeIsBlank
  <2>1. ASSUME ~Wiping PROVE ~Pending(Zero(b))
    BY <2>1 DEF Wiping, Pending, Zero
  <2> QED
    BY <2>1 DEF Intact, Blank, DirtyPending
<1> QED
  BY <1>1, IntactInvariant, PTL

\* The search for a free block misses only what a crashed session freed.
THEOREM HintMissesLost == Spec => []OnlyLostBelowHint
<1>1. Intact => OnlyLostBelowHint
  BY DEF Intact, HintsKnown
<1> QED
  BY <1>1, IntactInvariant, PTL
=============================================================================
