-------------------------- MODULE WhefsFileProofs ---------------------------
(***************************************************************************)
(* What holds of files for any number of inodes, devices and blocks of any *)
(* size.  The calls repeat a step of a session; what a step keeps is an    *)
(* operator on sessions, and induction over the steps is induction over a  *)
(* set of naturals.  The invariant names the chain of each inode, as a     *)
(* sequence of blocks.                                                     *)
(*                                                                         *)
(* The second half is what clients see of the files: the loop of           *)
(* whio_dev_inode_read gets the bytes of the chain, these are the content  *)
(* of the file, and every call has on the bytes the effect that ByteFiles  *)
(* gives it.  It rests on one more invariant: behind the end of a file its *)
(* blocks hold zeroes, which a file that grows uncovers (Zeroed).          *)
(***************************************************************************)
EXTENDS WhefsFile, FiniteSetTheorems, SequenceTheorems, WellFoundedInduction, TLAPS

-----------------------------------------------------------------------------
(***************************************************************************)
(* Naturals.                                                               *)
(***************************************************************************)

LEMMA LeastExists ==
  ASSUME NEW T, T \subseteq Nat, T # {}
  PROVE  \E m \in T : \A k \in T : m <= k
<1> DEFINE R == {ss \in Nat \X Nat : ss[1] < ss[2]}
<1>1. R = OpToRel(<, Nat)
  BY DEF OpToRel
<1>2. IsWellFoundedOn(R, Nat)
  BY <1>1, NatLessThanWellFounded, Zenon
<1>3. \E x \in T : \A y \in T : ~ (<<y, x>> \in R)
  BY <1>2, WFMin
<1>4. \A x, y \in T : x < y => <<x, y>> \in R
  OBVIOUS
<1> HIDE DEF R
<1>5. PICK m \in T : \A y \in T : ~ (<<y, m>> \in R)
  BY <1>3
<1>6. \A k \in T : ~ (k < m)
  BY <1>4, <1>5
<1> QED
  BY <1>6

LEMMA Induction ==
  ASSUME NEW T, 0 \in T, \A k \in Nat : k \in T => k + 1 \in T
  PROVE  Nat \subseteq T
<1> SUFFICES ASSUME Nat \ T # {} PROVE FALSE
  OBVIOUS
<1>1. PICK m \in Nat \ T : \A k \in Nat \ T : m <= k
  <2>1. Nat \ T \subseteq Nat
    OBVIOUS
  <2> QED
    BY <2>1, LeastExists
<1>2. m # 0 /\ m \in Nat
  OBVIOUS
<1>3. m - 1 \in Nat /\ m - 1 \in T
  BY <1>1, <1>2
<1>4. (m - 1) + 1 \in T
  BY <1>3
<1> QED
  BY <1>2, <1>4

\* The least and the greatest of numbers.
LEMMA MinOf ==
  ASSUME NEW S, S \subseteq Nat, S # {}
  PROVE  Min(S) \in S /\ \A k \in S : Min(S) <= k
<1>1. \E m \in S : \A k \in S : m <= k
  BY LeastExists
<1> QED
  BY <1>1 DEF Min

LEMMA MaxOf ==
  ASSUME NEW S, S \subseteq Nat, S # {}, NEW n \in Nat, \A k \in S : k <= n
  PROVE  Max(S) \in S /\ \A k \in S : k <= Max(S)
<1> DEFINE T == {j \in 0..n : \A k \in S : k <= j}
<1>1. PICK m \in T : \A j \in T : m <= j
  <2>1. T \subseteq Nat /\ n \in T
    OBVIOUS
  <2> QED
    BY <2>1, LeastExists
<1>2. m \in S
  <2> SUFFICES ASSUME m \notin S PROVE FALSE
    OBVIOUS
  <2>1. \A k \in S : k <= m - 1
    BY <1>1
  <2>2. PICK k \in S : k \in Nat
    OBVIOUS
  <2>3. m - 1 \in 0..n
    BY <2>1, <2>2
  <2>4. m - 1 \in T
    BY <2>1, <2>3
  <2> QED
    BY <1>1, <2>4
<1>3. \E x \in S : \A y \in S : x >= y
  BY <1>1, <1>2
<1>4. Max(S) \in S /\ \A y \in S : Max(S) >= y
  BY <1>3 DEF Max
<1> QED
  BY <1>4

-----------------------------------------------------------------------------
(***************************************************************************)
(* Doing something again and again.                                        *)
(***************************************************************************)

\* The values a function takes when it is applied to its own result.
Iterates(F, S, s, n, t) ==
  t \in [0..n -> S] /\ t[0] = s /\ \A k \in 1..n : t[k] = F[t[k - 1]]

LEMMA IteratesExist ==
  ASSUME NEW S, NEW F \in [S -> S], NEW s \in S, NEW n \in Nat
  PROVE  \E t : Iterates(F, S, s, n, t)
<1> DEFINE T == {m \in Nat : \E t : Iterates(F, S, s, m, t)}
<1>1. 0 \in T
  <2> DEFINE z == [k \in 0..0 |-> s]
  <2>1. z \in [0..0 -> S] /\ z[0] = s /\ \A k \in 1..0 : z[k] = F[z[k - 1]]
    OBVIOUS
  <2> HIDE DEF z
  <2>2. Iterates(F, S, s, 0, z)
    BY <2>1 DEF Iterates
  <2> QED
    BY <2>2
<1>2. ASSUME NEW m \in Nat, m \in T PROVE m + 1 \in T
  <2>1. PICK t : Iterates(F, S, s, m, t)
    BY <1>2
  <2> DEFINE u == [k \in 0..m + 1 |-> IF k = m + 1 THEN F[t[m]] ELSE t[k]]
  <2>2. t \in [0..m -> S] /\ t[0] = s /\ \A k \in 1..m : t[k] = F[t[k - 1]]
    BY <2>1 DEF Iterates
  <2>3. u \in [0..m + 1 -> S] /\ u[0] = s
    BY <2>2
  <2>4. ASSUME NEW k \in 1..m + 1 PROVE u[k] = F[u[k - 1]]
    <3>1. k - 1 \in 0..m /\ u[k - 1] = t[k - 1]
      OBVIOUS
    <3>2. k = m + 1 \/ k \in 1..m
      OBVIOUS
    <3> QED
      BY <2>2, <3>1, <3>2
  <2> HIDE DEF u
  <2>5. Iterates(F, S, s, m + 1, u)
    BY <2>3, <2>4 DEF Iterates
  <2> QED
    BY <2>5
<1>3. Nat \subseteq T
  <2> HIDE DEF T
  <2> QED
    BY <1>1, <1>2, Induction
<1> QED
  BY <1>3

-----------------------------------------------------------------------------
(***************************************************************************)
(* Chains.  The sequence q has the blocks that are met from b on.          *)
(***************************************************************************)

Ids(q) == {q[k] : k \in 1..Len(q)}

Linked(bk, b, q) ==
  /\ q \in Seq(BlockId)
  /\ q = <<>> => b = 0
  /\ q # <<>> => b = q[1] /\ bk[q[Len(q)]].next = 0
  /\ \A k \in 1..Len(q) - 1 : bk[q[k]].next = q[k + 1]
  /\ \A k, l \in 1..Len(q) : q[k] = q[l] => k = l

LEMMA LinkedLength ==
  ASSUME NEW bk, NEW b, NEW q, Linked(bk, b, q)
  PROVE  /\ q \in Seq(BlockId) /\ Len(q) \in Nat /\ Len(q) <= NumBlocks
         /\ q \in [1..Len(q) -> BlockId]
         /\ Cardinality(Ids(q)) = Len(q)
<1>1. /\ q \in Seq(BlockId) /\ Len(q) \in Nat /\ q \in [1..Len(q) -> BlockId]
      /\ \A k, l \in 1..Len(q) : q[k] = q[l] => k = l
  BY DEF Linked
<1>2. NumBlocks \in Nat
  BY BlockCountAssumption
<1>3. q \in Injection(1..Len(q), 1..NumBlocks)
  BY <1>1 DEF Injection, IsInjective, BlockId
<1>4. IsFiniteSet(1..NumBlocks) /\ Cardinality(1..NumBlocks) = NumBlocks
  BY <1>2, FS_Interval
<1>5. Cardinality(1..Len(q)) = Len(q)
  BY <1>1, FS_Interval
<1>6. Cardinality(1..Len(q)) <= Cardinality(1..NumBlocks)
  BY <1>3, <1>4, FS_Injection
<1>7. q \in Bijection(1..Len(q), Ids(q))
  BY <1>1 DEF Bijection, Injection, Surjection, IsInjective, Ids
<1>8. Cardinality(Ids(q)) = Len(q)
  BY <1>1, <1>7, FS_CountingElements DEF ExistsBijection
<1> QED
  BY <1>1, <1>4, <1>5, <1>6, <1>8

\* The blocks that are met, one after the other, 0 when there is no more.
LEMMA ChainMeets ==
  ASSUME NEW bk \in [BlockId -> Block], NEW b \in 0..NumBlocks
  PROVE  \E at \in [BlockId -> 0..NumBlocks] :
           /\ at[1] = b
           /\ \A k \in 1..NumBlocks - 1 :
                at[k + 1] = IF at[k] = 0 THEN 0 ELSE bk[at[k]].next
           /\ Chain(bk, b) = [k \in {j \in BlockId : at[j] # 0} |-> at[k]]
<1> NumBlocks \in Nat /\ NumBlocks >= 1
  BY BlockCountAssumption
<1> USE DEF BlockId
<1> DEFINE S == 0..NumBlocks
           F == [c \in S |-> IF c = 0 THEN 0 ELSE bk[c].next]
           Run(t) == t = [k \in BlockId |->
                            IF k = 1 THEN b ELSE IF t[k - 1] = 0 THEN 0 ELSE bk[t[k - 1]].next]
           at == CHOOSE t : Run(t)
<1>1. \A c \in BlockId : bk[c].next \in 0..NumBlocks
  BY DEF Block
<1>2. F \in [S -> S]
  BY <1>1
<1>3. PICK t : Iterates(F, S, b, NumBlocks - 1, t)
  <2>1. b \in S /\ NumBlocks - 1 \in Nat
    OBVIOUS
  <2> HIDE DEF F, S
  <2> QED
    BY <1>2, <2>1, IteratesExist
<1>4. t \in [0..NumBlocks - 1 -> S] /\ t[0] = b /\ \A k \in 1..NumBlocks - 1 : t[k] = F[t[k - 1]]
  BY <1>3 DEF Iterates
<1> DEFINE u == [k \in BlockId |-> t[k - 1]]
<1>5. Run(u)
  <2>1. ASSUME NEW k \in BlockId, k # 1
        PROVE  u[k] = IF u[k - 1] = 0 THEN 0 ELSE bk[u[k - 1]].next
    <3>1. u[k] = t[k - 1] /\ u[k - 1] = t[k - 2] /\ t[k - 2] \in S
      BY <1>4, <2>1
    <3>2. t[k - 1] = F[t[k - 2]]
      BY <1>4, <2>1
    <3> QED
      BY <3>1, <3>2
  <2>2. u[1] = b
    BY <1>4
  <2>3. \A k \in BlockId : u[k] = IF k = 1 THEN b ELSE IF u[k - 1] = 0 THEN 0 ELSE bk[u[k - 1]].next
    BY <2>1, <2>2
  <2> HIDE DEF u
  <2>4. u = [k \in BlockId |-> u[k]]
    BY DEF u
  <2> QED
    BY <2>3, <2>4
<1>6. Run(at)
  <2> HIDE DEF Run
  <2> QED
    BY <1>5
<1>7. Chain(bk, b) = [k \in {j \in BlockId : at[j] # 0} |-> at[k]]
  BY Zenon DEF Chain
<1>8. /\ at[1] = b /\ DOMAIN at = BlockId
      /\ \A k \in 1..NumBlocks - 1 : at[k + 1] = IF at[k] = 0 THEN 0 ELSE bk[at[k]].next
      /\ at = [k \in BlockId |-> at[k]]
  <2> HIDE DEF at
  <2>1. \A k \in BlockId : at[k] = IF k = 1 THEN b
                                   ELSE IF at[k - 1] = 0 THEN 0 ELSE bk[at[k - 1]].next
    BY <1>6
  <2>2. at[1] = b
    BY <2>1
  <2>3. ASSUME NEW k \in 1..NumBlocks - 1
        PROVE  at[k + 1] = IF at[k] = 0 THEN 0 ELSE bk[at[k]].next
    <3>1. k + 1 \in BlockId /\ k + 1 # 1 /\ (k + 1) - 1 = k
      OBVIOUS
    <3> QED
      BY <2>1, <3>1
  <2> QED
    BY <1>6, <2>2, <2>3
<1> HIDE DEF at, Run, F, u
<1> DEFINE T == {k \in Nat : k + 1 <= NumBlocks => at[k + 1] \in S}
<1>9. Nat \subseteq T
  <2>1. 0 \in T
    BY <1>8
  <2>2. ASSUME NEW k \in Nat, k \in T PROVE k + 1 \in T
    <3>1. SUFFICES ASSUME k + 2 <= NumBlocks PROVE at[k + 2] \in S
      BY SMT
    <3>2. k + 1 \in 1..NumBlocks - 1 /\ (k + 1) + 1 = k + 2
      BY <3>1
    <3>3. at[k + 2] = IF at[k + 1] = 0 THEN 0 ELSE bk[at[k + 1]].next
      BY <1>8, <3>2
    <3>4. at[k + 1] \in S
      BY <2>2, <3>2
    <3> QED
      BY <1>1, <3>3, <3>4
  <2> HIDE DEF T
  <2> QED
    BY <2>1, <2>2, Induction
<1>10. ASSUME NEW k \in BlockId PROVE at[k] \in S
  <2>1. k - 1 \in T
    BY <1>9
  <2> QED
    BY <2>1
<1>11. at \in [BlockId -> S]
  BY <1>8, <1>10
<1> QED
  BY <1>7, <1>8, <1>11

\* The sequence is what Chain finds.
LEMMA ChainIs ==
  ASSUME NEW bk \in [BlockId -> Block], NEW b \in 0..NumBlocks, NEW q, Linked(bk, b, q)
  PROVE  Chain(bk, b) = q
<1> NumBlocks \in Nat /\ NumBlocks >= 1
  BY BlockCountAssumption
<1> USE DEF BlockId
<1>1. PICK at \in [BlockId -> 0..NumBlocks] :
        /\ at[1] = b
        /\ \A k \in 1..NumBlocks - 1 : at[k + 1] = IF at[k] = 0 THEN 0 ELSE bk[at[k]].next
        /\ Chain(bk, b) = [k \in {j \in BlockId : at[j] # 0} |-> at[k]]
  BY ChainMeets
<1> DEFINE n == Len(q)
<1>2. q \in [1..n -> BlockId] /\ n \in Nat /\ n <= NumBlocks /\ DOMAIN q = 1..n
  BY LinkedLength
<1>3. /\ n = 0 => b = 0
      /\ n > 0 => b = q[1] /\ bk[q[n]].next = 0
      /\ \A k \in 1..n - 1 : bk[q[k]].next = q[k + 1]
  BY <1>2 DEF Linked
<1> HIDE DEF n
<1> DEFINE T == {k \in Nat : k + 1 <= NumBlocks =>
                                at[k + 1] = IF k + 1 <= n THEN q[k + 1] ELSE 0}
<1>4. 0 \in T
  BY <1>1, <1>2, <1>3
<1>5. ASSUME NEW k \in Nat, k \in T PROVE k + 1 \in T
  <2>1. SUFFICES ASSUME k + 2 <= NumBlocks
                 PROVE  at[k + 2] = IF k + 2 <= n THEN q[k + 2] ELSE 0
    BY SMT
  <2>2. at[k + 2] = IF at[k + 1] = 0 THEN 0 ELSE bk[at[k + 1]].next
    BY <1>1, <2>1
  <2>3. at[k + 1] = IF k + 1 <= n THEN q[k + 1] ELSE 0
    BY <1>5, <2>1
  <2>4. CASE k + 2 <= n
    <3>1. q[k + 1] \in BlockId
      BY <1>2, <2>4
    <3>2. k + 1 \in 1..n - 1 /\ (k + 1) + 1 = k + 2
      BY <1>2, <2>4
    <3>3. bk[q[k + 1]].next = q[k + 2]
      BY <1>3, <3>2
    <3>4. at[k + 1] = q[k + 1] /\ q[k + 1] # 0
      BY <1>2, <2>3, <2>4, <3>1
    <3> QED
      BY <2>2, <2>4, <3>3, <3>4
  <2>5. CASE k + 1 = n
    <3>1. q[k + 1] \in BlockId /\ bk[q[k + 1]].next = 0
      BY <1>2, <1>3, <2>5
    <3> QED
      BY <2>2, <2>3, <2>5, <3>1
  <2>6. CASE k + 1 > n
    BY <1>2, <2>2, <2>3, <2>6
  <2> QED
    BY <1>2, <2>4, <2>5, <2>6
<1>6. Nat \subseteq T
  <2> HIDE DEF T
  <2> QED
    BY <1>4, <1>5, Induction
<1>7. ASSUME NEW k \in BlockId PROVE at[k] = IF k <= n THEN q[k] ELSE 0
  <2>1. k - 1 \in Nat /\ k <= NumBlocks
    OBVIOUS
  <2>2. k - 1 \in T
    <3> HIDE DEF T
    <3> QED
      BY <1>6, <2>1
  <2> QED
    BY <2>2
<1>8. {j \in BlockId : at[j] # 0} = 1..n
  BY <1>2, <1>7
<1>9. Chain(bk, b) = [k \in 1..n |-> at[k]]
  BY <1>1, <1>8
<1>10. \A k \in 1..n : at[k] = q[k]
  BY <1>2, <1>7
<1> QED
  BY <1>2, <1>9, <1>10

\* A chain of which the pointers stay as they are.
LEMMA LinkedStays ==
  ASSUME NEW bk, NEW b, NEW q, Linked(bk, b, q),
         NEW cs, \A d \in Ids(q) : cs[d].next = bk[d].next
  PROVE  Linked(cs, b, q)
<1>1. \A k \in 1..Len(q) : cs[q[k]].next = bk[q[k]].next
  BY DEF Ids
<1>2. Len(q) \in Nat
  BY LinkedLength
<1>3. q # <<>> => cs[q[Len(q)]].next = 0
  BY <1>1, <1>2 DEF Linked
<1>4. \A k \in 1..Len(q) - 1 : cs[q[k]].next = q[k + 1]
  BY <1>1, <1>2 DEF Linked
<1> QED
  BY <1>3, <1>4 DEF Linked

\* A chain of one block.
LEMMA LinkedOne ==
  ASSUME NEW bk, NEW c \in BlockId, bk[c].next = 0
  PROVE  Linked(bk, c, <<c>>) /\ Ids(<<c>>) = {c}
<1> DEFINE q == <<c>>
<1>1. q \in Seq(BlockId) /\ Len(q) = 1 /\ q[1] = c
  OBVIOUS
<1> HIDE DEF q
<1> QED
  BY <1>1 DEF Linked, Ids, q

\* A block behind the last one.
LEMMA LinkedMore ==
  ASSUME NEW bk, NEW b, NEW q, Linked(bk, b, q), q # <<>>,
         NEW c \in BlockId, c \notin Ids(q),
         NEW cs, cs[c].next = 0, cs[q[Len(q)]].next = c,
         \A d \in Ids(q) : d # q[Len(q)] => cs[d].next = bk[d].next
  PROVE  Linked(cs, b, Append(q, c)) /\ Ids(Append(q, c)) = Ids(q) \cup {c}
<1> DEFINE r == Append(q, c)
           n == Len(q)
<1>1. q \in [1..n -> BlockId] /\ n \in Nat /\ q \in Seq(BlockId) /\ n # 0
  BY LinkedLength
<1>2. r \in Seq(BlockId) /\ Len(r) = n + 1 /\ r[n + 1] = c /\ \A k \in 1..n : r[k] = q[k]
  BY <1>1
<1>3. b = q[1] /\ (\A k \in 1..n - 1 : bk[q[k]].next = q[k + 1])
      /\ \A k, l \in 1..n : q[k] = q[l] => k = l
  BY DEF Linked
<1>4. \A k \in 1..n : q[k] # c
  BY DEF Ids
<1> HIDE DEF r, n
<1>5. ASSUME NEW k \in 1..n PROVE cs[r[k]].next = r[k + 1]
  <2>1. CASE k = n
    BY <1>1, <1>2, <2>1 DEF n
  <2>2. CASE k # n
    <3>1. k \in 1..n - 1 /\ k + 1 \in 1..n /\ n \in 1..n
      BY <1>1, <2>2
    <3>2. q[k] \in Ids(q) /\ q[k] # q[n]
      BY <1>1, <1>3, <2>2, <3>1 DEF Ids, n
    <3>3. cs[q[k]].next = bk[q[k]].next
      BY <3>2 DEF n
    <3> QED
      BY <1>2, <1>3, <3>1, <3>3
  <2> QED
    BY <2>1, <2>2
<1>6. \A k, l \in 1..n + 1 : r[k] = r[l] => k = l
  BY <1>1, <1>2, <1>3, <1>4
<1>7. r # <<>> /\ r[1] = b /\ cs[r[n + 1]].next = 0
  BY <1>1, <1>2, <1>3
<1>8. Linked(cs, b, r)
  BY <1>1, <1>2, <1>5, <1>6, <1>7 DEF Linked
<1>9. Ids(r) = Ids(q) \cup {c}
  <2>1. Ids(r) = {r[k] : k \in 1..n + 1}
    BY <1>2 DEF Ids
  <2>2. Ids(q) = {r[k] : k \in 1..n}
    BY <1>2 DEF Ids, n
  <2> QED
    BY <1>1, <1>2, <2>1, <2>2
<1> QED
  BY <1>8, <1>9 DEF r

\* The blocks from the one at x on are a chain.
LEMMA LinkedFrom ==
  ASSUME NEW bk, NEW b, NEW q, Linked(bk, b, q), NEW x \in 1..Len(q)
  PROVE  LET r == SubSeq(q, x, Len(q))
         IN  Linked(bk, q[x], r) /\ Ids(r) = {q[k] : k \in x..Len(q)}
<1> DEFINE n == Len(q)
           r == SubSeq(q, x, n)
<1>1. q \in [1..n -> BlockId] /\ n \in Nat /\ q \in Seq(BlockId) /\ x <= n /\ x \in Nat /\ x >= 1
  BY LinkedLength
<1>2. r \in Seq(BlockId) /\ Len(r) = n - x + 1 /\ \A k \in 1..n - x + 1 : r[k] = q[x + k - 1]
  BY <1>1
<1>3. (\A k \in 1..n - 1 : bk[q[k]].next = q[k + 1]) /\ bk[q[n]].next = 0
      /\ \A k, l \in 1..n : q[k] = q[l] => k = l
  BY <1>1 DEF Linked
<1> HIDE DEF r, n
<1>4. ASSUME NEW k \in 1..n - x PROVE bk[r[k]].next = r[k + 1]
  <2>1. x + k - 1 \in 1..n - 1 /\ k + 1 \in 1..n - x + 1 /\ k \in 1..n - x + 1
    BY <1>1
  <2>2. r[k] = q[x + k - 1] /\ r[k + 1] = q[(x + k - 1) + 1]
    BY <1>1, <1>2, <2>1
  <2> QED
    BY <1>3, <2>1, <2>2
<1>5. ASSUME NEW k \in 1..n - x + 1, NEW l \in 1..n - x + 1, r[k] = r[l] PROVE k = l
  <2>1. x + k - 1 \in 1..n /\ x + l - 1 \in 1..n /\ q[x + k - 1] = q[x + l - 1]
    BY <1>1, <1>2, <1>5
  <2> QED
    BY <1>1, <1>3, <2>1
<1>6. r # <<>> /\ r[1] = q[x] /\ bk[r[Len(r)]].next = 0
  BY <1>1, <1>2, <1>3
<1>7. Linked(bk, q[x], r)
  BY <1>1, <1>2, <1>4, <1>5, <1>6 DEF Linked
<1>8. Ids(r) = {q[k] : k \in x..n}
  <2>1. ASSUME NEW k \in 1..n - x + 1 PROVE r[k] \in {q[j] : j \in x..n}
    BY <1>1, <1>2
  <2>2. ASSUME NEW j \in x..n PROVE q[j] \in Ids(r)
    <3>1. j - x + 1 \in 1..Len(r) /\ r[j - x + 1] = q[j]
      BY <1>1, <1>2
    <3> QED
      BY <3>1 DEF Ids
  <2> QED
    BY <1>2, <2>1, <2>2 DEF Ids
<1> QED
  BY <1>7, <1>8 DEF r, n

\* The blocks before the one at x are a chain when the last one of them is its end.
LEMMA LinkedUpTo ==
  ASSUME NEW bk, NEW b, NEW q, Linked(bk, b, q), NEW x \in 2..Len(q),
         NEW cs, cs[q[x - 1]].next = 0, \A k \in 1..x - 2 : cs[q[k]].next = bk[q[k]].next
  PROVE  LET r == SubSeq(q, 1, x - 1)
         IN  Linked(cs, b, r) /\ Ids(r) = {q[k] : k \in 1..x - 1}
<1> DEFINE n == Len(q)
           r == SubSeq(q, 1, x - 1)
<1>1. q \in [1..n -> BlockId] /\ n \in Nat /\ q \in Seq(BlockId) /\ x <= n /\ x \in Nat /\ x >= 2
  BY LinkedLength
<1>2. r \in Seq(BlockId) /\ Len(r) = x - 1 /\ \A k \in 1..x - 1 : r[k] = q[k]
  BY <1>1
<1>3. (\A k \in 1..n - 1 : bk[q[k]].next = q[k + 1]) /\ b = q[1]
      /\ \A k, l \in 1..n : q[k] = q[l] => k = l
  BY <1>1 DEF Linked
<1> HIDE DEF r, n
<1>4. ASSUME NEW k \in 1..x - 2 PROVE cs[r[k]].next = r[k + 1]
  BY <1>1, <1>2, <1>3
<1>5. \A k, l \in 1..x - 1 : r[k] = r[l] => k = l
  BY <1>1, <1>2, <1>3
<1>6. r # <<>> /\ r[1] = b /\ cs[r[Len(r)]].next = 0
  BY <1>1, <1>2, <1>3
<1>7. Linked(cs, b, r)
  BY <1>1, <1>2, <1>4, <1>5, <1>6 DEF Linked
<1>8. Ids(r) = {q[k] : k \in 1..x - 1}
  BY <1>2 DEF Ids
<1> QED
  BY <1>7, <1>8 DEF r, n


-----------------------------------------------------------------------------
(***************************************************************************)
(* The bounds.                                                             *)
(***************************************************************************)

LEMMA FiniteBounded ==
  ASSUME NEW S \in SUBSET Nat, IsFiniteSet(S)
  PROVE  \E n \in Nat : \A k \in S : k <= n
<1> DEFINE T == {m \in Nat : \A R \in SUBSET Nat : IsFiniteSet(R) /\ Cardinality(R) = m =>
                                \E n \in Nat : \A k \in R : k <= n}
<1>1. 0 \in T
  <2>1. \A R \in SUBSET Nat : IsFiniteSet(R) /\ Cardinality(R) = 0 => R = {}
    BY FS_EmptySet
  <2> QED
    BY <2>1
<1>2. ASSUME NEW m \in Nat, m \in T PROVE m + 1 \in T
  <2>1. ASSUME NEW R \in SUBSET Nat, IsFiniteSet(R), Cardinality(R) = m + 1
        PROVE  \E n \in Nat : \A k \in R : k <= n
    <3>1. PICK x \in R : x \in Nat
      <4>1. R # {}
        BY <2>1, FS_EmptySet
      <4> QED
        BY <4>1
    <3>2. IsFiniteSet(R \ {x}) /\ Cardinality(R \ {x}) = m
      <4>1. /\ IsFiniteSet(R \ {x})
            /\ Cardinality(R \ {x}) = IF x \in R THEN Cardinality(R) - 1 ELSE Cardinality(R)
        BY <2>1, FS_RemoveElement
      <4>2. (m + 1) - 1 = m
        OBVIOUS
      <4> QED
        BY <2>1, <3>1, <4>1, <4>2
    <3>3. PICK n \in Nat : \A k \in R \ {x} : k <= n
      BY <1>2, <3>2
    <3>4. \A k \in R : k <= n + x
      BY <3>1, <3>3
    <3>5. n + x \in Nat
      BY <3>1
    <3> QED
      BY <3>4, <3>5
  <2>2. m + 1 \in Nat
    OBVIOUS
  <2> QED
    BY <2>1, <2>2
<1>3. Nat \subseteq T
  <2> HIDE DEF T
  <2> QED
    BY <1>1, <1>2, Induction
<1>4. Cardinality(S) \in Nat
  BY FS_CardinalityType
<1> QED
  BY <1>3, <1>4

\* The sizes reach as far as the calls do.
LEMMA MaxSizeIs ==
  /\ MaxSize \in Nat
  /\ \A n \in IoLen : n \in Nat /\ MaxPos + n <= MaxSize
  /\ \A n \in TruncLen \cup SeekPos : n \in Nat /\ n <= MaxSize
<1> DEFINE S == IoLen \cup TruncLen \cup SeekPos
<1>1. S \subseteq Nat /\ S # {} /\ IsFiniteSet(S) /\ MaxPos \in Nat
  BY LengthsAssumption, MaxPosAssumption
<1>2. PICK n \in Nat : \A k \in S : k <= n
  BY <1>1, FiniteBounded
<1>3. Max(S) \in S /\ \A k \in S : k <= Max(S)
  <2> HIDE DEF S
  <2> QED
    BY <1>1, <1>2, MaxOf
<1> QED
  BY <1>1, <1>3 DEF MaxSize

\* The least and the greatest of two numbers.
LEMMA TwoNumbers ==
  ASSUME NEW a \in Nat, NEW b \in Nat
  PROVE  /\ Min({a, b}) = IF a <= b THEN a ELSE b
         /\ Max({a, b}) = IF a <= b THEN b ELSE a
<1>1. Min({a, b}) \in {a, b} /\ \A k \in {a, b} : Min({a, b}) <= k
  BY MinOf
<1>2. Max({a, b}) \in {a, b} /\ \A k \in {a, b} : k <= Max({a, b})
  <2>1. {a, b} \subseteq Nat /\ {a, b} # {} /\ a + b \in Nat /\ \A k \in {a, b} : k <= a + b
    OBVIOUS
  <2> QED
    BY <2>1, MaxOf
<1> QED
  BY <1>1, <1>2

\* The place of a position in its block.
LEMMA InBlock ==
  ASSUME NEW p \in Nat
  PROVE  /\ p \div BlockSize \in Nat /\ p % BlockSize \in 0..BlockSize - 1
         /\ p = BlockSize * (p \div BlockSize) + (p % BlockSize)
<1> DEFINE m == p % BlockSize
<1>1. p \div BlockSize \in Nat
  BY BlockSizeAssumption
<1>2. m \in 0..BlockSize - 1
  BY BlockSizeAssumption
<1>3. p = BlockSize * (p \div BlockSize) + m
  BY BlockSizeAssumption
<1> QED
  BY <1>1, <1>2, <1>3

LEMMA BlocksGrow ==
  ASSUME NEW a \in Nat, NEW b \in Nat, a <= b
  PROVE  /\ a * BlockSize \in Nat /\ b * BlockSize \in Nat
         /\ a * BlockSize <= b * BlockSize
BY BlockSizeAssumption

\* A position ends with its block.
LEMMA PositionInBlock ==
  ASSUME NEW p \in Nat
  PROVE  LET bc == 1 + (p \div BlockSize)
         IN  /\ bc \in Nat \ {0} /\ p % BlockSize \in Offset
             /\ bc * BlockSize \in Nat
             /\ p + (BlockSize - (p % BlockSize)) = bc * BlockSize
<1> BlockSize \in Nat \ {0}
  BY BlockSizeAssumption
<1> DEFINE d == p \div BlockSize
           m == p % BlockSize
<1>1. d \in Nat /\ m \in 0..BlockSize - 1 /\ p = BlockSize * d + m
  BY InBlock
<1> HIDE DEF d, m
<1>2. (1 + d) * BlockSize = BlockSize * d + BlockSize
  BY <1>1
<1>3. BlockSize * d \in Nat
  BY <1>1
<1> QED
  BY <1>1, <1>2, <1>3 DEF d, m, Offset

-----------------------------------------------------------------------------
(***************************************************************************)
(* Repeating a step on a session: a set of sessions that the step does not *)
(* leave, and the sessions in between.                                     *)
(***************************************************************************)

\* The steps are those of a function.
Steps(F, S, s, n, r) ==
  /\ r[0] = s
  /\ r = [k \in 0..n |-> r[k]]
  /\ \A k \in 1..n : r[k - 1] \in S => r[k] = F[r[k - 1]]

LEMMA StepsStay ==
  ASSUME NEW S, NEW s \in S, NEW n \in Nat, NEW F \in [S -> S],
         NEW r, Steps(F, S, s, n, r)
  PROVE  r \in [0..n -> S]
<1> USE DEF Steps
<1> DEFINE T == {k \in Nat : k <= n => r[k] \in S}
<1>1. 0 \in T
  OBVIOUS
<1>2. ASSUME NEW k \in Nat, k \in T PROVE k + 1 \in T
  <2>1. SUFFICES ASSUME k + 1 <= n PROVE r[k + 1] \in S
    OBVIOUS
  <2>2. r[k] \in S /\ k + 1 \in 1..n /\ (k + 1) - 1 = k
    BY <1>2, <2>1
  <2> QED
    BY <2>2
<1>3. Nat \subseteq T
  <2> HIDE DEF T
  <2> QED
    BY <1>1, <1>2, Induction
<1>4. \A k \in 0..n : r[k] \in S
  BY <1>3
<1> QED
  BY <1>4

AddBlockKeeps(S) == \A u \in S : u.rc = "OK" => AddBlock(u) \in S

AddBlockRun(S, s, n, t) ==
  /\ t \in [0..n -> S] /\ t[0] = s
  /\ \A k \in 1..n : t[k] = IF t[k - 1].rc = "OK" THEN AddBlock(t[k - 1]) ELSE t[k - 1]
  /\ Repeat(AddBlock, s, n) = t[n]

LEMMA AddBlocks ==
  ASSUME NEW S, NEW s \in S, NEW n \in Nat, AddBlockKeeps(S)
  PROVE  \E t : AddBlockRun(S, s, n, t)
<1> USE DEF AddBlockKeeps
<1> DEFINE F == [u \in S |-> IF u.rc = "OK" THEN AddBlock(u) ELSE u]
           Run(t) == t = [k \in 0..n |-> IF k = 0 THEN s
                             ELSE IF t[k - 1].rc = "OK" THEN AddBlock(t[k - 1]) ELSE t[k - 1]]
           r == CHOOSE t : Run(t)
<1>1. F \in [S -> S]
  OBVIOUS
<1>2. PICK t : Iterates(F, S, s, n, t)
  <2> HIDE DEF F
  <2> QED
    BY <1>1, IteratesExist
<1>3. \A k \in 1..n : t[k] = IF t[k - 1].rc = "OK" THEN AddBlock(t[k - 1]) ELSE t[k - 1]
  <2> TAKE k \in 1..n
  <2>1. k - 1 \in 0..n
    OBVIOUS
  <2>2. t[k - 1] \in S
    BY <1>2, <2>1 DEF Iterates
  <2> QED
    BY <1>2, <2>1, <2>2 DEF Iterates
<1>4. Run(t)
  <2>1. \A k \in 0..n : t[k] = IF k = 0 THEN s
                             ELSE IF t[k - 1].rc = "OK" THEN AddBlock(t[k - 1]) ELSE t[k - 1]
    BY <1>2, <1>3 DEF Iterates
  <2> QED
    BY <1>2, <2>1 DEF Iterates
<1>5. Run(r)
  <2> HIDE DEF Run
  <2> QED
    BY <1>4
<1>6. Repeat(AddBlock, s, n) = r[n]
  BY Zenon DEF Repeat
<1>7. r[0] = s /\ r = [k \in 0..n |-> r[k]] /\ \A k \in 1..n :
         r[k] = IF r[k - 1].rc = "OK" THEN AddBlock(r[k - 1]) ELSE r[k - 1]
  <2> HIDE DEF r
  <2> QED
    BY <1>5
<1>8. \A k \in 1..n : r[k - 1] \in S => r[k] = F[r[k - 1]]
  <2> HIDE DEF r
  <2> QED
    BY <1>7
<1> HIDE DEF r, Run, F
<1>9. Steps(F, S, s, n, r)
  BY <1>7, <1>8 DEF Steps
<1>10. r \in [0..n -> S]
  BY <1>1, <1>9, StepsStay
<1> QED
  BY <1>6, <1>7, <1>10 DEF AddBlockRun

ReadChunkKeeps(S) == \A u \in S : u.rc = "OK" => ReadChunk(u) \in S

ReadChunkRun(S, s, n, t) ==
  /\ t \in [0..n -> S] /\ t[0] = s
  /\ \A k \in 1..n : t[k] = IF t[k - 1].rc = "OK" THEN ReadChunk(t[k - 1]) ELSE t[k - 1]
  /\ Repeat(ReadChunk, s, n) = t[n]

LEMMA ReadChunks ==
  ASSUME NEW S, NEW s \in S, NEW n \in Nat, ReadChunkKeeps(S)
  PROVE  \E t : ReadChunkRun(S, s, n, t)
<1> USE DEF ReadChunkKeeps
<1> DEFINE F == [u \in S |-> IF u.rc = "OK" THEN ReadChunk(u) ELSE u]
           Run(t) == t = [k \in 0..n |-> IF k = 0 THEN s
                             ELSE IF t[k - 1].rc = "OK" THEN ReadChunk(t[k - 1]) ELSE t[k - 1]]
           r == CHOOSE t : Run(t)
<1>1. F \in [S -> S]
  OBVIOUS
<1>2. PICK t : Iterates(F, S, s, n, t)
  <2> HIDE DEF F
  <2> QED
    BY <1>1, IteratesExist
<1>3. \A k \in 1..n : t[k] = IF t[k - 1].rc = "OK" THEN ReadChunk(t[k - 1]) ELSE t[k - 1]
  <2> TAKE k \in 1..n
  <2>1. k - 1 \in 0..n
    OBVIOUS
  <2>2. t[k - 1] \in S
    BY <1>2, <2>1 DEF Iterates
  <2> QED
    BY <1>2, <2>1, <2>2 DEF Iterates
<1>4. Run(t)
  <2>1. \A k \in 0..n : t[k] = IF k = 0 THEN s
                             ELSE IF t[k - 1].rc = "OK" THEN ReadChunk(t[k - 1]) ELSE t[k - 1]
    BY <1>2, <1>3 DEF Iterates
  <2> QED
    BY <1>2, <2>1 DEF Iterates
<1>5. Run(r)
  <2> HIDE DEF Run
  <2> QED
    BY <1>4
<1>6. Repeat(ReadChunk, s, n) = r[n]
  BY Zenon DEF Repeat
<1>7. r[0] = s /\ r = [k \in 0..n |-> r[k]] /\ \A k \in 1..n :
         r[k] = IF r[k - 1].rc = "OK" THEN ReadChunk(r[k - 1]) ELSE r[k - 1]
  <2> HIDE DEF r
  <2> QED
    BY <1>5
<1>8. \A k \in 1..n : r[k - 1] \in S => r[k] = F[r[k - 1]]
  <2> HIDE DEF r
  <2> QED
    BY <1>7
<1> HIDE DEF r, Run, F
<1>9. Steps(F, S, s, n, r)
  BY <1>7, <1>8 DEF Steps
<1>10. r \in [0..n -> S]
  BY <1>1, <1>9, StepsStay
<1> QED
  BY <1>6, <1>7, <1>10 DEF ReadChunkRun

WriteChunkKeeps(S) == \A u \in S : u.rc = "OK" => WriteChunk(u) \in S

WriteChunkRun(S, s, n, t) ==
  /\ t \in [0..n -> S] /\ t[0] = s
  /\ \A k \in 1..n : t[k] = IF t[k - 1].rc = "OK" THEN WriteChunk(t[k - 1]) ELSE t[k - 1]
  /\ Repeat(WriteChunk, s, n) = t[n]

LEMMA WriteChunks ==
  ASSUME NEW S, NEW s \in S, NEW n \in Nat, WriteChunkKeeps(S)
  PROVE  \E t : WriteChunkRun(S, s, n, t)
<1> USE DEF WriteChunkKeeps
<1> DEFINE F == [u \in S |-> IF u.rc = "OK" THEN WriteChunk(u) ELSE u]
           Run(t) == t = [k \in 0..n |-> IF k = 0 THEN s
                             ELSE IF t[k - 1].rc = "OK" THEN WriteChunk(t[k - 1]) ELSE t[k - 1]]
           r == CHOOSE t : Run(t)
<1>1. F \in [S -> S]
  OBVIOUS
<1>2. PICK t : Iterates(F, S, s, n, t)
  <2> HIDE DEF F
  <2> QED
    BY <1>1, IteratesExist
<1>3. \A k \in 1..n : t[k] = IF t[k - 1].rc = "OK" THEN WriteChunk(t[k - 1]) ELSE t[k - 1]
  <2> TAKE k \in 1..n
  <2>1. k - 1 \in 0..n
    OBVIOUS
  <2>2. t[k - 1] \in S
    BY <1>2, <2>1 DEF Iterates
  <2> QED
    BY <1>2, <2>1, <2>2 DEF Iterates
<1>4. Run(t)
  <2>1. \A k \in 0..n : t[k] = IF k = 0 THEN s
                             ELSE IF t[k - 1].rc = "OK" THEN WriteChunk(t[k - 1]) ELSE t[k - 1]
    BY <1>2, <1>3 DEF Iterates
  <2> QED
    BY <1>2, <2>1 DEF Iterates
<1>5. Run(r)
  <2> HIDE DEF Run
  <2> QED
    BY <1>4
<1>6. Repeat(WriteChunk, s, n) = r[n]
  BY Zenon DEF Repeat
<1>7. r[0] = s /\ r = [k \in 0..n |-> r[k]] /\ \A k \in 1..n :
         r[k] = IF r[k - 1].rc = "OK" THEN WriteChunk(r[k - 1]) ELSE r[k - 1]
  <2> HIDE DEF r
  <2> QED
    BY <1>5
<1>8. \A k \in 1..n : r[k - 1] \in S => r[k] = F[r[k - 1]]
  <2> HIDE DEF r
  <2> QED
    BY <1>7
<1> HIDE DEF r, Run, F
<1>9. Steps(F, S, s, n, r)
  BY <1>7, <1>8 DEF Steps
<1>10. r \in [0..n -> S]
  BY <1>1, <1>9, StepsStay
<1> QED
  BY <1>6, <1>7, <1>10 DEF WriteChunkRun

-----------------------------------------------------------------------------
(***************************************************************************)
(* Sessions.  Fits(s, q, o, w): q is the chain of the inode of the session *)
(* s, o has the blocks of the other chains, and w says that no block is    *)
(* lost and that the list of the opened inode is whole when it is loaded.  *)
(***************************************************************************)

Code == {"OK", "Assert", "FSFull", "RangeError", "EOF", "InternalError"}

Sess == [blk : [BlockId -> Block], hint : 1..NumBlocks + 1, di : DiskInode, e : Entry,
         rc : Code, bl : [id : 0..NumBlocks, next : 0..NumBlocks],
         pos : 0..MaxSize, left : 0..MaxSize, val : Byte, out : Seq(Byte)]

\* The cached list has the first blocks of the chain, as the container links them.
Listed(list, bk, q) ==
  /\ Len(list) <= Len(q)
  /\ \A k \in 1..Len(list) : list[k].id = q[k] /\ list[k].next = bk[q[k]].next

\* The blocks of chains are used; a free block is blank and not below the hint.
Held(bk, hint, q, o) ==
  /\ \A d \in Ids(q) : bk[d].used /\ d \notin o
  /\ \A d \in o : bk[d].used
  /\ \A d \in BlockId : d < hint => bk[d].used
  /\ \A d \in BlockId : bk[d].used \/ bk[d] = EmptyBlock

Whole(bk, list, q, o) ==
  /\ \A d \in BlockId : bk[d].used => d \in Ids(q) \cup o
  /\ list = <<>> \/ Len(list) = Len(q)

Fits(s, q, o, w) ==
  /\ s \in Sess
  /\ Linked(s.blk, s.e.first, q)
  /\ s.di.first = s.e.first
  /\ Listed(s.e.list, s.blk, q)
  /\ Held(s.blk, s.hint, q, o)
  /\ w => Whole(s.blk, s.e.list, q, o) /\ s.rc # "Assert"

\* The list is loaded.
Loaded(s, q) == s.e.list = <<>> => q = <<>>

\* The chain r begins as q does.
Extends(q, r) == Len(q) <= Len(r) /\ \A k \in 1..Len(q) : r[k] = q[k]

AllUsed(s) == \A d \in BlockId : s.blk[d].used

\* Expanding the chain does not change anything else; the inode is flushed when
\* it gets its first block.
Grows(s, t, o) ==
  /\ t.e.count = s.e.count /\ t.e.writer = s.e.writer /\ t.e.size = s.e.size
  /\ t.pos = s.pos /\ t.left = s.left /\ t.val = s.val /\ t.out = s.out
  /\ s.e.first # 0 => t.e.first = s.e.first
  /\ \/ t.di = s.di
     \/ s.e.first = 0 /\ t.e.first # 0 /\ t.di.used /\ t.di.size = s.e.size
  /\ \A d \in o : t.blk[d] = s.blk[d]
  /\ \A d \in BlockId : t.blk[d].data = s.blk[d].data

LEMMA SessTypes ==
  ASSUME NEW s \in Sess
  PROVE  /\ s.blk \in [BlockId -> Block] /\ s.hint \in 1..NumBlocks + 1
         /\ s.di \in DiskInode /\ s.e \in Entry /\ s.rc \in Code
         /\ s.bl \in [id : 0..NumBlocks, next : 0..NumBlocks]
         /\ s.pos \in 0..MaxSize /\ s.left \in 0..MaxSize /\ s.val \in Byte /\ s.out \in Seq(Byte)
         /\ s.e.count \in Nat /\ s.e.writer \in Handle \cup {NoHandle} /\ s.e.size \in 0..MaxSize
         /\ s.e.first \in 0..NumBlocks /\ s.e.list \in Seq(ListItem)
         /\ s.di.used \in BOOLEAN /\ s.di.size \in 0..MaxSize /\ s.di.first \in 0..NumBlocks
         /\ \A d \in BlockId : /\ s.blk[d] \in Block /\ s.blk[d].used \in BOOLEAN
                               /\ s.blk[d].next \in 0..NumBlocks
                               /\ s.blk[d].data \in [Offset -> Byte]
BY DEF Sess, Entry, DiskInode, Block

LEMMA EmptyBlockType ==
  EmptyBlock \in Block /\ EmptyBlock.used = FALSE /\ EmptyBlock.next = 0
BY ByteAssumption, BlockCountAssumption DEF EmptyBlock, Block, Zeroes

LEMMA GrowsOn ==
  ASSUME NEW o, NEW s, NEW t, NEW u, Grows(s, t, o), Grows(t, u, o)
  PROVE  Grows(s, u, o)
BY DEF Grows

LEMMA GrowsSelf ==
  ASSUME NEW o, NEW s
  PROVE  Grows(s, s, o)
BY DEF Grows

\* whefs_block_next_free finds a free block when there is one.
LEMMA NextFreeIs ==
  ASSUME NEW bk \in [BlockId -> Block], NEW hint \in 1..NumBlocks + 1,
         \A d \in BlockId : d < hint => bk[d].used
  PROVE  LET b == NextFree(bk, hint)
         IN  \/ b = 0 /\ \A d \in BlockId : bk[d].used
             \/ b \in BlockId /\ ~bk[b].used /\ \A d \in BlockId : d < b => bk[d].used
<1> DEFINE S == {b \in BlockId : b >= hint /\ ~bk[b].used}
           b == NextFree(bk, hint)
<1> NumBlocks \in Nat
  BY BlockCountAssumption
<1>1. b = IF S = {} THEN 0 ELSE Min(S)
  BY DEF NextFree
<1>2. S \subseteq Nat
  BY DEF BlockId
<1>3. CASE S = {}
  BY <1>1, <1>3 DEF BlockId
<1>4. CASE S # {}
  <2>1. Min(S) \in S /\ \A k \in S : Min(S) <= k
    <3> HIDE DEF S
    <3> QED
      BY <1>2, <1>4, MinOf
  <2>2. \A d \in BlockId : d < Min(S) => bk[d].used
    BY <2>1 DEF BlockId
  <2> QED
    BY <1>1, <1>4, <2>1, <2>2
<1> QED
  BY <1>3, <1>4

\* Changing one field of one block or of one item of a list.
LEMMA SetNext ==
  ASSUME NEW bk \in [BlockId -> Block], NEW c \in BlockId, NEW m \in 0..NumBlocks
  PROVE  LET cs == [bk EXCEPT ![c].next = m]
         IN  /\ cs \in [BlockId -> Block] /\ cs[c].next = m
             /\ \A d \in BlockId : d # c => cs[d] = bk[d]
             /\ \A d \in BlockId : cs[d].used = bk[d].used /\ cs[d].data = bk[d].data
<1> DEFINE x == [bk[c] EXCEPT !.next = m]
           cs == [bk EXCEPT ![c].next = m]
<1>1. x \in Block /\ x.next = m /\ x.used = bk[c].used /\ x.data = bk[c].data
  BY DEF Block
<1>2. cs = [bk EXCEPT ![c] = x]
  OBVIOUS
<1> HIDE DEF x, cs
<1>3. cs \in [BlockId -> Block] /\ cs[c] = x /\ \A d \in BlockId : d # c => cs[d] = bk[d]
  BY <1>1, <1>2
<1> QED
  BY <1>1, <1>3 DEF cs

LEMMA SetData ==
  ASSUME NEW bk \in [BlockId -> Block], NEW c \in BlockId, NEW m \in [Offset -> Byte]
  PROVE  LET cs == [bk EXCEPT ![c].data = m]
         IN  /\ cs \in [BlockId -> Block] /\ cs[c].data = m
             /\ \A d \in BlockId : d # c => cs[d] = bk[d]
             /\ \A d \in BlockId : cs[d].used = bk[d].used /\ cs[d].next = bk[d].next
<1> DEFINE x == [bk[c] EXCEPT !.data = m]
           cs == [bk EXCEPT ![c].data = m]
<1>1. x \in Block /\ x.data = m /\ x.used = bk[c].used /\ x.next = bk[c].next
  BY DEF Block
<1>2. cs = [bk EXCEPT ![c] = x]
  OBVIOUS
<1> HIDE DEF x, cs
<1>3. cs \in [BlockId -> Block] /\ cs[c] = x /\ \A d \in BlockId : d # c => cs[d] = bk[d]
  BY <1>1, <1>2
<1> QED
  BY <1>1, <1>3 DEF cs

Relink(list, k, m) == [list EXCEPT ![k].next = m]

LEMMA RelinkIs ==
  ASSUME NEW list \in Seq(ListItem), NEW k \in 1..Len(list), NEW m \in 0..NumBlocks
  PROVE  /\ Relink(list, k, m) \in Seq(ListItem) /\ Len(Relink(list, k, m)) = Len(list)
         /\ Relink(list, k, m)[k] = [id |-> list[k].id, next |-> m]
         /\ \A j \in 1..Len(list) : j # k => Relink(list, k, m)[j] = list[j]
<1> DEFINE x == [list[k] EXCEPT !.next = m]
           ls == Relink(list, k, m)
<1>1. list[k] \in ListItem
  OBVIOUS
<1>2. x \in ListItem /\ x = [id |-> list[k].id, next |-> m]
  BY <1>1 DEF ListItem
<1>3. ls = [list EXCEPT ![k] = x]
  BY DEF Relink
<1> HIDE DEF x, ls
<1>4. ls \in Seq(ListItem) /\ Len(ls) = Len(list) /\ ls[k] = x /\ \A j \in 1..Len(list) : j # k => ls[j] = list[j]
  BY <1>2, <1>3
<1> QED
  BY <1>2, <1>4 DEF ls

LEMMA AppendItem ==
  ASSUME NEW list \in Seq(ListItem), NEW x \in ListItem
  PROVE  LET ls == Append(list, x)
         IN  /\ ls \in Seq(ListItem) /\ Len(ls) = Len(list) + 1 /\ ls[Len(list) + 1] = x
             /\ \A j \in 1..Len(list) : ls[j] = list[j]
OBVIOUS

\* The cases of whefs_inode_block_list_append that can be met with a free block.
LEMMA AppendFirst ==
  ASSUME NEW s, NEW bl, Len(s.e.list) = 0, s.e.first = 0, bl.id # 0
  PROVE  AppendToList(s, bl) =
           FlushInode([[s EXCEPT !.e.list = Append(@, bl), !.bl = bl] EXCEPT !.e.first = bl.id])
<1>1. ~(0 > 0) /\ 0 # bl.id
  OBVIOUS
<1> QED
  BY <1>1, Zenon DEF AppendToList

LEMMA AppendBehind ==
  ASSUME NEW s, NEW bl, NEW n, n = Len(s.e.list), n \in Nat, n > 0, s.e.list[n].next = 0, bl.id # 0
  PROVE  AppendToList(s, bl) =
           [[s EXCEPT !.e.list = Append(@, bl), !.bl = bl]
              EXCEPT !.e.list[n].next = bl.id, !.blk[s.e.list[n].id].next = bl.id]
<1>1. n # 0
  OBVIOUS
<1> QED
  BY <1>1, Zenon DEF AppendToList

LEMMA AppendNowhere ==
  ASSUME NEW s, NEW bl, NEW n, n = Len(s.e.list), n \in Nat, n > 0,
         s.e.list[n].next # 0, s.e.list[n].next # bl.id
  PROVE  AppendToList(s, bl) = [s EXCEPT !.rc = "Assert"]
<1>1. n # 0
  OBVIOUS
<1> QED
  BY <1>1, Zenon DEF AppendToList

\* The list gets an item, which the one before it links to.
Agree(l, r, S) == \A k \in S : l[k] = r[k]

Longer(list, x, m) == [Append(list, x) EXCEPT ![Len(list)].next = m]

LEMMA LongerList ==
  ASSUME NEW list \in Seq(ListItem), list # <<>>, NEW x \in ListItem, NEW m \in 0..NumBlocks
  PROVE  /\ Longer(list, x, m) \in Seq(ListItem)
         /\ Len(Longer(list, x, m)) = Len(list) + 1
         /\ Longer(list, x, m)[Len(list) + 1] = x
         /\ Longer(list, x, m)[Len(list)] = [id |-> list[Len(list)].id, next |-> m]
         /\ Agree(Longer(list, x, m), list, 1..Len(list) - 1)
<1> DEFINE al == Append(list, x)
           n == Len(list)
           ls == Longer(list, x, m)
<1>1. al \in Seq(ListItem) /\ Len(al) = n + 1 /\ al[n + 1] = x /\ \A j \in 1..n : al[j] = list[j]
  OBVIOUS
<1>0. ls = Relink(al, n, m)
  BY DEF Longer, Relink
<1>2. n \in 1..n /\ n \in Nat
  OBVIOUS
<1> HIDE DEF al, ls, n
<1>3. n \in 1..Len(al)
  BY <1>1, <1>2
<1>4. /\ ls \in Seq(ListItem) /\ Len(ls) = Len(al) /\ ls[n] = [id |-> al[n].id, next |-> m]
      /\ \A j \in 1..Len(al) : j # n => ls[j] = al[j]
  BY <1>0, <1>1, <1>3, RelinkIs
<1>5. Agree(ls, list, 1..n - 1)
  <2>1. ASSUME NEW k \in 1..n - 1 PROVE ls[k] = list[k]
    <3>1. k \in 1..Len(al) /\ k \in 1..n /\ k # n
      BY <1>1, <1>2
    <3> QED
      BY <1>1, <1>4, <3>1
  <2> QED
    BY <2>1 DEF Agree
<1>6. ls[n + 1] = x
  <2>1. n + 1 \in 1..Len(al) /\ n + 1 # n
    BY <1>1, <1>2
  <2> QED
    BY <1>1, <1>4, <2>1
<1>7. ls[n] = [id |-> list[n].id, next |-> m]
  BY <1>1, <1>2, <1>4
<1> QED
  BY <1>1, <1>4, <1>5, <1>6, <1>7 DEF ls, n

\* What whefs_block_next_free and whefs_inode_block_list_append leave.
Grown(s, t, q, r, o, w) ==
  /\ Fits(t, r, o, w) /\ Loaded(t, r) /\ Extends(q, r) /\ Grows(s, t, o)
  /\ t.rc \in {"OK", "FSFull", "Assert"}
  /\ t.rc = "FSFull" => AllUsed(t)

LongerBy(s, t, n) == /\ Len(t.e.list) = Len(s.e.list) + n
                     /\ t.bl = t.e.list[Len(t.e.list)]

Added(s, t, q, r, o, w) ==
  Grown(s, t, q, r, o, w) /\ (t.rc = "OK" => LongerBy(s, t, 1))

LEMMA AddBlockAdds ==
  ASSUME NEW o \in SUBSET BlockId, NEW w \in BOOLEAN,
         NEW s, NEW q, Fits(s, q, o, w), Loaded(s, q), s.rc = "OK"
  PROVE  \E r : Added(s, AddBlock(s), q, r, o, w)
<1> DEFINE b == NextFree(s.blk, s.hint)
           n == Len(s.e.list)
           bl == [id |-> b, next |-> s.blk[b].next]
           ms == MarkUsed(s.blk, b)
           s1 == [s EXCEPT !.blk = ms, !.hint = b + 1]
           t == AddBlock(s)
<1> NumBlocks \in Nat /\ BlockId \subseteq Nat \ {0} /\ BlockId = 1..NumBlocks
  BY BlockCountAssumption DEF BlockId
<1>1. s \in Sess /\ Linked(s.blk, s.e.first, q) /\ s.di.first = s.e.first
      /\ Listed(s.e.list, s.blk, q) /\ Held(s.blk, s.hint, q, o)
      /\ (w => Whole(s.blk, s.e.list, q, o) /\ s.rc # "Assert")
  BY DEF Fits
<1>2. /\ q \in Seq(BlockId) /\ Len(q) \in Nat /\ q \in [1..Len(q) -> BlockId]
      /\ n \in Nat /\ n <= Len(q) /\ s.e.list \in Seq(ListItem)
      /\ s.e.list \in [1..n -> ListItem]
  BY <1>1, LinkedLength, SessTypes DEF Listed
<1>3. \/ b = 0 /\ \A d \in BlockId : s.blk[d].used
      \/ b \in BlockId /\ ~s.blk[b].used /\ \A d \in BlockId : d < b => s.blk[d].used
  <2>1. s.blk \in [BlockId -> Block] /\ s.hint \in 1..NumBlocks + 1
    BY <1>1, SessTypes
  <2>2. \A d \in BlockId : d < s.hint => s.blk[d].used
    BY <1>1 DEF Held
  <2> QED
    BY <2>1, <2>2, NextFreeIs
<1>4. CASE b = 0
  <2>1. t = [s EXCEPT !.rc = "FSFull"]
    BY <1>4 DEF AddBlock
  <2> HIDE DEF t, b
  <2>2. t \in Sess /\ t.blk = s.blk /\ t.hint = s.hint /\ t.e = s.e /\ t.di = s.di /\ t.rc = "FSFull"
        /\ t.pos = s.pos /\ t.left = s.left /\ t.val = s.val /\ t.out = s.out
    BY <1>1, <2>1 DEF Sess, Code
  <2>3. Fits(t, q, o, w) /\ Loaded(t, q)
    BY <1>1, <2>2 DEF Fits, Loaded
  <2>4. Extends(q, q) /\ Grows(s, t, o) /\ AllUsed(t)
    BY <1>2, <1>3, <1>4, <2>2 DEF Extends, Grows, AllUsed
  <2> QED
    BY <2>2, <2>3, <2>4 DEF Added, Grown, LongerBy, t
<1>5. CASE b \in BlockId
  <2>1. t = AppendToList(s1, bl)
    BY <1>5 DEF AddBlock
  <2>2. /\ ~s.blk[b].used /\ (\A d \in BlockId : d < b => s.blk[d].used)
        /\ b \notin Ids(q) /\ b \notin o
    BY <1>1, <1>3, <1>5 DEF Held
  <2>3. s.blk[b] = EmptyBlock /\ bl = [id |-> b, next |-> 0] /\ bl \in ListItem
    BY <1>1, <1>5, <2>2, EmptyBlockType DEF Held, ListItem
  <2>4. /\ ms \in [BlockId -> Block] /\ ms[b].used /\ ms[b].next = 0
        /\ \A d \in BlockId : d # b => ms[d] = s.blk[d]
        /\ \A d \in BlockId : ms[d].next = s.blk[d].next /\ ms[d].data = s.blk[d].data
        /\ \A d \in BlockId : s.blk[d].used => ms[d].used
    <3>1. s.blk \in [BlockId -> Block]
      BY <1>1, SessTypes
    <3>2. ms = [s.blk EXCEPT ![b].used = TRUE]
      BY DEF MarkUsed
    <3> HIDE DEF ms
    <3> QED
      BY <1>5, <2>3, <3>1, <3>2, EmptyBlockType DEF Block
  <2>5. /\ s1 \in Sess /\ s1.e = s.e /\ s1.di = s.di /\ s1.blk = ms /\ s1.hint = b + 1 /\ s1.rc = "OK"
        /\ s1.pos = s.pos /\ s1.left = s.left /\ s1.val = s.val /\ s1.out = s.out
    <3> HIDE DEF ms, b
    <3>1. b + 1 \in 1..NumBlocks + 1 /\ ms \in [BlockId -> Block]
      BY <1>5, <2>4
    <3>2. s1 \in Sess
      BY <1>1, <3>1 DEF Sess
    <3> QED
      BY <1>1, <3>2 DEF Sess
  <2> HIDE DEF ms, s1, b, bl
  <2>6. \A d \in BlockId : d < b + 1 => ms[d].used
    BY <1>5, <2>2, <2>4
  <2>7. Ids(q) \subseteq BlockId /\ b \notin Ids(q)
    BY <1>2, <2>2 DEF Ids
  <2>8. Linked(ms, s.e.first, q)
    BY <1>1, <2>4, <2>7, LinkedStays
  <2>9. n = 0 => s.e.list = <<>>
    BY <1>2
  <2>10. \/ n = 0 /\ q = <<>> /\ s.e.first = 0
         \/ n > 0 /\ n = Len(q) /\ s.e.list[n].next = 0
         \/ n > 0 /\ n < Len(q) /\ s.e.list[n].next # 0 /\ s.e.list[n].next # b
    <3>1. CASE n = 0
      BY <1>1, <2>9, <3>1 DEF Loaded, Linked
    <3>2. CASE n > 0 /\ n = Len(q)
      <4>1. n \in 1..n /\ q # <<>>
        BY <1>2, <3>2
      <4>2. s.e.list[n].next = s.blk[q[n]].next
        BY <1>1, <4>1 DEF Listed
      <4>3. s.blk[q[n]].next = 0
        BY <1>1, <3>2, <4>1 DEF Linked
      <4> QED
        BY <3>2, <4>2, <4>3
    <3>3. CASE n > 0 /\ n < Len(q)
      <4>1. n \in 1..n /\ n \in 1..Len(q) - 1 /\ n + 1 \in 1..Len(q)
        BY <1>2, <3>3
      <4>2. s.e.list[n].next = s.blk[q[n]].next
        BY <1>1, <4>1 DEF Listed
      <4>3. s.blk[q[n]].next = q[n + 1]
        BY <1>1, <4>1 DEF Linked
      <4>4. q[n + 1] \in Ids(q) /\ q[n + 1] \in BlockId
        BY <1>2, <4>1 DEF Ids
      <4> QED
        BY <2>2, <3>3, <4>2, <4>3, <4>4
    <3> QED
      BY <1>2, <3>1, <3>2, <3>3
  <2>11. CASE n = 0 /\ q = <<>> /\ s.e.first = 0
    <3> DEFINE ls == Append(s1.e.list, bl)
               t1 == [s1 EXCEPT !.e.list = ls, !.bl = bl]
               r == <<b>>
    <3>01. Len(s1.e.list) = 0 /\ s1.e.first = 0 /\ bl.id # 0 /\ bl.id = b
      BY <1>5, <2>3, <2>5, <2>11
    <3>1. t = FlushInode([t1 EXCEPT !.e.first = b])
      <4> HIDE DEF t
      <4>1. AppendToList(s1, bl) =
              FlushInode([[s1 EXCEPT !.e.list = Append(@, bl), !.bl = bl] EXCEPT !.e.first = bl.id])
        BY <3>01, AppendFirst, Zenon
      <4> QED
        BY <2>1, <3>01, <4>1, Zenon
    <3>2. ls \in Seq(ListItem) /\ Len(ls) = 1 /\ ls[1] = bl
      BY <1>2, <2>3, <2>5, <2>11, AppendItem
    <3> HIDE DEF ls, t
    <3>30. s1.e = [count |-> s.e.count, writer |-> s.e.writer, size |-> s.e.size,
                   first |-> s.e.first, list |-> s.e.list]
      BY <1>1, <2>5 DEF Sess, Entry
    <3>3. /\ t.e = [count |-> s.e.count, writer |-> s.e.writer, size |-> s.e.size,
                    first |-> b, list |-> ls]
          /\ t.di = [used |-> TRUE, size |-> s.e.size, first |-> b]
          /\ t.blk = ms /\ t.hint = b + 1 /\ t.rc = "OK" /\ t.bl = bl /\ t.pos = s.pos
          /\ t.left = s.left /\ t.val = s.val /\ t.out = s.out
      BY <1>1, <2>3, <2>5, <3>1, <3>30 DEF FlushInode, Sess, Entry
    <3>4. t \in Sess
      <4>1. t.e \in Entry /\ t.di \in DiskInode
        BY <1>1, <1>5, <3>2, <3>3, SessTypes DEF Entry, DiskInode
      <4>2. t.bl \in [id : 0..NumBlocks, next : 0..NumBlocks]
        BY <1>5, <2>3, <3>3
      <4>3. t = [s1 EXCEPT !.e = t.e, !.di = t.di, !.bl = t.bl]
        BY <1>1, <2>5, <3>1, <3>3 DEF FlushInode, Sess, Entry
      <4> QED
        BY <2>5, <4>1, <4>2, <4>3 DEF Sess
    <3>5. Linked(ms, b, r) /\ Ids(r) = {b}
      BY <1>5, <2>4, LinkedOne
    <3>6. r \in Seq(BlockId) /\ Len(r) = 1 /\ r[1] = b
      BY <1>5
    <3> HIDE DEF r
    <3>7. Listed(ls, ms, r)
      BY <2>3, <2>4, <3>2, <3>6 DEF Listed
    <3>8. Held(ms, b + 1, r, o)
      BY <1>1, <1>5, <2>2, <2>4, <2>6, <3>5 DEF Held
    <3>9. w => Whole(ms, ls, r, o)
      <4> SUFFICES ASSUME w PROVE Whole(ms, ls, r, o)
        OBVIOUS
      <4>1. \A d \in BlockId : s.blk[d].used => d \in o
        BY <1>1, <2>11, <1>2 DEF Whole, Ids
      <4> QED
        BY <2>4, <3>2, <3>5, <3>6, <4>1 DEF Whole
    <3>10. Fits(t, r, o, w)
      BY <3>3, <3>4, <3>5, <3>7, <3>8, <3>9 DEF Fits
    <3>11. Loaded(t, r) /\ Extends(q, r)
      BY <2>11, <3>2, <3>3, <3>6 DEF Loaded, Extends
    <3>12. Grows(s, t, o)
      BY <1>5, <2>2, <2>4, <2>11, <3>3 DEF Grows
    <3>13. Added(s, t, q, r, o, w)
      <4>1. t.e.list = ls /\ Len(t.e.list) = Len(s.e.list) + 1
        BY <2>11, <3>2, <3>3
      <4>2. t.bl = t.e.list[Len(t.e.list)]
        BY <3>2, <3>3, <4>1
      <4> HIDE DEF t1, n
      <4> QED
        BY <3>3, <3>10, <3>11, <3>12, <4>1, <4>2 DEF Added, Grown, LongerBy
    <3> QED
      BY <3>13 DEF t
  <2>12. CASE n > 0 /\ n = Len(q) /\ s.e.list[n].next = 0
    <3> DEFINE c == q[n]
               ls == [Append(s1.e.list, bl) EXCEPT ![n].next = b]
               cs == [ms EXCEPT ![c].next = b]
               r == Append(q, b)
    <3>0. n \in 1..n /\ n # 0 /\ q # <<>>
      BY <1>2, <2>12
    <3>1. c \in BlockId /\ c \in Ids(q) /\ c # b /\ s.e.list[n].id = c
      BY <1>1, <1>2, <2>2, <2>12, <3>0 DEF Ids, Listed
    <3> DEFINE al == Append(s1.e.list, bl)
               u == [s1 EXCEPT !.e.list = al, !.bl = bl]
    <3>2. t = [u EXCEPT !.e.list[n].next = b, !.blk[c].next = b]
      <4>1. bl.id = b /\ bl.id # 0 /\ n = Len(s1.e.list) /\ s1.e.list[n].next = 0
            /\ s1.e.list[n].id = c
        BY <1>5, <2>3, <2>5, <2>12, <3>1
      <4> HIDE DEF t, c, n
      <4>2. AppendToList(s1, bl) =
              [[s1 EXCEPT !.e.list = Append(@, bl), !.bl = bl]
                 EXCEPT !.e.list[n].next = bl.id, !.blk[s1.e.list[n].id].next = bl.id]
        BY <1>2, <2>12, <4>1, AppendBehind, Zenon
      <4> QED
        BY <2>1, <4>1, <4>2, Zenon
    <3> HIDE DEF t
    <3>20. /\ u.e = [count |-> s.e.count, writer |-> s.e.writer, size |-> s.e.size,
                     first |-> s.e.first, list |-> al]
           /\ u.di = s.di /\ u.blk = ms /\ u.hint = b + 1 /\ u.rc = "OK" /\ u.bl = bl
           /\ u.pos = s.pos /\ u.left = s.left /\ u.val = s.val /\ u.out = s.out
           /\ DOMAIN u = DOMAIN s1
      <4> HIDE DEF al
      <4> QED
        BY <1>1, <2>5 DEF Sess, Entry
    <3>3. /\ ls \in Seq(ListItem) /\ Len(ls) = n + 1 /\ ls[n + 1] = bl
          /\ ls[n] = [id |-> c, next |-> b] /\ \A k \in 1..n - 1 : ls[k] = s.e.list[k]
      <4>1. s1.e.list \in Seq(ListItem) /\ n = Len(s1.e.list) /\ b \in 0..NumBlocks
            /\ s1.e.list[n].id = c /\ \A k \in 1..n - 1 : s1.e.list[k] = s.e.list[k]
        BY <1>2, <1>5, <2>5, <3>1
      <4> DEFINE li == s1.e.list
      <4>2. ls = Longer(li, bl, b) /\ n = Len(li) /\ li # <<>>
        BY <1>2, <2>12, <4>1 DEF Longer
      <4> HIDE DEF ls, li, n
      <4>3. /\ ls \in Seq(ListItem) /\ Len(ls) = Len(li) + 1 /\ ls[Len(li) + 1] = bl
            /\ ls[Len(li)] = [id |-> li[Len(li)].id, next |-> b]
            /\ Agree(ls, li, 1..Len(li) - 1)
        <5>1. li \in Seq(ListItem) /\ b \in 0..NumBlocks
          BY <4>1 DEF li
        <5> QED
          BY <2>3, <4>2, <5>1, LongerList
      <4>4. li[n].id = c /\ \A k \in 1..n - 1 : li[k] = s.e.list[k]
        BY <4>1 DEF li
      <4> HIDE DEF c
      <4> QED
        BY <4>2, <4>3, <4>4 DEF Agree
    <3> HIDE DEF n
    <3>03. n = Len(s.e.list)
      BY DEF n
    <3>4. /\ cs \in [BlockId -> Block] /\ cs[c].next = b /\ cs[b].next = 0
          /\ \A d \in BlockId : d # c => cs[d] = ms[d]
          /\ \A d \in BlockId : cs[d].used = ms[d].used /\ cs[d].data = ms[d].data
      <4>1. b \in 0..NumBlocks
        BY <1>5
      <4>2. /\ cs \in [BlockId -> Block] /\ cs[c].next = b
            /\ \A d \in BlockId : d # c => cs[d] = ms[d]
            /\ \A d \in BlockId : cs[d].used = ms[d].used /\ cs[d].data = ms[d].data
        BY <2>4, <3>1, <4>1, SetNext
      <4> HIDE DEF cs
      <4> QED
        BY <1>5, <2>4, <3>1, <4>2
    <3> HIDE DEF ls, cs, t
    <3>5. /\ t.e = [count |-> s.e.count, writer |-> s.e.writer, size |-> s.e.size,
                    first |-> s.e.first, list |-> ls]
          /\ t.di = s.di /\ t.blk = cs /\ t.hint = b + 1 /\ t.rc = "OK" /\ t.bl = bl /\ t.pos = s.pos
          /\ t.left = s.left /\ t.val = s.val /\ t.out = s.out /\ DOMAIN t = DOMAIN s1
      <4>1. ls = [al EXCEPT ![n].next = b] /\ cs = [ms EXCEPT ![c].next = b]
        BY DEF ls, cs
      <4> HIDE DEF u, al
      <4> QED
        <5> HIDE DEF ls, cs, c
        <5>1. /\ t.e = [u.e EXCEPT !.list[n].next = b] /\ t.blk = [u.blk EXCEPT ![c].next = b]
              /\ t.di = u.di /\ t.hint = u.hint /\ t.rc = u.rc /\ t.bl = u.bl /\ t.pos = u.pos
              /\ t.left = u.left /\ t.val = u.val /\ t.out = u.out /\ DOMAIN t = DOMAIN u
          BY <2>5, <3>2, <3>20 DEF Sess
        <5>2. [u.e EXCEPT !.list[n].next = b] =
                [count |-> s.e.count, writer |-> s.e.writer, size |-> s.e.size,
                 first |-> s.e.first, list |-> [al EXCEPT ![n].next = b]]
          BY <3>20
        <5> QED
          BY <3>20, <4>1, <5>1, <5>2
    <3>6. t \in Sess
      <4>1. t.e \in Entry
        BY <1>1, <3>3, <3>5, SessTypes DEF Entry
      <4>2. t.bl \in [id : 0..NumBlocks, next : 0..NumBlocks]
        BY <1>5, <2>3, <3>5
      <4>3. t = [s1 EXCEPT !.e = t.e, !.blk = cs, !.bl = t.bl]
        <5>1. t = [k \in DOMAIN s1 |-> t[k]]
          BY <3>2, <3>5
        <5> QED
          BY <2>5, <3>5, <5>1 DEF Sess
      <4> QED
        BY <2>5, <3>4, <4>1, <4>2, <4>3 DEF Sess
    <3>7. Linked(cs, s.e.first, r) /\ Ids(r) = Ids(q) \cup {b}
      <4>1. \A d \in Ids(q) : d # q[Len(q)] => cs[d].next = ms[d].next
        BY <2>7, <2>12, <3>4
      <4>2. cs[q[Len(q)]].next = b
        BY <2>12, <3>4
      <4> QED
        BY <1>5, <2>7, <2>8, <3>0, <3>4, <4>1, <4>2, LinkedMore
    <3>8. r \in Seq(BlockId) /\ Len(r) = n + 1 /\ r[n + 1] = b /\ \A k \in 1..n : r[k] = q[k]
      BY <1>2, <1>5, <2>12
    <3> HIDE DEF r
    <3>9. Listed(ls, cs, r)
      <4>1. ASSUME NEW k \in 1..n - 1 PROVE ls[k].id = r[k] /\ ls[k].next = cs[r[k]].next
        <5>1. k \in 1..n /\ n \in 1..n /\ k # n
          BY <1>2, <3>0
        <5>2. s.e.list[k].id = q[k] /\ s.e.list[k].next = s.blk[q[k]].next
          BY <1>1, <3>03, <5>1 DEF Listed
        <5>3. q[k] # c /\ q[k] \in BlockId
          BY <1>1, <1>2, <2>12, <5>1 DEF Linked
        <5>4. r[k] = q[k] /\ ls[k] = s.e.list[k]
          BY <3>3, <3>8, <5>1
        <5>5. cs[q[k]].next = s.blk[q[k]].next
          BY <2>4, <3>4, <5>3
        <5> QED
          BY <5>2, <5>4, <5>5
      <4>2. ls[n].id = r[n] /\ ls[n].next = cs[r[n]].next
        <5>1. r[n] = c
          BY <3>0, <3>8
        <5> HIDE DEF c
        <5> QED
          BY <3>3, <3>4, <5>1
      <4>3. ls[n + 1].id = r[n + 1] /\ ls[n + 1].next = cs[r[n + 1]].next
        BY <2>3, <3>3, <3>4, <3>8
      <4>4. \A k \in 1..n + 1 : k \in 1..n - 1 \/ k = n \/ k = n + 1
        BY <1>2
      <4>5. Len(ls) = n + 1 /\ Len(r) = n + 1
        BY <3>3, <3>8
      <4>6. \A k \in 1..n + 1 : ls[k].id = r[k] /\ ls[k].next = cs[r[k]].next
        BY <4>1, <4>2, <4>3, <4>4
      <4>7. Len(ls) <= Len(r)
        BY <1>2, <4>5
      <4> QED
        BY <4>5, <4>6, <4>7 DEF Listed
    <3>10. Held(cs, b + 1, r, o)
      <4>1. \A d \in BlockId : cs[d].used \/ cs[d] = EmptyBlock
        <5>1. ms[c].used
          BY <1>1, <2>4, <3>1 DEF Held
        <5>2. \A d \in BlockId : ms[d].used \/ ms[d] = EmptyBlock
          BY <1>1, <2>4 DEF Held
        <5> QED
          BY <3>1, <3>4, <5>1, <5>2
      <4>2. \A d \in Ids(r) : cs[d].used /\ d \notin o
        BY <1>1, <1>5, <2>2, <2>4, <2>7, <3>4, <3>7 DEF Held
      <4>3. \A d \in o : cs[d].used
        BY <1>1, <2>4, <3>4 DEF Held
      <4>4. \A d \in BlockId : d < b + 1 => cs[d].used
        BY <2>6, <3>4
      <4> QED
        BY <4>1, <4>2, <4>3, <4>4 DEF Held
    <3>11. w => Whole(cs, ls, r, o)
      <4> SUFFICES ASSUME w PROVE Whole(cs, ls, r, o)
        OBVIOUS
      <4>1. \A d \in BlockId : s.blk[d].used => d \in Ids(q) \cup o
        BY <1>1 DEF Whole
      <4> QED
        BY <2>4, <3>3, <3>4, <3>7, <3>8, <4>1 DEF Whole
    <3>12. Fits(t, r, o, w)
      BY <1>1, <3>5, <3>6, <3>7, <3>9, <3>10, <3>11 DEF Fits
    <3>13. Loaded(t, r) /\ Extends(q, r)
      BY <1>2, <2>12, <3>3, <3>5, <3>8 DEF Loaded, Extends
    <3>14. Grows(s, t, o)
      <4>1. c \notin o
        BY <1>1, <3>1 DEF Held
      <4> HIDE DEF u, al, c
      <4>2. \A d \in o : cs[d] = s.blk[d]
        BY <2>2, <2>4, <3>4, <4>1
      <4>3. \A d \in BlockId : cs[d].data = s.blk[d].data
        BY <2>4, <3>4
      <4> QED
        BY <3>5, <4>2, <4>3 DEF Grows
    <3>15. Added(s, t, q, r, o, w)
      <4> HIDE DEF u, al, c
      <4>1. t.e.list = ls /\ t.bl = ls[Len(ls)] /\ Len(ls) = Len(s.e.list) + 1
        BY <3>3, <3>03, <3>5
      <4> QED
        BY <3>5, <3>12, <3>13, <3>14, <4>1 DEF Added, Grown, LongerBy
    <3> QED
      BY <3>15 DEF t
  <2>13. CASE n > 0 /\ n < Len(q) /\ s.e.list[n].next # 0 /\ s.e.list[n].next # b
    <3>1. t = [s1 EXCEPT !.rc = "Assert"]
      BY <2>1, <2>3, <2>5, <2>13 DEF AppendToList
    <3> HIDE DEF t
    <3>2. /\ t \in Sess /\ t.e = s.e /\ t.di = s.di /\ t.blk = ms /\ t.hint = b + 1
          /\ t.rc = "Assert" /\ t.pos = s.pos /\ t.left = s.left /\ t.val = s.val
          /\ t.out = s.out
      BY <2>5, <3>1 DEF Sess, Code
    <3>3. ~w
      BY <1>1, <1>2, <2>13 DEF Whole
    <3>4. Listed(s.e.list, ms, q)
      <4>1. \A k \in 1..Len(s.e.list) : /\ s.e.list[k].id = q[k]
                                        /\ s.e.list[k].next = s.blk[q[k]].next
        BY <1>1 DEF Listed
      <4>2. \A k \in 1..Len(s.e.list) : q[k] \in BlockId
        BY <1>2
      <4>3. \A d \in BlockId : ms[d].next = s.blk[d].next
        BY <2>4
      <4>4. Len(s.e.list) <= Len(q)
        BY <1>2
      <4> QED
        BY <4>1, <4>2, <4>3, <4>4 DEF Listed
    <3>5. Held(ms, b + 1, q, o)
      BY <1>1, <1>5, <2>2, <2>4, <2>6, <2>7 DEF Held
    <3>6. Fits(t, q, o, w)
      BY <1>1, <2>8, <3>2, <3>3, <3>4, <3>5 DEF Fits
    <3>7. Loaded(t, q) /\ Extends(q, q) /\ Grows(s, t, o)
      BY <1>2, <2>2, <2>4, <3>2 DEF Loaded, Extends, Grows
    <3> QED
      BY <3>2, <3>6, <3>7 DEF Added, Grown, LongerBy, t
  <2> QED
    BY <2>10, <2>11, <2>12, <2>13
<1> QED
  BY <1>3, <1>4, <1>5

LEMMA ExtendsOn ==
  ASSUME NEW q, NEW r, NEW v, Len(q) \in Nat, Len(r) \in Nat, Len(v) \in Nat,
         Extends(q, r), Extends(r, v)
  PROVE  Extends(q, v)
<1>1. \A k \in 1..Len(q) : k \in 1..Len(r)
  BY DEF Extends
<1> QED
  BY <1>1 DEF Extends

LEMMA ExtendsSelf ==
  ASSUME NEW q, Len(q) \in Nat
  PROVE  Extends(q, q)
BY DEF Extends

\* The loop of whefs_block_for_pos that expands the list.
LEMMA AddBlocksAdd ==
  ASSUME NEW o \in SUBSET BlockId, NEW w \in BOOLEAN,
         NEW s, NEW q, Fits(s, q, o, w), Loaded(s, q), s.rc = "OK", NEW n \in Nat \ {0}
  PROVE  LET t == Repeat(AddBlock, s, n)
         IN  \E r : Grown(s, t, q, r, o, w) /\ (t.rc = "OK" => LongerBy(s, t, n))
<1> DEFINE S == {u \in Sess : \E r : Grown(s, u, q, r, o, w)}
<1>1. s \in S
  <2>1. Grown(s, s, q, q, o, w)
    BY LinkedLength, GrowsSelf, ExtendsSelf DEF Grown, Fits
  <2> QED
    BY <2>1 DEF Fits
<1>2. ASSUME NEW u \in S, u.rc = "OK"
      PROVE  AddBlock(u) \in S /\ (AddBlock(u).rc = "OK" => LongerBy(u, AddBlock(u), 1))
  <2>1. PICK r : Grown(s, u, q, r, o, w)
    OBVIOUS
  <2>2. PICK v : Added(u, AddBlock(u), r, v, o, w)
    BY <1>2, <2>1, AddBlockAdds DEF Grown
  <2> DEFINE t == AddBlock(u)
  <2> HIDE DEF t
  <2>3. Added(u, t, r, v, o, w)
    BY <2>2 DEF t
  <2>4. Len(q) \in Nat /\ Len(r) \in Nat /\ Len(v) \in Nat
    BY <2>1, <2>3, LinkedLength DEF Fits, Grown, Added
  <2>5. Grown(s, t, q, v, o, w)
    BY <2>1, <2>3, <2>4, ExtendsOn, GrowsOn DEF Grown, Added
  <2>6. t \in Sess
    BY <2>5 DEF Grown, Fits
  <2> QED
    BY <2>3, <2>5, <2>6 DEF Added, t
<1>0. PICK t : AddBlockRun(S, s, n, t)
  <2>1. AddBlockKeeps(S) /\ n \in Nat
    BY <1>2 DEF AddBlockKeeps
  <2> HIDE DEF S
  <2> QED
    BY <1>1, <2>1, AddBlocks
<1>3. /\ t \in [0..n -> S] /\ t[0] = s
      /\ \A k \in 1..n : t[k] = IF t[k - 1].rc = "OK" THEN AddBlock(t[k - 1]) ELSE t[k - 1]
      /\ Repeat(AddBlock, s, n) = t[n]
  BY <1>0 DEF AddBlockRun
<1> DEFINE T == {k \in Nat : k + 1 <= n => (t[k + 1].rc = "OK" => LongerBy(s, t[k + 1], k + 1))}
<1>4. \A k \in 0..n : t[k] \in S
  BY <1>3
<1>5. ASSUME NEW u \in S PROVE Len(u.e.list) \in Nat
  BY DEF Sess, Entry
<1> HIDE DEF S
<1>6. 0 \in T
  <2>1. 1 \in 1..n /\ 1 - 1 = 0
    OBVIOUS
  <2>2. t[1] = AddBlock(s)
    BY <1>3, <2>1
  <2> QED
    BY <1>1, <1>2, <2>2
<1>7. ASSUME NEW k \in Nat, k \in T PROVE k + 1 \in T
  <2>1. SUFFICES ASSUME k + 2 <= n, t[k + 2].rc = "OK" PROVE LongerBy(s, t[k + 2], k + 2)
    BY SMT
  <2>2. k + 2 \in 1..n /\ (k + 2) - 1 = k + 1 /\ k + 1 \in 0..n
    BY <2>1
  <2>3. t[k + 2] = IF t[k + 1].rc = "OK" THEN AddBlock(t[k + 1]) ELSE t[k + 1]
    BY <1>3, <2>2
  <2>4. t[k + 1].rc = "OK" /\ t[k + 2] = AddBlock(t[k + 1])
    BY <2>1, <2>3
  <2>5. LongerBy(s, t[k + 1], k + 1)
    BY <1>7, <2>1, <2>4
  <2>6. LongerBy(t[k + 1], t[k + 2], 1)
    BY <1>2, <1>4, <2>1, <2>2, <2>4
  <2> DEFINE a == Len(s.e.list)
             b == Len(t[k + 1].e.list)
             c == Len(t[k + 2].e.list)
  <2>7. b = a + (k + 1) /\ c = b + 1
    BY <2>5, <2>6 DEF LongerBy
  <2>8. a \in Nat
    BY <1>1, <1>5
  <2>9. c = a + (k + 2)
    <3> HIDE DEF a, b, c
    <3> QED
      BY <2>7, <2>8
  <2> QED
    BY <2>6, <2>9 DEF LongerBy
<1>8. Nat \subseteq T
  <2> HIDE DEF T
  <2> QED
    BY <1>6, <1>7, Induction
<1>9. t[n].rc = "OK" => LongerBy(s, t[n], n)
  <2>1. n - 1 \in T /\ (n - 1) + 1 = n
    BY <1>8
  <2> QED
    BY <2>1
<1>10. t[n] \in S
  BY <1>4
<1>11. \E r : Grown(s, t[n], q, r, o, w)
  BY <1>10 DEF S
<1> QED
  BY <1>3, <1>9, <1>11

-----------------------------------------------------------------------------
(***************************************************************************)
(* Finding the block of a position.                                        *)
(***************************************************************************)

\* Only the list of the opened inode, the block found and the result differ.
OnlyList(s, t) ==
  /\ t.blk = s.blk /\ t.hint = s.hint /\ t.di = s.di
  /\ t.pos = s.pos /\ t.left = s.left /\ t.val = s.val /\ t.out = s.out
  /\ t.e.count = s.e.count /\ t.e.writer = s.e.writer /\ t.e.size = s.e.size
  /\ t.e.first = s.e.first

\* The block at the place bc of the list has been found.
Found(t, bc) == bc <= Len(t.e.list) /\ t.bl = t.e.list[bc]

LEMMA OnlyListGrows ==
  ASSUME NEW o, NEW s, NEW t, OnlyList(s, t)
  PROVE  Grows(s, t, o)
BY DEF OnlyList, Grows

\* whefs_inode_block_list_load loads the whole chain.
LEMMA LoadListFits ==
  ASSUME NEW o \in SUBSET BlockId, NEW w \in BOOLEAN, NEW s, NEW q, Fits(s, q, o, w)
  PROVE  LET t == LoadList(s)
         IN  /\ Fits(t, q, o, w) /\ Loaded(t, q) /\ OnlyList(s, t)
             /\ t.rc = s.rc /\ t.bl = s.bl
             /\ s.e.list = <<>> => Len(t.e.list) = Len(q)
<1> DEFINE t == LoadList(s)
           n == Len(q)
           ls == [k \in 1..n |-> [id |-> q[k], next |-> s.blk[q[k]].next]]
<1>1. s \in Sess /\ Linked(s.blk, s.e.first, q)
  BY DEF Fits
<1>2. q \in Seq(BlockId) /\ n \in Nat /\ q \in [1..n -> BlockId]
  BY <1>1, LinkedLength
<1>3. CASE s.e.list # <<>>
  <2>1. t = s
    BY <1>3 DEF LoadList
  <2> HIDE DEF t
  <2>2. Fits(t, q, o, w) /\ Loaded(t, q) /\ OnlyList(s, t) /\ t.rc = s.rc /\ t.bl = s.bl
    BY <1>3, <2>1 DEF Loaded, OnlyList
  <2> QED
    BY <1>3, <2>2 DEF t
<1>4. CASE s.e.list = <<>>
  <2>1. Chain(s.blk, s.e.first) = q
    BY <1>1, ChainIs, SessTypes
  <2>2. t = [s EXCEPT !.e.list = ls]
    BY <1>4, <2>1, Zenon DEF LoadList
  <2>3. ls \in Seq(ListItem) /\ Len(ls) = n
    <3>1. ASSUME NEW k \in 1..n PROVE [id |-> q[k], next |-> s.blk[q[k]].next] \in ListItem
      BY <1>1, <1>2, SessTypes DEF ListItem
    <3> QED
      BY <1>2, <3>1
  <2>4. \A k \in 1..n : ls[k].id = q[k] /\ ls[k].next = s.blk[q[k]].next
    OBVIOUS
  <2> HIDE DEF ls, t, n
  <2>5. /\ t \in Sess /\ t.e.list = ls /\ OnlyList(s, t) /\ t.rc = s.rc /\ t.bl = s.bl
    BY <1>1, <2>2, <2>3 DEF Sess, Entry, OnlyList
  <2>6. Len(ls) = Len(q)
    BY <2>3 DEF n
  <2>7. Listed(ls, s.blk, q)
    BY <1>2, <2>3, <2>4, <2>6 DEF Listed, n
  <2>8. t.blk = s.blk /\ t.hint = s.hint /\ t.e.first = s.e.first /\ t.di = s.di
    BY <2>5 DEF OnlyList
  <2>9. Fits(t, q, o, w)
    BY <2>5, <2>6, <2>7, <2>8 DEF Fits, Whole
  <2>10. Loaded(t, q)
    <3>1. ls = <<>> => q = <<>>
      BY <1>2, <2>6
    <3> QED
      BY <2>5, <3>1 DEF Loaded
  <2> QED
    BY <2>5, <2>6, <2>9, <2>10 DEF t
<1> QED
  BY <1>3, <1>4

\* A found block makes no difference to what the session is.
FoundAt(s, bc) == [s EXCEPT !.bl = s.e.list[bc]]

LEMMA FitsFound ==
  ASSUME NEW o \in SUBSET BlockId, NEW w \in BOOLEAN, NEW s, NEW q, Fits(s, q, o, w),
         NEW bc \in Nat \ {0}, bc <= Len(s.e.list)
  PROVE  LET t == FoundAt(s, bc)
         IN  Fits(t, q, o, w) /\ OnlyList(s, t) /\ t.rc = s.rc /\ t.e = s.e /\ Found(t, bc)
<1> DEFINE t == FoundAt(s, bc)
<1>1. s \in Sess /\ s.e.list \in Seq(ListItem)
  BY SessTypes DEF Fits
<1>2. s.e.list[bc] \in ListItem
  BY <1>1
<1>3. s.e.list[bc] \in [id : 0..NumBlocks, next : 0..NumBlocks]
  BY <1>2, BlockCountAssumption DEF ListItem, BlockId
<1>4. /\ t \in Sess /\ t.blk = s.blk /\ t.hint = s.hint /\ t.di = s.di /\ t.pos = s.pos
      /\ t.left = s.left /\ t.val = s.val /\ t.out = s.out /\ t.e = s.e /\ t.rc = s.rc
      /\ t.bl = s.e.list[bc]
  BY <1>1, <1>3 DEF Sess, FoundAt
<1> HIDE DEF t
<1> QED
  BY <1>4 DEF Fits, OnlyList, Found, t

FailedWith(s, c) == [s EXCEPT !.rc = c]

LEMMA FitsFailed ==
  ASSUME NEW o \in SUBSET BlockId, NEW w \in BOOLEAN, NEW s, NEW q, Fits(s, q, o, w),
         NEW c \in Code, w => c # "Assert"
  PROVE  LET t == FailedWith(s, c)
         IN  Fits(t, q, o, w) /\ OnlyList(s, t) /\ t.rc = c /\ t.e = s.e /\ t.bl = s.bl
<1> DEFINE t == FailedWith(s, c)
<1>1. s \in Sess
  BY DEF Fits
<1>4. /\ t \in Sess /\ t.blk = s.blk /\ t.hint = s.hint /\ t.di = s.di /\ t.pos = s.pos
      /\ t.left = s.left /\ t.val = s.val /\ t.out = s.out /\ t.e = s.e /\ t.rc = c
      /\ t.bl = s.bl
  BY <1>1 DEF Sess, FailedWith
<1> HIDE DEF t
<1> QED
  BY <1>4 DEF Fits, OnlyList, t

LEMMA FailCode == "RangeError" \in Code /\ "RangeError" # "Assert"
BY DEF Code

\* whefs_block_for_pos for a reader.
LEMMA FindsBlock ==
  ASSUME NEW o \in SUBSET BlockId, NEW w \in BOOLEAN, NEW s, NEW q, Fits(s, q, o, w), s.rc = "OK",
         NEW pos \in Nat
  PROVE  LET t == BlockForPos(s, pos, FALSE)
         IN  /\ Fits(t, q, o, w) /\ OnlyList(s, t)
             /\ t.rc \in {"OK", "RangeError"}
             /\ t.rc = "OK" => Found(t, 1 + (pos \div BlockSize))
<1> DEFINE bc == 1 + (pos \div BlockSize)
           l == LoadList(s)
           n == Len(l.e.list)
           t == BlockForPos(s, pos, FALSE)
<1>1. bc \in Nat \ {0}
  BY InBlock
<1>2. Fits(l, q, o, w) /\ OnlyList(s, l) /\ l.rc = "OK"
  BY LoadListFits
<1>3. n \in Nat
  BY <1>2, SessTypes DEF Fits
<1>4. \/ t = FailedWith(s, "RangeError")
      \/ bc <= n /\ t = FoundAt(l, bc)
      \/ t = FailedWith(l, "RangeError")
  <2>1. CASE (s.e.size <= pos /\ ~FALSE) \/ bc > NumBlocks
    BY <2>1 DEF BlockForPos, FailedWith, FoundAt
  <2>2. CASE ~((s.e.size <= pos /\ ~FALSE) \/ bc > NumBlocks)
    <3> HIDE DEF l
    <3>1. t = CASE bc <= n           -> FoundAt(l, bc)
                [] n < bc /\ ~FALSE -> FailedWith(l, "RangeError")
                [] n < bc /\ FALSE  -> Repeat(AddBlock, l, bc - n)
      BY <2>2, Zenon DEF BlockForPos, FailedWith, FoundAt, l
    <3> HIDE DEF bc, n, t
    <3>2. bc <= n \/ (n < bc /\ ~(bc <= n))
      BY <1>1, <1>3
    <3>3. CASE bc <= n
      <4>1. ~(n < bc)
        BY <1>1, <1>3, <3>3
      <4> QED
        BY <3>1, <3>3, <4>1, Zenon
    <3>4. CASE n < bc /\ ~(bc <= n)
      BY <3>1, <3>4, Zenon
    <3> QED
      BY <3>2, <3>3, <3>4
  <2> QED
    BY <2>1, <2>2
<1> HIDE DEF t, l, bc
<1>5. CASE t = FailedWith(s, "RangeError")
  <2>1. Fits(t, q, o, w) /\ OnlyList(s, t) /\ t.rc = "RangeError"
    BY <1>5, FailCode, FitsFailed
  <2> QED
    BY <2>1 DEF t
<1>6. CASE bc <= n /\ t = FoundAt(l, bc)
  <2>0. bc <= Len(l.e.list) /\ t = FoundAt(l, bc)
    BY <1>6
  <2>1. Fits(t, q, o, w) /\ OnlyList(l, t) /\ t.rc = l.rc /\ Found(t, bc)
    <3>1. Fits(l, q, o, w)
      BY <1>2
    <3>2. /\ Fits(FoundAt(l, bc), q, o, w) /\ OnlyList(l, FoundAt(l, bc))
          /\ FoundAt(l, bc).rc = l.rc /\ Found(FoundAt(l, bc), bc)
      BY <1>1, <2>0, <3>1, FitsFound
    <3> QED
      BY <2>0, <3>2
  <2>2. OnlyList(s, t)
    BY <1>2, <2>1 DEF OnlyList
  <2> QED
    BY <1>2, <2>1, <2>2 DEF t, bc
<1>7. CASE t = FailedWith(l, "RangeError")
  <2>1. Fits(t, q, o, w) /\ OnlyList(l, t) /\ t.rc = "RangeError"
    <3>1. Fits(l, q, o, w)
      BY <1>2
    <3>2. /\ Fits(FailedWith(l, "RangeError"), q, o, w) /\ OnlyList(l, FailedWith(l, "RangeError"))
          /\ FailedWith(l, "RangeError").rc = "RangeError"
      BY <3>1, FailCode, FitsFailed
    <3> QED
      BY <1>7, <3>2
  <2>2. OnlyList(s, t)
    BY <1>2, <2>1 DEF OnlyList
  <2> QED
    BY <2>1, <2>2 DEF t
<1> QED
  BY <1>4, <1>5, <1>6, <1>7

\* whefs_block_for_pos for a writer or a truncation.
LEMMA ReachesBlock ==
  ASSUME NEW o \in SUBSET BlockId, NEW w \in BOOLEAN, NEW s, NEW q, Fits(s, q, o, w), s.rc = "OK",
         NEW pos \in Nat
  PROVE  LET t == BlockForPos(s, pos, TRUE)
             bc == 1 + (pos \div BlockSize)
         IN  \E r : /\ Fits(t, r, o, w) /\ Extends(q, r) /\ Grows(s, t, o)
                    /\ t.rc \in {"OK", "RangeError", "FSFull", "Assert"}
                    /\ t.rc = "OK" => Found(t, bc)
                    /\ t.rc = "FSFull" => AllUsed(t)
                    /\ t.rc = "RangeError" => bc > NumBlocks
<1> DEFINE bc == 1 + (pos \div BlockSize)
           l == LoadList(s)
           n == Len(l.e.list)
           t == BlockForPos(s, pos, TRUE)
           Reaches(u, r) == /\ Fits(u, r, o, w) /\ Extends(q, r) /\ Grows(s, u, o)
                            /\ u.rc \in {"OK", "RangeError", "FSFull", "Assert"}
                            /\ u.rc = "OK" => Found(u, bc)
                            /\ u.rc = "FSFull" => AllUsed(u)
                            /\ u.rc = "RangeError" => bc > NumBlocks
<1>1. bc \in Nat \ {0}
  BY InBlock
<1>2. Fits(l, q, o, w) /\ Loaded(l, q) /\ OnlyList(s, l) /\ l.rc = "OK"
  BY LoadListFits
<1>3. n \in Nat /\ Len(q) \in Nat
  BY <1>2, SessTypes, LinkedLength DEF Fits
<1>4. \/ bc > NumBlocks /\ t = FailedWith(s, "RangeError")
      \/ bc <= n /\ t = FoundAt(l, bc)
      \/ n < bc /\ t = Repeat(AddBlock, l, bc - n)
  <2>1. CASE bc > NumBlocks
    BY <2>1 DEF BlockForPos, FailedWith, FoundAt
  <2>2. CASE ~(bc > NumBlocks)
    <3> HIDE DEF l
    <3>1. t = CASE bc <= n           -> FoundAt(l, bc)
                [] n < bc /\ ~TRUE -> FailedWith(l, "RangeError")
                [] n < bc /\ TRUE  -> Repeat(AddBlock, l, bc - n)
      BY <2>2, Zenon DEF BlockForPos, FailedWith, FoundAt, l
    <3> HIDE DEF bc, n, t
    <3>2. bc <= n \/ (n < bc /\ ~(bc <= n))
      BY <1>1, <1>3
    <3>3. CASE bc <= n
      <4>1. ~(n < bc)
        BY <1>1, <1>3, <3>3
      <4> QED
        BY <3>1, <3>3, <4>1, Zenon
    <3>4. CASE n < bc /\ ~(bc <= n)
      BY <3>1, <3>4, Zenon
    <3> QED
      BY <3>2, <3>3, <3>4
  <2> QED
    BY <2>1, <2>2
<1>5. Grows(s, l, o) /\ Extends(q, q)
  BY <1>2, <1>3, OnlyListGrows, ExtendsSelf
<1> HIDE DEF t, l, bc
<1>6. CASE bc > NumBlocks /\ t = FailedWith(s, "RangeError")
  <2>1. Fits(t, q, o, w) /\ OnlyList(s, t) /\ t.rc = "RangeError"
    BY <1>6, FailCode, FitsFailed
  <2>2. Reaches(t, q)
    BY <1>5, <1>6, <2>1, OnlyListGrows
  <2> QED
    BY <2>2 DEF t, bc
<1>7. CASE bc <= n /\ t = FoundAt(l, bc)
  <2>1. Fits(t, q, o, w) /\ OnlyList(l, t) /\ t.rc = l.rc /\ Found(t, bc)
    BY <1>1, <1>2, <1>7, FitsFound
  <2>2. Grows(s, t, o)
    BY <1>5, <2>1, OnlyListGrows, GrowsOn
  <2>3. Reaches(t, q)
    BY <1>2, <1>5, <2>1, <2>2
  <2> QED
    BY <2>3 DEF t, bc
<1>8. CASE n < bc /\ t = Repeat(AddBlock, l, bc - n)
  <2>1. bc - n \in Nat \ {0}
    BY <1>1, <1>3, <1>8
  <2>2. PICK r : Grown(l, t, q, r, o, w) /\ (t.rc = "OK" => LongerBy(l, t, bc - n))
    <3> HIDE DEF n
    <3> QED
      BY <1>2, <1>8, <2>1, AddBlocksAdd
  <2>3. Fits(t, r, o, w) /\ Extends(q, r) /\ Grows(l, t, o)
        /\ t.rc \in {"OK", "FSFull", "Assert"} /\ (t.rc = "FSFull" => AllUsed(t))
    BY <2>2 DEF Grown
  <2>4. Grows(s, t, o)
    BY <1>5, <2>3, GrowsOn
  <2>5. t.rc = "OK" => Found(t, bc)
    BY <1>1, <1>3, <2>2 DEF LongerBy, Found
  <2>6. Reaches(t, r)
    BY <2>3, <2>4, <2>5
  <2> QED
    BY <2>6 DEF t, bc
<1> QED
  BY <1>4, <1>6, <1>7, <1>8

-----------------------------------------------------------------------------
(***************************************************************************)
(* Reading and writing the bytes of one block.                             *)
(***************************************************************************)

\* Of the blocks in C only the data differ, of the others nothing.
OnlyData(bk, cs, C) ==
  \A d \in BlockId : /\ cs[d].used = bk[d].used /\ cs[d].next = bk[d].next
                     /\ d \notin C => cs[d] = bk[d]

LEMMA FitsData ==
  ASSUME NEW o \in SUBSET BlockId, NEW w \in BOOLEAN, NEW t, NEW r, Fits(t, r, o, w),
         NEW u \in Sess, u.hint = t.hint, u.di = t.di, u.e.first = t.e.first,
         u.e.list = t.e.list, u.rc = t.rc, OnlyData(t.blk, u.blk, Ids(r))
  PROVE  Fits(u, r, o, w) /\ (\A d \in o : u.blk[d] = t.blk[d])
<1>1. /\ Linked(t.blk, t.e.first, r) /\ t.di.first = t.e.first /\ t \in Sess
      /\ Listed(t.e.list, t.blk, r) /\ Held(t.blk, t.hint, r, o)
      /\ (w => Whole(t.blk, t.e.list, r, o) /\ t.rc # "Assert")
  BY DEF Fits
<1>2. /\ Len(r) \in Nat /\ r \in [1..Len(r) -> BlockId] /\ Ids(r) \subseteq BlockId
  BY <1>1, LinkedLength DEF Ids
<1>3. Linked(u.blk, u.e.first, r)
  <2>1. \A d \in Ids(r) : u.blk[d].next = t.blk[d].next
    BY <1>2 DEF OnlyData
  <2> QED
    BY <1>1, <2>1, LinkedStays
<1>4. Listed(u.e.list, u.blk, r)
  <2>1. Len(t.e.list) \in Nat /\ Len(t.e.list) <= Len(r)
    BY <1>1, SessTypes DEF Listed
  <2>2. ASSUME NEW k \in 1..Len(t.e.list) PROVE u.blk[r[k]].next = t.blk[r[k]].next
    BY <1>2, <2>1 DEF OnlyData
  <2> QED
    BY <1>1, <2>2 DEF Listed
<1>5. \A d \in BlockId : u.blk[d].used \/ u.blk[d] = EmptyBlock
  BY <1>1 DEF Held, OnlyData
<1>6. Held(u.blk, u.hint, r, o)
  <2>1. \A d \in Ids(r) : u.blk[d].used /\ d \notin o
    BY <1>1, <1>2 DEF Held, OnlyData
  <2>2. \A d \in BlockId : d < u.hint => u.blk[d].used
    BY <1>1 DEF Held, OnlyData
  <2>3. \A d \in o : u.blk[d].used
    BY <1>1 DEF Held, OnlyData
  <2> QED
    BY <1>5, <2>1, <2>2, <2>3 DEF Held
<1>7. w => Whole(u.blk, u.e.list, r, o)
  BY <1>1 DEF Whole, OnlyData
<1>8. \A d \in o : u.blk[d] = t.blk[d]
  BY <1>1 DEF Held, OnlyData
<1> QED
  BY <1>1, <1>3, <1>4, <1>6, <1>7, <1>8 DEF Fits

\* What a reader leaves: only the list, its position and what it read differ.
OnlyRead(s, t) ==
  /\ t.blk = s.blk /\ t.hint = s.hint /\ t.di = s.di
  /\ t.e.count = s.e.count /\ t.e.writer = s.e.writer /\ t.e.size = s.e.size
  /\ t.e.first = s.e.first
  /\ t.pos + t.left = s.pos + s.left

\* The bytes of a found block.
LEMMA FoundBlock ==
  ASSUME NEW o \in SUBSET BlockId, NEW w \in BOOLEAN, NEW t, NEW r, Fits(t, r, o, w),
         NEW bc \in Nat \ {0}, Found(t, bc)
  PROVE  /\ bc \in 1..Len(r) /\ t.bl.id = r[bc] /\ t.bl.next = t.blk[r[bc]].next
         /\ t.bl.id \in BlockId /\ t.bl.id \in Ids(r)
         /\ bc \in 1..Len(t.e.list) /\ t.bl = t.e.list[bc]
<1>1. Listed(t.e.list, t.blk, r) /\ Linked(t.blk, t.e.first, r) /\ t \in Sess
  BY DEF Fits
<1>2. Len(r) \in Nat /\ r \in [1..Len(r) -> BlockId] /\ Len(t.e.list) \in Nat
  BY <1>1, LinkedLength, SessTypes
<1>3. bc \in 1..Len(t.e.list) /\ bc \in 1..Len(r) /\ t.bl = t.e.list[bc]
  BY <1>1, <1>2 DEF Found, Listed
<1> QED
  BY <1>1, <1>2, <1>3 DEF Listed, Ids

\* How many bytes are transferred at a time.
LEMMA ChunkLength ==
  ASSUME NEW a \in Nat \ {0}, NEW pos \in Nat, NEW size \in Nat, pos < size
  PROVE  LET len == Min({a, BlockSize - (pos % BlockSize), size - pos})
         IN  /\ len \in Nat \ {0} /\ len <= a /\ len <= BlockSize - (pos % BlockSize)
             /\ len <= size - pos
<1> DEFINE m == pos % BlockSize
           S == {a, BlockSize - m, size - pos}
<1>1. m \in 0..BlockSize - 1 /\ BlockSize \in Nat
  BY InBlock, BlockSizeAssumption
<1> HIDE DEF m
<1>2. S \subseteq Nat \ {0} /\ S # {}
  BY <1>1
<1>3. Min(S) \in S /\ \A k \in S : Min(S) <= k
  <2> HIDE DEF S
  <2> QED
    BY <1>2, MinOf
<1> QED
  BY <1>2, <1>3 DEF m

LEMMA ReadChunkFits ==
  ASSUME NEW o \in SUBSET BlockId, NEW w \in BOOLEAN, NEW s, NEW q, Fits(s, q, o, w), s.rc = "OK"
  PROVE  LET u == ReadChunk(s)
         IN  Fits(u, q, o, w) /\ OnlyRead(s, u)
<1> DEFINE t == BlockForPos(s, s.pos, FALSE)
           from == s.pos % BlockSize
           len == Min({s.left, BlockSize - from, s.e.size - s.pos})
           more == [k \in 1..len |-> t.blk[t.bl.id].data[from + k - 1]]
           u == ReadChunk(s)
<1>1. s \in Sess /\ s.pos \in Nat /\ s.pos <= MaxSize /\ s.left \in Nat /\ s.left <= MaxSize
      /\ s.e.size \in Nat /\ s.e.size <= MaxSize /\ MaxSize \in Nat
  BY SessTypes, MaxSizeIs DEF Fits
<1>2. /\ Fits(t, q, o, w) /\ OnlyList(s, t) /\ t.rc \in {"OK", "RangeError"}
      /\ t.rc = "OK" => Found(t, 1 + (s.pos \div BlockSize))
  BY <1>1, FindsBlock
<1>3. CASE s.left = 0 \/ s.pos >= s.e.size
  <2>1. u = FailedWith(s, "EOF")
    BY <1>3 DEF ReadChunk, FailedWith
  <2>2. "EOF" \in Code /\ "EOF" # "Assert"
    BY DEF Code
  <2>3. Fits(FailedWith(s, "EOF"), q, o, w) /\ OnlyList(s, FailedWith(s, "EOF"))
    BY <2>2, FitsFailed
  <2> HIDE DEF u
  <2> QED
    BY <2>1, <2>3 DEF OnlyList, OnlyRead, u
<1>4. CASE ~(s.left = 0 \/ s.pos >= s.e.size) /\ t.rc # "OK"
  <2>1. u = t
    BY <1>4 DEF ReadChunk
  <2> HIDE DEF u, t
  <2> QED
    BY <1>2, <2>1 DEF OnlyList, OnlyRead, u
<1>5. CASE ~(s.left = 0 \/ s.pos >= s.e.size) /\ t.rc = "OK"
  <2>1. u = [t EXCEPT !.pos = @ + len, !.left = @ - len, !.out = @ \o more]
    BY <1>5 DEF ReadChunk
  <2>2. len \in Nat \ {0} /\ len <= s.left /\ len <= BlockSize - from /\ len <= s.e.size - s.pos
    BY <1>1, <1>5, ChunkLength
  <2>3. from \in Offset /\ BlockSize \in Nat
    BY <1>1, PositionInBlock, BlockSizeAssumption
  <2>4. t \in Sess /\ t.bl.id \in BlockId
    <3>1. 1 + (s.pos \div BlockSize) \in Nat \ {0}
      BY <1>1, InBlock
    <3> QED
      BY <1>2, <1>5, <3>1, FoundBlock DEF Fits
  <2> HIDE DEF u, t, len, from
  <2>5. more \in Seq(Byte)
    <3>1. t.blk[t.bl.id].data \in [Offset -> Byte]
      BY <2>4, SessTypes
    <3>2. ASSUME NEW k \in 1..len PROVE from + k - 1 \in Offset
      BY <2>2, <2>3 DEF Offset
    <3>3. \A k \in 1..len : more[k] \in Byte
      BY <3>1, <3>2
    <3> QED
      BY <2>2, <3>3
  <2> HIDE DEF more
  <2>6. t.pos = s.pos /\ t.left = s.left
    BY <1>2 DEF OnlyList
  <2>7. t.pos + len \in 0..MaxSize /\ t.left - len \in 0..MaxSize
    BY <1>1, <2>2, <2>6
  <2>8. t.out \o more \in Seq(Byte)
    BY <2>4, <2>5, SessTypes
  <2>9. /\ u \in Sess /\ u.blk = t.blk /\ u.hint = t.hint /\ u.di = t.di /\ u.e = t.e /\ u.rc = t.rc
        /\ u.pos = t.pos + len /\ u.left = t.left - len
    BY <2>1, <2>4, <2>7, <2>8 DEF Sess
  <2>10. OnlyData(t.blk, u.blk, Ids(q))
    BY <2>9 DEF OnlyData
  <2>11. Fits(u, q, o, w)
    BY <1>2, <2>9, <2>10, FitsData
  <2>12. u.pos + u.left = s.pos + s.left
    BY <1>1, <2>2, <2>6, <2>9
  <2>13. OnlyRead(s, u)
    BY <1>2, <2>9, <2>12 DEF OnlyRead, OnlyList
  <2> QED
    BY <2>11, <2>13 DEF u
<1> QED
  BY <1>2, <1>3, <1>4, <1>5

\* A whole read.
LEMMA ReadFits ==
  ASSUME NEW o \in SUBSET BlockId, NEW w \in BOOLEAN, NEW s, NEW q, Fits(s, q, o, w), NEW n \in Nat
  PROVE  LET t == Repeat(ReadChunk, s, n)
         IN  Fits(t, q, o, w) /\ OnlyRead(s, t)
<1> DEFINE S == {u \in Sess : Fits(u, q, o, w) /\ OnlyRead(s, u)}
<1>1. s \in S
  BY DEF Fits, OnlyRead
<1>2. ReadChunkKeeps(S)
  <2>1. ASSUME NEW u \in S, u.rc = "OK" PROVE ReadChunk(u) \in S
    <3>1. Fits(ReadChunk(u), q, o, w) /\ OnlyRead(u, ReadChunk(u))
      BY <2>1, ReadChunkFits
    <3>2. OnlyRead(s, ReadChunk(u))
      BY <3>1 DEF OnlyRead
    <3> QED
      BY <3>1, <3>2 DEF Fits
  <2> QED
    BY <2>1 DEF ReadChunkKeeps
<1> HIDE DEF S
<1>3. PICK t : ReadChunkRun(S, s, n, t)
  BY <1>1, <1>2, ReadChunks
<1>4. Repeat(ReadChunk, s, n) \in S
  BY <1>3 DEF ReadChunkRun
<1> QED
  BY <1>4 DEF S

-----------------------------------------------------------------------------
\* What a writer leaves of the other files and of the table of opened inodes.
Wrote(s, u, o) ==
  /\ u.e.count = s.e.count /\ u.e.writer = s.e.writer
  /\ s.e.first # 0 => u.e.first = s.e.first
  /\ \/ u.di = s.di
     \/ s.e.first = 0 /\ u.e.first # 0 /\ u.di.used /\ u.di.size = s.e.size
  /\ u.e.first = 0 => u.e.size = s.e.size
  /\ u.pos + u.left = s.pos + s.left
  /\ \A d \in o : u.blk[d] = s.blk[d]

\* The chain has a block for every byte of the file.
Covered(s, q) == s.e.size <= Len(q) * BlockSize /\ s.di.size <= Len(q) * BlockSize

Writes(s, u, q, r, o, w) ==
  /\ Fits(u, r, o, w) /\ Extends(q, r) /\ Wrote(s, u, o)
  /\ Covered(s, q) => Covered(u, r)
  /\ u.rc \in {"OK", "RangeError", "FSFull", "Assert"}
  /\ u.rc = "FSFull" => AllUsed(u)
  /\ u.rc = "RangeError" => u.pos + u.left > NumBlocks * BlockSize

LEMMA WroteOn ==
  ASSUME NEW o, NEW s, NEW t, NEW u, Wrote(s, t, o), Wrote(t, u, o)
  PROVE  Wrote(s, u, o)
BY DEF Wrote

\* Growing keeps a file covered.
LEMMA GrowsCovers ==
  ASSUME NEW o, NEW s \in Sess, NEW t \in Sess, Grows(s, t, o), NEW q, NEW r,
         Len(q) \in Nat, Len(r) \in Nat, Extends(q, r), Covered(s, q)
  PROVE  Covered(t, r)
<1> DEFINE a == Len(q) * BlockSize
           b == Len(r) * BlockSize
<1>1. a \in Nat /\ b \in Nat /\ a <= b
  BY BlocksGrow DEF Extends
<1>2. s.e.size \in Nat /\ s.di.size \in Nat
  BY MaxSizeIs, SessTypes
<1>3. s.e.size <= a /\ s.di.size <= a
  BY DEF Covered
<1> HIDE DEF a, b
<1>4. s.e.size <= b /\ s.di.size <= b
  BY <1>1, <1>2, <1>3
<1>5. t.e.size <= b /\ t.di.size <= b
  BY <1>4 DEF Grows
<1> QED
  BY <1>5 DEF Covered, b

LEMMA PutBytesIs ==
  ASSUME NEW bk \in [BlockId -> Block], NEW c \in BlockId, NEW from, NEW len, NEW v \in Byte,
         NEW C, c \in C
  PROVE  LET cs == PutBytes(bk, c, from, len, v)
         IN  cs \in [BlockId -> Block] /\ OnlyData(bk, cs, C)
<1> DEFINE m == [k \in Offset |-> IF k \in from..(from + len - 1) THEN v ELSE bk[c].data[k]]
           cs == PutBytes(bk, c, from, len, v)
<1>1. bk[c].data \in [Offset -> Byte]
  BY DEF Block
<1>2. m \in [Offset -> Byte]
  BY <1>1
<1>3. cs = [bk EXCEPT ![c].data = m]
  BY DEF PutBytes
<1> HIDE DEF m
<1>4. /\ cs \in [BlockId -> Block] /\ cs[c].data = m
      /\ \A d \in BlockId : d # c => cs[d] = bk[d]
      /\ \A d \in BlockId : cs[d].used = bk[d].used /\ cs[d].next = bk[d].next
  BY <1>2, <1>3, SetData
<1> HIDE DEF cs
<1> QED
  BY <1>4 DEF OnlyData, cs

LEMMA WriteChunkWrites ==
  ASSUME NEW o \in SUBSET BlockId, NEW w \in BOOLEAN, NEW s, NEW q, Fits(s, q, o, w), s.rc = "OK",
         s.pos + s.left <= MaxSize
  PROVE  LET u == WriteChunk(s)
         IN  /\ \E r : Writes(s, u, q, r, o, w)
             /\ u.rc = "OK" => u.left = 0 \/ u.left < s.left
<1> DEFINE t == BlockForPos(s, s.pos, TRUE)
           bc == 1 + (s.pos \div BlockSize)
           from == s.pos % BlockSize
           len == Min({s.left, BlockSize - from})
           cs == PutBytes(t.blk, t.bl.id, from, len, s.val)
           u == WriteChunk(s)
<1>1. s \in Sess /\ s.pos \in Nat /\ s.pos <= MaxSize /\ s.left \in Nat /\ s.left <= MaxSize
      /\ s.e.size \in Nat /\ s.e.size <= MaxSize /\ MaxSize \in Nat /\ s.val \in Byte
  BY SessTypes, MaxSizeIs DEF Fits
<1>2. PICK r : /\ Fits(t, r, o, w) /\ Extends(q, r) /\ Grows(s, t, o)
               /\ t.rc \in {"OK", "RangeError", "FSFull", "Assert"}
               /\ t.rc = "OK" => Found(t, bc)
               /\ t.rc = "FSFull" => AllUsed(t)
               /\ t.rc = "RangeError" => bc > NumBlocks
  BY <1>1, ReachesBlock
<1>3. t \in Sess /\ Len(q) \in Nat /\ Len(r) \in Nat
  BY <1>2, LinkedLength DEF Fits
<1>4. t.pos = s.pos /\ t.left = s.left /\ t.e.size = s.e.size /\ t.val = s.val
  BY <1>2 DEF Grows
<1>5. /\ bc \in Nat \ {0} /\ from \in Offset /\ bc * BlockSize \in Nat
      /\ s.pos + (BlockSize - from) = bc * BlockSize /\ BlockSize \in Nat \ {0} /\ NumBlocks \in Nat
  BY <1>1, PositionInBlock, BlockSizeAssumption, BlockCountAssumption
<1>6. Wrote(s, t, o) /\ (Covered(s, q) => Covered(t, r))
  <2>1. Wrote(s, t, o)
    BY <1>2, <1>4 DEF Grows, Wrote
  <2> QED
    BY <1>1, <1>2, <1>3, <2>1, GrowsCovers
<1>7. CASE s.left = 0
  <2>1. u = s
    BY <1>7 DEF WriteChunk
  <2>2. Extends(q, q) /\ Wrote(s, s, o)
    BY <1>3, ExtendsSelf DEF Wrote
  <2> HIDE DEF u
  <2>3. Writes(s, u, q, q, o, w)
    BY <2>1, <2>2 DEF Writes
  <2> QED
    BY <1>7, <2>1, <2>3 DEF u
<1>8. CASE s.left # 0 /\ t.rc # "OK"
  <2>1. u = t
    BY <1>8 DEF WriteChunk
  <2>2. ASSUME t.rc = "RangeError" PROVE t.pos + t.left > NumBlocks * BlockSize
    <3>1. bc > NumBlocks
      BY <1>2, <2>2
    <3> DEFINE d == s.pos \div BlockSize
    <3>2. d \in Nat /\ from \in Nat /\ s.pos = BlockSize * d + from
      BY <1>1, InBlock
    <3>3. NumBlocks <= d
      BY <1>5, <3>1, <3>2
    <3> DEFINE p == NumBlocks * BlockSize
               e == BlockSize * d
    <3> HIDE DEF d
    <3>4. NumBlocks * BlockSize <= d * BlockSize /\ d * BlockSize = BlockSize * d
      BY <1>5, <3>2, <3>3, BlocksGrow
    <3>5. p \in Nat /\ e \in Nat /\ p <= e
      BY <1>5, <3>2, <3>4
    <3>6. s.pos = e + from
      BY <3>2
    <3> HIDE DEF p, e, from, t
    <3>7. t.pos + t.left > p
      BY <1>1, <1>4, <1>8, <3>2, <3>5, <3>6
    <3> QED
      BY <3>7 DEF p, t
  <2>3. Writes(s, t, q, r, o, w)
    <3> HIDE DEF t
    <3> QED
      BY <1>2, <1>6, <2>2 DEF Writes
  <2> QED
    BY <1>8, <2>1, <2>3
<1>9. CASE s.left # 0 /\ t.rc = "OK"
  <2>1. u = [t EXCEPT !.pos = @ + len, !.left = @ - len,
                     !.e.size = Max({@, s.pos + len}), !.blk = PutBytes(@, t.bl.id, from, len, s.val)]
    BY <1>9 DEF WriteChunk
  <2>2. /\ bc \in 1..Len(r) /\ t.bl.id \in BlockId /\ t.bl.id \in Ids(r)
    BY <1>2, <1>5, <1>9, FoundBlock
  <2>3. BlockSize - from \in Nat \ {0}
    BY <1>5 DEF Offset
  <2>4. len \in Nat \ {0} /\ len <= s.left /\ len <= BlockSize - from
    <3> DEFINE a == BlockSize - from
    <3> HIDE DEF a, from
    <3>1. Min({s.left, a}) = IF s.left <= a THEN s.left ELSE a
      BY <1>1, <2>3, TwoNumbers DEF a
    <3>2. len = IF s.left <= a THEN s.left ELSE a
      BY <3>1 DEF a
    <3> QED
      BY <1>1, <1>9, <2>3, <3>2 DEF a
  <2>5. cs \in [BlockId -> Block] /\ OnlyData(t.blk, cs, Ids(r))
    <3> HIDE DEF from, len
    <3> QED
      BY <1>1, <1>3, <2>2, PutBytesIs, SessTypes
  <2> DEFINE end == s.pos + len
             size == Max({s.e.size, end})
             g == [t.e EXCEPT !.size = size]
  <2> HIDE DEF t, u, len, from, bc, cs
  <2>6. end \in Nat /\ end <= MaxSize /\ s.left - len \in Nat /\ s.left - len < s.left
    BY <1>1, <2>4
  <2>7. size = (IF s.e.size <= end THEN end ELSE s.e.size) /\ size \in 0..MaxSize
    <3> HIDE DEF end
    <3>1. size = IF s.e.size <= end THEN end ELSE s.e.size
      BY <1>1, <2>6, TwoNumbers
    <3> QED
      BY <1>1, <2>6, <3>1
  <2>8. u = [t EXCEPT !.pos = end, !.left = s.left - len, !.e = g, !.blk = cs]
    BY <1>4, <2>1 DEF cs
  <2> HIDE DEF end, size
  <2>9. g \in Entry /\ g.first = t.e.first /\ g.list = t.e.list /\ g.count = t.e.count
        /\ g.writer = t.e.writer /\ g.size = size
    BY <1>3, <2>7, SessTypes DEF Entry
  <2> HIDE DEF g
  <2>17. end \in 0..MaxSize /\ s.left - len \in 0..MaxSize
    BY <1>1, <2>6
  <2> DEFINE rest == s.left - len
  <2> HIDE DEF rest
  <2>18. u = [t EXCEPT !.pos = end, !.left = rest, !.e = g, !.blk = cs]
    BY <2>8 DEF rest
  <2>19. rest \in 0..MaxSize
    BY <2>17 DEF rest
  <2>20. /\ u \in Sess /\ u.hint = t.hint /\ u.di = t.di /\ u.e = g /\ u.rc = t.rc /\ u.blk = cs
         /\ u.pos = end /\ u.left = rest
    BY <1>3, <2>5, <2>9, <2>17, <2>18, <2>19 DEF Sess
  <2>10. /\ u \in Sess /\ u.hint = t.hint /\ u.di = t.di /\ u.e = g /\ u.rc = t.rc /\ u.blk = cs
         /\ u.pos = end /\ u.left = s.left - len
    BY <2>20 DEF rest
  <2>11. Fits(u, r, o, w) /\ \A d \in o : u.blk[d] = t.blk[d]
    BY <1>2, <2>5, <2>9, <2>10, FitsData
  <2>12. u.pos + u.left = t.pos + t.left
    BY <1>1, <1>4, <2>4, <2>6, <2>10 DEF end
  <2>13. u.e.first # 0
    <3>1. Linked(u.blk, u.e.first, r)
      BY <2>11 DEF Fits
    <3>2. 1 \in 1..Len(r) /\ r # <<>>
      BY <1>3, <2>2
    <3>3. u.e.first = r[1] /\ r[1] \in BlockId
      BY <3>1, <3>2, LinkedLength DEF Linked
    <3> QED
      BY <3>3 DEF BlockId
  <2>14. Wrote(s, u, o)
    <3>1. u.e.count = t.e.count /\ u.e.writer = t.e.writer /\ u.e.first = t.e.first /\ u.di = t.di
      BY <2>9, <2>10
    <3> QED
      BY <1>6, <2>11, <2>12, <2>13, <3>1 DEF Wrote
  <2>15. ASSUME Covered(s, q) PROVE Covered(u, r)
    <3> DEFINE a == bc * BlockSize
               b == Len(r) * BlockSize
    <3>1. bc \in Nat /\ bc <= Len(r)
      BY <1>3, <2>2
    <3>2. a \in Nat /\ b \in Nat /\ a <= b
      BY <1>3, <3>1, BlocksGrow
    <3>3. s.pos + (BlockSize - from) = a
      BY <1>5 DEF bc, from
    <3>4. s.e.size <= b /\ t.di.size <= b
      BY <1>4, <1>6, <2>15 DEF Covered
    <3> HIDE DEF a, b
    <3>5. end <= b
      BY <1>1, <2>3, <2>4, <3>2, <3>3 DEF end
    <3>6. size <= b
      BY <1>1, <2>6, <2>7, <3>4, <3>5
    <3> QED
      BY <2>9, <2>10, <3>4, <3>6 DEF Covered, b
  <2>16. Writes(s, u, q, r, o, w)
    BY <1>2, <1>9, <2>10, <2>11, <2>14, <2>15 DEF Writes
  <2> QED
    BY <2>6, <2>10, <2>16 DEF u
<1> QED
  BY <1>7, <1>8, <1>9

LEMMA WritesOn ==
  ASSUME NEW o, NEW w, NEW s, NEW u, NEW v, NEW q, NEW r, NEW x,
         Len(q) \in Nat, Len(r) \in Nat, Len(x) \in Nat,
         Writes(s, u, q, r, o, w), Writes(u, v, r, x, o, w)
  PROVE  Writes(s, v, q, x, o, w)
<1>1. Extends(q, x)
  BY ExtendsOn DEF Writes
<1>2. Wrote(s, v, o)
  BY WroteOn DEF Writes
<1> QED
  BY <1>1, <1>2 DEF Writes

\* A whole write: one that does not fail has written everything.
LEMMA WriteIs ==
  ASSUME NEW o \in SUBSET BlockId, NEW w \in BOOLEAN, NEW s, NEW q, Fits(s, q, o, w), s.rc = "OK",
         s.pos + s.left <= MaxSize, NEW n \in Nat, s.left <= n
  PROVE  LET u == Repeat(WriteChunk, s, n)
         IN  \E r : Writes(s, u, q, r, o, w) /\ (u.rc = "OK" => u.left = 0)
<1> DEFINE S == {u \in Sess : \E r : Writes(s, u, q, r, o, w)}
<1>1. s \in Sess /\ Len(q) \in Nat /\ s.left \in Nat /\ s.pos \in Nat /\ MaxSize \in Nat
  BY LinkedLength, SessTypes, MaxSizeIs DEF Fits
<1>2. s \in S
  <2>1. Extends(q, q) /\ Wrote(s, s, o)
    BY <1>1, ExtendsSelf DEF Wrote
  <2>2. Writes(s, s, q, q, o, w)
    BY <2>1 DEF Writes
  <2> QED
    BY <1>1, <2>2
<1>3. ASSUME NEW u \in S, u.rc = "OK"
      PROVE  WriteChunk(u) \in S /\ (WriteChunk(u).rc = "OK" =>
                WriteChunk(u).left = 0 \/ WriteChunk(u).left < u.left)
  <2>1. PICK r : Writes(s, u, q, r, o, w)
    OBVIOUS
  <2>2. Fits(u, r, o, w) /\ u.pos + u.left <= MaxSize
    BY <2>1 DEF Writes, Wrote
  <2> DEFINE v == WriteChunk(u)
  <2>3. PICK x : Writes(u, v, r, x, o, w)
    BY <1>3, <2>2, WriteChunkWrites
  <2>4. v.rc = "OK" => v.left = 0 \/ v.left < u.left
    BY <1>3, <2>2, WriteChunkWrites
  <2> HIDE DEF v
  <2>5. v \in Sess /\ Len(r) \in Nat /\ Len(x) \in Nat
    BY <2>2, <2>3, LinkedLength DEF Writes, Fits
  <2>6. Writes(s, v, q, x, o, w)
    BY <1>1, <2>1, <2>3, <2>5, WritesOn
  <2> QED
    BY <2>4, <2>5, <2>6 DEF v
<1>4. WriteChunkKeeps(S)
  <2> HIDE DEF S
  <2> QED
    BY <1>3 DEF WriteChunkKeeps
<1>5. \A u \in S : u \in Sess
  OBVIOUS
<1> HIDE DEF S
<1>6. PICK t : WriteChunkRun(S, s, n, t)
  BY <1>2, <1>4, WriteChunks
<1>7. t[0] = s /\ \A k \in 0..n : t[k] \in S /\ t[k].left \in Nat
  <2>1. t[0] = s /\ \A k \in 0..n : t[k] \in S
    BY <1>6 DEF WriteChunkRun
  <2> QED
    BY <1>5, <2>1, SessTypes, <1>1
<1> DEFINE T == {k \in Nat : k <= n /\ t[k].rc = "OK" => t[k].left = 0 \/ t[k].left + k <= s.left}
<1>8. 0 \in T
  BY <1>1, <1>7
<1>9. ASSUME NEW k \in Nat, k \in T PROVE k + 1 \in T
  <2>1. SUFFICES ASSUME k + 1 <= n, t[k + 1].rc = "OK"
                 PROVE  t[k + 1].left = 0 \/ t[k + 1].left + (k + 1) <= s.left
    OBVIOUS
  <2>2. k + 1 \in 1..n /\ (k + 1) - 1 = k /\ k \in 0..n /\ k + 1 \in 0..n
    BY <2>1
  <2>3. t[k + 1] = IF t[k].rc = "OK" THEN WriteChunk(t[k]) ELSE t[k]
    BY <1>6, <2>2 DEF WriteChunkRun
  <2>4. t[k].rc = "OK" /\ t[k + 1] = WriteChunk(t[k])
    BY <2>1, <2>3
  <2>5. t[k + 1].left = 0 \/ t[k + 1].left < t[k].left
    BY <1>3, <1>7, <2>1, <2>2, <2>4
  <2>6. t[k].left = 0 \/ t[k].left + k <= s.left
    BY <1>9, <2>2, <2>4
  <2> QED
    BY <1>1, <1>7, <2>2, <2>5, <2>6
<1>10. n \in T
  <2> HIDE DEF T
  <2> QED
    BY <1>8, <1>9, Induction
<1>11. Repeat(WriteChunk, s, n) = t[n] /\ n \in 0..n
  BY <1>6 DEF WriteChunkRun
<1>12. t[n].rc = "OK" => t[n].left = 0
  BY <1>1, <1>7, <1>10, <1>11
<1>13. \E r : Writes(s, t[n], q, r, o, w)
  <2>1. t[n] \in S
    BY <1>7, <1>11
  <2> QED
    BY <2>1 DEF S
<1> QED
  BY <1>11, <1>12, <1>13

-----------------------------------------------------------------------------
(***************************************************************************)
(* Shrinking and truncating.                                               *)
(***************************************************************************)

LEMMA WipeDataIs ==
  ASSUME NEW bk \in [BlockId -> Block], NEW c \in BlockId, NEW from, NEW C, c \in C
  PROVE  LET cs == WipeData(bk, c, from)
         IN  cs \in [BlockId -> Block] /\ OnlyData(bk, cs, C)
<1> DEFINE m == [k \in Offset |-> IF k >= from THEN 0 ELSE bk[c].data[k]]
           cs == WipeData(bk, c, from)
<1>1. bk[c].data \in [Offset -> Byte]
  BY DEF Block
<1>2. m \in [Offset -> Byte]
  BY <1>1, ByteAssumption
<1>3. cs = [bk EXCEPT ![c].data = m]
  BY DEF WipeData
<1> HIDE DEF m
<1>4. /\ cs \in [BlockId -> Block] /\ cs[c].data = m
      /\ \A d \in BlockId : d # c => cs[d] = bk[d]
      /\ \A d \in BlockId : cs[d].used = bk[d].used /\ cs[d].next = bk[d].next
  BY <1>2, <1>3, SetData
<1> HIDE DEF cs
<1> QED
  BY <1>4 DEF OnlyData, cs

LEMMA WipeIs ==
  ASSUME NEW bk \in [BlockId -> Block], NEW S
  PROVE  /\ Wipe(bk, S) \in [BlockId -> Block]
         /\ \A d \in BlockId : Wipe(bk, S)[d] = IF d \in S THEN EmptyBlock ELSE bk[d]
BY EmptyBlockType DEF Wipe

\* The hint moves down to what is wiped, and no further.
LEMMA WipeHintIs ==
  ASSUME NEW hint \in 1..NumBlocks + 1, NEW S \in SUBSET BlockId
  PROVE  /\ WipeHint(hint, S) \in 1..NumBlocks + 1 /\ WipeHint(hint, S) <= hint
         /\ \A d \in S : WipeHint(hint, S) <= d
<1> DEFINE R == S \cup {hint}
<1> NumBlocks \in Nat
  BY BlockCountAssumption
<1>1. R \subseteq 1..NumBlocks + 1 /\ R # {} /\ R \subseteq Nat
  BY DEF BlockId
<1>2. Min(R) \in R /\ \A d \in R : Min(R) <= d
  <2> HIDE DEF R
  <2> QED
    BY <1>1, MinOf
<1> QED
  BY <1>1, <1>2 DEF WipeHint

\* The blocks from a place in the chain on.
Rest(q, x) == {q[k] : k \in x..Len(q)}

LEMMA ChainBehind ==
  ASSUME NEW bk \in [BlockId -> Block], NEW b, NEW q, Linked(bk, b, q), NEW x \in 1..Len(q)
  PROVE  {q[x]} \cup ToSet(Chain(bk, bk[q[x]].next)) = Rest(q, x)
<1> DEFINE n == Len(q)
           m == bk[q[x]].next
<1>1. q \in [1..n -> BlockId] /\ n \in Nat /\ x \in Nat /\ x <= n
  BY LinkedLength
<1>2. m \in 0..NumBlocks
  BY <1>1 DEF Block
<1>6. SUFFICES {q[x]} \cup ToSet(Chain(bk, m)) = {q[k] : k \in x..n}
  BY DEF Rest
<1>3. CASE x = n
  <2>1. m = 0
    BY <1>1, <1>3 DEF Linked
  <2>2. Linked(bk, m, <<>>)
    BY <2>1 DEF Linked
  <2>3. Chain(bk, m) = <<>>
    BY <1>2, <2>2, ChainIs
  <2>4. ToSet(<<>>) = {}
    BY DEF ToSet
  <2> HIDE DEF m, n
  <2>5. x..n = {x}
    BY <1>1, <1>3
  <2> QED
    BY <2>3, <2>4, <2>5 DEF m, n
<1>4. CASE x # n
  <2>9. x >= 1
    OBVIOUS
  <2>1. x + 1 \in 1..n /\ x \in 1..n - 1
    <3> HIDE DEF n
    <3> QED
      BY <1>1, <1>4, <2>9
  <2>2. m = q[x + 1]
    BY <2>1 DEF Linked
  <2> DEFINE r == SubSeq(q, x + 1, n)
  <2>3. Linked(bk, q[x + 1], r) /\ Ids(r) = {q[k] : k \in x + 1..n}
    BY <2>1, LinkedFrom
  <2> HIDE DEF r, n, m
  <2>4. Linked(bk, m, r)
    BY <2>2, <2>3
  <2>5. Chain(bk, m) = r
    BY <1>2, <2>4, ChainIs
  <2>6. r \in [1..Len(r) -> BlockId]
    BY <2>3, LinkedLength
  <2>7. ToSet(r) = {q[k] : k \in x + 1..n}
    BY <2>3, <2>6 DEF ToSet, Ids
  <2>8. x..n = {x} \cup (x + 1..n)
    BY <1>1
  <2> QED
    BY <2>5, <2>7, <2>8 DEF n, m
<1> QED
  BY <1>3, <1>4

\* What the end of a truncation leaves: the first bc blocks and perhaps more.
Shrunk(s, t, r, o, w, bc) ==
  /\ Fits(t, r, o, w) /\ bc <= Len(r)
  /\ t.di = s.di /\ t.e.count = s.e.count /\ t.e.writer = s.e.writer /\ t.e.size = s.e.size
  /\ t.pos = s.pos /\ \A d \in o : t.blk[d] = s.blk[d]
  /\ w => t.rc # "Assert"

\* The block found is followed by another one: the place of that in the list.
LEMMA PlaceAfter ==
  ASSUME NEW o \in SUBSET BlockId, NEW w \in BOOLEAN, NEW s, NEW q, Fits(s, q, o, w),
         NEW bc \in Nat \ {0}, Found(s, bc), s.bl.next # 0
  PROVE  LET after == {k \in 2..Len(s.e.list) : s.e.list[k].id = s.bl.next}
         IN  /\ bc + 1 \in 2..Len(q)
             /\ after # {} => Min(after) = bc + 1 /\ bc + 1 \in 2..Len(s.e.list)
<1> DEFINE list == s.e.list
           n == Len(list)
           after == {k \in 2..n : list[k].id = s.bl.next}
<1>1. /\ bc \in 1..Len(q) /\ s.bl.next = s.blk[q[bc]].next
  <2> HIDE DEF after, n, list
  <2>1. bc \in 1..Len(q)
    BY FoundBlock
  <2>2. s.bl.next = s.blk[q[bc]].next
    BY FoundBlock
  <2> QED
    BY <2>1, <2>2
<1>2. /\ Linked(s.blk, s.e.first, q) /\ Listed(list, s.blk, q) /\ s \in Sess
  BY DEF Fits
<1>3. /\ Len(q) \in Nat /\ q \in [1..Len(q) -> BlockId] /\ n \in Nat /\ n <= Len(q)
  BY <1>2, LinkedLength, SessTypes DEF Listed
<1>4. bc # Len(q)
  BY <1>1, <1>2, <1>3 DEF Linked
<1>5. bc \in 1..Len(q) - 1 /\ bc + 1 \in 1..Len(q) /\ bc + 1 \in 2..Len(q)
  <2> DEFINE m == Len(q)
  <2>1. bc \in 1..m /\ m \in Nat /\ bc # m /\ bc \in Nat \ {0}
    BY <1>1, <1>3, <1>4
  <2> HIDE DEF m
  <2>2. bc \in 1..m - 1 /\ bc + 1 \in 1..m /\ bc + 1 \in 2..m
    BY <2>1
  <2> QED
    BY <2>2 DEF m
<1>6. s.bl.next = q[bc + 1]
  BY <1>1, <1>2, <1>5 DEF Linked
<1>7. ASSUME NEW k \in after PROVE k = bc + 1
  <2>1. k \in 1..n /\ k \in 1..Len(q)
    BY <1>3
  <2>2. list[k].id = q[k] /\ list[k].id = q[bc + 1]
    BY <1>2, <1>6, <2>1 DEF Listed
  <2> QED
    BY <1>2, <1>5, <2>1, <2>2 DEF Linked
<1>8. ASSUME after # {} PROVE Min(after) = bc + 1 /\ bc + 1 \in 2..n
  <2>1. after \subseteq Nat /\ after \subseteq 2..n
    BY <1>3
  <2> HIDE DEF after
  <2>2. Min(after) \in after
    BY <1>8, <2>1, MinOf
  <2> QED
    BY <1>7, <2>1, <2>2
<1> QED
  BY <1>5, <1>8

FoundAs(t, r, bc) ==
  /\ bc \in 1..Len(r) /\ t.bl.id = r[bc] /\ t.bl.next = t.blk[r[bc]].next
  /\ bc \in 1..Len(t.e.list) /\ t.bl = t.e.list[bc]

LEMMA FoundIn ==
  ASSUME NEW t \in Sess, NEW b, NEW r, Linked(t.blk, b, r), Listed(t.e.list, t.blk, r),
         NEW bc \in Nat \ {0}, Found(t, bc)
  PROVE  FoundAs(t, r, bc)
<1>1. Len(r) \in Nat /\ Len(t.e.list) \in Nat
  BY LinkedLength, SessTypes
<1>2. bc \in 1..Len(t.e.list) /\ bc \in 1..Len(r) /\ t.bl = t.e.list[bc]
  BY <1>1 DEF Found, Listed
<1> QED
  BY <1>1, <1>2 DEF Listed, FoundAs

\* The block that is found is the end of the chain: the list is cut down to one
\* item, which is right only if the chain has no more.
LEMMA ShrinksAtEnd ==
  ASSUME NEW o \in SUBSET BlockId, NEW w \in BOOLEAN, NEW s, NEW q, Fits(s, q, o, w),
         NEW bc \in Nat \ {0}, Found(s, bc), s.bl.next = 0, w => s.bl.id = s.e.first
  PROVE  LET t == [s EXCEPT !.e.list = SubSeq(s.e.list, 1, 1)]
         IN  /\ Fits(t, q, o, w) /\ OnlyList(s, t) /\ t.rc = s.rc
<1> DEFINE ls == SubSeq(s.e.list, 1, 1)
           t == [s EXCEPT !.e.list = ls]
<1>1. /\ Linked(s.blk, s.e.first, q) /\ Listed(s.e.list, s.blk, q) /\ s \in Sess
      /\ (w => Whole(s.blk, s.e.list, q, o))
  BY DEF Fits
<1>2. /\ bc \in 1..Len(q) /\ s.bl.id = q[bc] /\ s.bl.next = s.blk[q[bc]].next
      /\ bc \in 1..Len(s.e.list) /\ s.bl = s.e.list[bc]
  BY <1>1, FoundIn DEF FoundAs
<1>3. s.bl.id = q[bc]
  BY <1>2
<1>4. s.bl.next = s.blk[q[bc]].next
  BY <1>2
<1>5. bc \in 1..Len(s.e.list)
  BY <1>2
<1>6. /\ Len(q) \in Nat /\ q \in [1..Len(q) -> BlockId] /\ Len(s.e.list) \in Nat
      /\ s.e.list \in Seq(ListItem)
  BY <1>1, LinkedLength, SessTypes
<1>7. ls \in Seq(ListItem) /\ Len(ls) = 1 /\ ls[1] = s.e.list[1]
  BY <1>5, <1>6
<1>8. w => Len(q) = 1
  <2> SUFFICES ASSUME w PROVE Len(q) = 1
    OBVIOUS
  <2>1. 1 \in 1..Len(q) /\ q # <<>>
    BY <1>2, <1>6
  <2>2. q[bc] = q[1]
    BY <1>1, <1>3, <2>1 DEF Linked
  <2>3. bc = 1
    BY <1>1, <1>2, <2>1, <2>2 DEF Linked
  <2>4. s.blk[q[1]].next = 0
    BY <1>4, <2>3
  <2>5. ASSUME 1 \in 1..Len(q) - 1 PROVE FALSE
    <3>1. s.blk[q[1]].next = q[1 + 1] /\ 1 + 1 \in 1..Len(q)
      BY <1>1, <1>6, <2>5 DEF Linked
    <3>2. q[1 + 1] \in BlockId
      BY <1>6, <3>1
    <3> QED
      BY <2>4, <3>1, <3>2 DEF BlockId
  <2> QED
    BY <1>6, <2>1, <2>5
<1> HIDE DEF ls
<1>9. t \in Sess /\ t.e.list = ls /\ OnlyList(s, t) /\ t.rc = s.rc
  BY <1>1, <1>7 DEF Sess, Entry, OnlyList
<1> HIDE DEF t
<1>10. Listed(ls, s.blk, q)
  <2>1. Len(ls) <= Len(q)
    BY <1>2, <1>6, <1>7
  <2>2. 1 \in 1..Len(s.e.list)
    BY <1>5, <1>6
  <2>3. \A k \in 1..Len(ls) : k = 1
    BY <1>7
  <2> QED
    BY <1>1, <1>7, <2>1, <2>2, <2>3 DEF Listed
<1>11. w => Whole(s.blk, ls, q, o)
  BY <1>1, <1>7, <1>8 DEF Whole
<1>12. Fits(t, q, o, w)
  BY <1>9, <1>10, <1>11 DEF Fits, OnlyList
<1> QED
  BY <1>9, <1>12 DEF t, ls

\* The chain ends at the block bc, and the blocks behind it are wiped.
Cut(list, m) == [SubSeq(list, 1, m) EXCEPT ![m].next = 0]

LEMMA CutIs ==
  ASSUME NEW list \in Seq(ListItem), NEW m \in 1..Len(list)
  PROVE  /\ Cut(list, m) \in Seq(ListItem) /\ Len(Cut(list, m)) = m
         /\ Cut(list, m)[m] = [id |-> list[m].id, next |-> 0]
         /\ Agree(Cut(list, m), list, 1..m - 1)
<1> DEFINE ls == SubSeq(list, 1, m)
<1>1. ls \in Seq(ListItem) /\ Len(ls) = m /\ m \in 1..m /\ m \in Nat /\ \A k \in 1..m : ls[k] = list[k]
  OBVIOUS
<1>2. Cut(list, m) = Relink(ls, m, 0)
  BY DEF Cut, Relink
<1>3. 0 \in 0..NumBlocks
  BY BlockCountAssumption
<1> HIDE DEF ls
<1>4. /\ Relink(ls, m, 0) \in Seq(ListItem) /\ Len(Relink(ls, m, 0)) = Len(ls)
      /\ Relink(ls, m, 0)[m] = [id |-> ls[m].id, next |-> 0]
      /\ \A k \in 1..Len(ls) : k # m => Relink(ls, m, 0)[k] = ls[k]
  BY <1>1, <1>3, RelinkIs
<1>5. Agree(Cut(list, m), list, 1..m - 1)
  BY <1>1, <1>2, <1>4 DEF Agree
<1> QED
  BY <1>1, <1>2, <1>4, <1>5

CutBlocks(bk, tail, c) == [Wipe(bk, tail) EXCEPT ![c].next = 0]

\* The blocks from the place x on are wiped, and the one before is the last.
CutAt(s, tail, x) ==
  [s EXCEPT !.e.list = Cut(s.e.list, x - 1), !.blk = CutBlocks(s.blk, tail, s.e.list[x - 1].id),
            !.hint = WipeHint(s.hint, tail)]

CutSo(s, t, q, o, w, x) ==
  /\ Fits(t, SubSeq(q, 1, x - 1), o, w) /\ Len(SubSeq(q, 1, x - 1)) = x - 1
  /\ t.di = s.di /\ t.e.count = s.e.count /\ t.e.writer = s.e.writer
  /\ t.e.size = s.e.size /\ t.pos = s.pos /\ t.rc = s.rc
  /\ \A d \in o : t.blk[d] = s.blk[d]

LEMMA CutFits ==
  ASSUME NEW o \in SUBSET BlockId, NEW w \in BOOLEAN, NEW s, NEW q, Fits(s, q, o, w),
         NEW x \in 2..Len(s.e.list)
  PROVE  CutSo(s, CutAt(s, Rest(q, x), x), q, o, w, x)
<1> DEFINE list == s.e.list
           n == Len(q)
           tail == Rest(q, x)
           c == list[x - 1].id
           wb == Wipe(s.blk, tail)
           cs == CutBlocks(s.blk, tail, c)
           hint == WipeHint(s.hint, tail)
           ls == Cut(list, x - 1)
           r == SubSeq(q, 1, x - 1)
           t == CutAt(s, tail, x)
<1>0. tail = {q[k] : k \in x..n}
  BY DEF Rest
<1>1. /\ Linked(s.blk, s.e.first, q) /\ s.di.first = s.e.first /\ s \in Sess
      /\ Listed(list, s.blk, q) /\ Held(s.blk, s.hint, q, o)
      /\ (w => Whole(s.blk, list, q, o) /\ s.rc # "Assert")
  BY DEF Fits
<1>2. /\ n \in Nat /\ q \in [1..n -> BlockId] /\ q \in Seq(BlockId) /\ Len(list) \in Nat
      /\ list \in Seq(ListItem) /\ Len(list) <= n
      /\ s.blk \in [BlockId -> Block] /\ s.hint \in 1..NumBlocks + 1
  BY <1>1, LinkedLength, SessTypes DEF Listed
<1>3. /\ x \in Nat /\ x >= 2 /\ x <= Len(list) /\ x <= n /\ x - 1 \in 1..Len(list) /\ x - 1 \in 1..n
      /\ x \in 2..n
  <2> DEFINE m == Len(list)
  <2>1. x \in 2..m /\ m \in Nat /\ m <= n
    BY <1>2
  <2> HIDE DEF m, n
  <2> QED
    BY <1>2, <2>1 DEF m
<1>4. c = q[x - 1] /\ c \in BlockId /\ tail \subseteq BlockId
  <2>1. c = q[x - 1]
    BY <1>1, <1>3 DEF Listed
  <2>2. \A k \in x..n : q[k] \in BlockId
    BY <1>2, <1>3
  <2> HIDE DEF tail
  <2> QED
    BY <1>0, <1>2, <1>3, <2>1, <2>2
<1>5. ASSUME NEW k \in 1..x - 1 PROVE q[k] \notin tail
  <2> SUFFICES ASSUME NEW l \in x..n, q[k] = q[l] PROVE FALSE
    BY <1>0
  <2>1. k \in 1..n /\ l \in 1..n /\ k # l
    <3> HIDE DEF n
    <3> QED
      BY <1>2, <1>3
  <2> QED
    BY <1>1, <2>1 DEF Linked
<1>6. wb \in [BlockId -> Block] /\ \A d \in BlockId : wb[d] = IF d \in tail THEN EmptyBlock ELSE s.blk[d]
  <2> HIDE DEF tail
  <2> QED
    BY <1>2, WipeIs
<1>7. /\ hint \in 1..NumBlocks + 1 /\ hint <= s.hint /\ \A d \in tail : hint <= d
  <2> HIDE DEF tail
  <2> QED
    BY <1>2, <1>4, WipeHintIs
<1>8. /\ ls \in Seq(ListItem) /\ Len(ls) = x - 1 /\ ls[x - 1] = [id |-> c, next |-> 0]
      /\ Agree(ls, list, 1..(x - 1) - 1)
  BY <1>2, <1>3, CutIs
<1>9. /\ cs \in [BlockId -> Block] /\ cs[c].next = 0
      /\ \A d \in BlockId : d # c => cs[d] = wb[d]
      /\ \A d \in BlockId : cs[d].used = wb[d].used /\ cs[d].data = wb[d].data
  <2>1. cs = [wb EXCEPT ![c].next = 0] /\ 0 \in 0..NumBlocks
    BY BlockCountAssumption DEF CutBlocks
  <2> HIDE DEF wb, c, cs
  <2> QED
    BY <1>4, <1>6, <2>1, SetNext
<1>10. t = [s EXCEPT !.e.list = ls, !.blk = cs, !.hint = hint]
  BY DEF CutAt
<1> HIDE DEF list, tail, c, wb, cs, hint, ls, t, n
<1>11. /\ t \in Sess /\ t.blk = cs /\ t.hint = hint /\ t.di = s.di /\ t.e.count = s.e.count
       /\ t.e.writer = s.e.writer /\ t.e.size = s.e.size /\ t.e.first = s.e.first /\ t.e.list = ls
       /\ t.pos = s.pos /\ t.rc = s.rc
  BY <1>1, <1>7, <1>8, <1>9, <1>10 DEF Sess, Entry
<1>12. /\ Linked(cs, s.e.first, r) /\ Ids(r) = {q[k] : k \in 1..x - 1}
  <2>1. ASSUME NEW k \in 1..x - 2 PROVE cs[q[k]].next = s.blk[q[k]].next
    <3>1. k \in 1..x - 1 /\ k \in 1..n /\ k # x - 1
      BY <1>2, <1>3
    <3>2. q[k] \in BlockId /\ q[k] # c
      BY <1>1, <1>2, <1>3, <1>4, <3>1 DEF Linked, n
    <3> QED
      BY <1>5, <1>6, <1>9, <3>1, <3>2
  <2> QED
    BY <1>1, <1>3, <1>4, <1>9, <2>1, LinkedUpTo DEF n
<1>13. Len(r) = x - 1 /\ \A k \in 1..x - 1 : r[k] = q[k]
  BY <1>2, <1>3 DEF n
<1> HIDE DEF r
<1>14. Listed(ls, cs, r)
  <2>1. ASSUME NEW k \in 1..x - 1 PROVE ls[k].id = r[k] /\ ls[k].next = cs[r[k]].next
    <3>1. CASE k = x - 1
      BY <1>4, <1>8, <1>9, <1>13, <3>1
    <3>2. CASE k # x - 1
      <4>1. k \in 1..(x - 1) - 1 /\ k \in 1..Len(list) /\ k \in 1..n
        BY <1>2, <1>3, <3>2
      <4>2. ls[k] = list[k] /\ list[k].id = q[k] /\ list[k].next = s.blk[q[k]].next
        BY <1>1, <1>8, <4>1 DEF Agree, Listed
      <4>3. q[k] \in BlockId /\ q[k] # c
        BY <1>1, <1>2, <1>3, <1>4, <3>2, <4>1 DEF Linked, n
      <4>4. cs[q[k]] = s.blk[q[k]]
        BY <1>5, <1>6, <1>9, <4>3
      <4> QED
        BY <1>13, <4>2, <4>4
    <3> QED
      BY <3>1, <3>2
  <2> QED
    BY <1>3, <1>8, <1>13, <2>1 DEF Listed
<1>15. Held(cs, hint, r, o)
  <2>1. ASSUME NEW d \in Ids(r) PROVE cs[d].used /\ d \notin o
    <3>1. PICK k \in 1..x - 1 : d = q[k]
      BY <1>12, <2>1
    <3>2. d \notin tail /\ d \in BlockId /\ d \in Ids(q)
      <4>1. k \in 1..n
        BY <1>2, <1>3
      <4> QED
        BY <1>2, <1>5, <3>1, <4>1 DEF Ids, n
    <3> QED
      BY <1>1, <1>6, <1>9, <3>2 DEF Held
  <2>2. ASSUME NEW d \in o PROVE cs[d].used
    <3>1. d \notin tail /\ d \in BlockId
      BY <1>0, <1>1, <1>3 DEF Held, Ids, n
    <3> QED
      BY <1>1, <1>6, <1>9, <3>1, <2>2 DEF Held
  <2>3. ASSUME NEW d \in BlockId, d < hint PROVE cs[d].used
    <3>1. d \notin tail
      BY <1>7, <2>3 DEF BlockId
    <3>2. d < s.hint
      BY <1>2, <1>7, <2>3 DEF BlockId
    <3> QED
      BY <1>1, <1>6, <1>9, <3>1, <3>2 DEF Held
  <2>4. ASSUME NEW d \in BlockId PROVE cs[d].used \/ cs[d] = EmptyBlock
    <3>1. CASE d = c
      <4>1. x - 1 \in 1..x - 1
        BY <1>3
      <4>2. c \notin tail /\ c \in Ids(q)
        BY <1>3, <1>4, <1>5, <4>1 DEF Ids, n
      <4> QED
        BY <1>1, <1>4, <1>6, <1>9, <3>1, <4>2 DEF Held
    <3>2. CASE d # c
      BY <1>1, <1>6, <1>9, <3>2 DEF Held
    <3> QED
      BY <3>1, <3>2
  <2> QED
    BY <2>1, <2>2, <2>3, <2>4 DEF Held
<1>16. w => Whole(cs, ls, r, o)
  <2>1. ASSUME w, NEW d \in BlockId, cs[d].used PROVE d \in Ids(r) \cup o
    <3>1. wb[d].used /\ d \notin tail /\ s.blk[d].used
      BY <1>6, <1>9, <2>1, EmptyBlockType
    <3>2. d \in Ids(q) \cup o
      BY <1>1, <2>1, <3>1 DEF Whole
    <3>3. ASSUME NEW k \in 1..n, d = q[k] PROVE d \in Ids(r)
      <4>1. k \notin x..n
        BY <1>0, <3>1, <3>3
      <4>2. k \in 1..x - 1
        BY <1>2, <1>3, <4>1
      <4> QED
        BY <1>12, <3>3, <4>2
    <3> QED
      BY <3>2, <3>3 DEF Ids, n
  <2> QED
    BY <1>8, <1>13, <2>1 DEF Whole
<1>17. Fits(t, r, o, w)
  BY <1>1, <1>11, <1>12, <1>14, <1>15, <1>16 DEF Fits
<1>18. \A d \in o : cs[d] = s.blk[d]
  <2> TAKE d \in o
  <2>1. d \notin tail /\ d \in BlockId /\ d \notin Ids(q)
    BY <1>0, <1>1, <1>3 DEF Held, Ids, n
  <2>2. d # c
    BY <1>3, <1>4, <2>1 DEF Ids, n
  <2> QED
    BY <1>6, <1>9, <2>1, <2>2
<1> QED
  BY <1>11, <1>13, <1>17, <1>18 DEF t, r, tail, n, CutSo

\* The blocks of a chain behind the block found, if any, are all of its rest
\* that the list has; without any, the file has one block.
CutsRight(s, w) == w => s.bl.next # 0 \/ s.bl.id = s.e.first

LEMMA ShrinkIs ==
  ASSUME NEW o \in SUBSET BlockId, NEW w \in BOOLEAN, NEW s, NEW q, Fits(s, q, o, w), s.rc = "OK",
         NEW bc \in Nat \ {0}, Found(s, bc), CutsRight(s, w), NEW len
  PROVE  \E r : Shrunk(s, Shrink(s, len), r, o, w, bc)
<1> DEFINE cs == WipeData(s.blk, s.bl.id, len % BlockSize)
           t == [s EXCEPT !.blk = cs]
           list == t.e.list
           after == {k \in 2..Len(list) : list[k].id = s.bl.next}
           x == Min(after)
           tail == {list[x].id} \cup ToSet(Chain(t.blk, list[x].next))
           u == Shrink(s, len)
<1>1. s \in Sess /\ s.bl.id \in BlockId /\ s.bl.id \in Ids(q) /\ s.blk \in [BlockId -> Block]
  <2>1. s \in Sess /\ Linked(s.blk, s.e.first, q) /\ Listed(s.e.list, s.blk, q)
    BY DEF Fits
  <2>2. FoundAs(s, q, bc)
    BY <2>1, FoundIn
  <2>3. q \in [1..Len(q) -> BlockId]
    BY <2>1, LinkedLength
  <2> QED
    BY <2>1, <2>2, <2>3, SessTypes DEF Ids, FoundAs
<1>2. cs \in [BlockId -> Block] /\ OnlyData(s.blk, cs, Ids(q))
  BY <1>1, WipeDataIs
<1>3. u = CASE s.bl.next = 0 -> [t EXCEPT !.e.list = SubSeq(list, 1, 1)]
            [] s.bl.next # 0 /\ after = {} -> [t EXCEPT !.rc = "InternalError"]
            [] OTHER -> [t EXCEPT !.e.list = [SubSeq(list, 1, x - 1) EXCEPT ![x - 1].next = 0],
                                  !.blk = [Wipe(@, tail) EXCEPT ![list[x - 1].id].next = 0],
                                  !.hint = WipeHint(@, tail)]
  BY Zenon DEF Shrink
<1> HIDE DEF cs, u
<1>4. /\ t \in Sess /\ t.blk = cs /\ t.hint = s.hint /\ t.di = s.di /\ t.e = s.e /\ t.rc = s.rc
      /\ t.pos = s.pos /\ t.bl = s.bl
  BY <1>1, <1>2 DEF Sess
<1> HIDE DEF t
<1>5. Fits(t, q, o, w) /\ \A d \in o : t.blk[d] = s.blk[d]
  BY <1>2, <1>4, FitsData
<1>6. Found(t, bc) /\ CutsRight(t, w)
  BY <1>4 DEF Found, CutsRight
<1>7. /\ Linked(t.blk, t.e.first, q) /\ Listed(list, t.blk, q)
  BY <1>5 DEF Fits
<1>8. bc \in 1..Len(q) /\ q \in [1..Len(q) -> BlockId] /\ Len(q) \in Nat
  BY <1>4, <1>6, <1>7, FoundIn, LinkedLength DEF FoundAs
<1>9. CASE s.bl.next = 0
  <2>1. u = [t EXCEPT !.e.list = SubSeq(t.e.list, 1, 1)]
    BY <1>3, <1>9, Zenon
  <2>2. w => t.bl.id = t.e.first
    BY <1>4, <1>6, <1>9 DEF CutsRight
  <2>3. t.bl.next = 0
    BY <1>4, <1>9
  <2>4. Fits(u, q, o, w) /\ OnlyList(t, u) /\ u.rc = t.rc
    <3>1. /\ Fits([t EXCEPT !.e.list = SubSeq(t.e.list, 1, 1)], q, o, w)
          /\ OnlyList(t, [t EXCEPT !.e.list = SubSeq(t.e.list, 1, 1)])
          /\ [t EXCEPT !.e.list = SubSeq(t.e.list, 1, 1)].rc = t.rc
      BY <1>5, <1>6, <2>2, <2>3, ShrinksAtEnd
    <3> QED
      BY <2>1, <3>1
  <2>5. bc <= Len(q)
    BY <1>8
  <2>6. Shrunk(s, u, q, o, w, bc)
    BY <1>4, <1>5, <2>4, <2>5 DEF Shrunk, OnlyList
  <2> QED
    BY <2>6 DEF u
<1>10. CASE s.bl.next # 0 /\ after = {}
  <2>1. u = FailedWith(t, "InternalError")
    BY <1>3, <1>10, Zenon DEF FailedWith
  <2>2. "InternalError" \in Code /\ "InternalError" # "Assert"
    BY DEF Code
  <2>3. /\ Fits(FailedWith(t, "InternalError"), q, o, w) /\ OnlyList(t, FailedWith(t, "InternalError"))
        /\ FailedWith(t, "InternalError").rc = "InternalError"
    BY <1>5, <2>2, FitsFailed
  <2>4. Fits(u, q, o, w) /\ OnlyList(t, u) /\ u.rc = "InternalError"
    BY <2>1, <2>3
  <2>5. bc <= Len(q)
    BY <1>8
  <2>6. Shrunk(s, u, q, o, w, bc)
    BY <1>4, <1>5, <2>2, <2>4, <2>5 DEF Shrunk, OnlyList
  <2> QED
    BY <2>6 DEF u
<1>11. CASE s.bl.next # 0 /\ after # {}
  <2>1. u = [t EXCEPT !.e.list = [SubSeq(list, 1, x - 1) EXCEPT ![x - 1].next = 0],
                      !.blk = [Wipe(@, tail) EXCEPT ![list[x - 1].id].next = 0],
                      !.hint = WipeHint(@, tail)]
    BY <1>3, <1>11, Zenon
  <2>2. u = CutAt(t, tail, x)
    BY <2>1, Zenon DEF CutAt, Cut, CutBlocks
  <2>3. x = bc + 1 /\ bc + 1 \in 2..Len(list)
    <3>1. t.bl.next # 0
      BY <1>4, <1>11
    <3>2. LET a == {k \in 2..Len(t.e.list) : t.e.list[k].id = t.bl.next}
          IN  /\ bc + 1 \in 2..Len(q)
              /\ a # {} => Min(a) = bc + 1 /\ bc + 1 \in 2..Len(t.e.list)
      BY <1>5, <1>6, <3>1, PlaceAfter
    <3> QED
      BY <1>4, <1>11, <3>2
  <2> HIDE DEF x, after
  <2>4. x \in 1..Len(list) /\ x \in 1..Len(q) /\ x \in 2..Len(list)
    BY <1>4, <1>7, <1>8, <2>3, SessTypes DEF Listed
  <2>5. list[x].id = q[x] /\ list[x].next = t.blk[q[x]].next
    BY <1>7, <2>4 DEF Listed
  <2>6. tail = Rest(q, x)
    <3>1. {q[x]} \cup ToSet(Chain(t.blk, t.blk[q[x]].next)) = Rest(q, x)
      <4>1. t.blk \in [BlockId -> Block] /\ Linked(t.blk, t.e.first, q) /\ x \in 1..Len(q)
        BY <1>2, <1>4, <1>7, <2>4
      <4> QED
        BY <4>1, ChainBehind
    <3> QED
      BY <2>5, <3>1
  <2> HIDE DEF tail
  <2> DEFINE r == SubSeq(q, 1, x - 1)
  <2>7. CutSo(t, u, q, o, w, x)
    <3>1. Fits(t, q, o, w)
      BY <1>5
    <3>2. x \in 2..Len(t.e.list)
      BY <2>4
    <3>3. CutSo(t, CutAt(t, Rest(q, x), x), q, o, w, x)
      BY <3>1, <3>2, CutFits
    <3> QED
      BY <2>2, <2>6, <3>3
  <2>8. /\ Fits(u, r, o, w) /\ Len(r) = x - 1
        /\ u.di = t.di /\ u.e.count = t.e.count /\ u.e.writer = t.e.writer
        /\ u.e.size = t.e.size /\ u.pos = t.pos /\ u.rc = t.rc
        /\ \A d \in o : u.blk[d] = t.blk[d]
    BY <2>7 DEF CutSo
  <2> HIDE DEF r
  <2>9. bc <= Len(r) /\ "OK" # "Assert"
    BY <1>8, <2>3, <2>8
  <2>10. u.rc # "Assert"
    BY <1>4, <2>8, <2>9
  <2>11. Shrunk(s, u, r, o, w, bc)
    BY <1>4, <1>5, <2>8, <2>9, <2>10 DEF Shrunk
  <2> QED
    BY <2>11 DEF u
<1> QED
  BY <1>9, <1>10, <1>11

\* The session of a truncation with the new size in the inode, and what it finds.
Sized(s, len) == FlushInode([s EXCEPT !.e.size = len])
Reached(s, len) == BlockForPos(Sized(s, len), len - 1, TRUE)

\* The truncations of SafeTruncate.
Spares(s, len, w) ==
  w => /\ len = 0 => s.e.first = 0
       /\ len # 0 => Reached(s, len).rc = "OK"
       /\ len # 0 /\ len < s.e.size =>
            Reached(s, len).bl.next # 0 \/ Reached(s, len).bl.id = s.e.first

Truncs(s, t, q, r, o, w, len) ==
  /\ Fits(t, r, o, w)
  /\ t.e.count = s.e.count /\ t.e.writer = s.e.writer /\ t.e.size = len /\ t.pos = s.pos
  /\ t.di = s.di \/ (t.di.used /\ t.di.size = len)
  /\ \A d \in o : t.blk[d] = s.blk[d]
  /\ w /\ Covered(s, q) => Covered(t, r)

LEMMA SizedFits ==
  ASSUME NEW o \in SUBSET BlockId, NEW w \in BOOLEAN, NEW s, NEW q, Fits(s, q, o, w),
         NEW len \in 0..MaxSize
  PROVE  LET t == Sized(s, len)
         IN  /\ Fits(t, q, o, w) /\ t.rc = s.rc /\ t.blk = s.blk /\ t.pos = s.pos
             /\ t.e = [s.e EXCEPT !.size = len]
             /\ t.di = [used |-> TRUE, size |-> len, first |-> s.e.first]
<1> DEFINE e == [s.e EXCEPT !.size = len]
           di == [used |-> TRUE, size |-> len, first |-> s.e.first]
           t == Sized(s, len)
<1>1. s \in Sess /\ s.e \in Entry
  BY SessTypes DEF Fits
<1>2. /\ e \in Entry /\ e.first = s.e.first /\ e.list = s.e.list /\ e.size = len
      /\ di \in DiskInode /\ di.first = s.e.first
  BY <1>1 DEF Entry, DiskInode
<1>3. t = [s EXCEPT !.e = e, !.di = di]
  BY <1>1, <1>2 DEF Sized, FlushInode, Sess
<1> HIDE DEF e, di, t
<1>4. /\ t \in Sess /\ t.e = e /\ t.di = di /\ t.blk = s.blk /\ t.hint = s.hint /\ t.rc = s.rc
      /\ t.pos = s.pos
  BY <1>1, <1>2, <1>3 DEF Sess
<1>5. Fits(t, q, o, w)
  BY <1>2, <1>4 DEF Fits
<1> QED
  BY <1>4, <1>5 DEF e, di, t

\* The block of the last byte covers the file.
LEMMA LastCovers ==
  ASSUME NEW len \in Nat \ {0}, NEW m \in Nat
  PROVE  LET bc == 1 + ((len - 1) \div BlockSize)
         IN  /\ bc \in Nat \ {0} /\ len - 1 \in Nat
             /\ bc <= m => len <= m * BlockSize
<1> DEFINE p == len - 1
           bc == 1 + (p \div BlockSize)
<1>1. p \in Nat
  OBVIOUS
<1>2. bc \in Nat \ {0} /\ p % BlockSize \in Offset /\ p + (BlockSize - (p % BlockSize)) = bc * BlockSize
  BY <1>1, PositionInBlock
<1> DEFINE from == p % BlockSize
           a == bc * BlockSize
           b == m * BlockSize
<1>3. a \in Nat /\ b \in Nat /\ (bc <= m => a <= b)
  BY <1>2, BlocksGrow, BlockSizeAssumption
<1>4. BlockSize - from >= 1 /\ BlockSize \in Nat /\ from \in Nat
  BY <1>2, BlockSizeAssumption DEF Offset
<1>5. p + (BlockSize - from) = a
  BY <1>2
<1> HIDE DEF from, a, b, bc
<1>6. bc <= m => len <= b
  BY <1>1, <1>3, <1>4, <1>5
<1> QED
  BY <1>1, <1>2, <1>6 DEF b, bc

\* Truncating to zero forgets the chain.
LEMMA EmptyTruncs ==
  ASSUME NEW o \in SUBSET BlockId, NEW w \in BOOLEAN, NEW s, NEW q, Fits(s, q, o, w),
         Spares(s, 0, w)
  PROVE  Truncs(s, FlushInode([s EXCEPT !.e.list = <<>>, !.e.first = 0, !.e.size = 0]),
                q, <<>>, o, w, 0)
<1> DEFINE e == [s.e EXCEPT !.list = <<>>, !.first = 0, !.size = 0]
           di == [used |-> TRUE, size |-> 0, first |-> 0]
           t == FlushInode([s EXCEPT !.e.list = <<>>, !.e.first = 0, !.e.size = 0])
<1>1. /\ s \in Sess /\ s.e \in Entry /\ Linked(s.blk, s.e.first, q) /\ Held(s.blk, s.hint, q, o)
      /\ (w => Whole(s.blk, s.e.list, q, o) /\ s.rc # "Assert")
  BY SessTypes DEF Fits
<1>2. /\ e \in Entry /\ e.first = 0 /\ e.list = <<>> /\ e.size = 0 /\ e.count = s.e.count
      /\ e.writer = s.e.writer /\ di \in DiskInode /\ di.first = 0 /\ di.used /\ di.size = 0
  <2>1. 0 \in 0..MaxSize /\ 0 \in 0..NumBlocks /\ <<>> \in Seq(ListItem)
    BY MaxSizeIs, BlockCountAssumption
  <2>2. di \in DiskInode /\ di.first = 0 /\ di.used /\ di.size = 0
    BY <2>1 DEF DiskInode
  <2>3. /\ e.first = 0 /\ e.list = <<>> /\ e.size = 0 /\ e.count = s.e.count /\ e.writer = s.e.writer
    BY <1>1 DEF Entry
  <2>4. e \in Entry
    BY <1>1, <2>1 DEF Entry
  <2> QED
    BY <2>2, <2>3, <2>4
<1>3. t = [s EXCEPT !.e = e, !.di = di]
  BY <1>1, <1>2 DEF FlushInode, Sess
<1> HIDE DEF e, di, t
<1>4. /\ t \in Sess /\ t.e = e /\ t.di = di /\ t.blk = s.blk /\ t.hint = s.hint /\ t.rc = s.rc
      /\ t.pos = s.pos
  BY <1>1, <1>2, <1>3 DEF Sess
<1>5. Ids(<<>>) = {} /\ Len(<<>>) = 0
  BY DEF Ids
<1>6. Linked(t.blk, 0, <<>>) /\ Listed(<<>>, t.blk, <<>>)
  BY DEF Linked, Listed
<1>7. Held(t.blk, t.hint, <<>>, o)
  BY <1>1, <1>4, <1>5 DEF Held
<1>8. w => Whole(t.blk, <<>>, <<>>, o)
  <2> SUFFICES ASSUME w PROVE Whole(t.blk, <<>>, <<>>, o)
    OBVIOUS
  <2>1. s.e.first = 0
    BY DEF Spares
  <2>2. q = <<>>
    <3> SUFFICES ASSUME q # <<>> PROVE FALSE
      OBVIOUS
    <3>1. q[1] = 0 /\ Len(q) \in Nat /\ q \in Seq(BlockId) /\ Len(q) # 0
      BY <1>1, <2>1, LinkedLength DEF Linked
    <3>2. 1 \in 1..Len(q)
      BY <3>1
    <3>3. q[1] \in BlockId
      BY <3>1, <3>2
    <3> QED
      BY <3>1, <3>3 DEF BlockId
  <2> QED
    BY <1>1, <1>4, <2>2 DEF Whole
<1>9. Fits(t, <<>>, o, w)
  BY <1>1, <1>2, <1>4, <1>6, <1>7, <1>8 DEF Fits
<1>10. Covered(t, <<>>)
  <2>1. 0 <= 0 * BlockSize
    BY BlockSizeAssumption
  <2> QED
    BY <1>2, <1>4, <1>5, <2>1 DEF Covered
<1>11. Truncs(s, t, q, <<>>, o, w, 0)
  BY <1>2, <1>4, <1>9, <1>10 DEF Truncs
<1> QED
  BY <1>11 DEF t

\* whio_dev_inode_trunc.
LEMMA TruncIs ==
  ASSUME NEW o \in SUBSET BlockId, NEW w \in BOOLEAN, NEW s, NEW q, Fits(s, q, o, w), s.rc = "OK",
         NEW len \in 0..MaxSize, Spares(s, len, w)
  PROVE  \E r : Truncs(s, Trunc(s, len), q, r, o, w, len)
<1> DEFINE empty == FlushInode([s EXCEPT !.e.list = <<>>, !.e.first = 0, !.e.size = 0])
           f == Reached(s, len)
           t == Trunc(s, len)
<1>1. t = CASE len = s.e.size -> s
            [] len = 0 /\ len # s.e.size -> empty
            [] len # 0 /\ len < s.e.size /\ f.rc = "OK" -> Shrink(f, len)
            [] OTHER -> f
  BY Zenon DEF Trunc, Reached, Sized
<1>2. s \in Sess /\ s.e.size \in Nat /\ len \in Nat
  BY SessTypes, MaxSizeIs DEF Fits
<1> HIDE DEF t, empty
<1>3. CASE len = s.e.size
  <2>1. t = s
    <3>1. ~(len = 0 /\ len # s.e.size) /\ ~(len # 0 /\ len < s.e.size /\ f.rc = "OK")
      BY <1>2, <1>3
    <3> HIDE DEF f
    <3> QED
      BY <1>1, <1>3, <3>1, Zenon
  <2>2. Truncs(s, s, q, q, o, w, len)
    BY <1>3 DEF Truncs
  <2> QED
    BY <2>1, <2>2 DEF t
<1>4. CASE len = 0 /\ len # s.e.size
  <2> HIDE DEF f
  <2>1. ~(len = s.e.size) /\ ~(len # 0 /\ len < s.e.size /\ f.rc = "OK")
    BY <1>4
  <2>2. t = empty
    BY <1>1, <1>4, <2>1, Zenon
  <2>3. Truncs(s, empty, q, <<>>, o, w, 0)
    BY <1>4, EmptyTruncs DEF empty
  <2> QED
    BY <1>4, <2>2, <2>3 DEF t
<1>5. CASE len # 0 /\ len # s.e.size
  <2> DEFINE bc == 1 + ((len - 1) \div BlockSize)
             z == Sized(s, len)
  <2>1. /\ Fits(z, q, o, w) /\ z.rc = "OK" /\ z.blk = s.blk /\ z.pos = s.pos
        /\ z.e = [s.e EXCEPT !.size = len]
        /\ z.di = [used |-> TRUE, size |-> len, first |-> s.e.first]
    BY SizedFits
  <2> HIDE DEF z
  <2>2. bc \in Nat \ {0} /\ len - 1 \in Nat
    BY <1>2, <1>5, LastCovers
  <2>3. PICK x : /\ Fits(f, x, o, w) /\ Grows(z, f, o)
                 /\ f.rc = "OK" => Found(f, bc)
    <3>1. \E r : /\ Fits(BlockForPos(z, len - 1, TRUE), r, o, w) /\ Extends(q, r)
                 /\ Grows(z, BlockForPos(z, len - 1, TRUE), o)
                 /\ BlockForPos(z, len - 1, TRUE).rc \in {"OK", "RangeError", "FSFull", "Assert"}
                 /\ BlockForPos(z, len - 1, TRUE).rc = "OK" =>
                       Found(BlockForPos(z, len - 1, TRUE), bc)
                 /\ BlockForPos(z, len - 1, TRUE).rc = "FSFull" =>
                       AllUsed(BlockForPos(z, len - 1, TRUE))
                 /\ BlockForPos(z, len - 1, TRUE).rc = "RangeError" => bc > NumBlocks
      BY <2>1, <2>2, ReachesBlock
    <3> QED
      BY <3>1 DEF Reached, z
  <2> HIDE DEF f, bc
  <2>4. /\ z.e.size = len /\ z.e.first = s.e.first /\ z.e.count = s.e.count
        /\ z.e.writer = s.e.writer /\ z.di.used /\ z.di.size = len
    BY <1>2, <2>1, SessTypes DEF Entry
  <2>5. /\ f.e.size = len /\ f.e.count = s.e.count /\ f.e.writer = s.e.writer
        /\ f.di.used /\ f.di.size = len /\ f.pos = s.pos /\ \A d \in o : f.blk[d] = s.blk[d]
        /\ (s.e.first # 0 => f.e.first = s.e.first)
    BY <2>1, <2>3, <2>4 DEF Grows
  <2>6. w => f.rc = "OK"
    BY <1>5 DEF Spares, f
  <2>7. /\ f \in Sess /\ Linked(f.blk, f.e.first, x) /\ Listed(f.e.list, f.blk, x)
    BY <2>3 DEF Fits
  <2>8. Len(x) \in Nat /\ (f.rc = "OK" => bc <= Len(x))
    <3>1. Len(x) \in Nat
      BY <2>7, LinkedLength
    <3>2. ASSUME f.rc = "OK" PROVE bc <= Len(x)
      <4>1. Found(f, bc)
        BY <2>3, <3>2
      <4>2. FoundAs(f, x, bc)
        BY <2>2, <2>7, <4>1, FoundIn
      <4> QED
        BY <3>1, <4>2 DEF FoundAs
    <3> QED
      BY <3>1, <3>2
  <2>9. ASSUME NEW m \in Nat, bc <= m PROVE len <= m * BlockSize
    BY <1>2, <1>5, <2>9, LastCovers DEF bc
  <2>10. CASE len < s.e.size /\ f.rc = "OK"
    <3>1. ~(len = s.e.size) /\ ~(len = 0 /\ len # s.e.size)
      BY <1>5
    <3>2. t = Shrink(f, len)
      BY <1>1, <1>5, <2>10, <3>1, Zenon
    <3>3. CutsRight(f, w)
      <4> SUFFICES ASSUME w, f.bl.next = 0 PROVE f.bl.id = f.e.first
        BY DEF CutsRight
      <4>1. f.bl.id = s.e.first
        BY <1>5, <2>10 DEF Spares, f
      <4>2. f.bl.id \in BlockId
        <5>1. Found(f, bc) /\ FoundAs(f, x, bc)
          BY <2>2, <2>3, <2>7, <2>10, FoundIn
        <5> QED
          BY <2>7, <5>1, LinkedLength DEF FoundAs
      <4> QED
        BY <2>5, <4>1, <4>2 DEF BlockId
    <3>4. Fits(f, x, o, w) /\ Found(f, bc)
      BY <2>3, <2>10
    <3>5. PICK r : Shrunk(f, Shrink(f, len), r, o, w, bc)
      BY <2>2, <2>10, <3>3, <3>4, ShrinkIs
    <3>6. Shrunk(f, t, r, o, w, bc)
      BY <3>2, <3>5
    <3>7. Len(r) \in Nat
      BY <3>6, LinkedLength DEF Shrunk, Fits
    <3>8. Covered(t, r)
      <4>1. len <= Len(r) * BlockSize
        BY <2>9, <3>6, <3>7 DEF Shrunk
      <4> QED
        BY <2>5, <3>6, <4>1 DEF Shrunk, Covered
    <3>9. Truncs(s, t, q, r, o, w, len)
      BY <2>5, <3>6, <3>8 DEF Truncs, Shrunk
    <3> QED
      BY <3>9 DEF t
  <2>11. CASE ~(len < s.e.size /\ f.rc = "OK")
    <3>1. ~(len = s.e.size) /\ ~(len = 0 /\ len # s.e.size) /\ ~(len # 0 /\ len < s.e.size /\ f.rc = "OK")
      BY <1>5, <2>11
    <3>2. t = f
      BY <1>1, <3>1, Zenon
    <3>3. w => Covered(f, x)
      <4> SUFFICES ASSUME w PROVE Covered(f, x)
        OBVIOUS
      <4>1. bc <= Len(x)
        BY <2>6, <2>8
      <4>2. len <= Len(x) * BlockSize
        BY <2>8, <2>9, <4>1
      <4> QED
        BY <2>5, <4>2 DEF Covered
    <3>4. Truncs(s, f, q, x, o, w, len)
      BY <2>3, <2>5, <3>3 DEF Truncs
    <3> QED
      BY <3>2, <3>4 DEF t
  <2> QED
    BY <2>10, <2>11
<1> QED
  BY <1>3, <1>4, <1>5

-----------------------------------------------------------------------------
(***************************************************************************)
(* The invariant.  Q names the chain of each inode; w holds for the        *)
(* clients of SafeSpec.                                                    *)
(***************************************************************************)

\* The blocks of the chains of the other inodes.
Others(Q, i) == {d \in BlockId : \E j \in Inode \ {i} : d \in Ids(Q[j])}

Chains(Q) ==
  /\ Q \in [Inode -> Seq(BlockId)]
  /\ \A i \in Inode : Linked(blk, inode[i].first, Q[i])
  /\ \A i \in Inode : \A d \in Ids(Q[i]) : blk[d].used
  /\ \A i, j \in Inode : \A d \in Ids(Q[i]) : i # j => d \notin Ids(Q[j])

\* A free block is blank, and none is below the hint.
Store ==
  /\ \A d \in BlockId : blk[d].used \/ blk[d] = EmptyBlock
  /\ \A d \in BlockId : d < bhint => blk[d].used

\* An unused inode is blank, and so is an entry that is not in the table; the
\* others agree with the inode and the chain.
Entries(Q) ==
  \A i \in Inode :
    /\ ~inode[i].used => inode[i] = Unused
    /\ ~IsOpened(i) => opened[i] = NotOpened
    /\ IsOpened(i) => opened[i].first = inode[i].first
    /\ Listed(opened[i].list, blk, Q[i])

InodeHint == \A i \in Inode : i < ihint => inode[i].used

\* What SafeSpec adds: no block is lost, a list that is loaded is whole, and the
\* chain covers the file.
Kept(Q) ==
  /\ ~aborted
  /\ \A d \in BlockId : blk[d].used => \E i \in Inode : d \in Ids(Q[i])
  /\ \A i \in Inode : /\ opened[i].list = <<>> \/ Len(opened[i].list) = Len(Q[i])
                      /\ opened[i].size <= Len(Q[i]) * BlockSize
                      /\ inode[i].size <= Len(Q[i]) * BlockSize

Good(Q, w) ==
  /\ TypeOK /\ Store /\ InodeHint
  /\ Chains(Q) /\ Entries(Q)
  /\ w => Kept(Q)

\* A call on an inode starts with a session that fits its chain.
LEMMA SessionFits ==
  ASSUME NEW w \in BOOLEAN, NEW Q, Good(Q, w), NEW i \in Inode,
         IsOpened(i) \/ inode[i] = Unused,
         NEW pos \in 0..MaxSize, NEW n \in 0..MaxSize, NEW v \in Byte
  PROVE  /\ Fits(Session(i, pos, n, v), Q[i], Others(Q, i), w)
         /\ Others(Q, i) \in SUBSET BlockId
         /\ w => Covered(Session(i, pos, n, v), Q[i])
<1> DEFINE s == Session(i, pos, n, v)
           o == Others(Q, i)
           q == Q[i]
<1>1. /\ s.blk = blk /\ s.hint = bhint /\ s.di = inode[i] /\ s.e = opened[i] /\ s.rc = "OK"
      /\ s.bl = [id |-> 0, next |-> 0] /\ s.pos = pos /\ s.left = n /\ s.val = v /\ s.out = <<>>
      /\ s = [blk |-> blk, hint |-> bhint, di |-> inode[i], e |-> opened[i], rc |-> "OK",
              bl |-> [id |-> 0, next |-> 0], pos |-> pos, left |-> n, val |-> v, out |-> <<>>]
  BY DEF Session
<1> HIDE DEF s
<1>2. s \in Sess
  <2>1. /\ blk \in [BlockId -> Block] /\ bhint \in 1..NumBlocks + 1
        /\ inode[i] \in DiskInode /\ opened[i] \in Entry
    BY DEF Good, TypeOK
  <2>2. "OK" \in Code /\ 0 \in 0..NumBlocks /\ <<>> \in Seq(Byte)
    BY BlockCountAssumption DEF Code
  <2> QED
    BY <1>1, <2>1, <2>2 DEF Sess
<1>3. Linked(blk, inode[i].first, q)
  BY DEF Good, Chains
<1>4. inode[i].first = opened[i].first
  BY DEF Good, Entries, Unused, NotOpened
<1>5. Listed(opened[i].list, blk, q)
  BY DEF Good, Entries
<1>6. Held(blk, bhint, q, o)
  <2>1. \A d \in Ids(q) : blk[d].used /\ d \notin o
    BY DEF Good, Chains, Others
  <2>2. \A d \in o : blk[d].used
    BY DEF Good, Chains, Others
  <2> QED
    BY <2>1, <2>2 DEF Good, Store, Held
<1>7. w => Whole(blk, opened[i].list, q, o) /\ Covered(s, q)
  <2> SUFFICES ASSUME w PROVE Whole(blk, opened[i].list, q, o) /\ Covered(s, q)
    OBVIOUS
  <2>1. Kept(Q)
    BY DEF Good
  <2>2. \A d \in BlockId : blk[d].used => d \in Ids(q) \cup o
    BY <2>1 DEF Kept, Others
  <2> QED
    BY <1>1, <2>1, <2>2 DEF Kept, Whole, Covered
<1>8. Fits(s, q, o, w)
  <2>1. "OK" # "Assert"
    OBVIOUS
  <2> QED
    BY <1>1, <1>2, <1>3, <1>4, <1>5, <1>6, <1>7, <2>1 DEF Fits
<1> QED
  BY <1>7, <1>8 DEF Others, s

\* The store after a step that changes the chain of one inode.
LEMMA StoreSettles ==
  ASSUME NEW Q, Chains(Q), NEW i \in Inode, NEW r \in Seq(BlockId),
         Linked(blk', inode'[i].first, r), Held(blk', bhint', r, Others(Q, i)),
         \A d \in Others(Q, i) : blk'[d] = blk[d],
         \A j \in Inode \ {i} : inode'[j] = inode[j]
  PROVE  Store' /\ Chains([Q EXCEPT ![i] = r])'
<1> DEFINE P == [Q EXCEPT ![i] = r]
           o == Others(Q, i)
<1>1. P \in [Inode -> Seq(BlockId)] /\ P[i] = r /\ \A j \in Inode \ {i} : P[j] = Q[j]
  BY DEF Chains
<1> HIDE DEF P
<1>2. Store'
  BY DEF Held, Store
<1>3. \A j \in Inode \ {i} : \A d \in Ids(Q[j]) : d \in o
  <2>1. \A j \in Inode : Ids(Q[j]) \subseteq BlockId
    BY LinkedLength DEF Chains, Ids
  <2> QED
    BY <2>1 DEF Others
<1>4. ASSUME NEW j \in Inode PROVE Linked(blk', inode'[j].first, P[j])
  <2>1. CASE j = i
    BY <1>1, <2>1
  <2>2. CASE j # i
    <3>1. Linked(blk, inode[j].first, Q[j])
      BY DEF Chains
    <3>2. \A d \in Ids(Q[j]) : blk'[d].next = blk[d].next
      BY <1>3, <2>2
    <3>3. Linked(blk', inode[j].first, Q[j])
      BY <3>1, <3>2, LinkedStays
    <3> QED
      BY <1>1, <2>2, <3>3
  <2> QED
    BY <2>1, <2>2
<1>5. ASSUME NEW j \in Inode, NEW d \in Ids(P[j]) PROVE blk'[d].used
  BY <1>1, <1>3 DEF Held
<1>6. ASSUME NEW j \in Inode, NEW l \in Inode, NEW d \in Ids(P[j]), j # l PROVE d \notin Ids(P[l])
  <2>1. CASE j = i
    BY <1>1, <1>3, <1>6, <2>1 DEF Held
  <2>2. CASE l = i
    BY <1>1, <1>3, <1>6, <2>2 DEF Held
  <2>3. CASE j # i /\ l # i
    BY <1>1, <1>6, <2>3 DEF Chains
  <2> QED
    BY <2>1, <2>2, <2>3
<1>7. Chains(P)'
  BY <1>1, <1>4, <1>5, <1>6 DEF Chains
<1> QED
  BY <1>2, <1>7 DEF P

\* The lists of the other inodes.
LEMMA OtherLists ==
  ASSUME NEW Q, Chains(Q), NEW i \in Inode, NEW j \in Inode \ {i}, NEW list, Len(list) \in Nat,
         Listed(list, blk, Q[j]), \A d \in Others(Q, i) : blk'[d] = blk[d]
  PROVE  Listed(list, blk', Q[j])
<1>1. Len(Q[j]) \in Nat /\ Q[j] \in [1..Len(Q[j]) -> BlockId]
  BY LinkedLength DEF Chains
<1>2. \A k \in 1..Len(Q[j]) : Q[j][k] \in Others(Q, i)
  BY <1>1 DEF Others, Ids
<1>3. \A k \in 1..Len(list) : k \in 1..Len(Q[j])
  BY <1>1 DEF Listed
<1> QED
  BY <1>2, <1>3 DEF Listed

Sound(w) == \E Q : Good(Q, w)

Spared(bk, cs, o) == \A d \in o : cs[d] = bk[d]

Spans(t, r, w) == w => Covered(t, r)

\* The state after a call on an opened inode.
LEMMA Settles ==
  ASSUME NEW w \in BOOLEAN, NEW Q, Good(Q, w), NEW i \in Inode, NEW t, NEW r,
         Fits(t, r, Others(Q, i), w), Spared(blk, t.blk, Others(Q, i)),
         IsOpened(i), t.e.count = opened[i].count, t.di.used, Spans(t, r, w),
         blk' = t.blk, bhint' = t.hint, inode' = [inode EXCEPT ![i] = t.di],
         opened' = [opened EXCEPT ![i] = t.e], ihint' = ihint, aborted' = (t.rc = "Assert"),
         dev' \in [Handle -> Device \cup {NoDev}]
  PROVE  Sound(w)'
<1> DEFINE P == [Q EXCEPT ![i] = r]
           o == Others(Q, i)
<1>1. /\ t \in Sess /\ Linked(t.blk, t.e.first, r) /\ t.di.first = t.e.first
      /\ Listed(t.e.list, t.blk, r) /\ Held(t.blk, t.hint, r, o)
      /\ (w => Whole(t.blk, t.e.list, r, o) /\ t.rc # "Assert")
  BY DEF Fits
<1>2. TypeOK /\ InodeHint /\ Chains(Q) /\ Entries(Q)
  BY DEF Good
<1>3. /\ inode'[i] = t.di /\ opened'[i] = t.e
      /\ \A j \in Inode \ {i} : inode'[j] = inode[j] /\ opened'[j] = opened[j]
  BY <1>2 DEF TypeOK
<1>4. r \in Seq(BlockId)
  BY <1>1, LinkedLength
<1>5. P[i] = r /\ \A j \in Inode \ {i} : P[j] = Q[j]
  BY <1>2 DEF Chains
<1>6. Store' /\ Chains(P)'
  <2>1. /\ Linked(blk', inode'[i].first, r) /\ Held(blk', bhint', r, Others(Q, i))
        /\ \A d \in Others(Q, i) : blk'[d] = blk[d]
        /\ \A j \in Inode \ {i} : inode'[j] = inode[j]
    BY <1>1, <1>3 DEF Spared
  <2> QED
    BY <1>2, <1>4, <2>1, StoreSettles
<1> HIDE DEF P
<1>7. TypeOK'
  <2>1. /\ t.blk \in [BlockId -> Block] /\ t.hint \in 1..NumBlocks + 1
        /\ t.di \in DiskInode /\ t.e \in Entry
    BY <1>1, SessTypes
  <2> QED
    BY <1>2, <2>1 DEF TypeOK
<1>8. InodeHint'
  BY <1>2, <1>3 DEF InodeHint
<1>9. Entries(P)'
  <2> SUFFICES ASSUME NEW j \in Inode
               PROVE  /\ ~inode'[j].used => inode'[j] = Unused
                      /\ ~(opened'[j].count > 0) => opened'[j] = NotOpened
                      /\ (opened'[j].count > 0) => opened'[j].first = inode'[j].first
                      /\ Listed(opened'[j].list, blk', P[j])
    BY DEF Entries, IsOpened
  <2>1. CASE j = i
    BY <1>1, <1>3, <1>5, <2>1 DEF IsOpened
  <2>2. CASE j # i
    <3>1. /\ ~inode[j].used => inode[j] = Unused
          /\ ~(opened[j].count > 0) => opened[j] = NotOpened
          /\ (opened[j].count > 0) => opened[j].first = inode[j].first
          /\ Listed(opened[j].list, blk, Q[j])
      BY <1>2 DEF Entries, IsOpened
    <3>2. Len(opened[j].list) \in Nat
      BY <1>2 DEF TypeOK, Entry
    <3>3. Listed(opened[j].list, blk', Q[j])
      BY <1>2, <2>2, <3>1, <3>2, OtherLists DEF Spared
    <3> QED
      BY <1>3, <1>5, <2>2, <3>1, <3>3
  <2> QED
    BY <2>1, <2>2
<1>10. w => Kept(P)'
  <2> SUFFICES ASSUME w PROVE Kept(P)'
    OBVIOUS
  <2>1. Kept(Q)
    BY DEF Good
  <2>2. Whole(t.blk, t.e.list, r, o) /\ t.rc # "Assert" /\ Covered(t, r)
    BY <1>1 DEF Spans
  <2>3. ASSUME NEW d \in BlockId, blk'[d].used PROVE \E j \in Inode : d \in Ids(P[j])
    BY <1>5, <2>2, <2>3 DEF Whole, Others
  <2>4. ASSUME NEW j \in Inode
        PROVE  /\ opened'[j].list = <<>> \/ Len(opened'[j].list) = Len(P[j])
               /\ opened'[j].size <= Len(P[j]) * BlockSize
               /\ inode'[j].size <= Len(P[j]) * BlockSize
    BY <1>3, <1>5, <2>1, <2>2 DEF Kept, Whole, Covered
  <2>5. ~aborted'
    BY <2>2
  <2> QED
    BY <2>3, <2>4, <2>5 DEF Kept
<1>11. Good(P, w)'
  BY <1>6, <1>7, <1>8, <1>9, <1>10 DEF Good
<1> QED
  BY <1>11 DEF Sound

-----------------------------------------------------------------------------
(***************************************************************************)
(* The table of opened inodes that a state of the files shows.  What is    *)
(* proved of WhefsInodes holds of it.                                      *)
(***************************************************************************)

Shown == INSTANCE WhefsInodesProofs WITH opened <- TableOpened, dev <- TableDev, disk <- TableDisk

LEMMA TableInodes == Shown!InodeAssumption
BY DEF Shown!InodeAssumption, Inode

LEMMA TableHandles == Shown!HandleAssumption
BY HandlesAssumption DEF Shown!HandleAssumption, IsFiniteSet, Shown!IsFiniteSet

LEMMA TableSizes == Shown!SizeAssumption
BY MaxSizeIs DEF Shown!SizeAssumption

LEMMA TableInvInit == Shown!Init => Shown!Inv
BY Shown!InvInit, TableInodes, TableHandles, TableSizes, Zenon

LEMMA TableInvNext == Shown!Inv /\ [Shown!Next]_(Shown!vars) => Shown!Inv'
BY Shown!InvNext, TableInodes, TableHandles, TableSizes, Zenon

LEMMA TableClosed ==
  ASSUME Shown!Inv, NEW i \in Inode
  PROVE  ~Shown!IsOpened(i) => Shown!HandlesOn(i) = {} /\ TableOpened[i].writer = NoHandle
BY Shown!ClosedEntry, TableInodes, TableHandles, TableSizes, Zenon

\* An opened device is in an opened entry of a used inode, and a writable one is
\* the writer of it.
LEMMA OpenDevice ==
  ASSUME TypeOK, Shown!Inv, NEW h \in Handle, dev[h] # NoDev
  PROVE  /\ dev[h] \in Device /\ dev[h].ino \in Inode /\ dev[h].pos \in 0..MaxSize
         /\ dev[h].rw \in BOOLEAN /\ IsOpened(dev[h].ino) /\ inode[dev[h].ino].used
<1>1. dev[h] \in Device /\ dev[h].ino \in Inode /\ dev[h].pos \in 0..MaxSize /\ dev[h].rw \in BOOLEAN
  BY DEF TypeOK, Device
<1> DEFINE i == dev[h].ino
<1>2. TableDev[h].ino = i /\ h \in Shown!HandlesOn(i)
  BY DEF TableDev, Shown!HandlesOn
<1>3. Shown!IsOpened(i)
  BY <1>1, <1>2, TableClosed
<1>4. IsOpened(i)
  BY <1>1, <1>3 DEF Shown!IsOpened, TableOpened, IsOpened
<1>5. TableDev[h] # Shown!NoDev
  <2>1. 0 \notin Inode
    BY DEF Inode
  <2> QED
    BY <1>1, <1>2, <2>1 DEF Shown!NoDev
<1>6. TableDisk[TableDev[h].ino].used
  BY <1>5 DEF Shown!Inv, Shown!OpenedIsUsed
<1>7. inode[i].used
  BY <1>1, <1>2, <1>6 DEF TableDisk
<1> QED
  BY <1>1, <1>4, <1>7

LEMMA ClosedDevice ==
  ASSUME NEW h \in Handle, dev[h].rw
  PROVE  dev[h] # NoDev
BY DEF NoDev

\* A step that changes one entry, one inode or one device.
LEMMA ShownEntry ==
  ASSUME opened \in [Inode -> Entry], NEW i \in Inode, NEW e, opened' = [opened EXCEPT ![i] = e]
  PROVE  TableOpened' = [TableOpened EXCEPT ![i] = [count |-> e.count, writer |-> e.writer,
                                                    size |-> e.size]]
BY DEF TableOpened

LEMMA ShownInode ==
  ASSUME inode \in [Inode -> DiskInode], NEW i \in Inode, NEW d, inode' = [inode EXCEPT ![i] = d]
  PROVE  TableDisk' = [TableDisk EXCEPT ![i] = [used |-> d.used, size |-> d.size]]
BY DEF TableDisk

LEMMA ShownDevice ==
  ASSUME dev \in [Handle -> Device \cup {NoDev}], NEW h \in Handle, NEW d,
         dev' = [dev EXCEPT ![h] = d]
  PROVE  TableDev' = [TableDev EXCEPT ![h] = [ino |-> d.ino, rw |-> d.rw]]
BY DEF TableDev

-----------------------------------------------------------------------------
(***************************************************************************)
(* The steps.                                                              *)
(***************************************************************************)

Inv(w) == Shown!Inv /\ Sound(w)

\* A step keeps the invariant and shows a step of the table, or none.
Step(w) == Sound(w)' /\ [Shown!Next]_(Shown!vars)

\* The size in the container after a call is the one before, the one in memory
\* before, or the one in memory now.
SizeKnown(i, t) == t.di.size \in {inode[i].size, opened[i].size, t.e.size}
SameSizes(i, t) == t.e.size = opened[i].size /\ t.di.size = inode[i].size

LEMMA CommitSteps ==
  ASSUME NEW w \in BOOLEAN, Shown!Inv, NEW Q, Good(Q, w), NEW h \in Handle, dev[h] # NoDev,
         NEW t, NEW r, Fits(t, r, Others(Q, dev[h].ino), w),
         Spared(blk, t.blk, Others(Q, dev[h].ino)),
         t.e.count = opened[dev[h].ino].count, t.e.writer = opened[dev[h].ino].writer,
         t.di.used, Spans(t, r, w),
         SameSizes(dev[h].ino, t) \/ (dev[h].rw /\ SizeKnown(dev[h].ino, t)),
         Commit(h, t)
  PROVE  Step(w)
<1> DEFINE i == dev[h].ino
<1>1. TypeOK
  BY DEF Good
<1>2. /\ dev[h] \in Device /\ i \in Inode /\ dev[h].rw \in BOOLEAN /\ IsOpened(i) /\ inode[i].used
  BY <1>1, OpenDevice
<1>3. /\ blk' = t.blk /\ bhint' = t.hint /\ inode' = [inode EXCEPT ![i] = t.di]
      /\ opened' = [opened EXCEPT ![i] = t.e] /\ dev' = [dev EXCEPT ![h].pos = t.pos]
      /\ aborted' = (t.rc = "Assert") /\ ihint' = ihint
  BY DEF Commit
<1> DEFINE d == [dev[h] EXCEPT !.pos = t.pos]
<1>4. d \in Device /\ d.ino = i /\ d.rw = dev[h].rw
  <2>1. t.pos \in 0..MaxSize
    BY SessTypes DEF Fits
  <2> QED
    BY <1>2, <2>1 DEF Device
<1>5. dev' = [dev EXCEPT ![h] = d]
  BY <1>3
<1> HIDE DEF d
<1>6. dev' \in [Handle -> Device \cup {NoDev}]
  BY <1>1, <1>4, <1>5 DEF TypeOK
<1>7. Sound(w)'
  <2>1. /\ Good(Q, w) /\ Fits(t, r, Others(Q, i), w) /\ Spared(blk, t.blk, Others(Q, i))
        /\ t.e.count = opened[i].count /\ t.di.used /\ Spans(t, r, w)
    OBVIOUS
  <2> HIDE DEF i
  <2> QED
    BY <1>2, <1>3, <1>6, <2>1, Settles
<1>8. TableDev' = TableDev
  <2>1. TableDev' = [TableDev EXCEPT ![h] = [ino |-> d.ino, rw |-> d.rw]]
    BY <1>1, <1>5, ShownDevice DEF TypeOK
  <2> QED
    BY <1>4, <2>1 DEF TableDev
<1>9. TableOpened' = [TableOpened EXCEPT ![i].size = t.e.size]
  <2>1. TableOpened' = [TableOpened EXCEPT ![i] = [count |-> t.e.count, writer |-> t.e.writer,
                                                    size |-> t.e.size]]
    BY <1>1, <1>2, <1>3, ShownEntry DEF TypeOK
  <2> QED
    BY <1>2, <2>1 DEF TableOpened
<1>10. TableDisk' = [TableDisk EXCEPT ![i].size = t.di.size]
  <2>1. TableDisk' = [TableDisk EXCEPT ![i] = [used |-> t.di.used, size |-> t.di.size]]
    BY <1>1, <1>2, <1>3, ShownInode DEF TypeOK
  <2>2. t.di.used = inode[i].used
    BY <1>1, <1>2, SessTypes DEF Fits, TypeOK, DiskInode
  <2> QED
    BY <1>2, <2>1, <2>2 DEF TableDisk
<1>11. [Shown!Next]_(Shown!vars)
  <2>1. /\ TableDev[h].ino = i /\ TableDev[h].rw = dev[h].rw
        /\ TableOpened[i].size = opened[i].size /\ TableDisk[i].size = inode[i].size
    BY <1>2 DEF TableDev, TableOpened, TableDisk
  <2>2. CASE SameSizes(i, t)
    <3>1. TableOpened' = TableOpened /\ TableDisk' = TableDisk
      <4>1. t.e.size = TableOpened[i].size /\ t.di.size = TableDisk[i].size
        BY <2>1, <2>2 DEF SameSizes
      <4>2. TableOpened' = [TableOpened EXCEPT ![i].size = TableOpened[i].size]
        BY <1>9, <4>1
      <4>3. TableDisk' = [TableDisk EXCEPT ![i].size = TableDisk[i].size]
        BY <1>10, <4>1
      <4>4. TableOpened' = TableOpened
        BY <1>2, <4>2 DEF TableOpened
      <4>5. TableDisk' = TableDisk
        BY <1>2, <4>3 DEF TableDisk
      <4> QED
        BY <4>4, <4>5
    <3> QED
      BY <1>8, <3>1 DEF Shown!vars
  <2>3. CASE dev[h].rw /\ SizeKnown(i, t)
    <3>1. \/ TableDisk' = TableDisk
          \/ TableDisk' = [TableDisk EXCEPT ![i].size = TableOpened[i].size]
          \/ TableDisk' = [TableDisk EXCEPT ![i].size = t.e.size]
      <4>1. CASE t.di.size = inode[i].size
        <5>1. TableDisk' = TableDisk
          BY <1>2, <1>10, <4>1 DEF TableDisk
        <5> QED
          BY <5>1
      <4>2. CASE t.di.size = opened[i].size
        BY <1>10, <2>1, <4>2
      <4>3. CASE t.di.size = t.e.size
        BY <1>10, <4>3
      <4> QED
        BY <2>3, <4>1, <4>2, <4>3 DEF SizeKnown
    <3>2. Shown!Resize(h, t.e.size)
      BY <1>8, <1>9, <2>1, <2>3, <3>1 DEF Shown!Resize, Shown!Flushed
    <3>3. t.e.size \in 0..MaxSize
      BY SessTypes DEF Fits
    <3> QED
      BY <3>2, <3>3 DEF Shown!Next
  <2> QED
    BY <2>2, <2>3
<1> QED
  BY <1>7, <1>11 DEF Step

LEMMA SeekSteps ==
  ASSUME NEW w \in BOOLEAN, Inv(w), NEW h \in Handle, NEW p \in SeekPos, Seek(h, p)
  PROVE  Step(w)
<1>1. PICK Q : Good(Q, w)
  BY DEF Inv, Sound
<1>2. TypeOK
  BY <1>1 DEF Good
<1>3. dev[h] # NoDev /\ dev' = [dev EXCEPT ![h].pos = p]
      /\ UNCHANGED <<blk, inode, bhint, ihint, opened, aborted>>
  BY DEF Seek
<1> DEFINE d == [dev[h] EXCEPT !.pos = p]
<1>4. d \in Device /\ d.ino = dev[h].ino /\ d.rw = dev[h].rw
  <2>1. dev[h] \in Device
    BY <1>2, <1>3, OpenDevice DEF Inv
  <2>2. p \in 0..MaxSize
    BY MaxSizeIs
  <2> QED
    BY <2>1, <2>2 DEF Device
<1>5. dev' = [dev EXCEPT ![h] = d]
  BY <1>3
<1> HIDE DEF d
<1>6. TypeOK'
  BY <1>2, <1>3, <1>4, <1>5 DEF TypeOK
<1>7. Good(Q, w)'
  BY <1>1, <1>3, <1>6 DEF Good, Store, InodeHint, Chains, Entries, IsOpened, Kept
<1>8. TableDev' = TableDev
  <2>1. TableDev' = [TableDev EXCEPT ![h] = [ino |-> d.ino, rw |-> d.rw]]
    BY <1>2, <1>5, ShownDevice DEF TypeOK
  <2> QED
    BY <1>4, <2>1 DEF TableDev
<1>9. TableOpened' = TableOpened /\ TableDisk' = TableDisk
  BY <1>3 DEF TableOpened, TableDisk
<1> QED
  BY <1>7, <1>8, <1>9 DEF Step, Sound, Shown!vars

\* The session of a call on an opened device.
LEMMA CallStarts ==
  ASSUME NEW w \in BOOLEAN, Inv(w), NEW h \in Handle, dev[h] # NoDev,
         NEW n \in 0..MaxSize, NEW v \in Byte
  PROVE  LET s == Session(dev[h].ino, dev[h].pos, n, v)
         IN  \E Q : /\ Good(Q, w) /\ Fits(s, Q[dev[h].ino], Others(Q, dev[h].ino), w)
                    /\ Spans(s, Q[dev[h].ino], w)
                    /\ Others(Q, dev[h].ino) \in SUBSET BlockId
                    /\ s.di.used
<1>1. PICK Q : Good(Q, w)
  BY DEF Inv, Sound
<1>2. /\ dev[h].ino \in Inode /\ dev[h].pos \in 0..MaxSize /\ IsOpened(dev[h].ino)
      /\ inode[dev[h].ino].used
  BY <1>1, OpenDevice DEF Inv, Good
<1> DEFINE i == dev[h].ino
           pos == dev[h].pos
           s == Session(i, pos, n, v)
<1> HIDE DEF i, pos
<1>3. i \in Inode /\ pos \in 0..MaxSize /\ IsOpened(i)
  BY <1>2 DEF i, pos
<1>4. /\ Fits(s, Q[i], Others(Q, i), w) /\ Others(Q, i) \in SUBSET BlockId
      /\ (w => Covered(s, Q[i]))
  BY <1>1, <1>3, SessionFits
<1>5. s.di.used
  BY <1>2 DEF Session, i
<1> QED
  BY <1>1, <1>4, <1>5 DEF Spans, i, pos

LEMMA SessionIs ==
  ASSUME NEW i, NEW pos, NEW n, NEW v
  PROVE  LET s == Session(i, pos, n, v)
         IN  /\ s.blk = blk /\ s.hint = bhint /\ s.di = inode[i] /\ s.e = opened[i] /\ s.rc = "OK"
             /\ s.pos = pos /\ s.left = n
BY DEF Session

LEMMA ReadSteps ==
  ASSUME NEW w \in BOOLEAN, Inv(w), NEW h \in Handle, NEW n \in IoLen, Read(h, n)
  PROVE  Step(w)
<1> DEFINE i == dev[h].ino
           s == Session(dev[h].ino, dev[h].pos, n, 0)
           t == Repeat(ReadChunk, s, n)
<1>1. dev[h] # NoDev /\ Commit(h, t)
  BY DEF Read
<1>2. n \in 0..MaxSize /\ n \in Nat
  BY MaxSizeIs, MaxPosAssumption
<1>3. PICK Q : /\ Good(Q, w) /\ Fits(s, Q[i], Others(Q, i), w) /\ Spans(s, Q[i], w)
               /\ Others(Q, i) \in SUBSET BlockId /\ s.di.used
  BY <1>1, <1>2, CallStarts, ByteAssumption
<1>4. s.blk = blk /\ s.di = inode[i] /\ s.e = opened[i] /\ s.rc = "OK"
  BY SessionIs
<1> HIDE DEF s
<1>5. Fits(t, Q[i], Others(Q, i), w) /\ OnlyRead(s, t)
  BY <1>2, <1>3, ReadFits
<1> HIDE DEF t
<1>6. Spared(blk, t.blk, Others(Q, i))
  BY <1>4, <1>5 DEF Spared, OnlyRead
<1>7. t.e.count = opened[i].count /\ t.e.writer = opened[i].writer /\ t.di.used
  BY <1>3, <1>4, <1>5 DEF OnlyRead
<1>8. Spans(t, Q[i], w)
  BY <1>3, <1>5 DEF Spans, Covered, OnlyRead
<1>9. SameSizes(i, t)
  BY <1>4, <1>5 DEF SameSizes, OnlyRead
<1>10. Shown!Inv /\ Good(Q, w)
  BY <1>3 DEF Inv
<1> QED
  BY <1>1, <1>5, <1>6, <1>7, <1>8, <1>9, <1>10, CommitSteps

\* A write, and what would be left of it.
LEMMA WriteRuns ==
  ASSUME NEW w \in BOOLEAN, Inv(w), NEW h \in Handle, dev[h].rw, dev[h].pos <= MaxPos,
         NEW n \in IoLen, NEW v \in Byte
  PROVE  LET s == Session(dev[h].ino, dev[h].pos, n, v)
             t == Written(h, n, v)
             i == dev[h].ino
         IN  \E Q, r : /\ Good(Q, w) /\ Writes(s, t, Q[i], r, Others(Q, i), w)
                       /\ t.rc = "OK" => t.left = 0
                       /\ Spans(s, Q[i], w) /\ s.di.used
<1> DEFINE i == dev[h].ino
           s == Session(dev[h].ino, dev[h].pos, n, v)
           t == Written(h, n, v)
<1>1. dev[h] # NoDev
  BY ClosedDevice
<1>2. n \in 0..MaxSize /\ n \in Nat /\ MaxPos + n <= MaxSize /\ MaxSize \in Nat /\ MaxPos \in Nat
  BY MaxSizeIs, MaxPosAssumption
<1>3. PICK Q : /\ Good(Q, w) /\ Fits(s, Q[i], Others(Q, i), w) /\ Spans(s, Q[i], w)
               /\ Others(Q, i) \in SUBSET BlockId /\ s.di.used
  BY <1>1, <1>2, CallStarts
<1>4. s.rc = "OK" /\ s.pos = dev[h].pos /\ s.left = n
  BY SessionIs
<1>5. t = Repeat(WriteChunk, s, n)
  BY Zenon DEF Written
<1> HIDE DEF s, t
<1>6. s.pos \in Nat
  BY <1>3, SessTypes, MaxSizeIs DEF Fits
<1>7. s.pos + s.left <= MaxSize /\ s.left <= n
  BY <1>2, <1>4, <1>6
<1>8. PICK r : /\ Writes(s, t, Q[i], r, Others(Q, i), w)
               /\ t.rc = "OK" => t.left = 0
  <2>1. \E r : /\ Writes(s, Repeat(WriteChunk, s, n), Q[i], r, Others(Q, i), w)
               /\ Repeat(WriteChunk, s, n).rc = "OK" => Repeat(WriteChunk, s, n).left = 0
    BY <1>2, <1>3, <1>4, <1>7, WriteIs
  <2> QED
    BY <1>5, <2>1
<1> QED
  BY <1>3, <1>8 DEF s, t

LEMMA WriteSteps ==
  ASSUME NEW w \in BOOLEAN, Inv(w), NEW h \in Handle, NEW n \in IoLen, NEW v \in Byte,
         Write(h, n, v)
  PROVE  Step(w)
<1> DEFINE i == dev[h].ino
           s == Session(dev[h].ino, dev[h].pos, n, v)
           t == Written(h, n, v)
<1>1. dev[h].rw /\ dev[h].pos <= MaxPos /\ Commit(h, t)
  BY DEF Write
<1>2. dev[h] # NoDev
  BY <1>1, ClosedDevice
<1>3. PICK Q, r : /\ Good(Q, w) /\ Writes(s, t, Q[i], r, Others(Q, i), w)
                  /\ Spans(s, Q[i], w) /\ s.di.used
  BY <1>1, WriteRuns
<1>4. s.blk = blk /\ s.di = inode[i] /\ s.e = opened[i]
  BY SessionIs
<1> HIDE DEF s, t
<1>5. Fits(t, r, Others(Q, i), w) /\ Wrote(s, t, Others(Q, i))
  BY <1>3 DEF Writes
<1>6. Spared(blk, t.blk, Others(Q, i))
  BY <1>4, <1>5 DEF Spared, Wrote
<1>7. t.e.count = opened[i].count /\ t.e.writer = opened[i].writer /\ t.di.used
  BY <1>3, <1>4, <1>5 DEF Wrote
<1>8. Spans(t, r, w)
  BY <1>3 DEF Spans, Writes
<1>9. SizeKnown(i, t)
  BY <1>4, <1>5 DEF SizeKnown, Wrote
<1>10. Shown!Inv /\ Good(Q, w)
  BY <1>3 DEF Inv
<1> QED
  BY <1>1, <1>2, <1>5, <1>6, <1>7, <1>8, <1>9, <1>10, CommitSteps

LEMMA TruncateSteps ==
  ASSUME NEW w \in BOOLEAN, Inv(w), NEW h \in Handle, NEW len \in TruncLen, Truncate(h, len),
         Spares(Session(dev[h].ino, dev[h].pos, 0, 0), len, w)
  PROVE  Step(w)
<1> DEFINE i == dev[h].ino
           s == Session(dev[h].ino, dev[h].pos, 0, 0)
           t == Trunc(s, len)
<1>1. dev[h].rw /\ Commit(h, t)
  BY DEF Truncate
<1>2. dev[h] # NoDev
  BY <1>1, ClosedDevice
<1>3. len \in 0..MaxSize /\ 0 \in 0..MaxSize
  BY MaxSizeIs
<1>4. PICK Q : /\ Good(Q, w) /\ Fits(s, Q[i], Others(Q, i), w) /\ Spans(s, Q[i], w)
               /\ Others(Q, i) \in SUBSET BlockId /\ s.di.used
  BY <1>2, <1>3, CallStarts, ByteAssumption
<1>5. s.blk = blk /\ s.di = inode[i] /\ s.e = opened[i] /\ s.rc = "OK"
  BY SessionIs
<1> HIDE DEF s
<1>6. PICK r : Truncs(s, t, Q[i], r, Others(Q, i), w, len)
  BY <1>3, <1>4, <1>5, TruncIs DEF s
<1> HIDE DEF t
<1>7. Fits(t, r, Others(Q, i), w) /\ Spared(blk, t.blk, Others(Q, i))
  BY <1>5, <1>6 DEF Truncs, Spared
<1>8. t.e.count = opened[i].count /\ t.e.writer = opened[i].writer /\ t.di.used
  BY <1>4, <1>5, <1>6 DEF Truncs
<1>9. Spans(t, r, w)
  BY <1>4, <1>6 DEF Spans, Truncs
<1>10. SizeKnown(i, t)
  BY <1>5, <1>6 DEF SizeKnown, Truncs
<1>11. Shown!Inv /\ Good(Q, w)
  BY <1>4 DEF Inv
<1> QED
  BY <1>1, <1>2, <1>7, <1>8, <1>9, <1>10, <1>11, CommitSteps

LEMMA TableHandlesOn ==
  ASSUME Shown!Inv, NEW i \in Inode
  PROVE  TableOpened[i].count = 0 <=> Shown!HandlesOn(i) = {}
<1>1. /\ TableOpened[i].count = Shown!Cardinality(Shown!HandlesOn(i))
      /\ TableOpened[i].count \in Nat
      /\ ~Shown!IsOpened(i) => Shown!HandlesOn(i) = {} /\ TableOpened[i].writer = NoHandle
  BY Shown!ClosedEntry, TableInodes, TableHandles, TableSizes, Zenon
<1>2. Shown!Cardinality(Shown!HandlesOn(i)) = 0 <=> Shown!HandlesOn(i) = {}
  BY Shown!HandlesFinite, TableInodes, TableHandles, TableSizes, Zenon
<1> QED
  BY <1>1, <1>2

\* An opened inode is used.
LEMMA OpenedUsed ==
  ASSUME TypeOK, Shown!Inv, NEW i \in Inode, IsOpened(i)
  PROVE  inode[i].used
<1>1. TableOpened[i].count # 0
  BY DEF TypeOK, Entry, IsOpened, TableOpened
<1>2. PICK h \in Handle : TableDev[h].ino = i
  BY <1>1, TableHandlesOn DEF Shown!HandlesOn
<1>3. i # 0
  BY DEF Inode
<1>4. TableDev[h] # Shown!NoDev
  BY <1>2, <1>3 DEF Shown!NoDev
<1>5. TableDisk[i].used
  BY <1>2, <1>4 DEF Shown!Inv, Shown!OpenedIsUsed
<1> QED
  BY <1>5 DEF TableDisk

\* An inode that is not opened has no writer, and the writer of an entry is a
\* device that may write.
LEMMA Writers ==
  ASSUME TypeOK, Shown!Inv, NEW i \in Inode
  PROVE  /\ ~IsOpened(i) => opened[i].writer = NoHandle
         /\ opened[i].writer # NoHandle => /\ dev[opened[i].writer].rw
                                           /\ opened[i].writer \in Handle
<1>1. TableOpened[i].writer = opened[i].writer /\ TableOpened[i].count = opened[i].count
  BY DEF TableOpened
<1>2. ASSUME ~IsOpened(i) PROVE opened[i].writer = NoHandle
  BY <1>1, <1>2, TableClosed DEF IsOpened, Shown!IsOpened
<1>3. ASSUME opened[i].writer # NoHandle
      PROVE  dev[opened[i].writer].rw /\ opened[i].writer \in Handle
  <2>1. opened[i].writer \in Handle
    BY <1>3 DEF TypeOK, Entry
  <2>2. TableDev[opened[i].writer] = [ino |-> i, rw |-> TRUE]
    BY <1>1, <1>3 DEF Shown!Inv, Shown!WriterIsDevice
  <2> QED
    BY <2>1, <2>2 DEF TableDev
<1> QED
  BY <1>2, <1>3

\* A step that changes only entries, and of inodes what is not the first block.
LEMMA SameStore ==
  ASSUME NEW w \in BOOLEAN, NEW Q, Good(Q, w), blk' = blk, bhint' = bhint, aborted' = aborted,
         \A j \in Inode : inode'[j].first = inode[j].first,
         TypeOK', InodeHint', Entries(Q)',
         \A j \in Inode : /\ opened'[j].list = <<>> \/ opened'[j].list = opened[j].list
                          /\ opened'[j].size \in {0, opened[j].size, inode[j].size}
                          /\ inode'[j].size \in {inode[j].size, opened[j].size}
  PROVE  Good(Q, w)'
<1>1. Store'
  BY DEF Good, Store
<1>2. Chains(Q)'
  BY DEF Good, Chains
<1>3. w => Kept(Q)'
  <2> SUFFICES ASSUME w PROVE Kept(Q)'
    OBVIOUS
  <2>1. Kept(Q)
    BY DEF Good
  <2>2. ASSUME NEW j \in Inode
        PROVE  /\ opened'[j].list = <<>> \/ Len(opened'[j].list) = Len(Q[j])
               /\ opened'[j].size <= Len(Q[j]) * BlockSize
               /\ inode'[j].size <= Len(Q[j]) * BlockSize
    <3> DEFINE a == Len(Q[j]) * BlockSize
    <3>1. a \in Nat
      <4>1. Len(Q[j]) \in Nat
        BY LinkedLength DEF Good, Chains
      <4> QED
        BY <4>1, BlockSizeAssumption
    <3>2. opened[j].size <= a /\ inode[j].size <= a /\ 0 <= a
      BY <2>1, <3>1 DEF Kept
    <3>3. opened[j].list = <<>> \/ Len(opened[j].list) = Len(Q[j])
      BY <2>1 DEF Kept
    <3> HIDE DEF a
    <3>4. opened'[j].size <= a /\ inode'[j].size <= a
      BY <3>2
    <3> QED
      BY <3>3, <3>4 DEF a
  <2> QED
    BY <2>1, <2>2 DEF Kept
<1> QED
  BY <1>1, <1>2, <1>3 DEF Good

\* An empty list has the first blocks of every chain.
LEMMA EmptyListed ==
  ASSUME NEW bk, NEW q, Len(q) \in Nat
  PROVE  Listed(<<>>, bk, q)
BY DEF Listed

\* A step that changes the entry of an inode and writes the inode, as opening,
\* closing and flushing do.
LEMMA EntrySettles ==
  ASSUME NEW w \in BOOLEAN, NEW Q, Good(Q, w), NEW i \in Inode, NEW e \in Entry,
         e = NotOpened \/ (e.count > 0 /\ e.first = inode[i].first),
         e.list = <<>> \/ e.list = opened[i].list,
         e.size \in {0, opened[i].size, inode[i].size},
         opened' = [opened EXCEPT ![i] = e],
         NEW d \in DiskInode, d.used, d.first = inode[i].first,
         d.size \in {inode[i].size, opened[i].size},
         inode' = [inode EXCEPT ![i] = d],
         dev' \in [Handle -> Device \cup {NoDev}], ihint' \in 1..NumInodes + 1, InodeHint',
         blk' = blk, bhint' = bhint, aborted' = aborted
  PROVE  Sound(w)'
<1>1. TypeOK /\ Entries(Q) /\ Chains(Q)
  BY DEF Good
<1>2. TypeOK'
  BY <1>1 DEF TypeOK
<1>3. /\ opened'[i] = e /\ inode'[i] = d
      /\ \A j \in Inode \ {i} : opened'[j] = opened[j] /\ inode'[j] = inode[j]
  BY <1>1 DEF TypeOK
<1>4. Listed(e.list, blk, Q[i])
  <2>1. Listed(opened[i].list, blk, Q[i]) /\ Listed(<<>>, blk, Q[i])
    BY <1>1, LinkedLength, EmptyListed DEF Entries, Chains
  <2> QED
    BY <2>1
<1>5. Entries(Q)'
  <2> SUFFICES ASSUME NEW j \in Inode
               PROVE  /\ ~inode'[j].used => inode'[j] = Unused
                      /\ ~(opened'[j].count > 0) => opened'[j] = NotOpened
                      /\ (opened'[j].count > 0) => opened'[j].first = inode'[j].first
                      /\ Listed(opened'[j].list, blk', Q[j])
    BY DEF Entries, IsOpened
  <2>1. CASE j = i
    <3>1. (opened'[j].count > 0) => opened'[j].first = inode'[j].first
      BY <1>3, <2>1 DEF NotOpened
    <3> QED
      BY <1>3, <1>4, <2>1, <3>1
  <2>2. CASE j # i
    BY <1>1, <1>3, <2>2 DEF Entries, IsOpened
  <2> QED
    BY <2>1, <2>2
<1>6. \A j \in Inode : /\ opened'[j].list = <<>> \/ opened'[j].list = opened[j].list
                       /\ opened'[j].size \in {0, opened[j].size, inode[j].size}
                       /\ inode'[j].size \in {inode[j].size, opened[j].size}
                       /\ inode'[j].first = inode[j].first
  BY <1>3
<1>7. Good(Q, w)'
  BY <1>2, <1>5, <1>6, SameStore
<1> QED
  BY <1>7 DEF Sound

\* What opening makes of an entry, and of the entry the table shows.
LEMMA ShareIs ==
  ASSUME TypeOK, NEW Q, Entries(Q), NEW i \in Inode, NEW h \in Handle, NEW rw \in BOOLEAN
  PROVE  /\ Share(i, h, rw) \in Entry /\ Share(i, h, rw).count > 0
         /\ Share(i, h, rw).list = <<>> \/ Share(i, h, rw).list = opened[i].list
         /\ Share(i, h, rw).size \in {opened[i].size, inode[i].size}
         /\ Share(i, h, rw).first = inode[i].first
         /\ Shown!Share(i, h, rw) = [count |-> Share(i, h, rw).count,
                                     writer |-> Share(i, h, rw).writer,
                                     size |-> Share(i, h, rw).size]
<1> DEFINE e == Share(i, h, rw)
           x == IF rw THEN h ELSE NoHandle
           y == IF opened[i].writer = NoHandle THEN x ELSE opened[i].writer
           E == TableOpened[i]
<1>1. opened[i] \in Entry /\ inode[i] \in DiskInode
  BY DEF TypeOK
<1>2. x \in Handle \cup {NoHandle}
  OBVIOUS
<1>3. E = [count |-> opened[i].count, writer |-> opened[i].writer, size |-> opened[i].size]
  BY DEF TableOpened
<1>4. TableDisk[i].size = inode[i].size
  BY DEF TableDisk
<1>5. Shown!IsOpened(i) <=> IsOpened(i)
  BY <1>3 DEF Shown!IsOpened, IsOpened
<1>6. e = IF IsOpened(i)
          THEN [opened[i] EXCEPT !.count = @ + 1, !.writer = y]
          ELSE [NotOpened EXCEPT !.count = 1, !.writer = x, !.size = inode[i].size,
                                 !.first = inode[i].first]
  BY DEF Share
<1>7. Shown!Share(i, h, rw) = IF Shown!IsOpened(i)
                              THEN [E EXCEPT !.count = @ + 1,
                                             !.writer = IF E.writer = NoHandle THEN x ELSE E.writer]
                              ELSE [count |-> 1, writer |-> x, size |-> TableDisk[i].size]
  BY DEF Shown!Share
<1>8. y \in Handle \cup {NoHandle}
  BY <1>1, <1>2 DEF Entry
<1> HIDE DEF x, y, e, E
<1>9. CASE IsOpened(i)
  <2>1. e = [opened[i] EXCEPT !.count = @ + 1, !.writer = y]
    BY <1>6, <1>9
  <2>2. /\ e \in Entry /\ e.count = opened[i].count + 1 /\ e.size = opened[i].size
        /\ e.first = opened[i].first /\ e.list = opened[i].list /\ e.writer = y
    <3>1. /\ opened[i].count \in Nat /\ opened[i].size \in 0..MaxSize
          /\ opened[i].first \in 0..NumBlocks /\ opened[i].list \in Seq(ListItem)
          /\ opened[i].count + 1 \in Nat
      BY <1>1 DEF Entry
    <3>2. opened[i] = [count |-> opened[i].count, writer |-> opened[i].writer,
                       size |-> opened[i].size, first |-> opened[i].first,
                       list |-> opened[i].list]
      BY <1>1 DEF Entry
    <3>3. e = [count |-> opened[i].count + 1, writer |-> y, size |-> opened[i].size,
               first |-> opened[i].first, list |-> opened[i].list]
      BY <2>1, <3>2
    <3> QED
      BY <1>8, <3>1, <3>3 DEF Entry
  <2>3. e.count > 0
    BY <1>1, <2>2 DEF Entry
  <2>4. e.first = inode[i].first
    BY <1>9, <2>2 DEF Entries
  <2>5. E.writer = opened[i].writer
    BY <1>3
  <2>6. Shown!Share(i, h, rw) = [E EXCEPT !.count = @ + 1, !.writer = y]
    BY <1>5, <1>7, <1>9, <2>5 DEF y
  <2>7. Shown!Share(i, h, rw) = [count |-> opened[i].count + 1, writer |-> y,
                                 size |-> opened[i].size]
    BY <1>3, <2>6
  <2> QED
    BY <2>2, <2>3, <2>4, <2>7 DEF e
<1>10. CASE ~IsOpened(i)
  <2>1. e = [NotOpened EXCEPT !.count = 1, !.writer = x, !.size = inode[i].size,
                              !.first = inode[i].first]
    BY <1>6, <1>10
  <2>2. e = [count |-> 1, writer |-> x, size |-> inode[i].size, first |-> inode[i].first,
             list |-> <<>>]
    BY <2>1 DEF NotOpened
  <2>3. e \in Entry
    BY <1>1, <1>2, <2>2 DEF Entry, DiskInode
  <2>4. Shown!Share(i, h, rw) = [count |-> 1, writer |-> x, size |-> inode[i].size]
    BY <1>4, <1>5, <1>7, <1>10
  <2>5. /\ e.count = 1 /\ e.writer = x /\ e.size = inode[i].size /\ e.first = inode[i].first
        /\ e.list = <<>>
    BY <2>2
  <2> QED
    BY <2>3, <2>4, <2>5 DEF e
<1> QED
  BY <1>9, <1>10

LEMMA OpenSteps ==
  ASSUME NEW w \in BOOLEAN, Inv(w), NEW h \in Handle, NEW i \in Inode, NEW rw \in BOOLEAN,
         Open(h, i, rw)
  PROVE  Step(w)
<1> DEFINE e == Share(i, h, rw)
           v == [ino |-> i, rw |-> rw, pos |-> 0]
<1>1. /\ dev[h] = NoDev /\ inode[i].used /\ ~(rw /\ opened[i].writer # NoHandle)
      /\ opened' = [opened EXCEPT ![i] = e] /\ dev' = [dev EXCEPT ![h] = v]
      /\ blk' = blk /\ inode' = inode /\ bhint' = bhint /\ ihint' = ihint /\ aborted' = aborted
  BY DEF Open
<1>2. PICK Q : Good(Q, w)
  BY DEF Inv, Sound
<1>3. TypeOK /\ Entries(Q) /\ InodeHint
  BY <1>2 DEF Good
<1>4. /\ e \in Entry /\ e.count > 0 /\ (e.list = <<>> \/ e.list = opened[i].list)
      /\ e.size \in {opened[i].size, inode[i].size} /\ e.first = inode[i].first
      /\ Shown!Share(i, h, rw) = [count |-> e.count, writer |-> e.writer, size |-> e.size]
  BY <1>3, ShareIs
<1> HIDE DEF e
<1>5. v \in Device /\ v.ino = i /\ v.rw = rw
  BY MaxSizeIs DEF Device
<1> HIDE DEF v
<1>6. Sound(w)'
  <2>1. inode[i] \in DiskInode
    BY <1>3 DEF TypeOK
  <2>2. inode' = [inode EXCEPT ![i] = inode[i]]
    BY <1>1, <1>3 DEF TypeOK
  <2>3. dev' \in [Handle -> Device \cup {NoDev}]
    BY <1>1, <1>3, <1>5 DEF TypeOK
  <2>4. InodeHint' /\ ihint' \in 1..NumInodes + 1
    BY <1>1, <1>3 DEF TypeOK, InodeHint
  <2> QED
    BY <1>1, <1>2, <1>4, <2>1, <2>2, <2>3, <2>4, EntrySettles
<1>7. TableOpened' = [TableOpened EXCEPT ![i] = Shown!Share(i, h, rw)]
  <2>1. TableOpened' = [TableOpened EXCEPT ![i] = [count |-> e.count, writer |-> e.writer,
                                                   size |-> e.size]]
    BY <1>1, <1>3, <1>4, ShownEntry DEF TypeOK
  <2> QED
    BY <1>4, <2>1
<1>8. TableDev' = [TableDev EXCEPT ![h] = [ino |-> i, rw |-> rw]]
  <2>1. TableDev' = [TableDev EXCEPT ![h] = [ino |-> v.ino, rw |-> v.rw]]
    BY <1>1, <1>3, ShownDevice DEF TypeOK
  <2> QED
    BY <1>5, <2>1
<1>9. TableDisk' = TableDisk
  BY <1>1 DEF TableDisk
<1>10. TableDisk[i].used
  BY <1>1 DEF TableDisk
<1>11. TableDev[h] = Shown!NoDev
  <2>1. TableDev[h] = [ino |-> dev[h].ino, rw |-> dev[h].rw]
    BY DEF TableDev
  <2>2. dev[h].ino = 0 /\ dev[h].rw = FALSE
    BY <1>1 DEF NoDev
  <2> QED
    BY <2>1, <2>2 DEF Shown!NoDev
<1>12. rw => TableOpened[i].writer = NoHandle
  BY <1>1 DEF TableOpened
<1>13. Shown!Next
  <2>1. CASE rw
    <3>1. rw = TRUE
      BY <2>1
    <3>2. Shown!OpenWrite(h, i)
      BY <1>7, <1>8, <1>9, <1>10, <1>11, <1>12, <3>1 DEF Shown!OpenWrite, Shown!MayOpen
    <3> QED
      BY <3>2 DEF Shown!Next
  <2>2. CASE ~rw
    <3>1. rw = FALSE
      BY <2>2
    <3>2. Shown!OpenRead(h, i)
      BY <1>7, <1>8, <1>9, <1>10, <1>11, <3>1 DEF Shown!OpenRead
    <3> QED
      BY <3>2 DEF Shown!Next
  <2> QED
    BY <2>1, <2>2
<1> QED
  BY <1>6, <1>13 DEF Step

\* The unused inode whefs_inode_next_free finds.
LEMMA FreeInode ==
  ASSUME TypeOK, Shown!Inv, NEW Q, Entries(Q), InodeHint,
         NEW S, S = {j \in Inode : j >= ihint /\ ~inode[j].used}, S # {}
  PROVE  /\ Min(S) \in Inode /\ ~inode[Min(S)].used /\ inode[Min(S)] = Unused
         /\ ~IsOpened(Min(S)) /\ opened[Min(S)] = NotOpened
         /\ \A j \in Inode : j < Min(S) => inode[j].used
<1>1. S \subseteq Nat /\ Inode \subseteq Nat
  BY DEF Inode
<1>2. Min(S) \in S /\ \A k \in S : Min(S) <= k
  BY <1>1, MinOf
<1> DEFINE i == Min(S)
<1> HIDE DEF i
<1>3. i \in Inode /\ ~inode[i].used /\ i \in Nat
  BY <1>1, <1>2 DEF i
<1>4. ASSUME NEW j \in Inode, j < i PROVE inode[j].used
  <2>1. j \notin S
    <3>1. j \in Nat
      BY <1>1
    <3> QED
      BY <1>2, <1>3, <1>4, <3>1 DEF i
  <2>2. ihint \in Nat /\ j \in Nat
    BY <1>1 DEF TypeOK
  <2> QED
    BY <2>1, <2>2 DEF InodeHint
<1>5. ~IsOpened(i)
  BY <1>3, OpenedUsed
<1>6. inode[i] = Unused /\ opened[i] = NotOpened
  BY <1>3, <1>5 DEF Entries
<1> QED
  BY <1>3, <1>4, <1>5, <1>6 DEF i

LEMMA InodeParts ==
  ASSUME NEW a, NEW b, NEW r, r = [used |-> a, size |-> b]
  PROVE  /\ [r EXCEPT !.used = TRUE] = [used |-> TRUE, size |-> b]
         /\ \A n : [r EXCEPT !.size = n] = [used |-> a, size |-> n]
<1>1. \A n : [r EXCEPT !.used = n] = [used |-> n, size |-> b]
  OBVIOUS
<1>2. \A n : [r EXCEPT !.size = n] = [used |-> a, size |-> n]
  OBVIOUS
<1> QED
  BY <1>1, <1>2, Zenon

LEMMA CreateSteps ==
  ASSUME NEW w \in BOOLEAN, Inv(w), NEW h \in Handle, Create(h)
  PROVE  Step(w)
<1> DEFINE S == {j \in Inode : j >= ihint /\ ~inode[j].used}
           i == Min(S)
           e == [NotOpened EXCEPT !.count = 1, !.writer = h, !.size = inode[i].size,
                                  !.first = inode[i].first]
           d == [inode[i] EXCEPT !.used = TRUE]
           v == [ino |-> i, rw |-> TRUE, pos |-> 0]
<1>1. /\ dev[h] = NoDev /\ S # {}
      /\ inode' = [inode EXCEPT ![i].used = TRUE] /\ ihint' = i + 1
      /\ opened' = [opened EXCEPT ![i] = e] /\ dev' = [dev EXCEPT ![h] = v]
      /\ blk' = blk /\ bhint' = bhint /\ aborted' = aborted
  BY DEF Create
<1>2. PICK Q : Good(Q, w)
  BY DEF Inv, Sound
<1>3. TypeOK /\ Entries(Q) /\ InodeHint
  BY <1>2 DEF Good
<1>4. /\ i \in Inode /\ ~inode[i].used /\ inode[i] = Unused /\ opened[i] = NotOpened
      /\ ~IsOpened(i)
      /\ \A j \in Inode : j < i => inode[j].used
  BY <1>1, <1>3, FreeInode DEF Inv
<1> HIDE DEF S, i
<1>5. inode' = [inode EXCEPT ![i] = d]
  BY <1>1
<1>6. /\ d = [used |-> TRUE, size |-> 0, first |-> 0]
      /\ e = [count |-> 1, writer |-> h, size |-> 0, first |-> 0, list |-> <<>>]
  <2>1. d = [Unused EXCEPT !.used = TRUE]
    BY <1>4
  <2>2. d = [used |-> TRUE, size |-> 0, first |-> 0]
    <3>1. \A n : [Unused EXCEPT !.used = n] = [used |-> n, size |-> 0, first |-> 0]
      BY DEF Unused
    <3> QED
      BY <2>1, <3>1, Zenon
  <2>3. inode[i].size = 0 /\ inode[i].first = 0
    BY <1>4 DEF Unused
  <2>4. e = [NotOpened EXCEPT !.count = 1, !.writer = h, !.size = 0, !.first = 0]
    BY <2>3
  <2> HIDE DEF e
  <2>5. e = [count |-> 1, writer |-> h, size |-> 0, first |-> 0, list |-> <<>>]
    BY <2>4 DEF NotOpened
  <2> QED
    BY <2>2, <2>5
<1> HIDE DEF d, e
<1>7. d.used /\ d.size = 0 /\ d.first = 0 /\ d \in DiskInode
  <2>1. 0 \in 0..MaxSize /\ 0 \in 0..NumBlocks
    BY MaxSizeIs, BlockCountAssumption
  <2> QED
    BY <1>6, <2>1 DEF DiskInode
<1>8. e.count = 1 /\ e.writer = h /\ e.size = 0 /\ e.first = 0 /\ e.list = <<>> /\ e \in Entry
  <2>1. 0 \in 0..MaxSize /\ 0 \in 0..NumBlocks /\ 1 \in Nat /\ <<>> \in Seq(ListItem)
    BY MaxSizeIs, BlockCountAssumption
  <2>2. e \in Entry
    BY <1>6, <2>1 DEF Entry
  <2> QED
    BY <1>6, <2>2
<1>9. v \in Device /\ v.ino = i /\ v.rw = TRUE
  BY <1>4, MaxSizeIs DEF Device
<1>10. inode[i].size = 0 /\ inode[i].first = 0 /\ opened[i].writer = NoHandle
  BY <1>4 DEF Unused, NotOpened
<1> HIDE DEF v
<1>11. i + 1 \in 1..NumInodes + 1
  BY <1>4, NumInodesAssumption DEF Inode
<1>12. InodeHint'
  <2> SUFFICES ASSUME NEW j \in Inode, j < i + 1 PROVE inode'[j].used
    BY <1>1 DEF InodeHint
  <2>1. j \in Nat /\ i \in Nat
    BY <1>4 DEF Inode
  <2>2. inode'[i] = d /\ (j # i => inode'[j] = inode[j])
    BY <1>3, <1>4, <1>5 DEF TypeOK
  <2>3. j = i \/ j < i
    BY <2>1
  <2> QED
    BY <1>4, <1>7, <2>2, <2>3
<1>13. Sound(w)'
  <2>1. dev' \in [Handle -> Device \cup {NoDev}]
    BY <1>1, <1>3, <1>9 DEF TypeOK
  <2>2. /\ e.count > 0 /\ e.first = inode[i].first /\ e.size \in {0, opened[i].size, inode[i].size}
        /\ d.first = inode[i].first /\ d.size \in {inode[i].size, opened[i].size}
    BY <1>7, <1>8, <1>10
  <2>3. ihint' \in 1..NumInodes + 1
    BY <1>1, <1>11
  <2> QED
    BY <1>1, <1>2, <1>4, <1>5, <1>7, <1>8, <1>12, <2>1, <2>2, <2>3, EntrySettles
<1>14. Shown!CreateWrite(h, i)
  <2>1. TableDev[h] = Shown!NoDev
    <3>1. TableDev[h] = [ino |-> dev[h].ino, rw |-> dev[h].rw]
      BY DEF TableDev
    <3>2. dev[h].ino = 0 /\ dev[h].rw = FALSE
      BY <1>1 DEF NoDev
    <3> QED
      BY <3>1, <3>2 DEF Shown!NoDev
  <2>2. TableDisk[i] = [used |-> inode[i].used, size |-> 0] /\ ~TableDisk[i].used
    BY <1>4, <1>10 DEF TableDisk
  <2>3. TableOpened[i].writer = NoHandle /\ TableOpened[i].count = opened[i].count
    BY <1>4, <1>10 DEF TableOpened
  <2>4. Shown!Share(i, h, TRUE) = [count |-> 1, writer |-> h, size |-> 0]
    <3>1. ~Shown!IsOpened(i)
      BY <1>4, <2>3 DEF IsOpened, Shown!IsOpened
    <3>2. TableDisk[i].size = 0
      BY <2>2
    <3> QED
      BY <3>1, <3>2 DEF Shown!Share
  <2>5. TableOpened' = [TableOpened EXCEPT ![i] = Shown!Share(i, h, TRUE)]
    <3>1. TableOpened' = [TableOpened EXCEPT ![i] = [count |-> e.count, writer |-> e.writer,
                                                     size |-> e.size]]
      BY <1>1, <1>3, <1>4, ShownEntry DEF TypeOK
    <3> QED
      BY <1>8, <2>4, <3>1
  <2>6. TableDev' = [TableDev EXCEPT ![h] = [ino |-> i, rw |-> TRUE]]
    <3>1. TableDev' = [TableDev EXCEPT ![h] = [ino |-> v.ino, rw |-> v.rw]]
      BY <1>1, <1>3, ShownDevice DEF TypeOK
    <3> QED
      BY <1>9, <3>1
  <2>7. TableDisk' = [TableDisk EXCEPT ![i].used = TRUE]
    <3>1. TableDisk' = [TableDisk EXCEPT ![i] = [used |-> d.used, size |-> d.size]]
      BY <1>3, <1>4, <1>5, ShownInode DEF TypeOK
    <3>2. d.used = TRUE
      BY <1>6
    <3>3. [TableDisk[i] EXCEPT !.used = TRUE] = [used |-> TRUE, size |-> 0]
      BY <2>2, InodeParts
    <3> QED
      BY <1>7, <3>1, <3>2, <3>3
  <2> QED
    BY <2>1, <2>2, <2>3, <2>5, <2>6, <2>7 DEF Shown!CreateWrite, Shown!MayOpen
<1>15. Shown!Next
  BY <1>4, <1>14 DEF Shown!Next
<1> QED
  BY <1>13, <1>15 DEF Step

\* The inode that a flush or a close writes.
LEMMA FlushedIs ==
  ASSUME TypeOK, NEW Q, Entries(Q), NEW i \in Inode, IsOpened(i)
  PROVE  LET d == FlushedInode(i)
         IN  /\ d \in DiskInode /\ d.used /\ d.used = TRUE /\ d.first = inode[i].first
             /\ d.size = opened[i].size
<1>1. opened[i] \in Entry /\ opened[i].first = inode[i].first
  BY DEF TypeOK, Entries
<1> QED
  BY <1>1 DEF FlushedInode, Entry, DiskInode

\* ... and what the table shows of it.
LEMMA ShownFlushed ==
  ASSUME TypeOK, NEW i \in Inode, inode[i].used, NEW d, d.used = TRUE, d.size = opened[i].size,
         inode' = [inode EXCEPT ![i] = d]
  PROVE  TableDisk' = Shown!Flushed(i)
<1>1. TableDisk' = [TableDisk EXCEPT ![i] = [used |-> d.used, size |-> d.size]]
  BY ShownInode DEF TypeOK
<1>2. TableDisk[i] = [used |-> inode[i].used, size |-> inode[i].size]
  BY DEF TableDisk
<1>3. inode[i].used = TRUE
  BY DEF TypeOK, DiskInode
<1>4. TableOpened[i].size = opened[i].size
  BY DEF TableOpened
<1>5. [TableDisk[i] EXCEPT !.size = opened[i].size] = [used |-> TRUE, size |-> opened[i].size]
  BY <1>2, <1>3, InodeParts
<1> QED
  BY <1>1, <1>4, <1>5 DEF Shown!Flushed

LEMMA FlushSteps ==
  ASSUME NEW w \in BOOLEAN, Inv(w), NEW h \in Handle, Flush(h)
  PROVE  Step(w)
<1> DEFINE i == dev[h].ino
           d == FlushedInode(i)
           e == opened[i]
<1>1. /\ dev[h].rw /\ inode' = [inode EXCEPT ![i] = d]
      /\ blk' = blk /\ bhint' = bhint /\ ihint' = ihint /\ opened' = opened /\ dev' = dev
      /\ aborted' = aborted
  BY DEF Flush
<1>2. PICK Q : Good(Q, w)
  BY DEF Inv, Sound
<1>3. TypeOK /\ Entries(Q) /\ InodeHint
  BY <1>2 DEF Good
<1>4. dev[h] # NoDev
  BY <1>1, ClosedDevice
<1>5. i \in Inode /\ IsOpened(i) /\ inode[i].used
  BY <1>3, <1>4, OpenDevice DEF Inv
<1>6. /\ d \in DiskInode /\ d.used /\ d.used = TRUE /\ d.first = inode[i].first
      /\ d.size = opened[i].size
  BY <1>3, <1>5, FlushedIs
<1> HIDE DEF d
<1>7. e \in Entry /\ e.count > 0 /\ e.first = inode[i].first /\ opened' = [opened EXCEPT ![i] = e]
  BY <1>1, <1>3, <1>5 DEF TypeOK, Entries, IsOpened
<1>8. InodeHint'
  BY <1>1, <1>3, <1>6 DEF InodeHint, TypeOK
<1>9. ihint' \in 1..NumInodes + 1 /\ dev' \in [Handle -> Device \cup {NoDev}]
  BY <1>1, <1>3 DEF TypeOK
<1>10. Sound(w)'
  <2>1. /\ e.list = opened[i].list /\ e.size = opened[i].size /\ d.size = opened[i].size
    BY <1>6
  <2> HIDE DEF e
  <2> QED
    BY <1>1, <1>2, <1>5, <1>6, <1>7, <1>8, <1>9, <2>1, EntrySettles
<1>11. Shown!Flush(h)
  <2>1. TableDisk' = Shown!Flushed(i)
    BY <1>1, <1>3, <1>5, <1>6, ShownFlushed
  <2>2. TableDev[h].ino = i /\ TableDev[h].rw = dev[h].rw
    BY DEF TableDev
  <2>3. TableOpened' = TableOpened /\ TableDev' = TableDev
    BY <1>1 DEF TableOpened, TableDev
  <2> QED
    BY <1>1, <2>1, <2>2, <2>3 DEF Shown!Flush
<1> QED
  BY <1>10, <1>11 DEF Step, Shown!Next

\* The entry of an inode after a device let go of it.
LEMMA ReleaseIs ==
  ASSUME TypeOK, NEW Q, Entries(Q), NEW i \in Inode, IsOpened(i), NEW h \in Handle
  PROVE  LET e == Release(i, h)
         IN  /\ e \in Entry
             /\ e = NotOpened \/ (e.count > 0 /\ e.first = inode[i].first)
             /\ e.list = <<>> \/ e.list = opened[i].list
             /\ e.size \in {0, opened[i].size}
             /\ Shown!Release(i, h) = [count |-> e.count, writer |-> e.writer, size |-> e.size]
<1> DEFINE e == Release(i, h)
           y == IF opened[i].writer = h THEN NoHandle ELSE opened[i].writer
           E == TableOpened[i]
<1>1. opened[i] \in Entry /\ opened[i].count > 0 /\ opened[i].first = inode[i].first
  BY DEF TypeOK, Entries, IsOpened
<1>2. /\ opened[i].count \in Nat /\ opened[i].size \in 0..MaxSize
      /\ opened[i].first \in 0..NumBlocks /\ opened[i].list \in Seq(ListItem)
      /\ opened[i].count - 1 \in Nat
  BY <1>1 DEF Entry
<1>3. opened[i] = [count |-> opened[i].count, writer |-> opened[i].writer,
                   size |-> opened[i].size, first |-> opened[i].first,
                   list |-> opened[i].list]
  BY <1>1 DEF Entry
<1>4. E = [count |-> opened[i].count, writer |-> opened[i].writer, size |-> opened[i].size]
      /\ E.count = opened[i].count /\ E.writer = opened[i].writer
  BY DEF TableOpened
<1>5. y \in Handle \cup {NoHandle}
  BY <1>1 DEF Entry
<1>6. e = IF opened[i].count = 1 THEN NotOpened
          ELSE [opened[i] EXCEPT !.count = @ - 1, !.writer = y]
  BY DEF Release
<1>7. Shown!Release(i, h) = IF E.count = 1 THEN Shown!NotOpened
                            ELSE [E EXCEPT !.count = @ - 1,
                                           !.writer = IF E.writer = h THEN NoHandle ELSE E.writer]
  BY DEF Shown!Release
<1> HIDE DEF e, E, y
<1>8. CASE opened[i].count = 1
  <2>1. e = NotOpened
    BY <1>6, <1>8
  <2>2. Shown!Release(i, h) = Shown!NotOpened
    BY <1>4, <1>7, <1>8
  <2>3. e.count = 0 /\ e.writer = NoHandle /\ e.size = 0 /\ e.list = <<>>
    BY <2>1 DEF NotOpened
  <2>4. e \in Entry
    BY <2>1, MaxSizeIs, BlockCountAssumption DEF NotOpened, Entry
  <2> QED
    BY <2>1, <2>2, <2>3, <2>4 DEF e, Shown!NotOpened
<1>9. CASE opened[i].count # 1
  <2>1. e = [opened[i] EXCEPT !.count = @ - 1, !.writer = y]
    BY <1>6, <1>9
  <2>2. e = [count |-> opened[i].count - 1, writer |-> y, size |-> opened[i].size,
             first |-> opened[i].first, list |-> opened[i].list]
    BY <1>3, <2>1
  <2>3. e \in Entry
    BY <1>2, <1>5, <2>2 DEF Entry
  <2>4. /\ e.count = opened[i].count - 1 /\ e.writer = y /\ e.size = opened[i].size
        /\ e.first = opened[i].first /\ e.list = opened[i].list
    BY <2>2
  <2>5. e.count > 0
    BY <1>1, <1>2, <1>9, <2>4
  <2>6. Shown!Release(i, h) = [E EXCEPT !.count = @ - 1, !.writer = y]
    BY <1>4, <1>7, <1>9 DEF y
  <2>7. Shown!Release(i, h) = [count |-> opened[i].count - 1, writer |-> y,
                               size |-> opened[i].size]
    BY <1>4, <2>6
  <2> QED
    BY <1>1, <2>3, <2>4, <2>5, <2>7 DEF e
<1> QED
  BY <1>8, <1>9

LEMMA CloseSteps ==
  ASSUME NEW w \in BOOLEAN, Inv(w), NEW h \in Handle, Close(h)
  PROVE  Step(w)
<1> DEFINE i == dev[h].ino
           d == IF dev[h].rw THEN FlushedInode(i) ELSE inode[i]
           e == Release(i, h)
<1>1. /\ dev[h] # NoDev /\ inode' = IF dev[h].rw THEN [inode EXCEPT ![i] = FlushedInode(i)] ELSE inode
      /\ opened' = [opened EXCEPT ![i] = e] /\ dev' = [dev EXCEPT ![h] = NoDev]
      /\ blk' = blk /\ bhint' = bhint /\ ihint' = ihint /\ aborted' = aborted
  BY DEF Close
<1>2. PICK Q : Good(Q, w)
  BY DEF Inv, Sound
<1>3. TypeOK /\ Entries(Q) /\ InodeHint
  BY <1>2 DEF Good
<1>4. i \in Inode /\ IsOpened(i) /\ inode[i].used /\ dev[h].rw \in BOOLEAN
  BY <1>1, <1>3, OpenDevice DEF Inv
<1>5. /\ e \in Entry /\ (e = NotOpened \/ (e.count > 0 /\ e.first = inode[i].first))
      /\ (e.list = <<>> \/ e.list = opened[i].list)
      /\ e.size \in {0, opened[i].size}
      /\ Shown!Release(i, h) = [count |-> e.count, writer |-> e.writer, size |-> e.size]
  BY <1>3, <1>4, ReleaseIs
<1> HIDE DEF e
<1>6. /\ FlushedInode(i) \in DiskInode /\ FlushedInode(i).used /\ FlushedInode(i).used = TRUE
      /\ FlushedInode(i).first = inode[i].first /\ FlushedInode(i).size = opened[i].size
  BY <1>3, <1>4, FlushedIs
<1>7. /\ d \in DiskInode /\ d.used /\ d.first = inode[i].first
      /\ d.size \in {inode[i].size, opened[i].size} /\ inode' = [inode EXCEPT ![i] = d]
  <2>1. CASE dev[h].rw
    BY <1>1, <1>6, <2>1
  <2>2. CASE ~dev[h].rw
    <3>1. d = inode[i] /\ inode' = inode
      BY <1>1, <2>2
    <3> QED
      BY <1>3, <1>4, <3>1 DEF TypeOK
  <2> QED
    BY <2>1, <2>2
<1> HIDE DEF d
<1>8. InodeHint'
  BY <1>1, <1>3, <1>7 DEF InodeHint, TypeOK
<1>9. ihint' \in 1..NumInodes + 1 /\ dev' \in [Handle -> Device \cup {NoDev}]
  BY <1>1, <1>3 DEF TypeOK
<1>10. Sound(w)'
  BY <1>1, <1>2, <1>4, <1>5, <1>7, <1>8, <1>9, EntrySettles
<1>11. Shown!Close(h)
  <2>1. TableDev[h] = [ino |-> i, rw |-> dev[h].rw] /\ TableDev[h].ino = i /\ TableDev[h].rw = dev[h].rw
    BY DEF TableDev
  <2>2. TableDev[h] # Shown!NoDev
    <3>1. i # 0
      BY <1>4 DEF Inode
    <3> QED
      BY <2>1, <3>1 DEF Shown!NoDev
  <2>3. TableOpened' = [TableOpened EXCEPT ![i] = Shown!Release(i, h)]
    <3>1. TableOpened' = [TableOpened EXCEPT ![i] = [count |-> e.count, writer |-> e.writer,
                                                     size |-> e.size]]
      BY <1>1, <1>3, <1>4, ShownEntry DEF TypeOK
    <3> QED
      BY <1>5, <3>1
  <2>4. TableDev' = [TableDev EXCEPT ![h] = Shown!NoDev]
    <3>1. TableDev' = [TableDev EXCEPT ![h] = [ino |-> NoDev.ino, rw |-> NoDev.rw]]
      BY <1>1, <1>3, ShownDevice DEF TypeOK
    <3> QED
      BY <3>1 DEF NoDev, Shown!NoDev
  <2>5. TableOpened[i].writer = h => dev[h].rw
    <3> SUFFICES ASSUME TableOpened[i].writer = h PROVE dev[h].rw
      OBVIOUS
    <3>1. opened[i].writer = h /\ h # NoHandle
      BY <1>4, HandlesAssumption DEF TableOpened
    <3> QED
      BY <1>3, <1>4, <3>1, Writers DEF Inv
  <2>6. TableDisk' = IF TableDev[h].rw \/ TableOpened[i].writer = h THEN Shown!Flushed(i) ELSE TableDisk
    <3>1. CASE dev[h].rw
      <4>1. TableDisk' = Shown!Flushed(i)
        BY <1>1, <1>3, <1>4, <1>6, <3>1, ShownFlushed
      <4> QED
        BY <2>1, <3>1, <4>1
    <3>2. CASE ~dev[h].rw
      <4>1. TableDisk' = TableDisk
        BY <1>1, <3>2 DEF TableDisk
      <4> QED
        BY <2>1, <2>5, <3>2, <4>1
    <3> QED
      BY <3>1, <3>2
  <2> QED
    BY <2>1, <2>2, <2>3, <2>4, <2>6 DEF Shown!Close
<1> QED
  BY <1>10, <1>11 DEF Step, Shown!Next

\* Opening the container again closes what is open; each writer flushes.
LEMMA ReopenSteps ==
  ASSUME NEW w \in BOOLEAN, Inv(w), Reopen
  PROVE  Step(w)
<1>1. /\ inode' = [i \in Inode |-> IF opened[i].writer # NoHandle THEN FlushedInode(i) ELSE inode[i]]
      /\ opened' = [i \in Inode |-> NotOpened] /\ dev' = [h \in Handle |-> NoDev]
      /\ blk' = blk /\ bhint' = bhint /\ ihint' = ihint /\ aborted' = aborted
  BY DEF Reopen
<1>2. PICK Q : Good(Q, w)
  BY DEF Inv, Sound
<1>3. TypeOK /\ Entries(Q) /\ InodeHint /\ Chains(Q)
  BY <1>2 DEF Good
<1>4. ASSUME NEW i \in Inode, opened[i].writer # NoHandle
      PROVE  /\ FlushedInode(i) \in DiskInode /\ FlushedInode(i).used = TRUE
             /\ FlushedInode(i).first = inode[i].first /\ FlushedInode(i).size = opened[i].size
             /\ inode[i].used
  <2>1. IsOpened(i)
    BY <1>3, <1>4, Writers DEF Inv
  <2> QED
    BY <1>3, <2>1, FlushedIs, OpenedUsed DEF Inv
<1>5. NotOpened \in Entry /\ NotOpened.count = 0 /\ NotOpened.list = <<>> /\ NotOpened.size = 0
  <2>1. 0 \in 0..MaxSize /\ 0 \in 0..NumBlocks /\ 0 \in Nat /\ <<>> \in Seq(ListItem)
    BY MaxSizeIs, BlockCountAssumption
  <2> QED
    BY <2>1 DEF NotOpened, Entry
<1>6. ASSUME NEW i \in Inode
      PROVE  /\ inode'[i] \in DiskInode /\ inode'[i].first = inode[i].first
             /\ inode'[i].size \in {inode[i].size, opened[i].size}
             /\ inode[i].used => inode'[i].used
             /\ inode'[i] = inode[i] \/ inode'[i].used
  <2>1. CASE opened[i].writer # NoHandle
    BY <1>1, <1>4, <2>1
  <2>2. CASE opened[i].writer = NoHandle
    BY <1>1, <1>3, <2>2 DEF TypeOK
  <2> QED
    BY <2>1, <2>2
<1>7. TypeOK'
  <2>1. inode' \in [Inode -> DiskInode]
    BY <1>1, <1>6
  <2>2. opened' \in [Inode -> Entry] /\ dev' \in [Handle -> Device \cup {NoDev}]
    BY <1>1, <1>5
  <2> QED
    BY <1>1, <1>3, <2>1, <2>2 DEF TypeOK
<1>8. InodeHint'
  BY <1>1, <1>3, <1>6 DEF InodeHint
<1>9. Entries(Q)'
  <2> SUFFICES ASSUME NEW j \in Inode
               PROVE  /\ ~inode'[j].used => inode'[j] = Unused
                      /\ ~(opened'[j].count > 0) => opened'[j] = NotOpened
                      /\ (opened'[j].count > 0) => opened'[j].first = inode'[j].first
                      /\ Listed(opened'[j].list, blk', Q[j])
    BY DEF Entries, IsOpened
  <2>1. Listed(<<>>, blk', Q[j])
    BY <1>3, LinkedLength, EmptyListed DEF Chains
  <2>2. opened'[j] = NotOpened /\ ~(NotOpened.count > 0)
    BY <1>1, <1>5
  <2>3. ~inode'[j].used => inode'[j] = Unused
    BY <1>3, <1>6 DEF Entries
  <2> QED
    BY <1>5, <2>1, <2>2, <2>3
<1>10. \A j \in Inode : /\ opened'[j].list = <<>> \/ opened'[j].list = opened[j].list
                        /\ opened'[j].size \in {0, opened[j].size, inode[j].size}
                        /\ inode'[j].size \in {inode[j].size, opened[j].size}
                        /\ inode'[j].first = inode[j].first
  BY <1>1, <1>5, <1>6
<1>11. Good(Q, w)'
  BY <1>1, <1>2, <1>7, <1>8, <1>9, <1>10, SameStore
<1>12. Shown!Reopen
  <2>1. ASSUME NEW i \in Inode
        PROVE  TableDisk'[i] = IF TableOpened[i].writer # NoHandle
                               THEN [TableDisk[i] EXCEPT !.size = TableOpened[i].size]
                               ELSE TableDisk[i]
    <3>1. TableOpened[i].writer = opened[i].writer /\ TableOpened[i].size = opened[i].size
      BY DEF TableOpened
    <3>2. TableDisk[i] = [used |-> inode[i].used, size |-> inode[i].size]
      BY DEF TableDisk
    <3>3. TableDisk'[i] = [used |-> inode'[i].used, size |-> inode'[i].size]
      BY DEF TableDisk
    <3>4. CASE opened[i].writer # NoHandle
      <4>1. inode'[i] = FlushedInode(i)
        BY <1>1, <3>4
      <4>2. inode'[i].used = TRUE /\ inode'[i].size = opened[i].size
        BY <1>4, <3>4, <4>1
      <4>3. inode[i].used = TRUE
        BY <1>3, <1>4, <3>4 DEF TypeOK, DiskInode
      <4>4. TableDisk[i] = [used |-> TRUE, size |-> inode[i].size]
        BY <3>2, <4>3
      <4>5. [TableDisk[i] EXCEPT !.size = opened[i].size] = [used |-> TRUE, size |-> opened[i].size]
        BY <4>4, InodeParts
      <4>6. TableDisk'[i] = [used |-> TRUE, size |-> opened[i].size]
        BY <3>3, <4>2
      <4> QED
        BY <3>1, <3>4, <4>5, <4>6
    <3>5. CASE opened[i].writer = NoHandle
      BY <1>1, <3>1, <3>2, <3>3, <3>5
    <3> QED
      BY <3>4, <3>5
  <2>2. TableDisk' = [i \in Inode |-> IF TableOpened[i].writer # NoHandle
                                      THEN [TableDisk[i] EXCEPT !.size = TableOpened[i].size]
                                      ELSE TableDisk[i]]
    <3>1. TableDisk' = [i \in Inode |-> TableDisk'[i]]
      BY DEF TableDisk
    <3> QED
      BY <2>1, <3>1
  <2>3. TableOpened' = [i \in Inode |-> Shown!NotOpened]
    <3>1. \A i \in Inode : opened'[i] = NotOpened
      BY <1>1
    <3>2. Shown!NotOpened = [count |-> NotOpened.count, writer |-> NotOpened.writer,
                             size |-> NotOpened.size]
      BY DEF NotOpened, Shown!NotOpened
    <3> QED
      BY <3>1, <3>2 DEF TableOpened
  <2>4. TableDev' = [h \in Handle |-> Shown!NoDev]
    <3>1. \A h \in Handle : dev'[h] = NoDev
      BY <1>1
    <3>2. Shown!NoDev = [ino |-> NoDev.ino, rw |-> NoDev.rw]
      BY DEF NoDev, Shown!NoDev
    <3> QED
      BY <3>1, <3>2 DEF TableDev
  <2> QED
    BY <2>2, <2>3, <2>4 DEF Shown!Reopen
<1> QED
  BY <1>11, <1>12 DEF Step, Sound, Shown!Next

Emptied(bk, o, w) == w => Whole(bk, <<>>, <<>>, o)

\* A step that leaves an inode without a chain and unused.
LEMMA Vacates ==
  ASSUME NEW w \in BOOLEAN, NEW Q, Good(Q, w), NEW i \in Inode, ~IsOpened(i),
         blk' \in [BlockId -> Block], bhint' \in 1..NumBlocks + 1,
         Held(blk', bhint', <<>>, Others(Q, i)), Spared(blk, blk', Others(Q, i)),
         Emptied(blk', Others(Q, i), w),
         inode' = [inode EXCEPT ![i] = Unused], ihint' \in 1..NumInodes + 1, InodeHint',
         opened' = opened, dev' = dev, aborted' = aborted
  PROVE  Sound(w)'
<1> DEFINE P == [Q EXCEPT ![i] = <<>>]
<1>1. TypeOK /\ Chains(Q) /\ Entries(Q)
  BY DEF Good
<1>2. Unused \in DiskInode /\ Unused.first = 0 /\ Unused.size = 0
  <2>1. 0 \in 0..MaxSize /\ 0 \in 0..NumBlocks
    BY MaxSizeIs, BlockCountAssumption
  <2> QED
    BY <2>1 DEF Unused, DiskInode
<1>3. inode'[i] = Unused /\ \A j \in Inode \ {i} : inode'[j] = inode[j]
  BY <1>1 DEF TypeOK
<1>4. <<>> \in Seq(BlockId) /\ Linked(blk', 0, <<>>) /\ Len(<<>>) = 0 /\ Ids(<<>>) = {}
  BY DEF Linked, Ids
<1>5. Store' /\ Chains(P)'
  <2>1. Linked(blk', inode'[i].first, <<>>)
    BY <1>2, <1>3, <1>4
  <2>2. \A d \in Others(Q, i) : blk'[d] = blk[d]
    BY DEF Spared
  <2> QED
    BY <1>1, <1>3, <1>4, <2>1, <2>2, StoreSettles
<1>6. P[i] = <<>> /\ \A j \in Inode \ {i} : P[j] = Q[j]
  BY <1>1 DEF Chains
<1> HIDE DEF P
<1>7. TypeOK'
  <2>1. inode' \in [Inode -> DiskInode]
    BY <1>1, <1>2 DEF TypeOK
  <2> QED
    BY <1>1, <2>1 DEF TypeOK
<1>8. opened[i] = NotOpened /\ NotOpened.list = <<>> /\ NotOpened.size = 0 /\ NotOpened.count = 0
  BY <1>1 DEF Entries, NotOpened
<1>9. Entries(P)'
  <2> SUFFICES ASSUME NEW j \in Inode
               PROVE  /\ ~inode'[j].used => inode'[j] = Unused
                      /\ ~(opened'[j].count > 0) => opened'[j] = NotOpened
                      /\ (opened'[j].count > 0) => opened'[j].first = inode'[j].first
                      /\ Listed(opened'[j].list, blk', P[j])
    BY DEF Entries, IsOpened
  <2>1. CASE j = i
    <3>1. Listed(<<>>, blk', <<>>)
      BY <1>4, EmptyListed
    <3> QED
      BY <1>3, <1>6, <1>8, <2>1, <3>1
  <2>2. CASE j # i
    <3>1. /\ ~inode[j].used => inode[j] = Unused
          /\ ~(opened[j].count > 0) => opened[j] = NotOpened
          /\ (opened[j].count > 0) => opened[j].first = inode[j].first
          /\ Listed(opened[j].list, blk, Q[j])
      BY <1>1 DEF Entries, IsOpened
    <3>2. Len(opened[j].list) \in Nat
      BY <1>1 DEF TypeOK, Entry
    <3>3. Listed(opened[j].list, blk', Q[j])
      BY <1>1, <2>2, <3>1, <3>2, OtherLists DEF Spared
    <3> QED
      BY <1>3, <1>6, <2>2, <3>1, <3>3
  <2> QED
    BY <2>1, <2>2
<1>10. w => Kept(P)'
  <2> SUFFICES ASSUME w PROVE Kept(P)'
    OBVIOUS
  <2>1. Kept(Q)
    BY DEF Good
  <2>2. Whole(blk', <<>>, <<>>, Others(Q, i))
    BY DEF Emptied
  <2>3. ASSUME NEW d \in BlockId, blk'[d].used PROVE \E j \in Inode : d \in Ids(P[j])
    <3>1. d \in Others(Q, i)
      BY <1>4, <2>2, <2>3 DEF Whole
    <3> QED
      BY <1>6, <3>1 DEF Others
  <2>4. ASSUME NEW j \in Inode
        PROVE  /\ opened'[j].list = <<>> \/ Len(opened'[j].list) = Len(P[j])
               /\ opened'[j].size <= Len(P[j]) * BlockSize
               /\ inode'[j].size <= Len(P[j]) * BlockSize
    <3>1. CASE j = i
      <4>1. Len(P[j]) * BlockSize = 0
        BY <1>4, <1>6, <3>1, BlockSizeAssumption
      <4> QED
        BY <1>2, <1>3, <1>8, <3>1, <4>1
    <3>2. CASE j # i
      BY <1>3, <1>6, <2>1, <3>2 DEF Kept
    <3> QED
      BY <3>1, <3>2
  <2> QED
    BY <2>1, <2>3, <2>4 DEF Kept
<1>11. Good(P, w)'
  BY <1>5, <1>7, <1>9, <1>10 DEF Good
<1> QED
  BY <1>11 DEF Sound

LEMMA UnlinkSteps ==
  ASSUME NEW w \in BOOLEAN, Inv(w), NEW i \in Inode, Unlink(i)
  PROVE  Step(w)
<1> DEFINE S == ToSet(Chain(blk, inode[i].first))
<1>1. /\ inode[i].used /\ ~IsOpened(i) /\ blk' = Wipe(blk, S) /\ bhint' = WipeHint(bhint, S)
      /\ inode' = [inode EXCEPT ![i] = Unused] /\ ihint' = Min({ihint, i})
      /\ opened' = opened /\ dev' = dev /\ aborted' = aborted
  BY DEF Unlink
<1>2. PICK Q : Good(Q, w)
  BY DEF Inv, Sound
<1> DEFINE o == Others(Q, i)
<1>3. TypeOK /\ Chains(Q) /\ Store /\ InodeHint
  BY <1>2 DEF Good
<1>4. blk \in [BlockId -> Block] /\ inode[i] \in DiskInode /\ inode[i].first \in 0..NumBlocks
  BY <1>3 DEF TypeOK, DiskInode
<1>5. S = Ids(Q[i])
  <2>1. Linked(blk, inode[i].first, Q[i])
    BY <1>3 DEF Chains
  <2>2. Chain(blk, inode[i].first) = Q[i]
    BY <1>4, <2>1, ChainIs
  <2>3. Q[i] \in [1..Len(Q[i]) -> BlockId]
    BY <2>1, LinkedLength
  <2> QED
    BY <2>2, <2>3 DEF ToSet, Ids
<1> HIDE DEF S
<1>6. S \in SUBSET BlockId
  <2>1. Q[i] \in [1..Len(Q[i]) -> BlockId]
    BY <1>3, LinkedLength DEF Chains
  <2> QED
    BY <1>5, <2>1 DEF Ids
<1>7. bhint \in 1..NumBlocks + 1 /\ ihint \in 1..NumInodes + 1
  BY <1>3 DEF TypeOK
<1>8. blk' \in [BlockId -> Block] /\ \A d \in BlockId : blk'[d] = IF d \in S THEN EmptyBlock ELSE blk[d]
  BY <1>1, <1>4, WipeIs
<1>9. bhint' \in 1..NumBlocks + 1 /\ bhint' <= bhint /\ \A d \in S : bhint' <= d
  BY <1>1, <1>6, <1>7, WipeHintIs
<1>10. ASSUME NEW d \in o PROVE d \in BlockId /\ d \notin S /\ blk[d].used
  BY <1>3, <1>5 DEF Others, Chains
<1>11. Spared(blk, blk', o)
  BY <1>8, <1>10 DEF Spared
<1>12. Held(blk', bhint', <<>>, o)
  <2>1. Ids(<<>>) = {}
    BY DEF Ids
  <2>2. \A d \in o : blk'[d].used
    BY <1>8, <1>10
  <2>3. ASSUME NEW d \in BlockId, d < bhint' PROVE blk'[d].used
    <3>1. d \in Nat /\ bhint \in Nat /\ bhint' \in Nat
      BY <1>7, <1>9, BlockCountAssumption DEF BlockId
    <3>2. d \notin S
      BY <1>9, <2>3, <3>1
    <3>3. d < bhint
      BY <1>9, <2>3, <3>1
    <3> QED
      BY <1>3, <1>8, <3>2, <3>3 DEF Store
  <2>4. \A d \in BlockId : blk'[d].used \/ blk'[d] = EmptyBlock
    BY <1>3, <1>8 DEF Store
  <2> QED
    BY <2>1, <2>2, <2>3, <2>4 DEF Held
<1>13. Emptied(blk', o, w)
  <2> SUFFICES ASSUME w PROVE Whole(blk', <<>>, <<>>, o)
    BY DEF Emptied
  <2>1. Kept(Q)
    BY <1>2 DEF Good
  <2>2. ASSUME NEW d \in BlockId, blk'[d].used PROVE d \in o
    <3>1. d \notin S
      BY <1>8, <2>2 DEF EmptyBlock
    <3>2. blk[d].used
      BY <1>8, <2>2, <3>1
    <3>3. PICK j \in Inode : d \in Ids(Q[j])
      BY <2>1, <3>2 DEF Kept
    <3> QED
      BY <1>5, <3>1, <3>3 DEF Others
  <2> QED
    BY <2>2 DEF Whole
<1>14. ihint' \in 1..NumInodes + 1 /\ ihint' <= ihint /\ ihint' <= i
  <2>1. ihint \in Nat /\ i \in Nat /\ i >= 1 /\ i <= NumInodes /\ NumInodes \in Nat
    BY <1>7, NumInodesAssumption DEF Inode
  <2>2. Min({ihint, i}) = IF ihint <= i THEN ihint ELSE i
    BY <2>1, TwoNumbers
  <2> QED
    BY <1>1, <1>7, <2>1, <2>2
<1>15. InodeHint'
  <2> SUFFICES ASSUME NEW j \in Inode, j < ihint' PROVE inode'[j].used
    BY DEF InodeHint
  <2>1. j \in Nat /\ i \in Nat /\ ihint' \in Nat /\ ihint \in Nat
    BY <1>7, <1>14 DEF Inode
  <2>2. j # i /\ j < ihint
    BY <1>14, <2>1
  <2> QED
    BY <1>1, <1>3, <2>2 DEF InodeHint, TypeOK
<1>16. Sound(w)'
  <2> HIDE DEF o
  <2>1. /\ Held(blk', bhint', <<>>, Others(Q, i)) /\ Spared(blk, blk', Others(Q, i))
        /\ Emptied(blk', Others(Q, i), w)
    BY <1>11, <1>12, <1>13 DEF o
  <2> QED
    BY <1>1, <1>2, <1>8, <1>9, <1>14, <1>15, <2>1, Vacates
<1>17. Shown!Unlink(i)
  <2>1. TableDisk[i].used /\ ~Shown!IsOpened(i)
    BY <1>1 DEF TableDisk, TableOpened, IsOpened, Shown!IsOpened
  <2>2. TableDisk' = [TableDisk EXCEPT ![i] = Shown!Unused]
    <3>1. TableDisk' = [TableDisk EXCEPT ![i] = [used |-> Unused.used, size |-> Unused.size]]
      BY <1>1, <1>3, ShownInode DEF TypeOK
    <3> QED
      BY <3>1 DEF Unused, Shown!Unused
  <2>3. TableOpened' = TableOpened /\ TableDev' = TableDev
    BY <1>1 DEF TableOpened, TableDev
  <2> QED
    BY <2>1, <2>2, <2>3 DEF Shown!Unlink
<1> QED
  BY <1>16, <1>17 DEF Step, Shown!Next

\* A failed import leaves the blocks it took used and in no chain.
LEMMA FailedImportSteps ==
  ASSUME Inv(FALSE), NEW n \in TruncLen, FailedImport(n)
  PROVE  Step(FALSE)
<1> DEFINE S == {j \in Inode : j >= ihint /\ ~inode[j].used}
           i == Min(S)
           s == Session(i, 0, 0, 0)
           t == Trunc(s, n)
<1>1. /\ S # {} /\ blk' = t.blk /\ bhint' = t.hint /\ inode' = [inode EXCEPT ![i] = Unused]
      /\ ihint' = i /\ opened' = opened /\ dev' = dev /\ aborted' = aborted
  BY DEF FailedImport
<1>2. PICK Q : Good(Q, FALSE)
  BY DEF Inv, Sound
<1>3. TypeOK /\ Entries(Q) /\ InodeHint
  BY <1>2 DEF Good
<1>4. /\ i \in Inode /\ inode[i] = Unused /\ ~IsOpened(i)
      /\ \A j \in Inode : j < i => inode[j].used
  BY <1>1, <1>3, FreeInode DEF Inv
<1> HIDE DEF S, i
<1> DEFINE o == Others(Q, i)
<1>5. Fits(s, Q[i], o, FALSE) /\ o \in SUBSET BlockId
  <2>1. 0 \in 0..MaxSize
    BY MaxSizeIs
  <2> QED
    BY <1>2, <1>4, <2>1, SessionFits, ByteAssumption
<1>6. s.blk = blk /\ s.rc = "OK"
  BY SessionIs
<1> HIDE DEF s, o
<1>7. PICK r : Truncs(s, t, Q[i], r, o, FALSE, n)
  <2>1. n \in 0..MaxSize
    BY MaxSizeIs
  <2>2. Spares(s, n, FALSE)
    BY DEF Spares
  <2> QED
    BY <1>5, <1>6, <2>1, <2>2, TruncIs
<1> HIDE DEF t
<1>8. Fits(t, r, o, FALSE) /\ Spared(blk, t.blk, o)
  BY <1>6, <1>7 DEF Truncs, Spared
<1>9. t.blk \in [BlockId -> Block] /\ t.hint \in 1..NumBlocks + 1 /\ Held(t.blk, t.hint, r, o)
  BY <1>8, SessTypes DEF Fits
<1>10. Held(t.blk, t.hint, <<>>, o)
  <2>1. Ids(<<>>) = {}
    BY DEF Ids
  <2> QED
    BY <1>9, <2>1 DEF Held
<1>11. Emptied(blk', o, FALSE)
  BY DEF Emptied
<1>12. ihint' \in 1..NumInodes + 1
  BY <1>1, <1>4, NumInodesAssumption DEF Inode
<1>13. inode' = inode
  BY <1>1, <1>3, <1>4 DEF TypeOK
<1>14. InodeHint'
  BY <1>1, <1>4, <1>13 DEF InodeHint
<1>15. Sound(FALSE)'
  <2>1. /\ Held(blk', bhint', <<>>, Others(Q, i)) /\ Spared(blk, blk', Others(Q, i))
        /\ Emptied(blk', Others(Q, i), FALSE)
        /\ blk' \in [BlockId -> Block] /\ bhint' \in 1..NumBlocks + 1
    BY <1>1, <1>8, <1>9, <1>10, <1>11 DEF o
  <2> QED
    BY <1>1, <1>2, <1>4, <1>12, <1>14, <2>1, Vacates
<1>16. TableOpened' = TableOpened /\ TableDev' = TableDev /\ TableDisk' = TableDisk
  BY <1>1, <1>13 DEF TableOpened, TableDev, TableDisk
<1> QED
  BY <1>15, <1>16 DEF Step, Shown!vars

LEMMA SafeTruncateSteps ==
  ASSUME NEW w \in BOOLEAN, Inv(w), NEW h \in Handle, NEW len \in TruncLen, SafeTruncate(h, len)
  PROVE  Step(w)
<1> DEFINE s == Session(dev[h].ino, dev[h].pos, 0, 0)
<1>1. s.e = opened[dev[h].ino]
  BY SessionIs
<1>2. /\ len = 0 => opened[dev[h].ino].first = 0
      /\ len # 0 => Reached(s, len).rc = "OK"
      /\ len # 0 /\ len < opened[dev[h].ino].size =>
           Reached(s, len).bl.next # 0 \/ Reached(s, len).bl.id = opened[dev[h].ino].first
      /\ Truncate(h, len)
  BY Zenon DEF SafeTruncate, Reached, Sized
<1> HIDE DEF s
<1>3. Spares(s, len, w)
  BY <1>1, <1>2 DEF Spares
<1> QED
  BY <1>2, <1>3, TruncateSteps DEF s

LEMMA SameSteps ==
  ASSUME NEW w \in BOOLEAN, Inv(w), UNCHANGED vars
  PROVE  Step(w)
<1>1. /\ blk' = blk /\ inode' = inode /\ bhint' = bhint /\ ihint' = ihint /\ opened' = opened
      /\ dev' = dev /\ aborted' = aborted
  BY DEF vars
<1>2. PICK Q : Good(Q, w)
  BY DEF Inv, Sound
<1>3. Good(Q, w)'
  BY <1>1, <1>2 DEF Good, TypeOK, Store, InodeHint, Chains, Entries, IsOpened, Kept
<1>4. UNCHANGED Shown!vars
  BY <1>1 DEF Shown!vars, TableOpened, TableDev, TableDisk
<1> QED
  BY <1>3, <1>4 DEF Step, Sound

LEMMA AlwaysSteps ==
  ASSUME NEW w \in BOOLEAN, Inv(w), Always
  PROVE  Step(w)
<1>1. ASSUME NEW h \in Handle, NEW i \in Inode, NEW rw \in BOOLEAN, Open(h, i, rw) PROVE Step(w)
  BY <1>1, OpenSteps
<1>2. ASSUME NEW h \in Handle, Create(h) PROVE Step(w)
  BY <1>2, CreateSteps
<1>3. ASSUME NEW h \in Handle, Flush(h) PROVE Step(w)
  BY <1>3, FlushSteps
<1>4. ASSUME NEW h \in Handle, Close(h) PROVE Step(w)
  BY <1>4, CloseSteps
<1>5. ASSUME NEW h \in Handle, NEW p \in SeekPos, Seek(h, p) PROVE Step(w)
  BY <1>5, SeekSteps
<1>6. ASSUME NEW h \in Handle, NEW n \in IoLen, Read(h, n) PROVE Step(w)
  BY <1>6, ReadSteps
<1>7. ASSUME NEW h \in Handle, NEW n \in IoLen, NEW v \in Byte, Write(h, n, v) PROVE Step(w)
  BY <1>7, WriteSteps
<1>8. ASSUME NEW i \in Inode, Unlink(i) PROVE Step(w)
  BY <1>8, UnlinkSteps
<1>9. CASE Reopen
  BY <1>9, ReopenSteps
<1> QED
  BY <1>1, <1>2, <1>3, <1>4, <1>5, <1>6, <1>7, <1>8, <1>9 DEF Always

LEMMA NextSteps == Inv(FALSE) /\ [Next]_vars => Step(FALSE)
<1> SUFFICES ASSUME Inv(FALSE), [Next]_vars PROVE Step(FALSE)
  OBVIOUS
<1>1. CASE Always
  BY <1>1, AlwaysSteps
<1>2. ASSUME NEW h \in Handle, NEW len \in TruncLen, Truncate(h, len) PROVE Step(FALSE)
  <2>1. Spares(Session(dev[h].ino, dev[h].pos, 0, 0), len, FALSE)
    BY DEF Spares
  <2> QED
    BY <1>2, <2>1, TruncateSteps
<1>3. ASSUME NEW n \in TruncLen, FailedImport(n) PROVE Step(FALSE)
  BY <1>3, FailedImportSteps
<1>4. CASE UNCHANGED vars
  BY <1>4, SameSteps
<1> QED
  BY <1>1, <1>2, <1>3, <1>4 DEF Next, Stopped

LEMMA SafeSteps == Inv(TRUE) /\ [SafeNext]_vars => Step(TRUE)
<1> SUFFICES ASSUME Inv(TRUE), [SafeNext]_vars PROVE Step(TRUE)
  OBVIOUS
<1>1. CASE Always
  BY <1>1, AlwaysSteps
<1>2. ASSUME NEW h \in Handle, NEW len \in TruncLen, SafeTruncate(h, len) PROVE Step(TRUE)
  BY <1>2, SafeTruncateSteps
<1>3. CASE UNCHANGED vars
  BY <1>3, SameSteps
<1> QED
  BY <1>1, <1>2, <1>3 DEF SafeNext

LEMMA InitInv ==
  ASSUME NEW w \in BOOLEAN, Init
  PROVE  Inv(w) /\ Shown!Init
<1> DEFINE Q == [i \in Inode |-> <<>>]
<1>1. /\ blk = [b \in BlockId |-> EmptyBlock] /\ inode = [i \in Inode |-> Unused]
      /\ bhint = 1 /\ ihint = 1 /\ opened = [i \in Inode |-> NotOpened]
      /\ dev = [h \in Handle |-> NoDev] /\ aborted = FALSE
  BY DEF Init
<1>2. 0 \in 0..MaxSize /\ 0 \in 0..NumBlocks /\ 0 \in Nat /\ 1 \in 1..NumBlocks + 1
      /\ 1 \in 1..NumInodes + 1
  BY MaxSizeIs, BlockCountAssumption, NumInodesAssumption
<1>3. Unused \in DiskInode /\ Unused.used = FALSE /\ Unused.size = 0 /\ Unused.first = 0
  BY <1>2 DEF Unused, DiskInode
<1>4. /\ NotOpened \in Entry /\ NotOpened.count = 0 /\ NotOpened.list = <<>> /\ NotOpened.size = 0
      /\ ~(NotOpened.count > 0)
  <2>1. <<>> \in Seq(ListItem)
    OBVIOUS
  <2> QED
    BY <1>2, <2>1 DEF NotOpened, Entry
<1>5. EmptyBlock \in Block /\ EmptyBlock.used = FALSE
  BY EmptyBlockType DEF EmptyBlock
<1>6. TypeOK
  BY <1>1, <1>2, <1>3, <1>4, <1>5 DEF TypeOK
<1>7. \A i \in Inode : Q[i] = <<>>
  OBVIOUS
<1>8. <<>> \in Seq(BlockId) /\ Len(<<>>) = 0 /\ Ids(<<>>) = {}
  BY DEF Ids
<1>9. Q \in [Inode -> Seq(BlockId)]
  BY <1>8
<1> HIDE DEF Q
<1>10. Chains(Q)
  <2>1. Linked(blk, 0, <<>>)
    BY <1>8 DEF Linked
  <2>2. \A i \in Inode : Linked(blk, inode[i].first, Q[i])
    BY <1>1, <1>3, <1>7, <2>1
  <2>3. \A i \in Inode : Ids(Q[i]) = {}
    BY <1>7, <1>8
  <2> QED
    BY <1>9, <2>2, <2>3 DEF Chains
<1>11. Entries(Q)
  <2>1. Listed(<<>>, blk, <<>>)
    BY <1>8, EmptyListed
  <2> QED
    BY <1>1, <1>3, <1>4, <1>7, <2>1 DEF Entries, IsOpened
<1>12. Store /\ InodeHint
  BY <1>1 DEF Store, InodeHint, BlockId, Inode
<1>13. Kept(Q)
  <2>1. 0 * BlockSize = 0
    BY BlockSizeAssumption
  <2> QED
    BY <1>1, <1>3, <1>4, <1>5, <1>7, <1>8, <2>1 DEF Kept
<1>14. Sound(w)
  BY <1>6, <1>10, <1>11, <1>12, <1>13 DEF Good, Sound
<1>15. Shown!Init
  <2>1. TableOpened = [i \in Inode |-> Shown!NotOpened]
    <3>1. Shown!NotOpened = [count |-> NotOpened.count, writer |-> NotOpened.writer,
                             size |-> NotOpened.size]
      BY DEF NotOpened, Shown!NotOpened
    <3> QED
      BY <1>1, <3>1 DEF TableOpened
  <2>2. TableDev = [h \in Handle |-> Shown!NoDev]
    <3>1. Shown!NoDev = [ino |-> NoDev.ino, rw |-> NoDev.rw]
      BY DEF NoDev, Shown!NoDev
    <3> QED
      BY <1>1, <3>1 DEF TableDev
  <2>3. TableDisk = [i \in Inode |-> Shown!Unused]
    <3>1. Shown!Unused = [used |-> Unused.used, size |-> Unused.size]
      BY DEF Unused, Shown!Unused
    <3> QED
      BY <1>1, <3>1 DEF TableDisk
  <2> QED
    BY <2>1, <2>2, <2>3 DEF Shown!Init
<1> QED
  BY <1>14, <1>15, TableInvInit DEF Inv

\* The invariant is one: every step keeps it.
LEMMA StepInv ==
  ASSUME NEW w \in BOOLEAN, Inv(w), Step(w)
  PROVE  Inv(w)'
BY TableInvNext DEF Inv, Step

-----------------------------------------------------------------------------
(***************************************************************************)
(* What the invariant says of the properties of WhefsFile.                 *)
(***************************************************************************)

LEMMA ChainOfIs ==
  ASSUME NEW w \in BOOLEAN, NEW Q, Good(Q, w), NEW i \in Inode
  PROVE  /\ ChainOf(i) = Q[i] /\ BlocksOf(i) = Ids(Q[i])
         /\ Cardinality(Ids(Q[i])) = Len(Q[i])
         /\ Q[i] \in [1..Len(Q[i]) -> BlockId] /\ Len(Q[i]) \in Nat
         /\ Linked(blk, inode[i].first, Q[i])
<1>1. Linked(blk, inode[i].first, Q[i])
  BY DEF Good, Chains
<1>2. EntryOf(i).first = inode[i].first
  <2>1. CASE IsOpened(i)
    BY <2>1 DEF EntryOf, Good, Entries
  <2>2. CASE ~IsOpened(i)
    <3>1. EntryOf(i) = [NotOpened EXCEPT !.size = inode[i].size, !.first = inode[i].first]
      BY <2>2 DEF EntryOf
    <3> QED
      BY <3>1 DEF NotOpened
  <2> QED
    BY <2>1, <2>2
<1>3. blk \in [BlockId -> Block] /\ inode[i].first \in 0..NumBlocks
  BY DEF Good, TypeOK, DiskInode
<1>4. Chain(blk, inode[i].first) = Q[i]
  BY <1>1, <1>3, ChainIs
<1>5. ChainOf(i) = Q[i]
  BY <1>2, <1>4 DEF ChainOf
<1>6. /\ Q[i] \in [1..Len(Q[i]) -> BlockId] /\ Len(Q[i]) \in Nat
      /\ Cardinality(Ids(Q[i])) = Len(Q[i])
  BY <1>1, LinkedLength
<1>7. BlocksOf(i) = Ids(Q[i])
  BY <1>5, <1>6 DEF BlocksOf, ToSet, Ids
<1> QED
  BY <1>1, <1>5, <1>6, <1>7

LEMMA SoundBlocks ==
  ASSUME Inv(FALSE)
  PROVE  BlocksSound
<1>1. PICK Q : Good(Q, FALSE)
  BY DEF Inv, Sound
<1>2. TypeOK /\ Store /\ InodeHint /\ Chains(Q) /\ Entries(Q)
  BY <1>1 DEF Good
<1>3. NoFreeBelowHint
  BY <1>2 DEF NoFreeBelowHint, Store, InodeHint
<1>4. ASSUME NEW i \in Inode
      PROVE  /\ ChainOf(i) = Q[i] /\ BlocksOf(i) = Ids(Q[i])
             /\ Cardinality(Ids(Q[i])) = Len(Q[i])
             /\ Q[i] \in [1..Len(Q[i]) -> BlockId] /\ Len(Q[i]) \in Nat
             /\ Linked(blk, inode[i].first, Q[i])
  BY <1>1, ChainOfIs
<1>5. ChainsSound
  <2>1. ASSUME NEW i \in Used PROVE i \in Inode
    BY DEF Used
  <2>2. \A i \in Used : \A b \in BlocksOf(i) : blk[b].used
    BY <1>2, <1>4, <2>1 DEF Chains
  <2>3. \A i \in Used : Cardinality(BlocksOf(i)) = Len(ChainOf(i))
    BY <1>4, <2>1
  <2>4. \A i \in Used : ChainOf(i) # <<>> => blk[Last(ChainOf(i))].next = 0
    BY <1>4, <2>1 DEF Linked, Last
  <2>5. ASSUME NEW i \in Used, NEW j \in Used, i # j PROVE BlocksOf(i) \cap BlocksOf(j) = {}
    <3>1. \A d \in Ids(Q[i]) : d \notin Ids(Q[j])
      BY <1>2, <2>1, <2>5 DEF Chains
    <3> QED
      BY <1>4, <2>1, <3>1
  <2> QED
    BY <2>2, <2>3, <2>4, <2>5 DEF ChainsSound
<1>6. ListAgrees
  <2> SUFFICES ASSUME NEW i \in Inode, IsOpened(i)
               PROVE  LET list == opened[i].list
                      IN  /\ opened[i].first = inode[i].first
                          /\ IsPrefix([k \in DOMAIN list |-> list[k].id], ChainOf(i))
                          /\ \A k \in DOMAIN list : list[k].next = blk[list[k].id].next
    BY DEF ListAgrees
  <2> DEFINE list == opened[i].list
             n == Len(list)
             ids == [k \in DOMAIN list |-> list[k].id]
  <2>1. list \in Seq(ListItem)
    BY <1>2 DEF TypeOK, Entry
  <2>2. n \in Nat /\ DOMAIN list = 1..n
    BY <2>1
  <2>3. opened[i].first = inode[i].first /\ Listed(list, blk, Q[i])
    BY <1>2 DEF Entries
  <2> HIDE DEF list, n
  <2>4. n <= Len(Q[i]) /\ \A k \in 1..n : list[k].id = Q[i][k] /\ list[k].next = blk[Q[i][k]].next
    BY <2>3 DEF Listed, n
  <2>5. \A k \in DOMAIN list : list[k].next = blk[list[k].id].next
    BY <2>2, <2>4
  <2>6. ids \in Seq(BlockId) /\ Len(ids) = n /\ \A k \in 1..n : ids[k] = Q[i][k]
    <3>1. \A k \in 1..n : list[k].id \in BlockId
      BY <1>4, <2>2, <2>4
    <3>2. ids \in [1..n -> BlockId]
      BY <2>2, <3>1
    <3>3. \A k \in 1..n : ids[k] = Q[i][k]
      BY <2>2, <2>4
    <3> HIDE DEF ids
    <3>4. ids \in Seq(BlockId)
      BY <2>2, <3>2
    <3>5. Len(ids) = n
      BY <2>2, <3>2, <3>4
    <3> QED
      BY <3>3, <3>4, <3>5
  <2> HIDE DEF ids
  <2>7. IsPrefix(ids, Q[i])
    <3>1. Q[i] \in Seq(BlockId)
      BY <1>2 DEF Chains
    <3>2. SubSeq(ids, 1, n) = SubSeq(Q[i], 1, n)
      BY <1>4, <2>2, <2>4, <2>6, <3>1
    <3> QED
      BY <2>4, <2>6, <3>2 DEF IsPrefix
  <2> QED
    BY <1>4, <2>3, <2>5, <2>7 DEF list, ids
<1> QED
  BY <1>2, <1>3, <1>5, <1>6 DEF BlocksSound

LEMMA SoundWrites ==
  ASSUME Inv(FALSE)
  PROVE  ShortWriteOnlyWhenFull
<1> SUFFICES ASSUME NEW h \in Handle, NEW n \in IoLen, NEW v \in Byte,
                    dev[h].rw, dev[h].pos <= MaxPos
             PROVE  LET s == Written(h, n, v)
                    IN  \/ s.left = 0
                        \/ s.rc = "Assert"
                        \/ \A b \in BlockId : s.blk[b].used
                        \/ dev[h].pos + n > NumBlocks * BlockSize
  BY DEF ShortWriteOnlyWhenFull
<1> DEFINE s == Session(dev[h].ino, dev[h].pos, n, v)
           t == Written(h, n, v)
           i == dev[h].ino
<1>1. PICK Q, r : /\ Writes(s, t, Q[i], r, Others(Q, i), FALSE)
                  /\ t.rc = "OK" => t.left = 0
  BY WriteRuns
<1>2. s.pos = dev[h].pos /\ s.left = n
  BY SessionIs
<1> HIDE DEF s, t
<1>3. /\ t.rc \in {"OK", "RangeError", "FSFull", "Assert"}
      /\ t.rc = "FSFull" => AllUsed(t)
      /\ t.rc = "RangeError" => t.pos + t.left > NumBlocks * BlockSize
      /\ t.pos + t.left = s.pos + s.left
  BY <1>1 DEF Writes, Wrote
<1>4. \/ t.left = 0 \/ t.rc = "Assert" \/ \A b \in BlockId : t.blk[b].used
      \/ dev[h].pos + n > NumBlocks * BlockSize
  BY <1>1, <1>2, <1>3 DEF AllUsed
<1> QED
  BY <1>4 DEF t

LEMMA SoundlyKept ==
  ASSUME Inv(TRUE)
  PROVE  NoLostBlock /\ AssertionHolds
<1>1. PICK Q : Good(Q, TRUE)
  BY DEF Inv, Sound
<1>2. Kept(Q) /\ Entries(Q)
  BY <1>1 DEF Good
<1>3. AssertionHolds
  BY <1>2 DEF Kept, AssertionHolds
<1>4. ASSUME NEW b \in BlockId, blk[b].used PROVE \E i \in Used : b \in BlocksOf(i)
  <2>1. PICK i \in Inode : b \in Ids(Q[i])
    BY <1>2, <1>4 DEF Kept
  <2>2. /\ BlocksOf(i) = Ids(Q[i]) /\ Q[i] \in [1..Len(Q[i]) -> BlockId] /\ Len(Q[i]) \in Nat
        /\ Linked(blk, inode[i].first, Q[i])
    BY <1>1, ChainOfIs
  <2>3. Len(Q[i]) # 0
    BY <2>1, <2>2 DEF Ids
  <2>4. 1 \in 1..Len(Q[i]) /\ Q[i] # <<>>
    BY <2>2, <2>3
  <2>5. inode[i].first = Q[i][1] /\ Q[i][1] \in BlockId
    BY <2>2, <2>4 DEF Linked
  <2>6. inode[i].first # 0
    BY <2>5 DEF BlockId
  <2>7. inode[i].used
    BY <1>2, <2>6 DEF Entries, Unused
  <2> QED
    BY <2>1, <2>2, <2>7 DEF Used
<1> QED
  BY <1>3, <1>4 DEF NoLostBlock

\* The table of the proofs is the table of the refinement.
LEMMA TableInit == Shown!Init => Table!Init
BY DEF Shown!Init, Table!Init, Shown!NotOpened, Table!NotOpened, Shown!NoDev, Table!NoDev,
       Shown!Unused, Table!Unused

LEMMA TableNext == [Shown!Next]_(Shown!vars) => [Table!Next]_(Table!vars)
<1> USE DEF Shown!NotOpened, Table!NotOpened, Shown!NoDev, Table!NoDev, Shown!Unused, Table!Unused,
            Shown!IsOpened, Table!IsOpened
<1>1. ASSUME NEW h \in Handle, NEW i \in Inode, Shown!OpenRead(h, i) PROVE Table!OpenRead(h, i)
  BY <1>1, Zenon DEF Shown!OpenRead, Table!OpenRead, Shown!Share, Table!Share
<1>2. ASSUME NEW h \in Handle, NEW i \in Inode, Shown!OpenWrite(h, i) PROVE Table!OpenWrite(h, i)
  BY <1>2, Zenon DEF Shown!OpenWrite, Table!OpenWrite, Shown!Share, Table!Share, Shown!MayOpen,
                     Table!MayOpen
<1>3. ASSUME NEW h \in Handle, NEW i \in Inode, Shown!CreateWrite(h, i)
      PROVE  Table!CreateWrite(h, i)
  BY <1>3, Zenon DEF Shown!CreateWrite, Table!CreateWrite, Shown!Share, Table!Share, Shown!MayOpen,
                     Table!MayOpen
<1>4. ASSUME NEW h \in Handle, NEW n \in 0..MaxSize, Shown!Resize(h, n) PROVE Table!Resize(h, n)
  BY <1>4, Zenon DEF Shown!Resize, Table!Resize, Shown!Flushed, Table!Flushed
<1>5. ASSUME NEW h \in Handle, Shown!Flush(h) PROVE Table!Flush(h)
  BY <1>5, Zenon DEF Shown!Flush, Table!Flush, Shown!Flushed, Table!Flushed
<1>6. ASSUME NEW h \in Handle, Shown!Close(h) PROVE Table!Close(h)
  BY <1>6, Zenon DEF Shown!Close, Table!Close, Shown!Flushed, Table!Flushed, Shown!Release,
                     Table!Release
<1>7. ASSUME NEW i \in Inode, Shown!Unlink(i) PROVE Table!Unlink(i)
  BY <1>7, Zenon DEF Shown!Unlink, Table!Unlink
<1>8. Shown!Reopen => Table!Reopen
  BY Zenon DEF Shown!Reopen, Table!Reopen
<1>9. Shown!Crash => Table!Crash
  BY Zenon DEF Shown!Crash, Table!Crash
<1>10. UNCHANGED Shown!vars => UNCHANGED Table!vars
  BY Zenon DEF Shown!vars, Table!vars
<1>11. Shown!Next => Table!Next
  BY <1>1, <1>2, <1>3, <1>4, <1>5, <1>6, <1>7, <1>8, <1>9 DEF Shown!Next, Table!Next
<1> QED
  BY <1>10, <1>11

-----------------------------------------------------------------------------
(***************************************************************************)
(* The theorems.                                                           *)
(***************************************************************************)

\* Every state that clients reach by opening, reading, writing, truncating,
\* closing, removing and importing files satisfies the invariant.
THEOREM SpecInv == Spec => []Inv(FALSE)
<1>1. Init => Inv(FALSE)
  BY InitInv
<1>2. Inv(FALSE) /\ [Next]_vars => Inv(FALSE)'
  BY NextSteps, StepInv
<1> QED
  BY <1>1, <1>2, PTL DEF Spec

\* The clients that truncate only as SafeTruncate allows also keep what Kept adds.
THEOREM SafeSpecInv == SafeSpec => []Inv(TRUE)
<1>1. Init => Inv(TRUE)
  BY InitInv
<1>2. Inv(TRUE) /\ [SafeNext]_vars => Inv(TRUE)'
  BY SafeSteps, StepInv
<1> QED
  BY <1>1, <1>2, PTL DEF SafeSpec

\* The chains of the files in the container, the block lists cached by the
\* opened inodes and the search hints agree, whatever the clients of
\* whio_dev_inode and whefs_inode_unlink do and in whatever order.
THEOREM BlocksStaySound == Spec => []BlocksSound
<1>1. Inv(FALSE) => BlocksSound
  BY SoundBlocks
<1> QED
  BY <1>1, SpecInv, PTL

\* whio_dev_inode_write writes less than it is asked to only when it leaves the
\* container without a free block or the file would not fit into any container
\* of this size, or when the assertion in whefs_inode_block_list_append fails.
THEOREM WritesAreShortWhenFull == Spec => []ShortWriteOnlyWhenFull
<1>1. Inv(FALSE) => ShortWriteOnlyWhenFull
  BY SoundWrites
<1> QED
  BY <1>1, SpecInv, PTL

\* Without the truncations that whio_dev_inode_trunc gets wrong, every used block
\* is reached from a used inode: closing, removing and shrinking files leak none.
THEOREM NoBlockIsLost == SafeSpec => []NoLostBlock
<1>1. Inv(TRUE) => NoLostBlock
  BY SoundlyKept
<1> QED
  BY <1>1, SafeSpecInv, PTL

\* ... and the list of an opened inode is always linked the way
\* whefs_inode_block_list_append asserts.
THEOREM AssertionsHold == SafeSpec => []AssertionHolds
<1>1. Inv(TRUE) => AssertionHolds
  BY SoundlyKept
<1> QED
  BY <1>1, SafeSpecInv, PTL

\* The pseudofiles implement the table of opened inodes: every call on a file
\* opens, resizes, flushes, closes, removes or leaves alone what the table has,
\* as WhefsInodes says.
THEOREM FilesImplementTable == Spec => ImplementsTable
<1>1. Init => Table!Init
  BY InitInv, TableInit
<1>2. Inv(FALSE) /\ [Next]_vars => [Table!Next]_(Table!vars)
  BY NextSteps, TableNext DEF Step
<1> QED
  BY <1>1, <1>2, SpecInv, PTL DEF Spec, ImplementsTable, Table!Spec

-----------------------------------------------------------------------------
(***************************************************************************)
(* The bytes of a chain.                                                   *)
(***************************************************************************)

\* The byte at the position j of the blocks q.
ByteAt(bk, q, j) == bk[q[1 + (j \div BlockSize)]].data[j % BlockSize]

\* A position has only one block and one place in it.
LEMMA OnePlace ==
  ASSUME NEW a \in Nat, NEW b \in Nat, NEW x \in Offset, NEW y \in Offset,
         BlockSize * a + x = BlockSize * b + y
  PROVE  a = b /\ x = y
<1> DEFINE B == BlockSize
           c == B * a
           d == B * b
<1>1. B \in Nat \ {0} /\ x \in Nat /\ y \in Nat /\ x < B /\ y < B
  BY BlockSizeAssumption DEF Offset
<1>2. c \in Nat /\ d \in Nat /\ c + x = d + y
  BY <1>1
<1>3. ASSUME a < b PROVE FALSE
  <2>1. (a + 1) * BlockSize <= b * BlockSize
    BY <1>3, BlocksGrow
  <2>2. (a + 1) * BlockSize = c + B /\ b * BlockSize = d
    BY <1>1
  <2> HIDE DEF B, c, d
  <2> QED
    BY <1>1, <1>2, <2>1, <2>2
<1>4. ASSUME b < a PROVE FALSE
  <2>1. (b + 1) * BlockSize <= a * BlockSize
    BY <1>4, BlocksGrow
  <2>2. (b + 1) * BlockSize = d + B /\ a * BlockSize = c
    BY <1>1
  <2> HIDE DEF B, c, d
  <2> QED
    BY <1>1, <1>2, <2>1, <2>2
<1>5. a = b
  BY <1>3, <1>4
<1>6. c = d
  BY <1>5
<1> HIDE DEF c, d
<1> QED
  BY <1>1, <1>2, <1>5, <1>6

\* The positions that follow a position in its block.
LEMMA SameBlock ==
  ASSUME NEW p \in Nat, NEW k \in Nat, k < BlockSize - (p % BlockSize)
  PROVE  /\ (p + k) \div BlockSize = p \div BlockSize
         /\ (p + k) % BlockSize = (p % BlockSize) + k
<1> DEFINE d == p \div BlockSize
           m == p % BlockSize
           e == (p + k) \div BlockSize
           n == (p + k) % BlockSize
<1>1. d \in Nat /\ m \in 0..BlockSize - 1 /\ p = BlockSize * d + m
  BY InBlock
<1>2. p + k \in Nat
  OBVIOUS
<1>3. e \in Nat /\ n \in 0..BlockSize - 1 /\ p + k = BlockSize * e + n
  BY <1>2, InBlock
<1>4. m + k \in 0..BlockSize - 1
  BY <1>1, BlockSizeAssumption
<1> HIDE DEF d, m, e, n
<1>5. BlockSize * d \in Nat /\ BlockSize \in Nat
  BY <1>1, BlockSizeAssumption
<1>6. BlockSize * d + (m + k) = BlockSize * e + n
  BY <1>1, <1>3, <1>5
<1>7. m + k \in Offset /\ n \in Offset
  BY <1>3, <1>4 DEF Offset
<1>8. d = e /\ m + k = n
  BY <1>1, <1>3, <1>6, <1>7, OnePlace
<1> QED
  BY <1>8 DEF d, m, e, n

\* A position that is covered has a block.
LEMMA BlockOfPosition ==
  ASSUME NEW p \in Nat, NEW n \in Nat, p < n * BlockSize
  PROVE  p \div BlockSize \in 0..n - 1
<1> DEFINE d == p \div BlockSize
           m == p % BlockSize
<1>1. d \in Nat /\ m \in 0..BlockSize - 1 /\ p = BlockSize * d + m
  BY InBlock
<1> HIDE DEF d, m
<1>2. ASSUME n <= d PROVE FALSE
  <2> DEFINE x == n * BlockSize
             y == BlockSize * d
  <2>1. n * BlockSize <= d * BlockSize /\ d * BlockSize \in Nat /\ n * BlockSize \in Nat
    BY <1>1, <1>2, BlocksGrow
  <2>2. d * BlockSize = BlockSize * d
    BY <1>1, BlockSizeAssumption
  <2>3. x <= y /\ y \in Nat /\ x \in Nat /\ p < x /\ p = y + m /\ m \in Nat
    BY <1>1, <2>1, <2>2
  <2> HIDE DEF x, y
  <2> QED
    BY <2>3
<1> QED
  BY <1>1, <1>2 DEF d

LEMMA ByteAtType ==
  ASSUME NEW bk \in [BlockId -> Block], NEW q \in Seq(BlockId), NEW j \in Nat,
         j < Len(q) * BlockSize
  PROVE  ByteAt(bk, q, j) \in Byte
<1>1. j \div BlockSize \in 0..Len(q) - 1
  BY BlockOfPosition
<1>2. 1 + (j \div BlockSize) \in 1..Len(q)
  BY <1>1
<1>3. q[1 + (j \div BlockSize)] \in BlockId
  BY <1>2
<1>4. j % BlockSize \in Offset
  BY InBlock DEF Offset
<1>5. bk[q[1 + (j \div BlockSize)]].data \in [Offset -> Byte]
  BY <1>3 DEF Block
<1> QED
  BY <1>4, <1>5 DEF ByteAt

-----------------------------------------------------------------------------
(***************************************************************************)
(* Reading gets the bytes of the chain.                                    *)
(***************************************************************************)

\* The block of a position before the end of the file is found.
LEMMA ReaderFinds ==
  ASSUME NEW o \in SUBSET BlockId, NEW s, NEW q, Fits(s, q, o, TRUE), s.rc = "OK",
         Covered(s, q), s.pos < s.e.size
  PROVE  LET t == BlockForPos(s, s.pos, FALSE)
             c == q[1 + (s.pos \div BlockSize)]
         IN  t.rc = "OK" /\ t.bl.id = c /\ c \in BlockId
<1> DEFINE bc == 1 + (s.pos \div BlockSize)
           l == LoadList(s)
           n == Len(l.e.list)
           t == BlockForPos(s, s.pos, FALSE)
<1>1. /\ s \in Sess /\ s.pos \in Nat /\ s.e.size \in Nat /\ MaxSize \in Nat
      /\ Linked(s.blk, s.e.first, q) /\ Whole(s.blk, s.e.list, q, o)
  BY SessTypes, MaxSizeIs DEF Fits
<1>2. Len(q) \in Nat /\ Len(q) <= NumBlocks /\ NumBlocks \in Nat
  BY <1>1, LinkedLength, BlockCountAssumption
<1>3. Fits(l, q, o, TRUE) /\ OnlyList(s, l) /\ l.rc = "OK" /\ (s.e.list = <<>> => n = Len(q))
  BY LoadListFits
<1>4. n = Len(q)
  <2>1. CASE s.e.list = <<>>
    BY <1>3, <2>1
  <2>2. CASE s.e.list # <<>>
    <3>1. l = s
      BY <2>2 DEF LoadList
    <3> QED
      BY <1>1, <2>2, <3>1 DEF Whole
  <2> QED
    BY <2>1, <2>2
<1>5. bc \in 1..Len(q)
  <2> DEFINE x == Len(q) * BlockSize
  <2>1. x \in Nat /\ s.e.size <= x
    BY <1>2, BlocksGrow DEF Covered
  <2> HIDE DEF x
  <2>2. s.pos < x
    BY <1>1, <2>1
  <2>3. s.pos \div BlockSize \in 0..Len(q) - 1
    BY <1>1, <1>2, <2>2, BlockOfPosition DEF x
  <2> QED
    BY <1>2, <2>3
<1>6. ~((s.e.size <= s.pos /\ ~FALSE) \/ bc > NumBlocks) /\ bc <= n
  BY <1>1, <1>2, <1>4, <1>5
<1>7. t = FoundAt(l, bc)
  <2> HIDE DEF l
  <2>1. t = CASE bc <= n           -> FoundAt(l, bc)
              [] n < bc /\ ~FALSE -> FailedWith(l, "RangeError")
              [] n < bc /\ FALSE  -> Repeat(AddBlock, l, bc - n)
    BY <1>6, Zenon DEF BlockForPos, FailedWith, FoundAt, l
  <2>2. ~(n < bc) /\ bc <= n
    BY <1>2, <1>4, <1>5, <1>6
  <2> HIDE DEF bc, n, t
  <2> QED
    BY <2>1, <2>2, Zenon
<1>8. bc \in Nat \ {0} /\ bc <= Len(l.e.list)
  BY <1>2, <1>5, <1>6
<1> HIDE DEF t, l, bc
<1>9. /\ Fits(FoundAt(l, bc), q, o, TRUE) /\ FoundAt(l, bc).rc = l.rc
      /\ Found(FoundAt(l, bc), bc)
  BY <1>3, <1>8, FitsFound
<1>10. t.rc = "OK" /\ Fits(t, q, o, TRUE) /\ Found(t, bc)
  BY <1>3, <1>7, <1>9
<1>11. t.bl.id = q[bc] /\ t.bl.id \in BlockId
  <2>1. t.bl.id \in BlockId
    BY <1>8, <1>10, FoundBlock
  <2>2. Listed(t.e.list, t.blk, q) /\ Len(t.e.list) \in Nat
    BY <1>10, SessTypes DEF Fits
  <2>3. bc \in 1..Len(t.e.list) /\ t.bl = t.e.list[bc]
    BY <1>8, <1>10, <2>2 DEF Found
  <2> QED
    BY <2>1, <2>2, <2>3 DEF Listed
<1> QED
  BY <1>10, <1>11 DEF t, bc

\* A read that gets no more.
AtEnd(s) == s.left = 0 \/ s.pos >= s.e.size

\* What has been read from position p on, up to before position e.
OutIs(out, bk, q, p, e) ==
  /\ out \in Seq(Byte) /\ Len(out) = e - p
  /\ \A k \in 0..(e - p) - 1 : out[k + 1] = ByteAt(bk, q, p + k)

\* The bytes at a place of one block.
Part(bk, c, from, len) == [k \in 1..len |-> bk[c].data[from + k - 1]]

LEMMA PartIs ==
  ASSUME NEW bk \in [BlockId -> Block], NEW q \in Seq(BlockId), NEW j \in Nat,
         j < Len(q) * BlockSize, NEW len \in Nat, len <= BlockSize - (j % BlockSize)
  PROVE  OutIs(Part(bk, q[1 + (j \div BlockSize)], j % BlockSize, len), bk, q, j, j + len)
<1> DEFINE from == j % BlockSize
           c == q[1 + (j \div BlockSize)]
           m == Part(bk, c, from, len)
<1>1. from \in Offset /\ BlockSize \in Nat \ {0}
  BY InBlock, BlockSizeAssumption DEF Offset
<1>2. c \in BlockId
  <2>1. j \div BlockSize \in 0..Len(q) - 1
    BY BlockOfPosition
  <2>2. 1 + (j \div BlockSize) \in 1..Len(q)
    BY <2>1
  <2> QED
    BY <2>2
<1>3. bk[c].data \in [Offset -> Byte]
  BY <1>2 DEF Block
<1>4. ASSUME NEW k \in 0..len - 1
      PROVE  bk[c].data[from + k] = ByteAt(bk, q, j + k)
  <2>1. k \in Nat /\ k < BlockSize - (j % BlockSize)
    BY <1>1 DEF Offset
  <2>2. (j + k) \div BlockSize = j \div BlockSize /\ (j + k) % BlockSize = (j % BlockSize) + k
    BY <2>1, SameBlock
  <2> QED
    BY <2>2 DEF ByteAt
<1>5. \A k \in 1..len : m[k] = bk[c].data[from + k - 1]
  BY DEF Part
<1>6. \A k \in 1..len : from + k - 1 \in Offset
  BY <1>1 DEF Offset
<1>7. m \in Seq(Byte) /\ Len(m) = len
  <2> HIDE DEF c, from
  <2>1. \A k \in 1..len : bk[c].data[from + k - 1] \in Byte
    BY <1>3, <1>6
  <2> QED
    BY <2>1 DEF Part
<1>8. ASSUME NEW k \in 0..len - 1 PROVE m[k + 1] = ByteAt(bk, q, j + k)
  <2>1. k + 1 \in 1..len /\ from + (k + 1) - 1 = from + k
    BY <1>1 DEF Offset
  <2> HIDE DEF m, from, c
  <2>2. m[k + 1] = bk[c].data[from + k]
    BY <1>5, <2>1
  <2> QED
    BY <1>4, <2>2
<1> HIDE DEF m
<1>9. (j + len) - j = len
  OBVIOUS
<1>10. OutIs(m, bk, q, j, j + len)
  BY <1>7, <1>8, <1>9 DEF OutIs
<1> QED
  BY <1>10 DEF m

LEMMA OutMore ==
  ASSUME NEW bk, NEW q, NEW p \in Nat, NEW e \in Nat, NEW f \in Nat, p <= e, e <= f,
         NEW x, NEW y, OutIs(x, bk, q, p, e), OutIs(y, bk, q, e, f)
  PROVE  OutIs(x \o y, bk, q, p, f)
<1>1. /\ x \in Seq(Byte) /\ Len(x) = e - p /\ y \in Seq(Byte) /\ Len(y) = f - e
  BY DEF OutIs
<1>2. x \o y \in Seq(Byte) /\ Len(x \o y) = f - p
  BY <1>1
<1>3. ASSUME NEW k \in 0..(f - p) - 1 PROVE (x \o y)[k + 1] = ByteAt(bk, q, p + k)
  <2>1. CASE k < e - p
    <3>1. (x \o y)[k + 1] = x[k + 1] /\ k \in 0..(e - p) - 1
      BY <1>1, <2>1
    <3> QED
      BY <3>1 DEF OutIs
  <2>2. CASE ~(k < e - p)
    <3> DEFINE l == k - (e - p)
    <3>1. l \in 0..(f - e) - 1 /\ p + k = e + l /\ (k + 1) - Len(x) = l + 1
      BY <1>1, <2>2
    <3>2. (x \o y)[k + 1] = y[(k + 1) - Len(x)]
      BY <1>1, <2>2
    <3> HIDE DEF l
    <3>3. y[l + 1] = ByteAt(bk, q, e + l)
      BY <3>1 DEF OutIs
    <3> QED
      BY <3>1, <3>2, <3>3
  <2> QED
    BY <2>1, <2>2
<1> QED
  BY <1>2, <1>3 DEF OutIs

\* Where a read has come: it has read what is in front of its position.
ReadGot(s, u, q, o) ==
  /\ Fits(u, q, o, TRUE) /\ OnlyRead(s, u)
  /\ u.rc \in {"OK", "EOF"} /\ (u.rc # "OK" => AtEnd(u))
  /\ s.pos <= u.pos /\ (u.pos = s.pos \/ u.pos <= s.e.size)
  /\ OutIs(u.out, s.blk, q, s.pos, u.pos)

LEMMA ReadChunkGets ==
  ASSUME NEW o \in SUBSET BlockId, NEW s \in Sess, NEW q, Covered(s, q),
         NEW u, ReadGot(s, u, q, o), u.rc = "OK"
  PROVE  LET v == ReadChunk(u)
         IN  ReadGot(s, v, q, o) /\ (v.rc = "OK" => v.pos > u.pos)
<1> DEFINE t == BlockForPos(u, u.pos, FALSE)
           from == u.pos % BlockSize
           len == Min({u.left, BlockSize - from, u.e.size - u.pos})
           c == q[1 + (u.pos \div BlockSize)]
           more == Part(t.blk, t.bl.id, from, len)
           v == ReadChunk(u)
<1>1. /\ u \in Sess /\ u.pos \in Nat /\ u.left \in Nat /\ u.e.size \in Nat /\ s.pos \in Nat
      /\ MaxSize \in Nat /\ u.e.size = s.e.size /\ u.blk = s.blk /\ Fits(u, q, o, TRUE)
      /\ s.pos <= u.pos /\ OutIs(u.out, s.blk, q, s.pos, u.pos)
  BY SessTypes, MaxSizeIs DEF ReadGot, Fits, OnlyRead
<1>2. /\ Linked(u.blk, u.e.first, q) /\ q \in Seq(BlockId) /\ Len(q) \in Nat
  BY <1>1, LinkedLength DEF Fits
<1>3. Covered(u, q) /\ OnlyRead(s, u)
  BY DEF Covered, ReadGot, OnlyRead
<1>4. Fits(v, q, o, TRUE) /\ OnlyRead(u, v)
  <2> DEFINE w == TRUE
  <2>1. w \in BOOLEAN /\ Fits(u, q, o, w)
    BY <1>1
  <2> HIDE DEF w, v
  <2>2. Fits(v, q, o, w) /\ OnlyRead(u, v)
    BY <2>1, ReadChunkFits DEF v
  <2> QED
    BY <2>2 DEF w
<1>5. OnlyRead(s, v)
  BY <1>3, <1>4 DEF OnlyRead
<1>6. CASE AtEnd(u)
  <2>1. v = FailedWith(u, "EOF")
    BY <1>6 DEF ReadChunk, FailedWith, AtEnd
  <2>2. v.rc = "EOF" /\ v.pos = u.pos /\ v.left = u.left /\ v.out = u.out /\ v.e = u.e
    BY <1>1, <2>1 DEF FailedWith, Sess
  <2> HIDE DEF v
  <2>3. AtEnd(v) /\ v.rc # "OK"
    BY <1>6, <2>2 DEF AtEnd
  <2>4. ReadGot(s, v, q, o)
    BY <1>4, <1>5, <2>2, <2>3 DEF ReadGot
  <2> QED
    BY <2>3, <2>4 DEF v
<1>7. CASE ~AtEnd(u)
  <2>1. u.left # 0 /\ u.pos < u.e.size /\ ~(u.left = 0 \/ u.pos >= u.e.size)
    BY <1>1, <1>7 DEF AtEnd
  <2>2. t.rc = "OK" /\ t.bl.id = c /\ c \in BlockId
    BY <1>1, <1>3, <2>1, ReaderFinds
  <2>3. v = [t EXCEPT !.pos = @ + len, !.left = @ - len, !.out = @ \o more]
    BY <2>1, <2>2 DEF ReadChunk, Part
  <2>4. OnlyList(u, t) /\ t \in Sess
    <3> DEFINE w == TRUE
    <3>1. w \in BOOLEAN /\ Fits(u, q, o, w)
      BY <1>1
    <3> HIDE DEF w, t
    <3>2. Fits(t, q, o, w) /\ OnlyList(u, t)
      BY <1>1, <3>1, FindsBlock DEF t
    <3> QED
      BY <3>2 DEF Fits
  <2>5. len \in Nat \ {0} /\ len <= u.left /\ len <= BlockSize - from /\ len <= u.e.size - u.pos
    BY <1>1, <2>1, ChunkLength
  <2>6. OutIs(more, s.blk, q, u.pos, u.pos + len)
    <3>1. u.pos < Len(q) * BlockSize
      <4> DEFINE x == Len(q) * BlockSize
      <4>1. x \in Nat /\ u.e.size <= x
        BY <1>2, <1>3, BlocksGrow DEF Covered
      <4> HIDE DEF x
      <4> QED
        BY <1>1, <2>1, <4>1 DEF x
    <3>2. t.blk = s.blk /\ s.blk \in [BlockId -> Block]
      BY <1>1, <2>4, SessTypes DEF OnlyList
    <3> HIDE DEF t, len
    <3>3. OutIs(Part(s.blk, c, from, len), s.blk, q, u.pos, u.pos + len)
      BY <1>1, <1>2, <2>5, <3>1, <3>2, PartIs
    <3> QED
      BY <2>2, <3>2, <3>3
  <2> HIDE DEF more, len, t, from, c
  <2>7. t.pos = u.pos /\ t.left = u.left /\ t.out = u.out
    BY <2>4 DEF OnlyList
  <2>8. v.pos = u.pos + len /\ v.out = u.out \o more /\ v.rc = "OK"
    BY <2>2, <2>3, <2>4, <2>7 DEF Sess
  <2>9. OutIs(v.out, s.blk, q, s.pos, v.pos)
    <3>1. u.pos + len \in Nat /\ u.pos <= u.pos + len
      BY <1>1, <2>5
    <3>2. OutIs(u.out \o more, s.blk, q, s.pos, u.pos + len)
      BY <1>1, <2>6, <3>1, OutMore
    <3> QED
      BY <2>8, <3>2
  <2>10. s.pos <= v.pos /\ v.pos <= s.e.size /\ v.pos > u.pos
    BY <1>1, <2>5, <2>8
  <2> HIDE DEF v
  <2>11. ReadGot(s, v, q, o)
    BY <1>4, <1>5, <2>8, <2>9, <2>10 DEF ReadGot
  <2> QED
    BY <2>10, <2>11 DEF v
<1> QED
  BY <1>6, <1>7

\* A whole read of as much as a file can have gets all bytes up to the end.
LEMMA ReadsAll ==
  ASSUME NEW o \in SUBSET BlockId, NEW s, NEW q, Fits(s, q, o, TRUE), Covered(s, q),
         s.rc = "OK", s.out = <<>>, s.left = MaxSize
  PROVE  LET u == Repeat(ReadChunk, s, MaxSize)
         IN  /\ OutIs(u.out, s.blk, q, s.pos, u.pos) /\ s.pos <= u.pos
             /\ u.pos = IF s.pos <= s.e.size THEN s.e.size ELSE s.pos
<1> DEFINE n == MaxSize
           S == {u \in Sess : ReadGot(s, u, q, o)}
<1>1. /\ s \in Sess /\ s.pos \in Nat /\ s.e.size \in Nat /\ s.e.size <= n /\ n \in Nat
  BY SessTypes, MaxSizeIs DEF Fits
<1>2. s \in S
  <2> DEFINE none == s.out
  <2>0. none \in Seq(Byte) /\ Len(none) = 0
    OBVIOUS
  <2> HIDE DEF none
  <2>3. OutIs(none, s.blk, q, s.pos, s.pos)
    BY <1>1, <2>0 DEF OutIs
  <2>1. OutIs(s.out, s.blk, q, s.pos, s.pos)
    BY <2>3 DEF none
  <2>4. OnlyRead(s, s)
    BY DEF OnlyRead
  <2>2. ReadGot(s, s, q, o)
    <3>1. s.pos <= s.pos /\ s.rc \in {"OK", "EOF"} /\ s.rc = "OK"
      BY <1>1
    <3> QED
      BY <2>1, <2>4, <3>1, Zenon DEF ReadGot
  <2> QED
    BY <1>1, <2>2
<1>3. ASSUME NEW u \in S, u.rc = "OK"
      PROVE  ReadChunk(u) \in S /\ (ReadChunk(u).rc = "OK" => ReadChunk(u).pos > u.pos)
  <2>1. ReadGot(s, ReadChunk(u), q, o) /\ (ReadChunk(u).rc = "OK" => ReadChunk(u).pos > u.pos)
    BY <1>1, <1>3, ReadChunkGets
  <2>2. ReadChunk(u) \in Sess
    BY <2>1 DEF ReadGot, Fits
  <2> QED
    BY <2>1, <2>2
<1>4. ReadChunkKeeps(S)
  <2> HIDE DEF S
  <2> QED
    BY <1>3 DEF ReadChunkKeeps
<1>5. \A u \in S : u \in Sess /\ ReadGot(s, u, q, o)
  OBVIOUS
<1> HIDE DEF S
<1>6. PICK t : ReadChunkRun(S, s, n, t)
  BY <1>1, <1>2, <1>4, ReadChunks
<1>7. t[0] = s /\ \A k \in 0..n : t[k] \in S /\ t[k].pos \in Nat /\ t[k].left \in Nat
  <2>1. t[0] = s /\ \A k \in 0..n : t[k] \in S
    BY <1>6 DEF ReadChunkRun
  <2> QED
    BY <1>1, <1>5, <2>1, SessTypes
<1> DEFINE T == {k \in Nat : k <= n /\ t[k].rc = "OK" => t[k].pos >= s.pos + k}
<1>8. 0 \in T
  BY <1>1, <1>7
<1>9. ASSUME NEW k \in Nat, k \in T PROVE k + 1 \in T
  <2>1. SUFFICES ASSUME k + 1 <= n, t[k + 1].rc = "OK"
                 PROVE  t[k + 1].pos >= s.pos + (k + 1)
    OBVIOUS
  <2>2. k + 1 \in 1..n /\ (k + 1) - 1 = k /\ k \in 0..n /\ k + 1 \in 0..n
    BY <1>1, <2>1
  <2>3. t[k + 1] = IF t[k].rc = "OK" THEN ReadChunk(t[k]) ELSE t[k]
    BY <1>6, <2>2 DEF ReadChunkRun
  <2>4. t[k].rc = "OK" /\ t[k + 1] = ReadChunk(t[k])
    BY <2>1, <2>3
  <2>5. t[k + 1].pos > t[k].pos
    BY <1>3, <1>7, <2>1, <2>2, <2>4
  <2>6. t[k].pos >= s.pos + k
    BY <1>9, <2>2, <2>4
  <2> QED
    BY <1>1, <1>7, <2>2, <2>5, <2>6
<1>10. n \in T
  <2> HIDE DEF T
  <2> QED
    BY <1>1, <1>8, <1>9, Induction
<1> DEFINE u == t[n]
<1>11. Repeat(ReadChunk, s, n) = u /\ n \in 0..n
  BY <1>1, <1>6 DEF ReadChunkRun
<1>12. /\ u.pos \in Nat /\ u.left \in Nat /\ ReadGot(s, u, q, o)
       /\ u.rc = "OK" => u.pos >= s.pos + n
  BY <1>5, <1>7, <1>10, <1>11
<1> HIDE DEF u, T
<1>13. /\ OutIs(u.out, s.blk, q, s.pos, u.pos) /\ s.pos <= u.pos
       /\ (u.pos = s.pos \/ u.pos <= s.e.size) /\ (u.rc # "OK" => AtEnd(u))
       /\ u.pos + u.left = s.pos + s.left /\ u.e.size = s.e.size
  BY <1>12 DEF ReadGot, OnlyRead
<1>14. u.pos >= s.e.size
  <2>1. CASE u.rc = "OK"
    BY <1>1, <1>12, <2>1
  <2>2. CASE u.rc # "OK"
    <3>1. u.left = 0 \/ u.pos >= s.e.size
      BY <1>13, <2>2 DEF AtEnd
    <3>2. CASE u.left = 0
      BY <1>1, <1>12, <1>13, <3>2
    <3> QED
      BY <3>1, <3>2
  <2> QED
    BY <2>1, <2>2
<1>15. u.pos = IF s.pos <= s.e.size THEN s.e.size ELSE s.pos
  BY <1>1, <1>12, <1>13, <1>14
<1> QED
  BY <1>11, <1>13, <1>15

-----------------------------------------------------------------------------
(***************************************************************************)
(* The content of a file.                                                  *)
(***************************************************************************)

LEMMA OpenedEntry ==
  ASSUME NEW i, IsOpened(i)
  PROVE  EntryOf(i) = opened[i]
BY DEF EntryOf

\* The size an entry has or would have.
LEMMA EntrySize ==
  ASSUME NEW Q, Good(Q, TRUE), NEW i \in Inode
  PROVE  /\ EntryOf(i).size \in Nat /\ EntryOf(i).size <= Len(Q[i]) * BlockSize
         /\ EntryOf(i).size <= MaxSize
         /\ inode[i].size \in Nat /\ inode[i].size <= Len(Q[i]) * BlockSize
<1>1. Kept(Q) /\ TypeOK
  BY DEF Good
<1>2. inode[i] \in DiskInode /\ opened[i] \in Entry /\ MaxSize \in Nat
  BY <1>1, MaxSizeIs DEF TypeOK
<1>3. /\ inode[i].size \in 0..MaxSize /\ opened[i].size \in 0..MaxSize
  BY <1>2 DEF DiskInode, Entry
<1>4. inode[i].size <= Len(Q[i]) * BlockSize /\ opened[i].size <= Len(Q[i]) * BlockSize
  BY <1>1 DEF Kept
<1>5. EntryOf(i).size \in {inode[i].size, opened[i].size}
  <2>1. CASE IsOpened(i)
    BY <2>1, OpenedEntry
  <2>2. CASE ~IsOpened(i)
    <3>1. EntryOf(i) = [NotOpened EXCEPT !.size = inode[i].size, !.first = inode[i].first]
      BY <2>2 DEF EntryOf
    <3> QED
      BY <3>1 DEF NotOpened
  <2> QED
    BY <2>1, <2>2
<1> DEFINE z == EntryOf(i).size
<1> HIDE DEF z
<1>6. z \in {inode[i].size, opened[i].size}
  BY <1>5 DEF z
<1>7. z \in Nat /\ z <= Len(Q[i]) * BlockSize /\ z <= MaxSize
  BY <1>2, <1>3, <1>4, <1>6
<1> QED
  BY <1>2, <1>3, <1>4, <1>7 DEF z

\* The content of a file is what its chain has up to its size.
LEMMA ContentIs ==
  ASSUME NEW Q, Good(Q, TRUE), NEW i \in Inode
  PROVE  OutIs(Content(i), blk, Q[i], 0, EntryOf(i).size)
<1> DEFINE q == Q[i]
           z == EntryOf(i).size
           x == Len(q) * BlockSize
           c == Content(i)
<1>1. ChainOf(i) = q /\ q \in Seq(BlockId) /\ Len(q) \in Nat
  <2> DEFINE w == TRUE
  <2>1. w \in BOOLEAN /\ Good(Q, w)
    OBVIOUS
  <2> HIDE DEF w
  <2>2. ChainOf(i) = Q[i] /\ Len(Q[i]) \in Nat
    BY <2>1, ChainOfIs
  <2>3. Q[i] \in Seq(BlockId)
    BY DEF Good, Chains
  <2> QED
    BY <2>2, <2>3
<1>2. z \in Nat /\ z <= x /\ x \in Nat
  <2>1. /\ EntryOf(i).size \in Nat /\ EntryOf(i).size <= Len(Q[i]) * BlockSize
    BY EntrySize
  <2>2. Len(q) * BlockSize \in Nat
    <3> HIDE DEF q
    <3> QED
      BY <1>1, BlocksGrow
  <2> QED
    BY <2>1, <2>2
<1>3. Min({z, x}) = z
  <2> HIDE DEF z, x
  <2> QED
    BY <1>2, TwoNumbers
<1>4. c = [k \in 1..Min({z, x}) |-> blk[q[1 + ((k - 1) \div BlockSize)]].data[(k - 1) % BlockSize]]
  BY <1>1, Zenon DEF Content
<1>5. c = [k \in 1..z |-> ByteAt(blk, q, k - 1)]
  BY <1>3, <1>4 DEF ByteAt
<1>6. blk \in [BlockId -> Block]
  BY DEF Good, TypeOK
<1>7. ASSUME NEW k \in 1..z PROVE ByteAt(blk, q, k - 1) \in Byte
  <2> HIDE DEF q, z
  <2>1. k - 1 \in Nat /\ k - 1 < x
    <3> HIDE DEF x
    <3> QED
      BY <1>2
  <2> QED
    BY <1>1, <1>6, <2>1, ByteAtType
<1> HIDE DEF q, z, x, c
<1>8. c \in Seq(Byte) /\ Len(c) = z
  BY <1>2, <1>5, <1>7
<1>9. ASSUME NEW k \in 0..(z - 0) - 1 PROVE c[k + 1] = ByteAt(blk, q, 0 + k)
  <2>1. k + 1 \in 1..z /\ (k + 1) - 1 = k /\ 0 + k = k
    BY <1>2
  <2> QED
    BY <1>5, <2>1
<1>10. z - 0 = z
  BY <1>2
<1>11. OutIs(c, blk, q, 0, z)
  BY <1>8, <1>9, <1>10 DEF OutIs
<1> QED
  BY <1>11 DEF c, q, z

\* What is read from a position on is the rest of what is read from 0 on.
LEMMA OutRest ==
  ASSUME NEW bk, NEW q, NEW z \in Nat, NEW p \in Nat, NEW c, OutIs(c, bk, q, 0, z),
         NEW x, OutIs(x, bk, q, p, IF p <= z THEN z ELSE p)
  PROVE  x = SubSeq(c, p + 1, Len(c))
<1>1. c \in Seq(Byte) /\ Len(c) = z /\ x \in Seq(Byte) /\ Len(x) = IF p <= z THEN z - p ELSE 0
  BY DEF OutIs
<1>2. CASE p < z
  <2>1. SubSeq(c, p + 1, z) \in Seq(Byte) /\ Len(SubSeq(c, p + 1, z)) = z - p
    BY <1>1, <1>2
  <2>2. ASSUME NEW k \in 1..z - p PROVE x[k] = SubSeq(c, p + 1, z)[k]
    <3>1. SubSeq(c, p + 1, z)[k] = c[p + k]
      BY <1>1, <1>2
    <3> DEFINE a == k - 1
               b == (p + k) - 1
    <3>2. /\ a \in 0..(z - p) - 1 /\ a + 1 = k /\ p + a = b
          /\ b \in 0..(z - 0) - 1 /\ b + 1 = p + k /\ 0 + b = b
      BY <1>2
    <3> HIDE DEF a, b
    <3>3. x[a + 1] = ByteAt(bk, q, p + a)
      BY <1>2, <3>2 DEF OutIs
    <3>4. c[b + 1] = ByteAt(bk, q, 0 + b)
      BY <3>2 DEF OutIs
    <3> QED
      BY <3>1, <3>2, <3>3, <3>4
  <2> DEFINE y == SubSeq(c, p + 1, z)
  <2>3. y \in Seq(Byte) /\ Len(y) = z - p /\ Len(x) = z - p /\ \A k \in 1..z - p : x[k] = y[k]
    BY <1>1, <1>2, <2>1, <2>2
  <2> HIDE DEF y
  <2>4. x = y
    BY <1>1, <2>3
  <2> QED
    BY <1>1, <2>4 DEF y
<1>3. CASE ~(p < z)
  <2>1. Len(x) = 0
    BY <1>1, <1>3
  <2>2. x = <<>>
    BY <1>1, <2>1
  <2>3. SubSeq(c, p + 1, z) = <<>>
    <3>1. p + 1 \in Int /\ z \in Int /\ z < p + 1
      BY <1>3
    <3> QED
      BY <3>1, SubSeqEmpty
  <2> QED
    BY <1>1, <2>2, <2>3
<1> QED
  BY <1>2, <1>3

\* A device can be at any position up to MaxPos.
LEMMA MaxPosFits == MaxSize \in Nat /\ MaxPos \in Nat /\ MaxPos <= MaxSize
<1> DEFINE L == IoLen \cup TruncLen \cup SeekPos
<1>1. L \subseteq Nat /\ L # {} /\ IsFiniteSet(L)
  BY LengthsAssumption
<1>2. PICK m \in Nat : \A k \in L : k <= m
  BY <1>1, FiniteBounded
<1> HIDE DEF L
<1>3. Max(L) \in Nat
  BY <1>1, <1>2, MaxOf
<1> QED
  BY <1>3, MaxPosAssumption DEF MaxSize, L

\* A read gets the rest of the content of its file.
LEMMA ContentRead ==
  ASSUME Inv(TRUE)
  PROVE  ReadsContent
<1>1. PICK Q : Good(Q, TRUE) /\ Shown!Inv
  BY DEF Inv, Sound
<1>2. ASSUME NEW i \in Inode PROVE ChainOf(i) = Q[i]
  <2> DEFINE w == TRUE
  <2>1. w \in BOOLEAN /\ Good(Q, w)
    BY <1>1
  <2> HIDE DEF w
  <2> QED
    BY <2>1, ChainOfIs
<1>3. ASSUME NEW i \in Used
      PROVE  /\ EntryOf(i).size <= Len(ChainOf(i)) * BlockSize
             /\ inode[i].size <= Len(ChainOf(i)) * BlockSize
  <2>1. i \in Inode
    BY DEF Used
  <2>2. EntryOf(i).size <= Len(Q[i]) * BlockSize /\ inode[i].size <= Len(Q[i]) * BlockSize
    BY <1>1, <2>1, EntrySize
  <2> QED
    BY <1>2, <2>1, <2>2
<1>4. ASSUME NEW h \in Handle, dev[h] # NoDev, NEW p \in 0..MaxPos
      PROVE  ReadAt(h, p, MaxSize) = SubSeq(Content(dev[h].ino), p + 1, Len(Content(dev[h].ino)))
  <2> DEFINE i == dev[h].ino
             s == Session(i, p, MaxSize, 0)
             u == Repeat(ReadChunk, s, MaxSize)
             o == Others(Q, i)
  <2>1. TypeOK
    BY <1>1 DEF Good
  <2>2. i \in Inode /\ IsOpened(i)
    BY <1>1, <1>4, <2>1, OpenDevice
  <2>3. p \in 0..MaxSize /\ MaxSize \in 0..MaxSize /\ 0 \in Byte /\ p \in Nat
    BY MaxPosFits, ByteAssumption
  <2>4. Fits(s, Q[i], o, TRUE) /\ o \in SUBSET BlockId /\ Covered(s, Q[i])
    <3> DEFINE w == TRUE
    <3>1. w \in BOOLEAN /\ Good(Q, w)
      BY <1>1
    <3> HIDE DEF w, i
    <3>2. /\ Fits(Session(i, p, MaxSize, 0), Q[i], Others(Q, i), w)
          /\ Others(Q, i) \in SUBSET BlockId
          /\ w => Covered(Session(i, p, MaxSize, 0), Q[i])
      BY <2>2, <2>3, <3>1, SessionFits
    <3> QED
      BY <3>2 DEF w
  <2>5. /\ s.blk = blk /\ s.rc = "OK" /\ s.out = <<>> /\ s.left = MaxSize /\ s.pos = p
        /\ s.e = opened[i]
    BY DEF Session
  <2>6. ReadAt(h, p, MaxSize) = u.out
    BY Zenon DEF ReadAt
  <2> HIDE DEF s, o, i
  <2>7. /\ OutIs(u.out, s.blk, Q[i], s.pos, u.pos)
        /\ u.pos = IF s.pos <= s.e.size THEN s.e.size ELSE s.pos
    BY <2>4, <2>5, ReadsAll
  <2> HIDE DEF u
  <2> DEFINE z == EntryOf(i).size
  <2>8. z = s.e.size
    BY <2>2, <2>5, OpenedEntry
  <2>9. z \in Nat /\ OutIs(Content(i), blk, Q[i], 0, z)
    BY <1>1, <2>2, EntrySize, ContentIs
  <2> HIDE DEF z
  <2>10. OutIs(u.out, blk, Q[i], p, IF p <= z THEN z ELSE p)
    BY <2>5, <2>7, <2>8
  <2>11. u.out = SubSeq(Content(i), p + 1, Len(Content(i)))
    BY <2>3, <2>9, <2>10, OutRest
  <2> QED
    BY <2>6, <2>11 DEF i
<1> QED
  BY <1>3, <1>4, Zenon DEF ReadsContent

-----------------------------------------------------------------------------
(***************************************************************************)
(* The bytes of a file, past its end too.                                  *)
(***************************************************************************)

\* What the blocks q have at the position p, 0 behind their end.
ValueAt(bk, q, p) == IF p < Len(q) * BlockSize THEN ByteAt(bk, q, p) ELSE 0

\* The values are the same ones.
SameValues(bk, q, cs, r) == \A p \in Nat : ValueAt(cs, r, p) = ValueAt(bk, q, p)

\* Blocks are linked from a block in one way only.
LEMMA LinkedOnly ==
  ASSUME NEW bk \in [BlockId -> Block], NEW b \in 0..NumBlocks,
         NEW q, Linked(bk, b, q), NEW r, Linked(bk, b, r)
  PROVE  q = r
<1>1. Chain(bk, b) = q
  BY ChainIs
<1>2. Chain(bk, b) = r
  BY ChainIs
<1> QED
  BY <1>1, <1>2

\* The place of a position behind the first m blocks.
LEMMA BlockBehind ==
  ASSUME NEW p \in Nat, NEW m \in Nat, ~(p < m * BlockSize)
  PROVE  p \div BlockSize >= m
<1> DEFINE d == p \div BlockSize
           x == m * BlockSize
           y == (d + 1) * BlockSize
           f == p % BlockSize
<1>1. d \in Nat /\ f \in 0..BlockSize - 1 /\ p = BlockSize * d + f
  BY InBlock
<1>2. BlockSize \in Nat \ {0} /\ y = BlockSize * d + BlockSize
  BY <1>1, BlockSizeAssumption
<1>3. p < y
  <2> DEFINE e == BlockSize * d
  <2>1. e \in Nat
    BY <1>1, <1>2
  <2> HIDE DEF e, y, f, d
  <2>2. p = e + f /\ y = e + BlockSize
    BY <1>1, <1>2 DEF e
  <2> QED
    BY <1>1, <1>2, <2>1, <2>2
<1>4. SUFFICES ASSUME d < m PROVE FALSE
  BY <1>1
<1>5. y <= x /\ x \in Nat /\ y \in Nat
  <2> HIDE DEF d
  <2>1. d + 1 \in Nat /\ d + 1 <= m
    BY <1>1, <1>4
  <2> QED
    BY <2>1, BlocksGrow
<1>6. ~(p < x)
  OBVIOUS
<1> HIDE DEF x, y
<1> QED
  BY <1>3, <1>5, <1>6

\* A position is before the end of m blocks if its block is one of them.
LEMMA PlaceIn ==
  ASSUME NEW p \in Nat, NEW m \in Nat
  PROVE  LET k == 1 + (p \div BlockSize)
         IN  k \in Nat \ {0} /\ (k <= m <=> p < m * BlockSize)
<1>1. p \div BlockSize \in Nat
  BY InBlock
<1>2. ASSUME p < m * BlockSize PROVE 1 + (p \div BlockSize) <= m
  <2>1. p \div BlockSize \in 0..m - 1
    BY <1>2, BlockOfPosition
  <2> QED
    BY <2>1
<1>3. ASSUME ~(p < m * BlockSize) PROVE ~(1 + (p \div BlockSize) <= m)
  <2>1. p \div BlockSize >= m
    BY <1>3, BlockBehind
  <2> QED
    BY <1>1, <2>1
<1> DEFINE x == m * BlockSize
           d == p \div BlockSize
<1> HIDE DEF x, d
<1>4. (p < x => 1 + d <= m) /\ (~(p < x) => ~(1 + d <= m)) /\ d \in Nat
  BY <1>1, <1>2, <1>3 DEF x, d
<1>5. 1 + d \in Nat \ {0} /\ (1 + d <= m <=> p < x)
  BY <1>4
<1> QED
  BY <1>5 DEF x, d

\* The blocks added to a chain were blank, so that growing it changes no value.
LEMMA GrowsSame ==
  ASSUME NEW o \in SUBSET BlockId, NEW w \in BOOLEAN, w, NEW s, NEW q, Fits(s, q, o, w),
         NEW t, NEW r, Fits(t, r, o, w), Extends(q, r), Grows(s, t, o)
  PROVE  SameValues(s.blk, q, t.blk, r)
<1>1. /\ s \in Sess /\ t \in Sess /\ Linked(s.blk, s.e.first, q) /\ Linked(t.blk, t.e.first, r)
      /\ Held(s.blk, s.hint, q, o) /\ Whole(s.blk, s.e.list, q, o) /\ Held(t.blk, t.hint, r, o)
  BY DEF Fits
<1>2. /\ q \in Seq(BlockId) /\ Len(q) \in Nat /\ r \in Seq(BlockId) /\ Len(r) \in Nat
      /\ Len(q) <= Len(r)
  BY <1>1, LinkedLength DEF Extends
<1>3. ASSUME NEW k \in 1..Len(r), NEW f \in Offset
      PROVE  t.blk[r[k]].data[f] = IF k <= Len(q) THEN s.blk[q[k]].data[f] ELSE 0
  <2>1. r[k] \in BlockId /\ t.blk[r[k]].data = s.blk[r[k]].data
    BY <1>2 DEF Grows
  <2>2. CASE k <= Len(q)
    <3>1. k \in 1..Len(q)
      BY <1>2, <2>2
    <3>2. r[k] = q[k]
      BY <3>1 DEF Extends
    <3> QED
      BY <2>1, <2>2, <3>2
  <2>3. CASE ~(k <= Len(q))
    <3>1. r[k] \notin Ids(q)
      <4>1. SUFFICES ASSUME NEW l \in 1..Len(q), r[k] = q[l] PROVE FALSE
        BY DEF Ids
      <4>2. l \in 1..Len(r) /\ r[l] = q[l]
        BY <1>2 DEF Extends
      <4>3. l = k
        BY <1>1, <4>1, <4>2 DEF Linked
      <4> QED
        BY <1>2, <2>3, <4>3
    <3>2. r[k] \notin o
      BY <1>1 DEF Held, Ids
    <3>3. s.blk[r[k]] = EmptyBlock
      <4>1. ~s.blk[r[k]].used
        BY <1>1, <2>1, <3>1, <3>2 DEF Whole
      <4> QED
        BY <1>1, <2>1, <4>1 DEF Held
    <3>4. s.blk[r[k]].data[f] = 0
      BY <3>3 DEF EmptyBlock, Zeroes
    <3> QED
      BY <2>1, <2>3, <3>4
  <2> QED
    BY <2>2, <2>3
<1>4. ASSUME NEW p \in Nat PROVE ValueAt(t.blk, r, p) = ValueAt(s.blk, q, p)
  <2> DEFINE k == 1 + (p \div BlockSize)
             f == p % BlockSize
  <2>1. f \in Offset /\ k \in Nat \ {0} /\ k - 1 = p \div BlockSize
    BY InBlock DEF Offset
  <2>2. k <= Len(q) <=> p < Len(q) * BlockSize
    BY <1>2, PlaceIn
  <2>3. k <= Len(r) <=> p < Len(r) * BlockSize
    BY <1>2, PlaceIn
  <2>6. ByteAt(t.blk, r, p) = t.blk[r[k]].data[f] /\ ByteAt(s.blk, q, p) = s.blk[q[k]].data[f]
    BY DEF ByteAt
  <2> DEFINE x == Len(q) * BlockSize
             y == Len(r) * BlockSize
  <2> HIDE DEF x, y, k, f
  <2>7. (k <= Len(q) <=> p < x) /\ (k <= Len(r) <=> p < y) /\ k \in Nat \ {0}
    BY <2>1, <2>2, <2>3 DEF x, y
  <2>8. ValueAt(t.blk, r, p) = IF p < y THEN t.blk[r[k]].data[f] ELSE 0
    BY <2>6 DEF ValueAt, y
  <2>9. ValueAt(s.blk, q, p) = IF p < x THEN s.blk[q[k]].data[f] ELSE 0
    BY <2>6 DEF ValueAt, x
  <2>10. CASE k <= Len(r)
    <3>1. k \in 1..Len(r)
      BY <1>2, <2>7, <2>10
    <3>2. t.blk[r[k]].data[f] = IF k <= Len(q) THEN s.blk[q[k]].data[f] ELSE 0
      BY <1>3, <2>1, <3>1
    <3> QED
      BY <2>7, <2>8, <2>9, <2>10, <3>2
  <2>11. CASE ~(k <= Len(r))
    <3>1. ~(k <= Len(q))
      BY <1>2, <2>7, <2>11
    <3> QED
      BY <2>7, <2>8, <2>9, <2>11, <3>1
  <2> QED
    BY <2>10, <2>11
<1> QED
  BY <1>4 DEF SameValues

-----------------------------------------------------------------------------
(***************************************************************************)
(* What a write leaves in the blocks.                                      *)
(***************************************************************************)

LEMMA PutData ==
  ASSUME NEW bk \in [BlockId -> Block], NEW c \in BlockId, NEW from \in Offset, NEW len \in Nat,
         NEW v
  PROVE  LET cs == PutBytes(bk, c, from, len, v)
         IN  /\ \A f \in Offset : cs[c].data[f] = IF from <= f /\ f < from + len THEN v
                                                  ELSE bk[c].data[f]
             /\ \A d \in BlockId : d # c => cs[d] = bk[d]
<1> DEFINE m == [k \in Offset |-> IF k \in from..(from + len - 1) THEN v ELSE bk[c].data[k]]
           cs == [bk EXCEPT ![c].data = m]
<1>1. PutBytes(bk, c, from, len, v) = cs
  BY DEF PutBytes
<1>2. bk[c] \in Block
  OBVIOUS
<1>3. \A f \in Offset : m[f] = IF from <= f /\ f < from + len THEN v ELSE bk[c].data[f]
  <2>1. \A f \in Offset : f \in from..(from + len - 1) <=> (from <= f /\ f < from + len)
    BY DEF Offset
  <2> QED
    BY <2>1
<1> HIDE DEF m
<1>4. cs[c].data = m /\ \A d \in BlockId : d # c => cs[d] = bk[d]
  BY <1>2 DEF Block
<1> QED
  BY <1>1, <1>3, <1>4

\* The values after bytes v were put at the position j and those that follow it.
PutValues(bk, cs, r, j, len, v) ==
  \A p \in Nat : ValueAt(cs, r, p) = IF j <= p /\ p < j + len THEN v ELSE ValueAt(bk, r, p)

LEMMA PutsValues ==
  ASSUME NEW bk \in [BlockId -> Block], NEW b, NEW r, Linked(bk, b, r),
         NEW j \in Nat, j < Len(r) * BlockSize,
         NEW len \in Nat, len <= BlockSize - (j % BlockSize), NEW v
  PROVE  PutValues(bk, PutBytes(bk, r[1 + (j \div BlockSize)], j % BlockSize, len, v), r, j, len, v)
<1> DEFINE bc == 1 + (j \div BlockSize)
           from == j % BlockSize
           c == r[bc]
           cs == PutBytes(bk, c, from, len, v)
<1>1. r \in Seq(BlockId) /\ Len(r) \in Nat /\ \A k, l \in 1..Len(r) : r[k] = r[l] => k = l
  BY LinkedLength DEF Linked
<1>2. from \in Offset /\ bc \in Nat \ {0} /\ j = BlockSize * (bc - 1) + from
      /\ BlockSize \in Nat \ {0} /\ from \in Nat
  <2>1. j \div BlockSize \in Nat /\ j % BlockSize \in 0..BlockSize - 1
        /\ j = BlockSize * (j \div BlockSize) + (j % BlockSize)
    BY InBlock
  <2>2. bc - 1 = j \div BlockSize
    BY <2>1
  <2> QED
    BY <2>1, <2>2, BlockSizeAssumption DEF Offset
<1>3. bc \in 1..Len(r) /\ c \in BlockId
  <2>1. bc <= Len(r)
    BY <1>1, PlaceIn
  <2> QED
    BY <1>1, <1>2, <2>1
<1> HIDE DEF cs, c, from, bc
<1>4. /\ \A f \in Offset : cs[c].data[f] = IF from <= f /\ f < from + len THEN v
                                           ELSE bk[c].data[f]
      /\ \A d \in BlockId : d # c => cs[d] = bk[d]
  BY <1>2, <1>3, PutData DEF cs
<1>5. ASSUME NEW p \in Nat
      PROVE  ValueAt(cs, r, p) = IF j <= p /\ p < j + len THEN v ELSE ValueAt(bk, r, p)
  <2> DEFINE k == 1 + (p \div BlockSize)
             f == p % BlockSize
             x == Len(r) * BlockSize
  <2>1. f \in Offset /\ f \in Nat /\ f < BlockSize /\ p = BlockSize * (k - 1) + f
    <3>1. p \div BlockSize \in Nat /\ p % BlockSize \in 0..BlockSize - 1
          /\ p = BlockSize * (p \div BlockSize) + (p % BlockSize)
      BY InBlock
    <3>2. k - 1 = p \div BlockSize
      BY <3>1
    <3> QED
      BY <1>2, <3>1, <3>2 DEF Offset
  <2>2. k \in Nat \ {0} /\ (k <= Len(r) <=> p < x)
    BY <1>1, PlaceIn
  <2>3. ByteAt(cs, r, p) = cs[r[k]].data[f] /\ ByteAt(bk, r, p) = bk[r[k]].data[f]
    BY DEF ByteAt
  <2>4. ASSUME j <= p, p < j + len PROVE k = bc /\ f = from + (p - j)
    <3> DEFINE l == p - j
    <3>1. l \in Nat /\ l < BlockSize - (j % BlockSize) /\ j + l = p
      BY <1>2, <2>4 DEF from
    <3> HIDE DEF l
    <3>2. (j + l) \div BlockSize = j \div BlockSize /\ (j + l) % BlockSize = (j % BlockSize) + l
      BY <3>1, SameBlock
    <3> QED
      BY <3>1, <3>2 DEF bc, from, l
  <2>5. ASSUME k = bc, from <= f, f < from + len PROVE j <= p /\ p < j + len
    <3> DEFINE e == BlockSize * (bc - 1)
    <3>1. e \in Nat
      <4>1. bc - 1 \in Nat
        BY <1>2
      <4> QED
        BY <1>2, <4>1
    <3>2. j = e + from /\ p = e + f
      BY <1>2, <2>1, <2>5
    <3> HIDE DEF e, f, k
    <3> QED
      BY <1>2, <2>1, <2>5, <3>1, <3>2
  <2>8. ValueAt(cs, r, p) = IF p < x THEN cs[r[k]].data[f] ELSE 0
    BY <2>3 DEF ValueAt
  <2>9. ValueAt(bk, r, p) = IF p < x THEN bk[r[k]].data[f] ELSE 0
    BY <2>3 DEF ValueAt
  <2> HIDE DEF k, f, x
  <2>6. CASE k = bc
    <3>1. p < x /\ r[k] = c
      BY <1>3, <2>2, <2>6 DEF c
    <3>2. (from <= f /\ f < from + len) <=> (j <= p /\ p < j + len)
      <4>1. (from <= f /\ f < from + len) => (j <= p /\ p < j + len)
        BY <2>5, <2>6
      <4>2. (j <= p /\ p < j + len) => (from <= f /\ f < from + len)
        BY <1>2, <2>1, <2>4
      <4> QED
        BY <4>1, <4>2
    <3>3. cs[c].data[f] = IF from <= f /\ f < from + len THEN v ELSE bk[c].data[f]
      BY <1>4, <2>1
    <3> QED
      BY <2>8, <2>9, <3>1, <3>2, <3>3
  <2>7. CASE k # bc
    <3>1. ~(j <= p /\ p < j + len)
      BY <2>4, <2>7
    <3>2. p < x => cs[r[k]] = bk[r[k]]
      <4>1. SUFFICES ASSUME p < x PROVE cs[r[k]] = bk[r[k]]
        OBVIOUS
      <4>2. k \in 1..Len(r)
        BY <1>1, <2>2, <4>1
      <4>3. r[k] \in BlockId /\ r[k] # c
        BY <1>1, <1>3, <2>7, <4>2 DEF c
      <4> QED
        BY <1>4, <4>3
    <3> QED
      BY <2>8, <2>9, <3>1, <3>2
  <2> QED
    BY <2>6, <2>7
<1>6. PutValues(bk, cs, r, j, len, v)
  BY <1>5 DEF PutValues
<1> QED
  BY <1>6 DEF cs, c, from, bc

-----------------------------------------------------------------------------
(***************************************************************************)
(* What the turns of a write leave in the blocks.                          *)
(***************************************************************************)

\* What was written stands at the positions passed; nothing else has changed,
\* and the file ends behind it at least.
Stored(s, u, q, r) ==
  /\ \A p \in Nat : ValueAt(u.blk, r, p) =
       IF s.pos <= p /\ p < u.pos THEN s.val ELSE ValueAt(s.blk, q, p)
  /\ u.e.size = IF u.pos > s.pos /\ u.pos > s.e.size THEN u.pos ELSE s.e.size
  /\ s.pos <= u.pos /\ u.val = s.val

LEMMA NothingStored ==
  ASSUME NEW s \in Sess, NEW t, NEW q, NEW r, SameValues(s.blk, q, t.blk, r),
         t.pos = s.pos, t.e.size = s.e.size, t.val = s.val
  PROVE  Stored(s, t, q, r)
<1>1. s.pos \in Nat
  BY SessTypes, MaxSizeIs
<1>2. \A p \in Nat : ~(s.pos <= p /\ p < t.pos)
  BY <1>1
<1>3. \A p \in Nat : ValueAt(t.blk, r, p) = ValueAt(s.blk, q, p)
  BY DEF SameValues
<1>4. ~(t.pos > s.pos) /\ s.pos <= t.pos
  BY <1>1
<1> QED
  BY <1>2, <1>3, <1>4 DEF Stored

\* The chain that a session fits.
LEMMA FitsOnly ==
  ASSUME NEW o, NEW w, NEW s, NEW t \in Sess, s.e.first = t.e.first,
         \A d \in BlockId : s.blk[d].next = t.blk[d].next,
         NEW q, Fits(s, q, o, w), NEW r, Fits(t, r, o, w)
  PROVE  q = r
<1>1. /\ s \in Sess /\ Linked(s.blk, s.e.first, q) /\ Linked(t.blk, t.e.first, r)
  BY DEF Fits
<1>2. /\ q \in Seq(BlockId) /\ s.blk \in [BlockId -> Block] /\ t.blk \in [BlockId -> Block]
      /\ t.e.first \in 0..NumBlocks
  BY <1>1, LinkedLength, SessTypes
<1>3. \A d \in Ids(q) : t.blk[d].next = s.blk[d].next
  BY <1>2 DEF Ids
<1>4. Linked(t.blk, t.e.first, q)
  BY <1>1, <1>3, LinkedStays
<1> QED
  BY <1>1, <1>2, <1>4, LinkedOnly

LEMMA WriteChunkPuts ==
  ASSUME NEW o \in SUBSET BlockId, NEW w \in BOOLEAN, w, NEW s, NEW q, Fits(s, q, o, w),
         s.rc = "OK", NEW r, Fits(WriteChunk(s), r, o, w)
  PROVE  Stored(s, WriteChunk(s), q, r)
<1> DEFINE t == BlockForPos(s, s.pos, TRUE)
           bc == 1 + (s.pos \div BlockSize)
           from == s.pos % BlockSize
           len == Min({s.left, BlockSize - from})
           u == WriteChunk(s)
<1>1. s \in Sess /\ s.pos \in Nat /\ s.left \in Nat /\ s.e.size \in Nat /\ MaxSize \in Nat
      /\ s.val \in Byte
  BY SessTypes, MaxSizeIs DEF Fits
<1>2. PICK x : /\ Fits(t, x, o, w) /\ Extends(q, x) /\ Grows(s, t, o)
               /\ t.rc = "OK" => Found(t, bc)
  BY <1>1, ReachesBlock
<1>3. t \in Sess /\ t.pos = s.pos /\ t.left = s.left /\ t.e.size = s.e.size /\ t.val = s.val
      /\ Linked(t.blk, t.e.first, x) /\ Len(x) \in Nat
  BY <1>2, LinkedLength DEF Grows, Fits
<1>4. SameValues(s.blk, q, t.blk, x)
  <2> HIDE DEF t
  <2> QED
    BY <1>2, GrowsSame
<1>5. CASE s.left = 0
  <2>1. u = s
    BY <1>5 DEF WriteChunk
  <2>2. q = r
    <3>1. Fits(s, r, o, w)
      BY <2>1
    <3> QED
      BY <1>1, <3>1, FitsOnly
  <2>3. SameValues(s.blk, q, s.blk, q)
    BY DEF SameValues
  <2>4. Stored(s, s, q, q)
    BY <1>1, <2>3, NothingStored
  <2> QED
    BY <2>1, <2>2, <2>4
<1>6. CASE s.left # 0 /\ t.rc # "OK"
  <2>1. u = t
    BY <1>6 DEF WriteChunk
  <2> HIDE DEF u, t
  <2>2. x = r
    <3>1. Fits(t, r, o, w)
      BY <2>1 DEF u
    <3> QED
      BY <1>2, <1>3, <3>1, FitsOnly
  <2>3. Stored(s, t, q, x)
    BY <1>1, <1>3, <1>4, NothingStored
  <2> QED
    BY <2>1, <2>2, <2>3 DEF u
<1>7. CASE s.left # 0 /\ t.rc = "OK"
  <2>1. u = [t EXCEPT !.pos = @ + len, !.left = @ - len,
                     !.e.size = Max({@, s.pos + len}), !.blk = PutBytes(@, t.bl.id, from, len, s.val)]
    BY <1>7 DEF WriteChunk
  <2>2. bc \in 1..Len(x) /\ t.bl.id = x[bc]
    <3>1. bc \in Nat \ {0} /\ Listed(t.e.list, t.blk, x)
      BY <1>1, <1>2, PositionInBlock DEF Fits
    <3> HIDE DEF t, bc
    <3>2. FoundAs(t, x, bc)
      BY <1>2, <1>3, <1>7, <3>1, FoundIn
    <3> QED
      BY <3>2 DEF FoundAs
  <2>3. BlockSize - from \in Nat \ {0} /\ from \in Nat
    BY <1>1, PositionInBlock, BlockSizeAssumption DEF Offset
  <2>4. len \in Nat \ {0} /\ len <= BlockSize - from
    <3> DEFINE a == BlockSize - from
    <3> HIDE DEF a, from
    <3>1. Min({s.left, a}) = IF s.left <= a THEN s.left ELSE a
      BY <1>1, <2>3, TwoNumbers DEF a
    <3>2. len = IF s.left <= a THEN s.left ELSE a
      BY <3>1 DEF a
    <3> QED
      BY <1>1, <1>7, <2>3, <3>2 DEF a
  <2> DEFINE end == s.pos + len
             size == Max({s.e.size, end})
             cs == PutBytes(t.blk, t.bl.id, from, len, s.val)
  <2>5. PutValues(t.blk, cs, x, s.pos, len, s.val)
    <3>1. s.pos < Len(x) * BlockSize
      <4>1. bc <= Len(x)
        BY <1>3, <2>2
      <4> QED
        BY <1>1, <1>3, <4>1, PlaceIn
    <3>2. t.blk \in [BlockId -> Block]
      BY <1>3, SessTypes
    <3>3. len \in Nat
      BY <2>4
    <3> HIDE DEF t, len
    <3>4. PutValues(t.blk, PutBytes(t.blk, x[1 + (s.pos \div BlockSize)], s.pos % BlockSize, len,
                                    s.val), x, s.pos, len, s.val)
      BY <1>1, <1>3, <2>4, <3>1, <3>2, <3>3, PutsValues
    <3> QED
      BY <2>2, <3>4
  <2>6. end \in Nat /\ end > s.pos
    BY <1>1, <2>4
  <2>7. size = IF s.e.size <= end THEN end ELSE s.e.size
    <3> HIDE DEF end
    <3> QED
      BY <1>1, <2>6, TwoNumbers
  <2> HIDE DEF t, u, len, from, bc, cs, end, size
  <2>8. /\ u.blk = cs /\ u.pos = end /\ u.e.size = size /\ u.val = t.val
        /\ u.e.first = t.e.first
    <3>1. t.e \in Entry
      BY <1>3, SessTypes
    <3>2. u = [t EXCEPT !.pos = end, !.left = @ - len, !.e = [t.e EXCEPT !.size = size], !.blk = cs]
      BY <1>3, <2>1 DEF end, size, cs
    <3> DEFINE e == [t.e EXCEPT !.size = size]
    <3>3. e.size = size /\ e.first = t.e.first
      BY <3>1 DEF Entry
    <3> HIDE DEF e
    <3>4. u = [t EXCEPT !.pos = end, !.left = @ - len, !.e = e, !.blk = cs]
      BY <3>2 DEF e
    <3>5. u.blk = cs /\ u.pos = end /\ u.e = e /\ u.val = t.val
      BY <1>3, <3>4 DEF Sess
    <3> QED
      BY <3>3, <3>5
  <2>9. x = r
    <3>1. u \in Sess /\ Fits(u, r, o, w)
      BY DEF u, Fits
    <3>2. cs = [t.blk EXCEPT ![t.bl.id].data = [k \in Offset |->
                     IF k \in from..(from + len - 1) THEN s.val ELSE @[k]]]
      BY DEF cs, PutBytes
    <3>3. t.blk \in [BlockId -> Block]
      BY <1>3, SessTypes
    <3>4. \A d \in BlockId : t.blk[d].next = cs[d].next
      BY <3>2, <3>3 DEF Block
    <3>5. \A d \in BlockId : t.blk[d].next = u.blk[d].next
      BY <2>8, <3>4
    <3> QED
      BY <1>2, <2>8, <3>1, <3>5, FitsOnly
  <2>10. \A p \in Nat : ValueAt(u.blk, r, p) =
           IF s.pos <= p /\ p < u.pos THEN s.val ELSE ValueAt(s.blk, q, p)
    BY <1>4, <2>5, <2>8, <2>9 DEF PutValues, SameValues, end
  <2>11. u.e.size = IF u.pos > s.pos /\ u.pos > s.e.size THEN u.pos ELSE s.e.size
    BY <1>1, <2>6, <2>7, <2>8
  <2>12. s.pos <= u.pos /\ u.val = s.val
    BY <1>1, <1>3, <2>6, <2>8
  <2> QED
    BY <2>10, <2>11, <2>12 DEF Stored, u
<1> QED
  BY <1>5, <1>6, <1>7

LEMMA StoredOn ==
  ASSUME NEW s \in Sess, NEW u \in Sess, NEW v \in Sess, NEW q, NEW r, NEW x,
         Stored(s, u, q, r), Stored(u, v, r, x)
  PROVE  Stored(s, v, q, x)
<1>1. /\ s.pos \in Nat /\ u.pos \in Nat /\ v.pos \in Nat
      /\ s.e.size \in Nat /\ u.e.size \in Nat /\ v.e.size \in Nat
  BY SessTypes, MaxSizeIs
<1>2. s.pos <= u.pos /\ u.pos <= v.pos /\ u.val = s.val /\ v.val = s.val
  BY DEF Stored
<1>3. ASSUME NEW p \in Nat
      PROVE  ValueAt(v.blk, x, p) = IF s.pos <= p /\ p < v.pos THEN s.val ELSE ValueAt(s.blk, q, p)
  <2>1. ValueAt(u.blk, r, p) = IF s.pos <= p /\ p < u.pos THEN s.val ELSE ValueAt(s.blk, q, p)
    BY DEF Stored
  <2>2. ValueAt(v.blk, x, p) = IF u.pos <= p /\ p < v.pos THEN s.val ELSE ValueAt(u.blk, r, p)
    BY <1>2 DEF Stored
  <2> QED
    BY <1>1, <1>2, <2>1, <2>2
<1>4. /\ u.e.size = IF u.pos > s.pos /\ u.pos > s.e.size THEN u.pos ELSE s.e.size
      /\ v.e.size = IF v.pos > u.pos /\ v.pos > u.e.size THEN v.pos ELSE u.e.size
  BY DEF Stored
<1>5. v.e.size = IF v.pos > s.pos /\ v.pos > s.e.size THEN v.pos ELSE s.e.size
  BY <1>1, <1>2, <1>4
<1>6. s.pos <= v.pos
  BY <1>1, <1>2
<1> QED
  BY <1>2, <1>3, <1>5, <1>6 DEF Stored

\* A whole write stores what it passes.
LEMMA WriteStores ==
  ASSUME NEW o \in SUBSET BlockId, NEW w \in BOOLEAN, w, NEW s, NEW q, Fits(s, q, o, w),
         s.rc = "OK", s.pos + s.left <= MaxSize, NEW n \in Nat
  PROVE  LET u == Repeat(WriteChunk, s, n)
         IN  \E r : Fits(u, r, o, w) /\ Stored(s, u, q, r)
<1> DEFINE S == {u \in Sess : \E r : Writes(s, u, q, r, o, w) /\ Stored(s, u, q, r)}
<1>1. s \in Sess /\ Len(q) \in Nat /\ s.left \in Nat /\ s.pos \in Nat /\ MaxSize \in Nat
  BY LinkedLength, SessTypes, MaxSizeIs DEF Fits
<1>2. s \in S
  <2>1. Extends(q, q) /\ Wrote(s, s, o)
    BY <1>1, ExtendsSelf DEF Wrote
  <2>2. Writes(s, s, q, q, o, w)
    BY <2>1 DEF Writes
  <2>3. SameValues(s.blk, q, s.blk, q)
    BY DEF SameValues
  <2>4. Stored(s, s, q, q)
    BY <1>1, <2>3, NothingStored
  <2> QED
    BY <1>1, <2>2, <2>4
<1>3. ASSUME NEW u \in S, u.rc = "OK"
      PROVE  WriteChunk(u) \in S
  <2>1. PICK r : Writes(s, u, q, r, o, w) /\ Stored(s, u, q, r)
    OBVIOUS
  <2>2. Fits(u, r, o, w) /\ u.pos + u.left <= MaxSize
    BY <2>1 DEF Writes, Wrote
  <2> DEFINE v == WriteChunk(u)
  <2>3. PICK x : Writes(u, v, r, x, o, w)
    BY <1>3, <2>2, WriteChunkWrites
  <2>4. Fits(v, x, o, w)
    BY <2>3 DEF Writes
  <2>5. Stored(u, v, r, x)
    BY <1>3, <2>2, <2>4, WriteChunkPuts
  <2> HIDE DEF v
  <2>6. v \in Sess /\ Len(r) \in Nat /\ Len(x) \in Nat /\ u \in Sess
    BY <2>2, <2>4, LinkedLength DEF Fits
  <2>7. Writes(s, v, q, x, o, w)
    BY <1>1, <2>1, <2>3, <2>6, WritesOn
  <2>8. Stored(s, v, q, x)
    BY <1>1, <2>1, <2>5, <2>6, StoredOn
  <2> QED
    BY <2>6, <2>7, <2>8 DEF v
<1>4. WriteChunkKeeps(S)
  <2> HIDE DEF S
  <2> QED
    BY <1>3 DEF WriteChunkKeeps
<1> HIDE DEF S
<1>5. PICK t : WriteChunkRun(S, s, n, t)
  BY <1>2, <1>4, WriteChunks
<1>6. t[n] \in S /\ Repeat(WriteChunk, s, n) = t[n]
  BY <1>5 DEF WriteChunkRun
<1>7. PICK r : Writes(s, t[n], q, r, o, w) /\ Stored(s, t[n], q, r)
  BY <1>6 DEF S
<1> QED
  BY <1>6, <1>7 DEF Writes

-----------------------------------------------------------------------------
(***************************************************************************)
(* What a truncation leaves in the blocks.                                 *)
(***************************************************************************)

\* The values in front of len stay; those behind are zero.
ResizedValues(bk, q, cs, r, len) ==
  \A p \in Nat : ValueAt(cs, r, p) = IF p < len THEN ValueAt(bk, q, p) ELSE 0

\* Zeroing the end of a block is writing zeroes.
LEMMA WipePuts ==
  ASSUME NEW bk \in [BlockId -> Block], NEW c \in BlockId, NEW from \in Offset
  PROVE  WipeData(bk, c, from) = PutBytes(bk, c, from, BlockSize - from, 0)
<1>1. \A k \in Offset : k >= from <=> k \in from..(from + (BlockSize - from) - 1)
  BY BlockSizeAssumption DEF Offset
<1> QED
  BY <1>1 DEF WipeData, PutBytes

\* A position that is not at the start of a block follows the one before in it.
LEMMA BlockOfLast ==
  ASSUME NEW len \in Nat \ {0}, len % BlockSize # 0
  PROVE  len \div BlockSize = (len - 1) \div BlockSize
<1> DEFINE d == (len - 1) \div BlockSize
           m == (len - 1) % BlockSize
           e == len \div BlockSize
           n == len % BlockSize
<1>1. d \in Nat /\ m \in 0..BlockSize - 1 /\ len - 1 = BlockSize * d + m
  BY InBlock
<1>2. e \in Nat /\ n \in 0..BlockSize - 1 /\ len = BlockSize * e + n
  BY InBlock
<1>3. BlockSize \in Nat \ {0} /\ n # 0
  BY BlockSizeAssumption
<1>4. m + 1 < BlockSize
  <2>1. SUFFICES ASSUME m + 1 = BlockSize PROVE FALSE
    BY <1>1, <1>3
  <2> HIDE DEF d, m, e, n
  <2>2. BlockSize * (d + 1) = BlockSize * d + BlockSize
    BY <1>1, <1>3
  <2> DEFINE g == d + 1
             z == 0
  <2>3. BlockSize * e + n = BlockSize * g + z
    <3> DEFINE a == BlockSize * d
               b == BlockSize * e
    <3>1. a \in Nat /\ b \in Nat
      BY <1>1, <1>2, <1>3
    <3>2. len - 1 = a + m /\ len = b + n /\ BlockSize * g = a + BlockSize
      BY <1>1, <1>2, <2>2
    <3> HIDE DEF a, b, g
    <3>3. b + n = (a + BlockSize) + 0
      BY <1>1, <1>2, <1>3, <2>1, <3>1, <3>2
    <3> QED
      BY <3>2, <3>3 DEF b
  <2>4. g \in Nat /\ z \in Offset /\ n \in Offset
    BY <1>1, <1>2, <1>3 DEF Offset
  <2> HIDE DEF g, z
  <2>5. n = z
    BY <1>2, <2>3, <2>4, OnePlace
  <2> QED
    BY <1>3, <2>5 DEF z
<1> DEFINE p == len - 1
           k == 1
<1>5. p \in Nat /\ k \in Nat /\ k < BlockSize - (p % BlockSize) /\ p + k = len
  BY <1>1, <1>3, <1>4
<1> HIDE DEF p, k
<1>6. (p + k) \div BlockSize = p \div BlockSize
  BY <1>5, SameBlock
<1> QED
  BY <1>5, <1>6 DEF p

\* The values of the first m blocks of a chain.
LEMMA CutValues ==
  ASSUME NEW bk \in [BlockId -> Block], NEW q \in Seq(BlockId), NEW m \in 1..Len(q), NEW cs,
         \A k \in 1..m : cs[q[k]].data = bk[q[k]].data
  PROVE  ResizedValues(bk, q, cs, SubSeq(q, 1, m), m * BlockSize)
<1> DEFINE r == SubSeq(q, 1, m)
           x == m * BlockSize
           y == Len(q) * BlockSize
<1>1. r \in Seq(BlockId) /\ Len(r) = m /\ \A k \in 1..m : r[k] = q[k]
  OBVIOUS
<1>2. m \in Nat /\ Len(q) \in Nat /\ m <= Len(q)
  OBVIOUS
<1>3. x \in Nat /\ y \in Nat /\ x <= y
  BY <1>2, BlocksGrow
<1> HIDE DEF r, x, y
<1>4. ASSUME NEW p \in Nat
      PROVE  ValueAt(cs, r, p) = IF p < x THEN ValueAt(bk, q, p) ELSE 0
  <2> DEFINE k == 1 + (p \div BlockSize)
  <2>1. k \in Nat \ {0} /\ (k <= m <=> p < m * BlockSize)
    BY <1>2, PlaceIn
  <2>2. ByteAt(cs, r, p) = cs[r[k]].data[p % BlockSize]
        /\ ByteAt(bk, q, p) = bk[q[k]].data[p % BlockSize]
    BY DEF ByteAt
  <2> HIDE DEF k
  <2>3. ASSUME p < x PROVE ByteAt(cs, r, p) = ByteAt(bk, q, p)
    <3>1. k \in 1..m
      BY <1>2, <2>1, <2>3 DEF x
    <3> QED
      BY <1>1, <2>2, <3>1
  <2>4. ValueAt(cs, r, p) = IF p < x THEN ByteAt(cs, r, p) ELSE 0
    BY <1>1 DEF ValueAt, x
  <2>5. ValueAt(bk, q, p) = IF p < y THEN ByteAt(bk, q, p) ELSE 0
    BY DEF ValueAt, y
  <2> QED
    BY <1>3, <2>3, <2>4, <2>5
<1>5. ResizedValues(bk, q, cs, r, x)
  BY <1>4 DEF ResizedValues
<1> QED
  BY <1>5 DEF r, x

\* The values in front of len stay, up to the end of the first m blocks.
EndWiped(bk, q, cs, len, m) ==
  /\ \A p \in Nat : p < m * BlockSize =>
       ValueAt(cs, q, p) = IF p < len THEN ValueAt(bk, q, p) ELSE 0
  /\ \A p \in Nat : p < len => p < m * BlockSize

\* The values once the end of the block of the new last byte is zeroed.
LEMMA WipedValues ==
  ASSUME NEW bk \in [BlockId -> Block], NEW b, NEW q, Linked(bk, b, q),
         NEW len \in Nat \ {0}, len % BlockSize # 0,
         NEW bc, bc = 1 + ((len - 1) \div BlockSize), bc \in 1..Len(q)
  PROVE  EndWiped(bk, q, WipeData(bk, q[bc], len % BlockSize), len, bc)
<1> DEFINE from == len % BlockSize
           n == BlockSize - from
           cs == WipeData(bk, q[bc], from)
           x == bc * BlockSize
<1>1. bc = 1 + (len \div BlockSize)
  BY BlockOfLast
<1>2. from \in Offset /\ from \in Nat /\ n \in Nat /\ x \in Nat /\ len + n = x
  <2>1. LET c == 1 + (len \div BlockSize)
        IN  /\ c \in Nat \ {0} /\ len % BlockSize \in Offset
            /\ c * BlockSize \in Nat
            /\ len + (BlockSize - (len % BlockSize)) = c * BlockSize
    BY PositionInBlock
  <2> QED
    BY <1>1, <2>1, BlockSizeAssumption DEF Offset
<1>3. q \in Seq(BlockId) /\ Len(q) \in Nat
  BY LinkedLength
<1>4. len < Len(q) * BlockSize
  <2>1. 1 + (len \div BlockSize) <= Len(q)
    BY <1>1, <1>3
  <2> QED
    BY <1>3, <2>1, PlaceIn
<1>5. cs = PutBytes(bk, q[1 + (len \div BlockSize)], len % BlockSize, n, 0)
  <2>1. q[bc] \in BlockId
    BY <1>3
  <2>2. WipeData(bk, q[bc], from) = PutBytes(bk, q[bc], from, BlockSize - from, 0)
    <3> HIDE DEF from
    <3> QED
      BY <1>2, <2>1, WipePuts
  <2> QED
    BY <1>1, <2>2
<1> HIDE DEF n, cs
<1>6. n <= BlockSize - (len % BlockSize)
  BY <1>2 DEF n
<1>7. PutValues(bk, PutBytes(bk, q[1 + (len \div BlockSize)], len % BlockSize, n, 0), q, len, n, 0)
  BY <1>2, <1>4, <1>6, PutsValues
<1>8. \A p \in Nat : ValueAt(cs, q, p) = IF len <= p /\ p < len + n THEN 0 ELSE ValueAt(bk, q, p)
  BY <1>5, <1>7 DEF PutValues
<1> HIDE DEF x, from
<1>9. \A p \in Nat : p < x => ValueAt(cs, q, p) = IF p < len THEN ValueAt(bk, q, p) ELSE 0
  BY <1>2, <1>8
<1>10. \A p \in Nat : p < len => p < x
  BY <1>2
<1> QED
  BY <1>9, <1>10 DEF x, cs, from, EndWiped

\* Shrinking keeps what is in front of the new end.
LEMMA ShrinkCuts ==
  ASSUME NEW o \in SUBSET BlockId, NEW w \in BOOLEAN, w, NEW s, NEW q, Fits(s, q, o, w),
         NEW len \in Nat \ {0}, len % BlockSize # 0,
         NEW bc, bc = 1 + ((len - 1) \div BlockSize), Found(s, bc),
         NEW r, Fits(Shrink(s, len), r, o, w)
  PROVE  ResizedValues(s.blk, q, Shrink(s, len).blk, r, len)
<1> DEFINE cs == WipeData(s.blk, s.bl.id, len % BlockSize)
           t == [s EXCEPT !.blk = cs]
           list == t.e.list
           after == {k \in 2..Len(list) : list[k].id = s.bl.next}
           x == Min(after)
           tail == {list[x].id} \cup ToSet(Chain(t.blk, list[x].next))
           u == Shrink(s, len)
           end == bc * BlockSize
<1>1. /\ s \in Sess /\ s.blk \in [BlockId -> Block] /\ Linked(s.blk, s.e.first, q)
      /\ Listed(s.e.list, s.blk, q) /\ Whole(s.blk, s.e.list, q, o)
  BY SessTypes DEF Fits
<1>2. q \in Seq(BlockId) /\ Len(q) \in Nat
  BY <1>1, LinkedLength
<1>3. bc \in Nat \ {0} /\ len - 1 \in Nat /\ end \in Nat
  <2>1. bc \in Nat \ {0} /\ len - 1 \in Nat
    BY LastCovers
  <2> QED
    BY <2>1, BlockSizeAssumption
<1>4. bc \in 1..Len(q) /\ s.bl.id = q[bc] /\ s.bl.next = s.blk[q[bc]].next
      /\ bc \in 1..Len(s.e.list)
  <2>1. FoundAs(s, q, bc)
    BY <1>1, <1>3, FoundIn
  <2> QED
    BY <2>1 DEF FoundAs
<1>5. cs \in [BlockId -> Block] /\ OnlyData(s.blk, cs, Ids(q))
  <2>1. s.bl.id \in Ids(q) /\ s.bl.id \in BlockId
    BY <1>2, <1>4 DEF Ids
  <2> QED
    BY <1>1, <2>1, WipeDataIs
<1>6. /\ \A p \in Nat : p < end => ValueAt(cs, q, p) = IF p < len THEN ValueAt(s.blk, q, p) ELSE 0
      /\ \A p \in Nat : p < len => p < end
  <2>1. EndWiped(s.blk, q, WipeData(s.blk, q[bc], len % BlockSize), len, bc)
    BY <1>1, <1>4, WipedValues
  <2> QED
    BY <1>4, <2>1 DEF EndWiped
<1>7. u = CASE s.bl.next = 0 -> [t EXCEPT !.e.list = SubSeq(list, 1, 1)]
            [] s.bl.next # 0 /\ after = {} -> [t EXCEPT !.rc = "InternalError"]
            [] OTHER -> [t EXCEPT !.e.list = [SubSeq(list, 1, x - 1) EXCEPT ![x - 1].next = 0],
                                  !.blk = [Wipe(@, tail) EXCEPT ![list[x - 1].id].next = 0],
                                  !.hint = WipeHint(@, tail)]
  BY Zenon DEF Shrink
<1> HIDE DEF cs, u
<1>8. /\ t \in Sess /\ t.blk = cs /\ t.hint = s.hint /\ t.di = s.di /\ t.e = s.e /\ t.rc = s.rc
      /\ t.pos = s.pos /\ t.bl = s.bl
  BY <1>1, <1>5 DEF Sess
<1> HIDE DEF t
<1>9. Fits(t, q, o, w)
  BY <1>5, <1>8, FitsData
<1>10. Fits(u, r, o, w)
  BY DEF u
<1>11. CASE s.bl.next = 0
  <2>1. u = [t EXCEPT !.e.list = SubSeq(t.e.list, 1, 1)]
    BY <1>7, <1>11, Zenon
  <2>2. u.blk = cs /\ u.e.first = t.e.first /\ u \in Sess
    <3>1. t.e \in Entry /\ u \in Sess
      BY <1>8, <1>10, SessTypes DEF Fits
    <3> DEFINE e == [t.e EXCEPT !.list = SubSeq(t.e.list, 1, 1)]
    <3>2. u = [t EXCEPT !.e = e]
      BY <1>8, <2>1
    <3>3. e.first = t.e.first
      BY <3>1 DEF Entry
    <3> HIDE DEF e
    <3> QED
      BY <1>8, <3>1, <3>2, <3>3 DEF Sess
  <2>3. q = r
    <3>1. \A d \in BlockId : t.blk[d].next = u.blk[d].next
      BY <1>8, <2>2
    <3> QED
      BY <1>9, <1>10, <2>2, <3>1, FitsOnly
  <2>4. bc = Len(q)
    <3>1. SUFFICES ASSUME bc # Len(q) PROVE FALSE
      OBVIOUS
    <3>2. bc \in 1..Len(q) - 1 /\ bc + 1 \in 1..Len(q)
      BY <1>2, <1>4, <3>1
    <3>3. s.blk[q[bc]].next = q[bc + 1]
      BY <1>1, <3>2 DEF Linked
    <3> DEFINE g == bc + 1
    <3>6. g \in 1..Len(q)
      BY <3>2
    <3> HIDE DEF g
    <3>7. q[g] \in BlockId
      BY <1>2, <3>6
    <3>4. q[bc + 1] \in 1..NumBlocks
      BY <3>7 DEF g, BlockId
    <3>5. q[bc + 1] = 0
      BY <1>4, <1>11, <3>3
    <3> QED
      BY <3>4, <3>5, BlockCountAssumption
  <2>5. \A p \in Nat : ~(p < end) => ValueAt(cs, q, p) = 0
    BY <2>4 DEF ValueAt
  <2>6. \A p \in Nat : ValueAt(cs, q, p) = IF p < len THEN ValueAt(s.blk, q, p) ELSE 0
    <3> HIDE DEF end
    <3> QED
      BY <1>6, <2>5
  <2>7. ResizedValues(s.blk, q, u.blk, r, len)
    BY <2>2, <2>3, <2>6 DEF ResizedValues
  <2> QED
    BY <2>7 DEF u
<1>12. CASE s.bl.next # 0
  <2>1. LET a == {k \in 2..Len(s.e.list) : s.e.list[k].id = s.bl.next}
        IN  /\ bc + 1 \in 2..Len(q)
            /\ a # {} => Min(a) = bc + 1 /\ bc + 1 \in 2..Len(s.e.list)
    BY <1>3, <1>12, PlaceAfter
  <2>2. after # {}
    <3>1. Len(s.e.list) \in Nat /\ (s.e.list = <<>> => Len(s.e.list) = 0)
      BY <1>1, SessTypes
    <3>2. Len(s.e.list) = Len(q)
      BY <1>1, <1>4, <3>1 DEF Whole
    <3>3. bc + 1 \in 2..Len(s.e.list) /\ bc \in 1..Len(q) - 1 /\ bc + 1 \in 1..Len(s.e.list)
      BY <1>2, <1>3, <2>1, <3>2
    <3>4. s.e.list[bc + 1].id = q[bc + 1]
      BY <1>1, <3>3 DEF Listed
    <3>5. s.bl.next = q[bc + 1]
      BY <1>1, <1>4, <3>3 DEF Linked
    <3>6. bc + 1 \in {k \in 2..Len(s.e.list) : s.e.list[k].id = s.bl.next}
      BY <3>3, <3>4, <3>5
    <3> QED
      BY <1>8, <3>6
  <2>3. u = [t EXCEPT !.e.list = [SubSeq(list, 1, x - 1) EXCEPT ![x - 1].next = 0],
                      !.blk = [Wipe(@, tail) EXCEPT ![list[x - 1].id].next = 0],
                      !.hint = WipeHint(@, tail)]
    BY <1>7, <1>12, <2>2, Zenon
  <2>4. u = CutAt(t, tail, x)
    BY <2>3, Zenon DEF CutAt, Cut, CutBlocks
  <2>5. x = bc + 1 /\ x \in 2..Len(list)
    BY <1>8, <2>1, <2>2
  <2> HIDE DEF x, after
  <2>6. /\ Linked(t.blk, t.e.first, q) /\ Listed(list, t.blk, q)
    BY <1>9 DEF Fits
  <2>7. x \in 1..Len(list) /\ x \in 1..Len(q) /\ bc \in 1..Len(list) /\ x - 1 = bc
    BY <1>2, <1>3, <1>4, <1>8, <2>1, <2>5
  <2>8. list[x].id = q[x] /\ list[x].next = t.blk[q[x]].next /\ list[bc].id = q[bc]
    BY <2>6, <2>7 DEF Listed
  <2>9. tail = Rest(q, x)
    <3>1. {q[x]} \cup ToSet(Chain(t.blk, t.blk[q[x]].next)) = Rest(q, x)
      <4>1. t.blk \in [BlockId -> Block] /\ Linked(t.blk, t.e.first, q) /\ x \in 1..Len(q)
        BY <1>5, <1>8, <2>6, <2>7
      <4> QED
        BY <4>1, ChainBehind
    <3> QED
      BY <2>8, <3>1
  <2> HIDE DEF tail
  <2>10. CutSo(t, CutAt(t, Rest(q, x), x), q, o, w, x)
    <3>1. x \in 2..Len(t.e.list)
      BY <2>5
    <3> QED
      BY <1>9, <3>1, CutFits
  <2>11. Fits(u, SubSeq(q, 1, x - 1), o, w)
    BY <2>4, <2>9, <2>10 DEF CutSo
  <2>12. r = SubSeq(q, 1, bc)
    <3>1. /\ u.blk \in [BlockId -> Block] /\ u.e.first \in 0..NumBlocks
          /\ Linked(u.blk, u.e.first, r)
      BY <1>10, SessTypes DEF Fits
    <3>2. Linked(u.blk, u.e.first, SubSeq(q, 1, x - 1))
      BY <2>11 DEF Fits
    <3>3. SubSeq(q, 1, x - 1) = r
      BY <3>1, <3>2, LinkedOnly
    <3> QED
      BY <2>7, <3>3
  <2>13. u.blk = CutBlocks(cs, tail, q[bc])
    <3>1. u.blk = CutBlocks(t.blk, tail, t.e.list[x - 1].id)
      <4>1. u = [t EXCEPT !.e.list = Cut(t.e.list, x - 1),
                          !.blk = CutBlocks(t.blk, tail, t.e.list[x - 1].id),
                          !.hint = WipeHint(t.hint, tail)]
        BY <2>4 DEF CutAt
      <4> QED
        BY <1>8, <4>1 DEF Sess
    <3> QED
      BY <1>8, <2>7, <2>8, <3>1
  <2>14. ASSUME NEW k \in 1..bc PROVE u.blk[q[k]].data = cs[q[k]].data
    <3>1. k \in 1..Len(q) /\ q[k] \in BlockId /\ q[bc] \in BlockId
      BY <1>2, <1>4
    <3>2. q[k] \notin tail
      <4>1. SUFFICES ASSUME NEW l \in x..Len(q), q[k] = q[l] PROVE FALSE
        BY <2>9 DEF Rest
      <4>2. l \in 1..Len(q) /\ k < l
        BY <1>2, <1>3, <2>7
      <4>3. k = l
        BY <1>1, <3>1, <4>1, <4>2 DEF Linked
      <4> QED
        BY <1>3, <4>2, <4>3
    <3> DEFINE ws == Wipe(cs, tail)
    <3>3. ws \in [BlockId -> Block] /\ ws[q[k]] = cs[q[k]]
      BY <1>5, <3>1, <3>2, WipeIs
    <3> HIDE DEF ws
    <3>4. u.blk = [ws EXCEPT ![q[bc]].next = 0]
      BY <2>13 DEF CutBlocks, ws
    <3>5. 0 \in 0..NumBlocks
      BY BlockCountAssumption
    <3>6. u.blk[q[k]].data = ws[q[k]].data
      <4> DEFINE c == q[bc]
                 m == 0
      <4>1. c \in BlockId /\ m \in 0..NumBlocks /\ u.blk = [ws EXCEPT ![c].next = m]
        BY <3>1, <3>4, <3>5
      <4> HIDE DEF c, m
      <4>2. \A d \in BlockId : u.blk[d].used = ws[d].used /\ u.blk[d].data = ws[d].data
        BY <3>3, <4>1, SetNext
      <4> QED
        BY <3>1, <4>2
    <3> QED
      BY <3>3, <3>6
  <2>15. ResizedValues(cs, q, u.blk, SubSeq(q, 1, bc), end)
    BY <1>2, <1>4, <1>5, <2>14, CutValues
  <2>16. \A p \in Nat : ValueAt(u.blk, r, p) = IF p < len THEN ValueAt(s.blk, q, p) ELSE 0
    <3> HIDE DEF end
    <3> QED
      BY <1>6, <2>12, <2>15 DEF ResizedValues
  <2>17. ResizedValues(s.blk, q, u.blk, r, len)
    BY <2>16 DEF ResizedValues
  <2> QED
    BY <2>17 DEF u
<1> QED
  BY <1>11, <1>12

\* Behind z there are only zeroes.
ZeroFrom(bk, q, z) == \A p \in Nat : p >= z => ValueAt(bk, q, p) = 0

\* A truncation of SafeTruncate that shrinks a file does not end it with a block.
EndsInside(s, len) == len # 0 /\ len < s.e.size => len % BlockSize # 0

LEMMA SizedSame ==
  ASSUME NEW o \in SUBSET BlockId, NEW w \in BOOLEAN, NEW s, NEW q, Fits(s, q, o, w),
         NEW len \in 0..MaxSize
  PROVE  LET t == Sized(s, len)
         IN  Fits(t, q, o, w) /\ t.rc = s.rc /\ t.blk = s.blk
<1> DEFINE t == Sized(s, len)
<1>1. /\ Fits(t, q, o, w) /\ t.rc = s.rc /\ t.blk = s.blk /\ t.pos = s.pos
      /\ t.e = [s.e EXCEPT !.size = len]
      /\ t.di = [used |-> TRUE, size |-> len, first |-> s.e.first]
  BY SizedFits
<1> QED
  BY <1>1

\* Truncating keeps what is in front of the new end; what is added is zero.
LEMMA TruncResizes ==
  ASSUME NEW o \in SUBSET BlockId, NEW w \in BOOLEAN, w, NEW s, NEW q, Fits(s, q, o, w),
         s.rc = "OK", ZeroFrom(s.blk, q, s.e.size),
         NEW len \in 0..MaxSize, Spares(s, len, w), EndsInside(s, len),
         NEW r, Fits(Trunc(s, len), r, o, w)
  PROVE  ResizedValues(s.blk, q, Trunc(s, len).blk, r, len)
<1> DEFINE empty == FlushInode([s EXCEPT !.e.list = <<>>, !.e.first = 0, !.e.size = 0])
           f == Reached(s, len)
           t == Trunc(s, len)
<1>1. t = CASE len = s.e.size -> s
            [] len = 0 /\ len # s.e.size -> empty
            [] len # 0 /\ len < s.e.size /\ f.rc = "OK" -> Shrink(f, len)
            [] OTHER -> f
  BY Zenon DEF Trunc, Reached, Sized
<1>2. /\ s \in Sess /\ s.e.size \in Nat /\ len \in Nat /\ s.e \in Entry
      /\ s.blk \in [BlockId -> Block] /\ s.e.first \in 0..NumBlocks
      /\ Linked(s.blk, s.e.first, q)
  BY SessTypes, MaxSizeIs DEF Fits
<1>3. Fits(t, r, o, w)
  OBVIOUS
<1>4. t \in Sess /\ Linked(t.blk, t.e.first, r)
  BY <1>3 DEF Fits
<1> HIDE DEF t, empty
<1>5. CASE len = s.e.size
  <2>1. t = s
    <3>1. ~(len = 0 /\ len # s.e.size) /\ ~(len # 0 /\ len < s.e.size /\ f.rc = "OK")
      BY <1>2, <1>5
    <3> HIDE DEF f
    <3> QED
      BY <1>1, <1>5, <3>1, Zenon
  <2>2. q = r
    BY <1>2, <1>4, <2>1, LinkedOnly
  <2>3. \A p \in Nat : ~(p < len) => ValueAt(s.blk, q, p) = 0
    BY <1>2, <1>5 DEF ZeroFrom
  <2>4. ResizedValues(s.blk, q, t.blk, r, len)
    BY <2>1, <2>2, <2>3 DEF ResizedValues
  <2> QED
    BY <2>4 DEF t
<1>6. CASE len = 0 /\ len # s.e.size
  <2> HIDE DEF f
  <2>1. ~(len = s.e.size) /\ ~(len # 0 /\ len < s.e.size /\ f.rc = "OK")
    BY <1>6
  <2>2. t = empty
    BY <1>1, <1>6, <2>1, Zenon
  <2>3. t.e.first = 0
    <3> DEFINE e == [s.e EXCEPT !.list = <<>>, !.first = 0, !.size = 0]
    <3>1. e.first = 0
      BY <1>2 DEF Entry
    <3>2. t = FlushInode([s EXCEPT !.e = e])
      BY <1>2, <2>2 DEF empty
    <3> HIDE DEF e
    <3>3. t.e = e
      BY <1>2, <3>2 DEF FlushInode, Sess
    <3> QED
      BY <3>1, <3>3
  <2>4. r = <<>>
    <3>1. SUFFICES ASSUME r # <<>> PROVE FALSE
      OBVIOUS
    <3>2. r \in Seq(BlockId) /\ r[1] = 0 /\ 1 \in 1..Len(r)
      BY <1>4, <2>3, <3>1 DEF Linked
    <3>3. r[1] \in BlockId
      BY <3>2
    <3> QED
      BY <3>2, <3>3 DEF BlockId
  <2>5. \A p \in Nat : ValueAt(t.blk, r, p) = 0
    <3> SUFFICES ASSUME NEW p \in Nat PROVE ValueAt(t.blk, r, p) = 0
      OBVIOUS
    <3>1. Len(r) * BlockSize = 0
      BY <2>4, BlockSizeAssumption
    <3> QED
      BY <3>1 DEF ValueAt
  <2>6. \A p \in Nat : ~(p < len)
    BY <1>6
  <2>7. ResizedValues(s.blk, q, t.blk, r, len)
    BY <2>5, <2>6 DEF ResizedValues
  <2> QED
    BY <2>7 DEF t
<1>7. CASE len # 0 /\ len # s.e.size
  <2> DEFINE bc == 1 + ((len - 1) \div BlockSize)
             z == Sized(s, len)
  <2>1. Fits(z, q, o, w) /\ z.rc = "OK" /\ z.blk = s.blk
    BY SizedSame
  <2> HIDE DEF z
  <2>2. bc \in Nat \ {0} /\ len - 1 \in Nat /\ len \in Nat \ {0}
    BY <1>2, <1>7, LastCovers
  <2>3. PICK x : /\ Fits(f, x, o, w) /\ Extends(q, x) /\ Grows(z, f, o)
                 /\ f.rc = "OK" => Found(f, bc)
    <3>1. \E y : /\ Fits(BlockForPos(z, len - 1, TRUE), y, o, w) /\ Extends(q, y)
                 /\ Grows(z, BlockForPos(z, len - 1, TRUE), o)
                 /\ BlockForPos(z, len - 1, TRUE).rc \in {"OK", "RangeError", "FSFull", "Assert"}
                 /\ BlockForPos(z, len - 1, TRUE).rc = "OK" =>
                       Found(BlockForPos(z, len - 1, TRUE), bc)
                 /\ BlockForPos(z, len - 1, TRUE).rc = "FSFull" =>
                       AllUsed(BlockForPos(z, len - 1, TRUE))
                 /\ BlockForPos(z, len - 1, TRUE).rc = "RangeError" => bc > NumBlocks
      BY <2>1, <2>2, ReachesBlock
    <3> QED
      BY <3>1 DEF Reached, z
  <2> HIDE DEF f
  <2>4. f.rc = "OK"
    BY <1>7 DEF Spares, f
  <2>5. SameValues(z.blk, q, f.blk, x)
    BY <2>1, <2>3, GrowsSame
  <2>6. \A p \in Nat : ValueAt(f.blk, x, p) = ValueAt(s.blk, q, p)
    BY <2>1, <2>5 DEF SameValues
  <2>7. CASE len < s.e.size
    <3>1. ~(len = s.e.size) /\ ~(len = 0 /\ len # s.e.size)
      BY <1>7
    <3>2. t = Shrink(f, len)
      BY <1>1, <1>7, <2>4, <2>7, <3>1, Zenon
    <3>3. len % BlockSize # 0
      BY <1>7, <2>7 DEF EndsInside
    <3>4. Fits(Shrink(f, len), r, o, w)
      BY <1>3, <3>2
    <3>5. Found(f, bc) /\ Fits(f, x, o, w)
      BY <2>3, <2>4
    <3>6. ResizedValues(f.blk, x, Shrink(f, len).blk, r, len)
      BY <2>2, <3>3, <3>4, <3>5, ShrinkCuts
    <3>7. ResizedValues(s.blk, q, t.blk, r, len)
      BY <2>6, <3>2, <3>6 DEF ResizedValues
    <3> QED
      BY <3>7 DEF t
  <2>8. CASE ~(len < s.e.size)
    <3>1. ~(len = s.e.size) /\ ~(len = 0 /\ len # s.e.size)
          /\ ~(len # 0 /\ len < s.e.size /\ f.rc = "OK")
      BY <1>7, <2>8
    <3>2. t = f
      BY <1>1, <3>1, Zenon
    <3>3. r = x
      <4>1. /\ f.blk \in [BlockId -> Block] /\ f.e.first \in 0..NumBlocks
            /\ Linked(f.blk, f.e.first, x)
        BY <2>3, SessTypes DEF Fits
      <4>2. Linked(f.blk, f.e.first, r)
        BY <1>4, <3>2
      <4> QED
        BY <4>1, <4>2, LinkedOnly
    <3>4. \A p \in Nat : ~(p < len) => ValueAt(s.blk, q, p) = 0
      BY <1>2, <2>8 DEF ZeroFrom
    <3>5. ResizedValues(s.blk, q, t.blk, r, len)
      BY <2>6, <3>2, <3>3, <3>4 DEF ResizedValues
    <3> QED
      BY <3>5 DEF t
  <2> QED
    BY <2>7, <2>8
<1> QED
  BY <1>5, <1>6, <1>7

-----------------------------------------------------------------------------
(***************************************************************************)
(* The files of a state.                                                   *)
(***************************************************************************)

\* Behind the end of a file its blocks are zero: what a growing file gets there.
Zeroed == \A i \in Inode : ZeroFrom(blk, ChainOf(i), EntryOf(i).size)

HasBytes(c, bk, q, z) ==
  /\ c \in Seq(Byte) /\ Len(c) = z
  /\ \A k \in 1..z : c[k] = ValueAt(bk, q, k - 1)

\* What the invariant says of a file.
DescribedFile(i) ==
  /\ EntryOf(i).first \in 0..NumBlocks /\ EntryOf(i).first = inode[i].first
  /\ Linked(blk, EntryOf(i).first, ChainOf(i))
  /\ EntryOf(i).size \in 0..MaxSize
  /\ HasBytes(Content(i), blk, ChainOf(i), EntryOf(i).size)

Described == TypeOK /\ \A i \in Inode : DescribedFile(i)

LEMMA EntryFirst ==
  ASSUME NEW Q, Good(Q, TRUE), NEW i \in Inode
  PROVE  EntryOf(i).first = inode[i].first
<1>1. CASE IsOpened(i)
  BY <1>1 DEF EntryOf, Good, Entries
<1>2. CASE ~IsOpened(i)
  <2>1. EntryOf(i) = [NotOpened EXCEPT !.size = inode[i].size, !.first = inode[i].first]
    BY <1>2 DEF EntryOf
  <2> QED
    BY <2>1 DEF NotOpened
<1> QED
  BY <1>1, <1>2

\* Bytes that were read from the start are the values there.
LEMMA OutBytes ==
  ASSUME NEW c, NEW bk, NEW q, NEW z \in Nat, OutIs(c, bk, q, 0, z), z <= Len(q) * BlockSize,
         Len(q) \in Nat
  PROVE  HasBytes(c, bk, q, z)
<1>1. c \in Seq(Byte) /\ Len(c) = z
  BY DEF OutIs
<1>2. ASSUME NEW k \in 1..z PROVE c[k] = ValueAt(bk, q, k - 1)
  <2> DEFINE l == k - 1
             x == Len(q) * BlockSize
  <2>1. l \in 0..(z - 0) - 1 /\ l + 1 = k /\ 0 + l = l
    OBVIOUS
  <2>2. x \in Nat
    BY BlocksGrow
  <2> HIDE DEF l, x
  <2>3. c[l + 1] = ByteAt(bk, q, 0 + l)
    BY <2>1 DEF OutIs
  <2>4. l < x
    BY <2>1, <2>2 DEF x
  <2>5. ValueAt(bk, q, l) = ByteAt(bk, q, l)
    BY <2>4 DEF ValueAt, x
  <2> QED
    BY <2>1, <2>3, <2>5 DEF l
<1> QED
  BY <1>1, <1>2 DEF HasBytes

LEMMA DescribedIs == Inv(TRUE) => Described
<1> SUFFICES ASSUME Inv(TRUE) PROVE Described
  OBVIOUS
<1>1. PICK Q : Good(Q, TRUE)
  BY DEF Inv, Sound
<1>2. TypeOK
  BY <1>1 DEF Good
<1>3. ASSUME NEW i \in Inode PROVE DescribedFile(i)
  <2>1. EntryOf(i).first = inode[i].first /\ inode[i].first \in 0..NumBlocks
    BY <1>1, <1>2, EntryFirst DEF TypeOK, DiskInode
  <2>2. ChainOf(i) = Q[i] /\ Len(Q[i]) \in Nat /\ Linked(blk, inode[i].first, Q[i])
    <3> DEFINE w == TRUE
    <3>1. w \in BOOLEAN /\ Good(Q, w)
      BY <1>1
    <3> HIDE DEF w
    <3> QED
      BY <3>1, ChainOfIs
  <2> DEFINE z == EntryOf(i).size
  <2>3. z \in Nat /\ z <= Len(Q[i]) * BlockSize /\ z <= MaxSize
    BY <1>1, EntrySize
  <2>4. OutIs(Content(i), blk, Q[i], 0, z)
    BY <1>1, ContentIs
  <2> DEFINE q == Q[i]
  <2> HIDE DEF z, q
  <2>5. HasBytes(Content(i), blk, q, z)
    BY <2>2, <2>3, <2>4, OutBytes DEF q
  <2>6. z \in 0..MaxSize
    BY <2>3, MaxSizeIs
  <2> QED
    BY <2>1, <2>2, <2>5, <2>6 DEF DescribedFile, q, z
<1> QED
  BY <1>2, <1>3 DEF Described

LEMMA DescribedNext == Inv(TRUE)' => Described'
BY DescribedIs, PTL

LEMMA SameBytes ==
  ASSUME NEW c, NEW bk, NEW q, NEW d, NEW cs, NEW r, NEW z \in Nat, HasBytes(c, bk, q, z),
         HasBytes(d, cs, r, z), \A p \in Nat : p < z => ValueAt(cs, r, p) = ValueAt(bk, q, p)
  PROVE  d = c
<1>1. c \in Seq(Byte) /\ Len(c) = z /\ d \in Seq(Byte) /\ Len(d) = z
  BY DEF HasBytes
<1>2. ASSUME NEW k \in 1..z PROVE d[k] = c[k]
  <2>1. k - 1 \in Nat /\ k - 1 < z
    OBVIOUS
  <2>2. c[k] = ValueAt(bk, q, k - 1) /\ d[k] = ValueAt(cs, r, k - 1)
    BY DEF HasBytes
  <2> QED
    BY <2>1, <2>2
<1> QED
  BY <1>1, <1>2

\* The bytes at the positions from pos on are v, the others as before.
Put(bk, q, cs, r, pos, n, v) ==
  \A p \in Nat : ValueAt(cs, r, p) = IF pos <= p /\ p < pos + n THEN v ELSE ValueAt(bk, q, p)

LEMMA PutBytesSeen ==
  ASSUME NEW c, NEW bk, NEW q, NEW z \in Nat, HasBytes(c, bk, q, z), ZeroFrom(bk, q, z),
         NEW pos \in Nat, NEW n \in Nat, NEW v, NEW d, NEW cs, NEW r,
         HasBytes(d, cs, r, IF n > 0 /\ pos + n > z THEN pos + n ELSE z),
         Put(bk, q, cs, r, pos, n, v)
  PROVE  d = Files!Overwritten(c, pos, n, v)
<1> DEFINE y == IF n > 0 /\ pos + n > z THEN pos + n ELSE z
           m == Files!Overwritten(c, pos, n, v)
<1>1. c \in Seq(Byte) /\ Len(c) = z /\ d \in Seq(Byte) /\ Len(d) = y /\ y \in Nat
  BY DEF HasBytes
<1>2. m = [k \in 1..y |-> IF k \in pos + 1..pos + n THEN v ELSE IF k <= z THEN c[k] ELSE 0]
  BY <1>1 DEF Files!Overwritten
<1>3. \A k \in 1..y : d[k] = ValueAt(cs, r, k - 1)
  BY DEF HasBytes
<1> HIDE DEF y, m
<1>4. ASSUME NEW k \in 1..y
      PROVE  d[k] = IF k \in pos + 1..pos + n THEN v ELSE IF k <= z THEN c[k] ELSE 0
  <2> DEFINE l == k - 1
  <2>1. l \in Nat /\ (k \in pos + 1..pos + n <=> (pos <= l /\ l < pos + n))
        /\ (k <= z <=> ~(l >= z)) /\ k \in Nat /\ k >= 1
    BY <1>1
  <2> HIDE DEF l
  <2>2. d[k] = ValueAt(cs, r, l)
    BY <1>3 DEF l
  <2>3. ValueAt(cs, r, l) = IF pos <= l /\ l < pos + n THEN v ELSE ValueAt(bk, q, l)
    BY <2>1 DEF Put
  <2>4. k <= z => c[k] = ValueAt(bk, q, l)
    BY <2>1 DEF HasBytes, l
  <2>5. l >= z => ValueAt(bk, q, l) = 0
    BY <2>1 DEF ZeroFrom
  <2> QED
    BY <2>1, <2>2, <2>3, <2>4, <2>5
<1>5. d = [k \in 1..y |-> d[k]]
  BY <1>1
<1>6. d = m
  BY <1>2, <1>4, <1>5
<1> QED
  BY <1>6 DEF m

LEMMA ResizedSeen ==
  ASSUME NEW c, NEW bk, NEW q, NEW z \in Nat, HasBytes(c, bk, q, z), ZeroFrom(bk, q, z),
         NEW len \in Nat, NEW d, NEW cs, NEW r, HasBytes(d, cs, r, len),
         ResizedValues(bk, q, cs, r, len)
  PROVE  d = Files!Resized(c, len)
<1> DEFINE m == Files!Resized(c, len)
<1>1. c \in Seq(Byte) /\ Len(c) = z /\ d \in Seq(Byte) /\ Len(d) = len
  BY DEF HasBytes
<1>2. m = [k \in 1..len |-> IF k <= z THEN c[k] ELSE 0]
  BY <1>1 DEF Files!Resized
<1> HIDE DEF m
<1>3. ASSUME NEW k \in 1..len PROVE d[k] = IF k <= z THEN c[k] ELSE 0
  <2> DEFINE l == k - 1
  <2>1. l \in Nat /\ l < len /\ (k <= z <=> ~(l >= z)) /\ k \in Nat /\ k >= 1
    BY <1>1
  <2> HIDE DEF l
  <2>2. d[k] = ValueAt(cs, r, l)
    BY DEF l, HasBytes
  <2>3. ValueAt(cs, r, l) = ValueAt(bk, q, l)
    BY <2>1 DEF ResizedValues
  <2>4. k <= z => c[k] = ValueAt(bk, q, l)
    BY <2>1 DEF HasBytes, l
  <2>5. l >= z => ValueAt(bk, q, l) = 0
    BY <2>1 DEF ZeroFrom
  <2> QED
    BY <2>1, <2>2, <2>3, <2>4, <2>5
<1>4. d = [k \in 1..len |-> d[k]]
  BY <1>1
<1>5. d = m
  BY <1>2, <1>3, <1>4
<1> QED
  BY <1>5 DEF m

-----------------------------------------------------------------------------
(***************************************************************************)
(* Files that a step leaves as they are.                                   *)
(***************************************************************************)

\* The content stays, and the bytes behind it are zero.
FileKept(i) == Content(i)' = Content(i) /\ ZeroFrom(blk, ChainOf(i), EntryOf(i).size)'

SameEntry(i) == EntryOf(i).first' = EntryOf(i).first /\ EntryOf(i).size' = EntryOf(i).size

LEMMA BlocksKept ==
  ASSUME Zeroed, blk' = blk, NEW i \in Inode, SameEntry(i)
  PROVE  FileKept(i)
<1>1. ChainOf(i)' = ChainOf(i)
  BY DEF ChainOf, SameEntry
<1>2. Content(i)' = Content(i)
  BY <1>1 DEF Content, SameEntry
<1>3. ZeroFrom(blk, ChainOf(i), EntryOf(i).size)
  BY DEF Zeroed
<1>4. ZeroFrom(blk', ChainOf(i)', EntryOf(i).size')
  BY <1>1, <1>3 DEF SameEntry
<1> QED
  BY <1>2, <1>4 DEF FileKept

\* The blocks of a chain that do not change have the same values.
LEMMA SameBlocks ==
  ASSUME NEW bk, NEW b, NEW q, Linked(bk, b, q), NEW cs, \A d \in Ids(q) : cs[d] = bk[d]
  PROVE  Linked(cs, b, q) /\ SameValues(bk, q, cs, q)
<1>1. Linked(cs, b, q)
  BY LinkedStays
<1>2. ASSUME NEW p \in Nat PROVE ValueAt(cs, q, p) = ValueAt(bk, q, p)
  <2> DEFINE k == 1 + (p \div BlockSize)
             x == Len(q) * BlockSize
  <2>1. Len(q) \in Nat
    BY LinkedLength
  <2>2. k \in Nat \ {0} /\ (k <= Len(q) <=> p < Len(q) * BlockSize)
    BY <2>1, PlaceIn
  <2>3. ByteAt(cs, q, p) = cs[q[k]].data[p % BlockSize]
        /\ ByteAt(bk, q, p) = bk[q[k]].data[p % BlockSize]
    BY DEF ByteAt
  <2> HIDE DEF k, x
  <2>4. p < x => ByteAt(cs, q, p) = ByteAt(bk, q, p)
    <3>1. SUFFICES ASSUME p < x PROVE ByteAt(cs, q, p) = ByteAt(bk, q, p)
      OBVIOUS
    <3>2. k \in 1..Len(q)
      BY <2>1, <2>2, <3>1 DEF x
    <3>3. q[k] \in Ids(q)
      BY <3>2 DEF Ids
    <3> QED
      BY <2>3, <3>3
  <2> QED
    BY <2>4 DEF ValueAt, x
<1> QED
  BY <1>1, <1>2 DEF SameValues

LEMMA ChainKept ==
  ASSUME Described, Described', Zeroed, NEW i \in Inode, SameEntry(i),
         \A d \in Ids(ChainOf(i)) : blk'[d] = blk[d]
  PROVE  FileKept(i)
<1> DEFINE q == ChainOf(i)
           z == EntryOf(i).size
           b == EntryOf(i).first
           r == ChainOf(i)'
<1>1. /\ b \in 0..NumBlocks /\ Linked(blk, b, q) /\ z \in 0..MaxSize
      /\ HasBytes(Content(i), blk, q, z)
  BY DEF Described, DescribedFile
<1>2. /\ blk' \in [BlockId -> Block] /\ Linked(blk', EntryOf(i).first', r)
      /\ HasBytes(Content(i)', blk', r, EntryOf(i).size')
  BY DEF Described, DescribedFile, TypeOK
<1>3. EntryOf(i).first' = b /\ EntryOf(i).size' = z
  BY DEF SameEntry
<1>4. ZeroFrom(blk, q, z)
  BY DEF Zeroed
<1>5. Linked(blk', b, q) /\ SameValues(blk, q, blk', q)
  <2>1. \A d \in Ids(q) : blk'[d] = blk[d]
    OBVIOUS
  <2> HIDE DEF q, b
  <2> QED
    BY <1>1, <2>1, SameBlocks
<1> DEFINE x == Content(i)
           y == Content(i)'
<1>6. HasBytes(x, blk, q, z) /\ HasBytes(y, blk', r, z) /\ Linked(blk', b, r)
  BY <1>1, <1>2, <1>3
<1>7. x = Content(i) /\ y = Content(i)' /\ r = ChainOf(i)'
  OBVIOUS
<1> HIDE DEF q, z, b, r, x, y
<1>8. q = r
  BY <1>1, <1>2, <1>5, <1>6, LinkedOnly
<1>9. z \in Nat /\ \A p \in Nat : ValueAt(blk', r, p) = ValueAt(blk, q, p)
  BY <1>1, <1>5, <1>8, MaxSizeIs DEF SameValues
<1>10. y = x
  BY <1>6, <1>9, SameBytes
<1>11. ZeroFrom(blk', r, z)
  BY <1>4, <1>9 DEF ZeroFrom
<1>12. ZeroFrom(blk', ChainOf(i)', EntryOf(i).size')
  BY <1>3, <1>7, <1>11
<1> QED
  BY <1>7, <1>10, <1>12 DEF FileKept

-----------------------------------------------------------------------------
(***************************************************************************)
(* What clients see of a step.                                             *)
(***************************************************************************)

FileStep == [Files!FilesNext]_<<ClientFiles, ClientDevs>> /\ Zeroed'

Remains(i) == FileKept(i) /\ inode'[i].used = inode[i].used

LEMMA AllRemain ==
  ASSUME \A j \in Inode : Remains(j)
  PROVE  ClientFiles' = ClientFiles /\ Zeroed'
<1>1. ASSUME NEW j \in Inode
      PROVE  /\ (IF inode'[j].used THEN Content(j)' ELSE NoHandle)
                  = IF inode[j].used THEN Content(j) ELSE NoHandle
             /\ ZeroFrom(blk', ChainOf(j)', EntryOf(j).size')
  BY DEF Remains, FileKept
<1>2. ClientFiles' = ClientFiles
  BY <1>1 DEF ClientFiles
<1>3. Zeroed'
  BY <1>1 DEF Zeroed
<1> QED
  BY <1>2, <1>3

\* What a client sees of the file i after a step.
SeenNext(i) == IF inode'[i].used THEN Content(i)' ELSE NoHandle

LEMMA OthersRemain ==
  ASSUME NEW i \in Inode, \A j \in Inode \ {i} : Remains(j),
         ZeroFrom(blk', ChainOf(i)', EntryOf(i).size')
  PROVE  ClientFiles' = [ClientFiles EXCEPT ![i] = SeenNext(i)] /\ Zeroed'
<1>1. ASSUME NEW j \in Inode \ {i}
      PROVE  /\ (IF inode'[j].used THEN Content(j)' ELSE NoHandle)
                  = IF inode[j].used THEN Content(j) ELSE NoHandle
             /\ ZeroFrom(blk', ChainOf(j)', EntryOf(j).size')
  BY DEF Remains, FileKept
<1>2. ClientFiles' = [ClientFiles EXCEPT ![i] = SeenNext(i)]
  <2>1. ClientFiles' = [j \in Inode |-> IF inode'[j].used THEN Content(j)' ELSE NoHandle]
    BY DEF ClientFiles
  <2>2. ClientFiles = [j \in Inode |-> IF inode[j].used THEN Content(j) ELSE NoHandle]
    BY DEF ClientFiles
  <2>3. ASSUME NEW j \in Inode
        PROVE  ClientFiles'[j] = [ClientFiles EXCEPT ![i] = SeenNext(i)][j]
    BY <1>1, <2>1, <2>2 DEF SeenNext
  <2> QED
    BY <2>1, <2>2, <2>3
<1>3. Zeroed'
  <2> SUFFICES ASSUME NEW j \in Inode PROVE ZeroFrom(blk', ChainOf(j)', EntryOf(j).size')
    BY DEF Zeroed
  <2>1. CASE j = i
    BY <2>1
  <2>2. CASE j # i
    BY <1>1, <2>2
  <2> QED
    BY <2>1, <2>2
<1> QED
  BY <1>2, <1>3

Cursor(d) == [file |-> d.ino, rw |-> d.rw, pos |-> d.pos]

LEMMA ClientDevice ==
  ASSUME dev \in [Handle -> Device \cup {NoDev}], NEW h \in Handle, NEW d,
         dev' = [dev EXCEPT ![h] = d]
  PROVE  ClientDevs' = [ClientDevs EXCEPT ![h] = Cursor(d)]
BY DEF ClientDevs, Cursor

LEMMA ClientCursor ==
  ASSUME dev \in [Handle -> Device \cup {NoDev}], NEW h \in Handle
  PROVE  /\ ClientDevs[h] = Cursor(dev[h])
         /\ ClientDevs[h].file = dev[h].ino /\ ClientDevs[h].rw = dev[h].rw
         /\ ClientDevs[h].pos = dev[h].pos
         /\ ClientDevs[h] = Files!NoCursor <=> dev[h] = NoDev
<1>1. ClientDevs[h] = Cursor(dev[h])
  BY DEF ClientDevs, Cursor
<1>2. CASE dev[h] = NoDev
  BY <1>1, <1>2 DEF NoDev, Files!NoCursor, Cursor
<1>3. CASE dev[h] # NoDev
  <2>1. dev[h] \in Device
    BY <1>3
  <2>2. dev[h].ino # 0
    BY <2>1 DEF Device, Inode
  <2>3. ClientDevs[h] # Files!NoCursor
    BY <1>1, <2>2 DEF Cursor, Files!NoCursor
  <2> QED
    BY <1>1, <1>3, <2>3 DEF Cursor
<1> QED
  BY <1>2, <1>3, <1>1 DEF Cursor

LEMMA ClientMoves ==
  ASSUME dev \in [Handle -> Device \cup {NoDev}], NEW h \in Handle, dev[h] # NoDev, NEW p,
         dev' = [dev EXCEPT ![h].pos = p]
  PROVE  ClientDevs' = [ClientDevs EXCEPT ![h].pos = p]
<1> DEFINE d == [dev[h] EXCEPT !.pos = p]
<1>1. dev' = [dev EXCEPT ![h] = d]
  OBVIOUS
<1>2. dev[h] \in Device
  OBVIOUS
<1>3. Cursor(d) = [file |-> dev[h].ino, rw |-> dev[h].rw, pos |-> p]
  BY <1>2 DEF Cursor, Device
<1> HIDE DEF d
<1>4. ClientDevs' = [ClientDevs EXCEPT ![h] = Cursor(d)]
  BY <1>1, ClientDevice
<1>5. [ClientDevs[h] EXCEPT !.pos = p] = Cursor(d)
  <2>1. ClientDevs[h] = Cursor(dev[h])
    BY ClientCursor
  <2> QED
    BY <1>3, <2>1 DEF Cursor
<1>6. [ClientDevs EXCEPT ![h].pos = p] = [ClientDevs EXCEPT ![h] = Cursor(d)]
  BY <1>5
<1> QED
  BY <1>4, <1>6

LEMMA CursorMoves ==
  ASSUME dev \in [Handle -> Device \cup {NoDev}], NEW h \in Handle, dev[h] # NoDev,
         NEW p \in 0..MaxSize, dev' = [dev EXCEPT ![h].pos = p], \A j \in Inode : Remains(j)
  PROVE  FileStep
<1>1. ClientFiles' = ClientFiles /\ Zeroed'
  BY AllRemain
<1>2. ClientDevs' = [ClientDevs EXCEPT ![h].pos = p]
  BY ClientMoves
<1>3. ClientDevs[h] # Files!NoCursor
  BY ClientCursor
<1>4. Files!MoveCursor(h, p)
  BY <1>1, <1>2, <1>3 DEF Files!MoveCursor
<1>5. Files!FilesNext
  BY <1>4 DEF Files!FilesNext
<1> QED
  BY <1>1, <1>5 DEF FileStep

LEMMA EntryStays ==
  ASSUME NEW j, opened'[j] = opened[j], inode'[j] = inode[j]
  PROVE  SameEntry(j)
BY DEF EntryOf, IsOpened, SameEntry

LEMMA EntryNext ==
  ASSUME NEW i, opened'[i].count > 0
  PROVE  EntryOf(i)' = opened'[i]
BY DEF EntryOf, IsOpened

-----------------------------------------------------------------------------
(***************************************************************************)
(* Moving, reading and writing.                                            *)
(***************************************************************************)

LEMMA InvTypes ==
  ASSUME Inv(TRUE)
  PROVE  TypeOK
BY DEF Inv, Sound, Good

LEMMA SeekFiles ==
  ASSUME Inv(TRUE), Zeroed, NEW h \in Handle, NEW p \in SeekPos, Seek(h, p)
  PROVE  FileStep
<1>1. TypeOK /\ p \in 0..MaxSize
  BY InvTypes, MaxSizeIs
<1>2. /\ dev[h] # NoDev /\ dev' = [dev EXCEPT ![h].pos = p] /\ blk' = blk /\ inode' = inode
      /\ opened' = opened
  BY DEF Seek
<1>3. ASSUME NEW j \in Inode PROVE Remains(j)
  <2>1. SameEntry(j)
    BY <1>2, EntryStays
  <2> QED
    BY <1>2, <2>1, BlocksKept DEF Remains
<1>4. dev \in [Handle -> Device \cup {NoDev}]
  BY <1>1 DEF TypeOK
<1> QED
  BY <1>1, <1>2, <1>3, <1>4, CursorMoves

LEMMA ReadFiles ==
  ASSUME Inv(TRUE), Zeroed, NEW h \in Handle, NEW n \in IoLen, Read(h, n)
  PROVE  FileStep
<1> DEFINE s == Session(dev[h].ino, dev[h].pos, n, 0)
           t == Repeat(ReadChunk, s, n)
           w == TRUE
<1>1. dev[h] # NoDev /\ Commit(h, t)
  BY DEF Read
<1>2. n \in 0..MaxSize /\ n \in Nat
  BY MaxSizeIs, MaxPosAssumption
<1>3. TypeOK /\ w \in BOOLEAN /\ Inv(w) /\ Shown!Inv
  BY InvTypes DEF Inv
<1> HIDE DEF w
<1>4. PICK i \in Inode : i = dev[h].ino
  BY <1>1, <1>3, OpenDevice
<1>5. PICK Q : Good(Q, w) /\ Fits(s, Q[i], Others(Q, i), w) /\ Others(Q, i) \in SUBSET BlockId
  BY <1>1, <1>2, <1>3, <1>4, CallStarts, ByteAssumption
<1>6. s.blk = blk /\ s.di = inode[i] /\ s.e = opened[i] /\ s.rc = "OK"
  BY <1>4, SessionIs
<1> HIDE DEF s
<1>7. Fits(t, Q[i], Others(Q, i), w) /\ OnlyRead(s, t)
  BY <1>2, <1>3, <1>5, <1>6, ReadFits
<1> HIDE DEF t
<1>8. IsOpened(i) /\ dev \in [Handle -> Device \cup {NoDev}]
  BY <1>1, <1>3, <1>4, OpenDevice DEF TypeOK
<1>9. /\ blk' = t.blk /\ inode' = [inode EXCEPT ![i] = t.di]
      /\ opened' = [opened EXCEPT ![i] = t.e] /\ dev' = [dev EXCEPT ![h].pos = t.pos]
  BY <1>1, <1>4 DEF Commit
<1>10. /\ t.blk = blk /\ t.di = inode[i] /\ t.e.first = opened[i].first
       /\ t.e.size = opened[i].size /\ t.e.count = opened[i].count
  BY <1>6, <1>7 DEF OnlyRead
<1>11. t.pos \in 0..MaxSize
  BY <1>7 DEF Fits, Sess
<1>12. inode' = inode /\ opened'[i] = t.e /\ \A j \in Inode \ {i} : opened'[j] = opened[j]
  BY <1>3, <1>9, <1>10 DEF TypeOK
<1>13. ASSUME NEW j \in Inode PROVE SameEntry(j)
  <2>1. CASE j # i
    BY <1>12, <2>1, EntryStays
  <2>2. CASE j = i
    <3>1. EntryOf(i)' = t.e
      BY <1>8, <1>10, <1>12, EntryNext DEF IsOpened
    <3>2. EntryOf(i) = opened[i]
      BY <1>8, OpenedEntry
    <3> QED
      BY <1>10, <2>2, <3>1, <3>2 DEF SameEntry
  <2> QED
    BY <2>1, <2>2
<1>14. ASSUME NEW j \in Inode PROVE Remains(j)
  BY <1>9, <1>10, <1>12, <1>13, BlocksKept DEF Remains
<1> QED
  BY <1>1, <1>8, <1>9, <1>11, <1>14, CursorMoves

\* What a call leaves of the files: only its own has other bytes.
CallFiles(i, t, r) ==
  /\ HasBytes(Content(i)', t.blk, r, t.e.size)
  /\ ClientFiles' = [ClientFiles EXCEPT ![i] = Content(i)']
  /\ Zeroed'

LEMMA CommitFiles ==
  ASSUME NEW w \in BOOLEAN, Described', Zeroed, Described, Shown!Inv, NEW Q, Good(Q, w),
         NEW h \in Handle, dev[h] # NoDev, NEW i \in Inode, i = dev[h].ino,
         NEW t, NEW r, Fits(t, r, Others(Q, i), w),
         Spared(blk, t.blk, Others(Q, i)), t.e.count = opened[i].count,
         t.di.used, ZeroFrom(t.blk, r, t.e.size), Commit(h, t)
  PROVE  CallFiles(i, t, r)
<1>1. TypeOK
  BY DEF Good
<1>2. i \in Inode /\ IsOpened(i) /\ inode[i].used
  BY <1>1, OpenDevice
<1>3. /\ blk' = t.blk /\ inode' = [inode EXCEPT ![i] = t.di] /\ opened' = [opened EXCEPT ![i] = t.e]
  BY DEF Commit
<1>4. /\ Linked(t.blk, t.e.first, r) /\ t.blk \in [BlockId -> Block] /\ t.e.first \in 0..NumBlocks
  BY SessTypes DEF Fits, Entry
<1>5. \A d \in Others(Q, i) : t.blk[d] = blk[d]
  BY DEF Spared
<1>6. /\ inode'[i] = t.di /\ opened'[i] = t.e
      /\ \A j \in Inode \ {i} : inode'[j] = inode[j] /\ opened'[j] = opened[j]
  BY <1>1, <1>2, <1>3 DEF TypeOK
<1>7. EntryOf(i)' = t.e
  BY <1>2, <1>6, EntryNext DEF IsOpened
<1>8. ChainOf(i)' = r
  <2>1. Chain(t.blk, t.e.first) = r
    BY <1>4, ChainIs
  <2> QED
    BY <1>3, <1>7, <2>1 DEF ChainOf
<1>9. HasBytes(Content(i)', t.blk, r, t.e.size)
  <2>1. HasBytes(Content(i)', blk', ChainOf(i)', EntryOf(i)'.size)
    BY <1>2 DEF Described, DescribedFile
  <2> QED
    BY <1>3, <1>7, <1>8, <2>1
<1>10. ASSUME NEW j \in Inode \ {i} PROVE Remains(j)
  <2>1. SameEntry(j)
    BY <1>6, EntryStays
  <2>2. ChainOf(j) = Q[j]
    BY ChainOfIs
  <2>3. Q[j] \in Seq(BlockId)
    BY DEF Good, Chains
  <2>4. \A d \in Ids(ChainOf(j)) : blk'[d] = blk[d]
    <3>1. Ids(Q[j]) \subseteq Others(Q, i)
      BY <2>3 DEF Others, Ids
    <3> QED
      BY <1>3, <1>5, <2>2, <3>1
  <2>5. FileKept(j)
    BY <2>1, <2>4, ChainKept
  <2> QED
    BY <1>6, <2>5 DEF Remains
<1>11. ZeroFrom(blk', ChainOf(i)', EntryOf(i)'.size)
  BY <1>3, <1>7, <1>8
<1>12. ClientFiles' = [ClientFiles EXCEPT ![i] = SeenNext(i)] /\ Zeroed'
  BY <1>2, <1>10, <1>11, OthersRemain
<1>13. SeenNext(i) = Content(i)'
  BY <1>6 DEF SeenNext
<1> QED
  BY <1>9, <1>12, <1>13 DEF CallFiles

\* The bytes of the file of a call.
LEMMA CallBytes ==
  ASSUME NEW w \in BOOLEAN, Described, Zeroed, NEW Q, Good(Q, w), NEW i \in Inode, IsOpened(i)
  PROVE  /\ HasBytes(Content(i), blk, Q[i], opened[i].size) /\ opened[i].size \in Nat
         /\ ZeroFrom(blk, Q[i], opened[i].size)
<1>1. EntryOf(i) = opened[i] /\ ChainOf(i) = Q[i]
  BY OpenedEntry, ChainOfIs
<1>2. /\ HasBytes(Content(i), blk, ChainOf(i), EntryOf(i).size) /\ EntryOf(i).size \in 0..MaxSize
      /\ ZeroFrom(blk, ChainOf(i), EntryOf(i).size)
  BY DEF Described, DescribedFile, Zeroed
<1> QED
  BY <1>1, <1>2, MaxSizeIs

LEMMA BytesWritten ==
  ASSUME dev \in [Handle -> Device \cup {NoDev}], NEW h \in Handle, dev[h] # NoDev, dev[h].rw,
         NEW i \in Inode, i = dev[h].ino, inode[i].used, NEW n \in 0..MaxSize, NEW v \in Byte,
         ClientFiles' = [ClientFiles EXCEPT ![i] =
                           Files!Overwritten(Content(i), dev[h].pos, n, v)],
         dev' = [dev EXCEPT ![h].pos = dev[h].pos + n]
  PROVE  Files!WriteBytes(h, n, v)
<1>1. ClientDevs[h].file = i /\ ClientDevs[h].rw /\ ClientDevs[h].pos = dev[h].pos
  BY ClientCursor
<1>2. ClientDevs' = [ClientDevs EXCEPT ![h].pos = dev[h].pos + n]
  BY ClientMoves
<1>3. ClientFiles[i] = Content(i)
  BY DEF ClientFiles
<1>4. ClientDevs' = [ClientDevs EXCEPT ![h].pos = @ + n]
  BY <1>1, <1>2
<1>5. ClientFiles' = [ClientFiles EXCEPT ![ClientDevs[h].file] =
                        Files!Overwritten(@, ClientDevs[h].pos, n, v)]
  BY <1>1, <1>3
<1> QED
  BY <1>1, <1>4, <1>5 DEF Files!WriteBytes

\* What a write stored, and the zeroes behind it.
LEMMA StoredSeen ==
  ASSUME NEW s \in Sess, NEW u \in Sess, NEW q, NEW r, Stored(s, u, q, r),
         ZeroFrom(s.blk, q, s.e.size)
  PROVE  /\ Put(s.blk, q, u.blk, r, s.pos, u.pos - s.pos, s.val)
         /\ u.e.size = IF u.pos - s.pos > 0 /\ s.pos + (u.pos - s.pos) > s.e.size
                       THEN s.pos + (u.pos - s.pos) ELSE s.e.size
         /\ u.pos - s.pos \in 0..MaxSize
         /\ ZeroFrom(u.blk, r, u.e.size)
<1>1. /\ s.pos \in 0..MaxSize /\ u.pos \in 0..MaxSize /\ s.e.size \in Nat /\ MaxSize \in Nat
  BY SessTypes, MaxSizeIs
<1>2. /\ u.e.size = IF u.pos > s.pos /\ u.pos > s.e.size THEN u.pos ELSE s.e.size
      /\ s.pos <= u.pos
  BY DEF Stored
<1> DEFINE n == u.pos - s.pos
<1>3. n \in 0..MaxSize /\ s.pos + n = u.pos
  BY <1>1, <1>2
<1>4. ASSUME NEW p \in Nat
      PROVE  ValueAt(u.blk, r, p) = IF s.pos <= p /\ p < s.pos + n THEN s.val
                                    ELSE ValueAt(s.blk, q, p)
  BY <1>3 DEF Stored
<1>5. ASSUME NEW p \in Nat, p >= u.e.size PROVE ValueAt(u.blk, r, p) = 0
  <2>1. ~(s.pos <= p /\ p < s.pos + n) /\ p >= s.e.size
    BY <1>1, <1>2, <1>3, <1>5
  <2>2. ValueAt(s.blk, q, p) = 0
    BY <2>1 DEF ZeroFrom
  <2> QED
    BY <1>4, <2>1, <2>2
<1> HIDE DEF n
<1>6. Put(s.blk, q, u.blk, r, s.pos, n, s.val)
  BY <1>4 DEF Put
<1>7. u.e.size = IF n > 0 /\ s.pos + n > s.e.size THEN s.pos + n ELSE s.e.size
  BY <1>1, <1>2, <1>3
<1>8. ZeroFrom(u.blk, r, u.e.size)
  BY <1>5 DEF ZeroFrom
<1> QED
  BY <1>3, <1>6, <1>7, <1>8 DEF n

LEMMA WriteFiles ==
  ASSUME Inv(TRUE), Described', Zeroed, NEW h \in Handle, NEW n \in IoLen, NEW v \in Byte,
         Write(h, n, v)
  PROVE  FileStep
<1> DEFINE s == Session(dev[h].ino, dev[h].pos, n, v)
           t == Written(h, n, v)
           w == TRUE
<1>1. dev[h].rw /\ dev[h].pos <= MaxPos /\ Commit(h, t)
  BY DEF Write
<1>2. dev[h] # NoDev
  BY <1>1, ClosedDevice
<1>3. n \in 0..MaxSize /\ n \in Nat /\ MaxPos + n <= MaxSize /\ MaxSize \in Nat /\ MaxPos \in Nat
  BY MaxSizeIs, MaxPosAssumption
<1>4. TypeOK /\ Described /\ w \in BOOLEAN /\ w /\ Inv(w) /\ Shown!Inv
  BY DescribedIs, InvTypes DEF Inv
<1> HIDE DEF w
<1>5. PICK i \in Inode : i = dev[h].ino
  BY <1>2, <1>4, OpenDevice
<1>6. IsOpened(i) /\ inode[i].used /\ dev \in [Handle -> Device \cup {NoDev}]
      /\ dev[h].pos \in 0..MaxSize
  BY <1>2, <1>4, <1>5, OpenDevice DEF TypeOK
<1>7. PICK Q : Good(Q, w) /\ Fits(s, Q[i], Others(Q, i), w) /\ Others(Q, i) \in SUBSET BlockId
               /\ s.di.used
  BY <1>2, <1>3, <1>4, <1>5, CallStarts
<1> DEFINE o == Others(Q, i)
<1>8. /\ s.blk = blk /\ s.di = inode[i] /\ s.e = opened[i] /\ s.rc = "OK"
      /\ s.pos = dev[h].pos /\ s.left = n /\ s.val = v
  BY <1>5, SessionIs DEF Session
<1>9. t = Repeat(WriteChunk, s, n)
  BY Zenon DEF Written
<1> HIDE DEF s, t
<1>10. s.pos + s.left <= MaxSize /\ s.left <= n /\ s \in Sess
  BY <1>1, <1>3, <1>6, <1>7, <1>8 DEF Fits
<1>11. Wrote(s, t, o)
  <2>1. \E x : /\ Writes(s, Repeat(WriteChunk, s, n), Q[i], x, o, w)
               /\ Repeat(WriteChunk, s, n).rc = "OK" => Repeat(WriteChunk, s, n).left = 0
    BY <1>3, <1>4, <1>7, <1>8, <1>10, WriteIs
  <2> QED
    BY <1>9, <2>1 DEF Writes
<1>12. PICK r : Fits(t, r, o, w) /\ Stored(s, t, Q[i], r)
  <2>1. \E x : Fits(Repeat(WriteChunk, s, n), x, o, w) /\ Stored(s, Repeat(WriteChunk, s, n), Q[i], x)
    BY <1>3, <1>4, <1>7, <1>8, <1>10, WriteStores
  <2> QED
    BY <1>9, <2>1
<1> HIDE DEF o
<1>13. /\ HasBytes(Content(i), blk, Q[i], s.e.size) /\ s.e.size \in Nat
       /\ ZeroFrom(s.blk, Q[i], s.e.size)
  BY <1>4, <1>6, <1>7, <1>8, CallBytes
<1> DEFINE k == t.pos - s.pos
<1>14. /\ Put(s.blk, Q[i], t.blk, r, s.pos, k, s.val) /\ k \in 0..MaxSize
       /\ t.e.size = IF k > 0 /\ s.pos + k > s.e.size THEN s.pos + k ELSE s.e.size
       /\ ZeroFrom(t.blk, r, t.e.size)
  <2>1. t \in Sess
    BY <1>12 DEF Fits
  <2> QED
    BY <1>10, <1>12, <1>13, <2>1, StoredSeen
<1>15. t.pos = s.pos + k
  BY <1>10, <1>12, SessTypes, MaxSizeIs DEF Fits
<1> HIDE DEF k
<1>16. CallFiles(i, t, r)
  <2>1. Spared(blk, t.blk, o) /\ t.e.count = opened[i].count /\ t.di.used
    BY <1>7, <1>8, <1>11 DEF Spared, Wrote
  <2> QED
    BY <1>1, <1>2, <1>4, <1>5, <1>7, <1>12, <1>14, <2>1, CommitFiles DEF o
<1> DEFINE d == Content(i)'
<1>17. HasBytes(d, t.blk, r, IF k > 0 /\ s.pos + k > s.e.size THEN s.pos + k ELSE s.e.size)
       /\ ClientFiles' = [ClientFiles EXCEPT ![i] = d] /\ Zeroed'
  BY <1>14, <1>16 DEF CallFiles
<1> HIDE DEF d
<1>18. d = Files!Overwritten(Content(i), s.pos, k, v)
  <2>1. s.pos \in Nat /\ k \in Nat
    BY <1>3, <1>6, <1>8, <1>14
  <2> QED
    BY <1>8, <1>13, <1>14, <1>17, <2>1, PutBytesSeen
<1>19. dev' = [dev EXCEPT ![h].pos = dev[h].pos + k]
  BY <1>1, <1>8, <1>15 DEF Commit
<1>20. Files!WriteBytes(h, k, v)
  BY <1>1, <1>2, <1>5, <1>6, <1>8, <1>14, <1>17, <1>18, <1>19, BytesWritten
<1>21. Files!FilesNext
  BY <1>14, <1>20 DEF Files!FilesNext
<1> QED
  BY <1>17, <1>21 DEF FileStep

\* A device that resizes its file.
LEMMA FileResized ==
  ASSUME dev \in [Handle -> Device \cup {NoDev}], NEW h \in Handle, dev[h] # NoDev, dev[h].rw,
         NEW i \in Inode, i = dev[h].ino, inode[i].used, NEW n \in 0..MaxSize,
         ClientFiles' = [ClientFiles EXCEPT ![i] = Files!Resized(Content(i), n)],
         dev' = [dev EXCEPT ![h].pos = dev[h].pos]
  PROVE  Files!ResizeFile(h, n)
<1>1. ClientDevs[h].file = i /\ ClientDevs[h].rw
  BY ClientCursor
<1>2. dev' = dev
  <2>1. dev[h] \in Device
    OBVIOUS
  <2> DEFINE e == [dev[h] EXCEPT !.pos = dev[h].pos]
  <2>2. e = dev[h]
    BY <2>1 DEF Device
  <2>3. dev' = [dev EXCEPT ![h] = e]
    OBVIOUS
  <2> HIDE DEF e
  <2> QED
    BY <2>2, <2>3
<1>3. ClientDevs' = ClientDevs
  BY <1>2 DEF ClientDevs
<1>4. ClientFiles[i] = Content(i)
  BY DEF ClientFiles
<1>5. ClientFiles' = [ClientFiles EXCEPT ![ClientDevs[h].file] = Files!Resized(@, n)]
  BY <1>1, <1>4
<1> QED
  BY <1>1, <1>3, <1>5 DEF Files!ResizeFile

LEMMA SafeSpares ==
  ASSUME NEW w, NEW h \in Handle, NEW len \in TruncLen, SafeTruncate(h, len)
  PROVE  LET s == Session(dev[h].ino, dev[h].pos, 0, 0)
         IN  Spares(s, len, w) /\ EndsInside(s, len)
<1> DEFINE s == Session(dev[h].ino, dev[h].pos, 0, 0)
<1>1. s.e = opened[dev[h].ino]
  BY SessionIs
<1>2. /\ len = 0 => opened[dev[h].ino].first = 0
      /\ len # 0 => Reached(s, len).rc = "OK"
      /\ len # 0 /\ len < opened[dev[h].ino].size =>
           /\ Reached(s, len).bl.next # 0 \/ Reached(s, len).bl.id = opened[dev[h].ino].first
           /\ len % BlockSize # 0
  BY Zenon DEF SafeTruncate, Reached, Sized
<1> HIDE DEF s
<1>3. Spares(s, len, w)
  BY <1>1, <1>2 DEF Spares
<1>4. EndsInside(s, len)
  BY <1>1, <1>2 DEF EndsInside
<1> QED
  BY <1>3, <1>4 DEF s

LEMMA ResizedZero ==
  ASSUME NEW bk, NEW q, NEW cs, NEW r, NEW len \in Nat, ResizedValues(bk, q, cs, r, len)
  PROVE  ZeroFrom(cs, r, len)
<1>1. ASSUME NEW p \in Nat, p >= len PROVE ValueAt(cs, r, p) = 0
  <2>1. ~(p < len)
    BY <1>1
  <2> QED
    BY <2>1 DEF ResizedValues
<1> QED
  BY <1>1 DEF ZeroFrom

LEMMA TruncateFiles ==
  ASSUME Inv(TRUE), Described', Zeroed, NEW h \in Handle, NEW len \in TruncLen,
         SafeTruncate(h, len)
  PROVE  FileStep
<1> DEFINE s == Session(dev[h].ino, dev[h].pos, 0, 0)
           t == Trunc(s, len)
           w == TRUE
<1>1. dev[h].rw /\ Commit(h, t)
  BY DEF SafeTruncate, Truncate
<1>2. dev[h] # NoDev
  BY <1>1, ClosedDevice
<1>3. len \in 0..MaxSize /\ 0 \in 0..MaxSize /\ len \in Nat
  BY MaxSizeIs
<1>4. TypeOK /\ Described /\ w \in BOOLEAN /\ w /\ Inv(w) /\ Shown!Inv
  BY DescribedIs, InvTypes DEF Inv
<1> HIDE DEF w
<1>5. PICK i \in Inode : i = dev[h].ino
  BY <1>2, <1>4, OpenDevice
<1>6. IsOpened(i) /\ inode[i].used /\ dev \in [Handle -> Device \cup {NoDev}]
  BY <1>2, <1>4, <1>5, OpenDevice DEF TypeOK
<1>7. PICK Q : Good(Q, w) /\ Fits(s, Q[i], Others(Q, i), w) /\ Others(Q, i) \in SUBSET BlockId
               /\ s.di.used
  BY <1>2, <1>3, <1>4, <1>5, CallStarts, ByteAssumption
<1> DEFINE o == Others(Q, i)
<1>8. /\ s.blk = blk /\ s.di = inode[i] /\ s.e = opened[i] /\ s.rc = "OK"
      /\ s.pos = dev[h].pos
  BY <1>5, SessionIs
<1>9. Spares(s, len, w) /\ EndsInside(s, len)
  BY SafeSpares
<1> HIDE DEF s
<1>10. PICK r : Truncs(s, t, Q[i], r, o, w, len)
  BY <1>3, <1>4, <1>7, <1>8, <1>9, TruncIs
<1>11. Fits(t, r, o, w)
  BY <1>10 DEF Truncs
<1>12. /\ HasBytes(Content(i), blk, Q[i], s.e.size) /\ s.e.size \in Nat
       /\ ZeroFrom(s.blk, Q[i], s.e.size)
  BY <1>4, <1>6, <1>7, <1>8, CallBytes
<1>13. ResizedValues(blk, Q[i], t.blk, r, len)
  BY <1>3, <1>4, <1>7, <1>8, <1>9, <1>11, <1>12, TruncResizes
<1> HIDE DEF t, o
<1>14. ZeroFrom(t.blk, r, len) /\ t.e.size = len
  BY <1>3, <1>10, <1>13, ResizedZero DEF Truncs
<1>15. CallFiles(i, t, r)
  <2>1. Spared(blk, t.blk, o) /\ t.e.count = opened[i].count /\ t.di.used
    BY <1>7, <1>8, <1>10 DEF Spared, Truncs
  <2> QED
    BY <1>1, <1>2, <1>4, <1>5, <1>7, <1>11, <1>14, <2>1, CommitFiles DEF o
<1> DEFINE d == Content(i)'
<1>16. HasBytes(d, t.blk, r, len)
       /\ ClientFiles' = [ClientFiles EXCEPT ![i] = d] /\ Zeroed'
  BY <1>14, <1>15 DEF CallFiles
<1> HIDE DEF d
<1>17. d = Files!Resized(Content(i), len)
  <2>1. HasBytes(Content(i), blk, Q[i], s.e.size) /\ ZeroFrom(blk, Q[i], s.e.size)
    BY <1>8, <1>12
  <2> QED
    BY <1>3, <1>12, <1>13, <1>16, <2>1, ResizedSeen
<1>18. dev' = [dev EXCEPT ![h].pos = dev[h].pos]
  BY <1>1, <1>8, <1>10 DEF Commit, Truncs
<1>19. Files!ResizeFile(h, len)
  BY <1>1, <1>2, <1>3, <1>5, <1>6, <1>16, <1>17, <1>18, FileResized
<1>20. Files!FilesNext
  BY <1>3, <1>19 DEF Files!FilesNext
<1> QED
  BY <1>16, <1>20 DEF FileStep

-----------------------------------------------------------------------------
(***************************************************************************)
(* Opening, creating and flushing.                                         *)
(***************************************************************************)

\* The size a device opened now would find.
LEMMA EntrySizes ==
  ASSUME NEW i
  PROVE  EntryOf(i).size = IF opened[i].count > 0 THEN opened[i].size ELSE inode[i].size
<1>1. CASE opened[i].count > 0
  BY <1>1 DEF EntryOf, IsOpened
<1>2. CASE ~(opened[i].count > 0)
  <2>1. EntryOf(i) = [NotOpened EXCEPT !.size = inode[i].size, !.first = inode[i].first]
    BY <1>2 DEF EntryOf, IsOpened
  <2> QED
    BY <1>2, <2>1 DEF NotOpened
<1> QED
  BY <1>1, <1>2

LEMMA EntrySizesNext ==
  ASSUME NEW i
  PROVE  EntryOf(i).size' = IF opened'[i].count > 0 THEN opened'[i].size ELSE inode'[i].size
<1>1. CASE opened'[i].count > 0
  BY <1>1 DEF EntryOf, IsOpened
<1>2. CASE ~(opened'[i].count > 0)
  <2>1. EntryOf(i)' = [NotOpened EXCEPT !.size = inode'[i].size, !.first = inode'[i].first]
    BY <1>2 DEF EntryOf, IsOpened
  <2> QED
    BY <1>2, <2>1 DEF NotOpened
<1> QED
  BY <1>1, <1>2

\* A step that changes neither the first block nor the size of a file.
LEMMA EntryKept ==
  ASSUME Described, Described', NEW i \in Inode, inode'[i].first = inode[i].first,
         EntryOf(i).size' = EntryOf(i).size
  PROVE  SameEntry(i)
BY DEF Described, DescribedFile, SameEntry

LEMMA FileThere ==
  ASSUME Described, NEW i \in Inode
  PROVE  Content(i) # NoHandle
<1>1. HasBytes(Content(i), blk, ChainOf(i), EntryOf(i).size)
  BY DEF Described, DescribedFile
<1> DEFINE c == Content(i)
<1>2. c \in Seq(Byte)
  BY <1>1 DEF HasBytes
<1> HIDE DEF c
<1>3. c # NoHandle
  BY <1>2, AbsentAssumption
<1> QED
  BY <1>3 DEF c

\* A file without a writer has no device that may write.
LEMMA NoWriter ==
  ASSUME TypeOK, Shown!Inv, NEW i \in Inode, opened[i].writer = NoHandle, NEW g \in Handle
  PROVE  ~(ClientDevs[g].file = i /\ ClientDevs[g].rw)
<1>1. SUFFICES ASSUME dev[g].ino = i, dev[g].rw PROVE FALSE
  BY ClientCursor DEF TypeOK
<1>2. TableDev[g].ino = i /\ TableDev[g].rw
  BY <1>1 DEF TableDev
<1>3. TableOpened[i].writer = g
  BY <1>2 DEF Shown!Inv, Shown!WriterIsDevice
<1>4. TableOpened[i].writer = NoHandle
  BY DEF TableOpened
<1> QED
  BY <1>3, <1>4, HandlesAssumption

LEMMA OpenFiles ==
  ASSUME Inv(TRUE), Described', Zeroed, NEW h \in Handle, NEW i \in Inode, NEW rw \in BOOLEAN,
         Open(h, i, rw)
  PROVE  FileStep
<1> DEFINE e == Share(i, h, rw)
           v == [ino |-> i, rw |-> rw, pos |-> 0]
<1>1. /\ dev[h] = NoDev /\ inode[i].used /\ ~(rw /\ opened[i].writer # NoHandle)
      /\ opened' = [opened EXCEPT ![i] = e] /\ dev' = [dev EXCEPT ![h] = v]
      /\ blk' = blk /\ inode' = inode
  BY DEF Open
<1>2. TypeOK /\ Described /\ Shown!Inv
  BY DescribedIs, InvTypes DEF Inv
<1>3. opened'[i] = e /\ \A j \in Inode \ {i} : opened'[j] = opened[j]
  BY <1>1, <1>2 DEF TypeOK
<1>4. e.count > 0 /\ e.size = IF opened[i].count > 0 THEN opened[i].size ELSE inode[i].size
  <2>1. PICK Q : Good(Q, TRUE)
    BY DEF Inv, Sound
  <2>2. e.count > 0
    BY <2>1, ShareIs DEF Good
  <2>3. CASE opened[i].count > 0
    <3>1. opened[i] \in Entry
      BY <1>2 DEF TypeOK
    <3>2. PICK x, y : e = [opened[i] EXCEPT !.count = x, !.writer = y]
      BY <2>3 DEF Share, IsOpened
    <3>3. e.size = opened[i].size
      BY <3>1, <3>2 DEF Entry
    <3> QED
      BY <2>2, <2>3, <3>3
  <2>4. CASE ~(opened[i].count > 0)
    <3>1. e = [NotOpened EXCEPT !.count = 1, !.writer = IF rw THEN h ELSE NoHandle,
                                !.size = inode[i].size, !.first = inode[i].first]
      BY <2>4 DEF Share, IsOpened
    <3>2. e.size = inode[i].size
      BY <3>1 DEF NotOpened
    <3> QED
      BY <2>2, <2>4, <3>2
  <2> QED
    BY <2>3, <2>4
<1> HIDE DEF e
<1>5. ASSUME NEW j \in Inode PROVE Remains(j)
  <2>1. EntryOf(j).size' = EntryOf(j).size
    BY <1>1, <1>3, <1>4, EntrySizes, EntrySizesNext
  <2>2. SameEntry(j)
    BY <1>1, <1>2, <2>1, EntryKept
  <2> QED
    BY <1>1, <2>2, BlocksKept DEF Remains
<1>6. ClientFiles' = ClientFiles /\ Zeroed'
  BY <1>5, AllRemain
<1>7. ClientDevs[h] = Files!NoCursor
  BY <1>1, <1>2, ClientCursor DEF TypeOK
<1>8. ClientDevs' = [ClientDevs EXCEPT ![h] = [file |-> i, rw |-> rw, pos |-> 0]]
  <2>1. Cursor(v) = [file |-> i, rw |-> rw, pos |-> 0]
    BY DEF Cursor
  <2> HIDE DEF v
  <2>2. ClientDevs' = [ClientDevs EXCEPT ![h] = Cursor(v)]
    BY <1>1, <1>2, ClientDevice DEF TypeOK
  <2> QED
    BY <2>1, <2>2
<1>9. ClientFiles[i] # NoHandle
  BY <1>1, <1>2, FileThere DEF ClientFiles
<1>10. rw => \A g \in Handle : ~(ClientDevs[g].file = i /\ ClientDevs[g].rw)
  BY <1>1, <1>2, NoWriter
<1>11. Files!OpenFile(h, i, rw)
  BY <1>6, <1>7, <1>8, <1>9, <1>10 DEF Files!OpenFile
<1>12. Files!FilesNext
  BY <1>11 DEF Files!FilesNext
<1> QED
  BY <1>6, <1>12 DEF FileStep

LEMMA FlushFiles ==
  ASSUME Inv(TRUE), Described', Zeroed, NEW h \in Handle, Flush(h)
  PROVE  FileStep
<1>1. TypeOK /\ Described /\ Shown!Inv
  BY DescribedIs, InvTypes DEF Inv
<1>2. dev[h] # NoDev
  BY ClosedDevice DEF Flush
<1>3. PICK i \in Inode : i = dev[h].ino
  BY <1>1, <1>2, OpenDevice
<1> DEFINE d == FlushedInode(i)
<1>4. /\ inode' = [inode EXCEPT ![i] = d] /\ blk' = blk /\ opened' = opened /\ dev' = dev
  BY <1>3 DEF Flush
<1>5. IsOpened(i) /\ inode[i].used
  BY <1>1, <1>2, <1>3, OpenDevice
<1>6. d.first = inode[i].first /\ d.used = TRUE
  <2>1. PICK Q : Good(Q, TRUE)
    BY DEF Inv, Sound
  <2> QED
    BY <1>1, <1>5, <2>1, FlushedIs DEF Good
<1> HIDE DEF d
<1>7. inode'[i] = d /\ \A j \in Inode \ {i} : inode'[j] = inode[j]
  BY <1>1, <1>4 DEF TypeOK
<1>8. inode[i].used = TRUE
  BY <1>1, <1>5 DEF TypeOK, DiskInode
<1>9. ASSUME NEW j \in Inode PROVE Remains(j)
  <2>1. inode'[j].first = inode[j].first /\ inode'[j].used = inode[j].used
    BY <1>6, <1>7, <1>8
  <2>2. EntryOf(j).size' = EntryOf(j).size
    <3>1. j # i => inode'[j] = inode[j]
      BY <1>7
    <3>2. opened[i].count > 0
      BY <1>5 DEF IsOpened
    <3> QED
      BY <1>4, <3>1, <3>2, EntrySizes, EntrySizesNext
  <2>3. SameEntry(j)
    BY <1>1, <2>1, <2>2, EntryKept
  <2> QED
    BY <1>4, <2>1, <2>3, BlocksKept DEF Remains
<1>10. ClientFiles' = ClientFiles /\ Zeroed'
  BY <1>9, AllRemain
<1>11. ClientDevs' = ClientDevs
  BY <1>4 DEF ClientDevs
<1> QED
  BY <1>10, <1>11 DEF FileStep

LEMMA CreateFiles ==
  ASSUME Inv(TRUE), Described', Zeroed, NEW h \in Handle, Create(h)
  PROVE  FileStep
<1> DEFINE S == {j \in Inode : j >= ihint /\ ~inode[j].used}
           v == [ino |-> Min(S), rw |-> TRUE, pos |-> 0]
           e == [NotOpened EXCEPT !.count = 1, !.writer = h, !.size = inode[Min(S)].size,
                                  !.first = inode[Min(S)].first]
<1>1. /\ dev[h] = NoDev /\ S # {}
      /\ inode' = [inode EXCEPT ![Min(S)].used = TRUE]
      /\ opened' = [opened EXCEPT ![Min(S)] = e] /\ dev' = [dev EXCEPT ![h] = v] /\ blk' = blk
  BY DEF Create
<1>2. TypeOK /\ Described /\ Shown!Inv
  BY DescribedIs, InvTypes DEF Inv
<1>3. /\ Min(S) \in Inode /\ ~inode[Min(S)].used /\ inode[Min(S)] = Unused
      /\ ~IsOpened(Min(S))
  <2>1. PICK Q : Good(Q, TRUE)
    BY DEF Inv, Sound
  <2> HIDE DEF e, v
  <2> QED
    BY <1>1, <1>2, <2>1, FreeInode DEF Good
<1>4. PICK i \in Inode : i = Min(S)
  BY <1>3
<1> HIDE DEF S
<1>5. /\ ~inode[i].used /\ inode[i] = Unused /\ ~(opened[i].count > 0)
  BY <1>3, <1>4 DEF IsOpened
<1>6. inode[i].size = 0 /\ inode[i].first = 0
  BY <1>5 DEF Unused
<1>7. /\ inode' = [inode EXCEPT ![i].used = TRUE] /\ v = [ino |-> i, rw |-> TRUE, pos |-> 0]
      /\ opened' = [opened EXCEPT ![i] = e]
  BY <1>1, <1>4
<1>8. e.count = 1 /\ e.size = 0
  <2>1. e = [NotOpened EXCEPT !.count = 1, !.writer = h, !.size = 0, !.first = 0]
    BY <1>4, <1>6
  <2> HIDE DEF e
  <2> QED
    BY <2>1 DEF NotOpened
<1> HIDE DEF e, v
<1>9. opened'[i] = e /\ \A j \in Inode \ {i} : opened'[j] = opened[j] /\ inode'[j] = inode[j]
  BY <1>2, <1>7 DEF TypeOK
<1>10. inode'[i].used = TRUE /\ inode'[i].first = inode[i].first
  <2>1. inode'[i] = [Unused EXCEPT !.used = TRUE]
    BY <1>2, <1>5, <1>7 DEF TypeOK
  <2> QED
    BY <1>5, <2>1 DEF Unused
<1>11. ASSUME NEW j \in Inode \ {i} PROVE Remains(j)
  <2>1. SameEntry(j)
    BY <1>9, EntryStays
  <2> QED
    BY <1>1, <1>9, <2>1, BlocksKept DEF Remains
<1>12. FileKept(i)
  <2>1. EntryOf(i).size' = 0 /\ EntryOf(i).size = 0
    BY <1>5, <1>6, <1>8, <1>9, EntrySizes, EntrySizesNext
  <2>2. SameEntry(i)
    BY <1>2, <1>10, <2>1, EntryKept
  <2> QED
    BY <1>1, <2>2, BlocksKept
<1>13. Content(i)' = <<>>
  <2>1. EntryOf(i).size = 0
    BY <1>5, <1>6, EntrySizes
  <2>2. HasBytes(Content(i), blk, ChainOf(i), EntryOf(i).size)
    BY <1>2 DEF Described, DescribedFile
  <2> DEFINE c == Content(i)
  <2>3. c \in Seq(Byte) /\ Len(c) = 0
    BY <2>1, <2>2 DEF HasBytes
  <2>4. Content(i)' = c
    BY <1>12 DEF FileKept
  <2> HIDE DEF c
  <2>5. c = <<>>
    BY <2>3
  <2> QED
    BY <2>4, <2>5
<1>14. ClientFiles' = [ClientFiles EXCEPT ![i] = <<>>] /\ Zeroed'
  <2>1. ZeroFrom(blk', ChainOf(i)', EntryOf(i).size')
    BY <1>12 DEF FileKept
  <2>2. ClientFiles' = [ClientFiles EXCEPT ![i] = SeenNext(i)] /\ Zeroed'
    BY <1>11, <2>1, OthersRemain
  <2>3. SeenNext(i) = <<>>
    BY <1>10, <1>13 DEF SeenNext
  <2> QED
    BY <2>2, <2>3
<1>15. ClientDevs[h] = Files!NoCursor
  BY <1>1, <1>2, ClientCursor DEF TypeOK
<1>16. ClientDevs' = [ClientDevs EXCEPT ![h] = [file |-> i, rw |-> TRUE, pos |-> 0]]
  <2>1. Cursor(v) = [file |-> i, rw |-> TRUE, pos |-> 0]
    BY <1>7 DEF Cursor
  <2>2. ClientDevs' = [ClientDevs EXCEPT ![h] = Cursor(v)]
    BY <1>1, <1>2, ClientDevice DEF TypeOK
  <2> QED
    BY <2>1, <2>2
<1>17. ClientFiles[i] = NoHandle
  BY <1>5 DEF ClientFiles
<1>18. Files!CreateFile(h, i)
  BY <1>14, <1>15, <1>16, <1>17 DEF Files!CreateFile
<1>19. Files!FilesNext
  BY <1>18 DEF Files!FilesNext
<1> QED
  BY <1>14, <1>19 DEF FileStep

\* An entry without a writer agrees with its inode.
LEMMA CleanEntry ==
  ASSUME TypeOK, Shown!Inv, NEW i \in Inode, opened[i].count > 0, opened[i].writer = NoHandle
  PROVE  inode[i].size = opened[i].size
<1>1. /\ TableOpened[i].writer = NoHandle /\ TableOpened[i].count = opened[i].count
      /\ TableOpened[i].size = opened[i].size /\ TableDisk[i].size = inode[i].size
  BY DEF TableOpened, TableDisk
<1>2. Shown!IsOpened(i)
  BY <1>1 DEF Shown!IsOpened
<1> QED
  BY <1>1, <1>2 DEF Shown!Inv, Shown!CleanWithoutWriter

\* The last device of an entry is its writer, or there is none.
LEMMA LastDevice ==
  ASSUME TypeOK, Shown!Inv, Shown!Inv', NEW h \in Handle, ~dev[h].rw,
         NEW i \in Inode, opened'[i] = NotOpened,
         dev' = [dev EXCEPT ![h] = NoDev]
  PROVE  opened[i].writer = NoHandle
<1>1. SUFFICES ASSUME opened[i].writer # NoHandle PROVE FALSE
  OBVIOUS
<1>2. PICK g \in Handle : g = opened[i].writer
  BY <1>1 DEF TypeOK, Entry
<1>3. TableOpened[i].writer = g /\ g # NoHandle
  BY <1>1, <1>2 DEF TableOpened
<1>4. TableDev[g] = [ino |-> i, rw |-> TRUE]
  BY <1>3 DEF Shown!Inv, Shown!WriterIsDevice
<1>5. dev[g].ino = i /\ dev[g].rw
  BY <1>4 DEF TableDev
<1>6. dev'[g] = dev[g]
  BY <1>5 DEF TypeOK
<1>7. TableDev'[g].ino = i /\ TableDev'[g].rw
  BY <1>5, <1>6 DEF TableDev
<1>8. TableOpened'[i].writer = g
  BY <1>7 DEF Shown!Inv, Shown!WriterIsDevice
<1>9. TableOpened'[i].writer = NoHandle
  BY DEF TableOpened, NotOpened
<1> QED
  BY <1>3, <1>8, <1>9

LEMMA CloseFiles ==
  ASSUME Inv(TRUE), Described', Shown!Inv', Zeroed, NEW h \in Handle, Close(h)
  PROVE  FileStep
<1>1. TypeOK /\ Described /\ Shown!Inv
  BY DescribedIs, InvTypes DEF Inv
<1>2. dev[h] # NoDev
  BY DEF Close
<1>3. PICK i \in Inode : i = dev[h].ino
  BY <1>1, <1>2, OpenDevice
<1> DEFINE d == IF dev[h].rw THEN FlushedInode(i) ELSE inode[i]
           e == Release(i, h)
<1>4. /\ inode' = IF dev[h].rw THEN [inode EXCEPT ![i] = FlushedInode(i)] ELSE inode
      /\ opened' = [opened EXCEPT ![i] = e] /\ dev' = [dev EXCEPT ![h] = NoDev] /\ blk' = blk
  BY <1>3 DEF Close
<1>5. IsOpened(i) /\ opened[i].count > 0 /\ inode[i].used = TRUE /\ opened[i] \in Entry
  BY <1>1, <1>2, <1>3, OpenDevice DEF IsOpened, TypeOK, DiskInode
<1>6. PICK Q : Good(Q, TRUE)
  BY DEF Inv, Sound
<1>7. FlushedInode(i).first = inode[i].first /\ FlushedInode(i).used = TRUE
      /\ FlushedInode(i).size = opened[i].size
  BY <1>1, <1>5, <1>6, FlushedIs DEF Good
<1>8. inode'[i] = d /\ \A j \in Inode \ {i} : inode'[j] = inode[j] /\ opened'[j] = opened[j]
  BY <1>1, <1>4 DEF TypeOK
<1>9. opened'[i] = e
  BY <1>1, <1>4 DEF TypeOK
<1>10. d.first = inode[i].first /\ d.used = TRUE /\ (dev[h].rw => d.size = opened[i].size)
       /\ (~dev[h].rw => d = inode[i])
  BY <1>5, <1>7
<1> HIDE DEF d
<1>11. EntryOf(i).size' = opened[i].size
  <2>1. CASE opened[i].count = 1
    <3>1. e = NotOpened
      BY <2>1 DEF Release
    <3>2. ~(e.count > 0)
      BY <3>1 DEF NotOpened
    <3> HIDE DEF e
    <3>3. EntryOf(i).size' = d.size
      BY <1>8, <1>9, <3>2, EntrySizesNext
    <3>4. ~dev[h].rw => d.size = opened[i].size
      BY <1>1, <1>4, <1>5, <1>9, <1>10, <3>1, LastDevice, CleanEntry
    <3> QED
      BY <1>10, <3>3, <3>4
  <2>2. CASE opened[i].count # 1
    <3>1. PICK y : e = [opened[i] EXCEPT !.count = opened[i].count - 1, !.writer = y]
      BY <2>2 DEF Release
    <3> HIDE DEF e
    <3>2. e.size = opened[i].size /\ e.count = opened[i].count - 1 /\ opened[i].count \in Nat
      BY <1>5, <3>1 DEF Entry
    <3>3. e.count > 0
      BY <1>5, <2>2, <3>2
    <3> QED
      BY <1>9, <3>2, <3>3, EntrySizesNext
  <2> QED
    BY <2>1, <2>2
<1> HIDE DEF e
<1>12. EntryOf(i).size = opened[i].size
  BY <1>5, EntrySizes
<1>13. ASSUME NEW j \in Inode PROVE Remains(j)
  <2>1. CASE j # i
    <3>1. SameEntry(j)
      BY <1>8, <2>1, EntryStays
    <3> QED
      BY <1>4, <1>8, <2>1, <3>1, BlocksKept DEF Remains
  <2>2. CASE j = i
    <3>1. SameEntry(i)
      BY <1>1, <1>8, <1>10, <1>11, <1>12, EntryKept
    <3>2. FileKept(i)
      BY <1>4, <3>1, BlocksKept
    <3> QED
      BY <1>5, <1>8, <1>10, <2>2, <3>2 DEF Remains
  <2> QED
    BY <2>1, <2>2
<1>14. ClientFiles' = ClientFiles /\ Zeroed'
  BY <1>13, AllRemain
<1>15. ClientDevs[h] # Files!NoCursor
  BY <1>1, <1>2, ClientCursor DEF TypeOK
<1>16. ClientDevs' = [ClientDevs EXCEPT ![h] = Files!NoCursor]
  <2>1. Cursor(NoDev) = Files!NoCursor
    BY DEF Cursor, NoDev, Files!NoCursor
  <2>2. ClientDevs' = [ClientDevs EXCEPT ![h] = Cursor(NoDev)]
    BY <1>1, <1>4, ClientDevice DEF TypeOK
  <2> QED
    BY <2>1, <2>2
<1>17. Files!CloseFile(h)
  BY <1>14, <1>15, <1>16 DEF Files!CloseFile
<1>18. Files!FilesNext
  BY <1>17 DEF Files!FilesNext
<1> QED
  BY <1>14, <1>18 DEF FileStep

LEMMA ReopenFiles ==
  ASSUME Inv(TRUE), Described', Zeroed, Reopen
  PROVE  FileStep
<1>1. /\ inode' = [i \in Inode |-> IF opened[i].writer # NoHandle THEN FlushedInode(i) ELSE inode[i]]
      /\ opened' = [i \in Inode |-> NotOpened] /\ dev' = [h \in Handle |-> NoDev] /\ blk' = blk
  BY DEF Reopen
<1>2. TypeOK /\ Described /\ Shown!Inv
  BY DescribedIs, InvTypes DEF Inv
<1>3. PICK Q : Good(Q, TRUE)
  BY DEF Inv, Sound
<1>4. ASSUME NEW j \in Inode PROVE Remains(j)
  <2>1. EntryOf(j).size' = inode'[j].size
    <3>1. opened'[j] = NotOpened /\ ~(NotOpened.count > 0)
      BY <1>1 DEF NotOpened
    <3> QED
      BY <3>1, EntrySizesNext
  <2>2. CASE opened[j].writer # NoHandle
    <3>1. IsOpened(j) /\ inode[j].used
      BY <1>2, <2>2, Writers, OpenedUsed
    <3>2. inode[j].used = TRUE
      BY <1>2, <3>1 DEF TypeOK, DiskInode
    <3>3. inode'[j] = FlushedInode(j)
      BY <1>1, <2>2
    <3>4. /\ FlushedInode(j).first = inode[j].first /\ FlushedInode(j).size = opened[j].size
          /\ FlushedInode(j).used = TRUE
      BY <1>2, <1>3, <3>1, FlushedIs DEF Good
    <3>5. EntryOf(j).size = opened[j].size
      BY <3>1, EntrySizes DEF IsOpened
    <3>6. SameEntry(j)
      BY <1>2, <2>1, <3>3, <3>4, <3>5, EntryKept
    <3> QED
      BY <1>1, <3>2, <3>3, <3>4, <3>6, BlocksKept DEF Remains
  <2>3. CASE opened[j].writer = NoHandle
    <3>1. inode'[j] = inode[j]
      BY <1>1, <2>3
    <3>2. EntryOf(j).size = inode[j].size
      BY <1>2, <2>3, EntrySizes, CleanEntry
    <3>3. SameEntry(j)
      BY <1>2, <2>1, <3>1, <3>2, EntryKept
    <3> QED
      BY <1>1, <3>1, <3>3, BlocksKept DEF Remains
  <2> QED
    BY <2>2, <2>3
<1>5. ClientFiles' = ClientFiles /\ Zeroed'
  BY <1>4, AllRemain
<1>6. ClientDevs' = [h \in Handle |-> Files!NoCursor]
  <2>1. \A h \in Handle : dev'[h] = NoDev
    BY <1>1
  <2>2. Files!NoCursor = [file |-> NoDev.ino, rw |-> NoDev.rw, pos |-> NoDev.pos]
    BY DEF NoDev, Files!NoCursor
  <2> QED
    BY <2>1, <2>2 DEF ClientDevs
<1>7. Files!CloseAll
  BY <1>5, <1>6 DEF Files!CloseAll
<1>8. Files!FilesNext
  BY <1>7 DEF Files!FilesNext
<1> QED
  BY <1>5, <1>8 DEF FileStep

\* A file without blocks has no values.
LEMMA NothingThere ==
  ASSUME NEW bk, NEW q, Linked(bk, 0, q), NEW z
  PROVE  ZeroFrom(bk, q, z)
<1>1. q = <<>>
  <2>1. SUFFICES ASSUME q # <<>> PROVE FALSE
    OBVIOUS
  <2>2. q \in Seq(BlockId) /\ q[1] = 0
    BY <2>1 DEF Linked
  <2>3. q[1] \in BlockId
    BY <2>1, <2>2
  <2> QED
    BY <2>2, <2>3 DEF BlockId
<1>2. ASSUME NEW p \in Nat PROVE ValueAt(bk, q, p) = 0
  <2>1. Len(q) = 0 /\ 0 * BlockSize = 0
    BY <1>1, BlockSizeAssumption
  <2>2. ~(p < Len(q) * BlockSize)
    BY <2>1
  <2> QED
    BY <2>2 DEF ValueAt
<1> QED
  BY <1>2 DEF ZeroFrom

LEMMA UnlinkFiles ==
  ASSUME Inv(TRUE), Described', Zeroed, NEW i \in Inode, Unlink(i)
  PROVE  FileStep
<1> DEFINE S == ToSet(Chain(blk, inode[i].first))
           w == TRUE
<1>1. /\ inode[i].used /\ ~IsOpened(i) /\ blk' = Wipe(blk, S)
      /\ inode' = [inode EXCEPT ![i] = Unused] /\ opened' = opened /\ dev' = dev
  BY DEF Unlink
<1>2. TypeOK /\ Described /\ Shown!Inv
  BY DescribedIs, InvTypes DEF Inv
<1>3. PICK Q : Good(Q, w)
  BY DEF Inv, Sound
<1>4. w \in BOOLEAN
  OBVIOUS
<1> HIDE DEF w
<1>5. Chains(Q)
  BY <1>3 DEF Good
<1>6. S = Ids(Q[i])
  <2>1. Linked(blk, inode[i].first, Q[i])
    BY <1>5 DEF Chains
  <2>2. blk \in [BlockId -> Block] /\ inode[i].first \in 0..NumBlocks
    BY <1>2 DEF TypeOK, DiskInode
  <2>3. Chain(blk, inode[i].first) = Q[i]
    BY <2>1, <2>2, ChainIs
  <2>4. Q[i] \in [1..Len(Q[i]) -> BlockId]
    BY <2>1, LinkedLength
  <2> QED
    BY <2>3, <2>4 DEF ToSet, Ids
<1> HIDE DEF S
<1>7. \A d \in BlockId : blk'[d] = IF d \in S THEN EmptyBlock ELSE blk[d]
  BY <1>1, <1>2, WipeIs DEF TypeOK
<1>8. inode'[i] = Unused /\ \A j \in Inode \ {i} : inode'[j] = inode[j]
  BY <1>1, <1>2 DEF TypeOK
<1>9. ASSUME NEW j \in Inode \ {i} PROVE Remains(j)
  <2>1. SameEntry(j)
    BY <1>1, <1>8, EntryStays
  <2>2. ChainOf(j) = Q[j]
    BY <1>3, <1>4, ChainOfIs
  <2>3. \A d \in Ids(Q[j]) : d \in BlockId /\ d \notin S
    <3>1. Q[j] \in [1..Len(Q[j]) -> BlockId]
      BY <1>5, LinkedLength DEF Chains
    <3>2. Ids(Q[j]) \subseteq BlockId
      BY <3>1 DEF Ids
    <3> QED
      BY <1>5, <1>6, <3>2 DEF Chains
  <2>4. \A d \in Ids(ChainOf(j)) : blk'[d] = blk[d]
    BY <1>7, <2>2, <2>3
  <2>5. FileKept(j)
    BY <1>2, <2>1, <2>4, ChainKept
  <2> QED
    BY <1>8, <2>5 DEF Remains
<1>10. ZeroFrom(blk', ChainOf(i)', EntryOf(i).size')
  <2>1. EntryOf(i).first' = inode'[i].first /\ Linked(blk', EntryOf(i).first', ChainOf(i)')
    BY DEF Described, DescribedFile
  <2>2. inode'[i].first = 0
    BY <1>8 DEF Unused
  <2>3. Linked(blk', 0, ChainOf(i)')
    BY <2>1, <2>2
  <2> QED
    BY <2>3, NothingThere
<1>11. ClientFiles' = [ClientFiles EXCEPT ![i] = NoHandle] /\ Zeroed'
  <2>1. ClientFiles' = [ClientFiles EXCEPT ![i] = SeenNext(i)] /\ Zeroed'
    BY <1>9, <1>10, OthersRemain
  <2>2. SeenNext(i) = NoHandle
    BY <1>8 DEF SeenNext, Unused
  <2> QED
    BY <2>1, <2>2
<1>12. ClientDevs' = ClientDevs
  BY <1>1 DEF ClientDevs
<1>13. ClientFiles[i] # NoHandle
  BY <1>1, <1>2, FileThere DEF ClientFiles
<1>14. ASSUME NEW h \in Handle PROVE ClientDevs[h].file # i
  <2>1. ~Shown!IsOpened(i)
    BY <1>1 DEF IsOpened, TableOpened, Shown!IsOpened
  <2>2. Shown!HandlesOn(i) = {}
    BY <1>2, <2>1, TableClosed
  <2>3. TableDev[h].ino # i
    BY <2>2 DEF Shown!HandlesOn
  <2> QED
    BY <2>3 DEF TableDev, ClientDevs
<1>15. Files!RemoveFile(i)
  BY <1>11, <1>12, <1>13, <1>14 DEF Files!RemoveFile
<1>16. Files!FilesNext
  BY <1>15 DEF Files!FilesNext
<1> QED
  BY <1>11, <1>16 DEF FileStep

\* What no step changes stays.
LEMMA SameFiles ==
  ASSUME Zeroed, UNCHANGED vars
  PROVE  FileStep
<1>1. blk' = blk /\ inode' = inode /\ opened' = opened /\ dev' = dev
  BY DEF vars
<1>2. ASSUME NEW j \in Inode PROVE Remains(j)
  <2>1. SameEntry(j)
    BY <1>1, EntryStays
  <2> QED
    BY <1>1, <2>1, BlocksKept DEF Remains
<1>3. ClientFiles' = ClientFiles /\ Zeroed'
  BY <1>2, AllRemain
<1>4. ClientDevs' = ClientDevs
  BY <1>1 DEF ClientDevs
<1> QED
  BY <1>3, <1>4 DEF FileStep

LEMMA AlwaysFiles ==
  ASSUME Inv(TRUE), Described', Shown!Inv', Zeroed, Always
  PROVE  FileStep
<1>1. ASSUME NEW h \in Handle, NEW i \in Inode, NEW rw \in BOOLEAN, Open(h, i, rw)
      PROVE  FileStep
  BY <1>1, OpenFiles
<1>2. ASSUME NEW h \in Handle, Create(h) PROVE FileStep
  BY <1>2, CreateFiles
<1>3. ASSUME NEW h \in Handle, Flush(h) PROVE FileStep
  BY <1>3, FlushFiles
<1>4. ASSUME NEW h \in Handle, Close(h) PROVE FileStep
  BY <1>4, CloseFiles
<1>5. ASSUME NEW h \in Handle, NEW p \in SeekPos, Seek(h, p) PROVE FileStep
  BY <1>5, SeekFiles
<1>6. ASSUME NEW h \in Handle, NEW n \in IoLen, Read(h, n) PROVE FileStep
  BY <1>6, ReadFiles
<1>7. ASSUME NEW h \in Handle, NEW n \in IoLen, NEW v \in Byte, Write(h, n, v) PROVE FileStep
  BY <1>7, WriteFiles
<1>8. ASSUME NEW i \in Inode, Unlink(i) PROVE FileStep
  BY <1>8, UnlinkFiles
<1>9. CASE Reopen
  BY <1>9, ReopenFiles
<1> QED
  BY <1>1, <1>2, <1>3, <1>4, <1>5, <1>6, <1>7, <1>8, <1>9 DEF Always

LEMMA FilesNextSteps ==
  Inv(TRUE) /\ Inv(TRUE)' /\ Zeroed /\ [SafeNext]_vars => FileStep
<1>1. Inv(TRUE)' => Described'
  BY DescribedNext
<1> SUFFICES ASSUME Inv(TRUE), Inv(TRUE)', Zeroed, [SafeNext]_vars PROVE FileStep
  OBVIOUS
<1>2. Described' /\ Shown!Inv'
  BY <1>1 DEF Inv
<1>3. CASE Always
  BY <1>2, <1>3, AlwaysFiles
<1>4. ASSUME NEW h \in Handle, NEW len \in TruncLen, SafeTruncate(h, len) PROVE FileStep
  BY <1>2, <1>4, TruncateFiles
<1>5. CASE UNCHANGED vars
  BY <1>5, SameFiles
<1> QED
  BY <1>3, <1>4, <1>5 DEF SafeNext

LEMMA FilesStart ==
  ASSUME Init
  PROVE  Files!FilesInit /\ Zeroed
<1>1. /\ inode = [i \in Inode |-> Unused] /\ dev = [h \in Handle |-> NoDev]
  BY DEF Init
<1>2. Described
  BY InitInv, DescribedIs
<1>3. ClientFiles = [i \in Inode |-> NoHandle]
  <2>1. \A i \in Inode : ~inode[i].used
    BY <1>1 DEF Unused
  <2> QED
    BY <2>1 DEF ClientFiles
<1>4. ClientDevs = [h \in Handle |-> Files!NoCursor]
  <2>1. \A h \in Handle : dev[h] = NoDev
    BY <1>1
  <2>2. Files!NoCursor = [file |-> NoDev.ino, rw |-> NoDev.rw, pos |-> NoDev.pos]
    BY DEF NoDev, Files!NoCursor
  <2> QED
    BY <2>1, <2>2 DEF ClientDevs
<1>5. ASSUME NEW i \in Inode PROVE ZeroFrom(blk, ChainOf(i), EntryOf(i).size)
  <2>1. EntryOf(i).first = inode[i].first /\ Linked(blk, EntryOf(i).first, ChainOf(i))
    BY <1>2 DEF Described, DescribedFile
  <2>2. inode[i].first = 0
    BY <1>1 DEF Unused
  <2>3. Linked(blk, 0, ChainOf(i))
    BY <2>1, <2>2
  <2> QED
    BY <2>3, NothingThere
<1> QED
  BY <1>3, <1>4, <1>5 DEF Files!FilesInit, Zeroed

-----------------------------------------------------------------------------
(***************************************************************************)
(* The theorems.                                                           *)
(***************************************************************************)

\* Without the truncations that whio_dev_inode_trunc gets wrong, the chain of a
\* file covers its size, in memory and in the container, and whio_dev_inode_read
\* gets at any position exactly the bytes the file has from there on.
THEOREM ReadsTheContent == SafeSpec => []ReadsContent
<1>1. Inv(TRUE) => ReadsContent
  BY ContentRead
<1> QED
  BY <1>1, SafeSpecInv, PTL

\* ... and the bytes behind the end of a file are zero in its last blocks, so
\* that a file that grows has zeroes where nothing was written.
THEOREM EndsAreZero == SafeSpec => []Zeroed
<1>1. Init => Inv(TRUE) /\ Zeroed
  BY InitInv, FilesStart
<1>2. Inv(TRUE) /\ Zeroed /\ [SafeNext]_vars => Inv(TRUE)' /\ Zeroed'
  BY SafeSteps, StepInv, FilesNextSteps DEF FileStep
<1> QED
  BY <1>1, <1>2, PTL DEF SafeSpec

\* For the same clients the pseudofiles are the files of ByteFiles: every call
\* has on the bytes of its own file and on its device the effect that module
\* gives it, and none on the other files, whatever it does to blocks and lists.
THEOREM FilesAreBytes == SafeSpec => ImplementsFiles
<1>1. Init => Files!FilesInit
  BY FilesStart
<1>2. Inv(TRUE) /\ Inv(TRUE)' /\ Zeroed /\ [SafeNext]_vars
      => [Files!FilesNext]_<<ClientFiles, ClientDevs>>
  BY FilesNextSteps DEF FileStep
<1> QED
  BY <1>1, <1>2, SafeSpecInv, EndsAreZero, PTL DEF SafeSpec, ImplementsFiles, Files!FilesSpec
=============================================================================
