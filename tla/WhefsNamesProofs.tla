-------------------------- MODULE WhefsNamesProofs --------------------------
(***************************************************************************)
(* What holds of the names and of the cache of their hashes for any number *)
(* of inodes, any names and any hash function.  The inductive invariant    *)
(* adds to the properties that the cache holds no entry twice, so that one *)
(* entry is all there is to change when a file is renamed, and what the    *)
(* lookup in progress has seen.  The last theorems assume of the hashes    *)
(* what the code takes for granted.                                        *)
(***************************************************************************)
EXTENDS WhefsNames, SequenceTheorems, FiniteSetTheorems, WellFoundedInduction,
        TLAPS

LEMMA LeastExists ==
  ASSUME NEW T, T \subseteq Nat, T # {}
  PROVE  \E m \in T : \A k \in T : m <= k
<1> DEFINE R == {ss \in Nat \X Nat : ss[1] < ss[2]}
<1>1. R = OpToRel(<, Nat)
  BY DEF OpToRel
<1>2. IsWellFoundedOn(R, Nat)
  BY <1>1, NatLessThanWellFounded, Zenon
<1>3. \E x \in T : \A y \in T : ~ (<<y, x>> \in R)
  BY <1>2, WFMin
<1>4. \A x, y \in T : x < y => <<x, y>> \in R
  OBVIOUS
<1> HIDE DEF R
<1>5. PICK m \in T : \A y \in T : ~ (<<y, m>> \in R)
  BY <1>3
<1>6. \A k \in T : ~ (k < m)
  BY <1>4, <1>5
<1> QED
  BY <1>6

-----------------------------------------------------------------------------
(***************************************************************************)
(* The list of hashes.                                                     *)
(***************************************************************************)

LEMMA IndexOfIsFirst ==
  ASSUME NEW l \in Seq(Entry), NEW h \in Nat
  PROVE  /\ IndexOf(l, h) = 0 => \A k \in DOMAIN l : l[k].hash # h
         /\ IndexOf(l, h) # 0 => /\ IndexOf(l, h) \in DOMAIN l
                                 /\ l[IndexOf(l, h)].hash = h
<1> DEFINE K == {k \in DOMAIN l : l[k].hash = h}
<1>1. DOMAIN l = 1..Len(l) /\ Len(l) \in Nat
  BY LenProperties
<1>2. CASE K = {}
  BY <1>2 DEF IndexOf
<1>3. CASE K # {}
  <2> K \subseteq Nat
    BY <1>1
  <2>1. PICK m \in K : \A k \in K : m <= k
    BY <1>3, LeastExists, Zenon
  <2>2. l[m].hash = h /\ \A j \in 1..(m - 1) : l[j].hash # h
    BY <1>1, <2>1
  <2>3. \E k \in DOMAIN l : /\ l[k].hash = h
                            /\ \A j \in 1..(k - 1) : l[j].hash # h
    BY <2>1, <2>2
  <2> DEFINE x == CHOOSE k \in DOMAIN l : /\ l[k].hash = h
                                          /\ \A j \in 1..(k - 1) : l[j].hash # h
  <2>4. x \in DOMAIN l /\ l[x].hash = h
    BY <2>3
  <2>5. IndexOf(l, h) = x
    BY <2>1 DEF IndexOf
  <2> HIDE DEF x
  <2>6. x # 0
    BY <1>1, <2>4
  <2> QED
    BY <2>4, <2>5, <2>6
<1> QED
  BY <1>2, <1>3

LEMMA Inserted ==
  ASSUME NEW l \in Seq(Entry), NEW p \in 1..(Len(l) + 1), NEW e \in Entry
  PROVE  /\ InsertAt(l, p, e) \in Seq(Entry)
         /\ DOMAIN InsertAt(l, p, e) = 1..(Len(l) + 1)
         /\ \A k \in 1..(Len(l) + 1) :
              InsertAt(l, p, e)[k] = IF k < p THEN l[k]
                                     ELSE IF k = p THEN e ELSE l[k - 1]
<1> DEFINE a == SubSeq(l, 1, p - 1)
           b == SubSeq(l, p, Len(l))
<1>1. DOMAIN l = 1..Len(l) /\ Len(l) \in Nat /\ \A k \in 1..Len(l) : l[k] \in Entry
  BY LenProperties, ElementOfSeq
<1>2. /\ a \in Seq(Entry) /\ Len(a) = p - 1
      /\ \A k \in 1..(p - 1) : a[k] = l[k]
  <2>1. \A k \in 1..(p - 1) : l[k] \in Entry
    BY <1>1
  <2>2. /\ a \in Seq(Entry)
        /\ Len(a) = IF 1 <= p - 1 THEN (p - 1) - 1 + 1 ELSE 0
        /\ \A k \in 1..((p - 1) - 1 + 1) : a[k] = l[1 + k - 1]
    BY <2>1, SubSeqProperties, 1 \in Int, p - 1 \in Int
  <2> QED
    BY <1>1, <2>2
<1>3. /\ b \in Seq(Entry) /\ Len(b) = Len(l) + 1 - p
      /\ \A k \in 1..(Len(l) + 1 - p) : b[k] = l[p + k - 1]
  <2>1. \A k \in p..Len(l) : l[k] \in Entry
    BY <1>1
  <2>2. /\ b \in Seq(Entry)
        /\ Len(b) = IF p <= Len(l) THEN Len(l) - p + 1 ELSE 0
        /\ \A k \in 1..(Len(l) - p + 1) : b[k] = l[p + k - 1]
    BY <1>1, <2>1, SubSeqProperties, p \in Int, Len(l) \in Int
  <2> QED
    BY <1>1, <2>2
<1> HIDE DEF a, b
<1>4. /\ <<e>> \in Seq(Entry) /\ Len(<<e>>) = 1 /\ <<e>>[1] = e
  OBVIOUS
<1> DEFINE c == a \o <<e>>
<1>5. /\ c \in Seq(Entry) /\ Len(c) = p
      /\ \A k \in 1..p : c[k] = IF k < p THEN l[k] ELSE e
  <2>1. /\ c \in Seq(Entry)
        /\ Len(c) = Len(a) + Len(<<e>>)
        /\ \A i \in 1..(Len(a) + Len(<<e>>)) :
             c[i] = IF i <= Len(a) THEN a[i] ELSE <<e>>[i - Len(a)]
    BY <1>2, <1>4, ConcatProperties
  <2> QED
    BY <1>1, <1>2, <1>4, <2>1
<1>7. InsertAt(l, p, e) = c \o b
  BY DEF InsertAt, a, b
<1> HIDE DEF c
<1>6. /\ c \o b \in Seq(Entry)
      /\ Len(c \o b) = Len(c) + Len(b)
      /\ \A i \in 1..(Len(c) + Len(b)) :
           (c \o b)[i] = IF i <= Len(c) THEN c[i] ELSE b[i - Len(c)]
  BY <1>3, <1>5, ConcatProperties
<1> DEFINE m == c \o b
<1> HIDE DEF m
<1>8. Len(m) = Len(l) + 1 /\ m \in Seq(Entry)
  BY <1>1, <1>3, <1>5, <1>6 DEF m
<1>9. \A k \in 1..(Len(l) + 1) :
        m[k] = IF k < p THEN l[k] ELSE IF k = p THEN e ELSE l[k - 1]
  <2> TAKE k \in 1..(Len(l) + 1)
  <2>1. CASE k <= p
    BY <1>1, <1>3, <1>5, <1>6, <2>1 DEF m
  <2>2. CASE k > p
    <3>1. m[k] = b[k - p] /\ k - p \in 1..(Len(l) + 1 - p)
      BY <1>1, <1>3, <1>5, <1>6, <2>2 DEF m
    <3> QED
      BY <1>1, <1>3, <2>2, <3>1
  <2> QED
    BY <2>1, <2>2
<1>10. DOMAIN m = 1..(Len(l) + 1)
  BY <1>8, LenProperties
<1> QED
  BY <1>7, <1>8, <1>9, <1>10 DEF m

LEMMA Removed ==
  ASSUME NEW l \in Seq(Entry), NEW k \in DOMAIN l
  PROVE  /\ RemoveAt(l, k) \in Seq(Entry)
         /\ Len(RemoveAt(l, k)) = Len(l) - 1
         /\ \A j \in 1..(Len(l) - 1) :
              RemoveAt(l, k)[j] = IF j < k THEN l[j] ELSE l[j + 1]
<1> DEFINE a == SubSeq(l, 1, k - 1)
           b == SubSeq(l, k + 1, Len(l))
<1>1. DOMAIN l = 1..Len(l) /\ Len(l) \in Nat /\ \A j \in 1..Len(l) : l[j] \in Entry
  BY LenProperties, ElementOfSeq
<1>2. /\ a \in Seq(Entry) /\ Len(a) = k - 1
      /\ \A j \in 1..(k - 1) : a[j] = l[j]
  <2>1. \A j \in 1..(k - 1) : l[j] \in Entry
    BY <1>1
  <2>2. /\ a \in Seq(Entry)
        /\ Len(a) = IF 1 <= k - 1 THEN (k - 1) - 1 + 1 ELSE 0
        /\ \A j \in 1..((k - 1) - 1 + 1) : a[j] = l[1 + j - 1]
    BY <1>1, <2>1, SubSeqProperties, 1 \in Int, k - 1 \in Int
  <2> QED
    BY <1>1, <2>2
<1>3. /\ b \in Seq(Entry) /\ Len(b) = Len(l) - k
      /\ \A j \in 1..(Len(l) - k) : b[j] = l[k + j]
  <2>1. \A j \in (k + 1)..Len(l) : l[j] \in Entry
    BY <1>1
  <2>2. k + 1 \in Int /\ Len(l) \in Int
    BY <1>1
  <2>3. /\ b \in Seq(Entry)
        /\ Len(b) = IF k + 1 <= Len(l) THEN Len(l) - (k + 1) + 1 ELSE 0
        /\ \A j \in 1..(Len(l) - (k + 1) + 1) : b[j] = l[(k + 1) + j - 1]
    BY <2>1, <2>2, SubSeqProperties
  <2> HIDE DEF b
  <2>4. k \in Nat /\ k <= Len(l) /\ Len(l) - (k + 1) + 1 = Len(l) - k
    BY <1>1
  <2>5. Len(b) = Len(l) - k
    BY <1>1, <2>3, <2>4
  <2>6. ASSUME NEW j \in 1..(Len(l) - k)
        PROVE  b[j] = l[k + j]
    <3>1. (k + 1) + j - 1 = k + j
      BY <1>1, <2>4
    <3> QED
      BY <2>3, <2>4, <3>1
  <2> QED
    BY <2>3, <2>5, <2>6
<1> HIDE DEF a, b
<1>4. /\ a \o b \in Seq(Entry) /\ Len(a \o b) = Len(a) + Len(b)
      /\ \A i \in 1..(Len(a) + Len(b)) :
           (a \o b)[i] = IF i <= Len(a) THEN a[i] ELSE b[i - Len(a)]
  BY <1>2, <1>3, ConcatProperties
<1>5. RemoveAt(l, k) = a \o b
  BY DEF RemoveAt, a, b
<1> DEFINE m == a \o b
<1> HIDE DEF m
<1>6. m \in Seq(Entry) /\ Len(m) = Len(l) - 1
  BY <1>1, <1>2, <1>3, <1>4 DEF m
<1>7. ASSUME NEW j \in 1..(Len(l) - 1)
      PROVE  m[j] = IF j < k THEN l[j] ELSE l[j + 1]
  <2>1. CASE j < k
    BY <1>1, <1>2, <1>3, <1>4, <2>1 DEF m
  <2>2. CASE j >= k
    <3>1. m[j] = b[j - (k - 1)] /\ j - (k - 1) \in 1..(Len(l) - k)
      BY <1>1, <1>2, <1>3, <1>4, <2>2 DEF m
    <3>2. k + (j - (k - 1)) = j + 1
      BY <1>1
    <3> QED
      BY <1>1, <1>3, <2>2, <3>1, <3>2
  <2> QED
    BY <1>1, <2>1, <2>2
<1> QED
  BY <1>5, <1>6, <1>7 DEF m

\* No entry is in the list twice, but for those of unlinked files.
Single(l) ==
  \A j, k \in DOMAIN l : j # k /\ l[j] = l[k] => l[j].hash = Hash[NoName]

Truthful(l) ==
  \A k \in DOMAIN l : l[k].hash \in {Hash[name[l[k].id]], Hash[NoName]}

LEMMA IntervalCount ==
  ASSUME NEW n \in Nat
  PROVE  IsFiniteSet(1..n) /\ Cardinality(1..n) = n
BY FS_Interval, 1 \in Int, n \in Int

LEMMA PlaceInRange ==
  ASSUME NEW n \in Nat, NEW S, S \subseteq 1..n
  PROVE  1 + Cardinality(S) \in 1..(n + 1)
<1>1. IsFiniteSet(1..n) /\ Cardinality(1..n) = n
  BY IntervalCount
<1>2. IsFiniteSet(S) /\ Cardinality(S) <= n
  BY <1>1, FS_Subset
<1>3. Cardinality(S) \in Nat
  BY <1>2, FS_CardinalityType
<1> QED
  BY <1>2, <1>3

LEMMA SortedAdds ==
  ASSUME NEW l \in Seq(Entry), NEW e \in Entry
  PROVE  /\ Sorted(l, e) \in Seq(Entry)
         /\ \A k \in DOMAIN Sorted(l, e) :
              Sorted(l, e)[k] = e \/ \E j \in DOMAIN l : Sorted(l, e)[k] = l[j]
         /\ Single(l) /\ (\A j \in DOMAIN l : l[j] # e) => Single(Sorted(l, e))
<1> DEFINE S == {j \in DOMAIN l : l[j].hash <= e.hash}
           p == 1 + Cardinality(S)
           m == InsertAt(l, p, e)
<1>1. DOMAIN l = 1..Len(l) /\ Len(l) \in Nat
  BY LenProperties
<1>2. p \in 1..(Len(l) + 1)
  BY <1>1, PlaceInRange, S \subseteq 1..Len(l), Zenon
<1>3. Sorted(l, e) = m
  BY DEF Sorted
<1> HIDE DEF p
<1>4. /\ m \in Seq(Entry) /\ DOMAIN m = 1..(Len(l) + 1)
      /\ \A k \in 1..(Len(l) + 1) :
           m[k] = IF k < p THEN l[k] ELSE IF k = p THEN e ELSE l[k - 1]
  BY <1>2, Inserted
<1> HIDE DEF m
<1>5. \A k \in DOMAIN m : m[k] = e \/ \E j \in DOMAIN l : m[k] = l[j]
  <2> TAKE k \in DOMAIN m
  <2>1. CASE k < p
    BY <1>1, <1>2, <1>4, <2>1
  <2>2. CASE k = p
    BY <1>4, <2>2
  <2>3. CASE k > p
    <3>1. k - 1 \in DOMAIN l /\ m[k] = l[k - 1]
      BY <1>1, <1>2, <1>4, <2>3
    <3> QED
      BY <3>1
  <2> QED
    BY <1>2, <1>4, <2>1, <2>2, <2>3
<1>6. ASSUME Single(l), \A j \in DOMAIN l : l[j] # e
      PROVE  Single(m)
  <2> SUFFICES ASSUME NEW j \in DOMAIN m, NEW k \in DOMAIN m,
                      j # k, m[j] = m[k]
               PROVE  m[j].hash = Hash[NoName]
    BY DEF Single
  <2> DEFINE src(x) == IF x < p THEN x ELSE x - 1
  <2>1. \A x \in DOMAIN m : x # p => src(x) \in DOMAIN l /\ m[x] = l[src(x)]
    BY <1>1, <1>2, <1>4
  <2>2. m[p] = e
    BY <1>2, <1>4
  <2>3. j # p /\ k # p
    BY <1>6, <2>1, <2>2
  <2>4. src(j) # src(k)
    BY <1>2, <1>4, <2>3
  <2> QED
    BY <1>6, <2>1, <2>3, <2>4 DEF Single
<1> QED
  BY <1>3, <1>4, <1>5, <1>6

LEMMA RehashedChanges ==
  ASSUME NEW l \in Seq(Entry), NEW k \in DOMAIN l, NEW h \in Nat
  PROVE  /\ Rehashed(l, k, h) \in Seq(Entry)
         /\ \A x \in DOMAIN Rehashed(l, k, h) :
              \/ Rehashed(l, k, h)[x] = [hash |-> h, id |-> l[k].id]
              \/ \E j \in DOMAIN l \ {k} : Rehashed(l, k, h)[x] = l[j]
         /\ /\ Single(l)
            /\ \A j \in DOMAIN l \ {k} :
                 l[j] = [hash |-> h, id |-> l[k].id] => h = Hash[NoName]
            => Single(Rehashed(l, k, h))
<1> DEFINE e == [hash |-> h, id |-> l[k].id]
           r == RemoveAt(l, k)
           S == {j \in DOMAIN l \ {k} : \/ l[j].hash < h
                                        \/ l[j].hash = h /\ j < k}
           p == 1 + Cardinality(S)
           m == InsertAt(r, p, e)
<1>1. DOMAIN l = 1..Len(l) /\ Len(l) \in Nat
  BY LenProperties
<1>2. e \in Entry
  BY ElementOfSeq, <1>1 DEF Entry
<1>3. /\ r \in Seq(Entry) /\ Len(r) = Len(l) - 1
      /\ \A j \in 1..(Len(l) - 1) : r[j] = IF j < k THEN l[j] ELSE l[j + 1]
  BY Removed
<1>4. p \in 1..Len(l)
  <2> DEFINE I == 1..Len(l)
  <2>1. IsFiniteSet(I) /\ Cardinality(I) = Len(l) /\ k \in I
    <3>1. \A n \in Nat : IsFiniteSet(1..n) /\ Cardinality(1..n) = n
      BY IntervalCount
    <3> QED
      BY <1>1, <3>1
  <2>3. S \subseteq I \ {k}
    BY <1>1
  <2> HIDE DEF S, I
  <2>2. IsFiniteSet(I \ {k}) /\ Cardinality(I \ {k}) = Len(l) - 1
    BY <2>1, FS_RemoveElement
  <2>4. Cardinality(S) <= Len(l) - 1 /\ Cardinality(S) \in Nat
    BY <2>2, <2>3, FS_Subset, FS_CardinalityType
  <2> QED
    BY <1>1, <2>4
<1>5. Rehashed(l, k, h) = m
  BY DEF Rehashed
<1> HIDE DEF p, r, e
<1>6. /\ m \in Seq(Entry) /\ DOMAIN m = 1..Len(l)
      /\ \A x \in 1..Len(l) :
           m[x] = IF x < p THEN r[x] ELSE IF x = p THEN e ELSE r[x - 1]
  <2>1. p \in 1..(Len(r) + 1) /\ Len(r) + 1 = Len(l)
    BY <1>1, <1>3, <1>4
  <2> QED
    BY <1>2, <1>3, <2>1, Inserted
<1> HIDE DEF m
<1> DEFINE rsrc(x) == IF x < k THEN x ELSE x + 1
           src(x) == IF x < p THEN rsrc(x) ELSE rsrc(x - 1)
<1>7. \A x \in DOMAIN m : x # p => src(x) \in DOMAIN l \ {k} /\ m[x] = l[src(x)]
  <2> TAKE x \in DOMAIN m
  <2>1. CASE x < p
    <3>1. m[x] = r[x] /\ x \in 1..(Len(l) - 1)
      BY <1>1, <1>4, <1>6, <2>1
    <3> QED
      BY <1>1, <1>3, <1>4, <2>1, <3>1
  <2>2. CASE x > p
    <3>1. m[x] = r[x - 1] /\ x - 1 \in 1..(Len(l) - 1)
      BY <1>1, <1>4, <1>6, <2>2
    <3>2. src(x) = rsrc(x - 1)
      BY <1>1, <1>4, <1>6, <2>2
    <3> HIDE DEF src
    <3>3. \A y \in 1..(Len(l) - 1) : rsrc(y) \in DOMAIN l \ {k} /\ r[y] = l[rsrc(y)]
      BY <1>1, <1>3
    <3> HIDE DEF rsrc
    <3> QED
      BY <3>1, <3>2, <3>3
  <2>3. x < p \/ x = p \/ x > p
    BY <1>4, <1>6
  <2> HIDE DEF src
  <2> QED
    BY <2>1, <2>2, <2>3
<1>8. m[p] = e
  BY <1>4, <1>6
<1>9. \A x \in DOMAIN m : m[x] = e \/ \E j \in DOMAIN l \ {k} : m[x] = l[j]
  BY <1>7, <1>8
<1>10. ASSUME Single(l), \A j \in DOMAIN l \ {k} : l[j] = e => h = Hash[NoName]
       PROVE  Single(m)
  <2> SUFFICES ASSUME NEW x \in DOMAIN m, NEW y \in DOMAIN m,
                      x # y, m[x] = m[y]
               PROVE  m[x].hash = Hash[NoName]
    BY DEF Single
  <2>1. CASE x = p \/ y = p
    <3>1. m[x] = e /\ \E j \in DOMAIN l \ {k} : l[j] = e
      BY <1>7, <1>8, <2>1
    <3> QED
      BY <1>10, <3>1 DEF e
  <2>2. CASE x # p /\ y # p
    <3>1. src(x) # src(y)
      BY <1>1, <1>4, <1>6, <2>2
    <3> HIDE DEF src
    <3> QED
      BY <1>7, <1>10, <2>2, <3>1 DEF Single
  <2> QED
    BY <2>1, <2>2
<1> QED
  BY <1>5, <1>6, <1>9, <1>10 DEF e

-----------------------------------------------------------------------------
(***************************************************************************)
(* Reading a name and changing a name keep the cache true.                 *)
(***************************************************************************)

CacheType == [list : Seq(Entry), alloced : Nat]

CacheOK(c) ==
  /\ c \in CacheType
  /\ Truthful(c.list)
  /\ Single(c.list)
  /\ ~ enabled => c.list = <<>>

LEMMA SlotsType ==
  ASSUME NEW c \in CacheType
  PROVE  Slots(c) \in Nat
<1>1. c.alloced \in Nat /\ Len(c.list) \in Nat
  BY LenProperties DEF CacheType
<1>2. NumInodes \in Nat /\ FirstAlloc \in Nat
  BY CountAssumption, AllocAssumption
<1> QED
  BY <1>1, <1>2 DEF Slots, Lesser

LEMMA NameHashed ==
  ASSUME TypeOK, NEW i \in Inode
  PROVE  /\ name[i] \in Name \cup {NoName}
         /\ Hash[name[i]] \in Nat
         /\ Hash[NoName] \in Nat
<1>1. name[i] \in Name \cup {NoName}
  BY DEF TypeOK
<1> QED
  BY <1>1, HashAssumption

LEMMA EntryOf ==
  ASSUME NEW l \in Seq(Entry), NEW k \in DOMAIN l
  PROVE  /\ l[k] \in Entry /\ l[k].hash \in Nat /\ l[k].id \in Inode
         /\ l[k] = [hash |-> l[k].hash, id |-> l[k].id]
<1>1. l[k] \in Entry
  BY ElementOfSeq, LenProperties
<1> QED
  BY <1>1 DEF Entry

\* Reading the name of an inode adds an entry for it at most.
LEMMA NameReadAdds ==
  ASSUME TypeOK, NEW i \in Inode, NEW c \in CacheType
  PROVE  \/ NameRead(c, i) = c
         \/ /\ enabled /\ name[i] # NoName
            /\ IndexOf(c.list, Hash[name[i]]) = 0
            /\ NameRead(c, i) \in CacheType
            /\ NameRead(c, i).list
                 = Sorted(c.list, [hash |-> Hash[name[i]], id |-> i])
<1> DEFINE e == [hash |-> Hash[name[i]], id |-> i]
<1>1. c.list \in Seq(Entry) /\ e \in Entry
  BY NameHashed DEF CacheType, Entry
<1>2. Sorted(c.list, e) \in Seq(Entry)
  BY <1>1, SortedAdds
<1>3. Slots(c) \in Nat
  BY SlotsType
<1> HIDE DEF e
<1>4. [list |-> Sorted(c.list, e), alloced |-> Slots(c)] \in CacheType
  BY <1>2, <1>3 DEF CacheType
<1> QED
  BY <1>4 DEF NameRead, AddName, e

LEMMA NameReadKeeps ==
  ASSUME TypeOK, NEW i \in Inode, NEW c, CacheOK(c)
  PROVE  CacheOK(NameRead(c, i))
<1> DEFINE l == c.list
           e == [hash |-> Hash[name[i]], id |-> i]
           m == NameRead(c, i).list
<1>1. c \in CacheType /\ l \in Seq(Entry)
  BY DEF CacheOK, CacheType
<1>2. CASE NameRead(c, i) = c
  BY <1>2
<1>3. CASE /\ enabled
           /\ IndexOf(l, Hash[name[i]]) = 0
           /\ NameRead(c, i) \in CacheType
           /\ m = Sorted(l, e)
  <2>1. e \in Entry
    BY NameHashed DEF Entry
  <2>2. \A k \in DOMAIN l : l[k].hash # Hash[name[i]]
    BY <1>1, <1>3, NameHashed, IndexOfIsFirst
  <2>3. \A k \in DOMAIN l : l[k] # e
    BY <2>2
  <2>4. Single(m)
    BY <1>1, <1>3, <2>1, <2>3, SortedAdds DEF CacheOK
  <2> HIDE DEF e, l
  <2>7. \A k \in DOMAIN Sorted(l, e) :
          \/ Sorted(l, e)[k] = e
          \/ \E j \in DOMAIN l : Sorted(l, e)[k] = l[j]
    BY <1>1, <2>1, SortedAdds
  <2>5. \A k \in DOMAIN m : m[k] = e \/ \E j \in DOMAIN l : m[k] = l[j]
    BY <1>3, <2>7
  <2>6. Truthful(m)
    <3> SUFFICES ASSUME NEW k \in DOMAIN m
                 PROVE  m[k].hash \in {Hash[name[m[k].id]], Hash[NoName]}
      BY DEF Truthful
    <3>1. CASE m[k] = e
      BY <3>1 DEF e
    <3>2. CASE \E j \in DOMAIN l : m[k] = l[j]
      BY <3>2 DEF CacheOK, Truthful, l
    <3> HIDE DEF e, m
    <3> QED
      BY <2>5, <3>1, <3>2
  <2> QED
    BY <1>3, <2>4, <2>6 DEF CacheOK, m
<1> QED
  BY <1>1, <1>2, <1>3, NameReadAdds

LEMMA SetNameKeeps ==
  ASSUME TypeOK, CacheOK(cache), NEW i \in Inode, NEW n \in Name \cup {NoName},
         SetName(i, n), enabled' = enabled
  PROVE  /\ name' = [name EXCEPT ![i] = n]
         /\ name' \in [Inode -> Name \cup {NoName}]
         /\ n \notin LongName
         /\ CacheOK(cache)'
<1> DEFINE c == NameRead(cache, i)
           l == c.list
           k == EntryToChange(i, n)
<1>1. /\ name' = [name EXCEPT ![i] = n] /\ n \notin LongName
      /\ cache' = IF k = 0 THEN c
                  ELSE [c EXCEPT !.list = Rehashed(l, k, Hash[n])]
      /\ k # 0 => l[k].id = i
  BY DEF SetName, CanName, Collides
<1>2. name \in [Inode -> Name \cup {NoName}]
  BY DEF TypeOK
<1>3. /\ name' \in [Inode -> Name \cup {NoName}]
      /\ name'[i] = n /\ \A j \in Inode \ {i} : name'[j] = name[j]
  BY <1>1, <1>2
<1>4. CacheOK(c)
  BY NameReadKeeps
<1>5. c \in CacheType /\ l \in Seq(Entry)
  BY <1>4 DEF CacheOK, CacheType
<1>6. Hash[n] \in Nat /\ Hash[name[i]] \in Nat /\ Hash[NoName] \in Nat
  BY NameHashed, HashAssumption
<1>7. \A x \in DOMAIN l : /\ l[x].id \in Inode
                          /\ l[x] = [hash |-> l[x].hash, id |-> l[x].id]
                          /\ l[x].hash \in {Hash[name[l[x].id]], Hash[NoName]}
  BY <1>4, <1>5, EntryOf DEF CacheOK, Truthful
<1>8. k = IF enabled
            THEN IndexOf(l, Hash[IF name[i] # NoName THEN name[i] ELSE n])
            ELSE 0
  BY DEF EntryToChange
<1> HIDE DEF c, k
<1>9. k = 0 \/ k \in DOMAIN l
  BY <1>5, <1>6, <1>8, IndexOfIsFirst
\* Entries of inode i other than k have the hash of the empty name.
<1>10. ASSUME NEW x \in DOMAIN l, x # k, l[x].id = i
       PROVE  enabled => l[x].hash = Hash[NoName]
  <2> SUFFICES ASSUME enabled, l[x].hash # Hash[NoName]
               PROVE  FALSE
    OBVIOUS
  <2>1. l[x].hash = Hash[name[i]] /\ name[i] # NoName
    BY <1>7, <1>10
  <2>2. k = IndexOf(l, Hash[name[i]])
    BY <1>8, <2>1
  <2>3. k # 0 /\ l[k].hash = Hash[name[i]] /\ k \in DOMAIN l
    BY <1>5, <1>6, <2>1, <2>2, IndexOfIsFirst
  <2>4. l[k] = l[x]
    BY <1>1, <1>7, <1>10, <2>1, <2>3
  <2> QED
    BY <1>4, <1>10, <2>3, <2>4 DEF CacheOK, Single
<1>11. CASE k = 0
  <2>1. cache' = c
    BY <1>1, <1>11
  <2>2. \A x \in DOMAIN l : l[x].hash \in {Hash[name'[l[x].id]], Hash[NoName]}
    <3> TAKE x \in DOMAIN l
    <3>0. enabled
      BY <1>4 DEF CacheOK
    <3>1. CASE l[x].id = i
      BY <1>5, <1>10, <1>11, <3>0, <3>1, LenProperties
    <3>2. CASE l[x].id # i
      BY <1>3, <1>7, <3>2
    <3> QED
      BY <3>1, <3>2
  <2> QED
    <3>1. c \in CacheType /\ Single(l) /\ (~ enabled => l = <<>>)
      BY <1>4 DEF CacheOK
    <3>2. cache' \in CacheType /\ cache'.list = l
      BY <2>1, <3>1
    <3>3. Truthful(cache.list)'
      BY <2>2, <3>2 DEF Truthful
    <3>4. Single(cache.list)'
      BY <3>1, <3>2 DEF Single
    <3>5. CacheOK(cache)'
      BY <3>1, <3>2, <3>3, <3>4 DEF CacheOK, CacheType, Entry, Inode
    <3> QED
      BY <1>1, <1>3, <3>5
<1>12. CASE k # 0
  <2> DEFINE m == Rehashed(l, k, Hash[n])
             e == [hash |-> Hash[n], id |-> l[k].id]
  <2>1. enabled /\ k \in DOMAIN l /\ l[k].id = i
    BY <1>1, <1>8, <1>9, <1>12
  <2>2. /\ m \in Seq(Entry)
        /\ \A x \in DOMAIN m : m[x] = e \/ \E j \in DOMAIN l \ {k} : m[x] = l[j]
        /\ Single(l) /\ (\A j \in DOMAIN l \ {k} : l[j] = e => Hash[n] = Hash[NoName])
             => Single(m)
    BY <1>5, <1>6, <2>1, RehashedChanges, Zenon
  <2>3. cache' = [c EXCEPT !.list = m]
    BY <1>1, <1>12
  <2> HIDE DEF m
  <2>4. cache' \in CacheType /\ cache'.list = m
    BY <1>5, <2>2, <2>3 DEF CacheType
  <2>5. \A j \in DOMAIN l \ {k} : l[j] = e => Hash[n] = Hash[NoName]
    BY <1>10, <2>1
  <2>6. Single(m)
    BY <1>4, <2>2, <2>5 DEF CacheOK
  <2>7. ASSUME NEW x \in DOMAIN m
        PROVE  m[x].hash \in {Hash[name'[m[x].id]], Hash[NoName]}
    <3>1. CASE m[x] = e
      BY <1>3, <2>1, <3>1
    <3>2. ASSUME NEW j \in DOMAIN l \ {k}, m[x] = l[j]
          PROVE  m[x].hash \in {Hash[name'[m[x].id]], Hash[NoName]}
      <4>1. CASE l[j].id = i
        BY <1>10, <2>1, <3>2, <4>1
      <4>2. CASE l[j].id # i
        BY <1>3, <1>7, <3>2, <4>2
      <4> QED
        BY <4>1, <4>2
    <3> QED
      BY <2>2, <3>1, <3>2
  <2> QED
    <3>1. Truthful(cache.list)'
      BY <2>4, <2>7 DEF Truthful
    <3>2. Single(cache.list)'
      BY <2>4, <2>6 DEF Single
    <3>3. CacheOK(cache)'
      BY <2>1, <2>4, <3>1, <3>2 DEF CacheOK, CacheType, Entry, Inode
    <3> QED
      BY <1>1, <1>3, <3>3
<1> QED
  BY <1>11, <1>12

-----------------------------------------------------------------------------
(***************************************************************************)
(* The inductive invariant.                                                *)
(***************************************************************************)

\* No file has a name that is too long.
NamesFit == \A i \in Inode : name[i] \notin LongName

\* A search from the first inode has passed no file of the name.
Passed ==
  call.op \in Lookup =>
    /\ call.name \in Name
    /\ call.at >= 2
    /\ ~ call.exact => \A i \in Inode : i < call.at => name[i] # call.name

NamesInv ==
  /\ TypeOK
  /\ CacheOK(cache)
  /\ NamedIsUsed
  /\ NamesFit
  /\ Passed

LEMMA NamesInit == Init => NamesInv
<1> SUFFICES ASSUME Init PROVE NamesInv
  OBVIOUS
<1> USE DEF Init
<1>1. cache \in CacheType /\ cache.list = <<>>
  BY DEF NoCache, CacheType
<1>2. call \in [op : Lookup \cup {"none", "load"}, name : Name \cup {NoName},
                at : Nat, exact : BOOLEAN] /\ call.op \notin Lookup
  BY DEF Idle, Lookup
<1>3. TypeOK
  BY <1>1, <1>2 DEF TypeOK, CacheType
<1>4. CacheOK(cache)
  BY <1>1 DEF CacheOK, Truthful, Single
<1> QED
  BY <1>2, <1>3, <1>4, NameAssumption DEF NamesInv, NamedIsUsed, NamesFit, Passed

\* Steps that read names at most.
LEMMA ReadingStep ==
  ASSUME NamesInv, UNCHANGED <<used, name, enabled>>,
         CacheOK(cache'),
         call' \in [op : Lookup \cup {"none", "load"}, name : Name \cup {NoName},
                    at : Nat, exact : BOOLEAN],
         Passed', aborted' \in BOOLEAN,
         first' \subseteq Inode, held' \subseteq Inode,
         readers' \subseteq used, writers' \subseteq used
  PROVE  NamesInv'
<1>1. cache' \in CacheType /\ CacheOK(cache)'
  BY DEF CacheOK, CacheType, Truthful, Single, Entry, Inode
<1>2. TypeOK'
  BY <1>1 DEF NamesInv, TypeOK, CacheType, Inode, Entry, Lookup
<1>3. NamedIsUsed' /\ NamesFit'
  BY DEF NamesInv, NamedIsUsed, NamesFit, Inode
<1> QED
  BY <1>1, <1>2, <1>3 DEF NamesInv

\* Steps of files that change their names or the cache, with no call left.
LEMMA IdlePassed ==
  ASSUME call' = Idle
  PROVE  /\ Passed'
         /\ call' \in [op : Lookup \cup {"none", "load"}, name : Name \cup {NoName},
                       at : Nat, exact : BOOLEAN]
BY DEF Passed, Idle, Lookup

LEMMA HalfType ==
  ASSUME NEW n \in Nat
  PROVE  n \div 2 \in Nat
OBVIOUS

\* A part of the list, in its order.
LEMMA PartKept ==
  ASSUME NEW l \in Seq(Entry), Single(l), Truthful(l),
         NEW h \in Nat, NEW f \in [1..h -> DOMAIN l],
         \A j, k \in DOMAIN f : j < k => f[j] < f[k]
  PROVE  LET m == [j \in DOMAIN f |-> l[f[j]]]
         IN  m \in Seq(Entry) /\ Single(m) /\ Truthful(m)
<1> DEFINE m == [j \in DOMAIN f |-> l[f[j]]]
<1>1. DOMAIN l = 1..Len(l) /\ Len(l) \in Nat
  BY LenProperties
<1>2. DOMAIN f = 1..h /\ DOMAIN m = 1..h
  OBVIOUS
<1>3. \A j \in 1..h : m[j] = l[f[j]] /\ f[j] \in DOMAIN l /\ f[j] \in Nat
  BY <1>1, <1>2
<1>4. \A j \in 1..h : m[j] \in Entry
  BY <1>3, EntryOf
<1>5. m \in Seq(Entry)
  BY <1>4, <1>2, IsASeq
<1> HIDE DEF m
<1>6. Single(m)
  <2> SUFFICES ASSUME NEW j \in 1..h, NEW k \in 1..h, j # k, m[j] = m[k]
               PROVE  m[j].hash = Hash[NoName]
    BY <1>2 DEF Single
  <2>1. f[j] < f[k] \/ f[k] < f[j]
    <3>1. j < k \/ k < j
      OBVIOUS
    <3> QED
      BY <1>2, <3>1
  <2>2. f[j] # f[k]
    BY <1>3, <2>1
  <2> QED
    BY <1>3, <2>2 DEF Single
<1>7. Truthful(m)
  BY <1>2, <1>3 DEF Truthful
<1> QED
  BY <1>5, <1>6, <1>7 DEF m

LEMMA NamesStep == NamesInv /\ [Next]_vars => NamesInv'
<1> SUFFICES ASSUME NamesInv, [Next]_vars
             PROVE  NamesInv'
  OBVIOUS
<1> DEFINE CallType == [op : Lookup \cup {"none", "load"}, name : Name \cup {NoName},
                        at : Nat, exact : BOOLEAN]
<1>1. /\ TypeOK /\ CacheOK(cache) /\ NamedIsUsed /\ NamesFit /\ Passed
      /\ cache \in CacheType /\ cache.list \in Seq(Entry)
      /\ call \in CallType
      /\ name \in [Inode -> Name \cup {NoName}]
      /\ used \subseteq Inode /\ first \subseteq Inode /\ held \subseteq Inode
      /\ readers \subseteq used /\ writers \subseteq used
      /\ enabled \in BOOLEAN /\ aborted \in BOOLEAN
  BY DEF NamesInv, TypeOK, CacheType, NamedIsUsed
<1>2. NumInodes \in Nat /\ Inode \subseteq Nat /\ Inode = 2..NumInodes
  BY CountAssumption DEF Inode
<1>3. \A i \in Inode : CacheOK(NameRead(cache, i))
  BY <1>1, NameReadKeeps
<1>4. NoName \notin Name /\ LongName \subseteq Name
  BY NameAssumption
<1> HIDE DEF CallType
<1>5. ASSUME NEW op \in Lookup, NEW n \in Name, Begin(op, n)
      PROVE  NamesInv'
  <2> DEFINE k == IndexOf(cache.list, Hash[n])
  <2>1. k # 0 => cache.list[k].id \in Inode
    BY <1>1, HashAssumption, IndexOfIsFirst, EntryOf
  <2>2. call' = [op |-> op, name |-> n, exact |-> k # 0,
                 at |-> IF k = 0 THEN 2 ELSE cache.list[k].id]
        /\ UNCHANGED <<files, opens, enabled, cache, aborted>>
    BY <1>5 DEF Begin
  <2> HIDE DEF k
  <2>3. (IF k = 0 THEN 2 ELSE cache.list[k].id) \in Nat
    BY <1>2, <2>1
  <2>4. call' \in CallType
    BY <2>2, <2>3 DEF CallType
  <2>5. /\ call'.name \in Name /\ call'.at >= 2
        /\ ~ call'.exact => call'.at = 2
    <3>1. (IF k = 0 THEN 2 ELSE cache.list[k].id) >= 2
      BY <1>2, <2>1
    <3>2. /\ call'.name = n /\ call'.exact = (k # 0)
          /\ call'.at = IF k = 0 THEN 2 ELSE cache.list[k].id
      BY <2>2
    <3> QED
      BY <3>1, <3>2
  <2>6. Passed'
    BY <1>2, <2>5 DEF Passed, Inode
  <2> QED
    BY <1>1, <2>2, <2>4, <2>6, ReadingStep DEF CallType, files, opens
<1>6. ASSUME NEW n \in Name, BeginTooLong(n)
      PROVE  NamesInv'
  <2>1. call' = [op |-> "write", name |-> n, exact |-> FALSE, at |-> NumInodes + 1]
        /\ n \in LongName
        /\ UNCHANGED <<files, opens, enabled, cache, aborted>>
    BY <1>6 DEF BeginTooLong
  <2>2. call' \in CallType
    BY <1>2, <2>1 DEF CallType, Lookup
  <2>3. call'.name = n /\ call'.at = NumInodes + 1
    BY <2>1
  <2>5. \A i \in Inode : name'[i] # n
    BY <1>1, <2>1 DEF NamesFit, files
  <2>6. NumInodes + 1 >= 2
    BY CountAssumption
  <2>7. Passed'
    BY <2>3, <2>5, <2>6 DEF Passed, Inode
  <2> QED
    BY <1>1, <2>1, <2>2, <2>7, ReadingStep DEF CallType, files, opens
<1>7. CASE LookupAborts
  <2>1. /\ call.at \in Inode /\ aborted' = TRUE
        /\ cache' = IF call.at \in used THEN NameRead(cache, call.at) ELSE cache
        /\ UNCHANGED <<files, opens, enabled, call>>
    BY <1>7 DEF LookupAborts
  <2>2. CacheOK(cache')
    BY <1>1, <1>3, <2>1
  <2>3. Passed'
    BY <1>1, <2>1 DEF Passed, files, Inode
  <2> QED
    BY <1>1, <2>1, <2>2, <2>3, ReadingStep DEF CallType, files, opens
<1>8. CASE LookOn
  <2>1. /\ call.op \in Lookup /\ call.at \in Inode
        /\ ~ AtFile
        /\ cache' = IF call.at \in used THEN NameRead(cache, call.at) ELSE cache
        /\ call' = [call EXCEPT !.at = @ + 1]
        /\ UNCHANGED <<files, opens, enabled, aborted>>
    BY <1>8 DEF LookOn
  <2>2. CacheOK(cache')
    BY <1>1, <1>3, <2>1
  <2>3. call' \in CallType /\ call'.at = call.at + 1 /\ call'.name = call.name
        /\ call'.exact = call.exact /\ call'.op = call.op
    BY <1>1, <1>2, <2>1 DEF CallType
  <2>4. call.name \in Name /\ call.at >= 2
    BY <1>1, <2>1 DEF Passed
  <2>5. name[call.at] # call.name
    BY <1>1, <1>4, <2>1, <2>4 DEF AtFile, NamedIsUsed
  <2>6. Passed'
    <3> SUFFICES ASSUME ~ call.exact, NEW i \in Inode, i < call.at + 1
                 PROVE  name[i] # call.name
      BY <1>2, <2>1, <2>3, <2>4 DEF Passed, files, Inode
    <3>1. i < call.at \/ i = call.at
      BY <1>2, <2>1
    <3> QED
      BY <1>1, <2>1, <2>5, <3>1 DEF Passed
  <2> QED
    BY <1>1, <2>1, <2>2, <2>3, <2>6, ReadingStep DEF CallType, files, opens
<1>9. CASE NotFound
  BY <1>1, <1>9, IdlePassed, ReadingStep DEF NotFound, files, opens
<1>10. CASE FoundToRead
  BY <1>1, <1>3, <1>10, IdlePassed, ReadingStep DEF FoundToRead, AtFile, files, opens
<1>11. CASE FoundToWrite
  BY <1>1, <1>3, <1>11, IdlePassed, ReadingStep DEF FoundToWrite, AtFile, files, opens
<1>12. CASE Create
  <2>1. /\ Looking("write") /\ call' = Idle
        /\ UNCHANGED <<first, held, readers, enabled, aborted>>
    BY <1>12 DEF Create
  <2>2. call.name \in Name
    BY <1>1, <2>1 DEF Looking, Passed, Lookup
  <2>3. CASE used = Inode
    BY <1>1, <1>12, <2>1, <2>3, IdlePassed, ReadingStep DEF Create
  <2>4. CASE used # Inode
    <3> DEFINE i == CHOOSE j \in Inode \ used : \A k \in Inode \ used : j <= k
    <3>1. i \in Inode \ used
      <4>1. Inode \ used \subseteq Nat /\ Inode \ used # {}
        BY <1>1, <1>2, <2>4
      <4>2. \E j \in Inode \ used : \A k \in Inode \ used : j <= k
        BY <4>1, LeastExists, Zenon
      <4> QED
        BY <4>2, Zenon
    <3>2. /\ used' = used \cup {i}
          /\ \/ SetName(i, call.name) /\ writers' = writers \cup {i}
             \/ SetNameFails(i, call.name) /\ UNCHANGED writers
      BY <1>12, <2>4 DEF Create
    <3> HIDE DEF i
    <3>3. /\ name' \in [Inode -> Name \cup {NoName}]
          /\ \A j \in Inode \ {i} : name'[j] = name[j]
          /\ name'[i] \notin LongName
          /\ CacheOK(cache)'
      <4>1. CASE SetName(i, call.name)
        BY <1>1, <2>1, <2>2, <3>1, <4>1, SetNameKeeps
      <4>2. CASE SetNameFails(i, call.name)
        <5>1. UNCHANGED name /\ cache' = NameRead(cache, i)
          BY <4>2 DEF SetNameFails
        <5>2. CacheOK(cache)'
          BY <1>3, <2>1, <3>1, <5>1
             DEF CacheOK, CacheType, Truthful, Single, Entry, Inode
        <5> QED
          BY <1>1, <3>1, <5>1, <5>2 DEF NamesFit
      <4> QED
        BY <3>2, <4>1, <4>2
    <3>4. used' \subseteq Inode /\ readers' \subseteq used' /\ writers' \subseteq used'
      BY <1>1, <2>1, <3>1, <3>2
    <3>5. TypeOK'
      BY <1>1, <2>1, <3>3, <3>4, IdlePassed DEF TypeOK, CacheOK, CacheType, Inode, Entry
    <3>6. NamedIsUsed' /\ NamesFit'
      BY <1>1, <3>1, <3>2, <3>3, <3>4 DEF NamedIsUsed, NamesFit, Inode
    <3> QED
      BY <2>1, <3>3, <3>5, <3>6, IdlePassed DEF NamesInv
  <2> QED
    BY <2>3, <2>4
<1>13. CASE FoundToUnlink
  <2> DEFINE i == call.at
  <2>1. /\ AtFile /\ call' = Idle
        /\ UNCHANGED <<opens, enabled, aborted>>
        /\ \/ /\ i \in readers \cup writers
              /\ cache' = NameRead(cache, i)
              /\ UNCHANGED files
           \/ /\ i \notin readers \cup writers
              /\ held' = held \ {i}
              /\ \/ SetName(i, NoName) /\ used' = used \ {i} /\ first' = first \ {i}
                 \/ SetNameFails(i, NoName) /\ UNCHANGED <<used, first>>
    BY <1>13 DEF FoundToUnlink
  <2>2. i \in Inode /\ i \in used
    BY <1>1, <2>1 DEF AtFile
  <2>3. CASE cache' = NameRead(cache, i) /\ UNCHANGED files
    BY <1>1, <1>3, <2>1, <2>2, <2>3, IdlePassed, ReadingStep DEF files, opens
  <2>4. CASE held' = held \ {i} /\ SetNameFails(i, NoName) /\ UNCHANGED <<used, first>>
    BY <1>1, <1>3, <2>1, <2>2, <2>4, IdlePassed, ReadingStep DEF SetNameFails, opens
  <2>5. CASE /\ i \notin readers \cup writers /\ held' = held \ {i}
             /\ SetName(i, NoName) /\ used' = used \ {i} /\ first' = first \ {i}
    <3>1. /\ name' = [name EXCEPT ![i] = NoName]
          /\ name' \in [Inode -> Name \cup {NoName}]
          /\ CacheOK(cache)'
      BY <1>1, <2>1, <2>2, <2>5, SetNameKeeps
    <3>2. used' \subseteq Inode /\ first' \subseteq Inode /\ held' \subseteq Inode
          /\ readers' \subseteq used' /\ writers' \subseteq used'
      BY <1>1, <2>1, <2>5 DEF opens
    <3>3. TypeOK'
      BY <1>1, <2>1, <3>1, <3>2, IdlePassed
         DEF TypeOK, CacheOK, CacheType, Inode, Entry, opens
    <3>4. NamedIsUsed' /\ NamesFit'
      BY <1>1, <1>4, <2>2, <2>5, <3>1, <3>2 DEF NamedIsUsed, NamesFit, Inode
    <3> QED
      BY <2>1, <3>1, <3>3, <3>4, IdlePassed DEF NamesInv
  <2> QED
    BY <2>1, <2>3, <2>4, <2>5
<1>14. ASSUME NEW i \in Inode, NEW n \in Name, Rename(i, n)
       PROVE  NamesInv'
  <2>1. /\ call' = Idle /\ i \in used
        /\ SetName(i, n) \/ SetNameFails(i, n)
        /\ UNCHANGED <<used, first, held, opens, enabled, call, aborted>>
    BY <1>1, <1>14 DEF Rename, Ready
  <2>2. CASE SetNameFails(i, n)
    BY <1>1, <1>3, <2>1, <2>2, IdlePassed, ReadingStep DEF SetNameFails, opens
  <2>3. CASE SetName(i, n)
    <3>1. /\ name' = [name EXCEPT ![i] = n] /\ n \notin LongName
          /\ name' \in [Inode -> Name \cup {NoName}]
          /\ CacheOK(cache)'
      BY <1>1, <2>1, <2>3, SetNameKeeps
    <3>2. TypeOK'
      BY <1>1, <2>1, <3>1, IdlePassed
         DEF TypeOK, CacheOK, CacheType, Inode, Entry, opens
    <3>3. NamedIsUsed' /\ NamesFit'
      BY <1>1, <2>1, <3>1 DEF NamedIsUsed, NamesFit, Inode, opens
    <3> QED
      BY <2>1, <3>1, <3>2, <3>3, IdlePassed DEF NamesInv
  <2> QED
    BY <2>1, <2>2, <2>3
<1>15. ASSUME NEW i \in Inode, GetName(i)
       PROVE  NamesInv'
  BY <1>1, <1>3, <1>15, IdlePassed, ReadingStep DEF GetName, Ready, files, opens
<1>16. ASSUME NEW i \in Inode, FirstWrite(i)
       PROVE  NamesInv'
  BY <1>1, <1>16, IdlePassed, ReadingStep DEF FirstWrite, Ready, opens
<1>17. ASSUME NEW i \in Inode, CloseFile(i)
       PROVE  NamesInv'
  BY <1>1, <1>17, IdlePassed, ReadingStep DEF CloseFile, Ready, files
<1>18. CacheOK(NoCache)' /\ NoCache \in CacheType
  BY DEF CacheOK, NoCache, CacheType, Truthful, Single, Entry, Inode
<1>19. ASSUME UNCHANGED files, call' = Idle, aborted' = aborted,
              readers' \subseteq used, writers' \subseteq used,
              enabled' \in BOOLEAN, cache' \in CacheType, CacheOK(cache)'
       PROVE  NamesInv'
  <2>1. TypeOK'
    BY <1>1, <1>19, IdlePassed DEF TypeOK, CacheType, Inode, Entry, files
  <2>2. NamedIsUsed' /\ NamesFit'
    BY <1>1, <1>19 DEF NamedIsUsed, NamesFit, Inode, files
  <2> QED
    BY <1>19, <2>1, <2>2, IdlePassed DEF NamesInv
<1>20. CASE Remount
  <2>1. cache' = NoCache
    BY <1>20 DEF Remount
  <2>2. CacheOK(cache)'
    BY <1>18, <2>1 DEF CacheOK, NoCache, CacheType, Truthful, Single, Entry, Inode
  <2> QED
    BY <1>1, <1>18, <1>19, <1>20, <2>2 DEF Remount, Ready
<1>21. CASE CacheOff
  <2>1. cache' = NoCache
    BY <1>21 DEF CacheOff
  <2>2. CacheOK(cache)'
    BY <1>18, <2>1 DEF CacheOK, NoCache, CacheType, Truthful, Single, Entry, Inode
  <2> QED
    BY <1>1, <1>18, <1>19, <1>21, <2>2 DEF CacheOff, Ready, opens
<1>22. CASE CacheOn
  <2>1. CacheOK(cache)'
    BY <1>1, <1>22
       DEF CacheOn, files, CacheOK, CacheType, Truthful, Single, Entry, Inode
  <2> QED
    BY <1>1, <1>19, <1>22, <2>1 DEF CacheOn, Ready, opens
<1>23. CASE CacheLoad
  <2>1. /\ enabled' = TRUE
        /\ cache' = IF cache.alloced # 0 THEN cache
                    ELSE [cache EXCEPT !.alloced = Lesser(LoadAlloc, NumInodes)]
        /\ call' = [op |-> "load", name |-> NoName, exact |-> FALSE, at |-> NumInodes]
        /\ UNCHANGED <<files, opens, aborted>>
    BY <1>23 DEF CacheLoad
  <2>2. Lesser(LoadAlloc, NumInodes) \in Nat
    BY <1>2, AllocAssumption DEF Lesser
  <2>3. cache' \in CacheType /\ cache'.list = cache.list
    BY <1>1, <2>1, <2>2 DEF CacheType
  <2>4. CacheOK(cache)'
    BY <1>1, <2>1, <2>3
       DEF files, CacheOK, CacheType, Truthful, Single, Entry, Inode
  <2>5. call' \in CallType /\ call'.op \notin Lookup
    BY <1>2, <2>1 DEF CallType, Lookup
  <2>6. Passed'
    BY <2>5 DEF Passed, Lookup
  <2>7. TypeOK'
    BY <1>1, <2>1, <2>3, <2>5
       DEF TypeOK, CacheType, CallType, Inode, Entry, files, opens, Lookup
  <2>8. NamedIsUsed' /\ NamesFit'
    BY <1>1, <2>1 DEF NamedIsUsed, NamesFit, Inode, files, opens
  <2> QED
    BY <2>4, <2>6, <2>7, <2>8 DEF NamesInv
<1>24. CASE LoadName
  <2>1. /\ call.op = "load"
        /\ cache' = IF call.at \in used THEN NameRead(cache, call.at) ELSE cache
        /\ call' = IF call.at <= 2 THEN Idle ELSE [call EXCEPT !.at = @ - 1]
        /\ UNCHANGED <<files, opens, enabled, aborted>>
    BY <1>24 DEF LoadName, Looking
  <2>2. CacheOK(cache')
    BY <1>1, <1>3, <2>1
  <2>3. call' \in CallType /\ Passed'
    <3>1. CASE call.at <= 2
      BY <2>1, <3>1, IdlePassed DEF CallType
    <3>2. CASE ~ call.at <= 2
      <4>1. call.at - 1 \in Nat
        BY <1>1, <3>2 DEF CallType
      <4>2. call' \in CallType /\ call'.op = "load"
        BY <1>1, <2>1, <3>2, <4>1 DEF CallType
      <4> QED
        BY <4>2 DEF Passed, Lookup
    <3> QED
      BY <3>1, <3>2
  <2> QED
    BY <1>1, <2>1, <2>2, <2>3, ReadingStep DEF CallType, files, opens
<1>25. CASE Chomp
  <2> DEFINE l == cache.list
  <2>1. /\ Len(l) >= 2 /\ call' = Idle /\ UNCHANGED <<files, opens, enabled, aborted>>
    BY <1>25 DEF Chomp, Ready
  <2>2. PICK f \in [1..(Len(l) \div 2) -> DOMAIN l] :
          /\ \A j, k \in DOMAIN f : j < k => f[j] < f[k]
          /\ cache' = [cache EXCEPT !.list = [j \in DOMAIN f |-> l[f[j]]]]
    BY <1>25 DEF Chomp
  <2> DEFINE m == [j \in DOMAIN f |-> l[f[j]]]
  <2>3. Len(l) \in Nat
    BY <1>1, LenProperties
  <2>4. Len(l) \div 2 \in Nat
    BY <2>3, HalfType, Zenon
  <2>5. m \in Seq(Entry) /\ Single(m) /\ Truthful(m)
    <3>1. l \in Seq(Entry) /\ Single(l) /\ Truthful(l)
      BY <1>1 DEF CacheOK
    <3> HIDE DEF l
    <3>2. \A h \in Nat : h = Len(l) \div 2 => m \in Seq(Entry) /\ Single(m) /\ Truthful(m)
      <4> SUFFICES ASSUME NEW h \in Nat, h = Len(l) \div 2
                   PROVE  m \in Seq(Entry) /\ Single(m) /\ Truthful(m)
        OBVIOUS
      <4>1. /\ f \in [1..h -> DOMAIN l]
            /\ \A j, k \in DOMAIN f : j < k => f[j] < f[k]
        BY <2>2
      <4> QED
        BY <3>1, <4>1, PartKept, Zenon
    <3> QED
      BY <2>4, <3>2
  <2>8. cache' \in CacheType /\ cache'.list = m
    BY <1>1, <2>2, <2>5 DEF CacheType, m
  <2>9. enabled
    <3>1. l # <<>>
      BY <2>1
    <3> QED
      BY <1>1, <3>1 DEF CacheOK
  <2>10. CacheOK(cache)'
    BY <2>1, <2>5, <2>8, <2>9
       DEF files, CacheOK, CacheType, Truthful, Single, Entry, Inode
  <2> QED
    BY <1>1, <1>19, <2>1, <2>8, <2>10 DEF opens
<1>26. CASE UNCHANGED vars
  BY <1>26 DEF vars, files, opens, NamesInv, TypeOK, CacheOK, CacheType, Truthful,
       Single, NamedIsUsed, NamesFit, Passed, Inode, Entry, Lookup
<1> QED
  BY <1>5, <1>6, <1>7, <1>8, <1>9, <1>10, <1>11, <1>12, <1>13, <1>14, <1>15,
     <1>16, <1>17, <1>20, <1>21, <1>22, <1>23, <1>24, <1>25, <1>26 DEF Next

LEMMA NamesHold == Spec => []NamesInv
BY NamesInit, NamesStep, PTL DEF Spec

\* The types hold for any number of inodes and any names: the list stays a
\* sequence of entries of client inodes, through sorts, renames and chomps.
THEOREM NamesTypeCorrect == Spec => []TypeOK
<1>1. NamesInv => TypeOK
  BY DEF NamesInv
<1> QED
  BY <1>1, NamesHold, PTL

\* The cache is never stale, for any hash function: whefs_inode_name_set
\* changes the one entry there is of the old name (whefs_inode.c:163-169).
THEOREM CacheIsTrue == Spec => []CacheTrue
<1>1. NamesInv => CacheTrue
  BY DEF NamesInv, CacheOK, Truthful, CacheTrue
<1> QED
  BY <1>1, NamesHold, PTL

\* No inode with a name, and no open file, is ever given to another file.
THEOREM FilesStayUsed == Spec => []NamedIsUsed
<1>1. NamesInv => NamedIsUsed
  BY DEF NamesInv
<1> QED
  BY <1>1, NamesHold, PTL

-----------------------------------------------------------------------------
(***************************************************************************)
(* What needs the hashes to differ.  Entries of unlinked files are harmless*)
(* when no name has the hash of the empty one; then a lookup that ends     *)
(* has missed no file.                                                     *)
(***************************************************************************)

EmptyApart == \A n \in Name : Hash[n] # Hash[NoName]

\* A hit leads to a file.
HitIsFile ==
  call.op \in Lookup /\ call.exact =>
    call.at \in Inode /\ name[call.at] # NoName

LEMMA HitOfName ==
  ASSUME NamesInv, NEW n \in Name, IndexOf(cache.list, Hash[n]) # 0,
         Hash[n] # Hash[NoName]
  PROVE  LET k == IndexOf(cache.list, Hash[n])
         IN  /\ cache.list[k].id \in Inode
             /\ Hash[name[cache.list[k].id]] = Hash[n]
<1>1. cache.list \in Seq(Entry) /\ Truthful(cache.list) /\ Hash[n] \in Nat
  BY HashAssumption DEF NamesInv, CacheOK, CacheType
<1> QED
  BY <1>1, IndexOfIsFirst, EntryOf DEF Truthful

LEMMA HitStep ==
  ASSUME EmptyApart
  PROVE  NamesInv /\ HitIsFile /\ [Next]_vars => HitIsFile'
<1> SUFFICES ASSUME NamesInv, HitIsFile, [Next]_vars,
                    call'.op \in Lookup, call'.exact
             PROVE  call'.at \in Inode /\ name'[call'.at] # NoName
  BY DEF HitIsFile, Inode, Lookup
<1>1. ASSUME call' = Idle
      PROVE  FALSE
  BY <1>1 DEF Idle, Lookup
<1>2. ASSUME NEW op \in Lookup, NEW n \in Name, Begin(op, n)
      PROVE  call'.at \in Inode /\ name'[call'.at] # NoName
  <2> DEFINE k == IndexOf(cache.list, Hash[n])
  <2>1. /\ call'.exact = (k # 0)
        /\ call'.at = IF k = 0 THEN 2 ELSE cache.list[k].id
        /\ name' = name
    BY <1>2 DEF Begin, files
  <2>2. k # 0 /\ Hash[n] # Hash[NoName]
    BY <2>1 DEF EmptyApart
  <2>3. cache.list[k].id \in Inode /\ Hash[name[cache.list[k].id]] = Hash[n]
    BY <2>2, HitOfName
  <2> QED
    BY <2>1, <2>2, <2>3
<1>3. CASE LookOn
  <2>1. AtNameless /\ call.op \in Lookup /\ call.exact
    BY <1>3 DEF LookOn, NamesInv, TypeOK
  <2> QED
    BY <2>1 DEF AtNameless, HitIsFile
<1>4. CASE LoadName
  BY <1>1, <1>4 DEF LoadName, Looking, Lookup, NamesInv, TypeOK
<1>5. CASE call' = call /\ name' = name
  BY <1>5 DEF HitIsFile
<1>7. CASE LookupAborts
  BY <1>5, <1>7 DEF LookupAborts, files
<1>8. CASE CacheLoad
  BY <1>8 DEF CacheLoad, Lookup
<1>9. CASE \E n \in Name : BeginTooLong(n)
  BY <1>9 DEF BeginTooLong
<1>10. CASE NotFound \/ FoundToRead \/ FoundToWrite \/ Create \/ FoundToUnlink
  BY <1>1, <1>10 DEF NotFound, FoundToRead, FoundToWrite, Create, FoundToUnlink
<1>11. CASE \E i \in Inode, n \in Name : Rename(i, n)
  BY <1>1, <1>11 DEF Rename, Ready
<1>12. CASE \E i \in Inode : GetName(i) \/ FirstWrite(i) \/ CloseFile(i)
  BY <1>1, <1>12 DEF GetName, FirstWrite, CloseFile, Ready
<1>13. CASE Remount \/ CacheOff \/ CacheOn \/ Chomp
  BY <1>1, <1>13 DEF Remount, CacheOff, CacheOn, Chomp, Ready
<1>14. CASE UNCHANGED vars
  BY <1>5, <1>14 DEF vars, files
<1> QED
  BY <1>2, <1>3, <1>4, <1>7, <1>8, <1>9, <1>10, <1>11, <1>12, <1>13, <1>14 DEF Next

\* When no name has the hash of the empty name, a lookup misses no file, so
\* whefs_fopen creates no second file of a name (whefs_inode.c:671-736).
THEOREM LookupMissesNone ==
  ASSUME EmptyApart
  PROVE  Spec => []MissMeansAbsent
<1>1. Init => HitIsFile
  BY DEF Init, HitIsFile, Idle, Lookup
<1>2. NamesInv /\ HitIsFile /\ [Next]_vars => HitIsFile'
  BY HitStep
<1>3. NamesInv /\ HitIsFile => MissMeansAbsent
  <2> SUFFICES ASSUME NamesInv, HitIsFile, call.op \in Lookup, call.at \notin Inode,
                      NEW i \in Inode
               PROVE  name[i] # call.name
    BY DEF MissMeansAbsent
  <2>1. ~ call.exact /\ call.at >= 2 /\ call.at \in Nat
    BY DEF HitIsFile, NamesInv, TypeOK, Passed
  <2>2. i < call.at
    BY <2>1, CountAssumption DEF Inode
  <2> QED
    BY <2>1, <2>2 DEF NamesInv, Passed
<1> QED
  BY <1>1, <1>2, <1>3, NamesHold, PTL DEF Spec

LEMMA HitHolds ==
  ASSUME EmptyApart
  PROVE  Spec => [](NamesInv /\ HitIsFile /\ MissMeansAbsent)
<1>1. Init => HitIsFile
  BY DEF Init, HitIsFile, Idle, Lookup
<1>2. NamesInv /\ HitIsFile /\ [Next]_vars => HitIsFile'
  BY HitStep
<1>3. Spec => []MissMeansAbsent
  BY LookupMissesNone
<1> QED
  BY <1>1, <1>2, <1>3, NamesHold, PTL DEF Spec

\* A call that is asked for is in progress, others take one step.
LEMMA AskedWhen ==
  ASSUME NamesInv
  PROVE  /\ call = Idle => Asked = Names!Nothing
         /\ call' = Idle => Asked' = Names!Nothing
         /\ call.op \in Lookup => /\ Asked.op = call.op /\ Asked.name = call.name
                                  /\ call.name \in Name
         /\ NoName \notin Name
BY NameAssumption DEF Asked, Names!Nothing, Idle, Lookup, NamesInv, Passed

LEMMA DirectoryStep ==
  NamesInv /\ MissMeansAbsent /\ [Next]_vars => [Names!Next]_(Names!vars)
<1> SUFFICES ASSUME NamesInv, MissMeansAbsent, [Next]_vars,
                    ~ UNCHANGED <<name, readers, writers, Asked>>
             PROVE  Names!Next
  BY DEF Names!vars
<1>1. name \in [Inode -> Name \cup {NoName}] /\ NoName \notin Name
      /\ used \subseteq Inode /\ NamedIsUsed
      /\ readers \subseteq used /\ writers \subseteq used
      /\ (call.op \in Lookup => call.name \in Name)
  BY NameAssumption DEF NamesInv, TypeOK, NamedIsUsed, Passed
<1>2. ASSUME NEW op \in Lookup, NEW n \in Name, Begin(op, n)
      PROVE  Names!Next
  <2>1. Asked = Names!Nothing /\ UNCHANGED <<name, readers, writers>>
    BY <1>2, AskedWhen DEF Begin, Ready, files, opens
  <2>2. Asked' = [op |-> op, name |-> n]
    BY <1>2 DEF Begin, Asked, Lookup
  <2>3. Names!Ask(op, n)
    BY <2>1, <2>2 DEF Names!Ask
  <2> QED
    BY <2>3 DEF Names!Next, Lookup
<1>3. ASSUME NEW n \in Name, BeginTooLong(n)
      PROVE  Names!Next
  <2>1. Asked = Names!Nothing /\ UNCHANGED <<name, readers, writers>>
    BY <1>3, AskedWhen DEF BeginTooLong, Ready, files, opens
  <2>2. Asked' = [op |-> "write", name |-> n]
    BY <1>3 DEF BeginTooLong, Asked, Lookup
  <2>3. Names!Ask("write", n)
    BY <2>1, <2>2 DEF Names!Ask
  <2> QED
    BY <2>3 DEF Names!Next
<1>4. CASE NotFound
  <2>1. call' = Idle /\ call.at \notin Inode /\ UNCHANGED <<name, readers, writers>>
    BY <1>4 DEF NotFound, files, opens
  <2>2. CASE call.op = "read"
    <3>1. Asked.op = "read" /\ Asked.name = call.name /\ Asked' = Names!Nothing
      BY <2>1, <2>2, AskedWhen DEF Lookup
    <3>2. Names!Named(Asked.name) = {}
      BY <2>1, <2>2, <3>1 DEF MissMeansAbsent, Lookup, Names!Named
    <3>3. Names!OpenRead
      BY <2>1, <3>1, <3>2 DEF Names!OpenRead, Names!Answered
    <3> QED
      BY <3>3 DEF Names!Next
  <2>3. CASE call.op = "unlink"
    <3>1. Asked.op = "unlink" /\ Asked' = Names!Nothing
      BY <2>1, <2>3, AskedWhen DEF Lookup
    <3>2. Names!Unlink
      BY <2>1, <3>1 DEF Names!Unlink, Names!Answered
    <3> QED
      BY <3>2 DEF Names!Next
  <2> QED
    BY <1>4, <2>2, <2>3 DEF NotFound, Looking
<1>5. CASE FoundToRead
  <2>1. /\ call.op = "read" /\ call' = Idle
        /\ call.at \in Inode /\ name[call.at] = call.name
        /\ readers' = readers \cup {call.at} /\ UNCHANGED <<name, writers>>
    BY <1>1, <1>5 DEF FoundToRead, Looking, AtFile, files
  <2>2. Asked.op = "read" /\ Asked.name = call.name /\ Asked' = Names!Nothing
    BY <2>1, AskedWhen DEF Lookup
  <2>3. call.at \in Names!Named(Asked.name)
    BY <2>1, <2>2 DEF Names!Named
  <2>4. Names!OpenRead
    BY <2>1, <2>2, <2>3 DEF Names!OpenRead, Names!Answered
  <2> QED
    BY <2>4 DEF Names!Next
<1>6. CASE FoundToWrite
  <2>1. /\ call.op = "write" /\ call' = Idle
        /\ call.at \in Inode /\ name[call.at] = call.name
        /\ writers' = writers \cup {call.at} /\ UNCHANGED <<name, readers>>
    BY <1>1, <1>6 DEF FoundToWrite, Looking, AtFile, files
  <2>2. Asked.op = "write" /\ Asked.name = call.name /\ Asked' = Names!Nothing
    BY <2>1, AskedWhen DEF Lookup
  <2>3. call.at \in Names!Named(Asked.name)
    BY <2>1, <2>2 DEF Names!Named
  <2>4. Names!OpenWrite
    BY <2>1, <2>2, <2>3 DEF Names!OpenWrite, Names!Answered
  <2> QED
    BY <2>4 DEF Names!Next
<1>7. CASE Create
  <2>1. call.op = "write" /\ call' = Idle /\ call.at \notin Inode /\ UNCHANGED readers
    BY <1>7 DEF Create, Looking
  <2>2. Asked.op = "write" /\ Asked.name = call.name /\ Asked' = Names!Nothing
        /\ call.name \in Name
    BY <2>1, AskedWhen DEF Lookup
  <2>3. Names!Named(Asked.name) = {}
    BY <2>1, <2>2 DEF MissMeansAbsent, Lookup, Names!Named
  <2>4. CASE UNCHANGED <<name, writers>>
    BY <2>1, <2>2, <2>3, <2>4 DEF Names!Create, Names!Answered, Names!Next
  <2>5. CASE ~ UNCHANGED <<name, writers>>
    <3> DEFINE i == CHOOSE j \in Inode \ used : \A k \in Inode \ used : j <= k
    <3>1. used # Inode
      BY <1>7, <2>5 DEF Create
    <3>2. i \in Inode \ used
      <4>1. Inode \ used \subseteq Nat /\ Inode \ used # {}
        <5>1. Inode \subseteq Nat
          BY CountAssumption DEF Inode
        <5> QED
          BY <1>1, <3>1, <5>1
      <4>2. \E j \in Inode \ used : \A k \in Inode \ used : j <= k
        BY <4>1, LeastExists, Zenon
      <4> QED
        BY <4>2, Zenon
    <3>3. SetName(i, call.name) /\ writers' = writers \cup {i}
      BY <1>7, <2>5, <3>1 DEF Create, SetNameFails
    <3> HIDE DEF i
    <3>4. name' = [name EXCEPT ![i] = Asked.name] /\ name[i] = NoName
      BY <1>1, <2>2, <3>2, <3>3 DEF SetName, NamedIsUsed
    <3>5. i \in Names!Named(NoName)
      BY <3>2, <3>4 DEF Names!Named
    <3>6. Names!Create
      BY <2>1, <2>2, <2>3, <3>3, <3>4, <3>5 DEF Names!Create, Names!Answered
    <3> QED
      BY <3>6 DEF Names!Next
  <2> QED
    BY <2>4, <2>5
<1>8. CASE FoundToUnlink
  <2>1. /\ call.op = "unlink" /\ call' = Idle
        /\ call.at \in Inode /\ name[call.at] = call.name
        /\ UNCHANGED <<readers, writers>>
    BY <1>1, <1>8 DEF FoundToUnlink, Looking, AtFile, opens
  <2>2. Asked.op = "unlink" /\ Asked.name = call.name /\ Asked' = Names!Nothing
    BY <2>1, AskedWhen DEF Lookup
  <2>3. \/ UNCHANGED name
        \/ /\ call.at \notin readers \cup writers
           /\ name' = [name EXCEPT ![call.at] = NoName]
    BY <1>8 DEF FoundToUnlink, SetName, SetNameFails, files
  <2>4. call.at \in Names!Named(Asked.name)
    BY <2>1, <2>2 DEF Names!Named
  <2>5. Names!Unlink
    BY <2>1, <2>2, <2>3, <2>4 DEF Names!Unlink, Names!Answered
  <2> QED
    BY <2>5 DEF Names!Next
<1>9. CASE \E i \in Inode, n \in Name : Rename(i, n)
  <2>1. PICK i \in Inode, n \in Name : Rename(i, n)
    BY <1>9
  <2>2. /\ call = Idle /\ call' = Idle
        /\ i \in writers /\ UNCHANGED <<readers, writers>>
        /\ SetName(i, n) \/ UNCHANGED name
    BY <2>1 DEF Rename, Ready, SetNameFails, opens
  <2>3. Asked = Names!Nothing /\ Asked' = Names!Nothing
    BY <2>2, AskedWhen
  <2>4. SetName(i, n)
    BY <2>2, <2>3
  <2>5. Names!Rename(i, n)
    BY <2>2, <2>3, <2>4 DEF Names!Rename, SetName
  <2> QED
    BY <2>5 DEF Names!Next
<1>10. CASE \E i \in Inode : GetName(i) \/ FirstWrite(i) \/ CloseFile(i)
  <2>1. PICK i \in Inode : GetName(i) \/ FirstWrite(i) \/ CloseFile(i)
    BY <1>10
  <2>2. call = Idle /\ call' = Idle /\ UNCHANGED name
    BY <2>1 DEF GetName, FirstWrite, CloseFile, Ready, files
  <2>3. Asked = Names!Nothing /\ Asked' = Names!Nothing
    BY <2>2, AskedWhen
  <2>4. CloseFile(i)
    BY <2>1, <2>2, <2>3 DEF GetName, FirstWrite, opens
  <2>5. Names!Close(i)
    BY <2>2, <2>3, <2>4 DEF Names!Close, CloseFile
  <2> QED
    BY <2>5 DEF Names!Next
<1>11. CASE Remount
  <2>1. call = Idle /\ call' = Idle /\ UNCHANGED name /\ readers' = {} /\ writers' = {}
    BY <1>11 DEF Remount, Ready, files
  <2>2. Asked = Names!Nothing /\ Asked' = Names!Nothing
    BY <2>1, AskedWhen
  <2>3. Names!Remount
    BY <2>1, <2>2 DEF Names!Remount
  <2> QED
    BY <2>3 DEF Names!Next
<1>12. CASE LookOn
  <2>1. call'.op = call.op /\ call'.name = call.name
    BY <1>12 DEF LookOn, NamesInv, TypeOK
  <2> QED
    BY <1>12, <2>1 DEF LookOn, Asked, files, opens
<1>13. CASE LookupAborts
  BY <1>13 DEF LookupAborts, Asked, files, opens
<1>14. CASE CacheOff \/ CacheOn \/ Chomp
  <2>1. call' = call /\ UNCHANGED <<name, readers, writers>>
    BY <1>14 DEF CacheOff, CacheOn, Chomp, files, opens
  <2> QED
    BY <2>1 DEF Asked
<1>15. CASE CacheLoad
  <2>1. call = Idle /\ call'.op = "load" /\ UNCHANGED <<name, readers, writers>>
    BY <1>15 DEF CacheLoad, Ready, files, opens
  <2> QED
    BY <2>1 DEF Asked, Idle, Lookup
<1>16. CASE LoadName
  <2>1. call.op = "load" /\ UNCHANGED <<name, readers, writers>>
        /\ (call' = Idle \/ call' = [call EXCEPT !.at = @ - 1])
    BY <1>16 DEF LoadName, Looking, files, opens
  <2>2. call'.op \notin Lookup
    BY <2>1 DEF Idle, Lookup, NamesInv, TypeOK
  <2> QED
    BY <2>1, <2>2 DEF Asked, Lookup
<1>17. CASE UNCHANGED vars
  BY <1>17 DEF vars, files, opens, Asked
<1> QED
  BY <1>2, <1>3, <1>4, <1>5, <1>6, <1>7, <1>8, <1>9, <1>10, <1>11, <1>12, <1>13,
     <1>14, <1>15, <1>16, <1>17 DEF Next

\* When no name has the hash of the empty name, clients see a directory and
\* no hashes: two names may share a hash, and then calls fail, but what a call
\* opens or removes is a file of the name it was given, and a file is created
\* only when there is none (whefs_inode.c:671-736, whefs_file.c:98-165).
THEOREM DirectoryImplemented ==
  ASSUME EmptyApart
  PROVE  Spec => ImplementsDirectory
<1>1. Init => Names!Init
  BY DEF Init, Names!Init, Names!Nothing, Asked, Idle, Lookup
<1>2. NamesInv /\ MissMeansAbsent /\ [Next]_vars => [Names!Next]_(Names!vars)
  BY DirectoryStep
<1>3. Spec => [](NamesInv /\ HitIsFile /\ MissMeansAbsent)
  BY HitHolds
<1> QED
  BY <1>1, <1>2, <1>3, PTL DEF Spec, ImplementsDirectory, Names!Spec

-----------------------------------------------------------------------------
(***************************************************************************)
(* With different hashes for different names, the inode of a hit has the   *)
(* name looked for, and an inode found without a hit gets the only entry   *)
(* of its hash: so unlink, which has freed the blocks, can change it.      *)
(***************************************************************************)

Injective ==
  \A m, n \in Name \cup {NoName} : Hash[m] = Hash[n] => m = n

HitIsName ==
  call.op \in Lookup =>
    LET k == IndexOf(cache.list, Hash[call.name])
    IN  IF call.exact
          THEN /\ call.at \in Inode /\ name[call.at] = call.name
               /\ k # 0 /\ cache.list[k].id = call.at
          ELSE call.at \in Inode => k = 0

ExactInv == HitIsName /\ BlocksHeld /\ ~ aborted

\* Reading another name adds no entry of the hash looked for.
LEMMA ReadsOther ==
  ASSUME Injective, NamesInv, NEW i \in Inode, NEW n \in Name, name[i] # n,
         IndexOf(cache.list, Hash[n]) = 0
  PROVE  IndexOf(NameRead(cache, i).list, Hash[n]) = 0
<1> DEFINE l == cache.list
           e == [hash |-> Hash[name[i]], id |-> i]
           m == NameRead(cache, i).list
<1>1. TypeOK /\ cache \in CacheType /\ l \in Seq(Entry) /\ Hash[n] \in Nat
  BY HashAssumption DEF NamesInv, CacheOK, CacheType
<1>2. Hash[name[i]] # Hash[n] /\ e \in Entry
  BY <1>1, NameHashed DEF Injective, Entry
<1>3. \A j \in DOMAIN l : l[j].hash # Hash[n]
  BY <1>1, IndexOfIsFirst
<1>4. CASE NameRead(cache, i) = cache
  BY <1>4
<1>5. CASE NameRead(cache, i) \in CacheType /\ m = Sorted(l, e)
  <2>1. \A x \in DOMAIN m : m[x].hash # Hash[n]
    <3>1. \A x \in DOMAIN Sorted(l, e) :
            Sorted(l, e)[x] = e \/ \E j \in DOMAIN l : Sorted(l, e)[x] = l[j]
      BY <1>1, <1>2, SortedAdds
    <3>2. e.hash # Hash[n]
      BY <1>2
    <3> HIDE DEF e
    <3> QED
      BY <1>3, <1>5, <3>1, <3>2
  <2> QED
    BY <2>1 DEF IndexOf
<1> QED
  BY <1>1, <1>4, <1>5, NameReadAdds

\* The file that was found can be given another name.
LEMMA FoundCanName ==
  ASSUME Injective, NamesInv, HitIsName, call.op \in Lookup, AtFile
  PROVE  CanName(call.at, NoName)
<1> DEFINE i == call.at
           l == cache.list
           h == Hash[call.name]
           c == NameRead(cache, i)
           e == [hash |-> h, id |-> i]
           k == EntryToChange(i, NoName)
<1>1. /\ TypeOK /\ cache \in CacheType /\ l \in Seq(Entry)
      /\ call.name \in Name /\ i \in Inode /\ name[i] = call.name /\ h \in Nat
      /\ name[i] # NoName
  BY HashAssumption, NameAssumption
     DEF NamesInv, CacheOK, CacheType, Passed, AtFile, TypeOK
<1>2. NoName \notin LongName
  BY NameAssumption
<1>3. k = IF enabled THEN IndexOf(c.list, h) ELSE 0
  BY <1>1 DEF EntryToChange
<1>4. k # 0 => c.list[k].id = i
  <2>1. CASE ~ enabled
    BY <1>3, <2>1
  <2>2. CASE c = cache
    BY <1>1, <1>3, <2>2 DEF HitIsName
  <2>3. CASE /\ enabled /\ IndexOf(l, h) = 0 /\ c \in CacheType
             /\ c.list = Sorted(l, e)
    <3>1. e \in Entry
      BY <1>1 DEF Entry
    <3>2. \A j \in DOMAIN l : l[j].hash # h
      BY <1>1, <2>3, IndexOfIsFirst
    <3>3. c.list \in Seq(Entry)
      BY <2>3 DEF CacheType
    <3>4. k # 0 => k \in DOMAIN c.list /\ c.list[k].hash = h
      BY <1>1, <1>3, <3>3, IndexOfIsFirst
    <3>5. \A x \in DOMAIN c.list :
            c.list[x] = e \/ \E j \in DOMAIN l : c.list[x] = l[j]
      <4>1. \A x \in DOMAIN Sorted(l, e) :
              Sorted(l, e)[x] = e \/ \E j \in DOMAIN l : Sorted(l, e)[x] = l[j]
        BY <1>1, <3>1, SortedAdds
      <4> HIDE DEF e, l, c
      <4> QED
        BY <2>3, <4>1
    <3> QED
      BY <3>2, <3>4, <3>5
  <2> QED
    BY <1>1, <2>1, <2>2, <2>3, NameReadAdds
<1> QED
  BY <1>2, <1>4 DEF CanName, Collides

LEMMA ExactStep ==
  ASSUME Injective
  PROVE  NamesInv /\ ExactInv /\ [Next]_vars => ExactInv'
<1> SUFFICES ASSUME NamesInv, ExactInv, [Next]_vars
             PROVE  ExactInv'
  OBVIOUS
<1>1. ASSUME call' = Idle
      PROVE  HitIsName'
  BY <1>1 DEF HitIsName, Idle, Lookup
<1>2. ASSUME NEW op \in Lookup, NEW n \in Name, Begin(op, n)
      PROVE  ExactInv'
  <2> DEFINE k == IndexOf(cache.list, Hash[n])
  <2>1. /\ call'.name = n /\ call'.exact = (k # 0)
        /\ call'.at = IF k = 0 THEN 2 ELSE cache.list[k].id
        /\ UNCHANGED <<files, cache, aborted>>
    BY <1>2 DEF Begin
  <2>2. ASSUME k # 0
        PROVE  cache.list[k].id \in Inode /\ name[cache.list[k].id] = n
    <3>1. Hash[n] # Hash[NoName]
      BY NameAssumption DEF Injective
    <3>2. cache.list[k].id \in Inode /\ Hash[name[cache.list[k].id]] = Hash[n]
      BY <2>2, <3>1, HitOfName
    <3> QED
      BY <3>2 DEF Injective, NamesInv, TypeOK
  <2>3. HitIsName'
    BY <2>1, <2>2 DEF HitIsName, files, IndexOf, Inode
  <2> QED
    BY <2>1, <2>3 DEF ExactInv, BlocksHeld, files
<1>3. CASE LookOn
  <2>1. /\ call.op \in Lookup /\ call.at \in Inode /\ ~ AtFile
        /\ call.exact => AtNameless
        /\ cache' = IF call.at \in used THEN NameRead(cache, call.at) ELSE cache
        /\ call' = [call EXCEPT !.at = @ + 1]
        /\ UNCHANGED <<files, opens, enabled, aborted>>
    BY <1>3 DEF LookOn
  <2>2. call.name \in Name /\ call.name # NoName
    BY <2>1, NameAssumption DEF NamesInv, Passed
  <2>3. ~ call.exact
    BY <2>1, <2>2 DEF ExactInv, HitIsName, AtNameless
  <2>4. IndexOf(cache'.list, Hash[call.name]) = 0
    <3>1. IndexOf(cache.list, Hash[call.name]) = 0
      BY <2>1, <2>3 DEF ExactInv, HitIsName
    <3>2. CASE call.at \in used
      BY <2>1, <2>2, <3>1, <3>2, ReadsOther DEF AtFile
    <3>3. CASE call.at \notin used
      BY <2>1, <3>1, <3>3
    <3> QED
      BY <3>2, <3>3
  <2>5. ~ call'.exact /\ call'.name = call.name
    BY <2>1, <2>3 DEF NamesInv, TypeOK
  <2>6. HitIsName'
    BY <2>4, <2>5 DEF HitIsName, IndexOf
  <2> QED
    BY <2>1, <2>6 DEF ExactInv, BlocksHeld, files
<1>4. CASE LookupAborts
  <2>1. call.op \in Lookup /\ call.at \in Inode /\ call.exact /\ ~ AtFile
    BY <1>4 DEF LookupAborts
  <2>2. name[call.at] = call.name /\ call.name # NoName
    BY <2>1, NameAssumption DEF ExactInv, HitIsName, NamesInv, Passed
  <2> QED
    BY <2>1, <2>2 DEF AtFile, NamesInv, NamedIsUsed
<1>5. CASE FoundToUnlink
  <2>1. /\ call.op \in Lookup /\ AtFile /\ call' = Idle /\ UNCHANGED aborted
        /\ \/ UNCHANGED files
           \/ /\ held' = held \ {call.at}
              /\ \/ first' = first \ {call.at}
                 \/ SetNameFails(call.at, NoName)
    BY <1>5 DEF FoundToUnlink, Looking, Lookup
  <2>2. ~ SetNameFails(call.at, NoName)
    BY <2>1, FoundCanName DEF SetNameFails, ExactInv
  <2> QED
    BY <1>1, <2>1, <2>2 DEF ExactInv, BlocksHeld, files
<1>6. CASE \E n \in Name : BeginTooLong(n)
  <2>1. /\ ~ call'.exact /\ call'.at = NumInodes + 1
        /\ UNCHANGED <<files, aborted>>
    BY <1>6 DEF BeginTooLong
  <2>2. call'.at \notin Inode
    BY <2>1, CountAssumption DEF Inode
  <2>3. HitIsName'
    BY <2>1, <2>2 DEF HitIsName, Inode
  <2> QED
    BY <2>1, <2>3 DEF ExactInv, BlocksHeld, files
<1>7. CASE CacheLoad
  BY <1>7 DEF CacheLoad, ExactInv, HitIsName, BlocksHeld, Lookup, files
<1>8. CASE LoadName
  <2>1. call.op = "load" /\ UNCHANGED <<files, aborted>>
        /\ (call' = Idle \/ call' = [call EXCEPT !.at = @ - 1])
    BY <1>8 DEF LoadName, Looking
  <2>2. call'.op \notin Lookup
    BY <2>1 DEF Idle, Lookup, NamesInv, TypeOK
  <2> QED
    BY <2>1, <2>2 DEF ExactInv, HitIsName, BlocksHeld, files, Lookup
<1>9. CASE NotFound \/ FoundToRead \/ FoundToWrite \/ Create
  BY <1>1, <1>9
     DEF NotFound, FoundToRead, FoundToWrite, Create, ExactInv, BlocksHeld, files
<1>10. CASE \E i \in Inode, n \in Name : Rename(i, n)
  BY <1>1, <1>10 DEF Rename, Ready, ExactInv, BlocksHeld
<1>11. CASE \E i \in Inode : GetName(i) \/ FirstWrite(i) \/ CloseFile(i)
  BY <1>1, <1>11
     DEF GetName, FirstWrite, CloseFile, Ready, ExactInv, BlocksHeld, files
<1>12. CASE Remount \/ CacheOff \/ CacheOn \/ Chomp
  <2>1. CASE Chomp
    <3>1. call' = Idle /\ UNCHANGED <<files, aborted>>
      BY <2>1 DEF Chomp, Ready
    <3> QED
      BY <1>1, <3>1 DEF ExactInv, BlocksHeld, files
  <2>2. CASE Remount \/ CacheOff \/ CacheOn
    BY <1>1, <2>2 DEF Remount, CacheOff, CacheOn, Ready, ExactInv, BlocksHeld, files
  <2> QED
    BY <1>12, <2>1, <2>2
<1>13. CASE UNCHANGED vars
  BY <1>13 DEF vars, files, ExactInv, HitIsName, BlocksHeld, IndexOf, Inode, Lookup
<1> QED
  BY <1>2, <1>3, <1>4, <1>5, <1>6, <1>7, <1>8, <1>9, <1>10, <1>11, <1>12, <1>13
     DEF Next

LEMMA ExactHolds ==
  ASSUME Injective
  PROVE  Spec => []ExactInv
<1>1. Init => ExactInv
  BY DEF Init, ExactInv, HitIsName, BlocksHeld, Idle, Lookup
<1>2. NamesInv /\ ExactInv /\ [Next]_vars => ExactInv'
  BY ExactStep
<1> QED
  BY <1>1, <1>2, NamesHold, PTL DEF Spec

\* When no two names have one hash, the assertions of whefs_inode_by_name
\* (whefs_inode.c:701 and 726-727) hold, whatever is renamed or unlinked and
\* however the cache is switched and cut.
THEOREM LookupNeverAborts ==
  ASSUME Injective
  PROVE  Spec => []NeverAborts
<1>1. ExactInv => NeverAborts
  BY DEF ExactInv, NeverAborts
<1> QED
  BY <1>1, ExactHolds, PTL

\* When no two names have one hash, unlink never stops between freeing the
\* blocks of a file and clearing its inode (whefs_inode.c:616-624), even when
\* renaming has made two files of one name.
THEOREM UnlinkKeepsBlocks ==
  ASSUME Injective
  PROVE  Spec => []BlocksHeld
<1>1. ExactInv => BlocksHeld
  BY DEF ExactInv
<1> QED
  BY <1>1, ExactHolds, PTL

=============================================================================
