-------------------------- MODULE WhefsPartsProofs --------------------------
(***************************************************************************)
(* What is proved of the parts of the container that share no state with   *)
(* others: the closers, the layout, listings, bitsets and devices.  First  *)
(* of each part by itself, in the order of WhefsParts, then of all of      *)
(* WhefsParts.  WhioPartsProofs has the parts below the container.         *)
(***************************************************************************)
EXTENDS Sequences, WhefsParts, WellFoundedInduction, FiniteSetTheorems, SequenceTheorems,
        TLAPS

\* A set of numbers has a least member.
LEMMA LeastExists ==
  ASSUME NEW T, T \subseteq Nat, T # {}
  PROVE  \E m \in T : \A k \in T : m <= k
<1> DEFINE R == {ss \in Nat \X Nat : ss[1] < ss[2]}
<1>1. R = OpToRel(<, Nat)
  BY DEF OpToRel
<1>2. IsWellFoundedOn(R, Nat)
  BY <1>1, NatLessThanWellFounded, Zenon
<1>3. \E x \in T : \A y \in T : ~ (<<y, x>> \in R)
  BY <1>2, WFMin
<1>4. \A x, y \in T : x < y => <<x, y>> \in R
  OBVIOUS
<1> HIDE DEF R
<1>5. PICK m \in T : \A y \in T : ~ (<<y, m>> \in R)
  BY <1>3
<1>6. \A k \in T : ~ (k < m)
  BY <1>4, <1>5
<1> QED
  BY <1>6

-----------------------------------------------------------------------------
(***************************************************************************)
(* The list of closers.                                                    *)
(***************************************************************************)

Lists ==
  [type : [Obj -> {"none"} \cup Closing!Kinds], prev : [Obj -> Obj \cup {Nil}],
   next : [Obj -> Obj \cup {Nil}], closers : Obj \cup {Nil}]

Registered(l) == {o \in Obj : l.type[o] # "none"}

\* The entries are linked in the order of their ranks.
Chain(l, r, n) ==
  /\ n \in Nat /\ r \in [Obj -> 0..n]
  /\ \A o \in Obj \ Registered(l) : l.next[o] = Nil /\ l.prev[o] = Nil
  /\ \A o \in Registered(l) :
       l.next[o] \in Registered(l) \cup {Nil} /\ l.prev[o] \in Registered(l) \cup {Nil}
  /\ \A o, p \in Registered(l) :
       /\ r[o] = r[p] => o = p
       /\ l.next[o] = p <=> l.prev[p] = o
       /\ l.next[o] = p => r[o] < r[p]
       /\ l.next[o] = Nil => r[p] <= r[o]
       /\ l.prev[o] = Nil => r[o] <= r[p]
  /\ \A o, p, q \in Registered(l) : l.next[o] = p => r[q] <= r[o] \/ r[p] <= r[q]

Linked(l) == l \in Lists /\ \E n \in Nat : \E r \in [Obj -> 0..n] : Chain(l, r, n)

\* closers points to an entry, if there is one.
Pointed(l) ==
  (l.closers = Nil /\ Registered(l) = {}) \/ l.closers \in Registered(l)

OpenEntries == Registered(list) = {o \in Obj : open[o] # "none"} \ missed

ClosersInv ==
  /\ open \in [Obj -> {"none"} \cup Closing!Kinds] /\ closed \in [Obj -> 0..1]
  /\ list \in Lists /\ missed \subseteq Obj
  /\ phase \in {"open", "close", "inodes", "closed"}
  /\ \A o \in Obj : closed[o] = 1 => open[o] = "none"
  /\ phase \in {"open", "close"} =>
       /\ Linked(list) /\ OpenEntries
       /\ \A o \in Registered(list) : list.type[o] = open[o]
  /\ phase = "open" => Pointed(list)
  /\ phase = "close" =>
       list.closers = Nil /\ closing \in Registered(list) /\ list.prev[closing] = Nil
  /\ phase \in {"inodes", "closed"} /\ autoClose =>
       \A o \in Obj : open[o] # "none" => o \in missed

-----------------------------------------------------------------------------
\* The least rank with a property.
LEMMA LeastRanked ==
  ASSUME NEW n \in Nat, NEW r \in [Obj -> 0..n], NEW S \in SUBSET Obj, S # {}
  PROVE  /\ \E o \in S : \A p \in S : r[o] <= r[p]
         /\ \E o \in S : \A p \in S : r[p] <= r[o]
<1>1. \E o \in S : \A p \in S : r[o] <= r[p]
  <2> DEFINE T == {r[o] : o \in S}
  <2>1. T \subseteq Nat /\ T # {}
    OBVIOUS
  <2> HIDE DEF T
  <2>2. PICK m \in T : \A k \in T : m <= k
    BY <2>1, LeastExists
  <2> QED
    BY <2>2 DEF T
<1>2. \E o \in S : \A p \in S : r[p] <= r[o]
  <2> DEFINE T == {n - r[o] : o \in S}
  <2>1. T \subseteq Nat /\ T # {}
    OBVIOUS
  <2> HIDE DEF T
  <2>2. PICK m \in T : \A k \in T : m <= k
    BY <2>1, LeastExists
  <2>3. PICK o \in S : m = n - r[o]
    BY <2>2 DEF T
  <2>4. \A p \in S : n - r[o] <= n - r[p]
    BY <2>2, <2>3 DEF T
  <2>5. \A p \in S : r[p] \in Int
    OBVIOUS
  <2>6. \A p \in S : r[p] <= r[o]
    BY <2>4, <2>5
  <2> QED
    BY <2>6
<1> QED
  BY <1>1, <1>2

LEMMA FirstIs ==
  ASSUME Closing!NilAssumption, NEW l \in Lists, NEW n, NEW r, Chain(l, r, n),
         NEW x \in Registered(l)
  PROVE  /\ Closing!First(l, x) \in Registered(l)
         /\ l.prev[Closing!First(l, x)] = Nil
<1> DEFINE E == Registered(l)
           Rec(g) == g = [y \in Obj |-> IF l.prev[y] = Nil THEN y ELSE g[l.prev[y]]]
           f == CHOOSE g : Rec(g)
<1>1. E \subseteq Obj /\ n \in Nat /\ r \in [Obj -> 0..n] /\ E # {}
  BY DEF Registered, Chain
<1>2. Closing!First(l, x) = f[x]
  BY Zenon DEF Closing!First
<1>3. PICK m \in E : \A p \in E : r[m] <= r[p]
  BY <1>1, LeastRanked
<1>4. l.prev[m] = Nil
  BY <1>1, <1>3 DEF Chain
<1> DEFINE w == [y \in Obj |-> IF y \in E THEN m ELSE y]
<1>5. \A y \in Obj : w[y] = IF l.prev[y] = Nil THEN y ELSE w[l.prev[y]]
  <2> SUFFICES ASSUME NEW y \in Obj
               PROVE  w[y] = IF l.prev[y] = Nil THEN y ELSE w[l.prev[y]]
    OBVIOUS
  <2>1. CASE y \notin E
    BY <2>1 DEF Chain
  <2>2. CASE y \in E /\ l.prev[y] = Nil
    <3>1. r[y] <= r[m] /\ r[m] <= r[y]
      BY <1>3, <2>2 DEF Chain
    <3>2. y = m
      BY <1>1, <1>3, <2>2, <3>1 DEF Chain
    <3> QED
      BY <2>2, <3>2
  <2>3. CASE y \in E /\ l.prev[y] # Nil
    <3>1. l.prev[y] \in E
      BY <2>3 DEF Chain
    <3> QED
      BY <1>1, <2>3, <3>1
  <2> QED
    BY <2>1, <2>2, <2>3
<1>6. Rec(w)
  <2> DEFINE v == [y \in Obj |-> IF l.prev[y] = Nil THEN y ELSE w[l.prev[y]]]
  <2>1. \A y \in Obj : w[y] = v[y]
    <3> HIDE DEF w
    <3> QED
      BY <1>5
  <2>2. w = v
    <3>1. w = [y \in Obj |-> w[y]] /\ v = [y \in Obj |-> v[y]]
      OBVIOUS
    <3> HIDE DEF w, v
    <3> QED
      BY <2>1, <3>1
  <2> QED
    BY <2>2
<1>7. Rec(f)
  <2> HIDE DEF Rec
  <2> QED
    BY <1>6
<1> HIDE DEF f, w
<1>8. \A y \in Obj : f[y] = IF l.prev[y] = Nil THEN y ELSE f[l.prev[y]]
  BY <1>7
<1> HIDE DEF Rec
<1>9. \A y \in E : f[y] \in E /\ l.prev[f[y]] = Nil
  <2> DEFINE B == {y \in E : ~(f[y] \in E /\ l.prev[f[y]] = Nil)}
  <2>1. SUFFICES ASSUME B # {} PROVE FALSE
    OBVIOUS
  <2>2. PICK y \in B : \A p \in B : r[y] <= r[p]
    BY <1>1, <2>1, LeastRanked
  <2>3. l.prev[y] # Nil
    BY <1>1, <1>8, <2>2
  <2>4. l.prev[y] \in E /\ l.next[l.prev[y]] = y
    BY <2>2, <2>3 DEF Chain
  <2>5. r[l.prev[y]] < r[y]
    BY <2>2, <2>4 DEF Chain
  <2>6. l.prev[y] \notin B
    BY <1>1, <2>2, <2>4, <2>5
  <2>7. f[y] = f[l.prev[y]]
    BY <1>1, <1>8, <2>2, <2>3
  <2> QED
    BY <2>2, <2>4, <2>6, <2>7
<1> QED
  BY <1>2, <1>9

LEMMA LastIs ==
  ASSUME Closing!NilAssumption, NEW l \in Lists, NEW n, NEW r, Chain(l, r, n),
         NEW x \in Registered(l)
  PROVE  /\ Closing!Last(l, x) \in Registered(l)
         /\ l.next[Closing!Last(l, x)] = Nil
<1> DEFINE E == Registered(l)
           Rec(g) == g = [y \in Obj |-> IF l.next[y] = Nil THEN y ELSE g[l.next[y]]]
           f == CHOOSE g : Rec(g)
<1>1. E \subseteq Obj /\ n \in Nat /\ r \in [Obj -> 0..n] /\ E # {}
  BY DEF Registered, Chain
<1>2. Closing!Last(l, x) = f[x]
  BY Zenon DEF Closing!Last
<1>3. PICK m \in E : \A p \in E : r[p] <= r[m]
  BY <1>1, LeastRanked
<1>4. l.next[m] = Nil
  BY <1>1, <1>3 DEF Chain
<1> DEFINE w == [y \in Obj |-> IF y \in E THEN m ELSE y]
<1>5. \A y \in Obj : w[y] = IF l.next[y] = Nil THEN y ELSE w[l.next[y]]
  <2> SUFFICES ASSUME NEW y \in Obj
               PROVE  w[y] = IF l.next[y] = Nil THEN y ELSE w[l.next[y]]
    OBVIOUS
  <2>1. CASE y \notin E
    BY <2>1 DEF Chain
  <2>2. CASE y \in E /\ l.next[y] = Nil
    <3>1. r[y] <= r[m] /\ r[m] <= r[y]
      BY <1>3, <2>2 DEF Chain
    <3>2. y = m
      BY <1>1, <1>3, <2>2, <3>1 DEF Chain
    <3> QED
      BY <2>2, <3>2
  <2>3. CASE y \in E /\ l.next[y] # Nil
    <3>1. l.next[y] \in E
      BY <2>3 DEF Chain
    <3> QED
      BY <1>1, <2>3, <3>1
  <2> QED
    BY <2>1, <2>2, <2>3
<1>6. Rec(w)
  <2> DEFINE v == [y \in Obj |-> IF l.next[y] = Nil THEN y ELSE w[l.next[y]]]
  <2>1. \A y \in Obj : w[y] = v[y]
    <3> HIDE DEF w
    <3> QED
      BY <1>5
  <2>2. w = v
    <3>1. w = [y \in Obj |-> w[y]] /\ v = [y \in Obj |-> v[y]]
      OBVIOUS
    <3> HIDE DEF w, v
    <3> QED
      BY <2>1, <3>1
  <2> QED
    BY <2>2
<1>7. Rec(f)
  <2> HIDE DEF Rec
  <2> QED
    BY <1>6
<1> HIDE DEF f, w
<1>8. \A y \in Obj : f[y] = IF l.next[y] = Nil THEN y ELSE f[l.next[y]]
  BY <1>7
<1> HIDE DEF Rec
<1>9. \A y \in E : f[y] \in E /\ l.next[f[y]] = Nil
  <2> DEFINE B == {y \in E : ~(f[y] \in E /\ l.next[f[y]] = Nil)}
  <2>1. SUFFICES ASSUME B # {} PROVE FALSE
    OBVIOUS
  <2>2. PICK y \in B : \A p \in B : r[p] <= r[y]
    BY <1>1, <2>1, LeastRanked
  <2>3. l.next[y] # Nil
    BY <1>1, <1>8, <2>2
  <2>4. l.next[y] \in E
    BY <2>2, <2>3 DEF Chain
  <2>5. r[y] < r[l.next[y]]
    BY <2>2, <2>4 DEF Chain
  <2>6. l.next[y] \notin B
    BY <1>1, <2>2, <2>4, <2>5
  <2>7. f[y] = f[l.next[y]]
    BY <1>1, <1>8, <2>2, <2>3
  <2> QED
    BY <2>2, <2>4, <2>6, <2>7
<1> QED
  BY <1>2, <1>9

LEMMA OnwardIs ==
  ASSUME Closing!NilAssumption, NEW l \in Lists, NEW n, NEW r, Chain(l, r, n),
         NEW x \in Registered(l), l.prev[x] = Nil
  PROVE  Closing!Onward(l, x) = Registered(l)
<1> DEFINE E == Registered(l)
           Rec(g) == g = [y \in Obj |-> {y} \cup (IF l.next[y] = Nil THEN {} ELSE g[l.next[y]])]
           f == CHOOSE g : Rec(g)
<1>1. E \subseteq Obj /\ n \in Nat /\ r \in [Obj -> 0..n] /\ x # Nil
  BY DEF Registered, Chain, Closing!NilAssumption
<1>2. Closing!Onward(l, x) = f[x]
  <2> HIDE DEF f, Rec
  <2>1. Closing!Onward(l, x) = IF x = Nil THEN {} ELSE f[x]
    BY Zenon DEF Closing!Onward, f, Rec
  <2> QED
    BY <1>1, <2>1
<1> DEFINE up(y) == {p \in E : r[y] <= r[p]}
           w == [y \in Obj |-> IF y \in E THEN up(y) ELSE {y}]
<1>5. \A y \in Obj : w[y] = {y} \cup (IF l.next[y] = Nil THEN {} ELSE w[l.next[y]])
  <2> SUFFICES ASSUME NEW y \in Obj
               PROVE  w[y] = {y} \cup (IF l.next[y] = Nil THEN {} ELSE w[l.next[y]])
    OBVIOUS
  <2>1. CASE y \notin E
    BY <2>1 DEF Chain
  <2>2. CASE y \in E /\ l.next[y] = Nil
    <3>1. up(y) = {y}
      <4>1. \A p \in E : r[y] <= r[p] <=> p = y
        BY <1>1, <2>2 DEF Chain
      <4> QED
        BY <2>2, <4>1
    <3> QED
      BY <2>2, <3>1
  <2>3. CASE y \in E /\ l.next[y] # Nil
    <3>1. l.next[y] \in E
      BY <2>3 DEF Chain
    <3> DEFINE p == l.next[y]
    <3>2. /\ r[y] < r[p]
          /\ \A q \in E : r[q] <= r[y] \/ r[p] <= r[q]
          /\ \A q \in E : r[q] = r[y] => q = y
      BY <2>3, <3>1 DEF Chain
    <3> HIDE DEF E
    <3>3. \A q \in E : r[y] <= r[q] <=> q = y \/ r[p] <= r[q]
      <4>1. \A q \in E : r[q] \in Int
        BY <1>1
      <4> QED
        BY <2>3, <3>1, <3>2, <4>1
    <3>4. up(y) = {y} \cup up(p)
      BY <2>3, <3>3
    <3> QED
      BY <1>1, <2>3, <3>1, <3>4
  <2> QED
    BY <2>1, <2>2, <2>3
<1>6. Rec(w)
  <2> DEFINE v == [y \in Obj |-> {y} \cup (IF l.next[y] = Nil THEN {} ELSE w[l.next[y]])]
  <2>1. \A y \in Obj : w[y] = v[y]
    <3> HIDE DEF w
    <3> QED
      BY <1>5
  <2>2. w = v
    <3>1. w = [y \in Obj |-> w[y]] /\ v = [y \in Obj |-> v[y]]
      OBVIOUS
    <3> HIDE DEF w, v
    <3> QED
      BY <2>1, <3>1
  <2> QED
    BY <2>2
<1>7. Rec(f)
  <2> HIDE DEF Rec
  <2> QED
    BY <1>6
<1> HIDE DEF f, w
<1>8. \A y \in Obj : f[y] = {y} \cup (IF l.next[y] = Nil THEN {} ELSE f[l.next[y]])
  BY <1>7
<1> HIDE DEF Rec
<1>9. \A y \in E : f[y] = up(y)
  <2> DEFINE B == {y \in E : f[y] # up(y)}
  <2>1. SUFFICES ASSUME B # {} PROVE FALSE
    OBVIOUS
  <2>2. PICK y \in B : \A p \in B : r[p] <= r[y]
    BY <1>1, <2>1, LeastRanked
  <2>3. up(y) = {y} \cup (IF l.next[y] = Nil THEN {} ELSE up(l.next[y]))
    <3>1. w[y] = up(y)
      BY <1>1, <2>2 DEF w
    <3>2. l.next[y] # Nil => w[l.next[y]] = up(l.next[y])
      <4>1. l.next[y] # Nil => l.next[y] \in E
        BY <2>2 DEF Chain
      <4> QED
        BY <1>1, <4>1 DEF w
    <3> HIDE DEF up
    <3> QED
      BY <1>1, <1>5, <2>2, <3>1, <3>2
  <2>4. l.next[y] # Nil => f[l.next[y]] = up(l.next[y])
    <3>1. SUFFICES ASSUME l.next[y] # Nil PROVE f[l.next[y]] = up(l.next[y])
      OBVIOUS
    <3>2. l.next[y] \in E /\ r[y] < r[l.next[y]]
      BY <2>2, <3>1 DEF Chain
    <3>3. l.next[y] \notin B
      BY <1>1, <2>2, <3>2
    <3> QED
      BY <3>2, <3>3
  <2>5. f[y] = up(y)
    <3> HIDE DEF up
    <3> QED
      BY <1>1, <1>8, <2>2, <2>3, <2>4
  <2> QED
    BY <2>2, <2>5
<1>10. up(x) = E
  BY <1>1 DEF Chain
<1> QED
  BY <1>2, <1>9, <1>10

LEMMA EntriesAre ==
  ASSUME Closing!NilAssumption, NEW l, Linked(l), Pointed(l)
  PROVE  Closing!Entries(l) = Registered(l)
<1>1. Nil \notin Registered(l)
  BY DEF Registered, Closing!NilAssumption
<1>2. CASE l.closers = Nil
  BY <1>1, <1>2 DEF Pointed, Closing!Entries
<1>3. CASE l.closers # Nil
  <2>1. l.closers \in Registered(l)
    BY <1>3 DEF Pointed
  <2>0. PICK n \in Nat : \E r \in [Obj -> 0..n] : Chain(l, r, n)
    BY DEF Linked
  <2>2. PICK r \in [Obj -> 0..n] : Chain(l, r, n)
    BY <2>0
  <2> DEFINE x == Closing!First(l, l.closers)
  <2>3. x \in Registered(l) /\ l.prev[x] = Nil
    BY <2>1, <2>2, FirstIs DEF Linked
  <2>4. Closing!Entries(l) = Closing!Onward(l, x)
    BY <1>3 DEF Closing!Entries
  <2> HIDE DEF x
  <2> QED
    BY <2>2, <2>3, <2>4, OnwardIs DEF Linked
<1> QED
  BY <1>2, <1>3

-----------------------------------------------------------------------------
NextWithout(l, o) ==
  [x \in Obj |-> IF x = o THEN Nil ELSE IF x = l.prev[o] THEN l.next[o] ELSE l.next[x]]
PrevWithout(l, o) ==
  [x \in Obj |-> IF x = o THEN Nil ELSE IF x = l.next[o] THEN l.prev[o] ELSE l.prev[x]]

LEMMA WithoutTypes ==
  ASSUME NEW l \in Lists, NEW o \in Obj
  PROVE  /\ NextWithout(l, o) \in [Obj -> Obj \cup {Nil}]
         /\ PrevWithout(l, o) \in [Obj -> Obj \cup {Nil}]
BY DEF Lists, NextWithout, PrevWithout

LEMMA UnlinkedIs ==
  ASSUME NEW l \in Lists, NEW o \in Obj
  PROVE  LET u == Closing!Unlinked(l, o) IN
         /\ u \in Lists /\ u.type = l.type /\ u.closers = l.closers
         /\ u.next = NextWithout(l, o) /\ u.prev = PrevWithout(l, o)
<1> DEFINE a == NextWithout(l, o)
           b == PrevWithout(l, o)
           u == [l EXCEPT !.next = a, !.prev = b]
<1>1. Closing!Unlinked(l, o) = u
  BY DEF Closing!Unlinked, Lists, NextWithout, PrevWithout
<1>2. a \in [Obj -> Obj \cup {Nil}] /\ b \in [Obj -> Obj \cup {Nil}]
  BY WithoutTypes
<1> HIDE DEF a, b
<1>3. /\ u \in Lists /\ u.type = l.type /\ u.closers = l.closers
      /\ u.next = a /\ u.prev = b
  BY <1>2 DEF Lists
<1> HIDE DEF u
<1> QED
  BY <1>1, <1>3 DEF a, b

LEMMA TypeSet ==
  ASSUME NEW l \in Lists, NEW o \in Obj, NEW k \in {"none"} \cup Closing!Kinds
  PROVE  LET t == [l EXCEPT !.type[o] = k] IN
         /\ t \in Lists /\ t.type = [l.type EXCEPT ![o] = k] /\ t.closers = l.closers
         /\ t.next = l.next /\ t.prev = l.prev
<1> DEFINE c == [l.type EXCEPT ![o] = k]
<1>1. c \in [Obj -> {"none"} \cup Closing!Kinds]
  BY DEF Lists
<1>2. [l EXCEPT !.type[o] = k] = [l EXCEPT !.type = c]
  BY DEF Lists
<1> HIDE DEF c
<1>3. LET t == [l EXCEPT !.type = c] IN
      /\ t \in Lists /\ t.type = c /\ t.closers = l.closers
      /\ t.next = l.next /\ t.prev = l.prev
  BY <1>1 DEF Lists
<1> QED
  BY <1>2, <1>3 DEF c

LEMMA FreedIs ==
  ASSUME NEW l \in Lists, NEW o \in Obj
  PROVE  LET u == Closing!Freed(l, o) IN
         /\ u \in Lists /\ u.type = [l.type EXCEPT ![o] = "none"] /\ u.closers = l.closers
         /\ u.next = NextWithout(l, o) /\ u.prev = PrevWithout(l, o)
<1> DEFINE v == Closing!Unlinked(l, o)
<1>1. /\ v \in Lists /\ v.type = l.type /\ v.closers = l.closers
      /\ v.next = NextWithout(l, o) /\ v.prev = PrevWithout(l, o)
  BY UnlinkedIs
<1>2. Closing!Freed(l, o) = [v EXCEPT !.type[o] = "none"]
  BY DEF Closing!Freed
<1>3. "none" \in {"none"} \cup Closing!Kinds
  OBVIOUS
<1> HIDE DEF v
<1>4. LET t == [v EXCEPT !.type[o] = "none"] IN
      /\ t \in Lists /\ t.type = [v.type EXCEPT ![o] = "none"] /\ t.closers = v.closers
      /\ t.next = v.next /\ t.prev = v.prev
  BY <1>1, <1>3, TypeSet
<1> QED
  BY <1>1, <1>2, <1>4

\* An entry out of the list: the others keep their ranks.
LEMMA FreedLinked ==
  ASSUME Closing!NilAssumption, NEW l, Linked(l), NEW o \in Registered(l),
         NEW u \in Lists, u.type = [l.type EXCEPT ![o] = "none"],
         u.next = NextWithout(l, o), u.prev = PrevWithout(l, o)
  PROVE  /\ Linked(u) /\ Registered(u) = Registered(l) \ {o}
         /\ l.next[o] \in Registered(u) \cup {Nil} /\ l.prev[o] \in Registered(u) \cup {Nil}
         /\ l.next[o] = Nil /\ l.prev[o] = Nil => Registered(u) = {}
         /\ l.next[o] # Nil => u.prev[l.next[o]] = l.prev[o]
<1>0. PICK n \in Nat : \E r \in [Obj -> 0..n] : Chain(l, r, n)
  BY DEF Linked
<1>1. PICK r \in [Obj -> 0..n] : Chain(l, r, n)
  BY <1>0
<1> DEFINE E == Registered(l)
           p == l.prev[o]
           q == l.next[o]
<1>2. l \in Lists /\ E \subseteq Obj /\ Nil \notin Obj
  BY DEF Linked, Registered, Closing!NilAssumption
<1>3. Registered(u) = E \ {o}
  BY <1>2 DEF Registered, Lists
<1>4. /\ \A x \in Obj \ E : l.next[x] = Nil /\ l.prev[x] = Nil
      /\ \A x \in E : l.next[x] \in E \cup {Nil} /\ l.prev[x] \in E \cup {Nil}
      /\ \A x, y \in E :
           /\ r[x] = r[y] => x = y
           /\ l.next[x] = y <=> l.prev[y] = x
           /\ l.next[x] = y => r[x] < r[y]
           /\ l.next[x] = Nil => r[y] <= r[x]
           /\ l.prev[x] = Nil => r[x] <= r[y]
      /\ \A x, y, w \in E : l.next[x] = y => r[w] <= r[x] \/ r[y] <= r[w]
  BY <1>1 DEF Chain
<1>5. /\ \A x \in Obj : u.next[x] = IF x = o THEN Nil ELSE IF x = p THEN q ELSE l.next[x]
      /\ \A x \in Obj : u.prev[x] = IF x = o THEN Nil ELSE IF x = q THEN p ELSE l.prev[x]
  BY DEF NextWithout, PrevWithout
<1>6. /\ p \in E \cup {Nil} /\ q \in E \cup {Nil} /\ o \in E
      /\ p # o /\ q # o
      /\ p # Nil => l.next[p] = o /\ r[p] < r[o]
      /\ q # Nil => l.prev[q] = o /\ r[o] < r[q]
  BY <1>2, <1>4
<1>7. \A x \in E : r[x] \in Int
  BY <1>2
<1> HIDE DEF E, p, q
<1>8. \A x \in Obj \ Registered(u) : u.next[x] = Nil /\ u.prev[x] = Nil
  BY <1>2, <1>3, <1>4, <1>5, <1>6
<1>9. \A x \in Registered(u) :
        u.next[x] \in Registered(u) \cup {Nil} /\ u.prev[x] \in Registered(u) \cup {Nil}
  <2> SUFFICES ASSUME NEW x \in E, x # o
               PROVE  u.next[x] \in (E \ {o}) \cup {Nil} /\ u.prev[x] \in (E \ {o}) \cup {Nil}
    BY <1>3
  <2>1. l.next[x] = o => x = p
    BY <1>4, <1>6 DEF p
  <2>2. l.prev[x] = o => x = q
    BY <1>4, <1>6 DEF q
  <2> QED
    BY <1>2, <1>4, <1>5, <1>6, <2>1, <2>2
<1>10. ASSUME NEW x \in E \ {o}, NEW y \in E \ {o}
       PROVE  /\ r[x] = r[y] => x = y
              /\ u.next[x] = y <=> u.prev[y] = x
              /\ u.next[x] = y => r[x] < r[y]
              /\ u.next[x] = Nil => r[y] <= r[x]
              /\ u.prev[x] = Nil => r[x] <= r[y]
  <2>0. x \in Obj /\ y \in Obj /\ x # o /\ y # o
    BY <1>2
  <2>1. r[x] = r[y] => x = y
    BY <1>4
  <2>2. u.next[x] = y <=> u.prev[y] = x
    <3>1. l.next[x] = y <=> l.prev[y] = x
      BY <1>4
    <3>2. x = p => l.next[x] = o
      BY <1>2, <1>6, <2>0
    <3>3. y = q => l.prev[y] = o
      BY <1>2, <1>6, <2>0
    <3> QED
      BY <1>5, <2>0, <3>1, <3>2, <3>3
  <2>3. u.next[x] = y => r[x] < r[y]
    <3>1. x = p /\ y = q => r[x] < r[y]
      BY <1>2, <1>6, <1>7, <2>0
    <3> QED
      BY <1>4, <1>5, <2>0, <3>1
  <2>4. u.next[x] = Nil => r[y] <= r[x]
    <3>1. x = p /\ q = Nil => r[y] <= r[x]
      <4>1. SUFFICES ASSUME x = p, q = Nil PROVE r[y] <= r[x]
        OBVIOUS
      <4>2. r[y] <= r[o]
        BY <1>4, <1>6, <4>1 DEF q
      <4>3. l.next[x] = o
        BY <1>2, <1>6, <2>0, <4>1
      <4>4. r[y] <= r[x] \/ r[o] <= r[y]
        BY <1>4, <1>6, <4>3
      <4>5. r[y] # r[o]
        BY <1>4, <1>6, <2>0
      <4> QED
        BY <1>6, <1>7, <4>2, <4>4, <4>5
    <3> QED
      BY <1>4, <1>5, <2>0, <3>1
  <2>5. u.prev[x] = Nil => r[x] <= r[y]
    <3>1. x = q /\ p = Nil => r[x] <= r[y]
      <4>1. SUFFICES ASSUME x = q, p = Nil PROVE r[x] <= r[y]
        OBVIOUS
      <4>2. r[o] <= r[y]
        BY <1>4, <1>6, <4>1 DEF p
      <4>3. l.next[o] = x
        BY <4>1 DEF q
      <4>4. r[y] <= r[o] \/ r[x] <= r[y]
        BY <1>4, <1>6, <4>3
      <4>5. r[y] # r[o]
        BY <1>4, <1>6, <2>0
      <4> QED
        BY <1>6, <1>7, <4>2, <4>4, <4>5
    <3> QED
      BY <1>4, <1>5, <2>0, <3>1
  <2> QED
    BY <2>1, <2>2, <2>3, <2>4, <2>5
<1>11. ASSUME NEW x \in E \ {o}, NEW y \in E \ {o}, NEW w \in E \ {o}, u.next[x] = y
       PROVE  r[w] <= r[x] \/ r[y] <= r[w]
  <2>0. x \in Obj /\ y \in Obj /\ x # o
    BY <1>2
  <2>1. CASE x = p /\ y = q
    <3>1. l.next[x] = o /\ l.next[o] = y
      BY <1>2, <1>6, <2>0, <2>1 DEF q
    <3>2. /\ r[w] <= r[x] \/ r[o] <= r[w]
          /\ r[w] <= r[o] \/ r[y] <= r[w]
      BY <1>4, <1>6, <3>1
    <3>3. r[w] # r[o]
      BY <1>4, <1>6
    <3> QED
      BY <1>6, <1>7, <3>2, <3>3
  <2>2. CASE l.next[x] = y
    BY <1>4, <2>2
  <2> QED
    BY <1>5, <1>11, <2>0, <2>1, <2>2
<1>12. Chain(u, r, n)
  BY <1>3, <1>8, <1>9, <1>10, <1>11 DEF Chain
<1>13. Linked(u)
  BY <1>12 DEF Linked
<1>14. q = Nil /\ p = Nil => E = {o}
  <2>1. SUFFICES ASSUME q = Nil, p = Nil, NEW y \in E PROVE y = o
    BY <1>6
  <2>2. r[y] <= r[o] /\ r[o] <= r[y]
    BY <1>4, <1>6, <2>1 DEF q, p
  <2> QED
    BY <1>4, <1>6, <1>7, <2>2
<1>15. q # Nil => u.prev[q] = p
  BY <1>2, <1>5, <1>6
<1> QED
  BY <1>2, <1>3, <1>6, <1>13, <1>14, <1>15 DEF E, p, q

\* Unlinked twice is unlinked.
LEMMA FreedAgain ==
  ASSUME Closing!NilAssumption, NEW l \in Lists, NEW o \in Obj
  PROVE  Closing!Freed(Closing!Unlinked(l, o), o) = Closing!Freed(l, o)
<1> DEFINE v == Closing!Unlinked(l, o)
           a == Closing!Freed(v, o)
           b == Closing!Freed(l, o)
<1>1. /\ v \in Lists /\ v.type = l.type /\ v.closers = l.closers
      /\ v.next = NextWithout(l, o) /\ v.prev = PrevWithout(l, o)
  BY UnlinkedIs
<1>2. /\ b \in Lists /\ b.type = [l.type EXCEPT ![o] = "none"] /\ b.closers = l.closers
      /\ b.next = NextWithout(l, o) /\ b.prev = PrevWithout(l, o)
  BY FreedIs
<1> HIDE DEF v, b
<1>3. /\ a \in Lists /\ a.type = [v.type EXCEPT ![o] = "none"] /\ a.closers = v.closers
      /\ a.next = NextWithout(v, o) /\ a.prev = PrevWithout(v, o)
  BY <1>1, FreedIs
<1> HIDE DEF a
<1>4. v.next[o] = Nil /\ v.prev[o] = Nil
  BY <1>1 DEF NextWithout, PrevWithout
<1>5. NextWithout(v, o) = NextWithout(l, o) /\ PrevWithout(v, o) = PrevWithout(l, o)
  <2>1. \A x \in Obj : NextWithout(v, o)[x] = NextWithout(l, o)[x]
    BY <1>1, <1>4 DEF NextWithout, Closing!NilAssumption
  <2>2. \A x \in Obj : PrevWithout(v, o)[x] = PrevWithout(l, o)[x]
    BY <1>1, <1>4 DEF PrevWithout, Closing!NilAssumption
  <2>3. /\ NextWithout(v, o) \in [Obj -> Obj \cup {Nil}]
        /\ NextWithout(l, o) \in [Obj -> Obj \cup {Nil}]
        /\ PrevWithout(v, o) \in [Obj -> Obj \cup {Nil}]
        /\ PrevWithout(l, o) \in [Obj -> Obj \cup {Nil}]
    BY <1>1, WithoutTypes
  <2> QED
    BY <2>1, <2>2, <2>3
<1>6. a = b
  BY <1>1, <1>2, <1>3, <1>5 DEF Lists
<1> QED
  BY <1>6 DEF a, b, v

LEMMA ClosersSet ==
  ASSUME NEW l \in Lists, NEW c \in Obj \cup {Nil}
  PROVE  LET t == [l EXCEPT !.closers = c] IN
         /\ t \in Lists /\ t.type = l.type /\ t.closers = c
         /\ t.next = l.next /\ t.prev = l.prev
BY DEF Lists

\* What a search takes out.
LEMMA RemovedIs ==
  ASSUME Closing!NilAssumption, NEW l, Linked(l), Pointed(l), NEW o \in Obj, NEW k
  PROVE  LET u == Closing!Removed(l, o, k) IN
         /\ Linked(u) /\ Pointed(u)
         /\ k # "none" /\ l.type[o] = k => u.type = [l.type EXCEPT ![o] = "none"]
         /\ k # "none" /\ l.type[o] # k => u = l
<1> DEFINE u == Closing!Removed(l, o, k)
<1>1. Closing!Entries(l) = Registered(l) /\ l \in Lists
  BY EntriesAre DEF Linked
<1>2. CASE o \in Registered(l) /\ l.type[o] = k
  <2> DEFINE c == IF l.closers # o THEN l.closers
                  ELSE IF l.prev[o] # Nil THEN l.prev[o] ELSE l.next[o]
             a == [l EXCEPT !.closers = c]
  <2>1. u = Closing!Freed(a, o)
    BY <1>1, <1>2 DEF Closing!Removed
  <2>2. c \in Obj \cup {Nil}
    BY <1>1 DEF Lists
  <2> HIDE DEF c, u
  <2>3. /\ a \in Lists /\ a.type = l.type /\ a.closers = c
        /\ a.next = l.next /\ a.prev = l.prev
    BY <1>1, <2>2, ClosersSet
  <2> HIDE DEF a
  <2>4. /\ u \in Lists /\ u.type = [a.type EXCEPT ![o] = "none"] /\ u.closers = a.closers
        /\ u.next = NextWithout(a, o) /\ u.prev = PrevWithout(a, o)
    BY <2>1, <2>3, FreedIs
  <2>5. NextWithout(a, o) = NextWithout(l, o) /\ PrevWithout(a, o) = PrevWithout(l, o)
    BY <2>3 DEF NextWithout, PrevWithout
  <2>6. /\ Linked(u) /\ Registered(u) = Registered(l) \ {o}
        /\ l.next[o] \in Registered(u) \cup {Nil} /\ l.prev[o] \in Registered(u) \cup {Nil}
        /\ l.next[o] = Nil /\ l.prev[o] = Nil => Registered(u) = {}
    BY <1>2, <2>3, <2>4, <2>5, FreedLinked
  <2>7. Pointed(u)
    <3>1. l.closers \in Registered(l)
      BY <1>2 DEF Pointed
    <3> QED
      BY <2>3, <2>4, <2>6, <3>1 DEF Pointed, c
  <2>8. u.type = [l.type EXCEPT ![o] = "none"]
    BY <2>3, <2>4
  <2> QED
    BY <1>2, <2>6, <2>7, <2>8 DEF u
<1>3. CASE ~(o \in Registered(l) /\ l.type[o] = k)
  <2>1. u = l
    BY <1>1, <1>3 DEF Closing!Removed
  <2>2. k # "none" => l.type[o] # k
    BY <1>3 DEF Registered
  <2> QED
    BY <2>1, <2>2
<1> QED
  BY <1>2, <1>3

LEMMA AddedIs ==
  ASSUME Closing!NilAssumption, NEW l, Linked(l), Pointed(l),
         NEW o \in Obj, o \notin Registered(l), NEW k \in Closing!Kinds
  PROVE  LET u == Closing!Added(l, o, k) IN
         Linked(u) /\ Pointed(u) /\ u.type = [l.type EXCEPT ![o] = k]
<1> DEFINE u == Closing!Added(l, o, k)
           E == Registered(l)
<1>0. PICK n \in Nat : \E r \in [Obj -> 0..n] : Chain(l, r, n)
  BY DEF Linked
<1>1. PICK r \in [Obj -> 0..n] : Chain(l, r, n)
  BY <1>0
<1>2. /\ l \in Lists /\ E \subseteq Obj /\ Nil \notin Obj /\ k # "none"
      /\ k \in {"none"} \cup Closing!Kinds
  BY DEF Linked, Registered, Closing!NilAssumption, Closing!Kinds
<1>3. CASE l.closers = Nil
  <2> DEFINE a == [l EXCEPT !.closers = o]
  <2>1. u = [a EXCEPT !.type[o] = k]
    BY <1>2, <1>3 DEF Closing!Added, Lists
  <2>2. /\ a \in Lists /\ a.type = l.type /\ a.closers = o
        /\ a.next = l.next /\ a.prev = l.prev
    BY <1>2, ClosersSet
  <2> HIDE DEF a, u
  <2>3. /\ u \in Lists /\ u.type = [a.type EXCEPT ![o] = k] /\ u.closers = a.closers
        /\ u.next = a.next /\ u.prev = a.prev
    BY <1>2, <2>1, <2>2, TypeSet
  <2>4. E = {}
    BY <1>2, <1>3 DEF Pointed
  <2>5. Registered(u) = {o}
    BY <1>2, <2>2, <2>3, <2>4 DEF Registered, Lists
  <2>6. \A x \in Obj : u.next[x] = Nil /\ u.prev[x] = Nil
    BY <1>1, <2>2, <2>3, <2>4 DEF Chain
  <2>7. Chain(u, r, n)
    BY <1>1, <1>2, <2>5, <2>6 DEF Chain
  <2>8. Linked(u)
    BY <2>3, <2>7 DEF Linked
  <2> QED
    BY <2>2, <2>3, <2>5, <2>8 DEF Pointed, u
<1>4. CASE l.closers # Nil
  <2> DEFINE t == Closing!Last(l, l.closers)
  <2>1. t \in E /\ l.next[t] = Nil
    <3>1. l.closers \in E
      BY <1>4 DEF Pointed
    <3> QED
      BY <1>1, <1>2, <3>1, LastIs
  <2>2. u = [l EXCEPT !.type[o] = k, !.next[t] = o, !.prev[o] = t]
    BY <1>4 DEF Closing!Added
  <2> HIDE DEF t, u
  <2> DEFINE ty == [l.type EXCEPT ![o] = k]
             nx == [l.next EXCEPT ![t] = o]
             pr == [l.prev EXCEPT ![o] = t]
             v == [l EXCEPT !.type = ty, !.next = nx, !.prev = pr]
  <2>3. u = v
    BY <2>2 DEF Lists
  <2>4. /\ ty \in [Obj -> {"none"} \cup Closing!Kinds]
        /\ nx \in [Obj -> Obj \cup {Nil}] /\ pr \in [Obj -> Obj \cup {Nil}]
    BY <1>2, <2>1 DEF Lists
  <2> HIDE DEF ty, nx, pr
  <2>5. /\ v \in Lists /\ v.type = ty /\ v.next = nx /\ v.prev = pr /\ v.closers = l.closers
    BY <1>2, <2>4 DEF Lists
  <2> HIDE DEF v
  <2>6. Registered(u) = E \cup {o}
    BY <1>2, <2>3, <2>5 DEF Registered, Lists, ty
  <2>7. /\ \A x \in Obj : u.next[x] = IF x = t THEN o ELSE l.next[x]
        /\ \A x \in Obj : u.prev[x] = IF x = o THEN t ELSE l.prev[x]
    BY <1>2, <2>3, <2>5 DEF Lists, nx, pr
  <2>8. /\ \A x \in Obj \ E : l.next[x] = Nil /\ l.prev[x] = Nil
        /\ \A x \in E : l.next[x] \in E \cup {Nil} /\ l.prev[x] \in E \cup {Nil}
        /\ \A x, y \in E :
             /\ r[x] = r[y] => x = y
             /\ l.next[x] = y <=> l.prev[y] = x
             /\ l.next[x] = y => r[x] < r[y]
             /\ l.next[x] = Nil => r[y] <= r[x]
             /\ l.prev[x] = Nil => r[x] <= r[y]
        /\ \A x, y, w \in E : l.next[x] = y => r[w] <= r[x] \/ r[y] <= r[w]
    BY <1>1 DEF Chain
  <2> DEFINE s == [r EXCEPT ![o] = n + 1]
             m == n + 1
  <2>9. m \in Nat /\ s \in [Obj -> 0..m] /\ s[o] = m
        /\ \A x \in E : s[x] = r[x] /\ r[x] \in Int /\ r[x] < m
    BY <1>2
  <2>10. o \in Obj /\ o \notin E /\ t # o /\ l.next[o] = Nil /\ l.prev[o] = Nil
    BY <2>1, <2>8
  <2> HIDE DEF s, m, E
  <2>11. \A x \in Obj \ Registered(u) : u.next[x] = Nil /\ u.prev[x] = Nil
    BY <2>1, <2>6, <2>7, <2>8
  <2>12. \A x \in Registered(u) :
          u.next[x] \in Registered(u) \cup {Nil} /\ u.prev[x] \in Registered(u) \cup {Nil}
    BY <1>2, <2>1, <2>6, <2>7, <2>8, <2>10
  <2>13. ASSUME NEW x \in E \cup {o}, NEW y \in E \cup {o}
         PROVE  /\ s[x] = s[y] => x = y
                /\ u.next[x] = y <=> u.prev[y] = x
                /\ u.next[x] = y => s[x] < s[y]
                /\ u.next[x] = Nil => s[y] <= s[x]
                /\ u.prev[x] = Nil => s[x] <= s[y]
    <3>1. s[x] = s[y] => x = y
      BY <2>8, <2>9
    <3>2. u.next[x] = y <=> u.prev[y] = x
      <4>1. CASE x \in E /\ y \in E
        BY <1>2, <2>1, <2>7, <2>8, <2>10, <4>1
      <4>2. CASE x = o
        BY <1>2, <2>1, <2>7, <2>8, <2>10, <4>2
      <4>3. CASE x \in E /\ y = o
        <5>1. l.next[x] # o
          BY <1>2, <2>8, <2>10, <4>3
        <5> QED
          BY <1>2, <2>1, <2>7, <2>10, <4>3, <5>1
      <4> QED
        BY <4>1, <4>2, <4>3
    <3>3. u.next[x] = y => s[x] < s[y]
      BY <1>2, <2>1, <2>7, <2>8, <2>9, <2>10
    <3>4. u.next[x] = Nil => s[y] <= s[x]
      <4>1. CASE x = o
        BY <2>9, <4>1
      <4>2. CASE x \in E
        <5>1. SUFFICES ASSUME u.next[x] = Nil PROVE s[y] <= s[x]
          OBVIOUS
        <5>2. x # t /\ l.next[x] = Nil
          BY <1>2, <2>7, <2>10, <4>2, <5>1
        <5>3. r[t] <= r[x] /\ r[x] <= r[t]
          BY <2>1, <2>8, <4>2, <5>2
        <5> QED
          BY <2>1, <2>8, <2>9, <4>2, <5>2, <5>3
      <4> QED
        BY <4>1, <4>2
    <3>5. u.prev[x] = Nil => s[x] <= s[y]
      <4>1. SUFFICES ASSUME u.prev[x] = Nil PROVE s[x] <= s[y]
        OBVIOUS
      <4>2. x \in E /\ l.prev[x] = Nil
        BY <1>2, <2>1, <2>7, <2>10, <4>1
      <4> QED
        BY <2>8, <2>9, <4>2
    <3> QED
      BY <3>1, <3>2, <3>3, <3>4, <3>5
  <2>14. ASSUME NEW x \in E \cup {o}, NEW y \in E \cup {o}, NEW w \in E \cup {o},
                u.next[x] = y
         PROVE  s[w] <= s[x] \/ s[y] <= s[w]
    <3>1. CASE x = t
      BY <2>1, <2>7, <2>8, <2>9, <2>10, <2>14, <3>1
    <3>2. CASE x # t
      <4>1. x \in E /\ y \in E /\ l.next[x] = y
        BY <1>2, <2>7, <2>8, <2>10, <2>14, <3>2
      <4> QED
        BY <2>8, <2>9, <4>1
    <3> QED
      BY <3>1, <3>2
  <2>15. Chain(u, s, m)
    BY <2>6, <2>9, <2>11, <2>12, <2>13, <2>14 DEF Chain
  <2>16. Linked(u)
    BY <2>3, <2>5, <2>9, <2>15 DEF Linked
  <2>17. Pointed(u)
    BY <1>4, <2>3, <2>5, <2>6 DEF Pointed, E
  <2> QED
    BY <2>3, <2>5, <2>16, <2>17 DEF u, ty
<1> QED
  BY <1>3, <1>4

\* An entry that has another type is where it was.
LEMMA RetypedLinked ==
  ASSUME NEW l, Linked(l), Pointed(l), NEW o \in Registered(l), NEW k \in Closing!Kinds
  PROVE  LET u == [l EXCEPT !.type[o] = k] IN
         Linked(u) /\ Pointed(u) /\ u.type = [l.type EXCEPT ![o] = k]
<1> DEFINE u == [l EXCEPT !.type[o] = k]
<1>0. PICK n \in Nat : \E r \in [Obj -> 0..n] : Chain(l, r, n)
  BY DEF Linked
<1>1. PICK r \in [Obj -> 0..n] : Chain(l, r, n)
  BY <1>0
<1>2. l \in Lists /\ o \in Obj /\ k # "none" /\ k \in {"none"} \cup Closing!Kinds
  BY DEF Linked, Registered, Closing!Kinds
<1>3. /\ u \in Lists /\ u.type = [l.type EXCEPT ![o] = k] /\ u.closers = l.closers
      /\ u.next = l.next /\ u.prev = l.prev
  BY <1>2, TypeSet
<1> HIDE DEF u
<1>4. Registered(u) = Registered(l)
  BY <1>2, <1>3 DEF Registered, Lists
<1>5. Chain(u, r, n)
  BY <1>1, <1>3, <1>4 DEF Chain
<1>6. Linked(u) /\ Pointed(u)
  BY <1>3, <1>4, <1>5 DEF Linked, Pointed
<1> QED
  BY <1>3, <1>6 DEF u

LEMMA PromotedIs ==
  ASSUME Closing!NilAssumption, NEW l, Linked(l), Pointed(l),
         NEW o \in Obj, l.type[o] \in {"none", "dev"}, NEW k \in Closing!Kinds,
         NEW mem \in BOOLEAN
  PROVE  LET u == Closing!Promoted(l, o, k, mem) IN
         /\ Linked(u) /\ Pointed(u)
         /\ l.type[o] = "dev" => u.type = [l.type EXCEPT ![o] = k]
         /\ l.type[o] = "none" => u.type \in {l.type, [l.type EXCEPT ![o] = k]}
<1> DEFINE u == Closing!Promoted(l, o, k, mem)
<1>1. Closing!Entries(l) = Registered(l) /\ Nil \notin Registered(l)
  BY EntriesAre DEF Registered, Closing!NilAssumption
<1>2. CASE l.type[o] = "dev"
  <2>1. o \in Registered(l)
    BY <1>2 DEF Registered
  <2>2. l.closers # Nil
    BY <1>1, <2>1 DEF Pointed
  <2>3. u = [l EXCEPT !.type[o] = k]
    BY <1>1, <1>2, <2>1, <2>2 DEF Closing!Promoted
  <2>4. LET v == [l EXCEPT !.type[o] = k] IN
        Linked(v) /\ Pointed(v) /\ v.type = [l.type EXCEPT ![o] = k]
    BY <2>1, RetypedLinked
  <2> HIDE DEF u
  <2> QED
    BY <1>2, <2>3, <2>4 DEF u
<1>3. CASE l.type[o] = "none"
  <2>1. o \notin Registered(l)
    BY <1>3 DEF Registered
  <2>2. u = l \/ u = Closing!Added(l, o, k)
    <3>1. CASE l.closers = Nil /\ mem
      BY <3>1 DEF Closing!Promoted
    <3>2. CASE ~(l.closers = Nil /\ mem)
      BY <1>1, <1>3, <3>2 DEF Closing!Promoted
    <3> QED
      BY <3>1, <3>2
  <2>3. LET v == Closing!Added(l, o, k) IN
        Linked(v) /\ Pointed(v) /\ v.type = [l.type EXCEPT ![o] = k]
    BY <2>1, AddedIs
  <2> HIDE DEF u
  <2> QED
    BY <1>3, <2>2, <2>3 DEF u
<1> QED
  BY <1>2, <1>3

-----------------------------------------------------------------------------
LEMMA ClosersOpen ==
  ASSUME Closing!NilAssumption, ClosersInv, NEW o \in Obj, NEW k \in Closing!Kinds,
         Closing!Open(o, k)
  PROVE  ClosersInv'
<1> DEFINE l1(mem1) == IF mem1 THEN Closing!Added(list, o, "dev") ELSE list
           l2(mem1, mem2) == IF k = "dev" THEN l1(mem1)
                             ELSE Closing!Promoted(l1(mem1), o, k, mem2)
<1>1. PICK mem1 \in BOOLEAN, mem2 \in BOOLEAN :
        /\ phase = "open" /\ open[o] = "none"
        /\ open' = [open EXCEPT ![o] = k]
        /\ list' = l2(mem1, mem2)
        /\ missed' = IF l2(mem1, mem2).type[o] = "none" THEN missed \cup {o} ELSE missed \ {o}
        /\ closed' = [closed EXCEPT ![o] = 0]
        /\ UNCHANGED <<closing, phase, autoClose>>
  BY Zenon DEF Closing!Open
<1>2. /\ Linked(list) /\ Pointed(list) /\ OpenEntries /\ list \in Lists
      /\ \A x \in Registered(list) : list.type[x] = open[x]
      /\ list.type \in [Obj -> {"none"} \cup Closing!Kinds]
  BY <1>1 DEF ClosersInv, Lists
<1>3. o \notin Registered(list) /\ list.type[o] = "none"
  BY <1>1, <1>2 DEF OpenEntries, Registered
<1>4. "dev" \in Closing!Kinds /\ k # "none"
  BY DEF Closing!Kinds
<1> DEFINE a == l1(mem1)
           u == l2(mem1, mem2)
<1>5. /\ Linked(a) /\ Pointed(a)
      /\ a.type = list.type \/ a.type = [list.type EXCEPT ![o] = "dev"]
  <2>1. LET v == Closing!Added(list, o, "dev") IN
        Linked(v) /\ Pointed(v) /\ v.type = [list.type EXCEPT ![o] = "dev"]
    BY <1>2, <1>3, <1>4, AddedIs
  <2>2. CASE mem1
    <3>1. a = Closing!Added(list, o, "dev")
      BY <2>2
    <3> HIDE DEF a
    <3> QED
      BY <2>1, <3>1
  <2>3. CASE ~mem1
    <3>1. a = list
      BY <2>3
    <3> HIDE DEF a
    <3> QED
      BY <1>2, <3>1
  <2> QED
    BY <1>1, <2>2, <2>3
<1>6. u = IF k = "dev" THEN a ELSE Closing!Promoted(a, o, k, mem2)
  OBVIOUS
<1>6a. list' = u /\ missed' = IF u.type[o] = "none" THEN missed \cup {o} ELSE missed \ {o}
  BY <1>1
<1> HIDE DEF a, u
<1>7. /\ Linked(u) /\ Pointed(u)
      /\ u.type = list.type \/ u.type = [list.type EXCEPT ![o] = k]
  <2>1. CASE k = "dev"
    BY <1>5, <1>6, <2>1
  <2>2. CASE k # "dev"
    <3>1. a.type[o] \in {"none", "dev"}
      BY <1>2, <1>3, <1>5
    <3>2. LET v == Closing!Promoted(a, o, k, mem2) IN
          /\ Linked(v) /\ Pointed(v)
          /\ a.type[o] = "dev" => v.type = [a.type EXCEPT ![o] = k]
          /\ a.type[o] = "none" => v.type \in {a.type, [a.type EXCEPT ![o] = k]}
      BY <1>1, <1>5, <3>1, PromotedIs
    <3>3. /\ Linked(u) /\ Pointed(u)
          /\ a.type[o] = "dev" => u.type = [a.type EXCEPT ![o] = k]
          /\ a.type[o] = "none" => u.type = a.type \/ u.type = [a.type EXCEPT ![o] = k]
      BY <1>6, <2>2, <3>2
    <3>4. CASE a.type = list.type
      BY <1>3, <3>3, <3>4
    <3>5. CASE a.type = [list.type EXCEPT ![o] = "dev"]
      <4>1. a.type[o] = "dev"
        BY <1>2, <3>5
      <4>2. [a.type EXCEPT ![o] = k] = [list.type EXCEPT ![o] = k]
        BY <1>2, <3>5
      <4> QED
        BY <3>3, <4>1, <4>2
    <3> QED
      BY <1>5, <3>4, <3>5
  <2> QED
    BY <2>1, <2>2
<1>8. /\ u.type[o] \in {"none", k}
      /\ \A x \in Obj : x # o => u.type[x] = list.type[x]
  BY <1>2, <1>3, <1>7
<1>9. u \in Lists
  BY <1>7 DEF Linked
<1>10. open' \in [Obj -> {"none"} \cup Closing!Kinds] /\ closed' \in [Obj -> 0..1]
       /\ missed' \subseteq Obj
       /\ open'[o] = k /\ closed'[o] = 0
       /\ \A x \in Obj : x # o => open'[x] = open[x] /\ closed'[x] = closed[x]
  BY <1>1 DEF ClosersInv
<1>11. \A x \in Obj : closed'[x] = 1 => open'[x] = "none"
  BY <1>10 DEF ClosersInv
<1>12. Registered(u) = {x \in Obj : open'[x] # "none"} \ missed'
  <2>1. \A x \in Obj : u.type[x] # "none" <=> open'[x] # "none" /\ x \notin missed'
    <3>1. \A x \in Obj : list.type[x] # "none" <=> open[x] # "none" /\ x \notin missed
      BY <1>2 DEF OpenEntries, Registered
    <3> QED
      BY <1>4, <1>6a, <1>8, <1>10, <3>1
  <2> QED
    BY <2>1 DEF Registered
<1>13. \A x \in Registered(u) : u.type[x] = open'[x]
  BY <1>2, <1>8, <1>10 DEF Registered
<1>14. phase' = "open"
  BY <1>1
<1> QED
  BY <1>6a, <1>7, <1>9, <1>10, <1>11, <1>12, <1>13, <1>14 DEF ClosersInv, OpenEntries

LEMMA ClosersEnded ==
  ASSUME ClosersInv, NEW o \in Obj, open[o] # "none", Closing!Ended(o)
  PROVE  /\ open' \in [Obj -> {"none"} \cup Closing!Kinds] /\ closed' \in [Obj -> 0..1]
         /\ open'[o] = "none" /\ \A x \in Obj : x # o => open'[x] = open[x]
         /\ \A x \in Obj : closed'[x] = 1 => open'[x] = "none"
<1>1. closed[o] = 0
  BY DEF ClosersInv
<1> QED
  BY <1>1 DEF ClosersInv, Closing!Ended

\* The entry of an object that is closed is out of the list.
LEMMA TakenOut ==
  ASSUME ClosersInv, OpenEntries, NEW o \in Obj,
         \A x \in Registered(list) : list.type[x] = open[x],
         NEW t, t = [list.type EXCEPT ![o] = "none"],
         open'[o] = "none", \A x \in Obj : x # o => open'[x] = open[x]
  PROVE  /\ \A x \in Obj : t[x] # "none" => t[x] = open'[x]
         /\ \A x \in Obj : t[x] # "none" <=> open'[x] # "none" /\ x \notin missed
<1>1. list.type \in [Obj -> {"none"} \cup Closing!Kinds]
  BY DEF ClosersInv, Lists
<1>2. \A x \in Obj : list.type[x] # "none" <=> open[x] # "none" /\ x \notin missed
  BY DEF OpenEntries, Registered
<1>3. t[o] = "none" /\ \A x \in Obj : x # o => t[x] = list.type[x]
  BY <1>1
<1> QED
  BY <1>2, <1>3 DEF Registered

LEMMA ClosersClose ==
  ASSUME Closing!NilAssumption, ClosersInv, NEW o \in Obj, Closing!Close(o)
  PROVE  ClosersInv'
<1> DEFINE k == open[o]
           a == IF k = "dev" THEN list ELSE Closing!Removed(list, o, k)
           u == Closing!Deregistered(list, o)
<1>1. /\ phase = "open" /\ open[o] # "none" /\ Closing!Ended(o)
      /\ list' = u
      /\ UNCHANGED <<closing, phase, autoClose, missed>>
  BY DEF Closing!Close
<1>2. /\ Linked(list) /\ Pointed(list) /\ OpenEntries /\ list \in Lists
      /\ \A x \in Registered(list) : list.type[x] = open[x]
      /\ list.type \in [Obj -> {"none"} \cup Closing!Kinds]
  BY <1>1 DEF ClosersInv, Lists
<1>3. list.type[o] \in {"none", k} /\ k # "none"
  BY <1>1, <1>2 DEF Registered
<1>4. u = Closing!Removed(a, o, "dev")
  BY DEF Closing!Deregistered
<1> DEFINE ty == [list.type EXCEPT ![o] = "none"]
<1>5. list.type[o] = "none" => ty = list.type
  BY <1>2
<1>6. ty \in [Obj -> {"none"} \cup Closing!Kinds] /\ ty[o] = "none"
      /\ [ty EXCEPT ![o] = "none"] = ty
  BY <1>2
<1> HIDE DEF k, ty
<1>7. Linked(a) /\ Pointed(a) /\ (k # "dev" => a.type = ty) /\ (k = "dev" => a = list)
  <2>1. CASE k = "dev"
    <3>1. a = list
      BY <2>1
    <3> HIDE DEF a
    <3> QED
      BY <1>2, <2>1, <3>1
  <2>2. CASE k # "dev"
    <3>1. a = Closing!Removed(list, o, k)
      BY <2>2
    <3>2. LET v == Closing!Removed(list, o, k) IN
          /\ Linked(v) /\ Pointed(v)
          /\ k # "none" /\ list.type[o] = k => v.type = [list.type EXCEPT ![o] = "none"]
          /\ k # "none" /\ list.type[o] # k => v = list
      BY <1>2, RemovedIs
    <3> HIDE DEF a
    <3>3. a.type = ty
      BY <1>3, <1>5, <3>1, <3>2 DEF ty
    <3> QED
      BY <2>2, <3>1, <3>2, <3>3
  <2> QED
    BY <2>1, <2>2
<1> HIDE DEF a, u
<1>8. /\ Linked(u) /\ Pointed(u)
      /\ a.type[o] = "dev" => u.type = [a.type EXCEPT ![o] = "none"]
      /\ a.type[o] # "dev" => u = a
  <2>1. LET v == Closing!Removed(a, o, "dev") IN
        /\ Linked(v) /\ Pointed(v)
        /\ "dev" # "none" /\ a.type[o] = "dev" => v.type = [a.type EXCEPT ![o] = "none"]
        /\ "dev" # "none" /\ a.type[o] # "dev" => v = a
    BY <1>7, RemovedIs
  <2> QED
    BY <1>4, <2>1
<1>9. u.type = ty
  <2>1. CASE k # "dev"
    BY <1>6, <1>7, <1>8, <2>1
  <2>2. CASE k = "dev"
    BY <1>3, <1>5, <1>7, <1>8, <2>2 DEF ty
  <2> QED
    BY <2>1, <2>2
<1>10. /\ open' \in [Obj -> {"none"} \cup Closing!Kinds] /\ closed' \in [Obj -> 0..1]
       /\ open'[o] = "none" /\ \A x \in Obj : x # o => open'[x] = open[x]
       /\ \A x \in Obj : closed'[x] = 1 => open'[x] = "none"
  BY <1>1, ClosersEnded
<1>11. /\ \A x \in Obj : ty[x] # "none" => ty[x] = open'[x]
       /\ \A x \in Obj : ty[x] # "none" <=> open'[x] # "none" /\ x \notin missed
  BY <1>2, <1>10, TakenOut DEF ty
<1>12. Registered(u) = {x \in Obj : open'[x] # "none"} \ missed'
  BY <1>1, <1>9, <1>11 DEF Registered
<1>13. \A x \in Registered(u) : u.type[x] = open'[x]
  BY <1>9, <1>11 DEF Registered
<1>14. u \in Lists /\ missed \subseteq Obj
  BY <1>8 DEF Linked, ClosersInv
<1> QED
  BY <1>1, <1>8, <1>10, <1>12, <1>13, <1>14 DEF ClosersInv, OpenEntries

LEMMA ClosersBegin ==
  ASSUME Closing!NilAssumption, ClosersInv, Closing!Begin
  PROVE  ClosersInv'
<1> DEFINE c == list.closers
<1>1. /\ phase = "open"
      /\ phase' = IF autoClose /\ c # Nil THEN "close" ELSE "inodes"
      /\ closing' = IF autoClose /\ c # Nil THEN Closing!First(list, c) ELSE Nil
      /\ list' = IF autoClose \/ c = Nil
                 THEN [list EXCEPT !.closers = Nil]
                 ELSE [Closing!Freed(list, c) EXCEPT !.closers = Nil]
      /\ UNCHANGED <<open, autoClose, missed, closed>>
  BY DEF Closing!Begin
<1>2. /\ Linked(list) /\ Pointed(list) /\ OpenEntries /\ list \in Lists
      /\ \A x \in Registered(list) : list.type[x] = open[x]
      /\ c \in Obj \cup {Nil}
  BY <1>1 DEF ClosersInv, Lists
<1>3. /\ open' \in [Obj -> {"none"} \cup Closing!Kinds] /\ closed' \in [Obj -> 0..1]
      /\ missed' \subseteq Obj
      /\ \A x \in Obj : closed'[x] = 1 => open'[x] = "none"
  BY <1>1 DEF ClosersInv
<1> DEFINE a == [list EXCEPT !.closers = Nil]
<1>4. /\ a \in Lists /\ a.type = list.type /\ a.closers = Nil
      /\ a.next = list.next /\ a.prev = list.prev
  BY <1>2, ClosersSet
<1> HIDE DEF a
<1>5. CASE autoClose /\ c # Nil
  <2> DEFINE x == Closing!First(list, c)
  <2>0. PICK n \in Nat : \E r \in [Obj -> 0..n] : Chain(list, r, n)
    BY <1>2 DEF Linked
  <2>1. PICK r \in [Obj -> 0..n] : Chain(list, r, n)
    BY <2>0
  <2>2. x \in Registered(list) /\ list.prev[x] = Nil
    <3>1. c \in Registered(list)
      BY <1>2, <1>5 DEF Pointed
    <3> QED
      BY <1>2, <2>1, <3>1, FirstIs
  <2> HIDE DEF x
  <2>3. phase' = "close" /\ closing' = x /\ list' = a /\ open' = open /\ missed' = missed
    BY <1>1, <1>5 DEF x, a
  <2>4. Registered(a) = Registered(list)
    BY <1>4 DEF Registered
  <2>5. Chain(a, r, n)
    BY <1>4, <2>1, <2>4 DEF Chain
  <2>6. Linked(a)
    BY <1>4, <2>5 DEF Linked
  <2> QED
    BY <1>2, <1>3, <1>4, <2>2, <2>3, <2>4, <2>6 DEF ClosersInv, OpenEntries
<1>6. CASE ~(autoClose /\ c # Nil)
  <2>1. phase' = "inodes" /\ open' = open /\ missed' = missed /\ autoClose' = autoClose
    BY <1>1, <1>6
  <2>2. list' \in Lists
    <3>1. CASE autoClose \/ c = Nil
      BY <1>1, <1>4, <3>1 DEF a
    <3>2. CASE ~(autoClose \/ c = Nil)
      <4> DEFINE b == Closing!Freed(list, c)
      <4>1. b \in Lists
        BY <1>2, <3>2, FreedIs
      <4>2. list' = [b EXCEPT !.closers = Nil]
        BY <1>1, <3>2
      <4> HIDE DEF b
      <4> QED
        BY <4>1, <4>2, ClosersSet
    <3> QED
      BY <3>1, <3>2
  <2>3. autoClose => \A x \in Obj : open[x] # "none" => x \in missed
    <3>1. SUFFICES ASSUME autoClose PROVE \A x \in Obj : open[x] # "none" => x \in missed
      OBVIOUS
    <3>2. c = Nil /\ Nil \notin Registered(list)
      BY <1>6, <3>1 DEF Registered, Closing!NilAssumption
    <3>3. Registered(list) = {}
      BY <1>2, <3>2 DEF Pointed
    <3> QED
      BY <1>2, <3>3 DEF OpenEntries
  <2> QED
    BY <1>3, <2>1, <2>2, <2>3 DEF ClosersInv
<1> QED
  BY <1>5, <1>6

LEMMA ClosersCloseEntry ==
  ASSUME Closing!NilAssumption, ClosersInv, Closing!CloseEntry
  PROVE  ClosersInv'
<1> DEFINE o == closing
           l == Closing!Unlinked(list, o)
           u == Closing!Freed(list, o)
           ty == [list.type EXCEPT ![o] = "none"]
<1>1. /\ phase = "close" /\ Closing!Ended(o)
      /\ list' = Closing!Freed(Closing!Deregistered(l, o), o)
      /\ closing' = list.next[o]
      /\ phase' = IF list.next[o] = Nil THEN "inodes" ELSE "close"
      /\ UNCHANGED <<autoClose, missed>>
  BY DEF Closing!CloseEntry
<1>2. /\ Linked(list) /\ OpenEntries /\ list \in Lists
      /\ \A x \in Registered(list) : list.type[x] = open[x]
      /\ list.closers = Nil /\ o \in Registered(list) /\ list.prev[o] = Nil
      /\ list.type \in [Obj -> {"none"} \cup Closing!Kinds]
  BY <1>1 DEF ClosersInv, Lists
<1>3. o \in Obj /\ open[o] # "none"
  BY <1>2 DEF Registered
<1>4. /\ l \in Lists /\ l.type = list.type /\ l.closers = list.closers
      /\ l.next = NextWithout(list, o) /\ l.prev = PrevWithout(list, o)
  BY <1>2, <1>3, UnlinkedIs
<1>5. Closing!Deregistered(l, o) = l
  <2>1. Closing!Entries(l) = {}
    BY <1>2, <1>4 DEF Closing!Entries
  <2> HIDE DEF l
  <2>2. \A k : Closing!Removed(l, o, k) = l
    BY <2>1 DEF Closing!Removed
  <2> QED
    BY <2>2 DEF Closing!Deregistered
<1>6. list' = u
  BY <1>1, <1>2, <1>3, <1>5, FreedAgain
<1>7. /\ u \in Lists /\ u.type = ty /\ u.closers = list.closers
      /\ u.next = NextWithout(list, o) /\ u.prev = PrevWithout(list, o)
  BY <1>2, <1>3, FreedIs
<1> HIDE DEF u, l
<1>8. /\ Linked(u) /\ Registered(u) = Registered(list) \ {o}
      /\ list.next[o] \in Registered(u) \cup {Nil}
      /\ list.next[o] = Nil => Registered(u) = {}
      /\ list.next[o] # Nil => u.prev[list.next[o]] = Nil
  BY <1>2, <1>7, FreedLinked
<1>9. /\ open' \in [Obj -> {"none"} \cup Closing!Kinds] /\ closed' \in [Obj -> 0..1]
      /\ open'[o] = "none" /\ \A x \in Obj : x # o => open'[x] = open[x]
      /\ \A x \in Obj : closed'[x] = 1 => open'[x] = "none"
  BY <1>1, <1>3, ClosersEnded
<1>10. /\ \A x \in Obj : ty[x] # "none" => ty[x] = open'[x]
       /\ \A x \in Obj : ty[x] # "none" <=> open'[x] # "none" /\ x \notin missed
  BY <1>2, <1>3, <1>9, TakenOut
<1> HIDE DEF ty
<1>11. Registered(u) = {x \in Obj : open'[x] # "none"} \ missed'
  BY <1>1, <1>7, <1>10 DEF Registered
<1>12. \A x \in Registered(u) : u.type[x] = open'[x]
  BY <1>7, <1>10 DEF Registered
<1>13. missed' \subseteq Obj /\ missed' = missed
  BY <1>1 DEF ClosersInv
<1>14. CASE list.next[o] = Nil
  <2>1. phase' = "inodes"
    BY <1>1, <1>14
  <2>2. \A x \in Obj : open'[x] # "none" => x \in missed'
    BY <1>8, <1>11, <1>14
  <2> QED
    BY <1>6, <1>7, <1>9, <1>13, <2>1, <2>2 DEF ClosersInv
<1>15. CASE list.next[o] # Nil
  <2>1. phase' = "close" /\ closing' \in Registered(u) /\ u.prev[closing'] = Nil
    BY <1>1, <1>8, <1>15
  <2> QED
    BY <1>2, <1>6, <1>7, <1>8, <1>9, <1>11, <1>12, <1>13, <2>1
       DEF ClosersInv, OpenEntries
<1> QED
  BY <1>14, <1>15

\* The list of a handle that is new.
LEMMA NoListIs ==
  ASSUME Closing!NilAssumption
  PROVE  LET l == Closing!NoList IN
         /\ Linked(l) /\ Pointed(l) /\ l \in Lists /\ Registered(l) = {}
<1> DEFINE l == Closing!NoList
           r == [o \in Obj |-> 0]
<1>1. /\ l \in Lists /\ l.closers = Nil
      /\ \A o \in Obj : l.type[o] = "none" /\ l.next[o] = Nil /\ l.prev[o] = Nil
  BY DEF Closing!NoList, Lists
<1> HIDE DEF l
<1>2. Registered(l) = {}
  BY <1>1 DEF Registered
<1>3. Chain(l, r, 0)
  BY <1>1, <1>2 DEF Chain
<1>4. 0 \in Nat /\ r \in [Obj -> 0..0]
  OBVIOUS
<1>5. Linked(l)
  BY <1>1, <1>3, <1>4 DEF Linked
<1>6. Pointed(l)
  BY <1>1, <1>2 DEF Pointed
<1> QED
  BY <1>1, <1>2, <1>5, <1>6 DEF l

LEMMA ClosersInitInv == Closing!NilAssumption /\ Closing!Init => ClosersInv
<1> SUFFICES ASSUME Closing!NilAssumption, Closing!Init PROVE ClosersInv
  OBVIOUS
<1>1. /\ Linked(list) /\ Pointed(list) /\ list \in Lists /\ Registered(list) = {}
  BY NoListIs DEF Closing!Init
<1>2. /\ open = [o \in Obj |-> "none"] /\ closed = [o \in Obj |-> 0]
      /\ phase = "open" /\ missed = {}
  BY DEF Closing!Init
<1> QED
  BY <1>1, <1>2 DEF ClosersInv, OpenEntries

LEMMA ClosersReopen ==
  ASSUME Closing!NilAssumption, ClosersInv, Closing!Reopen
  PROVE  ClosersInv'
<1>1. LET l == Closing!NoList IN
      Linked(l) /\ Pointed(l) /\ l \in Lists /\ Registered(l) = {}
  BY NoListIs
<1>2. /\ phase' = "open" /\ list' = Closing!NoList /\ missed' = {}
      /\ open' = [o \in Obj |-> "none"] /\ closed' = [o \in Obj |-> 0]
  BY DEF Closing!Reopen
<1> QED
  BY <1>1, <1>2 DEF ClosersInv, OpenEntries

LEMMA ClosersNextInv ==
  ASSUME Closing!NilAssumption, ClosersInv, [Closing!Next]_Closing!vars
  PROVE  ClosersInv'
<1>1. CASE Closing!SetAutoClose
  BY <1>1 DEF Closing!SetAutoClose, ClosersInv, OpenEntries
<1>2. CASE Closing!CloseInodes
  BY <1>2 DEF Closing!CloseInodes, ClosersInv, OpenEntries
<1>3. CASE UNCHANGED Closing!vars
  BY <1>3 DEF Closing!vars, ClosersInv, OpenEntries
<1> QED
  BY <1>1, <1>2, <1>3, ClosersOpen, ClosersClose, ClosersBegin, ClosersCloseEntry,
     ClosersReopen DEF Closing!Next

LEMMA ClosersInvSound ==
  ASSUME Closing!NilAssumption, ClosersInv
  PROVE  Closing!ClosedOnce
<1>1. Closing!ListMatches
  <2> SUFFICES ASSUME phase = "open"
               PROVE  /\ Closing!Entries(list) = {o \in Obj : open[o] # "none"} \ missed
                      /\ \A o \in Closing!Entries(list) : list.type[o] = open[o]
                      /\ \A o, p \in Obj : list.next[o] = p <=> list.prev[p] = o
    BY DEF Closing!ListMatches
  <2>1. Linked(list) /\ Pointed(list) /\ OpenEntries
        /\ \A o \in Registered(list) : list.type[o] = open[o]
    BY DEF ClosersInv
  <2>2. Closing!Entries(list) = Registered(list)
    BY <2>1, EntriesAre
  <2>3. ASSUME NEW o \in Obj, NEW p \in Obj
        PROVE  list.next[o] = p <=> list.prev[p] = o
    <3>0. PICK n \in Nat : \E r \in [Obj -> 0..n] : Chain(list, r, n)
      BY <2>1 DEF Linked
    <3>1. PICK r \in [Obj -> 0..n] : Chain(list, r, n)
      BY <3>0
    <3>2. o # Nil /\ p # Nil
      BY DEF Closing!NilAssumption
    <3>3. \A x \in Obj : x \notin Registered(list) => list.next[x] = Nil /\ list.prev[x] = Nil
      BY <3>1 DEF Chain
    <3>4. \A x, y \in Registered(list) : list.next[x] = y <=> list.prev[y] = x
      BY <3>1 DEF Chain
    <3>5. \A x \in Registered(list) :
            list.next[x] \in Registered(list) \cup {Nil}
            /\ list.prev[x] \in Registered(list) \cup {Nil}
      BY <3>1 DEF Chain
    <3> QED
      BY <3>2, <3>3, <3>4, <3>5
  <2> QED
    BY <2>1, <2>2, <2>3 DEF OpenEntries
<1>2. \A o \in Obj : closed[o] <= 1 /\ (closed[o] = 1 => open[o] = "none")
  BY DEF ClosersInv
<1>3. phase = "close" => list.type[closing] = open[closing]
  BY DEF ClosersInv
<1>4. phase \in {"inodes", "closed"} /\ autoClose =>
        \A o \in Obj : open[o] # "none" => o \in missed
  BY DEF ClosersInv
<1> QED
  BY <1>1, <1>2, <1>3, <1>4 DEF Closing!ClosedOnce

-----------------------------------------------------------------------------
-----------------------------------------------------------------------------
(***************************************************************************)
(* Arithmetic.                                                             *)
(***************************************************************************)

\* What is below Word does not wrap around.
LEMMA NoWrap ==
  ASSUME Word \in Nat \ {0}, NEW x \in Nat, x < Word
  PROVE  Wrap(x) = x
BY DEF Wrap

\* The records of a table lie one behind the other, and end with the table.
LEMMA TableSlots ==
  ASSUME NEW size \in Nat, NEW count \in Nat, NEW i \in 1..count
  PROVE  /\ (i - 1) * size \in Nat /\ i * size \in Nat
         /\ (i - 1) * size + size = i * size
         /\ i * size <= count * size
         /\ \A j \in 1..count : i < j => i * size <= (j - 1) * size
<1>1. \A a, b \in Nat : a <= b => a * size \in Nat /\ a * size <= b * size
  <2> SUFFICES ASSUME NEW a \in Nat, NEW b \in Nat, a <= b
               PROVE  a * size \in Nat /\ a * size <= b * size
    OBVIOUS
  <2> DEFINE d == b - a
  <2>1. d \in Nat /\ b = a + d
    OBVIOUS
  <2>2. a * size \in Nat /\ d * size \in Nat
    BY <2>1
  <2>3. (a + d) * size = a * size + d * size
    BY <2>1
  <2> QED
    BY <2>1, <2>2, <2>3
<1>2. i - 1 \in Nat /\ i \in Nat /\ i <= count /\ i - 1 <= i
  OBVIOUS
<1>3. (i - 1) * size + size = i * size
  BY <1>2
<1>4. \A j \in 1..count : i < j => i * size <= (j - 1) * size
  <2> SUFFICES ASSUME NEW j \in 1..count, i < j
               PROVE  i * size <= (j - 1) * size
    OBVIOUS
  <2>1. j - 1 \in Nat /\ i <= j - 1
    OBVIOUS
  <2> QED
    BY <1>1, <1>2, <2>1
<1> QED
  BY <1>1, <1>2, <1>3, <1>4

-----------------------------------------------------------------------------
(***************************************************************************)
(* Offsets.                                                                *)
(***************************************************************************)

Bare(o) == o \in Options /\ TrueSize(o) < Word

\* The sizes of all sections are numbers.
LEMMA SizesAreNat ==
  ASSUME NEW o \in Options
  PROVE  /\ SizeofName(o) \in Nat /\ SizeofBlock(o) \in Nat
         /\ NamesSize(o) \in Nat /\ InodesSize(o) \in Nat /\ BlocksSize(o) \in Nat
         /\ HeaderSize(o) = o.magic + 57 /\ HeaderSize(o) \in Nat
         /\ TrueSize(o) \in Nat
<1>1. /\ o.magic \in Nat /\ o.block_size \in Nat /\ o.block_count \in Nat
      /\ o.inode_count \in Nat /\ o.filename_length \in Nat
  BY DEF Options
<1>2. SizeofName(o) \in Nat /\ SizeofBlock(o) \in Nat /\ SizeofInode \in Nat
  BY <1>1 DEF SizeofName, SizeofBlock, SizeofInode, NameHeader, SizeofBlockMeta, Id, Uint16,
              Uint8, Uint32
<1>3. \A a, b \in Nat : a * b \in Nat
  OBVIOUS
<1>4. NamesSize(o) \in Nat /\ InodesSize(o) \in Nat /\ BlocksSize(o) \in Nat
  BY <1>1, <1>2, <1>3 DEF NamesSize, InodesSize, BlocksSize
<1>5. HeaderSize(o) = o.magic + 57
  BY <1>1 DEF HeaderSize, CoreMagic, SizeofOptions, SizeofHints, Id, Uint16, Uint32, SizeT
<1> QED
  BY <1>1, <1>2, <1>4, <1>5 DEF TrueSize

\* Each section of a container that fits begins where the one before ends.
LEMMA Sections ==
  ASSUME WordAssumption, NEW o, Bare(o)
  PROVE  LET begins == InitOffsets(o)
         IN /\ CalculateSize(o) = TrueSize(o)
            /\ begins.size = 20 /\ begins.magic = 25 /\ begins.options = o.magic + 28
            /\ begins.hints = o.magic + 46 /\ begins.names = HeaderSize(o)
            /\ begins.inodes = HeaderSize(o) + NamesSize(o)
            /\ begins.blocks = HeaderSize(o) + NamesSize(o) + InodesSize(o)
            /\ begins.eof = TrueSize(o)
            /\ begins = [size |-> 20, magic |-> 25, options |-> o.magic + 28,
                     hints |-> o.magic + 46, names |-> HeaderSize(o),
                     inodes |-> HeaderSize(o) + NamesSize(o),
                     blocks |-> HeaderSize(o) + NamesSize(o) + InodesSize(o),
                     eof |-> TrueSize(o)]
<1>1. o \in Options /\ o.magic \in Nat /\ Word \in Nat \ {0} /\ TrueSize(o) < Word
  BY DEF Bare, Options, WordAssumption
<1>2. /\ NamesSize(o) \in Nat /\ InodesSize(o) \in Nat /\ BlocksSize(o) \in Nat
      /\ HeaderSize(o) = o.magic + 57 /\ TrueSize(o) \in Nat
      /\ TrueSize(o) = HeaderSize(o) + NamesSize(o) + InodesSize(o) + BlocksSize(o)
  BY <1>1, SizesAreNat DEF TrueSize
<1>3. \A x \in Nat : x <= TrueSize(o) => Wrap(x) = x
  BY <1>1, <1>2, NoWrap
<1>4. Wrap(25) = 25 /\ Wrap(o.magic + 28) = o.magic + 28 /\ Wrap(o.magic + 46) = o.magic + 46
  BY <1>1, <1>2, <1>3
<1>5. /\ Wrap(o.magic + 57) = o.magic + 57
      /\ Wrap(o.magic + 57 + NamesSize(o)) = o.magic + 57 + NamesSize(o)
      /\ Wrap(o.magic + 57 + NamesSize(o) + InodesSize(o))
           = o.magic + 57 + NamesSize(o) + InodesSize(o)
      /\ Wrap(TrueSize(o)) = TrueSize(o)
  BY <1>1, <1>2, <1>3
<1>6. /\ CoreMagic = 20 /\ Uint32 = 5 /\ Uint16 = 3 /\ SizeofOptions = 18 /\ SizeofHints = 11
  BY DEF CoreMagic, SizeofOptions, SizeofHints, Id, Uint16, Uint32, SizeT
<1>7. /\ 20 + 5 = 25 /\ 25 + 3 + o.magic = o.magic + 28
      /\ o.magic + 28 + 18 = o.magic + 46 /\ o.magic + 46 + 11 = o.magic + 57
  BY <1>1
<1>8. InitOffsets(o)
        = [size |-> 20, magic |-> 25, options |-> o.magic + 28,
           hints |-> o.magic + 46, names |-> o.magic + 57,
           inodes |-> o.magic + 57 + NamesSize(o),
           blocks |-> o.magic + 57 + NamesSize(o) + InodesSize(o),
           eof |-> Wrap(o.magic + 57 + NamesSize(o) + InodesSize(o) + BlocksSize(o))]
  BY <1>4, <1>5, <1>6, <1>7, Zenon DEF InitOffsets
<1> QED
  BY <1>2, <1>5, <1>8 DEF CalculateSize

\* The data of the last block end where the container does.
LEMMA LastBlock ==
  ASSUME WordAssumption, NEW o, Bare(o), o.block_count > 0, NEW h,
         h.opt.block_size = o.block_size,
         h.offsets.blocks = HeaderSize(o) + NamesSize(o) + InodesSize(o)
  PROVE  AfterWipe(h, o.block_count) = TrueSize(o)
<1>1. /\ o \in Options /\ o.block_count \in Nat \ {0} /\ o.block_size \in Nat
      /\ Word \in Nat \ {0} /\ TrueSize(o) < Word /\ h.opt.block_size = o.block_size
  BY DEF Bare, Options, WordAssumption
<1> DEFINE base == HeaderSize(o) + NamesSize(o) + InodesSize(o)
           before == (o.block_count - 1) * SizeofBlock(o)
<1>2. /\ NamesSize(o) \in Nat /\ InodesSize(o) \in Nat /\ BlocksSize(o) \in Nat
      /\ HeaderSize(o) \in Nat /\ SizeofBlock(o) \in Nat /\ base \in Nat
      /\ SizeofBlock(h.opt) = SizeofBlock(o) /\ SizeofBlock(o) = o.block_size + 14
  BY <1>1, SizesAreNat DEF SizeofBlock, SizeofBlockMeta, Id, Uint16
<1>3. /\ before \in Nat
      /\ before + SizeofBlock(o) = o.block_count * SizeofBlock(o)
  <2>1. o.block_count \in 1..o.block_count
    BY <1>1
  <2> QED
    BY <1>1, <1>2, <2>1, TableSlots
<1>4. BlocksSize(o) = before + SizeofBlock(o)
  BY <1>1, <1>2, <1>3 DEF BlocksSize
<1>5. TrueSize(o) = base + before + SizeofBlock(o)
  BY <1>2, <1>3, <1>4 DEF TrueSize
<1>6. Wrap(base + before) = base + before /\ Wrap(base + before + 14) = base + before + 14
  BY <1>1, <1>2, <1>3, <1>5, NoWrap
<1>7. BlockPos(h, o.block_count) = base + before
  BY <1>2, <1>6 DEF BlockPos, Position
<1>8. BlockDataPos(h, o.block_count) = base + before + 14
  BY <1>6, <1>7 DEF BlockDataPos, SizeofBlockMeta, Id, Uint16
<1> QED
  BY <1>1, <1>2, <1>3, <1>5, <1>8 DEF AfterWipe

-----------------------------------------------------------------------------
(***************************************************************************)
(* The invariant: a container is as whefs_mkfs would make it with the      *)
(* options it has now, and so is what a handle knows of it.                *)
(***************************************************************************)

Whole(o) == Container(o, TrueSize(o), TrueSize(o))

Made(o) == Bare(o) /\ o.block_count > 0

IInv ==
  /\ container # NoContainer => \E o \in Options : Made(o) /\ container = Whole(o)
  /\ handle # NoHandle =>
       \E o \in Options :
         Made(o) /\ container = Whole(o) /\ handle = Handle(o, InitOffsets(o), TrueSize(o))

\* Records tell whether there is a handle, or a container.
LEMMA Flags ==
  /\ \A o, begins, n : Handle(o, begins, n).open = TRUE
  /\ \A o, n, l : Container(o, n, l).exists = TRUE
  /\ NoHandle.open = FALSE /\ NoContainer.exists = FALSE
  /\ \A o, begins, n : Handle(o, begins, n) # NoHandle
  /\ \A o, n, l : Container(o, n, l) # NoContainer
<1>1. /\ \A o, begins, n : Handle(o, begins, n).open = TRUE
      /\ \A o, n, l : Container(o, n, l).exists = TRUE
      /\ NoHandle.open = FALSE /\ NoContainer.exists = FALSE
  BY DEF Handle, Container, NoHandle, NoContainer
<1> QED
  BY <1>1

LEMMA MkfsKeeps ==
  ASSUME WordAssumption, NEW o \in Requested, Mkfs(o)
  PROVE  IInv'
<1>1. o \in Options /\ Made(o)
  <2>1. o \in Options /\ o.block_count \in Nat /\ o.inode_count \in Nat
    BY DEF WordAssumption, Options
  <2> QED
    BY <2>1 DEF Mkfs, Acceptable, Fits, Made, Bare
<1> DEFINE h == Handle(o, InitOffsets(o), TrueSize(o))
<1>2. /\ CalculateSize(o) = TrueSize(o)
      /\ InitOffsets(o).blocks = HeaderSize(o) + NamesSize(o) + InodesSize(o)
      /\ InitOffsets(o).eof = TrueSize(o)
      /\ InitOffsets(o) = [InitOffsets(o) EXCEPT !.eof = TrueSize(o)]
  <2>1. Bare(o)
    BY <1>1 DEF Made
  <2>2. /\ CalculateSize(o) = TrueSize(o)
        /\ InitOffsets(o).blocks = HeaderSize(o) + NamesSize(o) + InodesSize(o)
        /\ InitOffsets(o).eof = TrueSize(o)
    BY <2>1, Sections
  <2>3. InitOffsets(o) = [InitOffsets(o) EXCEPT !.eof = TrueSize(o)]
    BY <2>1, Sections
  <2> QED
    BY <2>2, <2>3
<1>3. h.opt = o /\ h.offsets = InitOffsets(o)
  BY DEF Handle
<1>4. AfterWipe(h, o.block_count) = TrueSize(o)
  BY <1>1, <1>2, <1>3, LastBlock DEF Made
<1>5. Max2(TrueSize(o), TrueSize(o)) = TrueSize(o)
  BY DEF Max2
<1>6. /\ handle' = [h EXCEPT !.offsets.eof = TrueSize(o)]
      /\ container' = Whole(o)
  BY <1>2, <1>4, <1>5 DEF Mkfs, Whole
<1>7. [h EXCEPT !.offsets.eof = TrueSize(o)] = h
  <2>1. [h.offsets EXCEPT !.eof = TrueSize(o)] = h.offsets
    BY <1>2, <1>3, Zenon
  <2> HIDE DEF h
  <2>2. [h EXCEPT !.offsets.eof = TrueSize(o)]
          = [h EXCEPT !.offsets = [h.offsets EXCEPT !.eof = TrueSize(o)]]
    OBVIOUS
  <2>3. [h EXCEPT !.offsets = h.offsets] = h
    BY DEF h, Handle
  <2> QED
    BY <2>1, <2>2, <2>3, Zenon
<1> QED
  BY <1>1, <1>6, <1>7 DEF IInv

LEMMA AppendKeeps ==
  ASSUME WordAssumption, MaxCount \in Nat, IInv, NEW count \in 1..MaxCount,
         AppendBlocks(count)
  PROVE  IInv'
<1>1. PICK p \in Options :
        Made(p) /\ handle = Handle(p, InitOffsets(p), TrueSize(p))
  BY Flags DEF IInv, AppendBlocks
<1> DEFINE o == [p EXCEPT !.block_count = @ + count]
           eof == InitOffsets(p).eof + SizeofBlock(o) * count
<1>2. /\ handle.opt = p /\ handle.offsets = InitOffsets(p)
  BY <1>1 DEF Handle
<1>3. /\ o \in Options /\ o.block_count = p.block_count + count /\ count \in Nat
      /\ p.block_count \in Nat /\ count > 0
      /\ o.magic = p.magic /\ o.block_size = p.block_size
      /\ o.inode_count = p.inode_count /\ o.filename_length = p.filename_length
  BY DEF Options
<1>4. Made(o)
  BY <1>2, <1>3 DEF AppendBlocks, Fits, Made, Bare
<1>5. /\ HeaderSize(o) = HeaderSize(p) /\ NamesSize(o) = NamesSize(p)
      /\ InodesSize(o) = InodesSize(p) /\ SizeofBlock(o) = SizeofBlock(p)
  BY <1>3 DEF HeaderSize, NamesSize, InodesSize, SizeofBlock, SizeofName
<1>6. BlocksSize(o) = BlocksSize(p) + SizeofBlock(o) * count
  <2>1. SizeofBlock(o) \in Nat
    BY <1>3, SizesAreNat
  <2> QED
    BY <1>3, <1>5, <2>1 DEF BlocksSize
<1>7. /\ TrueSize(o) = TrueSize(p) + SizeofBlock(o) * count
      /\ TrueSize(o) \in Nat
  <2>1. /\ HeaderSize(p) \in Nat /\ NamesSize(p) \in Nat /\ InodesSize(p) \in Nat
        /\ BlocksSize(p) \in Nat /\ SizeofBlock(o) \in Nat /\ TrueSize(o) \in Nat
    BY <1>3, SizesAreNat
  <2>2. SizeofBlock(o) * count \in Nat
    BY <1>3, <2>1
  <2> QED
    BY <1>5, <1>6, <2>1, <2>2 DEF TrueSize
<1>8. eof = TrueSize(o) /\ Wrap(eof) = TrueSize(o)
  <2>1. InitOffsets(p).eof = TrueSize(p)
    BY <1>1, Sections DEF Made
  <2>2. Wrap(TrueSize(o)) = TrueSize(o)
    BY <1>4, Sections DEF Made, CalculateSize
  <2> QED
    BY <1>7, <2>1, <2>2
<1>9. AfterWipe(handle, o.block_count) = TrueSize(o)
  <2>1. InitOffsets(p).blocks = HeaderSize(o) + NamesSize(o) + InodesSize(o)
    BY <1>1, <1>5, Sections DEF Made
  <2> QED
    BY <1>2, <1>3, <1>4, <2>1, LastBlock DEF Made
<1>10. InitOffsets(o) = [InitOffsets(p) EXCEPT !.eof = TrueSize(o)]
  <2> DEFINE begins(n) == [size |-> 20, magic |-> 25, options |-> p.magic + 28,
                       hints |-> p.magic + 46, names |-> HeaderSize(p),
                       inodes |-> HeaderSize(p) + NamesSize(p),
                       blocks |-> HeaderSize(p) + NamesSize(p) + InodesSize(p),
                       eof |-> n]
  <2>1. InitOffsets(p) = begins(TrueSize(p))
    BY <1>1, Sections, Zenon DEF Made
  <2>2. InitOffsets(o) = begins(TrueSize(o))
    <3> HIDE DEF o
    <3>1. Bare(o)
      BY <1>4 DEF Made
    <3> QED
      BY <1>3, <1>5, <3>1, Sections, Zenon
  <2>3. begins(TrueSize(o)) = [begins(TrueSize(p)) EXCEPT !.eof = TrueSize(o)]
    OBVIOUS
  <2> HIDE DEF begins, o
  <2> QED
    BY <2>1, <2>2, <2>3
<1>11. /\ handle' = [handle EXCEPT !.opt = o, !.offsets.eof = TrueSize(o),
                                   !.filesize = TrueSize(o)]
       /\ container' = Whole(o)
  <2>1. Max2(TrueSize(o), TrueSize(o)) = TrueSize(o)
    BY DEF Max2
  <2> QED
    BY <1>2, <1>8, <1>9, <2>1 DEF AppendBlocks, Whole
<1>12. handle' = Handle(o, InitOffsets(o), TrueSize(o))
  BY <1>1, <1>10, <1>11 DEF Handle
<1> QED
  BY <1>3, <1>4, <1>11, <1>12 DEF IInv

LEMMA InitSound == Init => IInv
  BY DEF Init, IInv

LEMMA NextKeeps ==
  ASSUME WordAssumption, MaxCount \in Nat, IInv, [Next]_vars
  PROVE  IInv'
<1>1. ASSUME NEW o \in Requested, Mkfs(o) PROVE IInv'
  BY <1>1, MkfsKeeps
<1>2. CASE Open
  <2>1. container # NoContainer
    BY <1>2, Flags DEF Open
  <2>2. PICK o \in Options : Made(o) /\ container = Whole(o)
    BY <2>1 DEF IInv
  <2>3. container.opt = o /\ container.filesize = TrueSize(o)
    BY <2>2 DEF Whole, Container
  <2>4. handle' = Handle(o, InitOffsets(o), TrueSize(o)) /\ container' = Whole(o)
    BY <1>2, <2>2, <2>3 DEF Open
  <2> QED
    BY <2>2, <2>4 DEF IInv
<1>3. ASSUME NEW count \in 1..MaxCount, AppendBlocks(count) PROVE IInv'
  BY <1>3, AppendKeeps
<1>4. CASE Close
  BY <1>4 DEF Close, IInv
<1>5. CASE UNCHANGED vars
  BY <1>5 DEF vars, IInv
<1> QED
  BY <1>1, <1>2, <1>3, <1>4, <1>5 DEF Next

-----------------------------------------------------------------------------
(***************************************************************************)
(* What follows from it.                                                   *)
(***************************************************************************)

LEMMA EndsFollow ==
  ASSUME WordAssumption, IInv
  PROVE  EndsAgree
<1>1. ASSUME container.exists
      PROVE  /\ container.filesize = container.length
             /\ container.length = CalculateSize(container.opt)
  <2>1. PICK o \in Options : Made(o) /\ container = Whole(o)
    BY <1>1, Flags DEF IInv
  <2>2. CalculateSize(o) = TrueSize(o)
    BY <2>1, Sections DEF Made
  <2> QED
    BY <2>1, <2>2 DEF Whole, Container
<1>2. ASSUME handle.open
      PROVE  /\ handle.opt = container.opt
             /\ handle.offsets = InitOffsets(handle.opt)
             /\ handle.filesize = container.filesize
             /\ handle.offsets.eof = container.length
  <2>1. PICK o \in Options :
          Made(o) /\ container = Whole(o) /\ handle = Handle(o, InitOffsets(o), TrueSize(o))
    BY <1>2, Flags DEF IInv
  <2>2. InitOffsets(o).eof = TrueSize(o)
    BY <2>1, Sections DEF Made
  <2> QED
    BY <2>1, <2>2 DEF Whole, Container, Handle
<1> QED
  BY <1>1, <1>2 DEF EndsAgree

\* The place of a record in a table that lies between first and first + count * size.
LEMMA TablePosition ==
  ASSUME Word \in Nat \ {0}, NEW first \in Nat, NEW size \in Nat, NEW count \in Nat,
         first + count * size < Word, size > 0, NEW i \in 1..count
  PROVE  /\ Position(first, i, size) = first + (i - 1) * size
         /\ Position(first, i, size) \in Nat
         /\ Position(first, i, size) + size = first + i * size
         /\ Position(first, i, size) + size <= first + count * size
         /\ \A j \in 1..count :
              i < j => Position(first, i, size) + size <= first + (j - 1) * size
<1>1. /\ (i - 1) * size \in Nat /\ i * size \in Nat
      /\ (i - 1) * size + size = i * size
      /\ i * size <= count * size
      /\ \A j \in 1..count : i < j => i * size <= (j - 1) * size
  BY TableSlots
<1>2. count * size \in Nat
  OBVIOUS
<1>3. Wrap(first + (i - 1) * size) = first + (i - 1) * size
  BY <1>1, <1>2, NoWrap
<1>4. Position(first, i, size) = first + (i - 1) * size
  BY <1>3 DEF Position
<1>5. \A j \in 1..count : (j - 1) * size \in Nat
  BY TableSlots
<1> QED
  BY <1>1, <1>2, <1>4, <1>5

\* Records of a table that begins at first, two of them apart.
LEMMA TableApart ==
  ASSUME Word \in Nat \ {0}, NEW first \in Nat, NEW size \in Nat, NEW count \in Nat,
         first + count * size < Word, size > 0
  PROVE  \A i, j \in 1..count :
           /\ Position(first, i, size) \in Nat
           /\ first <= Position(first, i, size)
           /\ Position(first, i, size) + size <= first + count * size
           /\ i # j => \/ Position(first, i, size) + size <= Position(first, j, size)
                       \/ Position(first, j, size) + size <= Position(first, i, size)
<1>1. ASSUME NEW i \in 1..count
      PROVE  /\ (i - 1) * size \in Nat
             /\ Position(first, i, size) = first + (i - 1) * size
             /\ (i - 1) * size + size = i * size
             /\ i * size \in Nat /\ i * size <= count * size
             /\ \A j \in 1..count : i < j => i * size <= (j - 1) * size
  <2>1. /\ (i - 1) * size \in Nat /\ i * size \in Nat
        /\ (i - 1) * size + size = i * size
        /\ i * size <= count * size
        /\ \A j \in 1..count : i < j => i * size <= (j - 1) * size
    BY TableSlots
  <2>2. count * size \in Nat
    OBVIOUS
  <2>3. Wrap(first + (i - 1) * size) = first + (i - 1) * size
    BY <2>1, <2>2, NoWrap
  <2> QED
    BY <2>1, <2>3 DEF Position
<1> SUFFICES ASSUME NEW i \in 1..count, NEW j \in 1..count
             PROVE  /\ Position(first, i, size) \in Nat
                    /\ first <= Position(first, i, size)
                    /\ Position(first, i, size) + size <= first + count * size
                    /\ i # j => \/ Position(first, i, size) + size <= Position(first, j, size)
                                \/ Position(first, j, size) + size <= Position(first, i, size)
  OBVIOUS
<1> DEFINE a == (i - 1) * size
           b == (j - 1) * size
           c == i * size
           d == j * size
           e == count * size
<1>2. /\ a \in Nat /\ b \in Nat /\ c \in Nat /\ d \in Nat /\ e \in Nat
      /\ a + size = c /\ b + size = d /\ c <= e
      /\ i < j => c <= b
      /\ j < i => d <= a
      /\ Position(first, i, size) = first + a /\ Position(first, j, size) = first + b
  BY <1>1
<1>3. i # j => i < j \/ j < i
  OBVIOUS
<1> HIDE DEF a, b, c, d
<1> QED
  BY <1>2, <1>3

\* The sections, from the first byte to the one behind the last.
Header == {"core", "size", "magic", "options", "hints"}
Tables == {"name", "inode", "block"}

First(o) ==
  [core |-> 0, size |-> 20, magic |-> 25, options |-> o.magic + 28, hints |-> o.magic + 46,
   name |-> HeaderSize(o), inode |-> HeaderSize(o) + NamesSize(o),
   block |-> HeaderSize(o) + NamesSize(o) + InodesSize(o)]

Behind(o) ==
  [core |-> 20, size |-> 25, magic |-> o.magic + 28, options |-> o.magic + 46,
   hints |-> HeaderSize(o), name |-> HeaderSize(o) + NamesSize(o),
   inode |-> HeaderSize(o) + NamesSize(o) + InodesSize(o), block |-> TrueSize(o)]

LEMMA SectionsApart ==
  ASSUME NEW o \in Options, NEW k \in Header \cup Tables, NEW l \in Header \cup Tables
  PROVE  /\ First(o)[k] \in Nat /\ Behind(o)[k] \in Nat /\ Behind(o)[k] <= TrueSize(o)
         /\ k # l => Behind(o)[k] <= First(o)[l] \/ Behind(o)[l] <= First(o)[k]
<1> DEFINE m == o.magic
           n == NamesSize(o)
           i == InodesSize(o)
           b == BlocksSize(o)
           f == [core |-> 0, size |-> 20, magic |-> 25, options |-> m + 28,
                 hints |-> m + 46, name |-> m + 57, inode |-> m + 57 + n,
                 block |-> m + 57 + n + i]
           e == [core |-> 20, size |-> 25, magic |-> m + 28, options |-> m + 46,
                 hints |-> m + 57, name |-> m + 57 + n, inode |-> m + 57 + n + i,
                 block |-> m + 57 + n + i + b]
<1>1. m \in Nat /\ n \in Nat /\ i \in Nat /\ b \in Nat /\ HeaderSize(o) = m + 57
  BY SizesAreNat DEF Options
<1>2. First(o) = f /\ Behind(o) = e /\ TrueSize(o) = m + 57 + n + i + b
  BY <1>1 DEF First, Behind, TrueSize
<1> HIDE DEF m, n, i, b
<1>3. f[k] \in Nat /\ e[k] \in Nat /\ e[k] <= m + 57 + n + i + b
  BY <1>1 DEF Header, Tables
<1>4. k # l => e[k] <= f[l] \/ e[l] <= f[k]
  BY <1>1 DEF Header, Tables
<1> HIDE DEF f, e
<1> QED
  BY <1>2, <1>3, <1>4

\* A record lies in its section, and two records of one table apart.
LEMMA InSection ==
  ASSUME WordAssumption, NEW o \in Options, Made(o), NEW h,
         h = Handle(o, InitOffsets(o), TrueSize(o)), NEW r \in Records(o)
  PROVE  /\ r[1] \in Header \cup Tables
         /\ At(h, r) \in Nat /\ Size(o, r) \in Nat
         /\ First(o)[r[1]] <= At(h, r)
         /\ At(h, r) + Size(o, r) <= Behind(o)[r[1]]
         /\ \A s \in Records(o) :
              s # r /\ s[1] = r[1] => \/ At(h, r) + Size(o, r) <= At(h, s)
                                      \/ At(h, s) + Size(o, s) <= At(h, r)
<1>1. /\ o.magic \in Nat /\ o.block_count \in Nat /\ o.inode_count \in Nat
      /\ Word \in Nat \ {0} /\ TrueSize(o) < Word
  BY DEF Options, WordAssumption, Made, Bare
<1>2. /\ HeaderSize(o) = o.magic + 57 /\ HeaderSize(o) \in Nat
      /\ NamesSize(o) \in Nat /\ InodesSize(o) \in Nat /\ BlocksSize(o) \in Nat
      /\ TrueSize(o) = HeaderSize(o) + NamesSize(o) + InodesSize(o) + BlocksSize(o)
  BY SizesAreNat DEF TrueSize
<1>3. /\ h.opt = o
      /\ h.offsets.size = 20 /\ h.offsets.magic = 25 /\ h.offsets.options = o.magic + 28
      /\ h.offsets.hints = o.magic + 46 /\ h.offsets.names = HeaderSize(o)
      /\ h.offsets.inodes = HeaderSize(o) + NamesSize(o)
      /\ h.offsets.blocks = HeaderSize(o) + NamesSize(o) + InodesSize(o)
  <2>1. h.opt = o /\ h.offsets = InitOffsets(o)
    BY DEF Handle
  <2> QED
    BY <2>1, Sections DEF Made
<1>4. CASE r[1] \in Header
  <2>1. /\ r = <<r[1], 1>> /\ \A s \in Records(o) : s[1] = r[1] => s = <<r[1], 1>>
    BY <1>4 DEF Records, Header
  <2>2. /\ CoreMagic = 20 /\ Uint32 = 5 /\ Uint16 = 3 /\ SizeofOptions = 18
        /\ SizeofHints = 11
    BY DEF CoreMagic, SizeofOptions, SizeofHints, Id, Uint16, Uint32, SizeT
  <2>3. /\ At(h, r) \in Nat /\ Size(o, r) \in Nat
        /\ First(o)[r[1]] <= At(h, r)
        /\ At(h, r) + Size(o, r) <= Behind(o)[r[1]]
    <3>1. CASE r[1] = "core"
      BY <1>1, <1>2, <1>3, <2>2, <3>1 DEF At, Size, First, Behind
    <3>2. CASE r[1] = "size"
      BY <1>1, <1>2, <1>3, <2>2, <3>2 DEF At, Size, First, Behind
    <3>3. CASE r[1] = "magic"
      BY <1>1, <1>2, <1>3, <2>2, <3>3 DEF At, Size, First, Behind
    <3>4. CASE r[1] = "options"
      BY <1>1, <1>2, <1>3, <2>2, <3>4 DEF At, Size, First, Behind
    <3>5. CASE r[1] = "hints"
      BY <1>1, <1>2, <1>3, <2>2, <3>5 DEF At, Size, First, Behind
    <3> QED
      BY <1>4, <3>1, <3>2, <3>3, <3>4, <3>5 DEF Header
  <2> QED
    BY <1>4, <2>1, <2>3
<1>5. CASE r[1] = "name"
  <2> DEFINE base == HeaderSize(o)
             size == SizeofName(o)
             count == o.inode_count
             end == HeaderSize(o) + NamesSize(o)
  <2>1. /\ size \in Nat /\ size > 0 /\ base \in Nat /\ count \in Nat
        /\ base + count * size = end /\ base + count * size < Word
    <3>1. size \in Nat /\ size > 0
      BY DEF SizeofName, NameHeader, Id, Uint16, Options
    <3>2. count * size = NamesSize(o)
      BY <1>1, <3>1 DEF NamesSize
    <3> QED
      BY <1>1, <1>2, <3>1, <3>2
  <2>2. /\ r[2] \in 1..count
        /\ \A s \in Records(o) :
             s[1] = r[1] => /\ s[2] \in 1..count /\ (s # r => s[2] # r[2])
                            /\ At(h, s) = Position(base, s[2], size) /\ Size(o, s) = size
    BY <1>3, <1>5 DEF Records, At, Size, NamePos, SizeofName
  <2>3. First(o)[r[1]] = base /\ Behind(o)[r[1]] = end
    BY <1>2, <1>5 DEF First, Behind
  <2> HIDE DEF base, size, count, end
  <2>4. \A i, j \in 1..count :
          /\ Position(base, i, size) \in Nat
          /\ base <= Position(base, i, size)
          /\ Position(base, i, size) + size <= base + count * size
          /\ i # j => \/ Position(base, i, size) + size <= Position(base, j, size)
                      \/ Position(base, j, size) + size <= Position(base, i, size)
    BY <1>1, <2>1, TableApart
  <2>5. /\ At(h, r) = Position(base, r[2], size) /\ Size(o, r) = size
        /\ At(h, r) \in Nat /\ base <= At(h, r) /\ At(h, r) + size <= end
    BY <2>1, <2>2, <2>4
  <2>6. ASSUME NEW s \in Records(o), s # r, s[1] = r[1]
        PROVE  At(h, r) + size <= At(h, s) \/ At(h, s) + size <= At(h, r)
    <3>1. s[2] \in 1..count /\ s[2] # r[2] /\ At(h, s) = Position(base, s[2], size)
      BY <2>2, <2>6
    <3> QED
      BY <2>2, <2>5, <2>4, <3>1
  <2>7. \A s \in Records(o) : s[1] = r[1] => Size(o, s) = size
    BY <2>2
  <2> QED
    BY <1>5, <2>1, <2>3, <2>5, <2>6, <2>7 DEF Tables
<1>6. CASE r[1] = "inode"
  <2> DEFINE base == HeaderSize(o) + NamesSize(o)
             size == SizeofInode
             count == o.inode_count
             end == HeaderSize(o) + NamesSize(o) + InodesSize(o)
  <2>1. /\ size \in Nat /\ size > 0 /\ base \in Nat /\ count \in Nat
        /\ base + count * size = end /\ base + count * size < Word
    <3>1. size \in Nat /\ size > 0
      BY DEF SizeofInode, Id, Uint8, Uint32
    <3>2. count * size = InodesSize(o)
      BY <1>1, <3>1 DEF InodesSize
    <3> QED
      BY <1>1, <1>2, <3>1, <3>2
  <2>2. /\ r[2] \in 1..count
        /\ \A s \in Records(o) :
             s[1] = r[1] => /\ s[2] \in 1..count /\ (s # r => s[2] # r[2])
                            /\ At(h, s) = Position(base, s[2], size) /\ Size(o, s) = size
    BY <1>3, <1>6 DEF Records, At, Size, InodePos
  <2>3. First(o)[r[1]] = base /\ Behind(o)[r[1]] = end
    BY <1>2, <1>6 DEF First, Behind
  <2> HIDE DEF base, size, count, end
  <2>4. \A i, j \in 1..count :
          /\ Position(base, i, size) \in Nat
          /\ base <= Position(base, i, size)
          /\ Position(base, i, size) + size <= base + count * size
          /\ i # j => \/ Position(base, i, size) + size <= Position(base, j, size)
                      \/ Position(base, j, size) + size <= Position(base, i, size)
    BY <1>1, <2>1, TableApart
  <2>5. /\ At(h, r) = Position(base, r[2], size) /\ Size(o, r) = size
        /\ At(h, r) \in Nat /\ base <= At(h, r) /\ At(h, r) + size <= end
    BY <2>1, <2>2, <2>4
  <2>6. ASSUME NEW s \in Records(o), s # r, s[1] = r[1]
        PROVE  At(h, r) + size <= At(h, s) \/ At(h, s) + size <= At(h, r)
    <3>1. s[2] \in 1..count /\ s[2] # r[2] /\ At(h, s) = Position(base, s[2], size)
      BY <2>2, <2>6
    <3> QED
      BY <2>2, <2>5, <2>4, <3>1
  <2>7. \A s \in Records(o) : s[1] = r[1] => Size(o, s) = size
    BY <2>2
  <2> QED
    BY <1>6, <2>1, <2>3, <2>5, <2>6, <2>7 DEF Tables
<1>7. CASE r[1] = "block"
  <2> DEFINE base == HeaderSize(o) + NamesSize(o) + InodesSize(o)
             size == SizeofBlock(o)
             count == o.block_count
             end == HeaderSize(o) + NamesSize(o) + InodesSize(o) + BlocksSize(o)
  <2>1. /\ size \in Nat /\ size > 0 /\ base \in Nat /\ count \in Nat
        /\ base + count * size = end /\ base + count * size < Word
    <3>1. size \in Nat /\ size > 0
      BY DEF SizeofBlock, SizeofBlockMeta, Id, Uint16, Options
    <3>2. count * size = BlocksSize(o)
      BY <1>1, <3>1 DEF BlocksSize
    <3> QED
      BY <1>1, <1>2, <3>1, <3>2
  <2>2. /\ r[2] \in 1..count
        /\ \A s \in Records(o) :
             s[1] = r[1] => /\ s[2] \in 1..count /\ (s # r => s[2] # r[2])
                            /\ At(h, s) = Position(base, s[2], size) /\ Size(o, s) = size
    BY <1>3, <1>7 DEF Records, At, Size, BlockPos
  <2>3. First(o)[r[1]] = base /\ Behind(o)[r[1]] = end
    BY <1>2, <1>7 DEF First, Behind
  <2> HIDE DEF base, size, count, end
  <2>4. \A i, j \in 1..count :
          /\ Position(base, i, size) \in Nat
          /\ base <= Position(base, i, size)
          /\ Position(base, i, size) + size <= base + count * size
          /\ i # j => \/ Position(base, i, size) + size <= Position(base, j, size)
                      \/ Position(base, j, size) + size <= Position(base, i, size)
    BY <1>1, <2>1, TableApart
  <2>5. /\ At(h, r) = Position(base, r[2], size) /\ Size(o, r) = size
        /\ At(h, r) \in Nat /\ base <= At(h, r) /\ At(h, r) + size <= end
    BY <2>1, <2>2, <2>4
  <2>6. ASSUME NEW s \in Records(o), s # r, s[1] = r[1]
        PROVE  At(h, r) + size <= At(h, s) \/ At(h, s) + size <= At(h, r)
    <3>1. s[2] \in 1..count /\ s[2] # r[2] /\ At(h, s) = Position(base, s[2], size)
      BY <2>2, <2>6
    <3> QED
      BY <2>2, <2>5, <2>4, <3>1
  <2>7. \A s \in Records(o) : s[1] = r[1] => Size(o, s) = size
    BY <2>2
  <2> QED
    BY <1>7, <2>1, <2>3, <2>5, <2>6, <2>7 DEF Tables
<1> QED
  BY <1>4, <1>5, <1>6, <1>7 DEF Records, Header

LEMMA ApartFollows ==
  ASSUME WordAssumption, IInv
  PROVE  RecordsApart
<1> SUFFICES ASSUME handle.open,
                    NEW r \in Records(handle.opt), NEW s \in Records(handle.opt)
             PROVE  /\ At(handle, r) + Size(handle.opt, r) <= container.length
                    /\ s # r => \/ At(handle, r) + Size(handle.opt, r) <= At(handle, s)
                                \/ At(handle, s) + Size(handle.opt, s) <= At(handle, r)
  BY DEF RecordsApart
<1>1. PICK o \in Options :
        Made(o) /\ container = Whole(o) /\ handle = Handle(o, InitOffsets(o), TrueSize(o))
  BY Flags DEF IInv
<1>2. handle.opt = o /\ container.length = TrueSize(o)
  BY <1>1 DEF Handle, Whole, Container
<1>3. /\ r[1] \in Header \cup Tables
      /\ At(handle, r) \in Nat /\ Size(o, r) \in Nat
      /\ First(o)[r[1]] <= At(handle, r)
      /\ At(handle, r) + Size(o, r) <= Behind(o)[r[1]]
      /\ s # r /\ s[1] = r[1] => \/ At(handle, r) + Size(o, r) <= At(handle, s)
                                 \/ At(handle, s) + Size(o, s) <= At(handle, r)
  BY <1>1, <1>2, InSection
<1>4. /\ s[1] \in Header \cup Tables
      /\ At(handle, s) \in Nat /\ Size(o, s) \in Nat
      /\ First(o)[s[1]] <= At(handle, s)
      /\ At(handle, s) + Size(o, s) <= Behind(o)[s[1]]
  BY <1>1, <1>2, InSection
<1>5. /\ First(o)[r[1]] \in Nat /\ Behind(o)[r[1]] \in Nat /\ Behind(o)[r[1]] <= TrueSize(o)
      /\ First(o)[s[1]] \in Nat /\ Behind(o)[s[1]] \in Nat
      /\ r[1] # s[1] => Behind(o)[r[1]] <= First(o)[s[1]] \/ Behind(o)[s[1]] <= First(o)[r[1]]
  BY <1>3, <1>4, SectionsApart
<1>6. TrueSize(o) \in Nat
  BY SizesAreNat
<1> QED
  BY <1>2, <1>3, <1>4, <1>5, <1>6

-----------------------------------------------------------------------------
(***************************************************************************)
(* The theorems.                                                           *)
(***************************************************************************)

\* A container and the handle on it are always as whefs_mkfs would make them with the
\* present options, however often it was extended and opened (whefs_fs_append_blocks
\* adds to what whefs_fs_init_sizes computed).
THEOREM LayoutInvariant ==
  ASSUME WordAssumption, MaxCount \in Nat
  PROVE  Spec => []IInv
<1>1. Init => IInv
  BY InitSound
<1>2. IInv /\ [Next]_vars => IInv'
  BY NextKeeps
<1> QED
  BY <1>1, <1>2, PTL DEF Spec

\* No two records of a container overlap and none reaches behind its end, and all ways
\* to compute that end lead to the same (whefs_fs_init_sizes, whefs_fs_calculate_size,
\* whefs_mkfs_stage2, whefs_fs_append_blocks, whefs_openfs_stage2).
THEOREM LayoutIsSound ==
  ASSUME WordAssumption, MaxCount \in Nat
  PROVE  Spec => []LayoutSound
<1>1. IInv => LayoutSound
  BY ApartFollows, EndsFollow DEF LayoutSound
<1> QED
  BY <1>1, LayoutInvariant, PTL

-----------------------------------------------------------------------------
(***************************************************************************)
(* The listings.  A buffer has a 0 behind the name in it, or is the one    *)
(* byte of a name of one character.                                        *)
(***************************************************************************)

ListedNames == FileNames \cup {<<>>}

LEMMA ListedNameIs ==
  ASSUME NEW s \in ListedNames
  PROVE  s \in Seq(Nat \ {0}) /\ Len(s) \in Nat /\ Len(s) <= MaxName /\ (Len(s) = 0 <=> s = <<>>)
<1>1. CASE s \in FileNames
  <2>1. s \in Seq(Nat \ {0}) /\ Len(s) \in 1..MaxName /\ MaxName \in Nat
    BY <1>1, PartsAssumption DEF Listing!NamesAssumption
  <2> QED
    BY <2>1
<1>2. CASE s = <<>>
  <2>1. MaxName \in Nat
    BY PartsAssumption DEF Listing!NamesAssumption
  <2> QED
    BY <1>2, <2>1
<1> QED
  BY <1>1, <1>2 DEF ListedNames

\* A name with room for a 0 behind it.
LEMMA PaddedIs ==
  ASSUME NEW s \in ListedNames, NEW n \in Nat, n > Len(s)
  PROVE  LET b == Listing!Padded(s, n) IN
         b \in Seq(Nat) /\ Len(b) = n /\ Listing!Ends(b) /\ Listing!CString(b) = s
<1> DEFINE b == Listing!Padded(s, n)
           m == Len(s)
           zs == Listing!Zeros(n - m)
<1>1. s \in Seq(Nat \ {0}) /\ m \in Nat
  BY ListedNameIs
<1>2. zs \in Seq(Nat) /\ Len(zs) = n - m /\ \A i \in 1..(n - m) : zs[i] = 0
  <2>1. n - m \in Nat
    BY <1>1
  <2> DEFINE l == n - m
  <2>2. zs = [i \in 1..l |-> 0]
    BY DEF Listing!Zeros
  <2>3. zs \in [1..l -> Nat] /\ l \in Nat
    BY <2>1, <2>2
  <2> HIDE DEF zs, l
  <2>4. zs \in Seq(Nat) /\ Len(zs) = l /\ \A i \in 1..l : zs[i] = 0
    BY <2>2, <2>3
  <2> QED
    BY <2>4 DEF l
<1>3. b = s \o zs
  BY DEF Listing!Padded
<1>4. s \in Seq(Nat)
  BY <1>1
<1> HIDE DEF b, zs
<1>5. /\ b \in Seq(Nat) /\ Len(b) = n
      /\ \A i \in 1..m : b[i] = s[i]
      /\ \A i \in (m + 1)..n : b[i] = 0
  <2>1. b \in Seq(Nat) /\ Len(b) = m + Len(zs)
    BY <1>1, <1>2, <1>3, <1>4, ConcatProperties
  <2>2. \A i \in 1..(m + Len(zs)) : b[i] = IF i <= m THEN s[i] ELSE zs[i - m]
    BY <1>1, <1>2, <1>3, <1>4, ConcatProperties
  <2>3. Len(b) = n /\ m + Len(zs) = n
    BY <1>1, <1>2, <2>1
  <2>4. ASSUME NEW i \in 1..m PROVE b[i] = s[i]
    BY <1>1, <2>2, <2>3
  <2>5. ASSUME NEW i \in (m + 1)..n PROVE b[i] = 0
    <3>1. i \in 1..(m + Len(zs)) /\ ~(i <= m) /\ i - m \in 1..(n - m)
      BY <1>1, <2>3
    <3> QED
      BY <1>2, <2>2, <3>1
  <2> QED
    BY <2>1, <2>3, <2>4, <2>5
<1>6. m + 1 \in 1..n /\ b[m + 1] = 0
  BY <1>1, <1>5
<1>7. Listing!Ends(b)
  BY <1>5, <1>6 DEF Listing!Ends
<1>8. Listing!SelectInSeq(b, LAMBDA c : c = 0) = m + 1
  <2> DEFINE I == {i \in 1..Len(b) : b[i] = 0}
  <2>1. I # {} /\ m + 1 \in I
    BY <1>5, <1>6
  <2>2. ASSUME NEW i \in I PROVE m + 1 <= i
    <3>1. CASE i <= m
      <4>1. i \in 1..m
        BY <3>1, <1>1
      <4>2. s[i] \in Nat \ {0} /\ b[i] = s[i] /\ b[i] = 0
        BY <1>1, <1>5, <4>1
      <4> QED
        BY <4>2
    <3>2. i \in Nat
      OBVIOUS
    <3> QED
      BY <1>1, <3>1, <3>2
  <2>3. Listing!Min(I) = CHOOSE x \in I : \A y \in I : x <= y
    BY DEF Listing!Min
  <2>4. Listing!Min(I) \in I /\ \A y \in I : Listing!Min(I) <= y
    BY <2>1, <2>2, <2>3
  <2>5. Listing!Min(I) = m + 1
    <3>1. Listing!Min(I) \in Nat
      BY <2>4
    <3> QED
      BY <1>1, <2>1, <2>2, <2>4, <3>1
  <2> QED
    BY <2>1, <2>5 DEF Listing!SelectInSeq
<1>9. Listing!CString(b) = SubSeq(b, 1, m)
  <2>1. m + 1 - 1 = m
    BY <1>1
  <2> QED
    BY <1>8, <2>1 DEF Listing!CString
<1>10. SubSeq(b, 1, m) = s
  <2>1. 1 \in 1..(n + 1) /\ m \in 0..n /\ \A i \in 1..m : b[i] \in Nat
    BY <1>1, <1>4, <1>5
  <2>2. /\ SubSeq(b, 1, m) \in Seq(Nat)
        /\ Len(SubSeq(b, 1, m)) = IF 1 <= m THEN m - 1 + 1 ELSE 0
        /\ \A i \in 1..(m - 1 + 1) : SubSeq(b, 1, m)[i] = b[1 + i - 1]
    BY <1>1, <1>5, <2>1, SubSeqProperties
  <2>3. Len(SubSeq(b, 1, m)) = m /\ \A i \in 1..m : SubSeq(b, 1, m)[i] = s[i]
    BY <1>1, <1>5, <2>2
  <2> HIDE DEF m
  <2> QED
    BY <1>4, <2>2, <2>3, SeqEqual DEF m
<1> QED
  BY <1>5, <1>7, <1>9, <1>10 DEF b

\* A name as it is stored: with room for a 0, or as the one byte there is.
LEMMA StoredIs ==
  ASSUME NEW s \in ListedNames, NEW n \in Nat, n > Len(s) \/ (Len(s) = 1 /\ n = 1)
  PROVE  LET b == Listing!Padded(s, n) IN
         /\ b \in Seq(Nat) /\ Len(b) = n
         /\ Listing!Closed(b) /\ Listing!BytesOf(b) = s
<1> DEFINE b == Listing!Padded(s, n)
<1>1. s \in Seq(Nat \ {0}) /\ Len(s) \in Nat
  BY ListedNameIs
<1>2. CASE n > Len(s)
  <2>1. b \in Seq(Nat) /\ Len(b) = n /\ Listing!Ends(b) /\ Listing!CString(b) = s
    BY <1>2, PaddedIs
  <2> QED
    BY <2>1, Zenon DEF Listing!Closed, Listing!BytesOf
<1>3. CASE Len(s) = 1 /\ n = 1
  <2>1. b = s
    <3>1. Listing!Zeros(n - Len(s)) = <<>>
      <4>1. n - Len(s) = 0 /\ 1..0 = {}
        BY <1>3
      <4> QED
        BY <4>1 DEF Listing!Zeros
    <3>2. s \o <<>> = s
      BY <1>1
    <3> QED
      BY <3>1, <3>2 DEF Listing!Padded
  <2> HIDE DEF b
  <2>2. s \in Seq(Nat) /\ Len(s) = 1 /\ DOMAIN s = {1} /\ s[1] # 0
    BY <1>1, <1>3
  <2>3. ~Listing!Ends(s)
    BY <2>2 DEF Listing!Ends
  <2> QED
    BY <1>3, <2>1, <2>2, <2>3 DEF b, Listing!Closed, Listing!BytesOf
<1> QED
  BY <1>2, <1>3

\* What is longer than the name it says has a 0.
LEMMA EndsWhenLonger ==
  ASSUME NEW b, NEW s, Listing!BytesOf(b) = s, Len(b) # Len(s)
  PROVE  Listing!Ends(b) /\ Listing!CString(b) = s
BY DEF Listing!BytesOf

-----------------------------------------------------------------------------
Strings == [buf : Buffers \cup {NoBuffer}, length : Nat]

Heaps == [Listing!Addresses -> Seq(Nat) \cup {Listing!Freed}]

Has(c, a) == \E k \in DOMAIN c : c[k].buf = a

\* No buffer in use is of two strings or of none, apart from those that are lost, and
\* each has a 0 or is one byte.
OwnedBy(h, t, c, l) ==
  /\ \A j, k \in DOMAIN c : c[j].buf = c[k].buf => j = k \/ c[j].buf = NoBuffer
  /\ t.buf # NoBuffer => ~Has(c, t.buf)
  /\ t.buf \notin l /\ \A a \in l : ~Has(c, a)
  /\ \A a \in Listing!Addresses :
       h[a] # Listing!Freed <=> a = t.buf \/ a \in l \/ Has(c, a)
  /\ t.buf # NoBuffer => Listing!Closed(h[t.buf])
  /\ \A a \in Buffers : Has(c, a) => Listing!Closed(h[a])

Sought == SoughtPatterns \cup {{}}

ListTypes ==
  /\ names \in [Listing!Ids -> ListedNames] /\ used \subseteq Listing!Ids
  /\ call \in [op : {"none", "ls", "ls_named", "foreach", "done"},
               of : {"none", "ls", "foreach"}, id : Nat, pattern : Sought,
               rc : {"OK", "IOError", "AllocError", "Stopped"}]
  /\ heap \in Heaps
  /\ the \in [buf : Listing!Addresses \cup {NoBuffer}, length : Nat]
  /\ chain \in Seq(Strings) /\ lost \subseteq Buffers

\* A string on the stack is that of whefs_fs_entry_foreach, which makes no chain.
ListCall ==
  /\ call.op = "none" => call.of = "none"
  /\ call.op \in {"ls", "ls_named"} => call.of = "ls"
  /\ call.op = "foreach" => call.of = "foreach" /\ Len(heap[Stack]) = MaxName + 1
  /\ call.op = "foreach" <=> the.buf = Stack
  /\ call.op \in {"none", "done"} => the = Listing!EmptyString
  /\ call.of # "ls" => chain = <<>>
  /\ call.id >= 2
  /\ call.op = "ls_named" => call.id \in Listing!Ids

ListHeap == ListTypes /\ ListCall /\ OwnedBy(heap, the, chain, lost)

LEMMA AddressesApart ==
  /\ Stack \notin Buffers /\ NoBuffer \notin Buffers /\ NoBuffer # Stack
  /\ Listing!Addresses = Buffers \cup {Stack} /\ NoBuffer \notin Listing!Addresses
BY PartsAssumption DEF Listing!AddressAssumption, Listing!Addresses

LEMMA FreedApart == Listing!Freed \notin Seq(Nat)
<1>1. Listing!Freed = <<-1>> /\ Listing!Freed[1] = -1 /\ Len(Listing!Freed) = 1
  BY DEF Listing!Freed
<1>2. ASSUME Listing!Freed \in Seq(Nat) PROVE FALSE
  <2>1. Listing!Freed[1] \in Nat
    BY <1>1, <1>2, ElementOfSeq
  <2> QED
    BY <1>1, <2>1
<1> QED
  BY <1>2

\* The buffer of a string is there, and no other string is affected by what is in it.
LEMMA TheIs ==
  ASSUME ListHeap, the.buf # NoBuffer
  PROVE  /\ the.buf \in Listing!Addresses /\ heap[the.buf] \in Seq(Nat)
         /\ Len(heap[the.buf]) \in Nat \ {0} /\ ~Has(chain, the.buf) /\ the.buf \notin lost
<1>1. the.buf \in Listing!Addresses
  BY DEF ListHeap, ListTypes
<1>2. heap[the.buf] # Listing!Freed /\ ~Has(chain, the.buf) /\ the.buf \notin lost
      /\ Listing!Closed(heap[the.buf])
  BY <1>1, Zenon DEF ListHeap, OwnedBy
<1>3. heap[the.buf] \in Seq(Nat)
  BY <1>1, <1>2 DEF ListHeap, ListTypes, Heaps
<1>4. Len(heap[the.buf]) # 0
  <2>1. CASE Listing!Ends(heap[the.buf])
    <3>1. PICK i \in DOMAIN heap[the.buf] : heap[the.buf][i] = 0
      BY <2>1 DEF Listing!Ends
    <3>2. i \in 1..Len(heap[the.buf])
      BY <1>3, <3>1, LenProperties
    <3> QED
      BY <1>3, <3>2
  <2> QED
    BY <1>2, <2>1 DEF Listing!Closed
<1> QED
  BY <1>1, <1>2, <1>3, <1>4, LenProperties

\* What a step that changes the heap does to the strings, and to the chain.
Keeps(h, t) ==
  /\ h \in Heaps /\ t \in [buf : Listing!Addresses \cup {NoBuffer}, length : Nat]
  /\ OwnedBy(h, t, chain, lost)
  /\ \A a \in Listing!Addresses : Has(chain, a) => h[a] = heap[a]

Said(h, t) == IF t.buf = NoBuffer THEN <<>> ELSE Listing!BytesOf(h[t.buf])

\* A buffer that the string has gets other bytes.
LEMMA Rewritten ==
  ASSUME ListHeap, the.buf # NoBuffer, NEW b \in Seq(Nat), Listing!Closed(b), NEW n \in Nat
  PROVE  LET h == [heap EXCEPT ![the.buf] = b]
             t == [the EXCEPT !.length = n]
         IN Keeps(h, t) /\ h[the.buf] = b /\ t.buf = the.buf
<1> DEFINE h == [heap EXCEPT ![the.buf] = b]
           t == [the EXCEPT !.length = n]
<1>1. /\ the.buf \in Listing!Addresses /\ ~Has(chain, the.buf)
      /\ the \in [buf : Listing!Addresses \cup {NoBuffer}, length : Nat] /\ heap \in Heaps
  BY TheIs DEF ListHeap, ListTypes
<1>2. /\ h \in Heaps /\ h[the.buf] = b
      /\ \A a \in Listing!Addresses : a # the.buf => h[a] = heap[a]
  BY <1>1 DEF Heaps
<1>3. t \in [buf : Listing!Addresses \cup {NoBuffer}, length : Nat] /\ t.buf = the.buf
  BY <1>1
<1> HIDE DEF h, t
<1>4. b # Listing!Freed
  BY FreedApart
<1>5. OwnedBy(heap, the, chain, lost)
  BY DEF ListHeap
<1>6. \A a \in Listing!Addresses : Has(chain, a) => h[a] = heap[a]
  BY <1>1, <1>2, Zenon
<1>7. OwnedBy(h, t, chain, lost)
  <2>1. \A a \in Listing!Addresses :
          h[a] # Listing!Freed <=> a = t.buf \/ a \in lost \/ Has(chain, a)
    BY <1>1, <1>2, <1>3, <1>4, <1>5, Zenon DEF OwnedBy
  <2>2. \A a \in Buffers : Has(chain, a) => Listing!Closed(h[a])
    BY <1>5, <1>6, AddressesApart DEF OwnedBy
  <2>3. Listing!Closed(h[t.buf])
    BY <1>2, <1>3
  <2> QED
    BY <1>3, <1>5, <2>1, <2>2, <2>3, Zenon DEF OwnedBy
<1> QED
  BY <1>2, <1>3, <1>6, <1>7 DEF Keeps, h, t

\* The string gets another buffer, or none, for the one it has.
LEMMA Replacement ==
  ASSUME ListHeap, NEW b \in Listing!Addresses \cup {NoBuffer},
         b = the.buf \/ b = NoBuffer \/ heap[b] = Listing!Freed,
         NEW bytes \in Seq(Nat), Listing!Closed(bytes), NEW n \in Nat,
         NEW h, h = [a \in Listing!Addresses |->
                       IF a = b THEN bytes ELSE IF a = the.buf THEN Listing!Freed ELSE heap[a]]
  PROVE  LET t == [buf |-> b, length |-> n]
         IN Keeps(h, t) /\ (b # NoBuffer => h[b] = bytes)
<1> DEFINE t == [buf |-> b, length |-> n]
           x == the.buf
<1>1. heap \in Heaps /\ x \in Listing!Addresses \cup {NoBuffer} /\ OwnedBy(heap, the, chain, lost)
  BY DEF ListHeap, ListTypes
<1>2. /\ h \in Heaps /\ (b # NoBuffer => h[b] = bytes)
      /\ \A a \in Listing!Addresses : a # b => h[a] = IF a = x THEN Listing!Freed ELSE heap[a]
  BY <1>1 DEF Heaps
<1>3. t \in [buf : Listing!Addresses \cup {NoBuffer}, length : Nat] /\ t.buf = b
  OBVIOUS
<1> HIDE DEF t
<1>4. bytes # Listing!Freed
  BY FreedApart
<1>5. b # NoBuffer => ~Has(chain, b) /\ b \notin lost
  <2>1. CASE b # NoBuffer /\ b = the.buf
    BY <2>1, TheIs
  <2>2. CASE b # NoBuffer /\ heap[b] = Listing!Freed
    BY <1>1, <2>2, Zenon DEF OwnedBy
  <2> QED
    BY <2>1, <2>2
<1>6. \A a \in Listing!Addresses : Has(chain, a) => a # b /\ a # x /\ h[a] = heap[a]
  <2>1. ASSUME NEW a \in Listing!Addresses, Has(chain, a)
        PROVE  a # b /\ a # x
    <3>1. a # NoBuffer
      BY AddressesApart
    <3>2. a # b
      BY <1>5, <2>1, <3>1
    <3>3. a # x
      BY <1>1, <2>1, <3>1, Zenon DEF OwnedBy
    <3> QED
      BY <3>2, <3>3
  <2> QED
    BY <1>2, <2>1
<1>7. OwnedBy(h, t, chain, lost)
  <2>1. ASSUME NEW a \in Listing!Addresses
        PROVE  h[a] # Listing!Freed <=> a = b \/ a \in lost \/ Has(chain, a)
    <3>1. CASE a = b
      <4>1. a # NoBuffer
        BY AddressesApart
      <4> QED
        BY <1>2, <1>4, <3>1, <4>1
    <3>2. CASE a # b /\ a = x
      <4>1. a # NoBuffer
        BY AddressesApart
      <4>2. ~Has(chain, a) /\ a \notin lost
        BY <3>2, <4>1, TheIs
      <4> QED
        BY <1>2, <3>2, <4>2
    <3>3. CASE a # b /\ a # x
      <4>1. h[a] = heap[a]
        BY <1>2, <3>3
      <4> QED
        BY <1>1, <3>3, <4>1, Zenon DEF OwnedBy
    <3> QED
      BY <3>1, <3>2, <3>3
  <2>2. \A a \in Buffers : Has(chain, a) => Listing!Closed(h[a])
    BY <1>1, <1>6, AddressesApart DEF OwnedBy
  <2>3. b # NoBuffer => Listing!Closed(h[b])
    BY <1>2
  <2>4. t.buf \notin lost
    <3>1. NoBuffer \notin lost
      BY AddressesApart DEF ListHeap, ListTypes
    <3> QED
      BY <1>3, <1>5, <3>1
  <2> QED
    BY <1>1, <1>3, <1>5, <2>1, <2>2, <2>3, <2>4, Zenon DEF OwnedBy
<1> QED
  BY <1>2, <1>3, <1>6, <1>7 DEF Keeps, t

\* whefs_string_copy_cstring: the string says what was copied, and is the only one that
\* has changed.
LEMMA CopiedIs ==
  ASSUME ListHeap, NEW s \in ListedNames, Listing!Copied(s)
  PROVE  /\ Keeps(heap', the') /\ Said(heap', the') = s
         /\ the'.buf = Stack <=> the.buf = Stack
         /\ the.buf = Stack => Len(heap'[Stack]) = MaxName + 1
<1>1. s \in Seq(Nat \ {0}) /\ Len(s) \in Nat /\ Len(s) <= MaxName /\ (Len(s) = 0 <=> s = <<>>)
  BY ListedNameIs
<1>2. CASE the.buf = NoBuffer /\ (s = <<>> \/ Listing!Fits(the, s)) /\ UNCHANGED heap
           /\ the' = [the EXCEPT !.length = Len(s)]
  <2>1. s = <<>>
    <3>1. CASE Listing!Fits(the, s)
      <4>1. 0 > Len(s)
        BY <1>2, <3>1 DEF Listing!Fits, Listing!Alloced
      <4> QED
        BY <1>1, <4>1
    <3> QED
      BY <1>2, <3>1
  <2>2. the'.buf = the.buf /\ the' \in [buf : Listing!Addresses \cup {NoBuffer}, length : Nat]
    BY <1>1, <1>2 DEF ListHeap, ListTypes
  <2>3. OwnedBy(heap, the', chain, lost)
    BY <2>2 DEF ListHeap, OwnedBy
  <2>4. Keeps(heap, the')
    BY <2>2, <2>3 DEF Keeps, ListHeap, ListTypes
  <2> QED
    BY <1>2, <2>1, <2>2, <2>4, AddressesApart DEF Said
<1>3. CASE the.buf # NoBuffer /\ (s = <<>> \/ Listing!Fits(the, s)) /\ Listing!CopyInPlace(the, s)
           /\ the' = [the EXCEPT !.length = Len(s)]
  <2> DEFINE n == Len(heap[the.buf])
             b == Listing!Padded(s, n)
  <2>1. n \in Nat \ {0}
    BY <1>3, TheIs
  <2>2. n > Len(s)
    BY <1>1, <1>3, <2>1 DEF Listing!Fits, Listing!Alloced
  <2>3. b \in Seq(Nat) /\ Len(b) = n /\ Listing!Closed(b) /\ Listing!BytesOf(b) = s
    BY <2>1, <2>2, StoredIs
  <2>4. heap' = [heap EXCEPT ![the.buf] = b]
    BY <1>3 DEF Listing!CopyInPlace
  <2> HIDE DEF b
  <2>5. Keeps(heap', the') /\ heap'[the.buf] = b /\ the'.buf = the.buf
    BY <1>1, <1>3, <2>3, <2>4, Rewritten
  <2>6. the.buf = Stack => n = MaxName + 1
    BY DEF ListHeap, ListCall
  <2> QED
    BY <1>3, <2>3, <2>5, <2>6 DEF Said
<1>4. CASE /\ s # <<>> /\ ~Listing!Fits(the, s)
           /\ \E b \in {x \in Buffers : heap[x] = Listing!Freed \/ x = the.buf} :
                /\ Listing!Allocate(b, the.buf, Listing!Padded(s, (3 * Len(s)) \div 2))
                /\ the' = [buf |-> b, length |-> Len(s)]
  <2>1. PICK b \in Buffers :
          /\ heap[b] = Listing!Freed \/ b = the.buf
          /\ Listing!Allocate(b, the.buf, Listing!Padded(s, (3 * Len(s)) \div 2))
          /\ the' = [buf |-> b, length |-> Len(s)]
    BY <1>4
  <2> DEFINE n == (3 * Len(s)) \div 2
             bytes == Listing!Padded(s, n)
  <2>2. Len(s) >= 1
    BY <1>1, <1>4
  <2>3. n \in Nat /\ (n > Len(s) \/ (Len(s) = 1 /\ n = 1))
    <3>1. CASE Len(s) = 1
      <4>1. 3 * 1 = 3 /\ 3 \div 2 = 1
        OBVIOUS
      <4> QED
        BY <3>1, <4>1
    <3>2. CASE Len(s) > 1
      BY <1>1, <3>2
    <3>3. Len(s) = 1 \/ Len(s) > 1
      <4>1. \A k \in Nat : k >= 1 => k = 1 \/ k > 1
        OBVIOUS
      <4> QED
        BY <1>1, <2>2, <4>1, Zenon
    <3> QED
      BY <3>1, <3>2, <3>3, Zenon
  <2>4. bytes \in Seq(Nat) /\ Listing!Closed(bytes) /\ Listing!BytesOf(bytes) = s
    BY <2>3, StoredIs
  <2>5. heap' = [a \in Listing!Addresses |->
                   IF a = b THEN bytes ELSE IF a = the.buf THEN Listing!Freed ELSE heap[a]]
    BY <2>1 DEF Listing!Allocate
  <2> HIDE DEF bytes
  <2>6. b \in Listing!Addresses \cup {NoBuffer} /\ b # NoBuffer /\ b # Stack
    BY AddressesApart
  <2>7. Keeps(heap', the') /\ heap'[b] = bytes
    BY <1>1, <2>1, <2>4, <2>5, <2>6, Replacement
  <2>8. the.buf # Stack
    <3>1. ASSUME the.buf = Stack PROVE FALSE
      <4>1. Listing!Alloced(the) = MaxName + 1
        BY <3>1, AddressesApart DEF Listing!Alloced, ListHeap, ListCall
      <4>2. MaxName + 1 > Len(s)
        BY <1>1, PartsAssumption DEF Listing!NamesAssumption
      <4> QED
        BY <1>4, <4>1, <4>2 DEF Listing!Fits
    <3> QED
      BY <3>1
  <2>9. Said(heap', the') = s
    BY <2>1, <2>4, <2>6, <2>7 DEF Said
  <2> QED
    BY <2>1, <2>6, <2>7, <2>8, <2>9
<1> QED
  BY <1>2, <1>3, <1>4 DEF Listing!Copied

\* whefs_string_clear: the string has no buffer, and what it had can be given out.
LEMMA DroppedIs ==
  ASSUME ListHeap, Listing!Dropped(the), the' = Listing!EmptyString
  PROVE  Keeps(heap', the')
<1> DEFINE bytes == <<0>>
<1>1. bytes \in Seq(Nat) /\ Listing!Closed(bytes)
  BY DEF Listing!Closed, Listing!Ends
<1>2. /\ the' = [buf |-> NoBuffer, length |-> 0]
      /\ NoBuffer \in Listing!Addresses \cup {NoBuffer} /\ 0 \in Nat
  BY DEF Listing!EmptyString
<1>3. heap \in Heaps
  BY DEF ListHeap, ListTypes
<1>4. heap' = [a \in Listing!Addresses |->
                 IF a = NoBuffer THEN bytes ELSE IF a = the.buf THEN Listing!Freed ELSE heap[a]]
  <2>1. CASE the.buf = NoBuffer
    BY <1>3, <2>1, AddressesApart DEF Listing!Dropped, Heaps
  <2>2. CASE the.buf # NoBuffer
    BY <1>3, <2>2, AddressesApart DEF Listing!Dropped, Listing!Clear, Heaps
  <2> QED
    BY <2>1, <2>2
<1> HIDE DEF bytes
<1>5. Keeps(heap', [buf |-> NoBuffer, length |-> 0])
  <2> DEFINE h == heap'
  <2>1. h = [a \in Listing!Addresses |->
               IF a = NoBuffer THEN bytes ELSE IF a = the.buf THEN Listing!Freed ELSE heap[a]]
    BY <1>4
  <2> HIDE DEF h
  <2>2. Keeps(h, [buf |-> NoBuffer, length |-> 0])
    BY <1>1, <1>2, <2>1, Replacement
  <2> QED
    BY <2>2 DEF h
<1> QED
  BY <1>2, <1>5

Calls ==
  [op : {"none", "ls", "ls_named", "foreach", "done"}, of : {"none", "ls", "foreach"},
   id : Nat, pattern : Sought, rc : {"OK", "IOError", "AllocError", "Stopped"}]

LEMMA HeapKept ==
  ASSUME ListHeap, Keeps(heap', the'), UNCHANGED <<names, used, chain, lost>>,
         call' \in Calls, ListCall'
  PROVE  ListHeap'
BY DEF ListHeap, ListTypes, Keeps, Calls

LEMMA KeepsSelf ==
  ASSUME ListHeap
  PROVE  Keeps(heap, the)
BY DEF ListHeap, ListTypes, Keeps

LEMMA CallBegins ==
  ASSUME ListHeap, call.op = "none", chain = <<>>
  PROVE  /\ \A a \in Listing!Addresses : heap[a] # Listing!Freed <=> a \in lost
         /\ \A a : ~Has(chain, a)
         /\ the = Listing!EmptyString /\ the.buf = NoBuffer
<1>1. \A a : ~Has(chain, a)
  BY DEF Has
<1>2. the = Listing!EmptyString /\ the.buf = NoBuffer
  BY DEF ListHeap, ListCall, Listing!EmptyString
<1>3. \A a \in Listing!Addresses : heap[a] # Listing!Freed <=> a = the.buf \/ a \in lost \/ Has(chain, a)
  BY DEF ListHeap, OwnedBy
<1> QED
  BY <1>1, <1>2, <1>3, AddressesApart

\* whefs_fs_entry_foreach begins with its array, which holds no name.
LEMMA ForeachHeap ==
  ASSUME ListHeap, Listing!Foreach
  PROVE  ListHeap'
<1>1. /\ call.op = "none" /\ chain = <<>>
      /\ call' = [Listing!Idle EXCEPT !.op = "foreach", !.of = "foreach"]
      /\ heap' = [heap EXCEPT ![Stack] = Listing!Zeros(Listing!BufSize)]
      /\ the' = [buf |-> Stack, length |-> 0]
      /\ UNCHANGED <<names, used, chain, lost>>
  BY DEF Listing!Foreach
<1> DEFINE n == MaxName + 1
           b == Listing!Zeros(Listing!BufSize)
<1>2. n \in Nat \ {0} /\ MaxName \in Nat
  BY PartsAssumption DEF Listing!NamesAssumption
<1>3. b = [i \in 1..n |-> 0]
  BY DEF Listing!Zeros, Listing!BufSize
<1>4. b \in [1..n -> Nat]
  BY <1>3
<1>15. heap' = [heap EXCEPT ![Stack] = b]
  BY <1>1
<1> HIDE DEF b, n
<1>5. b \in Seq(Nat) /\ Len(b) = n /\ Listing!Closed(b)
  <2>1. b \in Seq(Nat) /\ Len(b) = n /\ 1 \in DOMAIN b /\ b[1] = 0
    BY <1>2, <1>3, <1>4
  <2> QED
    BY <2>1 DEF Listing!Closed, Listing!Ends
<1>6. /\ \A a \in Listing!Addresses : heap[a] # Listing!Freed <=> a \in lost
      /\ \A a : ~Has(chain, a)
      /\ the.buf = NoBuffer
  BY <1>1, CallBegins
<1>7. Stack \in Listing!Addresses /\ Stack \notin lost /\ Stack # NoBuffer
  BY AddressesApart DEF ListHeap, ListTypes
<1>8. heap' \in Heaps /\ heap'[Stack] = b
      /\ \A a \in Listing!Addresses : a # Stack => heap'[a] = heap[a]
  BY <1>5, <1>7, <1>15 DEF ListHeap, ListTypes, Heaps
<1>9. the' \in [buf : Listing!Addresses \cup {NoBuffer}, length : Nat] /\ the'.buf = Stack
  BY <1>1, <1>7
<1>10. OwnedBy(heap', the', chain, lost)
  <2>1. b # Listing!Freed
    BY <1>5, FreedApart
  <2>2. \A a \in Listing!Addresses :
          heap'[a] # Listing!Freed <=> a = the'.buf \/ a \in lost \/ Has(chain, a)
    BY <1>6, <1>7, <1>8, <1>9, <2>1, Zenon
  <2>3. DOMAIN chain = {}
    BY <1>1
  <2> QED
    BY <1>5, <1>6, <1>7, <1>8, <1>9, <2>2, <2>3 DEF OwnedBy
<1>11. call' = [op |-> "foreach", of |-> "foreach", id |-> 2, pattern |-> {}, rc |-> "OK"]
  BY <1>1 DEF Listing!Idle
<1>12. call' \in Calls
  BY <1>11 DEF Calls, Sought
<1>13. ListCall'
  <2>1. Len(heap'[Stack]) = MaxName + 1
    BY <1>5, <1>8 DEF n
  <2>2. call'.op = "foreach" /\ call'.of = "foreach" /\ call'.id = 2
    BY <1>11
  <2> QED
    BY <1>1, <1>9, <2>1, <2>2 DEF ListCall
<1>14. Keeps(heap', the')
  BY <1>6, <1>8, <1>9, <1>10 DEF Keeps
<1> QED
  BY <1>1, <1>12, <1>13, <1>14, HeapKept

\* The caller frees the chain.
LEMMA FinalizeHeap ==
  ASSUME ListHeap, Listing!Finalize
  PROVE  ListHeap'
<1>1. /\ call.op = "done"
      /\ heap' = [a \in Listing!Addresses |-> IF Has(chain, a) THEN Listing!Freed ELSE heap[a]]
      /\ chain' = <<>> /\ call' = Listing!Idle
      /\ UNCHANGED <<names, used, the, lost>>
  BY DEF Listing!Finalize, Has
<1>2. the = Listing!EmptyString /\ the.buf = NoBuffer
  BY <1>1 DEF ListHeap, ListCall, Listing!EmptyString
<1>3. heap' \in Heaps
  BY <1>1 DEF ListHeap, ListTypes, Heaps
<1>4. DOMAIN chain' = {} /\ \A a : ~Has(chain', a)
  BY <1>1 DEF Has
<1>5. OwnedBy(heap', the', chain', lost')
  <2>1. \A a \in Listing!Addresses :
          heap'[a] # Listing!Freed <=> a = the'.buf \/ a \in lost' \/ Has(chain', a)
    <3>1. ASSUME NEW a \in Listing!Addresses
          PROVE  heap'[a] # Listing!Freed <=> a \in lost
      <4>1. heap[a] # Listing!Freed <=> a = the.buf \/ a \in lost \/ Has(chain, a)
        BY DEF ListHeap, OwnedBy
      <4>2. a # the.buf
        BY <1>2, AddressesApart
      <4>3. a \in lost => ~Has(chain, a)
        BY DEF ListHeap, OwnedBy
      <4> QED
        BY <1>1, <4>1, <4>2, <4>3
    <3>2. \A a \in Listing!Addresses : a # the.buf
      BY <1>2, AddressesApart
    <3> QED
      BY <1>1, <1>4, <3>1, <3>2
  <2>2. the'.buf = NoBuffer /\ the'.buf \notin lost'
    BY <1>1, <1>2, AddressesApart DEF ListHeap, ListTypes
  <2> QED
    BY <1>4, <2>1, <2>2, Zenon DEF OwnedBy
<1>6. call' = [op |-> "none", of |-> "none", id |-> 2, pattern |-> {}, rc |-> "OK"]
  BY <1>1 DEF Listing!Idle
<1>7. ListTypes'
  <2>1. chain' \in Seq(Strings)
    BY <1>1
  <2> QED
    BY <1>1, <1>3, <1>6, <2>1 DEF ListHeap, ListTypes, Sought
<1>8. ListCall'
  BY <1>1, <1>2, <1>6, AddressesApart DEF ListCall, ListHeap, Listing!EmptyString
<1> QED
  BY <1>5, <1>7, <1>8 DEF ListHeap

\* A new string takes the buffer over.
LEMMA AppendHeap ==
  ASSUME ListHeap, Listing!LsAppend
  PROVE  ListHeap'
<1>1. /\ call.op = "ls_named" /\ chain' = Append(chain, the) /\ the' = Listing!EmptyString
      /\ call' = [call EXCEPT !.op = "ls", !.id = @ + 1]
      /\ UNCHANGED <<names, used, heap, lost>>
  BY DEF Listing!LsAppend
<1>2. the \in Strings
  BY <1>1, AddressesApart DEF ListHeap, ListTypes, ListCall, Strings
<1> DEFINE n == Len(chain)
<1>3. /\ chain \in Seq(Strings) /\ n \in Nat /\ DOMAIN chain = 1..n
      /\ chain' \in Seq(Strings) /\ DOMAIN chain' = 1..(n + 1)
      /\ \A k \in 1..n : chain'[k] = chain[k]
      /\ chain'[n + 1] = the
  BY <1>1, <1>2, AppendProperties DEF ListHeap, ListTypes
<1> HIDE DEF n
<1>4. \A a : Has(chain', a) <=> Has(chain, a) \/ a = the.buf
  <2>1. ASSUME NEW a, NEW k \in 1..(n + 1), chain'[k].buf = a
        PROVE  Has(chain, a) \/ a = the.buf
    <3>1. CASE k = n + 1
      BY <1>3, <2>1, <3>1
    <3>2. CASE k # n + 1
      <4>1. k \in 1..n
        BY <1>3, <3>2
      <4> QED
        BY <1>3, <2>1, <4>1 DEF Has
    <3> QED
      BY <3>1, <3>2
  <2>2. ASSUME NEW a, NEW k \in 1..n, chain[k].buf = a
        PROVE  Has(chain', a)
    <3>1. k \in 1..(n + 1)
      BY <1>3
    <3> QED
      BY <1>3, <2>2, <3>1 DEF Has
  <2>3. Has(chain', the.buf)
    <3>1. n + 1 \in 1..(n + 1)
      BY <1>3
    <3> QED
      BY <1>3, <3>1 DEF Has
  <2> QED
    BY <1>3, <2>1, <2>2, <2>3 DEF Has
<1>5. OwnedBy(heap, the, chain, lost)
  BY DEF ListHeap
<1>6. the'.buf = NoBuffer
  BY <1>1 DEF Listing!EmptyString
<1>7. OwnedBy(heap', the', chain', lost')
  <2>1. ASSUME NEW j \in DOMAIN chain', NEW k \in DOMAIN chain', chain'[j].buf = chain'[k].buf,
               chain'[j].buf # NoBuffer
        PROVE  j = k
    <3>1. CASE j \in 1..n /\ k \in 1..n
      <4>1. chain[j].buf = chain[k].buf /\ chain[j].buf # NoBuffer
        BY <1>3, <2>1, <3>1
      <4> QED
        BY <1>3, <1>5, <3>1, <4>1, Zenon DEF OwnedBy
    <3>2. CASE j \in 1..n /\ k = n + 1
      <4>1. chain[j].buf = the.buf /\ the.buf # NoBuffer
        BY <1>3, <2>1, <3>2
      <4>2. Has(chain, the.buf)
        BY <1>3, <3>2, <4>1 DEF Has
      <4> QED
        BY <1>5, <4>1, <4>2, Zenon DEF OwnedBy
    <3>3. CASE j = n + 1 /\ k \in 1..n
      <4>1. chain[k].buf = the.buf /\ the.buf # NoBuffer
        BY <1>3, <2>1, <3>3
      <4>2. Has(chain, the.buf)
        BY <1>3, <3>3, <4>1 DEF Has
      <4> QED
        BY <1>5, <4>1, <4>2, Zenon DEF OwnedBy
    <3>4. \A i \in 1..(n + 1) : i \in 1..n \/ i = n + 1
      BY <1>3
    <3> QED
      BY <1>3, <3>1, <3>2, <3>3, <3>4
  <2>2. NoBuffer \notin lost
    BY AddressesApart DEF ListHeap, ListTypes
  <2>3. ASSUME NEW a \in Listing!Addresses
        PROVE  heap'[a] # Listing!Freed <=> a = the'.buf \/ a \in lost' \/ Has(chain', a)
    <3>1. a # NoBuffer
      BY AddressesApart
    <3>2. heap[a] # Listing!Freed <=> a = the.buf \/ a \in lost \/ Has(chain, a)
      BY <1>5 DEF OwnedBy
    <3> QED
      BY <1>1, <1>4, <1>6, <3>1, <3>2, Zenon
  <2>4. ASSUME NEW a \in lost' PROVE ~Has(chain', a)
    BY <1>1, <1>4, <1>5, <2>4, Zenon DEF OwnedBy
  <2>5. ASSUME NEW a \in Buffers, Has(chain', a) PROVE Listing!Closed(heap'[a])
    <3>1. a # NoBuffer
      BY AddressesApart
    <3> QED
      BY <1>1, <1>4, <1>5, <2>5, <3>1, Zenon DEF OwnedBy
  <2>6. the'.buf \notin lost'
    BY <1>1, <1>6, <2>2
  <2> QED
    BY <1>6, <2>1, <2>3, <2>4, <2>5, <2>6, Zenon DEF OwnedBy
<1>8. /\ call' \in Calls /\ call'.op = "ls" /\ call'.of = "ls" /\ call'.id = call.id + 1
      /\ call.id \in Nat /\ call.id >= 2
  <2>1. call \in Calls /\ call.id >= 2 /\ call.of = "ls"
    BY <1>1 DEF ListHeap, ListTypes, ListCall, Calls
  <2>2. call.id \in Nat /\ call.id + 1 \in Nat
    BY <2>1 DEF Calls
  <2>3. /\ call'.op = "ls" /\ call'.of = call.of /\ call'.id = call.id + 1
        /\ call'.pattern = call.pattern /\ call'.rc = call.rc
    BY <1>1, <2>1 DEF Calls
  <2>4. call' \in Calls
    BY <1>1, <2>1, <2>2 DEF Calls
  <2> QED
    BY <2>1, <2>2, <2>3, <2>4
<1>9. ListTypes'
  <2>1. the' \in [buf : Listing!Addresses \cup {NoBuffer}, length : Nat]
    BY <1>1 DEF Listing!EmptyString
  <2> QED
    BY <1>1, <1>3, <1>8, <2>1 DEF ListHeap, ListTypes, Calls
<1>10. ListCall'
  BY <1>6, <1>8, AddressesApart DEF ListCall
<1> QED
  BY <1>7, <1>9, <1>10 DEF ListHeap

\* There is no memory for a new string, and the buffer of the old one is lost.
LEMMA LostHeap ==
  ASSUME ListHeap, Listing!LsAppendFails
  PROVE  ListHeap'
<1>1. /\ call.op = "ls_named" /\ lost' = lost \cup ({the.buf} \ {NoBuffer})
      /\ the' = Listing!EmptyString
      /\ call' = [call EXCEPT !.op = "done", !.rc = "AllocError"]
      /\ UNCHANGED <<names, used, heap, chain>>
  BY DEF Listing!LsAppendFails, Listing!Return
<1>2. OwnedBy(heap, the, chain, lost)
  BY DEF ListHeap
<1>3. the'.buf = NoBuffer
  BY <1>1 DEF Listing!EmptyString
<1>4. the.buf \in Buffers \cup {NoBuffer} /\ lost \subseteq Buffers
  BY <1>1, AddressesApart DEF ListHeap, ListTypes, ListCall
<1>5. lost' \subseteq Buffers
  BY <1>1, <1>4
<1>6. OwnedBy(heap', the', chain', lost')
  <2>1. the'.buf \notin lost'
    BY <1>3, <1>5, AddressesApart
  <2>2. ASSUME NEW a \in lost' PROVE ~Has(chain', a)
    <3>1. a \in lost \/ (a = the.buf /\ the.buf # NoBuffer)
      BY <1>1, <2>2
    <3> QED
      BY <1>1, <1>2, <3>1, Zenon DEF OwnedBy
  <2>3. ASSUME NEW a \in Listing!Addresses
        PROVE  heap'[a] # Listing!Freed <=> a = the'.buf \/ a \in lost' \/ Has(chain', a)
    <3>1. a # NoBuffer
      BY AddressesApart
    <3>2. heap[a] # Listing!Freed <=> a = the.buf \/ a \in lost \/ Has(chain, a)
      BY <1>2 DEF OwnedBy
    <3>3. a \in lost' <=> a \in lost \/ a = the.buf
      BY <1>1, <3>1
    <3> QED
      BY <1>1, <1>3, <3>1, <3>2, <3>3, Zenon
  <2> QED
    BY <1>1, <1>2, <1>3, <2>1, <2>2, <2>3, Zenon DEF OwnedBy
<1>7. call' \in Calls /\ call'.op = "done" /\ call'.of = "ls" /\ call'.id = call.id
  BY <1>1 DEF ListHeap, ListTypes, ListCall, Calls
<1>8. ListTypes'
  <2>1. the' \in [buf : Listing!Addresses \cup {NoBuffer}, length : Nat]
    BY <1>1 DEF Listing!EmptyString
  <2> QED
    BY <1>1, <1>5, <1>7, <2>1 DEF ListHeap, ListTypes, Calls
<1>9. ListCall'
  BY <1>1, <1>3, <1>7, AddressesApart DEF ListCall, ListHeap
<1> QED
  BY <1>6, <1>8, <1>9 DEF ListHeap

\* A call ends and gives the string back.
LEMMA DoneHeap ==
  ASSUME ListHeap, call.op # "none", Listing!Dropped(the), the' = Listing!EmptyString,
         NEW rc0 \in {"OK", "IOError", "AllocError", "Stopped"}, Listing!Return(rc0),
         UNCHANGED <<names, used, chain, lost>>
  PROVE  ListHeap' /\ Keeps(heap', the')
<1>1. Keeps(heap', the')
  BY DroppedIs
<1>2. call' = [call EXCEPT !.op = "done", !.rc = rc0]
  BY DEF Listing!Return
<1>3. call' \in Calls /\ call'.op = "done" /\ call'.of = call.of /\ call'.id = call.id
  BY <1>2 DEF ListHeap, ListTypes, Calls
<1>4. the'.buf = NoBuffer
  BY DEF Listing!EmptyString
<1>5. ListCall'
  BY <1>3, <1>4, AddressesApart DEF ListCall, ListHeap
<1> QED
  BY <1>1, <1>3, <1>5, HeapKept

LEMMA CallNext ==
  ASSUME ListHeap, NEW x \in {"ls", "foreach"},
         call' = [call EXCEPT !.op = x, !.id = @ + 1]
  PROVE  /\ call' \in Calls /\ call'.op = x /\ call'.of = call.of /\ call'.id = call.id + 1
         /\ call'.pattern = call.pattern /\ call'.rc = call.rc
         /\ call.id \in Nat /\ call.id >= 2
<1>1. call \in Calls /\ call.id >= 2
  BY DEF ListHeap, ListTypes, ListCall, Calls
<1>2. call.id \in Nat /\ call.id + 1 \in Nat
  BY <1>1 DEF Calls
<1>3. /\ call'.op = x /\ call'.of = call.of /\ call'.id = call.id + 1
      /\ call'.pattern = call.pattern /\ call'.rc = call.rc
  BY <1>1 DEF Calls
<1>4. call' \in Calls
  BY <1>1, <1>2 DEF Calls
<1> QED
  BY <1>1, <1>2, <1>3, <1>4

LEMMA NameOf ==
  ASSUME ListTypes, NEW id \in Listing!Ids
  PROVE  names[id] \in ListedNames
BY DEF ListTypes

LEMMA ListHeapStep ==
  ASSUME ListHeap, [Listing!Next]_Listing!vars
  PROVE  ListHeap'
<1>1. ASSUME NEW p \in SoughtPatterns, Listing!Ls(p) PROVE ListHeap'
  <2>1. /\ call.op = "none" /\ chain = <<>>
        /\ call' = [Listing!Idle EXCEPT !.op = "ls", !.of = "ls", !.pattern = p]
        /\ the' = Listing!EmptyString
        /\ UNCHANGED <<names, used, heap, chain, lost>>
    BY <1>1 DEF Listing!Ls
  <2>2. the' = the /\ the'.buf = NoBuffer
    BY <2>1, CallBegins
  <2>3. Keeps(heap', the')
    BY <2>1, <2>2, KeepsSelf
  <2>4. call' = [op |-> "ls", of |-> "ls", id |-> 2, pattern |-> p, rc |-> "OK"]
    BY <2>1 DEF Listing!Idle
  <2>5. call' \in Calls
    BY <2>4 DEF Calls, Sought
  <2>6. ListCall'
    BY <2>2, <2>4, AddressesApart DEF ListCall
  <2> QED
    BY <2>1, <2>3, <2>5, <2>6, HeapKept
<1>2. CASE Listing!LsName
  <2>1. /\ call.op = "ls" /\ call.id <= LastId /\ Listing!Copied(names[call.id])
        /\ call' = [call EXCEPT !.op = "ls_named"]
        /\ UNCHANGED <<names, used, chain, lost>>
    BY <1>2 DEF Listing!LsName
  <2>2. call \in Calls /\ call.id >= 2 /\ call.of = "ls" /\ the.buf # Stack /\ LastId \in Nat
    BY <2>1, PartsAssumption DEF ListHeap, ListTypes, ListCall, Calls, Listing!NamesAssumption
  <2>3. call.id \in Listing!Ids
    BY <2>1, <2>2 DEF Calls, Listing!Ids
  <2>4. Keeps(heap', the') /\ the'.buf # Stack
    BY <2>1, <2>2, <2>3, NameOf, CopiedIs DEF ListHeap
  <2>5. /\ call' \in Calls /\ call'.op = "ls_named" /\ call'.of = call.of /\ call'.id = call.id
    BY <2>1, <2>2 DEF Calls
  <2>6. ListCall'
    BY <2>2, <2>3, <2>4, <2>5 DEF ListCall
  <2> QED
    BY <2>1, <2>4, <2>5, <2>6, HeapKept
<1>3. CASE Listing!LsNameFails
  <2>1. /\ call.op = "ls" /\ Listing!Dropped(the) /\ the' = Listing!EmptyString
        /\ UNCHANGED <<names, used, chain, lost>>
    BY <1>3 DEF Listing!LsNameFails
  <2>2. PICK r \in {"IOError", "AllocError"} : Listing!Return(r)
    BY <1>3 DEF Listing!LsNameFails
  <2> QED
    BY <2>1, <2>2, DoneHeap
<1>4. CASE Listing!LsSkip
  <2>1. /\ call.op = "ls_named"
        /\ call' = [call EXCEPT !.op = "ls", !.id = @ + 1]
        /\ UNCHANGED <<names, used, heap, the, chain, lost>>
    BY <1>4 DEF Listing!LsSkip
  <2>2. /\ call' \in Calls /\ call'.op = "ls" /\ call'.of = call.of /\ call'.id = call.id + 1
        /\ call.id \in Nat /\ call.id >= 2
    BY <2>1, CallNext
  <2>3. ListCall'
    BY <2>1, <2>2 DEF ListCall, ListHeap
  <2> QED
    BY <2>1, <2>2, <2>3, KeepsSelf, HeapKept
<1>5. CASE Listing!LsInodeFails
  <2>1. /\ call.op = "ls_named" /\ Listing!Dropped(the) /\ the' = Listing!EmptyString
        /\ UNCHANGED <<names, used, chain, lost>> /\ Listing!Return("IOError")
    BY <1>5 DEF Listing!LsInodeFails
  <2> QED
    BY <2>1, DoneHeap
<1>6. CASE Listing!LsAppend
  BY <1>6, AppendHeap
<1>7. CASE Listing!LsAppendFails
  BY <1>7, LostHeap
<1>8. CASE Listing!LsEnd
  <2>1. /\ call.op = "ls" /\ Listing!Dropped(the) /\ the' = Listing!EmptyString
        /\ UNCHANGED <<names, used, chain, lost>> /\ Listing!Return("OK")
    BY <1>8 DEF Listing!LsEnd
  <2> QED
    BY <2>1, DoneHeap
<1>9. CASE Listing!Finalize
  BY <1>9, FinalizeHeap
<1>10. CASE Listing!Foreach
  BY <1>10, ForeachHeap
<1>11. ASSUME call.op = "foreach", Listing!GoOn, Keeps(heap', the'), the'.buf = Stack,
              Len(heap'[Stack]) = MaxName + 1, UNCHANGED <<names, used, chain, lost>>
       PROVE  ListHeap'
  <2>1. call' = [call EXCEPT !.op = "foreach", !.id = @ + 1]
    <3>1. call' = [call EXCEPT !.id = @ + 1] /\ call \in Calls
      BY <1>11 DEF Listing!GoOn, ListHeap, ListTypes, Calls
    <3> QED
      BY <1>11, <3>1 DEF Calls
  <2>2. /\ call' \in Calls /\ call'.op = "foreach" /\ call'.of = call.of
        /\ call'.id = call.id + 1 /\ call.id \in Nat /\ call.id >= 2
    BY <2>1, CallNext
  <2>3. ListCall'
    BY <1>11, <2>2 DEF ListCall, ListHeap
  <2> QED
    BY <1>11, <2>2, <2>3, HeapKept
<1>12. CASE Listing!ForeachSkip
  <2>1. /\ call.op = "foreach" /\ Listing!GoOn
        /\ UNCHANGED <<names, used, heap, the, chain, lost>>
    BY <1>12 DEF Listing!ForeachSkip
  <2>2. the.buf = Stack /\ Len(heap[Stack]) = MaxName + 1
    BY <2>1 DEF ListHeap, ListCall
  <2> QED
    BY <1>11, <2>1, <2>2, KeepsSelf
<1>13. CASE Listing!Visit
  <2>1. /\ call.op = "foreach" /\ call.id \in used /\ Listing!Copied(names[call.id])
        /\ Listing!GoOn /\ UNCHANGED <<names, used, chain, lost>>
    BY <1>13 DEF Listing!Visit
  <2>2. the.buf = Stack /\ call.id \in Listing!Ids
    BY <2>1 DEF ListHeap, ListCall, ListTypes
  <2>3. Keeps(heap', the') /\ the'.buf = Stack /\ Len(heap'[Stack]) = MaxName + 1
    BY <2>1, <2>2, NameOf, CopiedIs DEF ListHeap
  <2> QED
    BY <1>11, <2>1, <2>3
<1>14. CASE Listing!ForeachEnd
  <2>1. /\ call.op = "foreach" /\ heap' = [heap EXCEPT ![Stack] = Listing!Freed]
        /\ the' = Listing!EmptyString /\ UNCHANGED <<names, used, chain, lost>>
    BY <1>14 DEF Listing!ForeachEnd
  <2>2. the.buf = Stack /\ Stack # NoBuffer
    BY <2>1, AddressesApart DEF ListHeap, ListCall
  <2>3. Listing!Dropped(the)
    BY <2>1, <2>2 DEF Listing!Dropped, Listing!Clear
  <2>4. PICK r \in {"OK", "Stopped"} : Listing!Return(r)
    BY <1>14 DEF Listing!ForeachEnd
  <2> QED
    BY <2>1, <2>3, <2>4, DoneHeap
<1>15. CASE UNCHANGED Listing!vars
  BY <1>15 DEF Listing!vars, ListHeap, ListTypes, ListCall
<1> QED
  BY <1>1, <1>2, <1>3, <1>4, <1>5, <1>6, <1>7, <1>8, <1>9, <1>10, <1>12, <1>13, <1>14, <1>15
     DEF Listing!Next

-----------------------------------------------------------------------------
\* s goes through inodes in their order and leaves none of ids out before m.
OrderTo(s, ids, m) ==
  /\ \A j, k \in DOMAIN s : j < k => s[j] < s[k]
  /\ \A k \in DOMAIN s : s[k] \in Nat /\ s[k] < m
  /\ \A id \in ids : id < m => \E k \in DOMAIN s : s[k] = id

AskedBy(p) ==
  IF p = {} THEN used ELSE {id \in used : ~Listing!Short(id) /\ names[id] \in p}

\* The strings of c have the names of the inodes s.
NamesAre(s, c, h, p) ==
  /\ s \in [DOMAIN c -> AskedBy(p) \cup Listing!Unsure]
  /\ \A k \in DOMAIN s : Said(h, c[k]) = names[s[k]]

ListedTo(c, h, p, m) ==
  \E s \in [DOMAIN c -> AskedBy(p) \cup Listing!Unsure] :
    NamesAre(s, c, h, p) /\ OrderTo(s, AskedBy(p), m)

Seen == [id : Listing!Ids, name : ListedNames]

IdsSeen(q) == [k \in DOMAIN q |-> q[k].id]

SeenTo(q, m) ==
  /\ OrderTo(IdsSeen(q), used, m)
  /\ \A k \in DOMAIN q : q[k].id \in used /\ q[k].name = names[q[k].id]

ListTold ==
  /\ seen \in Seq(Seen)
  /\ call.op \in {"ls", "ls_named"} => ListedTo(chain, heap, call.pattern, call.id)
  /\ call.op = "ls_named" => Said(heap, the) = names[call.id]
  /\ call.op = "foreach" => SeenTo(seen, call.id)
  /\ call.op = "done" => Listing!ListsUsed

LEMMA ListIds == Listing!Ids \subseteq Nat /\ \A id \in Listing!Ids : id >= 2 /\ id <= LastId
BY PartsAssumption DEF Listing!Ids, Listing!NamesAssumption

\* What a string says does not change with the buffers of others.
LEMMA SaidSame ==
  ASSUME ListHeap, NEW h, NEW t, Keeps(h, t), NEW k \in DOMAIN chain
  PROVE  Said(h, chain[k]) = Said(heap, chain[k])
<1>1. chain[k] \in Strings
  BY DEF ListHeap, ListTypes
<1>2. CASE chain[k].buf # NoBuffer
  <2>1. chain[k].buf \in Listing!Addresses
    BY <1>1, <1>2, AddressesApart DEF Strings
  <2>2. Has(chain, chain[k].buf)
    BY DEF Has
  <2>3. h[chain[k].buf] = heap[chain[k].buf]
    BY <2>1, <2>2 DEF Keeps
  <2> QED
    BY <2>3 DEF Said
<1> QED
  BY <1>2 DEF Said

LEMMA ListedSame ==
  ASSUME ListHeap, NEW h, NEW t, Keeps(h, t), NEW p, NEW m, ListedTo(chain, heap, p, m)
  PROVE  ListedTo(chain, h, p, m)
<1>1. PICK s \in [DOMAIN chain -> AskedBy(p) \cup Listing!Unsure] :
        NamesAre(s, chain, heap, p) /\ OrderTo(s, AskedBy(p), m)
  BY DEF ListedTo
<1>2. NamesAre(s, chain, h, p)
  BY <1>1, SaidSame DEF NamesAre
<1> QED
  BY <1>1, <1>2 DEF ListedTo

\* What is asked for when no more is to come, or something has failed.
LEMMA InOrderIs ==
  ASSUME NEW s, NEW ids, ids \subseteq Listing!Ids, NEW m \in Nat, OrderTo(s, ids, m),
         NEW whole \in BOOLEAN, whole => m > LastId
  PROVE  /\ \A j, k \in DOMAIN s : j < k => s[j] < s[k]
         /\ \A id \in ids : \/ \E k \in DOMAIN s : s[k] = id
                            \/ ~whole /\ \A k \in DOMAIN s : s[k] < id
<1>1. ASSUME NEW id \in ids, ~ \E k \in DOMAIN s : s[k] = id
      PROVE  ~whole /\ \A k \in DOMAIN s : s[k] < id
  <2>1. id \in Nat /\ id <= LastId /\ LastId \in Nat
    BY ListIds, PartsAssumption DEF Listing!NamesAssumption
  <2>2. ~(id < m)
    BY <1>1 DEF OrderTo
  <2>3. ~whole
    BY <2>1, <2>2
  <2>4. ASSUME NEW k \in DOMAIN s PROVE s[k] < id
    <3>1. s[k] \in Nat /\ s[k] < m
      BY DEF OrderTo
    <3> QED
      BY <2>1, <2>2, <3>1
  <2> QED
    BY <2>3, <2>4
<1> QED
  BY <1>1 DEF OrderTo

LEMMA AskedIs ==
  ASSUME ListTypes, NEW p
  PROVE  AskedBy(p) \subseteq used /\ used \subseteq Listing!Ids
         /\ Listing!Unsure \subseteq used
BY DEF ListTypes, AskedBy, Listing!Unsure

\* A call that has ended has listed what it should.
LEMMA ListEnds ==
  ASSUME ListHeap, call.of = "ls", NEW m \in Nat, ListedTo(chain, heap, call.pattern, m),
         Keeps(heap', the') \/ heap' = heap, UNCHANGED <<names, used, chain>>,
         call'.of = call.of, call'.pattern = call.pattern, Listing!Whole' => m > LastId
  PROVE  Listing!ListsUsed'
<1> DEFINE p == call.pattern
<1>1. ListedTo(chain, heap', p, m)
  BY ListedSame
<1>2. PICK s \in [DOMAIN chain -> AskedBy(p) \cup Listing!Unsure] :
        NamesAre(s, chain, heap', p) /\ OrderTo(s, AskedBy(p), m)
  BY <1>1 DEF ListedTo
<1>3. Listing!Asked' = AskedBy(p) /\ Listing!Unsure' = Listing!Unsure
  BY DEF Listing!Asked, AskedBy, Listing!Unsure, Listing!Short
<1>4. Listing!Whole' \in BOOLEAN
  BY DEF Listing!Whole
<1>5. AskedBy(p) \subseteq Listing!Ids
  BY AskedIs DEF ListHeap
<1>6. /\ \A j, k \in DOMAIN s : j < k => s[j] < s[k]
      /\ \A id \in AskedBy(p) : \/ \E k \in DOMAIN s : s[k] = id
                                \/ ~Listing!Whole' /\ \A k \in DOMAIN s : s[k] < id
  <2> DEFINE w == Listing!Whole'
  <2>1. w \in BOOLEAN /\ (w => m > LastId)
    BY <1>4
  <2> HIDE DEF w, p
  <2>2. /\ \A j, k \in DOMAIN s : j < k => s[j] < s[k]
        /\ \A id \in AskedBy(p) : \/ \E k \in DOMAIN s : s[k] = id
                                  \/ ~w /\ \A k \in DOMAIN s : s[k] < id
    BY <1>2, <1>5, <2>1, InOrderIs
  <2> QED
    BY <2>2 DEF w
<1>7. \A k \in DOMAIN s : Listing!StringOf(chain[k])' = names[s[k]]
  BY <1>2 DEF NamesAre, Said, Listing!StringOf
<1>8. Listing!Listed'
  BY <1>2, <1>3, <1>6, <1>7 DEF Listing!Listed, Listing!InOrder
<1> QED
  BY <1>8 DEF Listing!ListsUsed

\* A call of whefs_fs_entry_foreach that has ended has visited what it should.
LEMMA VisitEnds ==
  ASSUME ListTypes, call.of = "foreach", NEW m \in Nat, SeenTo(seen, m),
         UNCHANGED <<names, used, seen>>, call'.of = call.of, Listing!Whole' => m > LastId
  PROVE  Listing!ListsUsed'
<1> DEFINE s == IdsSeen(seen)
           w == Listing!Whole'
<1>1. w \in BOOLEAN /\ (w => m > LastId) /\ OrderTo(s, used, m) /\ used \subseteq Listing!Ids
  BY DEF Listing!Whole, SeenTo, ListTypes
<1> HIDE DEF s, w
<1>2. /\ \A j, k \in DOMAIN s : j < k => s[j] < s[k]
      /\ \A id \in used : \/ \E k \in DOMAIN s : s[k] = id
                          \/ ~w /\ \A k \in DOMAIN s : s[k] < id
  BY <1>1, InOrderIs
<1>3. Listing!InOrder(s, used)'
  BY <1>2 DEF Listing!InOrder, w, s, IdsSeen
<1>4. /\ DOMAIN s = DOMAIN seen /\ \A k \in DOMAIN seen : s[k] = seen[k].id
      /\ s = [k \in DOMAIN seen |-> seen[k].id]
  BY DEF s, IdsSeen
<1>5. \A k \in DOMAIN s : s[k] \in used /\ seen[k].name = names[s[k]]
  BY <1>4 DEF SeenTo
<1>6. Listing!Visited'
  BY <1>3, <1>4, <1>5 DEF Listing!Visited, s, IdsSeen
<1> QED
  BY <1>6 DEF Listing!ListsUsed

\* Whether a name matches is whether it is asked for, except that one without a second
\* character may.
LEMMA MatchesIs ==
  ASSUME ListHeap, call.op = "ls_named", Said(heap, the) = names[call.id]
  PROVE  /\ TRUE \in Listing!Matches =>
              call.pattern = {} \/ names[call.id] \in call.pattern \/ Listing!Short(call.id)
         /\ FALSE \in Listing!Matches => call.id \notin AskedBy(call.pattern)
<1>1. CASE call.pattern = {}
  BY <1>1 DEF Listing!Matches
<1>2. CASE call.pattern # {} /\ the.buf = NoBuffer
  <2>1. names[call.id] = <<>> /\ Listing!Short(call.id)
    BY <1>2 DEF Said, Listing!Short
  <2> QED
    BY <1>2, <2>1 DEF Listing!Matches, AskedBy
<1>3. CASE call.pattern # {} /\ the.buf # NoBuffer
  <2> DEFINE b == heap[the.buf]
  <2>1. names[call.id] = Listing!BytesOf(b) /\ Listing!Closed(b)
    BY <1>3 DEF Said, ListHeap, OwnedBy
  <2>2. CASE Listing!Ends(b)
    <3>1. Listing!Matches = {names[call.id] \in call.pattern}
      BY <1>3, <2>1, <2>2 DEF Listing!Matches, Listing!BytesOf
    <3> QED
      BY <1>3, <3>1 DEF AskedBy
  <2>3. CASE ~Listing!Ends(b)
    <3>1. names[call.id] = b /\ Len(b) = 1
      BY <2>1, <2>3, Zenon DEF Listing!BytesOf, Listing!Closed
    <3>2. Listing!Short(call.id)
      BY <3>1 DEF Listing!Short
    <3> QED
      BY <1>3, <3>2 DEF AskedBy
  <2> QED
    BY <2>2, <2>3
<1> QED
  BY <1>1, <1>2, <1>3

\* An inode that is not asked for is passed.
LEMMA OrderPast ==
  ASSUME NEW s, NEW ids, ids \subseteq Listing!Ids, NEW m \in Nat, OrderTo(s, ids, m),
         m \notin ids
  PROVE  OrderTo(s, ids, m + 1)
<1>1. ASSUME NEW k \in DOMAIN s PROVE s[k] \in Nat /\ s[k] < m + 1
  BY DEF OrderTo
<1>2. ASSUME NEW id \in ids, id < m + 1 PROVE \E k \in DOMAIN s : s[k] = id
  <2>1. id \in Nat /\ id # m
    BY ListIds
  <2>2. id < m
    BY <1>2, <2>1
  <2> QED
    BY <2>2 DEF OrderTo
<1> QED
  BY <1>1, <1>2 DEF OrderTo

\* One more inode.
More(s, n, m) == [k \in 1..(n + 1) |-> IF k = n + 1 THEN m ELSE s[k]]

LEMMA OrderMore ==
  ASSUME NEW n \in Nat, NEW s, DOMAIN s = 1..n, NEW ids, ids \subseteq Listing!Ids,
         NEW m \in Nat, OrderTo(s, ids, m)
  PROVE  OrderTo(More(s, n, m), ids, m + 1)
<1> DEFINE t == More(s, n, m)
<1>1. /\ DOMAIN t = 1..(n + 1) /\ t[n + 1] = m
      /\ \A k \in 1..n : t[k] = s[k] /\ k \in 1..(n + 1)
      /\ \A k \in 1..(n + 1) : k \in 1..n \/ k = n + 1
      /\ n + 1 \in 1..(n + 1)
  BY DEF More
<1> HIDE DEF t
<1>2. ASSUME NEW k \in DOMAIN t PROVE t[k] \in Nat /\ t[k] < m + 1
  <2>1. CASE k \in 1..n
    <3>1. s[k] \in Nat /\ s[k] < m
      BY <2>1 DEF OrderTo
    <3> QED
      BY <1>1, <2>1, <3>1
  <2>2. CASE k = n + 1
    BY <1>1, <2>2
  <2> QED
    BY <1>1, <1>2, <2>1, <2>2
<1>3. ASSUME NEW j \in DOMAIN t, NEW k \in DOMAIN t, j < k PROVE t[j] < t[k]
  <2>1. j \in 1..n
    BY <1>1, <1>3
  <2>2. s[j] \in Nat /\ s[j] < m /\ t[j] = s[j]
    BY <1>1, <2>1 DEF OrderTo
  <2>3. CASE k \in 1..n
    BY <1>1, <1>3, <2>1, <2>3 DEF OrderTo
  <2>4. CASE k = n + 1
    BY <1>1, <2>2, <2>4
  <2> QED
    BY <1>1, <2>3, <2>4
<1>4. ASSUME NEW id \in ids, id < m + 1 PROVE \E k \in DOMAIN t : t[k] = id
  <2>1. id \in Nat
    BY ListIds
  <2>2. CASE id = m
    BY <1>1, <2>2
  <2>3. CASE id < m
    <3>1. PICK k \in DOMAIN s : s[k] = id
      BY <2>3 DEF OrderTo
    <3> QED
      BY <1>1, <3>1
  <2> QED
    BY <1>4, <2>1, <2>2, <2>3
<1> QED
  BY <1>2, <1>3, <1>4 DEF OrderTo, t

\* What is listed stays so when nothing else changes.
LEMMA ListedNext ==
  ASSUME UNCHANGED <<names, used>>, ListedTo(chain', heap', call'.pattern, call'.id)
  PROVE  ListedTo(chain, heap, call.pattern, call.id)'
<1> DEFINE c == chain'
           h == heap'
           p == call'.pattern
           m == call'.id
<1>1. PICK s \in [DOMAIN c -> AskedBy(p) \cup Listing!Unsure] :
        /\ s \in [DOMAIN c -> AskedBy(p) \cup Listing!Unsure]
        /\ \A k \in DOMAIN s : Said(h, c[k]) = names[s[k]]
        /\ OrderTo(s, AskedBy(p), m)
  BY DEF ListedTo, NamesAre
<1>2. AskedBy(call.pattern)' = AskedBy(p) /\ Listing!Unsure' = Listing!Unsure
  BY DEF AskedBy, Listing!Unsure, Listing!Short
<1>3. OrderTo(s, AskedBy(call.pattern), call.id)'
  BY <1>1, <1>2 DEF OrderTo
<1>4. NamesAre(s, chain, heap, call.pattern)'
  BY <1>1, <1>2 DEF NamesAre, Said
<1>5. s \in [DOMAIN chain' -> AskedBy(call.pattern)' \cup Listing!Unsure']
  BY <1>1, <1>2
<1> QED
  BY <1>3, <1>4, <1>5 DEF ListedTo

\* The name that matches is listed, with nothing of another one.
LEMMA AppendTold ==
  ASSUME ListHeap, ListTold, Listing!LsAppend
  PROVE  ListTold'
<1>1. /\ call.op = "ls_named" /\ chain' = Append(chain, the) /\ TRUE \in Listing!Matches
      /\ call.id \in used /\ call' = [call EXCEPT !.op = "ls", !.id = @ + 1]
      /\ UNCHANGED <<names, used, heap, seen>>
  BY DEF Listing!LsAppend
<1> DEFINE p == call.pattern
           id == call.id
           n == Len(chain)
<1>2. call'.op = "ls" /\ call'.id = id + 1 /\ call'.pattern = p /\ id \in Nat
  BY <1>1, CallNext
<1>3. id \in AskedBy(p) \cup Listing!Unsure
  BY <1>1, MatchesIs DEF ListTold, AskedBy, Listing!Unsure
<1>4. the \in Strings
  BY <1>1, AddressesApart DEF ListHeap, ListTypes, ListCall, Strings
<1>5. /\ n \in Nat /\ DOMAIN chain = 1..n /\ DOMAIN chain' = 1..(n + 1)
      /\ \A k \in 1..n : chain'[k] = chain[k]
      /\ chain'[n + 1] = the
  BY <1>1, <1>4, AppendProperties DEF ListHeap, ListTypes
<1>6. PICK s \in [DOMAIN chain -> AskedBy(p) \cup Listing!Unsure] :
        NamesAre(s, chain, heap, p) /\ OrderTo(s, AskedBy(p), id)
  BY <1>1 DEF ListTold, ListedTo
<1>7. Said(heap, the) = names[id]
  BY <1>1 DEF ListTold
<1>8. AskedBy(p) \subseteq Listing!Ids
  BY AskedIs DEF ListHeap
<1> DEFINE t == More(s, n, id)
<1>10. OrderTo(t, AskedBy(p), id + 1)
  BY <1>2, <1>5, <1>6, <1>8, OrderMore
<1>11. /\ DOMAIN t = 1..(n + 1) /\ t[n + 1] = id
       /\ \A k \in 1..n : t[k] = s[k] /\ k \in 1..(n + 1)
       /\ \A k \in 1..(n + 1) : k \in 1..n \/ k = n + 1
  BY <1>5 DEF More
<1>12. t \in [1..(n + 1) -> AskedBy(p) \cup Listing!Unsure]
  <2>1. \A k \in 1..(n + 1) : t[k] \in AskedBy(p) \cup Listing!Unsure
    BY <1>3, <1>5, <1>6, <1>11
  <2> QED
    BY <2>1 DEF More
<1> HIDE DEF t, p, id, n
<1>13. \A k \in DOMAIN t : Said(heap, chain'[k]) = names[t[k]]
  BY <1>5, <1>6, <1>7, <1>11 DEF NamesAre
<1>14. ListedTo(chain', heap', p, id + 1)
  BY <1>1, <1>5, <1>10, <1>12, <1>13 DEF ListedTo, NamesAre
<1>15. ListedTo(chain, heap, call.pattern, call.id)'
  <2>1. ListedTo(chain', heap', call'.pattern, call'.id)
    BY <1>2, <1>14 DEF p, id
  <2> QED
    BY <1>1, <2>1, ListedNext
<1> QED
  BY <1>1, <1>2, <1>15 DEF ListTold

\* A call that has ended: what holds of it is ListsUsed, and of the one before, what it
\* had listed.
LEMMA LsEndsTold ==
  ASSUME ListHeap, ListTold, call.op \in {"ls", "ls_named"},
         Keeps(heap', the') \/ heap' = heap, UNCHANGED <<names, used, chain, seen>>,
         NEW rc0 \in {"OK", "IOError", "AllocError", "Stopped"}, Listing!Return(rc0),
         rc0 = "OK" => call.id > LastId
  PROVE  ListTold'
<1>1. call' = [call EXCEPT !.op = "done", !.rc = rc0]
  BY DEF Listing!Return
<1>2. call.of = "ls" /\ call \in Calls /\ call.id \in Nat
  BY DEF ListHeap, ListCall, ListTypes, Calls
<1>3. call'.op = "done" /\ call'.of = call.of /\ call'.pattern = call.pattern /\ call'.rc = rc0
  BY <1>1, <1>2 DEF Calls
<1>4. ListedTo(chain, heap, call.pattern, call.id)
  BY DEF ListTold
<1>5. Listing!Whole' => call.id > LastId
  BY <1>3 DEF Listing!Whole
<1>6. Listing!ListsUsed'
  BY <1>2, <1>3, <1>4, <1>5, ListEnds
<1> QED
  BY <1>3, <1>6 DEF ListTold

LEMMA LsTold ==
  ASSUME ListHeap, ListTold, NEW p \in SoughtPatterns, Listing!Ls(p)
  PROVE  ListTold'
<1>1. /\ chain = <<>> /\ call' = [Listing!Idle EXCEPT !.op = "ls", !.of = "ls", !.pattern = p]
      /\ seen' = <<>> /\ UNCHANGED <<names, used, heap, chain>>
  BY DEF Listing!Ls
<1>2. call'.op = "ls" /\ call'.id = 2 /\ call'.pattern = p
  BY <1>1 DEF Listing!Idle
<1> DEFINE s == [k \in DOMAIN chain |-> 0]
<1>3. DOMAIN chain = {}
  BY <1>1
<1>4. s \in [DOMAIN chain -> AskedBy(p) \cup Listing!Unsure] /\ DOMAIN s = {}
  BY <1>3
<1>5. \A id \in AskedBy(p) : ~(id < 2)
  <2>1. AskedBy(p) \subseteq Listing!Ids
    BY AskedIs DEF ListHeap
  <2>2. ASSUME NEW id \in AskedBy(p) PROVE ~(id < 2)
    <3>1. id \in Listing!Ids
      BY <2>1
    <3>2. id \in Nat /\ id >= 2
      BY <3>1, ListIds
    <3> QED
      BY <3>2
  <2> QED
    BY <2>2
<1>6. OrderTo(s, AskedBy(p), 2)
  BY <1>4, <1>5 DEF OrderTo
<1>7. NamesAre(s, chain, heap, p)
  BY <1>4 DEF NamesAre
<1>8. ListedTo(chain, heap, p, 2)
  BY <1>4, <1>6, <1>7 DEF ListedTo
<1>9. ListedTo(chain, heap, call.pattern, call.id)'
  <2>1. ListedTo(chain', heap', call'.pattern, call'.id)
    BY <1>1, <1>2, <1>8
  <2> QED
    BY <1>1, <2>1, ListedNext
<1>10. seen' \in Seq(Seen)
  BY <1>1
<1> QED
  BY <1>2, <1>9, <1>10 DEF ListTold

LEMMA LsNameTold ==
  ASSUME ListHeap, ListTold, Listing!LsName
  PROVE  ListTold'
<1>1. /\ call.op = "ls" /\ call.id <= LastId /\ Listing!Copied(names[call.id])
      /\ call' = [call EXCEPT !.op = "ls_named"]
      /\ UNCHANGED <<names, used, chain, seen>>
  BY DEF Listing!LsName
<1>2. call \in Calls /\ call.id >= 2 /\ LastId \in Nat
  BY <1>1, PartsAssumption DEF ListHeap, ListTypes, ListCall, Calls, Listing!NamesAssumption
<1>3. call.id \in Listing!Ids
  BY <1>1, <1>2 DEF Calls, Listing!Ids
<1>4. Keeps(heap', the') /\ Said(heap', the') = names[call.id]
  BY <1>1, <1>3, NameOf, CopiedIs DEF ListHeap
<1>5. call'.op = "ls_named" /\ call'.pattern = call.pattern /\ call'.id = call.id
  BY <1>1, <1>2 DEF Calls
<1>6. ListedTo(chain, heap', call.pattern, call.id)
  BY <1>1, <1>4, ListedSame DEF ListTold
<1>7. ListedTo(chain, heap, call.pattern, call.id)'
  <2>1. ListedTo(chain', heap', call'.pattern, call'.id)
    BY <1>1, <1>5, <1>6
  <2> QED
    BY <1>1, <2>1, ListedNext
<1>8. Said(heap, the)' = names'[call'.id]
  BY <1>1, <1>4, <1>5 DEF Said
<1> QED
  BY <1>1, <1>5, <1>7, <1>8 DEF ListTold

LEMMA LsSkipTold ==
  ASSUME ListHeap, ListTold, Listing!LsSkip
  PROVE  ListTold'
<1>1. /\ call.op = "ls_named" /\ (FALSE \in Listing!Matches \/ call.id \notin used)
      /\ call' = [call EXCEPT !.op = "ls", !.id = @ + 1]
      /\ UNCHANGED <<names, used, heap, the, chain, seen>>
  BY DEF Listing!LsSkip
<1> DEFINE p == call.pattern
           m == call.id
<1>2. call'.op = "ls" /\ call'.pattern = p /\ call'.id = m + 1 /\ m \in Nat
  BY <1>1, CallNext
<1>3. m \notin AskedBy(p) /\ AskedBy(p) \subseteq Listing!Ids
  <2>1. AskedBy(p) \subseteq used /\ used \subseteq Listing!Ids
    BY AskedIs DEF ListHeap
  <2>2. FALSE \in Listing!Matches => m \notin AskedBy(p)
    BY <1>1, MatchesIs DEF ListTold
  <2> QED
    BY <1>1, <2>1, <2>2
<1>4. PICK s \in [DOMAIN chain -> AskedBy(p) \cup Listing!Unsure] :
        NamesAre(s, chain, heap, p) /\ OrderTo(s, AskedBy(p), m)
  BY <1>1 DEF ListTold, ListedTo
<1> HIDE DEF p, m
<1>5. OrderTo(s, AskedBy(p), m + 1)
  BY <1>2, <1>3, <1>4, OrderPast
<1>6. ListedTo(chain, heap, p, m + 1)
  BY <1>4, <1>5 DEF ListedTo
<1>7. ListedTo(chain, heap, call.pattern, call.id)'
  <2>1. ListedTo(chain', heap', call'.pattern, call'.id)
    BY <1>1, <1>2, <1>6
  <2> QED
    BY <1>1, <2>1, ListedNext
<1> QED
  BY <1>1, <1>2, <1>7 DEF ListTold

\* What was visited stays so when nothing else changes.
LEMMA SeenNext ==
  ASSUME UNCHANGED <<names, used>>, SeenTo(seen', call'.id)
  PROVE  SeenTo(seen, call.id)'
BY DEF SeenTo, OrderTo, IdsSeen

LEMMA ForeachTold ==
  ASSUME ListHeap, ListTold, Listing!Foreach
  PROVE  ListTold'
<1>1. /\ call' = [Listing!Idle EXCEPT !.op = "foreach", !.of = "foreach"]
      /\ seen' = <<>> /\ UNCHANGED <<names, used>>
  BY DEF Listing!Foreach
<1>2. call'.op = "foreach" /\ call'.id = 2
  BY <1>1 DEF Listing!Idle
<1>3. DOMAIN seen' = {} /\ seen' \in Seq(Seen)
  BY <1>1
<1>4. \A id \in used : ~(id < 2)
  BY ListIds DEF ListHeap, ListTypes
<1>5. SeenTo(seen', call'.id)
  BY <1>2, <1>3, <1>4 DEF SeenTo, OrderTo, IdsSeen
<1>6. SeenTo(seen, call.id)'
  BY <1>1, <1>5, SeenNext
<1> QED
  BY <1>2, <1>3, <1>6 DEF ListTold

LEMMA GoneOn ==
  ASSUME ListHeap, call.op = "foreach", Listing!GoOn
  PROVE  call'.op = "foreach" /\ call'.id = call.id + 1 /\ call.id \in Nat
<1>1. call' = [call EXCEPT !.id = @ + 1] /\ call \in Calls
  BY DEF Listing!GoOn, ListHeap, ListTypes, Calls
<1> QED
  BY <1>1 DEF Calls

LEMMA ForeachSkipTold ==
  ASSUME ListHeap, ListTold, Listing!ForeachSkip
  PROVE  ListTold'
<1>1. call.op = "foreach" /\ call.id \notin used /\ Listing!GoOn /\ UNCHANGED <<names, used, seen>>
  BY DEF Listing!ForeachSkip
<1>2. call'.op = "foreach" /\ call'.id = call.id + 1 /\ call.id \in Nat
  BY <1>1, GoneOn
<1>3. SeenTo(seen, call.id) /\ used \subseteq Listing!Ids
  BY <1>1 DEF ListTold, ListHeap, ListTypes
<1>4. OrderTo(IdsSeen(seen), used, call.id + 1)
  BY <1>1, <1>2, <1>3, OrderPast DEF SeenTo
<1>5. SeenTo(seen', call'.id)
  BY <1>1, <1>2, <1>3, <1>4 DEF SeenTo
<1>6. SeenTo(seen, call.id)'
  BY <1>1, <1>5, SeenNext
<1> QED
  BY <1>1, <1>2, <1>6 DEF ListTold

LEMMA VisitTold ==
  ASSUME ListHeap, ListTold, Listing!Visit
  PROVE  ListTold'
<1> DEFINE m == call.id
           e == [id |-> m, name |-> names[m]]
           n == Len(seen)
<1>1. /\ call.op = "foreach" /\ m \in used /\ Listing!Copied(names[m]) /\ Listing!GoOn
      /\ seen' = Append(seen, [id |-> m, name |-> Listing!CString(heap'[the'.buf])])
      /\ UNCHANGED <<names, used>>
  BY DEF Listing!Visit
<1>2. call'.op = "foreach" /\ call'.id = m + 1 /\ m \in Nat
  BY <1>1, GoneOn
<1>3. the.buf = Stack /\ m \in Listing!Ids /\ used \subseteq Listing!Ids
  BY <1>1 DEF ListHeap, ListCall, ListTypes
<1>4. /\ Said(heap', the') = names[m] /\ the'.buf = Stack /\ names[m] \in ListedNames
      /\ Len(heap'[Stack]) = MaxName + 1
  BY <1>1, <1>3, NameOf, CopiedIs DEF ListHeap
<1>5. seen' = Append(seen, e) /\ e \in Seen
  <2>1. Listing!CString(heap'[the'.buf]) = names[m]
    <3>1. Listing!BytesOf(heap'[Stack]) = names[m]
      BY <1>4, AddressesApart DEF Said
    <3>2. Len(heap'[Stack]) # Len(names[m])
      BY <1>4, ListedNameIs, PartsAssumption DEF Listing!NamesAssumption
    <3> QED
      BY <1>4, <3>1, <3>2, EndsWhenLonger
  <2> QED
    BY <1>1, <1>3, <1>4, <2>1 DEF Seen
<1>6. SeenTo(seen, m) /\ seen \in Seq(Seen)
  BY <1>1 DEF ListTold
<1> HIDE DEF e
<1>7. /\ n \in Nat /\ DOMAIN seen = 1..n /\ DOMAIN seen' = 1..(n + 1) /\ seen' \in Seq(Seen)
      /\ \A k \in 1..n : seen'[k] = seen[k]
      /\ seen'[n + 1] = e
  BY <1>5, <1>6, AppendProperties
<1>8. e.id = m /\ e.name = names[m]
  BY DEF e
<1>9. IdsSeen(seen') = More(IdsSeen(seen), n, m)
  <2>1. IdsSeen(seen') = [k \in 1..(n + 1) |-> seen'[k].id]
    BY <1>7 DEF IdsSeen
  <2>2. \A k \in 1..(n + 1) : seen'[k].id = IF k = n + 1 THEN m ELSE IdsSeen(seen)[k]
    <3>1. \A k \in 1..n : IdsSeen(seen)[k] = seen[k].id
      BY <1>7 DEF IdsSeen
    <3>2. \A k \in 1..(n + 1) : k \in 1..n \/ k = n + 1
      BY <1>7
    <3>3. ~(n + 1 \in 1..n)
      BY <1>7
    <3> QED
      BY <1>7, <1>8, <3>1, <3>2, <3>3
  <2> QED
    BY <2>1, <2>2 DEF More
<1>10. OrderTo(IdsSeen(seen'), used, m + 1)
  <2>1. DOMAIN IdsSeen(seen) = 1..n /\ OrderTo(IdsSeen(seen), used, m)
    BY <1>6, <1>7 DEF IdsSeen, SeenTo
  <2> HIDE DEF m, n
  <2>2. OrderTo(More(IdsSeen(seen), n, m), used, m + 1)
    BY <1>2, <1>3, <1>7, <2>1, OrderMore
  <2> QED
    BY <1>9, <2>2
<1>11. \A k \in DOMAIN seen' : seen'[k].id \in used /\ seen'[k].name = names[seen'[k].id]
  <2>1. \A k \in 1..n : seen[k].id \in used /\ seen[k].name = names[seen[k].id]
    BY <1>6, <1>7 DEF SeenTo
  <2>2. \A k \in 1..(n + 1) : k \in 1..n \/ k = n + 1
    BY <1>7
  <2> QED
    BY <1>1, <1>7, <1>8, <2>1, <2>2
<1>12. SeenTo(seen', call'.id)
  BY <1>2, <1>10, <1>11 DEF SeenTo
<1>13. SeenTo(seen, call.id)'
  BY <1>1, <1>12, SeenNext
<1> QED
  BY <1>2, <1>7, <1>13 DEF ListTold

LEMMA ForeachEndTold ==
  ASSUME ListHeap, ListTold, Listing!ForeachEnd
  PROVE  ListTold'
<1>1. /\ call.op = "foreach" /\ UNCHANGED <<names, used, seen>>
      /\ Listing!Return(IF call.id > LastId THEN "OK" ELSE "Stopped")
  BY DEF Listing!ForeachEnd
<1>2. call.of = "foreach" /\ call \in Calls /\ call.id \in Nat /\ ListTypes
  BY <1>1 DEF ListHeap, ListCall, ListTypes, Calls
<1>3. /\ call'.op = "done" /\ call'.of = call.of
      /\ call'.rc = (IF call.id > LastId THEN "OK" ELSE "Stopped")
  BY <1>1, <1>2 DEF Listing!Return, Calls
<1>4. Listing!Whole' => call.id > LastId
  BY <1>3 DEF Listing!Whole
<1>5. SeenTo(seen, call.id)
  BY <1>1 DEF ListTold
<1>6. Listing!ListsUsed'
  BY <1>1, <1>2, <1>3, <1>4, <1>5, VisitEnds
<1> QED
  BY <1>1, <1>3, <1>6 DEF ListTold

LEMMA ListToldStep ==
  ASSUME ListHeap, ListTold, [Listing!Next]_Listing!vars
  PROVE  ListTold'
<1>1. ASSUME NEW p \in SoughtPatterns, Listing!Ls(p) PROVE ListTold'
  BY <1>1, LsTold
<1>2. CASE Listing!LsNameFails
  <2>1. /\ call.op = "ls" /\ Listing!Dropped(the) /\ the' = Listing!EmptyString
        /\ UNCHANGED <<names, used, chain, seen, lost>>
    BY <1>2 DEF Listing!LsNameFails
  <2>2. PICK r \in {"IOError", "AllocError"} : Listing!Return(r)
    BY <1>2 DEF Listing!LsNameFails
  <2>3. Keeps(heap', the')
    BY <2>1, DroppedIs
  <2> QED
    BY <2>1, <2>2, <2>3, LsEndsTold
<1>3. CASE Listing!LsInodeFails
  <2>1. /\ call.op = "ls_named" /\ Listing!Dropped(the) /\ the' = Listing!EmptyString
        /\ UNCHANGED <<names, used, chain, seen, lost>> /\ Listing!Return("IOError")
    BY <1>3 DEF Listing!LsInodeFails
  <2>2. Keeps(heap', the')
    BY <2>1, DroppedIs
  <2> QED
    BY <2>1, <2>2, LsEndsTold
<1>4. CASE Listing!LsAppendFails
  <2>1. /\ call.op = "ls_named" /\ UNCHANGED <<names, used, heap, chain, seen>>
        /\ Listing!Return("AllocError")
    BY <1>4 DEF Listing!LsAppendFails
  <2> QED
    BY <2>1, LsEndsTold
<1>5. CASE Listing!LsEnd
  <2>1. /\ call.op = "ls" /\ call.id > LastId /\ Listing!Dropped(the)
        /\ the' = Listing!EmptyString
        /\ UNCHANGED <<names, used, chain, seen, lost>> /\ Listing!Return("OK")
    BY <1>5 DEF Listing!LsEnd
  <2>2. Keeps(heap', the')
    BY <2>1, DroppedIs
  <2> QED
    BY <2>1, <2>2, LsEndsTold
<1>6. CASE Listing!Finalize
  <2>1. call' = Listing!Idle /\ seen' = <<>>
    BY <1>6 DEF Listing!Finalize
  <2>2. call'.op = "none"
    BY <2>1 DEF Listing!Idle
  <2>3. seen' \in Seq(Seen)
    BY <2>1
  <2> QED
    BY <2>2, <2>3 DEF ListTold
<1>7. CASE UNCHANGED Listing!vars
  <2>1. UNCHANGED <<names, used, call, heap, the, chain, seen, lost>>
    BY <1>7 DEF Listing!vars
  <2>2. call.op \in {"ls", "ls_named"} => ListedTo(chain, heap, call.pattern, call.id)'
    <3>1. ASSUME call.op \in {"ls", "ls_named"}
          PROVE  ListedTo(chain', heap', call'.pattern, call'.id)
      BY <2>1, <3>1 DEF ListTold
    <3> QED
      BY <2>1, <3>1, ListedNext
  <2>3. call.op = "foreach" => SeenTo(seen, call.id)'
    <3>1. ASSUME call.op = "foreach" PROVE SeenTo(seen', call'.id)
      BY <2>1, <3>1 DEF ListTold
    <3> QED
      BY <2>1, <3>1, SeenNext
  <2>4. call.op = "done" => Listing!ListsUsed'
    BY <2>1 DEF ListTold, Listing!ListsUsed, Listing!Listed, Listing!Visited, Listing!InOrder,
       Listing!Asked, Listing!Unsure, Listing!Short, Listing!StringOf, Listing!Whole
  <2> QED
    BY <2>1, <2>2, <2>3, <2>4 DEF ListTold, Said
<1> QED
  BY <1>1, <1>2, <1>3, <1>4, <1>5, <1>6, <1>7, LsNameTold, LsSkipTold, AppendTold, ForeachTold,
     ForeachSkipTold, VisitTold, ForeachEndTold DEF Listing!Next

LEMMA ListBegins ==
  ASSUME Listing!Init
  PROVE  ListHeap /\ ListTold
<1>1. /\ used \subseteq Listing!Ids /\ names \in [Listing!Ids -> ListedNames]
      /\ call = Listing!Idle /\ heap = [a \in Listing!Addresses |-> Listing!Freed]
      /\ the = Listing!EmptyString /\ chain = <<>> /\ seen = <<>> /\ lost = {}
  BY DEF Listing!Init, ListedNames
<1>2. call = [op |-> "none", of |-> "none", id |-> 2, pattern |-> {}, rc |-> "OK"]
  BY <1>1 DEF Listing!Idle
<1>3. the = [buf |-> NoBuffer, length |-> 0] /\ the.buf = NoBuffer
  BY <1>1 DEF Listing!EmptyString
<1>4. DOMAIN chain = {} /\ \A a : ~Has(chain, a)
  BY <1>1 DEF Has
<1>5. heap \in Heaps
  BY <1>1 DEF Heaps
<1>6. ListTypes
  <2>1. chain \in Seq(Strings) /\ call \in Calls
    BY <1>1, <1>2 DEF Calls, Sought
  <2> QED
    BY <1>1, <1>3, <1>5, <2>1 DEF ListTypes, Calls
<1>7. ListCall
  BY <1>1, <1>2, <1>3, AddressesApart DEF ListCall
<1>8. OwnedBy(heap, the, chain, lost)
  BY <1>1, <1>3, <1>4, AddressesApart DEF OwnedBy
<1>9. ListTold
  <2>1. seen \in Seq(Seen)
    BY <1>1
  <2> QED
    BY <1>2, <2>1 DEF ListTold
<1> QED
  BY <1>6, <1>7, <1>8, <1>9 DEF ListHeap

\* The strings together, the one that is read into behind the others.
LEMMA StringsOwned ==
  ASSUME ListHeap
  PROVE  Listing!BuffersOwned
<1> DEFINE n == Len(chain)
           q == Append(chain, the)
           All == [buf : Listing!Addresses \cup {NoBuffer}, length : Nat]
<1>1. chain \in Seq(All) /\ the \in All
  <2>1. Strings \subseteq All
    BY AddressesApart DEF Strings
  <2>2. chain \in Seq(Strings) /\ the \in All
    BY DEF ListHeap, ListTypes
  <2> HIDE DEF All
  <2>3. n \in Nat /\ chain \in [1..n -> Strings]
    BY <2>2, LenProperties
  <2>4. chain \in [1..n -> All]
    BY <2>1, <2>3
  <2>5. chain \in Seq(All)
    BY <2>3, <2>4, SeqDef
  <2> QED
    BY <2>2, <2>5
<1>2. /\ n \in Nat /\ DOMAIN chain = 1..n /\ DOMAIN q = 1..(n + 1)
      /\ \A k \in 1..n : q[k] = chain[k]
      /\ q[n + 1] = the
  BY <1>1, AppendProperties
<1>3. /\ \A k \in 1..(n + 1) : k \in 1..n \/ k = n + 1
      /\ \A k \in 1..n : k \in 1..(n + 1)
      /\ n + 1 \in 1..(n + 1)
  BY <1>2
<1>4. OwnedBy(heap, the, chain, lost) /\ ListCall /\ ListTypes
  BY DEF ListHeap
<1>5. \A k \in 1..n : chain[k].buf \in Buffers \cup {NoBuffer}
  <2>1. \A k \in 1..n : chain[k] \in Strings
    BY <1>2, <1>4 DEF ListTypes
  <2> QED
    BY <2>1 DEF Strings
<1>6. the.buf \in Listing!Addresses \cup {NoBuffer}
  BY <1>1
<1> HIDE DEF n, q, All
<1> DEFINE mine == {q[k].buf : k \in DOMAIN q} \ {NoBuffer}
           live == {a \in Listing!Addresses : heap[a] # Listing!Freed}
<1>7. live = mine \cup lost
  <2>1. ASSUME NEW a \in Listing!Addresses
        PROVE  a \in live <=> a \in mine \cup lost
    <3>1. a # NoBuffer
      BY AddressesApart
    <3>2. a \in live <=> a = the.buf \/ a \in lost \/ Has(chain, a)
      BY <1>4 DEF OwnedBy
    <3>3. a \in mine <=> a = the.buf \/ Has(chain, a)
      <4>1. a \in mine <=> \E k \in 1..(n + 1) : q[k].buf = a
        BY <1>2, <3>1
      <4>2. (\E k \in 1..(n + 1) : q[k].buf = a)
              <=> a = the.buf \/ \E k \in 1..n : chain[k].buf = a
        BY <1>2, <1>3
      <4> QED
        BY <1>2, <4>1, <4>2 DEF Has
    <3> QED
      BY <3>2, <3>3
  <2>2. mine \cup lost \subseteq Listing!Addresses
    <3>1. \A k \in 1..(n + 1) : q[k].buf \in Listing!Addresses \cup {NoBuffer}
      BY <1>2, <1>3, <1>5, <1>6, AddressesApart
    <3>2. lost \subseteq Listing!Addresses
      BY <1>4, AddressesApart DEF ListTypes
    <3> QED
      BY <1>2, <3>1, <3>2
  <2>3. live \subseteq Listing!Addresses
    OBVIOUS
  <2> HIDE DEF live, mine
  <2> QED
    BY <2>1, <2>2, <2>3
<1>8. ASSUME NEW i \in 1..(n + 1), NEW k \in 1..(n + 1), q[i].buf = q[k].buf
      PROVE  i = k \/ q[i].buf = NoBuffer
  <2>1. CASE i \in 1..n /\ k \in 1..n
    BY <1>2, <1>4, <1>8, <2>1, Zenon DEF OwnedBy
  <2>2. CASE i \in 1..n /\ k = n + 1
    <3>1. Has(chain, the.buf)
      BY <1>2, <1>8, <2>2 DEF Has
    <3> QED
      BY <1>2, <1>4, <1>8, <2>2, <3>1, Zenon DEF OwnedBy
  <2>3. CASE i = n + 1 /\ k \in 1..n
    <3>1. Has(chain, the.buf)
      BY <1>2, <1>8, <2>3 DEF Has
    <3> QED
      BY <1>2, <1>4, <1>8, <2>3, <3>1, Zenon DEF OwnedBy
  <2> QED
    BY <1>3, <2>1, <2>2, <2>3
<1>9. ASSUME NEW k \in 1..(n + 1), q[k].buf # NoBuffer
      PROVE  Listing!Closed(heap[q[k].buf])
  <2>1. CASE k \in 1..n
    <3>1. Has(chain, q[k].buf) /\ q[k].buf \in Buffers
      BY <1>2, <1>5, <1>9, <2>1 DEF Has
    <3> QED
      BY <1>4, <3>1, Zenon DEF OwnedBy
  <2>2. CASE k = n + 1
    BY <1>2, <1>4, <1>9, <2>2 DEF OwnedBy
  <2> QED
    BY <1>3, <2>1, <2>2
<1>10. Listing!Terminated
  BY <1>2, <1>9 DEF Listing!Terminated, q
<1>11. call.op = "foreach" => the.buf = Stack
  BY <1>4 DEF ListCall
<1> QED
  BY <1>2, <1>7, <1>8, <1>10, <1>11 DEF Listing!BuffersOwned, q

LEMMA ListsTold ==
  ASSUME ListHeap, ListTold
  PROVE  Listing!ListsUsed
<1>1. call.id \in Nat /\ call.op \in {"none", "ls", "ls_named", "foreach", "done"}
  BY DEF ListHeap, ListTypes
<1>2. CASE call.op = "none"
  <2>1. call.of = "none"
    BY <1>2 DEF ListHeap, ListCall
  <2> QED
    BY <2>1 DEF Listing!ListsUsed
<1>3. CASE call.op \in {"ls", "ls_named"}
  <2>1. call.of = "ls" /\ ~Listing!Whole
    BY <1>3 DEF ListHeap, ListCall, Listing!Whole
  <2>2. PICK s \in [DOMAIN chain -> AskedBy(call.pattern) \cup Listing!Unsure] :
          /\ NamesAre(s, chain, heap, call.pattern)
          /\ OrderTo(s, AskedBy(call.pattern), call.id)
    BY <1>3 DEF ListTold, ListedTo
  <2>3. Listing!Asked = AskedBy(call.pattern)
    BY DEF Listing!Asked, AskedBy
  <2>4. AskedBy(call.pattern) \subseteq Listing!Ids
    BY AskedIs DEF ListHeap
  <2>5. /\ \A j, k \in DOMAIN s : j < k => s[j] < s[k]
        /\ \A id \in AskedBy(call.pattern) :
             \/ \E k \in DOMAIN s : s[k] = id
             \/ ~FALSE /\ \A k \in DOMAIN s : s[k] < id
    BY <1>1, <2>2, <2>4, InOrderIs
  <2>6. \A k \in DOMAIN s : Listing!StringOf(chain[k]) = names[s[k]]
    BY <2>2 DEF NamesAre, Said, Listing!StringOf
  <2>7. Listing!Listed
    BY <2>1, <2>2, <2>3, <2>5, <2>6 DEF Listing!Listed, Listing!InOrder
  <2> QED
    BY <2>1, <2>7 DEF Listing!ListsUsed
<1>4. CASE call.op = "foreach"
  <2>1. call.of = "foreach" /\ ~Listing!Whole /\ used \subseteq Listing!Ids
    BY <1>4 DEF ListHeap, ListCall, ListTypes, Listing!Whole
  <2>2. SeenTo(seen, call.id)
    BY <1>4 DEF ListTold
  <2> DEFINE s == IdsSeen(seen)
  <2>3. OrderTo(s, used, call.id)
    BY <2>2 DEF SeenTo
  <2> HIDE DEF s
  <2>4. /\ \A j, k \in DOMAIN s : j < k => s[j] < s[k]
        /\ \A id \in used : \/ \E k \in DOMAIN s : s[k] = id
                            \/ ~FALSE /\ \A k \in DOMAIN s : s[k] < id
    BY <1>1, <2>1, <2>3, InOrderIs
  <2>5. Listing!InOrder(s, used)
    BY <2>1, <2>4 DEF Listing!InOrder
  <2>6. DOMAIN s = DOMAIN seen /\ \A k \in DOMAIN seen : s[k] = seen[k].id
    BY DEF s, IdsSeen
  <2>7. \A k \in DOMAIN s : s[k] \in used /\ seen[k].name = names[s[k]]
    BY <2>2, <2>6 DEF SeenTo
  <2>8. Listing!Visited
    BY <2>5, <2>7 DEF Listing!Visited, s, IdsSeen
  <2> QED
    BY <2>1, <2>8 DEF Listing!ListsUsed
<1>5. CASE call.op = "done"
  BY <1>5 DEF ListTold
<1> QED
  BY <1>1, <1>2, <1>3, <1>4, <1>5

-----------------------------------------------------------------------------
(***************************************************************************)
(* The bitsets.                                                            *)
(***************************************************************************)

\* Sizes in bytes come from a division, and need not be natural numbers here.
BitSet == [on : SUBSET Nat, sz_bits : Nat, sz_bytes : Int, sz_alloc : Int]
AllBits == [i : BitSet, b : BitSet, i_loaded : BOOLEAN, b_loaded : BOOLEAN]
Hints == [i : Nat, b : Nat]
BitStates == [bits : AllBits, hints : Hints]

\* Of the inodes whose last transfer did not fail, the bits are those in use.
InodesTold(set, inUse, doubt) ==
  set.i_loaded => \A id \in Bits!Ids : Bits!Inode(id) \notin doubt => (id \in set.i.on <=> id \in inUse)

\* Of such blocks, none has its bit set that is free; and a block that is not there has
\* no bit set, so that it has none when the container has grown by it.
BlocksTold(set, inUse, doubt, count) ==
  /\ set.b.on \subseteq 1..count
  /\ set.b_loaded => \A id \in set.b.on : Bits!Block(id) \notin doubt => id \in inUse

Sizes(set) == set.i.sz_bits = InodeCount + 1 /\ set.b.sz_bytes <= set.b.sz_alloc

\* A handle that is closed has no bits left, which the next one would ask.
BitsInv ==
  /\ bits \in AllBits /\ hints \in Hints
  /\ blockCount \in Nat
  /\ opened => InodesTold(bits, inodes, unsure) /\ Sizes(bits)
  /\ BlocksTold(bits, blocks, unsure, blockCount)
  /\ ~opened => bits = Bits!Closed

-----------------------------------------------------------------------------
LEMMA LeastIn ==
  ASSUME NEW ids, ids \subseteq Nat, ids # {}
  PROVE  Bits!Least(ids) \in ids
<1>1. \E m \in ids : \A k \in ids : m <= k
  BY LeastExists
<1> QED
  BY <1>1 DEF Bits!Least

LEMMA IdsAre == Bits!BitsAssumption => Bits!Ids \subseteq Nat /\ 0 \notin Bits!Ids /\ 1 \notin Bits!Ids
  BY DEF Bits!BitsAssumption, Bits!Ids

\* Records of inodes and of blocks are told apart.
LEMMA KindsDiffer ==
  \A m, n : /\ Bits!Inode(m) # Bits!Block(n)
            /\ Bits!Inode(m) = Bits!Inode(n) => m = n
            /\ Bits!Block(m) = Bits!Block(n) => m = n
  BY DEF Bits!Inode, Bits!Block

\* A single bit.
LEMMA PutIs ==
  ASSUME NEW b \in BitSet, NEW n \in Nat, NEW on \in BOOLEAN
  PROVE  /\ Bits!Put(b, n, on) \in BitSet
         /\ Bits!Put(b, n, on).on = (IF on THEN b.on \cup {n} ELSE b.on \ {n})
         /\ Bits!Put(b, n, on).sz_bits = b.sz_bits
         /\ Bits!Put(b, n, on).sz_bytes = b.sz_bytes
         /\ Bits!Put(b, n, on).sz_alloc = b.sz_alloc
<1> DEFINE set == IF on THEN b.on \cup {n} ELSE b.on \ {n}
<1>1. set \in SUBSET Nat
  BY DEF BitSet
<1>2. Bits!Put(b, n, on) = [b EXCEPT !.on = set]
  BY DEF Bits!Put
<1> HIDE DEF set
<1>3. /\ Bits!Put(b, n, on) \in BitSet
      /\ Bits!Put(b, n, on).on = set
      /\ Bits!Put(b, n, on).sz_bits = b.sz_bits
      /\ Bits!Put(b, n, on).sz_bytes = b.sz_bytes
      /\ Bits!Put(b, n, on).sz_alloc = b.sz_alloc
  BY <1>1, <1>2 DEF BitSet
<1> QED
  BY <1>3 DEF set

\* A bitset that is made again keeps some of its bits, and gets no other.
LEMMA WhbitsInitIs ==
  ASSUME NEW b \in BitSet, NEW n \in Nat, Bits!BitsAssumption, b.sz_bytes <= b.sz_alloc
  PROVE  /\ Bits!WhbitsInit(b, n) \in BitSet
         /\ Bits!WhbitsInit(b, n).on \subseteq b.on
         /\ Bits!WhbitsInit(b, n).sz_bits = n
         /\ Bits!WhbitsInit(b, n).sz_bytes <= Bits!WhbitsInit(b, n).sz_alloc
<1> DEFINE bytes == (n + ByteSize - 1) \div ByteSize
           from  == CASE b.sz_alloc < bytes -> b.sz_alloc
                      [] b.sz_bytes < bytes -> b.sz_bytes
                      [] OTHER              -> bytes
           on    == IF b.sz_bytes = bytes THEN b.on ELSE {m \in b.on : m < from * ByteSize}
           alloc == IF b.sz_alloc < bytes THEN bytes ELSE b.sz_alloc
<1>1. bytes \in Int
  BY DEF Bits!BitsAssumption
<1>2. on \in SUBSET Nat /\ on \subseteq b.on
  BY DEF BitSet
<1>3. Bits!WhbitsInit(b, n) = [on |-> on, sz_bits |-> n, sz_bytes |-> bytes, sz_alloc |-> alloc]
  BY DEF Bits!WhbitsInit
<1> HIDE DEF bytes, on
<1>4. alloc \in Int /\ bytes <= alloc
  BY <1>1 DEF BitSet
<1> HIDE DEF alloc
<1> QED
  BY <1>1, <1>2, <1>3, <1>4 DEF BitSet

\* A new handle, whose bitsets are empty but for the two that are no inodes.
LEMMA FreshIs ==
  ASSUME Bits!BitsAssumption, NEW n \in Nat
  PROVE  LET fresh == Bits!InitBlockBits(Bits!InitInodeBits(Bits!Closed), n)
         IN /\ fresh \in AllBits /\ Sizes(fresh)
            /\ fresh.b.on = {} /\ ~fresh.i_loaded /\ ~fresh.b_loaded
<1> DEFINE i0 == Bits!WhbitsInit(Bits!NoBits, InodeCount + 1)
           i1 == Bits!Put(Bits!Put(i0, 0, TRUE), 1, TRUE)
           b0 == Bits!WhbitsInit(Bits!NoBits, n + 1)
           i2 == Bits!Put(i1, 0, TRUE)
<1>1. Bits!NoBits \in BitSet /\ Bits!NoBits.on = {} /\ Bits!NoBits.sz_bytes <= Bits!NoBits.sz_alloc
  BY DEF Bits!NoBits, BitSet
<1>2. InodeCount + 1 \in Nat /\ n + 1 \in Nat
  BY DEF Bits!BitsAssumption
<1>3. i0 \in BitSet /\ i0.sz_bits = InodeCount + 1
  BY <1>1, <1>2, WhbitsInitIs
<1>4. b0 \in BitSet /\ b0.on = {} /\ b0.sz_bytes <= b0.sz_alloc
  BY <1>1, <1>2, WhbitsInitIs
<1>5. i1 \in BitSet /\ i1.sz_bits = InodeCount + 1
  <2>1. Bits!Put(i0, 0, TRUE) \in BitSet /\ Bits!Put(i0, 0, TRUE).sz_bits = InodeCount + 1
    BY <1>3, PutIs
  <2> QED
    BY <2>1, PutIs
<1>6. i2 \in BitSet /\ i2.sz_bits = InodeCount + 1
  BY <1>5, PutIs
<1>7. Bits!InitInodeBits(Bits!Closed) = [Bits!Closed EXCEPT !.i = i1]
  BY DEF Bits!InitInodeBits, Bits!Closed
<1>8. Bits!InitInodeBits(Bits!Closed) = [i |-> i1, b |-> Bits!NoBits, i_loaded |-> FALSE, b_loaded |-> FALSE]
  BY <1>7 DEF Bits!Closed
<1>9. Bits!InitBlockBits(Bits!InitInodeBits(Bits!Closed), n)
        = [i |-> i2, b |-> b0, i_loaded |-> FALSE, b_loaded |-> FALSE]
  <2> HIDE DEF i1, i0
  <2> DEFINE r == [i |-> i1, b |-> Bits!NoBits, i_loaded |-> FALSE, b_loaded |-> FALSE]
  <2>1. Bits!InitBlockBits(r, n)
          = [r EXCEPT !.b = Bits!WhbitsInit(Bits!NoBits, n + 1), !.i = Bits!Put(i1, 0, TRUE)]
    BY DEF Bits!InitBlockBits
  <2> QED
    BY <1>8, <2>1
<1> HIDE DEF i2, b0
<1> QED
  BY <1>4, <1>6, <1>9 DEF AllBits, Sizes

LEMMA InodePut ==
  ASSUME NEW b \in BitSet, NEW id \in Bits!Ids, NEW inUse \in BOOLEAN, Bits!BitsAssumption
  PROVE  /\ Bits!Put(b, id, inUse) \in BitSet
         /\ Bits!Put(b, id, inUse).sz_bits = b.sz_bits
         /\ \A n \in Bits!Ids : n # id => (n \in Bits!Put(b, id, inUse).on <=> n \in b.on)
         /\ id \in Bits!Put(b, id, inUse).on <=> inUse
<1>1. id \in Nat
  BY IdsAre
<1>2. Bits!Put(b, id, inUse) \in BitSet /\ Bits!Put(b, id, inUse).sz_bits = b.sz_bits
  BY <1>1, PutIs, ZenonT(60)
<1>3. Bits!Put(b, id, inUse).on = (IF inUse THEN b.on \cup {id} ELSE b.on \ {id})
  BY <1>1, PutIs, ZenonT(60)
<1>4. (\A n \in Bits!Ids : n # id => (n \in Bits!Put(b, id, inUse).on <=> n \in b.on))
      /\ (id \in Bits!Put(b, id, inUse).on <=> inUse)
  BY <1>3, Zenon
<1> QED
  BY <1>2, <1>4, Zenon

\* What is updated when an inode or a block has been looked at.
LEMMA InodeUpdated ==
  ASSUME NEW s \in BitStates, NEW id \in Bits!Ids, NEW inUse \in BOOLEAN, Bits!BitsAssumption
  PROVE  LET t == Bits!InodeUpdateUsed(s, id, inUse)
         IN /\ t \in BitStates
            /\ t.bits = [s.bits EXCEPT !.i = Bits!Put(s.bits.i, id, inUse)]
<1>1. id \in Nat
  BY IdsAre
<1> DEFINE p == Bits!Put(s.bits.i, id, inUse)
           low == IF ~inUse /\ s.hints.i > id THEN id ELSE s.hints.i
           c == [s.bits EXCEPT !.i = p]
           h == [s.hints EXCEPT !.i = low]
<1>2. c \in AllBits
  <2>1. s.bits.i \in BitSet /\ s.bits \in AllBits
    BY DEF BitStates, AllBits
  <2>2. p \in BitSet
    BY <2>1, InodePut, Zenon
  <2> QED
    BY <2>1, <2>2 DEF AllBits
<1>3. h \in Hints
  BY <1>1 DEF BitStates, Hints
<1>4. Bits!InodeUpdateUsed(s, id, inUse) = [bits |-> c, hints |-> h]
  <2>1. s.bits \in AllBits /\ s.hints \in Hints
    BY DEF BitStates
  <2>2. s = [bits |-> s.bits, hints |-> s.hints]
    BY DEF BitStates
  <2> QED
    <3>1. Bits!InodeUpdateUsed(s, id, inUse) = [s EXCEPT !.bits.i = p, !.hints.i = low]
      BY Zenon DEF Bits!InodeUpdateUsed
    <3> HIDE DEF p, low
    <3> QED
      BY <2>1, <2>2, <3>1 DEF AllBits, Hints
<1> HIDE DEF c, h
<1>5. Bits!InodeUpdateUsed(s, id, inUse) \in BitStates /\ Bits!InodeUpdateUsed(s, id, inUse).bits = c
  BY <1>2, <1>3, <1>4 DEF BitStates
<1> QED
  BY <1>5 DEF c

LEMMA BlockUpdated ==
  ASSUME NEW s \in BitStates, NEW id \in Nat, NEW inUse \in BOOLEAN
  PROVE  LET t == Bits!BlockUpdateUsed(s, id, inUse)
         IN /\ t \in BitStates
            /\ t.bits = IF s.bits.b_loaded
                        THEN [s.bits EXCEPT !.b = Bits!Put(s.bits.b, id, inUse)] ELSE s.bits
<1> DEFINE c == [s.bits EXCEPT !.b = Bits!Put(s.bits.b, id, inUse)]
           h == [s.hints EXCEPT !.b = IF ~inUse /\ s.hints.b > id THEN id ELSE s.hints.b]
<1>1. CASE ~s.bits.b_loaded
  BY <1>1 DEF Bits!BlockUpdateUsed
<1>2. CASE s.bits.b_loaded
  <2>1. c \in AllBits
    BY PutIs DEF BitStates, AllBits
  <2>2. h \in Hints
    BY DEF BitStates, Hints
  <2>3. Bits!BlockUpdateUsed(s, id, inUse) = [bits |-> c, hints |-> h]
    BY <1>2 DEF Bits!BlockUpdateUsed, BitStates
  <2> HIDE DEF c, h
  <2>4. Bits!BlockUpdateUsed(s, id, inUse) \in BitStates /\ Bits!BlockUpdateUsed(s, id, inUse).bits = c
    BY <2>1, <2>2, <2>3 DEF BitStates
  <2> QED
    BY <1>2, <2>4 DEF c
<1> QED
  BY <1>1, <1>2

\* The bits of any inodes or blocks that have been read.
LEMMA InodesRead ==
  ASSUME NEW s \in BitStates, NEW ids \in SUBSET Bits!Ids, Bits!BitsAssumption
  PROVE  LET t == Bits!ReadInodes(s, ids)
         IN /\ t \in BitStates
            /\ t.bits = [s.bits EXCEPT !.i = [s.bits.i EXCEPT
                           !.on = (s.bits.i.on \ ids) \cup (ids \cap inodes)]]
<1> DEFINE on == (s.bits.i.on \ ids) \cup (ids \cap inodes)
           b == [s.bits.i EXCEPT !.on = on]
           c == [s.bits EXCEPT !.i = b]
           low == Bits!Least({s.hints.i} \cup (ids \ inodes))
           h == [s.hints EXCEPT !.i = low]
<1>1. s.bits \in AllBits /\ s.hints \in Hints /\ s.bits.i \in BitSet /\ s.hints.i \in Nat
  BY DEF BitStates, AllBits, Hints
<1>2. on \in SUBSET Nat
  BY <1>1, IdsAre DEF BitSet
<1>3. low \in Nat
  <2>1. {s.hints.i} \cup (ids \ inodes) \subseteq Nat
    BY <1>1, IdsAre
  <2> QED
    BY <2>1, LeastIn
<1>4. Bits!ReadInodes(s, ids) = [bits |-> c, hints |-> h]
  BY <1>1 DEF Bits!ReadInodes, AllBits
<1> HIDE DEF on, low
<1>5. b \in BitSet
  BY <1>1, <1>2 DEF BitSet
<1> HIDE DEF b
<1>6. c \in AllBits /\ h \in Hints
  BY <1>1, <1>3, <1>5 DEF AllBits, Hints
<1> HIDE DEF c, h
<1>7. Bits!ReadInodes(s, ids) \in BitStates /\ Bits!ReadInodes(s, ids).bits = c
  BY <1>4, <1>6 DEF BitStates
<1> QED
  BY <1>7 DEF c, b, on

LEMMA BlocksRead ==
  ASSUME NEW s \in BitStates, NEW ids \in SUBSET Nat
  PROVE  LET t == Bits!ReadBlocks(s, ids)
         IN /\ t \in BitStates
            /\ t.bits = IF s.bits.b_loaded
                        THEN [s.bits EXCEPT !.b = [s.bits.b EXCEPT
                                !.on = (s.bits.b.on \ ids) \cup (ids \cap blocks)]]
                        ELSE s.bits
<1> DEFINE on == (s.bits.b.on \ ids) \cup (ids \cap blocks)
           b == [s.bits.b EXCEPT !.on = on]
           c == [s.bits EXCEPT !.b = b]
           low == Bits!Least({s.hints.b} \cup (ids \ blocks))
           h == [s.hints EXCEPT !.b = low]
<1>1. s.bits \in AllBits /\ s.hints \in Hints /\ s.bits.b \in BitSet /\ s.hints.b \in Nat
  BY DEF BitStates, AllBits, Hints
<1>2. on \in SUBSET Nat
  BY <1>1 DEF BitSet
<1>3. low \in Nat
  <2>1. {s.hints.b} \cup (ids \ blocks) \subseteq Nat
    BY <1>1
  <2> QED
    BY <2>1, LeastIn
<1>4. CASE ~s.bits.b_loaded
  BY <1>4 DEF Bits!ReadBlocks
<1>5. CASE s.bits.b_loaded
  <2>1. Bits!ReadBlocks(s, ids) = [bits |-> c, hints |-> h]
    BY <1>1, <1>5 DEF Bits!ReadBlocks, AllBits
  <2> HIDE DEF on, low
  <2>2. b \in BitSet
    BY <1>1, <1>2 DEF BitSet
  <2> HIDE DEF b
  <2>3. c \in AllBits /\ h \in Hints
    BY <1>1, <1>3, <2>2 DEF AllBits, Hints
  <2> HIDE DEF c, h
  <2>4. Bits!ReadBlocks(s, ids) \in BitStates /\ Bits!ReadBlocks(s, ids).bits = c
    BY <2>1, <2>3 DEF BitStates
  <2> QED
    BY <1>5, <2>4 DEF c, b, on
<1> QED
  BY <1>4, <1>5

\* What a step of the inodes leaves of the blocks, and the other way round.
LEMMA BlocksKept ==
  ASSUME NEW c, NEW d, c.b = d.b, c.b_loaded = d.b_loaded, NEW inUse, NEW doubt, NEW count,
         BlocksTold(c, inUse, doubt, count),
         NEW more, \A n : Bits!Block(n) \in doubt => Bits!Block(n) \in more
  PROVE  BlocksTold(d, inUse, more, count)
  BY DEF BlocksTold

LEMMA InodesKept ==
  ASSUME NEW c, NEW d, c.i = d.i, c.i_loaded = d.i_loaded, NEW inUse, NEW doubt,
         InodesTold(c, inUse, doubt),
         NEW more, \A n : Bits!Inode(n) \in doubt => Bits!Inode(n) \in more
  PROVE  InodesTold(d, inUse, more)
  BY DEF InodesTold

\* The doubts that are raised or settled about a set of records.
LEMMA Doubts ==
  ASSUME NEW d, NEW ids
  PROVE  /\ \A n : Bits!Inode(n) \in d \cup Bits!OfInodes(ids) <=> Bits!Inode(n) \in d \/ n \in ids
         /\ \A n : Bits!Inode(n) \in d \ Bits!OfInodes(ids) <=> Bits!Inode(n) \in d /\ n \notin ids
         /\ \A n : Bits!Block(n) \in d \cup Bits!OfBlocks(ids) <=> Bits!Block(n) \in d \/ n \in ids
         /\ \A n : Bits!Block(n) \in d \ Bits!OfBlocks(ids) <=> Bits!Block(n) \in d /\ n \notin ids
         /\ \A n : Bits!Inode(n) \in d \cup Bits!OfBlocks(ids) <=> Bits!Inode(n) \in d
         /\ \A n : Bits!Inode(n) \in d \ Bits!OfBlocks(ids) <=> Bits!Inode(n) \in d
         /\ \A n : Bits!Block(n) \in d \cup Bits!OfInodes(ids) <=> Bits!Block(n) \in d
         /\ \A n : Bits!Block(n) \in d \ Bits!OfInodes(ids) <=> Bits!Block(n) \in d
  BY KindsDiffer DEF Bits!OfInodes, Bits!OfBlocks

-----------------------------------------------------------------------------
(***************************************************************************)
(* The steps.                                                              *)
(***************************************************************************)

LEMMA BitsInitInv == Bits!BitsAssumption /\ Bits!Init => BitsInv
<1> SUFFICES ASSUME Bits!BitsAssumption, Bits!Init PROVE BitsInv
  OBVIOUS
<1>1. Bits!NoBits \in BitSet /\ Bits!Closed \in AllBits /\ Bits!Closed.b.on = {} /\ ~Bits!Closed.b_loaded
  BY DEF Bits!NoBits, BitSet, Bits!Closed, AllBits
<1>2. hints \in Hints /\ blockCount \in Nat
  BY DEF Bits!Init, Hints, Bits!BitsAssumption
<1> QED
  BY <1>1, <1>2 DEF Bits!Init, BitsInv, BlocksTold

LEMMA OpenInv ==
  ASSUME Bits!BitsAssumption, BitsInv, Bits!Open
  PROVE  BitsInv'
<1> DEFINE fresh == Bits!InitBlockBits(Bits!InitInodeBits(Bits!Closed), blockCount)
           s == [bits |-> fresh, hints |-> hints]
           r == Bits!ReadInodes(s, Bits!LoadedInodes)
<1>1. /\ blockCount \in Nat /\ fresh \in AllBits /\ Sizes(fresh)
      /\ fresh.b.on = {} /\ ~fresh.i_loaded /\ ~fresh.b_loaded
  BY FreshIs DEF BitsInv
<1> HIDE DEF fresh
<1>2. s \in BitStates /\ s.bits = fresh
  BY <1>1 DEF BitsInv, BitStates
<1> DEFINE i1 == [fresh.i EXCEPT !.on = (fresh.i.on \ Bits!Ids) \cup (Bits!Ids \cap inodes)]
<1>3. r \in BitStates /\ r.bits = [fresh EXCEPT !.i = i1]
  BY <1>2, InodesRead DEF Bits!LoadedInodes
<1>4. r.bits.i = i1 /\ r.bits.b = fresh.b
  BY <1>1, <1>3 DEF AllBits
<1>5. /\ r.bits.i.sz_bits = InodeCount + 1 /\ r.bits.i \in BitSet
      /\ \A id \in Bits!Ids : id \in r.bits.i.on <=> id \in inodes
  BY <1>1, <1>3, <1>4 DEF AllBits, BitSet, Sizes, BitStates
<1>6. opened' /\ blockCount' = blockCount /\ inodes' = inodes /\ blocks' = blocks
  BY DEF Bits!Open
<1> HIDE DEF s, r, i1
<1>7. CASE Bits!Become(s) /\ unsure' = {}
  BY <1>1, <1>2, <1>6, <1>7 DEF Bits!Become, BitsInv, BlocksTold, InodesTold, BitStates, Sizes
<1>8. CASE /\ Bits!Become([r EXCEPT !.bits.i_loaded = TRUE, !.bits.b_loaded = TRUE])
           /\ unsure' = {}
  <2> DEFINE c == [r.bits EXCEPT !.i_loaded = TRUE, !.b_loaded = TRUE]
  <2>1. bits' = c /\ hints' = r.hints
    BY <1>3, <1>8 DEF Bits!Become, BitStates
  <2>2. c \in AllBits /\ c.i = r.bits.i /\ c.b = r.bits.b /\ hints' \in Hints
    BY <1>3, <2>1 DEF BitStates, AllBits
  <2> HIDE DEF c
  <2> QED
    BY <1>1, <1>4, <1>5, <1>6, <2>1, <2>2 DEF BitsInv, BlocksTold, InodesTold, Sizes
<1>9. ASSUME NEW id \in Bits!Ids, unsure' = {Bits!Inode(id)},
             Bits!Become([Bits!InodeUpdateUsed(r, id, id - 1 \in inodes)
                       EXCEPT !.bits.i_loaded = TRUE, !.bits.b_loaded = TRUE])
      PROVE  BitsInv'
  <2> DEFINE last == id - 1 \in inodes
             u == Bits!InodeUpdateUsed(r, id, last)
             c == [u.bits EXCEPT !.i_loaded = TRUE, !.b_loaded = TRUE]
             p == Bits!Put(r.bits.i, id, last)
  <2>0. last \in BOOLEAN /\ id \in Nat
    BY IdsAre
  <2> HIDE DEF last
  <2>1. u \in BitStates /\ u.bits = [r.bits EXCEPT !.i = p]
    BY <1>3, <2>0, InodeUpdated
  <2>2. p \in BitSet /\ p.sz_bits = InodeCount + 1
        /\ \A n \in Bits!Ids : n # id => (n \in p.on <=> n \in r.bits.i.on)
    <3>1. /\ p \in BitSet /\ p.sz_bits = r.bits.i.sz_bits
          /\ \A n \in Bits!Ids : n # id => (n \in p.on <=> n \in r.bits.i.on)
      BY <1>5, <2>0, InodePut, Zenon
    <3> QED
      BY <1>5, <3>1
  <2> HIDE DEF u, p
  <2>3. u.bits \in AllBits /\ u.bits.i = p /\ u.bits.b = r.bits.b /\ u.hints \in Hints
    BY <1>3, <2>1 DEF BitStates, AllBits
  <2>4. bits' = c /\ hints' = u.hints
    BY <1>9, <2>1 DEF Bits!Become, BitStates, u, last
  <2>5. c \in AllBits /\ c.i = p /\ c.b = r.bits.b
    BY <2>3 DEF AllBits
  <2> HIDE DEF c
  <2>6. InodesTold(bits, inodes, unsure)'
    BY <1>5, <1>6, <1>9, <2>2, <2>4, <2>5 DEF InodesTold
  <2> QED
    BY <1>1, <1>4, <1>6, <2>2, <2>3, <2>4, <2>5, <2>6 DEF BitsInv, BlocksTold, Sizes
<1> QED
  BY <1>7, <1>8, <1>9 DEF Bits!Open, s, fresh, r

LEMMA BitsFinalizeInv ==
  ASSUME Bits!BitsAssumption, BitsInv, Bits!Finalize
  PROVE  BitsInv'
<1>1. Bits!NoBits \in BitSet /\ Bits!Closed \in AllBits /\ Bits!Closed.b.on = {} /\ ~Bits!Closed.b_loaded
  BY DEF Bits!NoBits, BitSet, Bits!Closed, AllBits
<1> QED
  BY <1>1 DEF Bits!Finalize, BitsInv, BlocksTold

\* An inode is read or written: its bit is that of what has been read, or the last
\* transfer of it has failed.
LEMMA InodeStep ==
  ASSUME Bits!BitsAssumption, BitsInv, opened, opened', blocks' = blocks, blockCount' = blockCount,
         NEW id \in Bits!Ids, NEW inUse \in BOOLEAN, Bits!Become(Bits!InodeUpdateUsed(Bits!State, id, inUse)),
         \/ (id \in inodes' <=> inUse) /\ unsure' = unsure \ {Bits!Inode(id)}
         \/ unsure' = unsure \cup {Bits!Inode(id)},
         \A n \in Bits!Ids : n # id => (n \in inodes' <=> n \in inodes)
  PROVE  BitsInv'
<1> DEFINE t == Bits!InodeUpdateUsed(Bits!State, id, inUse)
           p == Bits!Put(bits.i, id, inUse)
<1>1. Bits!State \in BitStates /\ Bits!State.bits = bits
  BY DEF Bits!State, BitsInv, BitStates
<1>2. t \in BitStates /\ t.bits = [bits EXCEPT !.i = p]
  BY <1>1, InodeUpdated
<1>3. bits \in AllBits /\ bits.i \in BitSet
  BY DEF BitsInv, AllBits
<1>4. /\ p \in BitSet /\ p.sz_bits = bits.i.sz_bits
      /\ \A n \in Bits!Ids : n # id => (n \in p.on <=> n \in bits.i.on)
      /\ id \in p.on <=> inUse
  BY <1>3, InodePut, Zenon
<1>5. bits' = t.bits /\ hints' = t.hints
  BY DEF Bits!Become
<1> HIDE DEF t, p
<1>6. /\ bits' \in AllBits /\ hints' \in Hints /\ bits'.i = p /\ bits'.b = bits.b
      /\ bits'.i_loaded = bits.i_loaded /\ bits'.b_loaded = bits.b_loaded
  BY <1>2, <1>3, <1>5 DEF BitStates, AllBits
<1>7. InodesTold(bits, inodes, unsure)'
  <2> SUFFICES ASSUME bits'.i_loaded, NEW n \in Bits!Ids, Bits!Inode(n) \notin unsure'
               PROVE  n \in p.on <=> n \in inodes'
    BY <1>6 DEF InodesTold
  <2>1. InodesTold(bits, inodes, unsure)
    BY DEF BitsInv
  <2>2. CASE n = id
    BY <2>2, <1>4
  <2>3. CASE n # id
    <3>1. Bits!Inode(n) \notin unsure
      BY <2>3, KindsDiffer
    <3> QED
      BY <2>1, <2>3, <3>1, <1>4, <1>6 DEF InodesTold
  <2> QED
    BY <2>2, <2>3
<1>8. BlocksTold(bits, blocks, unsure, blockCount)'
  <2>1. \A n : Bits!Block(n) \in unsure => Bits!Block(n) \in unsure'
    BY KindsDiffer
  <2>2. BlocksTold(bits', blocks, unsure', blockCount)
    BY <1>6, <2>1, BlocksKept DEF BitsInv
  <2> QED
    BY <2>2
<1> QED
  BY <1>4, <1>6, <1>7, <1>8 DEF BitsInv, Sizes

LEMMA ReadInodeInv ==
  ASSUME Bits!BitsAssumption, BitsInv, Bits!ReadInode
  PROVE  BitsInv'
<1>1. PICK id \in Bits!Ids : /\ Bits!Become(Bits!InodeUpdateUsed(Bits!State, id, id \in inodes))
                        /\ unsure' = unsure \ {Bits!Inode(id)}
  BY DEF Bits!ReadInode
<1>2. opened /\ opened' /\ inodes' = inodes /\ blocks' = blocks /\ blockCount' = blockCount
  BY DEF Bits!ReadInode
<1> DEFINE inUse == id \in inodes
<1>3. inUse \in BOOLEAN
  OBVIOUS
<1>4. Bits!Become(Bits!InodeUpdateUsed(Bits!State, id, inUse)) /\ (id \in inodes' <=> inUse)
  BY <1>1, <1>2
<1> HIDE DEF inUse
<1> QED
  BY <1>1, <1>2, <1>3, <1>4, InodeStep

LEMMA WriteInodeInv ==
  ASSUME Bits!BitsAssumption, BitsInv, Bits!WriteInode
  PROVE  BitsInv'
<1>1. PICK id \in Bits!Ids, inUse \in BOOLEAN : Bits!FlushInode(Bits!State, id, inUse)
  BY DEF Bits!WriteInode
<1>2. opened /\ opened' /\ blocks' = blocks /\ blockCount' = blockCount
  BY DEF Bits!WriteInode
<1>3. /\ Bits!Become(Bits!InodeUpdateUsed(Bits!State, id, inUse))
      /\ \/ (id \in inodes' <=> inUse) /\ unsure' = unsure \ {Bits!Inode(id)}
         \/ unsure' = unsure \cup {Bits!Inode(id)}
      /\ \A n \in Bits!Ids : n # id => (n \in inodes' <=> n \in inodes)
  BY <1>1 DEF Bits!FlushInode
<1> QED
  BY <1>2, <1>3, InodeStep

LEMMA BlockPut ==
  ASSUME NEW b \in BitSet, NEW id \in Nat, NEW inUse \in BOOLEAN
  PROVE  /\ Bits!Put(b, id, inUse) \in BitSet
         /\ Bits!Put(b, id, inUse).sz_bytes = b.sz_bytes /\ Bits!Put(b, id, inUse).sz_alloc = b.sz_alloc
         /\ \A n : n # id => (n \in Bits!Put(b, id, inUse).on <=> n \in b.on)
         /\ id \in Bits!Put(b, id, inUse).on <=> inUse
<1>1. /\ Bits!Put(b, id, inUse) \in BitSet
      /\ Bits!Put(b, id, inUse).sz_bytes = b.sz_bytes /\ Bits!Put(b, id, inUse).sz_alloc = b.sz_alloc
  BY PutIs, ZenonT(60)
<1>2. Bits!Put(b, id, inUse).on = (IF inUse THEN b.on \cup {id} ELSE b.on \ {id})
  BY PutIs, ZenonT(60)
<1>3. (\A n : n # id => (n \in Bits!Put(b, id, inUse).on <=> n \in b.on))
      /\ (id \in Bits!Put(b, id, inUse).on <=> inUse)
  BY <1>2, Zenon
<1> QED
  BY <1>1, <1>3, Zenon

\* The same of a block, whose bit is left alone until the caches are loaded.
LEMMA BlockStep ==
  ASSUME Bits!BitsAssumption, BitsInv, opened, opened', inodes' = inodes, blockCount' = blockCount,
         NEW id \in Bits!BlockIds, NEW inUse \in BOOLEAN,
         bits' = Bits!BlockUpdateUsed(Bits!State, id, inUse).bits, hints' \in Hints,
         inUse => id \in blocks', unsure' = unsure \ {Bits!Block(id)},
         \A n : n # id /\ n \in blocks => n \in blocks'
  PROVE  BitsInv'
<1> DEFINE t == Bits!BlockUpdateUsed(Bits!State, id, inUse)
           p == Bits!Put(bits.b, id, inUse)
<1>0. blockCount \in Nat /\ id \in Nat /\ id \in 1..blockCount
  BY DEF BitsInv, Bits!BlockIds
<1>1. Bits!State \in BitStates /\ Bits!State.bits = bits
  BY DEF Bits!State, BitsInv, BitStates
<1>2. t \in BitStates
      /\ t.bits = IF bits.b_loaded THEN [bits EXCEPT !.b = p] ELSE bits
  BY <1>0, <1>1, BlockUpdated
<1>3. bits \in AllBits /\ bits.b \in BitSet
  BY DEF BitsInv, AllBits
<1>4. /\ p \in BitSet
      /\ p.sz_bytes = bits.b.sz_bytes /\ p.sz_alloc = bits.b.sz_alloc
      /\ \A n : n # id => (n \in p.on <=> n \in bits.b.on)
      /\ id \in p.on <=> inUse
  BY <1>0, <1>3, BlockPut, ZenonT(60)
<1>5. bits' = t.bits
  OBVIOUS
<1> HIDE DEF t, p
<1>6. /\ bits' \in AllBits /\ bits'.i = bits.i
      /\ bits'.i_loaded = bits.i_loaded /\ bits'.b_loaded = bits.b_loaded
      /\ bits'.b = IF bits.b_loaded THEN p ELSE bits.b
  BY <1>2, <1>3, <1>4, <1>5 DEF BitStates, AllBits
<1>7. InodesTold(bits, inodes, unsure)'
  <2>1. \A n : Bits!Inode(n) \in unsure => Bits!Inode(n) \in unsure'
    BY KindsDiffer
  <2>2. InodesTold(bits', inodes, unsure')
    BY <1>6, <2>1, InodesKept DEF BitsInv
  <2> QED
    BY <2>2
<1>8. BlocksTold(bits, blocks, unsure, blockCount)'
  <2>1. BlocksTold(bits, blocks, unsure, blockCount)
    BY DEF BitsInv
  <2>2. bits'.b.on \subseteq 1..blockCount
    BY <1>0, <1>4, <1>6, <2>1 DEF BlocksTold
  <2>3. ASSUME bits'.b_loaded, NEW n \in bits'.b.on, Bits!Block(n) \notin unsure'
        PROVE  n \in blocks'
    <3>1. n \in p.on
      BY <1>6, <2>3
    <3>2. CASE n = id
      BY <1>4, <3>1, <3>2
    <3>3. CASE n # id
      <4>1. Bits!Block(n) \notin unsure /\ n \in bits.b.on
        BY <1>4, <2>3, <3>1, <3>3, KindsDiffer
      <4> QED
        BY <1>6, <2>1, <2>3, <3>3, <4>1 DEF BlocksTold
    <3> QED
      BY <3>2, <3>3
  <2> QED
    BY <2>2, <2>3 DEF BlocksTold
<1>9. Sizes(bits)'
  BY <1>4, <1>6 DEF BitsInv, Sizes
<1> QED
  BY <1>0, <1>6, <1>7, <1>8, <1>9 DEF BitsInv

\* A step that leaves the bitsets as they are, and doubts what it may have changed.
LEMMA BitsSame ==
  ASSUME Bits!BitsAssumption, BitsInv, opened, opened', bits' = bits, hints' \in Hints,
         inodes' = inodes, blockCount' \in Nat, blockCount <= blockCount',
         \A n : Bits!Inode(n) \in unsure => Bits!Inode(n) \in unsure',
         \A n : n \in blocks => n \in blocks' \/ Bits!Block(n) \in unsure',
         \A n : Bits!Block(n) \in unsure => Bits!Block(n) \in unsure'
  PROVE  BitsInv'
<1>1. InodesTold(bits', inodes, unsure')
  BY InodesKept DEF BitsInv
<1>2. InodesTold(bits, inodes, unsure)'
  BY <1>1
<1>3. BlocksTold(bits, blocks, unsure, blockCount)'
  <2>1. blockCount \in Nat
    BY DEF BitsInv
  <2> QED
    BY <2>1 DEF BitsInv, BlocksTold
<1> QED
  BY <1>2, <1>3 DEF BitsInv, Sizes

LEMMA ReadBlockInv ==
  ASSUME Bits!BitsAssumption, BitsInv, Bits!ReadBlock
  PROVE  BitsInv'
<1>1. PICK id \in Bits!BlockIds :
        IF Bits!OutOfRange(id)
        THEN aborted' = TRUE /\ UNCHANGED <<bits, hints, unsure>>
        ELSE /\ Bits!Become(Bits!BlockUpdateUsed(Bits!State, id, id \in blocks))
             /\ unsure' = unsure \ {Bits!Block(id)}
             /\ UNCHANGED aborted
  BY DEF Bits!ReadBlock
<1>2. opened /\ opened' /\ inodes' = inodes /\ blocks' = blocks /\ blockCount' = blockCount
  BY DEF Bits!ReadBlock
<1>3. CASE Bits!OutOfRange(id)
  BY <1>1, <1>2, <1>3, BitsSame DEF BitsInv
<1>4. CASE ~Bits!OutOfRange(id)
  <2> DEFINE inUse == id \in blocks
             t == Bits!BlockUpdateUsed(Bits!State, id, inUse)
  <2>1. inUse \in BOOLEAN /\ (inUse => id \in blocks') /\ id \in Nat
    BY <1>2 DEF Bits!BlockIds, BitsInv
  <2>2. bits' = t.bits /\ hints' = t.hints /\ unsure' = unsure \ {Bits!Block(id)}
    BY <1>1, <1>4 DEF Bits!Become
  <2> HIDE DEF inUse
  <2>3. Bits!State \in BitStates
    BY DEF Bits!State, BitsInv, BitStates
  <2>4. t \in BitStates
    BY <2>1, <2>3, BlockUpdated
  <2>5. hints' \in Hints
    BY <2>2, <2>4 DEF BitStates
  <2> QED
    BY <1>2, <2>1, <2>2, <2>5, BlockStep
<1> QED
  BY <1>3, <1>4

LEMMA WriteBlockInv ==
  ASSUME Bits!BitsAssumption, BitsInv, Bits!WriteBlock
  PROVE  BitsInv'
<1>1. PICK id \in Bits!BlockIds, inUse \in BOOLEAN :
        IF Bits!OutOfRange(id)
        THEN aborted' = TRUE /\ UNCHANGED <<bits, hints, blocks, unsure>>
        ELSE Bits!FlushBlock(id, inUse) /\ UNCHANGED aborted
  BY DEF Bits!WriteBlock
<1>2. opened /\ opened' /\ inodes' = inodes /\ blockCount' = blockCount
  BY DEF Bits!WriteBlock
<1>3. Bits!State \in BitStates /\ Bits!State.bits = bits /\ Bits!State.hints = hints
      /\ id \in Nat /\ blockCount \in Nat
  BY DEF Bits!State, BitsInv, BitStates, Bits!BlockIds
<1>4. CASE Bits!OutOfRange(id)
  BY <1>1, <1>2, <1>3, <1>4, BitsSame DEF BitsInv
<1> DEFINE t == Bits!BlockUpdateUsed(Bits!State, id, inUse)
<1>5. CASE /\ Bits!Become([t EXCEPT !.hints.b = IF ~inUse /\ id < @ THEN id ELSE @])
           /\ blocks' = IF inUse THEN blocks \cup {id} ELSE blocks \ {id}
           /\ unsure' = unsure \ {Bits!Block(id)}
  <2> DEFINE low == IF ~inUse /\ id < t.hints.b THEN id ELSE t.hints.b
  <2>1. t \in BitStates
    BY <1>3, BlockUpdated
  <2>2. low \in Nat
    BY <1>3, <2>1 DEF BitStates, Hints
  <2>3. Bits!Become([t EXCEPT !.hints.b = low])
    BY <1>5
  <2>4. (inUse => id \in blocks') /\ (\A n : n # id /\ n \in blocks => n \in blocks')
    BY <1>5, Zenon
  <2> HIDE DEF low
  <2>5. bits' = t.bits /\ hints' = [t.hints EXCEPT !.b = low]
    <3> HIDE DEF t
    <3> QED
      BY <2>1, <2>3 DEF Bits!Become, BitStates
  <2>6. hints' \in Hints
    <3> HIDE DEF t
    <3> QED
      BY <2>1, <2>2, <2>5 DEF BitStates, Hints
  <2> QED
    BY <1>2, <1>5, <2>4, <2>5, <2>6, BlockStep
<1>6. CASE /\ Bits!Become(Bits!State)
           /\ blocks' \in {blocks, blocks \cup {id}, blocks \ {id}}
           /\ unsure' = unsure \cup {Bits!Block(id)}
  <2>1. bits' = bits /\ hints' \in Hints
    BY <1>3, <1>6 DEF Bits!Become, BitsInv
  <2> QED
    BY <1>2, <1>3, <1>6, <2>1, BitsSame
<1> QED
  BY <1>1, <1>4, <1>5, <1>6 DEF Bits!FlushBlock

\* Reading any inodes settles the doubts about them.
LEMMA InodesReadTold ==
  ASSUME Bits!BitsAssumption, NEW s \in BitStates, NEW ids \in SUBSET Bits!Ids, NEW doubt,
         InodesTold(s.bits, inodes, doubt)
  PROVE  LET c == Bits!ReadInodes(s, ids).bits
         IN /\ InodesTold(c, inodes, doubt \ Bits!OfInodes(ids))
            /\ c \in AllBits /\ c.b = s.bits.b /\ c.b_loaded = s.bits.b_loaded
            /\ c.i_loaded = s.bits.i_loaded /\ c.i.sz_bits = s.bits.i.sz_bits
<1> DEFINE c == Bits!ReadInodes(s, ids).bits
           on == (s.bits.i.on \ ids) \cup (ids \cap inodes)
           b == [s.bits.i EXCEPT !.on = on]
<1>1. Bits!ReadInodes(s, ids) \in BitStates /\ c = [s.bits EXCEPT !.i = b]
  BY InodesRead
<1>2. s.bits \in AllBits /\ s.bits.i \in BitSet
  BY DEF BitStates, AllBits
<1>3. c \in AllBits
  BY <1>1 DEF BitStates
<1> HIDE DEF on
<1>4. b.on = on /\ b.sz_bits = s.bits.i.sz_bits
  BY <1>2 DEF BitSet
<1> HIDE DEF c, b
<1>5. /\ c.i = b /\ c.b = s.bits.b /\ c.i_loaded = s.bits.i_loaded
      /\ c.b_loaded = s.bits.b_loaded
  BY <1>1, <1>2 DEF AllBits
<1>6. ASSUME c.i_loaded, NEW n \in Bits!Ids, Bits!Inode(n) \notin doubt \ Bits!OfInodes(ids)
      PROVE  n \in c.i.on <=> n \in inodes
  <2>1. n \in ids \/ Bits!Inode(n) \notin doubt
    BY <1>6, Doubts
  <2>2. n \notin ids => (n \in s.bits.i.on <=> n \in inodes)
    BY <1>5, <1>6, <2>1 DEF InodesTold
  <2> QED
    BY <1>4, <1>5, <2>2 DEF on
<1>7. InodesTold(c, inodes, doubt \ Bits!OfInodes(ids))
  BY <1>6 DEF InodesTold
<1> QED
  BY <1>3, <1>4, <1>5, <1>7 DEF c

LEMMA NextFreeInodeInv ==
  ASSUME Bits!BitsAssumption, BitsInv, Bits!NextFreeInode
  PROVE  BitsInv'
<1> DEFINE from == IF hints.i < 2 THEN 2 ELSE hints.i
           ids  == {id \in Bits!Ids : id >= from} \ Bits!Skipped(bits.i, bits.i_loaded, Bits!Ids)
           free == ids \ inodes
           h    == [Bits!State EXCEPT !.hints.i = from]
           one  == Bits!Least(free)
           first == {n \in ids : n < one}
           all  == Bits!ReadInodes(h, ids)
           r    == Bits!ReadInodes(h, first)
<1>1. /\ opened /\ opened' /\ blocks' = blocks /\ blockCount' = blockCount
      /\ BlocksTold(bits, blocks, unsure, blockCount) /\ Sizes(bits)
      /\ InodesTold(bits, inodes, unsure) /\ blockCount \in Nat
  BY DEF Bits!NextFreeInode, BitsInv
<1>2. from \in Nat
  BY DEF BitsInv, Hints
<1>3. \/ /\ free = {}
         /\ Bits!Become(all) /\ unsure' = unsure \ Bits!OfInodes(ids) /\ inodes' = inodes
      \/ /\ free # {}
         /\ \/ /\ inodes' = inodes \cup {one}
               /\ unsure' = unsure \ Bits!OfInodes({n \in ids : n <= one})
            \/ /\ inodes' = inodes
               /\ unsure' = (unsure \ Bits!OfInodes(first)) \cup {Bits!Inode(one)}
         /\ Bits!Become([Bits!InodeUpdateUsed(r, one, TRUE) EXCEPT !.hints.i = one + 1])
  BY Zenon DEF Bits!NextFreeInode
<1>4. ids \in SUBSET Bits!Ids /\ first \in SUBSET Bits!Ids /\ (free # {} => one \in Bits!Ids /\ one \in Nat)
  <2>1. free \subseteq Nat
    BY IdsAre
  <2> HIDE DEF Bits!Skipped
  <2>2. free # {} => one \in free
    BY <2>1, LeastIn, Zenon
  <2> HIDE DEF one, from
  <2> QED
    BY <2>1, <2>2
<1>5. h \in BitStates /\ h.bits = bits
  <2> HIDE DEF from
  <2> QED
    BY <1>2 DEF Bits!State, BitsInv, BitStates, Hints
<1>6. all \in BitStates /\ r \in BitStates
  BY <1>4, <1>5, InodesRead
<1>7. /\ InodesTold(all.bits, inodes, unsure \ Bits!OfInodes(ids))
      /\ all.bits.b = bits.b /\ all.bits.b_loaded = bits.b_loaded
      /\ all.bits.i.sz_bits = bits.i.sz_bits
  <2> HIDE DEF h, ids, first
  <2>1. InodesTold(h.bits, inodes, unsure)
    BY <1>1, <1>5
  <2>2. /\ InodesTold(all.bits, inodes, unsure \ Bits!OfInodes(ids))
        /\ all.bits.b = h.bits.b /\ all.bits.b_loaded = h.bits.b_loaded
        /\ all.bits.i.sz_bits = h.bits.i.sz_bits
    BY <1>4, <1>5, <2>1, InodesReadTold
  <2> QED
    BY <1>5, <2>2
<1>8. /\ InodesTold(r.bits, inodes, unsure \ Bits!OfInodes(first))
      /\ r.bits.b = bits.b /\ r.bits.b_loaded = bits.b_loaded
      /\ r.bits.i.sz_bits = bits.i.sz_bits
  <2> HIDE DEF h, ids, first
  <2>1. InodesTold(h.bits, inodes, unsure)
    BY <1>1, <1>5
  <2>2. /\ InodesTold(r.bits, inodes, unsure \ Bits!OfInodes(first))
        /\ r.bits.b = h.bits.b /\ r.bits.b_loaded = h.bits.b_loaded
        /\ r.bits.i.sz_bits = h.bits.i.sz_bits
    BY <1>4, <1>5, <2>1, InodesReadTold
  <2> QED
    BY <1>5, <2>2
<1> HIDE DEF all, r, h, ids, free, one, from
<1>9. CASE Bits!Become(all) /\ unsure' = unsure \ Bits!OfInodes(ids) /\ inodes' = inodes
  <2>1. bits' = all.bits /\ bits' \in AllBits /\ hints' \in Hints
    BY <1>6, <1>9 DEF Bits!Become, BitStates
  <2>2. InodesTold(bits, inodes, unsure)'
    BY <1>7, <1>9, <2>1
  <2>3. \A n : Bits!Block(n) \in unsure => Bits!Block(n) \in unsure'
    BY <1>9, Doubts
  <2>4. BlocksTold(bits', blocks, unsure', blockCount)
    BY <1>1, <1>7, <2>1, <2>3, BlocksKept
  <2>5. BlocksTold(bits, blocks, unsure, blockCount)'
    BY <1>1, <2>4
  <2> QED
    BY <1>1, <1>7, <2>1, <2>2, <2>5 DEF BitsInv, Sizes
<1>10. ASSUME free # {},
              \/ /\ inodes' = inodes \cup {one}
                 /\ unsure' = unsure \ Bits!OfInodes({n \in ids : n <= one})
              \/ /\ inodes' = inodes
                 /\ unsure' = (unsure \ Bits!OfInodes(first)) \cup {Bits!Inode(one)},
              Bits!Become([Bits!InodeUpdateUsed(r, one, TRUE) EXCEPT !.hints.i = one + 1])
       PROVE  BitsInv'
  <2> DEFINE t == Bits!InodeUpdateUsed(r, one, TRUE)
             p == Bits!Put(r.bits.i, one, TRUE)
  <2>1. one \in Bits!Ids /\ one \in Nat
    BY <1>4, <1>10
  <2>2. t \in BitStates /\ t.bits = [r.bits EXCEPT !.i = p]
    BY <1>6, <2>1, InodeUpdated
  <2>3. r.bits \in AllBits /\ r.bits.i \in BitSet
    BY <1>6 DEF BitStates, AllBits
  <2>4. /\ p \in BitSet /\ p.sz_bits = r.bits.i.sz_bits
        /\ \A n \in Bits!Ids : n # one => (n \in p.on <=> n \in r.bits.i.on)
        /\ one \in p.on
    BY <2>1, <2>3, InodePut
  <2> HIDE DEF t, p
  <2>5. bits' = t.bits /\ hints' = [t.hints EXCEPT !.i = one + 1]
    BY <1>10, <2>2 DEF Bits!Become, BitStates, t
  <2>6. hints' \in Hints
    BY <2>1, <2>2, <2>5 DEF BitStates, Hints
  <2>7. /\ bits' \in AllBits /\ bits'.i = p /\ bits'.b = bits.b
        /\ bits'.b_loaded = bits.b_loaded /\ bits'.i_loaded = r.bits.i_loaded
    BY <1>8, <2>2, <2>3, <2>4, <2>5 DEF BitStates, AllBits
  <2>8. ASSUME bits'.i_loaded, NEW n \in Bits!Ids, Bits!Inode(n) \notin unsure'
        PROVE  n \in p.on <=> n \in inodes'
    <3>1. CASE n = one
      <4>1. inodes' = inodes \cup {one}
        BY <1>10, <2>8, <3>1
      <4> QED
        BY <2>4, <3>1, <4>1
    <3>2. CASE n # one
      <4>1. Bits!Inode(n) \notin unsure \ Bits!OfInodes(first)
        <5>1. CASE unsure' = unsure \ Bits!OfInodes({m \in ids : m <= one})
          <6>1. Bits!Inode(n) \notin unsure \/ n \in {m \in ids : m <= one}
            BY <2>8, <5>1, Doubts
          <6>2. n \in {m \in ids : m <= one} => n \in first
            BY <1>4, <2>1, <3>2, IdsAre
          <6> QED
            BY <6>1, <6>2, Doubts
        <5>2. CASE unsure' = (unsure \ Bits!OfInodes(first)) \cup {Bits!Inode(one)}
          BY <2>8, <5>2
        <5> QED
          BY <1>10, <5>1, <5>2
      <4>2. n \in r.bits.i.on <=> n \in inodes
        BY <1>8, <2>7, <2>8, <4>1 DEF InodesTold
      <4>3. n \in inodes' <=> n \in inodes
        BY <1>10, <3>2
      <4> QED
        BY <2>4, <3>2, <4>2, <4>3
    <3> QED
      BY <3>1, <3>2
  <2>9. InodesTold(bits, inodes, unsure)'
    BY <2>7, <2>8 DEF InodesTold
  <2>10. \A n : Bits!Block(n) \in unsure => Bits!Block(n) \in unsure'
    <3>1. /\ \A n : Bits!Block(n) \in unsure \ Bits!OfInodes(first) <=> Bits!Block(n) \in unsure
          /\ \A n : Bits!Block(n) \in unsure \ Bits!OfInodes({m \in ids : m <= one})
                   <=> Bits!Block(n) \in unsure
      BY Doubts, Zenon
    <3> QED
      BY <1>10, <3>1, Zenon
  <2>11. BlocksTold(bits', blocks, unsure', blockCount)
    BY <1>1, <2>7, <2>10, BlocksKept
  <2>12. BlocksTold(bits, blocks, unsure, blockCount)'
    BY <1>1, <2>11
  <2> QED
    BY <1>1, <1>8, <2>4, <2>6, <2>7, <2>9, <2>12 DEF BitsInv, Sizes
<1> QED
  BY <1>3, <1>9, <1>10

LEMMA BlocksReadTold ==
  ASSUME Bits!BitsAssumption, NEW s \in BitStates, NEW count \in Nat, NEW ids \in SUBSET (1..count),
         NEW doubt, BlocksTold(s.bits, blocks, doubt, count)
  PROVE  LET c == Bits!ReadBlocks(s, ids).bits
         IN /\ BlocksTold(c, blocks, doubt \ Bits!OfBlocks(ids), count)
            /\ c \in AllBits /\ c.i = s.bits.i /\ c.i_loaded = s.bits.i_loaded
            /\ c.b_loaded = s.bits.b_loaded
            /\ c.b.sz_bytes = s.bits.b.sz_bytes /\ c.b.sz_alloc = s.bits.b.sz_alloc
<1> DEFINE c == Bits!ReadBlocks(s, ids).bits
           on == (s.bits.b.on \ ids) \cup (ids \cap blocks)
           b == [s.bits.b EXCEPT !.on = on]
<1>0. ids \in SUBSET Nat
  OBVIOUS
<1>1. /\ Bits!ReadBlocks(s, ids) \in BitStates
      /\ c = IF s.bits.b_loaded THEN [s.bits EXCEPT !.b = b] ELSE s.bits
  BY <1>0, BlocksRead
<1>2. s.bits \in AllBits /\ s.bits.b \in BitSet
  BY DEF BitStates, AllBits
<1>3. c \in AllBits
  BY <1>1 DEF BitStates
<1> HIDE DEF on
<1>4. b.on = on /\ b.sz_bytes = s.bits.b.sz_bytes /\ b.sz_alloc = s.bits.b.sz_alloc
  BY <1>2 DEF BitSet
<1> HIDE DEF c, b
<1>5. /\ c.i = s.bits.i /\ c.i_loaded = s.bits.i_loaded
      /\ c.b_loaded = s.bits.b_loaded
      /\ c.b = IF s.bits.b_loaded THEN b ELSE s.bits.b
  BY <1>1, <1>2 DEF AllBits
<1>6. c.b.on \subseteq 1..count
  BY <1>4, <1>5 DEF on, BlocksTold
<1>7. ASSUME c.b_loaded, NEW n \in c.b.on, Bits!Block(n) \notin doubt \ Bits!OfBlocks(ids)
      PROVE  n \in blocks
  <2>1. n \in ids \/ Bits!Block(n) \notin doubt
    BY <1>7, Doubts
  <2>2. n \in (s.bits.b.on \ ids) \cup (ids \cap blocks)
    BY <1>4, <1>5, <1>7 DEF on
  <2> QED
    BY <1>5, <1>7, <2>1, <2>2 DEF BlocksTold
<1>8. BlocksTold(c, blocks, doubt \ Bits!OfBlocks(ids), count)
  BY <1>6, <1>7 DEF BlocksTold
<1> QED
  BY <1>3, <1>4, <1>5, <1>8 DEF c

\* All blocks in ids have been read, which may be all that happens.
LEMMA BlocksReadStep ==
  ASSUME Bits!BitsAssumption, BitsInv, opened, opened', inodes' = inodes, blockCount' = blockCount,
         NEW from \in Nat, NEW ids \in SUBSET Bits!BlockIds,
         bits' = Bits!ReadBlocks([Bits!State EXCEPT !.hints.b = from], ids).bits, hints' \in Hints,
         \A n : n \in blocks => n \in blocks',
         \A n : Bits!Block(n) \in unsure \ Bits!OfBlocks(ids) => Bits!Block(n) \in unsure',
         \A n : Bits!Inode(n) \in unsure => Bits!Inode(n) \in unsure'
  PROVE  BitsInv'
<1> DEFINE h == [Bits!State EXCEPT !.hints.b = from]
<1>1. h \in BitStates /\ h.bits = bits
  BY DEF Bits!State, BitsInv, BitStates, Hints
<1> HIDE DEF h
<1>2. blockCount \in Nat /\ ids \in SUBSET (1..blockCount)
  BY DEF BitsInv, Bits!BlockIds
<1>3. BlocksTold(h.bits, blocks, unsure, blockCount)
  BY <1>1 DEF BitsInv
<1> DEFINE c == Bits!ReadBlocks(h, ids).bits
<1>4. /\ BlocksTold(c, blocks, unsure \ Bits!OfBlocks(ids), blockCount)
      /\ c \in AllBits /\ c.i = h.bits.i /\ c.i_loaded = h.bits.i_loaded
      /\ c.b_loaded = h.bits.b_loaded
      /\ c.b.sz_bytes = h.bits.b.sz_bytes /\ c.b.sz_alloc = h.bits.b.sz_alloc
  BY <1>1, <1>2, <1>3, BlocksReadTold
<1>5. bits' = c
  BY DEF h
<1> HIDE DEF c
<1>6. BlocksTold(bits, blocks, unsure, blockCount)'
  BY <1>4, <1>5 DEF BlocksTold
<1>7. InodesTold(bits', inodes, unsure')
  BY <1>1, <1>4, <1>5, InodesKept DEF BitsInv
<1>8. InodesTold(bits, inodes, unsure)'
  BY <1>7
<1>9. Sizes(bits)'
  BY <1>1, <1>4, <1>5 DEF BitsInv, Sizes
<1> QED
  BY <1>2, <1>4, <1>5, <1>6, <1>8, <1>9 DEF BitsInv

LEMMA NextFreeBlockInv ==
  ASSUME Bits!BitsAssumption, BitsInv, Bits!NextFreeBlock
  PROVE  BitsInv'
<1> DEFINE from == IF hints.b = 0 THEN 1 ELSE hints.b
           ids  == {id \in Bits!BlockIds : id >= from} \ Bits!Skipped(bits.b, bits.b_loaded, Bits!BlockIds)
           free == ids \ blocks
           h    == [Bits!State EXCEPT !.hints.b = from]
           one  == Bits!Least(free)
           read == {n \in ids : free # {} => n < one}
           r    == Bits!ReadBlocks(h, read)
           t    == Bits!BlockUpdateUsed(r, one, TRUE)
<1>1. opened /\ opened' /\ inodes' = inodes /\ blockCount' = blockCount /\ blockCount \in Nat
  BY DEF Bits!NextFreeBlock, BitsInv
<1>2. from \in Nat
  BY DEF BitsInv, Hints
<1>3. \/ UNCHANGED <<bits, hints, blocks, unsure>>
      \/ /\ free = {}
         /\ Bits!Become(r) /\ unsure' = unsure \ Bits!OfBlocks(ids) /\ blocks' = blocks
      \/ /\ free # {}
         /\ Bits!Become([t EXCEPT !.hints.b = one + 1])
         /\ blocks' = blocks \cup {one}
         /\ unsure' = unsure \ Bits!OfBlocks({n \in ids : n <= one})
      \/ /\ free # {}
         /\ Bits!Become([r EXCEPT !.hints.b = one + 1])
         /\ blocks' = blocks
         /\ unsure' = (unsure \ Bits!OfBlocks({n \in ids : n < one})) \cup {Bits!Block(one)}
  BY Zenon DEF Bits!NextFreeBlock
<1>4. /\ ids \in SUBSET Bits!BlockIds /\ read \in SUBSET Bits!BlockIds
      /\ free # {} => one \in Bits!BlockIds /\ one \in Nat /\ one \in ids /\ one \notin blocks
  <2>1. free \subseteq Nat
    BY <1>1 DEF Bits!BlockIds
  <2> HIDE DEF Bits!Skipped
  <2>2. free # {} => one \in free
    BY <2>1, LeastIn, Zenon
  <2> HIDE DEF one, from
  <2> QED
    BY <1>1, <2>2 DEF Bits!BlockIds
<1>5. h \in BitStates /\ h.bits = bits
  <2> HIDE DEF from
  <2> QED
    BY <1>2 DEF Bits!State, BitsInv, BitStates, Hints
<1>6. r \in BitStates
  <2>1. read \in SUBSET Nat
    BY <1>1, <1>4 DEF Bits!BlockIds
  <2> HIDE DEF h, read
  <2> QED
    BY <1>5, <2>1, BlocksRead
<1>7. CASE UNCHANGED <<bits, hints, blocks, unsure>>
  BY <1>1, <1>7, BitsSame DEF BitsInv
<1>8. CASE /\ free = {}
           /\ Bits!Become(r) /\ unsure' = unsure \ Bits!OfBlocks(ids) /\ blocks' = blocks
  <2>1. read = ids
    BY <1>8
  <2> HIDE DEF read, ids, free, from
  <2>2. bits' = r.bits /\ hints' = r.hints
    BY <1>8 DEF Bits!Become
  <2>3. hints' \in Hints
    <3> HIDE DEF r
    <3> QED
      BY <1>6, <2>2 DEF BitStates
  <2>4. \A n : Bits!Block(n) \in unsure \ Bits!OfBlocks(read) => Bits!Block(n) \in unsure'
    BY <1>8, <2>1
  <2>5. \A n : Bits!Inode(n) \in unsure => Bits!Inode(n) \in unsure'
    BY <1>8, Doubts
  <2> QED
    BY <1>1, <1>2, <1>4, <1>8, <2>2, <2>3, <2>4, <2>5, BlocksReadStep
<1>9. CASE /\ free # {}
           /\ Bits!Become([r EXCEPT !.hints.b = one + 1])
           /\ blocks' = blocks
           /\ unsure' = (unsure \ Bits!OfBlocks({n \in ids : n < one})) \cup {Bits!Block(one)}
  <2>1. read = {n \in ids : n < one}
    BY <1>9
  <2>2. one \in Nat /\ one \in Bits!BlockIds
    BY <1>4, <1>9
  <2> HIDE DEF read, ids, free, from, one
  <2>3. r.bits = bits' /\ hints' = [r.hints EXCEPT !.b = one + 1]
    <3> HIDE DEF r
    <3> QED
      BY <1>6, <1>9 DEF Bits!Become, BitStates
  <2>4. hints' \in Hints
    <3> HIDE DEF r
    <3> QED
      BY <1>6, <2>2, <2>3 DEF BitStates, Hints
  <2>5. \A n : Bits!Block(n) \in unsure \ Bits!OfBlocks(read) => Bits!Block(n) \in unsure'
    BY <1>9, <2>1
  <2>6. \A n : Bits!Inode(n) \in unsure => Bits!Inode(n) \in unsure'
    <3>1. \A n : Bits!Inode(n) \in unsure => Bits!Inode(n) \in unsure \ Bits!OfBlocks(read)
      BY Doubts, Zenon
    <3> QED
      BY <1>9, <2>1, <3>1
  <2> QED
    BY <1>1, <1>2, <1>4, <1>9, <2>3, <2>4, <2>5, <2>6, BlocksReadStep
<1>10. CASE /\ free # {}
            /\ Bits!Become([t EXCEPT !.hints.b = one + 1])
            /\ blocks' = blocks \cup {one}
            /\ unsure' = unsure \ Bits!OfBlocks({n \in ids : n <= one})
  <2>1. one \in Nat /\ one \in Bits!BlockIds /\ one \in 1..blockCount
    BY <1>4, <1>10 DEF Bits!BlockIds
  <2>2. \A n \in ids : n # one /\ n <= one => n \in read
    BY <1>1, <1>4, <1>10, <2>1 DEF Bits!BlockIds
  <2>3. read \in SUBSET (1..blockCount)
    BY <1>4 DEF Bits!BlockIds
  <2> DEFINE below == {n \in ids : n <= one}
             c == r.bits
             p == Bits!Put(c.b, one, TRUE)
  <2>4. below \subseteq ids /\ \A n \in below : n # one => n \in read
    BY <2>2
  <2>5. unsure' = unsure \ Bits!OfBlocks(below) /\ blocks' = blocks \cup {one}
    BY <1>10
  <2>6. BlocksTold(h.bits, blocks, unsure, blockCount)
    BY <1>5 DEF BitsInv
  <2> HIDE DEF read, ids, free, from, one, h, below
  <2>7. /\ BlocksTold(c, blocks, unsure \ Bits!OfBlocks(read), blockCount)
        /\ c \in AllBits /\ c.i = h.bits.i /\ c.i_loaded = h.bits.i_loaded
        /\ c.b_loaded = h.bits.b_loaded
        /\ c.b.sz_bytes = h.bits.b.sz_bytes /\ c.b.sz_alloc = h.bits.b.sz_alloc
    BY <1>1, <1>5, <2>3, <2>6, BlocksReadTold
  <2> HIDE DEF r
  <2>8. /\ t \in BitStates
        /\ t.bits = IF c.b_loaded THEN [c EXCEPT !.b = p] ELSE c
    BY <1>6, <2>1, BlockUpdated
  <2>9. bits' = t.bits /\ hints' = [t.hints EXCEPT !.b = one + 1]
    <3>1. Bits!Become([t EXCEPT !.hints.b = one + 1])
      BY <1>10
    <3> HIDE DEF t
    <3> QED
      BY <2>8, <3>1 DEF Bits!Become, BitStates
  <2>10. hints' \in Hints
    <3> HIDE DEF t
    <3> QED
      BY <2>1, <2>8, <2>9 DEF BitStates, Hints
  <2>11. c.b \in BitSet
    BY <2>7 DEF AllBits
  <2>12. /\ p \in BitSet /\ p.sz_bytes = c.b.sz_bytes /\ p.sz_alloc = c.b.sz_alloc
         /\ \A n : n # one => (n \in p.on <=> n \in c.b.on)
    BY <2>1, <2>11, BlockPut
  <2> HIDE DEF c, p, t
  <2>13. /\ bits' \in AllBits /\ bits'.i = c.i /\ bits'.i_loaded = c.i_loaded
         /\ bits'.b_loaded = c.b_loaded
         /\ bits'.b = IF c.b_loaded THEN p ELSE c.b
    BY <2>7, <2>8, <2>9, <2>12 DEF AllBits
  <2>14. bits'.b.on \subseteq 1..blockCount
    BY <2>1, <2>7, <2>12, <2>13 DEF BlocksTold
  <2>15. ASSUME bits'.b_loaded, NEW n \in bits'.b.on, Bits!Block(n) \notin unsure'
         PROVE  n \in blocks'
    <3>1. CASE n = one
      BY <2>5, <3>1
    <3>2. CASE n # one
      <4>1. n \in below \/ Bits!Block(n) \notin unsure
        BY <2>5, <2>15, Doubts
      <4>2. Bits!Block(n) \notin unsure \ Bits!OfBlocks(read)
        BY <2>4, <3>2, <4>1, Doubts
      <4>3. n \in c.b.on
        BY <2>12, <2>13, <2>15, <3>2
      <4> QED
        BY <2>5, <2>7, <2>13, <2>15, <4>2, <4>3 DEF BlocksTold
    <3> QED
      BY <3>1, <3>2
  <2>16. BlocksTold(bits, blocks, unsure, blockCount)'
    BY <1>1, <2>14, <2>15 DEF BlocksTold
  <2>17. \A n : Bits!Inode(n) \in unsure => Bits!Inode(n) \in unsure'
    BY <2>5, Doubts
  <2>18. InodesTold(bits', inodes, unsure')
    BY <1>1, <1>5, <2>7, <2>13, <2>17, InodesKept DEF BitsInv
  <2>19. InodesTold(bits, inodes, unsure)'
    BY <1>1, <2>18
  <2>20. Sizes(bits)'
    BY <1>1, <1>5, <2>7, <2>12, <2>13 DEF BitsInv, Sizes
  <2> QED
    BY <1>1, <2>10, <2>13, <2>16, <2>19, <2>20 DEF BitsInv
<1> QED
  BY <1>3, <1>7, <1>8, <1>9, <1>10

\* The bitsets that whefs_fs_append_blocks goes on with.
LEMMA GrownIs ==
  ASSUME Bits!BitsAssumption, NEW s \in BitStates, NEW n \in Nat,
         s.bits.b.sz_bytes <= s.bits.b.sz_alloc
  PROVE  LET c == [s EXCEPT !.bits = Bits!InitBlockBits(@, n)].bits
         IN /\ c \in AllBits /\ c.b.on \subseteq s.bits.b.on
            /\ c.b.sz_bytes <= c.b.sz_alloc
            /\ c.b_loaded = s.bits.b_loaded /\ c.i_loaded = s.bits.i_loaded
            /\ c.i.sz_bits = s.bits.i.sz_bits
            /\ \A id \in Bits!Ids : id \in c.i.on <=> id \in s.bits.i.on
<1> DEFINE a == s.bits
           b == Bits!WhbitsInit(a.b, n + 1)
           i == Bits!Put(a.i, 0, TRUE)
<1>1. a \in AllBits /\ a.b \in BitSet /\ a.i \in BitSet /\ n + 1 \in Nat
  BY DEF BitStates, AllBits
<1> HIDE DEF a
<1>2. b \in BitSet /\ b.on \subseteq a.b.on /\ b.sz_bytes <= b.sz_alloc
  BY <1>1, WhbitsInitIs DEF a
<1>3. i \in BitSet /\ i.on = a.i.on \cup {0} /\ i.sz_bits = a.i.sz_bits
  BY <1>1, PutIs
<1>4. Bits!InitBlockBits(a, n) = [a EXCEPT !.b = b, !.i = i]
  BY <1>1 DEF Bits!InitBlockBits, AllBits
<1> HIDE DEF b, i
<1> DEFINE c == [a EXCEPT !.b = b, !.i = i]
<1>5. /\ c \in AllBits /\ c.b = b /\ c.i = i /\ c.b_loaded = a.b_loaded
      /\ c.i_loaded = a.i_loaded
  BY <1>1, <1>2, <1>3 DEF AllBits
<1> HIDE DEF c
<1>6. [s EXCEPT !.bits = Bits!InitBlockBits(@, n)].bits = c
  <2>1. [s EXCEPT !.bits = Bits!InitBlockBits(@, n)].bits = Bits!InitBlockBits(s.bits, n)
    BY DEF BitStates
  <2> QED
    BY <1>4, <2>1 DEF a, c
<1>7. \A id \in Bits!Ids : id \in c.i.on <=> id \in a.i.on
  BY <1>3, <1>5, IdsAre
<1> QED
  BY <1>2, <1>3, <1>5, <1>6, <1>7 DEF a

LEMMA AppendBlocksInv ==
  ASSUME Bits!BitsAssumption, BitsInv, Bits!AppendBlocks
  PROVE  BitsInv'
<1> DEFINE grown(n) == [Bits!State EXCEPT !.bits = Bits!InitBlockBits(@, n)]
           low(h, ids) == IF ids = {} THEN h ELSE Bits!Least({h} \cup ids)
           new(k) == blockCount + 1..blockCount + k
           wipe(k, w) == {id \in new(k) : id <= blockCount + w}
<1>1. PICK k, s :
        /\ k \in 1..MaxBlocks - blockCount /\ s \in {Bits!State, grown(blockCount + k)}
        /\ blockCount' = blockCount + k
        /\ \/ UNCHANGED <<bits, hints, unsure>>
           \/ \E w \in 0..k :
                /\ bits' = IF s.bits.b_loaded
                           THEN [s.bits EXCEPT !.b.on = @ \ wipe(k, w)] ELSE s.bits
                /\ hints' = [hints EXCEPT !.b = low(@, wipe(k, w))]
                /\ unsure' = unsure \cup Bits!OfBlocks(new(k) \ wipe(k, w))
  <2>1. PICK k \in 1..MaxBlocks - blockCount, enough \in BOOLEAN :
          LET s == IF enough \/ bits.b.sz_alloc * ByteSize > blockCount + k
                   THEN grown(blockCount + k) ELSE Bits!State
          IN /\ blockCount' = blockCount + k
             /\ IF s.bits.b_loaded /\ s.bits.b.sz_bits <= blockCount + k
                THEN aborted' = TRUE /\ UNCHANGED <<bits, hints, unsure>>
                ELSE /\ UNCHANGED aborted
                     /\ \E w \in 0..k :
                          LET ids == wipe(k, w)
                          IN /\ bits' = IF s.bits.b_loaded
                                        THEN [s.bits EXCEPT !.b.on = @ \ ids] ELSE s.bits
                             /\ hints' = [hints EXCEPT !.b = low(@, ids)]
                             /\ unsure' = unsure \cup Bits!OfBlocks(new(k) \ ids)
    BY Zenon DEF Bits!AppendBlocks
  <2> DEFINE s == IF enough \/ bits.b.sz_alloc * ByteSize > blockCount + k
                  THEN grown(blockCount + k) ELSE Bits!State
  <2>2. s \in {Bits!State, grown(blockCount + k)}
    <3> HIDE DEF grown
    <3> QED
      OBVIOUS
  <2> HIDE DEF grown, wipe, new, low
  <2> QED
    BY <2>1, <2>2, Zenon
<1>2. /\ opened /\ opened' /\ inodes' = inodes /\ blocks' = blocks
      /\ blockCount \in Nat /\ k \in Nat /\ blockCount + k \in Nat
  BY <1>1 DEF Bits!AppendBlocks, BitsInv, Bits!BitsAssumption
<1>3. Bits!State \in BitStates /\ Bits!State.bits = bits
  BY DEF Bits!State, BitsInv, BitStates
<1> DEFINE c == s.bits
<1>4. /\ c \in AllBits /\ c.b.on \subseteq bits.b.on
      /\ c.b.sz_bytes <= c.b.sz_alloc
      /\ c.b_loaded = bits.b_loaded /\ c.i_loaded = bits.i_loaded
      /\ c.i.sz_bits = bits.i.sz_bits
      /\ \A id \in Bits!Ids : id \in c.i.on <=> id \in bits.i.on
  <2>1. Bits!State.bits.b.sz_bytes <= Bits!State.bits.b.sz_alloc
    BY <1>2, <1>3 DEF BitsInv, Sizes
  <2>2. CASE s = Bits!State
    BY <1>3, <2>1, <2>2 DEF BitStates
  <2>3. CASE s = grown(blockCount + k)
    <3> DEFINE g == grown(blockCount + k).bits
    <3>1. /\ g \in AllBits /\ g.b.on \subseteq Bits!State.bits.b.on
          /\ g.b.sz_bytes <= g.b.sz_alloc
          /\ g.b_loaded = Bits!State.bits.b_loaded /\ g.i_loaded = Bits!State.bits.i_loaded
          /\ g.i.sz_bits = Bits!State.bits.i.sz_bits
          /\ \A id \in Bits!Ids : id \in g.i.on <=> id \in Bits!State.bits.i.on
      BY <1>2, <1>3, <2>1, GrownIs, Zenon
    <3>2. c = g
      BY <2>3
    <3> HIDE DEF c, g
    <3> QED
      BY <1>3, <3>1, <3>2
  <2> HIDE DEF grown, c
  <2> QED
    BY <1>1, <2>2, <2>3
<1> HIDE DEF grown, c
<1>5. CASE UNCHANGED <<bits, hints, unsure>>
  <2>1. blockCount <= blockCount'
    BY <1>1, <1>2
  <2>2. bits' = bits /\ hints' \in Hints /\ unsure' = unsure
    BY <1>5 DEF BitsInv
  <2> QED
    BY <1>1, <1>2, <2>1, <2>2, BitsSame
<1>6. ASSUME NEW w \in 0..k,
             bits' = IF c.b_loaded THEN [c EXCEPT !.b.on = @ \ wipe(k, w)] ELSE c,
             hints' = [hints EXCEPT !.b = low(@, wipe(k, w))],
             unsure' = unsure \cup Bits!OfBlocks(new(k) \ wipe(k, w))
      PROVE  BitsInv'
  <2> DEFINE on == c.b.on \ wipe(k, w)
  <2>1. c.b \in BitSet /\ on \in SUBSET Nat /\ on \subseteq bits.b.on
    BY <1>4 DEF AllBits, BitSet
  <2>2. low(hints.b, wipe(k, w)) \in Nat
    <3>1. hints.b \in Nat /\ {hints.b} \cup wipe(k, w) \subseteq Nat
      BY <1>2 DEF BitsInv, Hints
    <3> HIDE DEF wipe
    <3> QED
      BY <3>1, LeastIn
  <2> HIDE DEF wipe, low, new
  <2>3. hints' \in Hints
    BY <1>6, <2>2 DEF BitsInv, Hints
  <2>4. bits' = IF c.b_loaded THEN [c EXCEPT !.b.on = on] ELSE c
    BY <1>6
  <2> HIDE DEF on
  <2>5. /\ bits' \in AllBits /\ bits'.i = c.i /\ bits'.b.on \subseteq bits.b.on
        /\ bits'.b.sz_bytes = c.b.sz_bytes /\ bits'.b.sz_alloc = c.b.sz_alloc
        /\ bits'.b_loaded = c.b_loaded /\ bits'.i_loaded = c.i_loaded
    <3>1. CASE ~c.b_loaded
      BY <1>4, <2>4, <3>1
    <3>2. CASE c.b_loaded
      <4> DEFINE b == [c.b EXCEPT !.on = on]
      <4>1. b \in BitSet /\ b.on = on /\ b.sz_bytes = c.b.sz_bytes
            /\ b.sz_alloc = c.b.sz_alloc
        BY <2>1 DEF BitSet
      <4>2. bits' = [c EXCEPT !.b = b]
        BY <2>4, <3>2
      <4> HIDE DEF b
      <4> QED
        BY <1>4, <2>1, <4>1, <4>2 DEF AllBits
    <3> QED
      BY <3>1, <3>2
  <2>6. BlocksTold(bits, blocks, unsure, blockCount)'
    <3>1. \A n : Bits!Block(n) \in unsure => Bits!Block(n) \in unsure'
      BY <1>6
    <3> QED
      BY <1>1, <1>2, <1>4, <2>5, <3>1 DEF BitsInv, BlocksTold
  <2>7. InodesTold(bits, inodes, unsure)'
    <3>1. \A n : Bits!Inode(n) \in unsure => Bits!Inode(n) \in unsure'
      BY <1>6
    <3> QED
      BY <1>2, <1>4, <2>5, <3>1 DEF BitsInv, InodesTold
  <2>8. Sizes(bits)'
    BY <1>2, <1>4, <2>5 DEF BitsInv, Sizes
  <2> QED
    BY <1>1, <1>2, <2>3, <2>5, <2>6, <2>7, <2>8 DEF BitsInv
<1> QED
  BY <1>1, <1>5, <1>6 DEF c

LEMMA BitsNextInv == Bits!BitsAssumption /\ BitsInv /\ [Bits!Next]_Bits!vars => BitsInv'
<1> SUFFICES ASSUME Bits!BitsAssumption, BitsInv, [Bits!Next]_Bits!vars PROVE BitsInv'
  OBVIOUS
<1>1. CASE UNCHANGED Bits!vars
  BY <1>1 DEF Bits!vars, BitsInv, InodesTold, BlocksTold, Sizes
<1> QED
  BY <1>1, OpenInv, BitsFinalizeInv, ReadInodeInv, ReadBlockInv, WriteInodeInv,
     WriteBlockInv, NextFreeInodeInv, NextFreeBlockInv, AppendBlocksInv DEF Bits!Next

LEMMA BitsInvTrue == BitsInv => Bits!BitsTrue
  BY DEF BitsInv, Bits!BitsTrue, InodesTold, BlocksTold, Sizes

\* A bit never hides what is there: what may be skipped in a search for a free inode or
\* block is in use, and what a listing leaves out is not, whatever has failed and however
\* often the container has grown (whbits_init, whefs_inode_update_used,
\* whefs_block_update_used, whefs_fs_append_blocks).
THEOREM BitsAreTrue == ASSUME Bits!BitsAssumption PROVE Bits!Spec => []Bits!BitsTrue
<1>1. Bits!Init => BitsInv
  BY BitsInitInv
<1>2. BitsInv /\ [Bits!Next]_Bits!vars => BitsInv'
  BY BitsNextInv
<1>3. BitsInv => Bits!BitsTrue
  BY BitsInvTrue
<1> QED
  BY <1>1, <1>2, <1>3, PTL DEF Bits!Spec

-----------------------------------------------------------------------------
(***************************************************************************)
(* The device.                                                             *)
(***************************************************************************)

DevHandle ==
  [dev : Disks, owns : BOOLEAN, rw : BOOLEAN, fileno : BOOLEAN, proxy : BOOLEAN,
   mmapped : BOOLEAN]

DeviceStates ==
  [device : [Disks -> {"none", "file", "memory"}],
   owner : [Disks -> {"nobody", "caller", "fs"}],
   fs : DevHandle \cup {Dev!NoFs}, mapped : Nat, lost : Nat, twice : BOOLEAN,
   told : [Disks -> {"nobody", "caller", "fs"}], spent : SUBSET Disks]

\* A device is there for its owner.
Owners(s) ==
  \A d \in Disks :
    /\ (s.device[d] = "none") <=> (s.owner[d] = "nobody")
    /\ (s.owner[d] = "fs") <=> (s.fs.dev = d /\ s.fs.owns)

\* The owner is the one whefs.h says, but for devices that were finalized all the same.
Tells(s) ==
  \A d \in Disks :
    IF d \in s.spent THEN s.owner[d] = "nobody" /\ s.told[d] = "caller"
    ELSE s.told[d] = s.owner[d]

\* A proxy is one of a handle that can take it away again.
Mappings(s) ==
  /\ s.fs.proxy => s.fs.mmapped /\ s.fs.fileno
  /\ s.mapped = s.lost + (IF s.fs.proxy THEN 1 ELSE 0)

Good(s) ==
  /\ s \in DeviceStates
  /\ ~s.twice
  /\ Owners(s)
  /\ Tells(s)
  /\ s.fs # Dev!NoFs => s.device[s.fs.dev] # "none"
  /\ Mappings(s)

DeviceInv == Good(Dev!State)

-----------------------------------------------------------------------------
LEMMA NoDevHandle == Dev!DeviceAssumption => Dev!NoFs \notin DevHandle
  BY DEF Dev!DeviceAssumption, Dev!NoFs, DevHandle

LEMMA Becomes ==
  ASSUME NEW s, Good(s), Dev!Become(s)
  PROVE  DeviceInv'
<1>1. Dev!State' = s
  BY DEF Good, DeviceStates, Dev!Become, Dev!State
<1> QED
  BY <1>1 DEF DeviceInv

LEMMA FinalizeDevGood ==
  ASSUME NEW s, Good(s), NEW d \in Disks, s.device[d] # "none",
         s.fs = Dev!NoFs \/ s.fs.dev # d, Dev!DeviceAssumption
  PROVE  Good(Dev!FinalizeDev(s, d))
<1> DEFINE t == Dev!FinalizeDev(s, d)
<1>1. s \in DeviceStates
  BY DEF Good
<1>2. t.device = [s.device EXCEPT ![d] = "none"] /\ t.owner = [s.owner EXCEPT ![d] = "nobody"]
      /\ t.fs = s.fs /\ t.mapped = s.mapped /\ t.lost = s.lost
      /\ t.told = [s.told EXCEPT ![d] = "nobody"] /\ t.spent = s.spent
  BY <1>1 DEF Dev!FinalizeDev, DeviceStates
<1>3. t \in DeviceStates /\ ~t.twice
  BY <1>1, <1>2 DEF Dev!FinalizeDev, DeviceStates, Good
<1>4. s.fs.dev # d
  BY DEF Dev!NoFs, Dev!DeviceAssumption
<1>5. Owners(t)
  BY <1>1, <1>2, <1>4 DEF Good, Owners, DeviceStates
<1>6. s.fs # Dev!NoFs => t.device[s.fs.dev] # "none"
  BY <1>1, <1>2, <1>4 DEF Good, DeviceStates, DevHandle
<1>7. d \notin s.spent
  BY DEF Good, Owners, Tells
<1>8. Tells(t)
  BY <1>1, <1>2, <1>7 DEF Good, Tells, DeviceStates
<1> QED
  BY <1>2, <1>3, <1>5, <1>6, <1>8 DEF Good, Mappings

\* Mapping a file, which a handle that has mapped it does not do again.
LEMMA ConnectGood ==
  ASSUME NEW s, Good(s), s.fs # Dev!NoFs, NEW t \in Dev!Connect(s), Dev!DeviceAssumption
  PROVE  Good(t)
<1> s.fs \in DevHandle
  BY DEF Good, DeviceStates
<1>1. CASE t = s
  BY <1>1
<1>2. CASE t = [s EXCEPT !.fs.proxy = TRUE, !.fs.mmapped = TRUE, !.mapped = @ + 1]
           /\ ~s.fs.mmapped /\ s.fs.fileno
  <2> DEFINE h == [s.fs EXCEPT !.proxy = TRUE, !.mmapped = TRUE]
  <2>1. h \in DevHandle /\ h.dev = s.fs.dev /\ h.owns = s.fs.owns /\ h.proxy /\ h.mmapped
        /\ h.fileno = s.fs.fileno
    BY DEF DevHandle
  <2>2. t = [s EXCEPT !.fs = h, !.mapped = s.mapped + 1]
    BY <1>2 DEF Good, DeviceStates
  <2>3. t.fs = h /\ t.mapped = s.mapped + 1 /\ t.device = s.device /\ t.owner = s.owner
        /\ t.lost = s.lost /\ t.twice = s.twice /\ t.told = s.told /\ t.spent = s.spent
    BY <2>2 DEF Good, DeviceStates
  <2>4. t \in DeviceStates
    <3>1. s \in DeviceStates /\ s.mapped + 1 \in Nat /\ h \in DevHandle \cup {Dev!NoFs}
      BY <2>1 DEF Good, DeviceStates
    <3> HIDE DEF h
    <3> QED
      BY <2>2, <3>1 DEF DeviceStates
  <2>5. Mappings(t)
    <3>1. s.mapped = s.lost /\ s.lost \in Nat
      BY <1>2 DEF Good, Mappings, DeviceStates
    <3>2. t.mapped = t.lost + 1 /\ t.fs.proxy /\ t.fs.mmapped /\ t.fs.fileno
      BY <3>1, <2>1, <2>3, <1>2
    <3> QED
      BY <3>2 DEF Mappings
  <2> QED
    BY <2>1, <2>3, <2>4, <2>5 DEF Good, Owners, Tells
<1>3. CASE t = [s EXCEPT !.mapped = @ + 1, !.lost = @ + 1]
  <2>1. t.fs = s.fs /\ t.mapped = s.mapped + 1 /\ t.device = s.device /\ t.owner = s.owner
        /\ t.lost = s.lost + 1 /\ t.twice = s.twice
        /\ t.told = s.told /\ t.spent = s.spent
    BY <1>3 DEF Good, DeviceStates
  <2>2. t \in DeviceStates
    <3>1. s \in DeviceStates /\ s.mapped + 1 \in Nat /\ s.lost + 1 \in Nat
      BY DEF Good, DeviceStates
    <3>2. t = [s EXCEPT !.mapped = s.mapped + 1, !.lost = s.lost + 1]
      BY <1>3, <3>1 DEF DeviceStates
    <3> QED
      BY <3>1, <3>2 DEF DeviceStates
  <2>3. Mappings(t)
    BY <2>1 DEF Good, Mappings, DeviceStates
  <2> QED
    BY <2>1, <2>2, <2>3 DEF Good, Owners, Tells
<1> QED
  BY <1>1, <1>2, <1>3 DEF Dev!Connect

\* The device under the proxy stays.
LEMMA DisconnectGood ==
  ASSUME NEW s, Good(s), Dev!DeviceAssumption
  PROVE  /\ Good(Dev!Disconnect(s))
         /\ ~Dev!Disconnect(s).fs.proxy
         /\ Dev!Disconnect(s).fs.dev = s.fs.dev /\ Dev!Disconnect(s).fs.owns = s.fs.owns
         /\ s.fs # Dev!NoFs => Dev!Disconnect(s).fs # Dev!NoFs
         /\ Dev!Disconnect(s).owner = s.owner /\ Dev!Disconnect(s).device = s.device
         /\ Dev!Disconnect(s).told = s.told /\ Dev!Disconnect(s).spent = s.spent
<1>1. CASE s.fs.mmapped /\ s.fs.fileno /\ s.fs.proxy
  <2> DEFINE t == [s EXCEPT !.fs.proxy = FALSE, !.mapped = @ - 1]
  <2>1. s.fs \in DevHandle
    BY <1>1 DEF Good, DeviceStates, Dev!NoFs
  <2> DEFINE h == [s.fs EXCEPT !.proxy = FALSE]
  <2>2. h \in DevHandle /\ h.dev = s.fs.dev /\ h.owns = s.fs.owns /\ ~h.proxy /\ h # Dev!NoFs
    BY <2>1, NoDevHandle DEF DevHandle
  <2>3. s.mapped - 1 = s.lost /\ s.fs # Dev!NoFs
    BY <1>1 DEF Good, DeviceStates, Mappings, Dev!NoFs
  <2>4. t = [s EXCEPT !.fs = h, !.mapped = s.lost]
    BY <2>3 DEF Good, DeviceStates
  <2>5. t.fs = h /\ t.mapped = s.lost /\ t.device = s.device /\ t.owner = s.owner
        /\ t.lost = s.lost /\ t.twice = s.twice /\ t.told = s.told /\ t.spent = s.spent
    BY <2>4 DEF Good, DeviceStates
  <2>6. t \in DeviceStates
    BY <2>2, <2>4, <2>5 DEF Good, DeviceStates
  <2>7. Good(t)
    <3>1. Owners(t) /\ Tells(t) /\ ~t.twice /\ t.device[t.fs.dev] # "none"
      <4>1. Owners(s) /\ Tells(s) /\ ~s.twice /\ s.device[s.fs.dev] # "none"
        BY <2>3 DEF Good
      <4>2. t.fs.dev = s.fs.dev /\ t.fs.owns = s.fs.owns
        BY <2>2, <2>5
      <4> HIDE DEF t
      <4>3. Owners(t)
        BY <2>5, <4>1, <4>2 DEF Owners
      <4>4. Tells(t)
        BY <2>5, <4>1 DEF Tells
      <4> QED
        BY <2>5, <4>1, <4>2, <4>3, <4>4
    <3>2. Mappings(t)
      <4>1. t.mapped = t.lost /\ ~t.fs.proxy /\ t.lost \in Nat
        BY <2>2, <2>5, <2>6 DEF DeviceStates
      <4> HIDE DEF t
      <4> QED
        BY <4>1 DEF Mappings
    <3> QED
      BY <2>6, <3>1, <3>2 DEF Good
  <2>8. Dev!Disconnect(s) = t
    BY <1>1 DEF Dev!Disconnect
  <2> QED
    BY <2>2, <2>5, <2>7, <2>8
<1>2. CASE ~(s.fs.mmapped /\ s.fs.fileno /\ s.fs.proxy)
  <2>1. ~s.fs.proxy
    BY <1>2 DEF Good, Mappings
  <2> QED
    BY <1>2, <2>1 DEF Dev!Disconnect
<1> QED
  BY <1>1, <1>2

\* A handle that ends leaves its device if and only if it is not its own.
LEMMA FinalizedGood ==
  ASSUME NEW s, Good(s), s.fs # Dev!NoFs, Dev!DeviceAssumption
  PROVE  /\ Good(Dev!Finalized(s)) /\ Dev!Finalized(s).fs = Dev!NoFs
         /\ Dev!Finalized(s).spent = s.spent
         /\ Dev!Finalized(s).owner = IF s.fs.owns THEN [s.owner EXCEPT ![s.fs.dev] = "nobody"]
                                     ELSE s.owner
<1> DEFINE c == Dev!Disconnect(s)
           d == c.fs.dev
           u == [c EXCEPT !.twice = @ \/ c.device[d] = "none"]
           f == IF c.fs.owns THEN Dev!FinalizeDev(c, d) ELSE c
<1>1. Good(c) /\ ~c.fs.proxy /\ c.fs # Dev!NoFs /\ c.fs.owns = s.fs.owns
      /\ c.owner = s.owner /\ c.device = s.device /\ c.fs.dev = s.fs.dev
      /\ c.told = s.told /\ c.spent = s.spent
  BY DisconnectGood
<1>2. d \in Disks /\ d # "none" /\ c.device[d] # "none" /\ c.fs \in DevHandle
  BY <1>1 DEF Good, DeviceStates, DevHandle, Dev!DeviceAssumption
<1>3. u = c
  BY <1>1, <1>2 DEF Good, DeviceStates
<1>4. Dev!Finalized(s) = [f EXCEPT !.fs = Dev!NoFs]
  BY <1>2, <1>3 DEF Dev!Finalized
<1>5. CASE c.fs.owns
  <2>1. f.device = [c.device EXCEPT ![d] = "none"] /\ f.owner = [c.owner EXCEPT ![d] = "nobody"]
        /\ f.mapped = c.mapped /\ f.lost = c.lost /\ ~f.twice /\ f \in DeviceStates
        /\ f.told = [c.told EXCEPT ![d] = "nobody"] /\ f.spent = c.spent
    BY <1>1, <1>2, <1>5 DEF Dev!FinalizeDev, Good, DeviceStates
  <2>2. [f EXCEPT !.fs = Dev!NoFs] \in DeviceStates
    BY <2>1 DEF DeviceStates
  <2>3. \A e \in Disks : e # d => c.owner[e] # "fs"
    BY <1>1, <1>2, <1>5 DEF Good, Owners
  <2>4. Owners([f EXCEPT !.fs = Dev!NoFs])
    BY <2>1, <2>3, <1>1, <1>2 DEF Owners, Dev!NoFs, Good, DeviceStates, Dev!DeviceAssumption
  <2>5. Mappings([f EXCEPT !.fs = Dev!NoFs])
    BY <2>1, <1>1 DEF Mappings, Dev!NoFs, Good, DeviceStates
  <2>6. Tells([f EXCEPT !.fs = Dev!NoFs])
    <3>1. d \notin c.spent
      BY <1>1, <1>2 DEF Good, Owners, Tells
    <3> QED
      BY <3>1, <2>1, <1>1, <1>2 DEF Good, Tells, DeviceStates
  <2> QED
    BY <1>1, <1>4, <1>5, <2>1, <2>2, <2>4, <2>5, <2>6 DEF Good, DeviceStates
<1>6. CASE ~c.fs.owns
  <2>1. f = c
    BY <1>6
  <2>2. [c EXCEPT !.fs = Dev!NoFs] \in DeviceStates /\ [c EXCEPT !.fs = Dev!NoFs].fs = Dev!NoFs
        /\ [c EXCEPT !.fs = Dev!NoFs].device = c.device
        /\ [c EXCEPT !.fs = Dev!NoFs].owner = c.owner
        /\ [c EXCEPT !.fs = Dev!NoFs].told = c.told
        /\ [c EXCEPT !.fs = Dev!NoFs].spent = c.spent
    BY <1>1 DEF Good, DeviceStates
  <2>3. Owners([c EXCEPT !.fs = Dev!NoFs])
    BY <1>1, <1>6, <2>2 DEF Good, Owners, Dev!NoFs, Dev!DeviceAssumption
  <2>4. Mappings([c EXCEPT !.fs = Dev!NoFs])
    BY <1>1 DEF Mappings, Dev!NoFs, Good, DeviceStates
  <2>5. Tells([c EXCEPT !.fs = Dev!NoFs])
    BY <1>1, <2>2 DEF Good, Tells
  <2> QED
    BY <1>1, <1>4, <1>6, <2>1, <2>2, <2>3, <2>4, <2>5 DEF Good, DeviceStates
<1> QED
  BY <1>5, <1>6

\* A call that fails leaves a device of the caller as it was, or finalizes it and notes so.
LEMMA FailedGood ==
  ASSUME DeviceInv, NEW s, Good(s), NEW d \in Disks, owner[d] = "caller", NEW take \in BOOLEAN,
         s.spent = spent, s.owner = IF take THEN [owner EXCEPT ![d] = "nobody"] ELSE owner
  PROVE  Good(Dev!Failed([s EXCEPT !.spent = IF take THEN @ \cup {d} ELSE @]))
<1> DEFINE t == Dev!Failed([s EXCEPT !.spent = IF take THEN @ \cup {d} ELSE @])
<1>1. /\ told \in [Disks -> {"nobody", "caller", "fs"}] /\ spent \in SUBSET Disks
      /\ owner \in [Disks -> {"nobody", "caller", "fs"}]
      /\ \A e \in Disks : IF e \in spent THEN owner[e] = "nobody" /\ told[e] = "caller"
                          ELSE told[e] = owner[e]
  BY DEF DeviceInv, Good, DeviceStates, Dev!State, Tells
<1>2. /\ t.told = told /\ t.spent = IF take THEN spent \cup {d} ELSE spent
      /\ t.owner = s.owner /\ t.device = s.device /\ t.fs = s.fs /\ t.mapped = s.mapped
      /\ t.lost = s.lost /\ t.twice = s.twice /\ t \in DeviceStates
  BY <1>1 DEF Dev!Failed, Good, DeviceStates
<1> HIDE DEF t
<1>3. d \notin spent /\ told[d] = "caller"
  BY <1>1
<1>4. Tells(t)
  <2>1. CASE take
    <3>1. t.owner = [owner EXCEPT ![d] = "nobody"] /\ t.spent = spent \cup {d} /\ t.told = told
      BY <1>2, <2>1
    <3> QED
      BY <1>1, <1>3, <3>1 DEF Tells
  <2>2. CASE ~take
    <3>1. t.owner = owner /\ t.spent = spent /\ t.told = told
      BY <1>2, <2>2
    <3> QED
      BY <1>1, <3>1 DEF Tells
  <2> QED
    BY <2>1, <2>2
<1>5. Owners(t) /\ Mappings(t) /\ ~t.twice /\ (t.fs # Dev!NoFs => t.device[t.fs.dev] # "none")
  BY <1>2 DEF Good, Owners, Mappings
<1>6. Good(t)
  BY <1>2, <1>4, <1>5 DEF Good
<1> QED
  BY <1>6 DEF t

-----------------------------------------------------------------------------
\* whefs_mkfs and whefs_openfs have made a device.
LEMMA OpenedGood ==
  ASSUME DeviceInv, fs = Dev!NoFs, NEW d \in Dev!Unused, NEW is \in {"file", "memory"},
         NEW rw \in BOOLEAN,
         Dev!DeviceAssumption
  PROVE  /\ Good(Dev!Opened(d, is, rw)) /\ Dev!Opened(d, is, rw).fs # Dev!NoFs
         /\ Good([Dev!FinalizeDev(Dev!Opened(d, is, rw), d) EXCEPT !.fs = Dev!NoFs])
<1> DEFINE h == [Dev!NoFs EXCEPT !.dev = d, !.owns = TRUE, !.rw = rw, !.fileno = (is = "file")]
           o == Dev!Opened(d, is, rw)
           g == [Dev!FinalizeDev(o, d) EXCEPT !.fs = Dev!NoFs]
<1>1. d \in Disks /\ device[d] = "none" /\ owner[d] = "nobody" /\ d # "none"
  BY DEF Dev!Unused, DeviceInv, Good, Owners, Dev!State, Dev!DeviceAssumption
<1>2. h \in DevHandle /\ h # Dev!NoFs /\ h.dev = d /\ h.owns /\ ~h.proxy
  BY <1>1, NoDevHandle DEF DevHandle, Dev!NoFs
<1>3. Dev!State \in DeviceStates /\ Dev!State.device = device /\ Dev!State.owner = owner
      /\ Dev!State.fs = Dev!NoFs
      /\ Dev!State.mapped = mapped /\ Dev!State.lost = lostMaps /\ Dev!State.twice = again
      /\ Dev!State.told = told /\ Dev!State.spent = spent
  BY DEF DeviceInv, Good, Dev!State
<1>4. o.device = [device EXCEPT ![d] = is] /\ o.owner = [owner EXCEPT ![d] = "fs"]
      /\ o.fs = h /\ o.mapped = mapped /\ o.lost = lostMaps /\ o.twice = again /\ o \in DeviceStates
      /\ o.told = [told EXCEPT ![d] = "fs"] /\ o.spent = spent \ {d}
  BY <1>1, <1>2, <1>3 DEF Dev!Opened, Dev!State, DeviceStates
<1>5. \A e \in Disks : owner[e] # "fs"
  BY <1>3, <1>1 DEF DeviceInv, Good, Owners, Dev!NoFs, Dev!DeviceAssumption
<1>6. mapped = lostMaps /\ ~again
  BY <1>3 DEF DeviceInv, Good, Mappings, Dev!NoFs, DeviceStates
<1>7. Owners(o)
  BY <1>1, <1>2, <1>3, <1>4, <1>5 DEF Owners, DeviceInv, Good, DeviceStates
<1>11. /\ told \in [Disks -> {"nobody", "caller", "fs"}]
       /\ owner \in [Disks -> {"nobody", "caller", "fs"}]
       /\ device \in [Disks -> {"none", "file", "memory"}]
       /\ \A e \in Disks : IF e \in spent THEN owner[e] = "nobody" /\ told[e] = "caller"
                           ELSE told[e] = owner[e]
  BY <1>3 DEF DeviceInv, Good, DeviceStates, Tells
<1>12. Tells(o)
  BY <1>1, <1>4, <1>11 DEF Tells
<1>8. Good(o)
  BY <1>1, <1>2, <1>3, <1>4, <1>6, <1>7, <1>12 DEF Good, Mappings, DeviceStates
<1>9. g.device = [device EXCEPT ![d] = "none"] /\ g.owner = [owner EXCEPT ![d] = "nobody"]
      /\ g.fs = Dev!NoFs /\ g.mapped = mapped /\ g.lost = lostMaps /\ ~g.twice /\ g \in DeviceStates
      /\ g.told = [told EXCEPT ![d] = "nobody"] /\ g.spent = spent \ {d}
  BY <1>1, <1>3, <1>4, <1>6 DEF Dev!FinalizeDev, DeviceStates
<1>10. g.device = device /\ g.owner = owner
  BY <1>1, <1>9, <1>11
<1>13. Owners(g) /\ Mappings(g)
  BY <1>3, <1>9, <1>10 DEF DeviceInv, Good, Owners, Mappings
<1>14. Tells(g)
  <2> HIDE DEF g
  <2>1. \A e \in Disks : e # d => g.told[e] = told[e] /\ (e \in g.spent <=> e \in spent)
    BY <1>9, <1>11
  <2>2. g.told[d] = "nobody" /\ d \notin g.spent
    BY <1>1, <1>9, <1>11
  <2> QED
    BY <1>1, <1>10, <1>11, <2>1, <2>2 DEF Tells
<1>15. Good(g)
  BY <1>9, <1>13, <1>14 DEF Good
<1> QED
  BY <1>2, <1>4, <1>8, <1>15

\* A handle works on a device of the caller, and has it or not.
LEMMA TakenGood ==
  ASSUME DeviceInv, fs = Dev!NoFs, NEW d \in Disks, owner[d] = "caller", NEW take \in BOOLEAN,
         NEW h \in DevHandle, h.dev = d, h.owns = take, ~h.proxy, Dev!DeviceAssumption
  PROVE  Good(Dev!Taken([Dev!State EXCEPT !.fs = h], d, take))
<1> DEFINE t == Dev!Taken([Dev!State EXCEPT !.fs = h], d, take)
<1>1. Dev!State \in DeviceStates /\ Dev!State.device = device /\ Dev!State.owner = owner
      /\ Dev!State.fs = Dev!NoFs
      /\ Dev!State.mapped = mapped /\ Dev!State.lost = lostMaps /\ Dev!State.twice = again
      /\ Dev!State.told = told /\ Dev!State.spent = spent
  BY DEF DeviceInv, Good, Dev!State
<1>2. t.owner = [owner EXCEPT ![d] = IF take THEN "fs" ELSE "caller"] /\ t.fs = h
      /\ t.device = device /\ t.mapped = mapped /\ t.lost = lostMaps /\ t.twice = again
      /\ t.told = [told EXCEPT ![d] = IF take THEN "fs" ELSE "caller"] /\ t.spent = spent
      /\ t \in DeviceStates
  BY <1>1 DEF Dev!Taken, DeviceStates
<1>3. \A e \in Disks : owner[e] # "fs"
  BY <1>1 DEF DeviceInv, Good, Owners, Dev!NoFs, Dev!DeviceAssumption
<1>4. mapped = lostMaps /\ ~again
  BY <1>1 DEF DeviceInv, Good, Mappings, Dev!NoFs, DeviceStates
<1>5. Owners(t)
  BY <1>1, <1>2, <1>3 DEF Owners, DeviceInv, Good, DeviceStates
<1>6. Mappings(t)
  BY <1>1, <1>2, <1>4 DEF Mappings, DeviceStates
<1>7. t.device[t.fs.dev] # "none"
  BY <1>1, <1>2 DEF Good, Owners, DeviceInv
<1>8. Tells(t)
  <2>1. Tells(Dev!State) /\ d \notin spent
    BY <1>1 DEF DeviceInv, Good, Tells
  <2> QED
    BY <1>1, <1>2, <2>1 DEF Tells, DeviceStates
<1> QED
  BY <1>2, <1>4, <1>5, <1>6, <1>7, <1>8 DEF Good

-----------------------------------------------------------------------------
LEMMA DeviceInitInv == Dev!DeviceAssumption /\ Dev!Init => DeviceInv
<1> SUFFICES ASSUME Dev!DeviceAssumption, Dev!Init PROVE DeviceInv
  OBVIOUS
<1>1. Dev!State \in DeviceStates
  BY DEF Dev!Init, Dev!State, DeviceStates
<1>2. Owners(Dev!State)
  BY DEF Dev!Init, Dev!State, Owners, Dev!NoFs
<1>3. Mappings(Dev!State)
  BY DEF Dev!Init, Dev!State, Mappings, Dev!NoFs
<1>4. Tells(Dev!State)
  BY DEF Dev!Init, Dev!State, Tells
<1> QED
  BY <1>1, <1>2, <1>3, <1>4 DEF Dev!Init, Dev!State, DeviceInv, Good

LEMMA DeviceNextInv ==
  ASSUME Dev!DeviceAssumption, DeviceInv, [Dev!Next]_Dev!vars
  PROVE  DeviceInv'
<1> Good(Dev!State) /\ Dev!State.fs = fs /\ Dev!State.device = device /\ Dev!State.owner = owner
  BY DEF DeviceInv, Dev!State
<1>1. CASE Dev!Finalize
  BY <1>1, FinalizedGood, Becomes DEF Dev!Finalize
<1>2. CASE Dev!Mkfs
  <2>1. PICK d \in Dev!Unused, is \in {"file", "memory"} :
          LET s == Dev!Opened(d, is, TRUE)
          IN \/ Dev!Become(Dev!State)
             \/ is = "file" /\ Dev!Become([Dev!FinalizeDev(s, d) EXCEPT !.fs = Dev!NoFs])
             \/ Dev!Become(Dev!Finalized(s))
             \/ \E t \in Dev!Connect(s) : Dev!Become(t)
    BY <1>2 DEF Dev!Mkfs
  <2> DEFINE s == Dev!Opened(d, is, TRUE)
  <2>2. Good(s) /\ s.fs # Dev!NoFs /\ Good([Dev!FinalizeDev(s, d) EXCEPT !.fs = Dev!NoFs])
    BY <1>2, OpenedGood DEF Dev!Mkfs
  <2>3. Good(Dev!Finalized(s)) /\ \A t \in Dev!Connect(s) : Good(t)
    BY <2>2, FinalizedGood, ConnectGood
  <2> QED
    BY <2>1, <2>2, <2>3, Becomes
<1>3. CASE Dev!MkfsDev
  <2>1. PICK d \in Disks, take \in BOOLEAN :
          /\ owner[d] = "caller"
          /\ LET s == [Dev!State EXCEPT
                      !.fs = [Dev!NoFs EXCEPT !.dev = d, !.owns = Dev!MkfsOwns(take),
                                                        !.rw = TRUE]]
             IN \/ Dev!Become(Dev!State)
                \/ Dev!Become(Dev!Failed(Dev!Finalized(s)))
                \/ \E t \in Dev!Connect([Dev!Taken(s, d, take) EXCEPT !.fs.owns = take]) :
                     Dev!Become(t)
    BY <1>3 DEF Dev!MkfsDev
  <2> DEFINE h(own) == [Dev!NoFs EXCEPT !.dev = d, !.owns = own, !.rw = TRUE]
             s == [Dev!State EXCEPT !.fs = h(FALSE)]
             t0 == [Dev!Taken(s, d, take) EXCEPT !.fs.owns = take]
  <2>2. \A own \in BOOLEAN : h(own) \in DevHandle /\ h(own).dev = d /\ h(own).owns = own
                             /\ ~h(own).proxy /\ h(own) # Dev!NoFs
    BY NoDevHandle DEF DevHandle, Dev!NoFs
  <2>3. Dev!State \in DeviceStates /\ s \in DeviceStates /\ s.fs = h(FALSE) /\ s.owner = owner
        /\ s.device = device /\ s.told = told /\ s.spent = spent
    BY <2>2 DEF Good, DeviceStates, Dev!State
  <2>4. Dev!Taken(s, d, FALSE) = s
    <3>1. [s.owner EXCEPT ![d] = "caller"] = s.owner /\ [s.told EXCEPT ![d] = "caller"] = s.told
      <4>1. Tells(Dev!State) /\ Dev!State.told = told /\ Dev!State.spent = spent
        BY DEF Good, Dev!State
      <4>2. told[d] = "caller"
        BY <2>1, <4>1 DEF Tells
      <4> QED
        BY <2>1, <2>3, <4>2 DEF DeviceStates
    <3>2. Dev!Taken(s, d, FALSE) = [s EXCEPT !.owner = [s.owner EXCEPT ![d] = "caller"],
                                             !.told = [s.told EXCEPT ![d] = "caller"]]
      BY <2>3 DEF Dev!Taken, DeviceStates
    <3> QED
      BY <3>1, <3>2, <2>3 DEF DeviceStates
  <2>5. Good(s) /\ s.fs # Dev!NoFs /\ ~s.fs.owns
    <3>1. Good(Dev!Taken(s, d, FALSE))
      BY <1>3, <2>1, <2>2, TakenGood DEF Dev!MkfsDev
    <3> QED
      BY <3>1, <2>2, <2>3, <2>4
  <2>6. Good(Dev!Finalized(s)) /\ Dev!Finalized(s).owner = owner /\ Dev!Finalized(s).spent = spent
    BY <2>3, <2>5, FinalizedGood
  <2>7. Good(Dev!Failed(Dev!Finalized(s)))
    <3> DEFINE f == Dev!Finalized(s)
    <3>1. Good(Dev!Failed([f EXCEPT !.spent = IF FALSE THEN @ \cup {d} ELSE @]))
      BY <2>1, <2>6, FailedGood
    <3>2. [f EXCEPT !.spent = IF FALSE THEN @ \cup {d} ELSE @] = f
      BY <2>6 DEF Good, DeviceStates
    <3> QED
      BY <3>1, <3>2
  <2>8. t0 = Dev!Taken([Dev!State EXCEPT !.fs = h(take)], d, take)
    <3> DEFINE whose == IF take THEN "fs" ELSE "caller"
               a == [Dev!State EXCEPT !.fs = h(take)]
    <3>1. /\ Dev!Taken(s, d, take) = [s EXCEPT !.owner[d] = whose, !.told[d] = whose]
          /\ Dev!Taken(a, d, take) = [a EXCEPT !.owner[d] = whose, !.told[d] = whose]
      BY DEF Dev!Taken
    <3>2. [h(FALSE) EXCEPT !.owns = take] = h(take)
      BY DEF Dev!NoFs
    <3> HIDE DEF h, whose
    <3>3. /\ Dev!State \in DeviceStates /\ h(FALSE) \in DevHandle /\ h(take) \in DevHandle
          /\ whose \in {"nobody", "caller", "fs"}
      BY <2>2 DEF Good, whose
    <3> DEFINE x == [s EXCEPT !.owner[d] = whose, !.told[d] = whose]
                 y == [a EXCEPT !.owner[d] = whose, !.told[d] = whose]
    <3>5. /\ x \in DeviceStates /\ x.owner = [owner EXCEPT ![d] = whose] /\ x.fs = h(FALSE)
          /\ x.told = [told EXCEPT ![d] = whose] /\ x.device = device /\ x.mapped = mapped
          /\ x.lost = lostMaps /\ x.twice = again /\ x.spent = spent
      BY <3>3 DEF DeviceStates, Dev!State
    <3>6. /\ y \in DeviceStates /\ y.owner = [owner EXCEPT ![d] = whose] /\ y.fs = h(take)
          /\ y.told = [told EXCEPT ![d] = whose] /\ y.device = device /\ y.mapped = mapped
          /\ y.lost = lostMaps /\ y.twice = again /\ y.spent = spent
      BY <3>3 DEF DeviceStates, Dev!State
    <3>7. t0 = [x EXCEPT !.fs.owns = take]
      BY <3>1
    <3> HIDE DEF x, y, t0
    <3>8. [x EXCEPT !.fs.owns = take] = y
      <4>1. [x EXCEPT !.fs.owns = take] = [x EXCEPT !.fs = h(take)]
        BY <3>2, <3>3, <3>5 DEF DeviceStates
      <4>2. [x EXCEPT !.fs = h(take)] = y
        BY <3>3, <3>5, <3>6 DEF DeviceStates
      <4> QED
        BY <4>1, <4>2
    <3>9. Dev!Taken(a, d, take) = y
      BY <3>1 DEF y
    <3> QED
      BY <3>7, <3>8, <3>9
  <2>9. Good(t0) /\ t0.fs # Dev!NoFs
    <3>1. Good(Dev!Taken([Dev!State EXCEPT !.fs = h(take)], d, take))
      BY <1>3, <2>1, <2>2, TakenGood DEF Dev!MkfsDev
    <3>2. Dev!Taken([Dev!State EXCEPT !.fs = h(take)], d, take).fs = h(take)
      BY <2>2, <2>3 DEF Dev!Taken, Dev!State
    <3> QED
      BY <3>1, <3>2, <2>2, <2>8
  <2>10. \A t \in Dev!Connect(t0) : Good(t)
    BY <2>9, ConnectGood
  <2> QED
    BY <2>1, <2>6, <2>7, <2>10, Becomes DEF Dev!MkfsOwns
<1>4. CASE Dev!OpenFs
  <2>1. PICK d \in Dev!Unused, rw \in BOOLEAN :
          LET s == Dev!Opened(d, "file", rw)
          IN \/ Dev!Become(Dev!State)
             \/ Dev!Become([Dev!FinalizeDev(s, d) EXCEPT !.fs = Dev!NoFs])
             \/ Dev!Become(Dev!Finalized(s))
             \/ \E t \in Dev!Connect(s) : Dev!Become(t)
    BY <1>4 DEF Dev!OpenFs
  <2> DEFINE s == Dev!Opened(d, "file", rw)
  <2>2. Good(s) /\ s.fs # Dev!NoFs /\ Good([Dev!FinalizeDev(s, d) EXCEPT !.fs = Dev!NoFs])
    BY <1>4, OpenedGood DEF Dev!OpenFs
  <2>3. Good(Dev!Finalized(s)) /\ \A t \in Dev!Connect(s) : Good(t)
    BY <2>2, FinalizedGood, ConnectGood
  <2> QED
    BY <2>1, <2>2, <2>3, Becomes
<1>5. CASE Dev!OpenFsDev
  <2>1. PICK d \in Disks, take \in BOOLEAN :
          /\ owner[d] = "caller"
          /\ LET s == Dev!Taken([Dev!State EXCEPT !.fs =
                               [Dev!NoFs EXCEPT !.dev = d, !.owns = take, !.rw = TRUE,
                                            !.fileno = (device[d] = "file")]], d, take)
             IN \/ Dev!Become(Dev!State)
                \/ Dev!Become(Dev!Failed([Dev!Finalized(s) EXCEPT
                                          !.spent = IF take THEN @ \cup {d} ELSE @]))
                \/ \E t \in Dev!Connect(s) : Dev!Become(t)
    BY <1>5 DEF Dev!OpenFsDev
  <2> DEFINE h == [Dev!NoFs EXCEPT !.dev = d, !.owns = take, !.rw = TRUE,
                               !.fileno = (device[d] = "file")]
             s == Dev!Taken([Dev!State EXCEPT !.fs = h], d, take)
  <2>2. h \in DevHandle /\ h.dev = d /\ h.owns = take /\ ~h.proxy /\ h # Dev!NoFs
    BY NoDevHandle DEF DevHandle, Dev!NoFs
  <2>3. Good(s)
    BY <1>5, <2>1, <2>2, TakenGood DEF Dev!OpenFsDev
  <2>4. s.fs # Dev!NoFs /\ s.fs = h /\ s.spent = spent
        /\ s.owner = [owner EXCEPT ![d] = IF take THEN "fs" ELSE "caller"]
    BY <2>2 DEF Dev!Taken, Dev!State
  <2>5. Good(Dev!Finalized(s)) /\ \A t \in Dev!Connect(s) : Good(t)
    BY <2>3, <2>4, FinalizedGood, ConnectGood
  <2>6. /\ Dev!Finalized(s).spent = s.spent
        /\ Dev!Finalized(s).owner = IF s.fs.owns THEN [s.owner EXCEPT ![s.fs.dev] = "nobody"]
                                    ELSE s.owner
    BY <2>3, <2>4, FinalizedGood
  <2>7. /\ Dev!Finalized(s).spent = spent
        /\ Dev!Finalized(s).owner = IF take THEN [owner EXCEPT ![d] = "nobody"] ELSE owner
    <3>1. owner \in [Disks -> {"nobody", "caller", "fs"}]
      BY DEF Good, DeviceStates
    <3>2. s.fs.owns = take /\ s.fs.dev = d
      BY <2>2, <2>4
    <3> HIDE DEF s, h
    <3>3. CASE take
      <4>1. Dev!Finalized(s).owner = [s.owner EXCEPT ![d] = "nobody"]
        BY <2>6, <3>2, <3>3
      <4>2. s.owner = [owner EXCEPT ![d] = "fs"]
        BY <2>4, <3>3
      <4>3. Dev!Finalized(s).owner = [owner EXCEPT ![d] = "nobody"]
        BY <2>1, <3>1, <4>1, <4>2
      <4> QED
        BY <2>4, <2>6, <3>3, <4>3
    <3>4. CASE ~take
      <4>1. Dev!Finalized(s).owner = s.owner /\ s.owner = [owner EXCEPT ![d] = "caller"]
        BY <2>4, <2>6, <3>2, <3>4
      <4>2. s.owner = owner
        BY <2>1, <3>1, <4>1
      <4> QED
        BY <2>4, <2>6, <3>4, <4>1, <4>2
    <3> QED
      BY <3>3, <3>4
  <2>8. Good(Dev!Failed([Dev!Finalized(s) EXCEPT !.spent = IF take THEN @ \cup {d} ELSE @]))
    BY <2>1, <2>5, <2>7, FailedGood
  <2> QED
    BY <2>1, <2>5, <2>8, Becomes
<1>6. CASE Dev!AppendBlocks
  <2>1. fs # Dev!NoFs
    BY <1>6 DEF Dev!AppendBlocks, Dev!NoFs
  <2>2. Good(Dev!Disconnect(Dev!State)) /\ Dev!Disconnect(Dev!State).fs # Dev!NoFs
    BY <2>1, DisconnectGood
  <2> QED
    BY <1>6, <2>2, ConnectGood, Becomes DEF Dev!AppendBlocks
<1>7. CASE Dev!NewDevice
  <2>1. PICK d \in Dev!Unused, is \in {"file", "memory"} :
          Dev!Become([Dev!State EXCEPT !.device[d] = is, !.owner[d] = "caller",
                                       !.told[d] = "caller", !.spent = @ \ {d}])
    BY <1>7 DEF Dev!NewDevice
  <2> DEFINE t == [Dev!State EXCEPT !.device[d] = is, !.owner[d] = "caller",
                                    !.told[d] = "caller", !.spent = @ \ {d}]
  <2>2. d \in Disks /\ device[d] = "none" /\ owner[d] = "nobody"
    BY DEF Dev!Unused, Good, Owners
  <2>3. t.device = [device EXCEPT ![d] = is] /\ t.owner = [owner EXCEPT ![d] = "caller"]
        /\ t.fs = fs /\ t.mapped = mapped /\ t.lost = lostMaps /\ t.twice = again
        /\ t.told = [told EXCEPT ![d] = "caller"] /\ t.spent = spent \ {d}
        /\ t \in DeviceStates
    BY <2>2 DEF Good, Dev!State, DeviceStates
  <2>4. Owners(t) /\ (fs # Dev!NoFs => t.device[fs.dev] # "none")
    BY <2>2, <2>3 DEF Good, Owners, DeviceStates, DevHandle
  <2>5. Mappings(t) /\ ~t.twice
    BY <2>3 DEF Good, Mappings, Dev!State
  <2>6. Tells(t)
    <3>1. Tells(Dev!State) /\ Dev!State.told = told /\ Dev!State.spent = spent
          /\ Dev!State.owner = owner /\ told \in [Disks -> {"nobody", "caller", "fs"}]
          /\ owner \in [Disks -> {"nobody", "caller", "fs"}]
      BY DEF Good, Dev!State, DeviceStates
    <3> QED
      BY <2>2, <2>3, <3>1 DEF Tells
  <2> QED
    BY <2>1, <2>3, <2>4, <2>5, <2>6, Becomes DEF Good
<1>8. CASE Dev!FinalizeDevice
  <2>1. PICK d \in Disks : owner[d] = "caller" /\ fs.dev # d
                             /\ Dev!Become(Dev!FinalizeDev(Dev!State, d))
    BY <1>8 DEF Dev!FinalizeDevice
  <2>2. device[d] # "none"
    BY <2>1 DEF Good, Owners
  <2> QED
    BY <2>1, <2>2, FinalizeDevGood, Becomes
<1>9. CASE UNCHANGED Dev!vars
  BY <1>9 DEF Dev!vars, DeviceInv, Dev!State, Good, DeviceStates, Owners, Tells, Mappings
<1> QED
  BY <1>1, <1>2, <1>3, <1>4, <1>5, <1>6, <1>7, <1>8, <1>9 DEF Dev!Next

LEMMA DeviceInvSound == DeviceInv => Dev!DeviceSound
  BY DEF DeviceInv, Good, Owners, Tells, Mappings, Dev!State, DeviceStates, Dev!DeviceSound,
         Dev!OwnersTold

\* Whatever fails in making, opening and extending a container, a device is finalized
\* once, by the one who owns it, who is the one whefs.h says unless whefs_openfs_dev
\* failed on a device that it was to take, and no mapping outlives its handle but those
\* that are lost (whefs_mkfs_dev, whefs_openfs_dev, whefs_fs_mmap_connect, whefs_fs_finalize).
THEOREM DeviceIsSound == ASSUME Dev!DeviceAssumption PROVE Dev!Spec => []Dev!DeviceSound
<1>1. Dev!Init => DeviceInv
  BY DeviceInitInv
<1>2. DeviceInv /\ [Dev!Next]_Dev!vars => DeviceInv'
  BY DeviceNextInv
<1>3. DeviceInv => Dev!DeviceSound
  BY DeviceInvSound
<1> QED
  BY <1>1, <1>2, <1>3, PTL DEF Dev!Spec

-----------------------------------------------------------------------------
(***************************************************************************)
(* All parts together.                                                     *)
(***************************************************************************)

LEMMA PartsBegin ==
  ASSUME PartsInit
  PROVE  /\ Init
         /\ part = "closing" => Closing!Init
         /\ part = "listing" => Listing!Init
         /\ part = "marking" => Bits!Init
         /\ part = "mapping" => Dev!Init
BY Zenon DEF PartsInit, OthersOff, LayoutOff, Init

\* A step of the program is one of the part whose behaviour this is, and none of the
\* others.
LEMMA PartsStep ==
  ASSUME [PartsNext]_partsVars
  PROVE  /\ part' = part
         /\ [Next]_vars
         /\ part = "closing" => [Closing!Next]_Closing!vars
         /\ part = "listing" => [Listing!Next]_Listing!vars
         /\ part = "marking" => [Bits!Next]_Bits!vars
         /\ part = "mapping" => [Dev!Next]_Dev!vars
<1>1. CASE UNCHANGED partsVars
  BY <1>1 DEF partsVars, ClosingVars, ListingVars, MarkingVars, MappingVars,
              LayoutVars, vars, Closing!vars, Listing!vars, Bits!vars, Dev!vars
<1>2. CASE PartsNext
  BY <1>2 DEF PartsNext, OthersStay, LayoutVars, vars
<1> QED
  BY <1>1, <1>2

\* What is open when a container is closed is closed once, although closing it takes
\* entries out of the list that is gone through (whefs_closers.c, whefs_fs_finalize).
THEOREM ClosedOnceOfParts == PartsSpec => []ClosedOnce
<1> DEFINE IInv0 == part = "closing" => ClosersInv
<1>1. PartsInit => IInv0
  BY PartsBegin, ClosersInitInv, PartsAssumption
<1>2. IInv0 /\ [PartsNext]_partsVars => IInv0'
  BY PartsStep, ClosersNextInv, PartsAssumption
<1>3. IInv0 => ClosedOnce
  BY ClosersInvSound, PartsAssumption DEF ClosedOnce
<1> QED
  BY <1>1, <1>2, <1>3, PTL DEF PartsSpec

\* No two records of a container overlap and none reaches behind its end, and all ways
\* to compute that end lead to the same (whefs_fs_init_sizes, whefs_fs_calculate_size,
\* whefs_mkfs_stage2, whefs_fs_append_blocks, whefs_openfs_stage2).
THEOREM LayoutSoundOfParts == PartsSpec => []LayoutSound
<1>1. PartsInit => IInv
  BY PartsBegin, InitSound
<1>2. IInv /\ [PartsNext]_partsVars => IInv'
  BY PartsStep, NextKeeps, PartsAssumption
<1>3. IInv => LayoutSound
  BY ApartFollows, EndsFollow, PartsAssumption DEF LayoutSound
<1> QED
  BY <1>1, <1>2, <1>3, PTL DEF PartsSpec

\* A listing names what is there, each name without anything of another, in strings that
\* are its own and can be given back (whefs_ls, whefs_fs_entry_foreach,
\* whefs_string_copy_cstring, whefs_string_finalize).  It holds of names of one character,
\* too, for which ListsSound states two exceptions: no 0 behind them, where
\* whefs_string.h:41 wants one, and a match that depends on what is there instead.
THEOREM ListsSoundOfParts == PartsSpec => []ListsSound
<1> DEFINE IInv0 == part = "listing" => ListHeap /\ ListTold
<1>1. PartsInit => IInv0
  BY PartsBegin, ListBegins
<1>2. IInv0 /\ [PartsNext]_partsVars => IInv0'
  BY PartsStep, ListHeapStep, ListToldStep
<1>3. IInv0 => ListsSound
  BY ListsTold, StringsOwned DEF ListsSound, Listing!ListsSound
<1> QED
  BY <1>1, <1>2, <1>3, PTL DEF PartsSpec

\* The bits tell what is in use, as far as transfers did not fail, and no assertion of
\* whefs_details.c about them fails.
THEOREM BitsTrueOfParts == PartsSpec => []BitsTrue
<1> DEFINE IInv0 == part = "marking" => BitsInv
<1>1. PartsInit => IInv0
  BY PartsBegin, BitsInitInv, PartsAssumption
<1>2. IInv0 /\ [PartsNext]_partsVars => IInv0'
  BY PartsStep, BitsNextInv, PartsAssumption
<1>3. IInv0 => BitsTrue
  BY BitsInvTrue, PartsAssumption DEF BitsTrue
<1> QED
  BY <1>1, <1>2, <1>3, PTL DEF PartsSpec

\* A device is finalized once, by the one who owns it (whefs_mkfs_dev, whefs_openfs_dev,
\* whefs_fs_mmap_connect, whefs_fs_finalize).  Who owns it is what whefs.h tells the
\* client, but for the devices that whefs_openfs_dev closes when it fails.
THEOREM DeviceSoundOfParts == PartsSpec => []DeviceSound
<1> DEFINE IInv0 == part = "mapping" => DeviceInv
<1>1. PartsInit => IInv0
  BY PartsBegin, DeviceInitInv, PartsAssumption
<1>2. IInv0 /\ [PartsNext]_partsVars => IInv0'
  BY PartsStep, DeviceNextInv, PartsAssumption
<1>3. IInv0 => DeviceSound
  BY DeviceInvSound DEF DeviceSound
<1> QED
  BY <1>1, <1>2, <1>3, PTL DEF PartsSpec
=============================================================================
