-------------------------- MODULE WhioPartsProofs --------------------------
(***************************************************************************)
(* What is proved of the parts below the container that share no state     *)
(* with others: copies, the pools of objects, the handles to files and     *)
(* memory and fetches.  First of each part by itself, in the order of      *)
(* WhefsParts, then of all of WhefsParts.                                  *)
(***************************************************************************)
EXTENDS Sequences, WhefsParts, WellFoundedInduction, FiniteSetTheorems, SequenceTheorems,
        TLAPS

\* A set of numbers has a least member.
LEMMA LeastExists ==
  ASSUME NEW T, T \subseteq Nat, T # {}
  PROVE  \E m \in T : \A k \in T : m <= k
<1> DEFINE R == {ss \in Nat \X Nat : ss[1] < ss[2]}
<1>1. R = OpToRel(<, Nat)
  BY DEF OpToRel
<1>2. IsWellFoundedOn(R, Nat)
  BY <1>1, NatLessThanWellFounded, Zenon
<1>3. \E x \in T : \A y \in T : ~ (<<y, x>> \in R)
  BY <1>2, WFMin
<1>4. \A x, y \in T : x < y => <<x, y>> \in R
  OBVIOUS
<1> HIDE DEF R
<1>5. PICK m \in T : \A y \in T : ~ (<<y, m>> \in R)
  BY <1>3
<1>6. \A k \in T : ~ (k < m)
  BY <1>4, <1>5
<1> QED
  BY <1>6

-----------------------------------------------------------------------------
(***************************************************************************)
(* The loops that copy.  What is written, what is in the buffer and what   *)
(* zlib holds back follow one another in what should be copied.            *)
(***************************************************************************)

Symbols == Int \cup {End, Bad}

\* s is what T has behind its first m elements.
Runs(s, T, m) ==
  /\ s \in Seq(Symbols) /\ Len(s) \in Nat /\ m + Len(s) <= Len(T)
  /\ \A i \in 1..Len(s) : s[i] = T[m + i]

LEMMA RunsEmpty ==
  ASSUME NEW T \in Seq(Symbols), NEW m \in Nat, m <= Len(T)
  PROVE  Runs(<<>>, T, m)
<1>1. <<>> \in Seq(Symbols) /\ Len(<<>>) = 0
  BY EmptySeq
<1>2. m + 0 <= Len(T)
  OBVIOUS
<1> QED
  BY <1>1, <1>2 DEF Runs

\* A part of a sequence of symbols.
Piece(s, m, n, t) ==
  /\ t \in Seq(Symbols) /\ Len(t) = n - m /\ Len(t) \in Nat
  /\ \A i \in 1..Len(t) : t[i] = s[m + i]

LEMMA PieceIs ==
  ASSUME NEW s \in Seq(Symbols), NEW m \in Nat, NEW n \in Nat, m <= n, n <= Len(s)
  PROVE  Piece(s, m, n, SubSeq(s, m + 1, n))
<1>1. \A i \in (m + 1)..n : s[i] \in Symbols
  BY ElementOfSeq
<1> DEFINE t == SubSeq(s, m + 1, n)
<1>2. /\ t \in Seq(Symbols)
      /\ Len(t) = IF m + 1 <= n THEN n - (m + 1) + 1 ELSE 0
      /\ \A i \in 1..(n - (m + 1) + 1) : t[i] = s[(m + 1) + i - 1]
  BY <1>1, SubSeqProperties
<1> HIDE DEF t
<1>3. Len(t) = n - m /\ Len(t) \in Nat
  BY <1>2
<1>4. \A i \in 1..Len(t) : i \in 1..(n - (m + 1) + 1) /\ (m + 1) + i - 1 = m + i
  BY <1>3
<1>5. \A i \in 1..Len(t) : t[i] = s[m + i]
  BY <1>2, <1>4
<1>6. Piece(s, m, n, t)
  BY <1>2, <1>3, <1>5, Zenon DEF Piece
<1> QED
  BY <1>6, Zenon DEF t

LEMMA PieceFront ==
  ASSUME NEW s \in Seq(Symbols), NEW n \in Nat, n <= Len(s)
  PROVE  Piece(s, 0, n, SubSeq(s, 1, n))
<1>1. Piece(s, 0, n, SubSeq(s, 0 + 1, n))
  BY PieceIs
<1>2. 0 + 1 = 1
  OBVIOUS
<1> QED
  BY <1>1, <1>2

\* What is left of s behind its first n elements, and nothing behind its end.
LEMMA PieceBack ==
  ASSUME NEW s \in Seq(Symbols), NEW n \in Nat, n <= Len(s)
  PROVE  Piece(s, n, Len(s), Copying!From(s, n + 1))
<1>1. Len(s) \in Nat
  OBVIOUS
<1> QED
  BY <1>1, PieceIs DEF Copying!From

\* At most n elements.
LEMMA UptoPiece ==
  ASSUME NEW s \in Seq(Symbols), NEW n \in Nat
  PROVE  \E k \in Nat : /\ k <= Len(s) /\ k <= n /\ (k = n \/ k = Len(s))
                        /\ Piece(s, 0, k, Copying!Upto(s, n))
<1>1. Len(s) \in Nat
  OBVIOUS
<1>2. CASE n < Len(s)
  <2>1. n <= Len(s) /\ n <= n
    BY <1>1, <1>2
  <2>2. Copying!Upto(s, n) = SubSeq(s, 1, n)
    BY <1>2 DEF Copying!Upto
  <2> QED
    BY <2>1, <2>2, PieceFront
<1>3. CASE ~(n < Len(s))
  <2>1. Len(s) <= n /\ Len(s) <= Len(s)
    BY <1>1, <1>3
  <2>2. Copying!Upto(s, n) = s
    BY <1>3 DEF Copying!Upto
  <2>3. \A i \in 1..Len(s) : 0 + i = i
    BY <1>1
  <2>4. Len(s) - 0 = Len(s)
    BY <1>1
  <2>5. Piece(s, 0, Len(s), s)
    BY <1>1, <2>3, <2>4 DEF Piece
  <2> QED
    BY <1>1, <2>1, <2>2, <2>5, Zenon
<1> QED
  BY <1>2, <1>3

LEMMA RunsPiece ==
  ASSUME NEW T \in Seq(Symbols), NEW m \in Nat, NEW s, Runs(s, T, m), NEW k \in Nat,
         NEW n \in Nat, k <= n, n <= Len(s), NEW t, Piece(s, k, n, t)
  PROVE  Runs(t, T, m + k)
<1>1. /\ t \in Seq(Symbols) /\ Len(t) = n - k /\ Len(t) \in Nat
      /\ \A i \in 1..Len(t) : t[i] = s[k + i]
  BY Zenon DEF Piece
<1>2. Len(s) \in Nat /\ m + Len(s) <= Len(T) /\ \A i \in 1..Len(s) : s[i] = T[m + i]
  BY Zenon DEF Runs
<1>3. Len(T) \in Nat
  OBVIOUS
<1>4. (m + k) + Len(t) <= Len(T)
  BY <1>1, <1>2, <1>3
<1>5. ASSUME NEW i \in 1..Len(t) PROVE t[i] = T[(m + k) + i]
  <2>1. k + i \in 1..Len(s) /\ m + (k + i) = (m + k) + i
    BY <1>1, <1>2
  <2>2. t[i] = s[k + i] /\ s[k + i] = T[m + (k + i)]
    BY <1>1, <1>2, <2>1
  <2> QED
    BY <2>1, <2>2
<1> QED
  BY <1>1, <1>4, <1>5 DEF Runs

LEMMA RunsJoin ==
  ASSUME NEW T \in Seq(Symbols), NEW m \in Nat, NEW s \in Seq(Symbols),
         NEW t \in Seq(Symbols), Runs(s, T, m), Runs(t, T, m + Len(s))
  PROVE  Runs(s \o t, T, m) /\ Len(s \o t) = Len(s) + Len(t)
<1>1. s \in Seq(Symbols) /\ Len(s) \in Nat /\ \A i \in 1..Len(s) : s[i] = T[m + i]
  BY Zenon DEF Runs
<1>2. /\ t \in Seq(Symbols) /\ Len(t) \in Nat /\ (m + Len(s)) + Len(t) <= Len(T)
      /\ \A i \in 1..Len(t) : t[i] = T[(m + Len(s)) + i]
  BY Zenon DEF Runs
<1> DEFINE u == s \o t
<1>3. /\ u \in Seq(Symbols) /\ Len(u) = Len(s) + Len(t)
      /\ \A i \in 1..(Len(s) + Len(t)) :
           u[i] = IF i <= Len(s) THEN s[i] ELSE t[i - Len(s)]
  BY <1>1, <1>2, ConcatProperties
<1> HIDE DEF u
<1>4. Len(T) \in Nat
  OBVIOUS
<1>5. m + Len(u) <= Len(T) /\ Len(u) \in Nat
  BY <1>1, <1>2, <1>3, <1>4
<1>6. ASSUME NEW i \in 1..Len(u) PROVE u[i] = T[m + i]
  <2>1. i \in 1..(Len(s) + Len(t))
    BY <1>3
  <2>2. CASE i <= Len(s)
    <3>1. i \in 1..Len(s)
      BY <1>1, <2>2
    <3> QED
      BY <1>1, <1>3, <2>1, <2>2, <3>1
  <2>3. CASE ~(i <= Len(s))
    <3>1. i - Len(s) \in 1..Len(t) /\ (m + Len(s)) + (i - Len(s)) = m + i
      BY <1>1, <1>2, <1>3, <2>3
    <3>2. u[i] = t[i - Len(s)]
      BY <1>3, <2>1, <2>3
    <3>3. t[i - Len(s)] = T[(m + Len(s)) + (i - Len(s))]
      BY <1>2, <3>1
    <3> QED
      BY <3>1, <3>2, <3>3
  <2> QED
    BY <2>2, <2>3
<1> QED
  BY <1>3, <1>5, <1>6 DEF Runs, u

LEMMA RunsWhole ==
  ASSUME NEW T \in Seq(Symbols), NEW s, Runs(s, T, 0), Len(s) = Len(T)
  PROVE  s = T
<1>1. s \in Seq(Symbols) /\ Len(s) \in Nat /\ \A i \in 1..Len(s) : s[i] = T[0 + i]
  BY Zenon DEF Runs
<1>2. \A i \in 1..Len(s) : 0 + i = i
  BY <1>1
<1>3. \A i \in 1..Len(s) : s[i] = T[i]
  BY <1>1, <1>2
<1> QED
  BY <1>1, <1>3, SeqEqual

\* What InOrder asks for.
LEMMA RunsPrefix ==
  ASSUME NEW T \in Seq(Symbols), NEW s, Runs(s, T, 0)
  PROVE  Copying!IsPrefix(s, T)
<1>1. s \in Seq(Symbols) /\ Len(s) \in Nat /\ 0 + Len(s) <= Len(T)
      /\ \A i \in 1..Len(s) : s[i] = T[0 + i]
  BY Zenon DEF Runs
<1>2. Len(s) <= Len(T) /\ Len(s) <= Len(s)
  BY <1>1
<1> DEFINE t == SubSeq(T, 1, Len(s))
           u == SubSeq(s, 1, Len(s))
<1>3. Piece(T, 0, Len(s), t) /\ Piece(s, 0, Len(s), u)
  BY <1>1, <1>2, PieceFront
<1> HIDE DEF t, u
<1>4. /\ t \in Seq(Symbols) /\ Len(t) = Len(s) - 0 /\ \A i \in 1..Len(t) : t[i] = T[0 + i]
      /\ u \in Seq(Symbols) /\ Len(u) = Len(s) - 0 /\ \A i \in 1..Len(u) : u[i] = s[0 + i]
  BY <1>3, Zenon DEF Piece
<1>5. Len(s) - 0 = Len(s) /\ \A i \in 1..Len(s) : 0 + i = i
  BY <1>1
<1>6. Len(u) = Len(t) /\ \A i \in 1..Len(u) : u[i] = t[i]
  BY <1>1, <1>4, <1>5
<1>7. u = t
  BY <1>4, <1>6, SeqEqual
<1> QED
  BY <1>2, <1>7, Zenon DEF Copying!IsPrefix, t, u

\* What a write leaves: e is the destination and w how much of it is written, where
\* they were d and v; n elements of s were taken.
Wrote(d, v, n, e, w) ==
  /\ w = v + n /\ e \in Seq(Symbols) /\ w \in Nat /\ w <= Len(e)
  /\ Len(e) = (IF w <= Len(d) THEN Len(d) ELSE w)

LEMMA WriteIs ==
  ASSUME NEW d \in Seq(Symbols), NEW v \in Nat, v <= Len(d), NEW T \in Seq(Symbols),
         Runs(SubSeq(d, 1, v), T, 0), NEW s, Runs(s, T, v), NEW n \in 0..Len(s),
         NEW e, e = SubSeq(d, 1, v) \o SubSeq(s, 1, n) \o Copying!From(d, v + n + 1)
  PROVE  Wrote(d, v, n, e, v + n) /\ Runs(SubSeq(e, 1, v + n), T, 0)
<1> DEFINE h == SubSeq(d, 1, v)
           t == SubSeq(s, 1, n)
           b == Copying!From(d, v + n + 1)
           g == h \o t
           w == v + n
<1>1. s \in Seq(Symbols) /\ Len(s) \in Nat /\ n \in Nat /\ n <= Len(s) /\ Len(d) \in Nat
  BY DEF Runs
<1>2. Piece(d, 0, v, h)
  BY PieceFront
<1>3. Piece(s, 0, n, t)
  BY <1>1, PieceFront
<1>4. Runs(h, T, 0)
  OBVIOUS
<1>5. w \in Nat /\ w + 1 = v + n + 1
  BY <1>1
<1>6. /\ b \in Seq(Symbols) /\ Len(b) \in Nat
      /\ Len(b) = (IF w <= Len(d) THEN Len(d) - w ELSE 0)
  <2>1. CASE w <= Len(d)
    <3>1. Piece(d, w, Len(d), Copying!From(d, w + 1))
      BY <1>5, <2>1, PieceBack
    <3>2. b = Copying!From(d, w + 1)
      BY <1>5
    <3>3. Piece(d, w, Len(d), b)
      BY <3>1, <3>2, Zenon
    <3> HIDE DEF b
    <3> QED
      BY <2>1, <3>3 DEF Piece
  <2>2. CASE ~(w <= Len(d))
    <3>1. Len(d) < v + n + 1 /\ v + n + 1 \in Int /\ Len(d) \in Int
      BY <1>1, <1>5, <2>2
    <3>2. b = <<>>
      BY <3>1, SubSeqEmpty DEF Copying!From
    <3>3. <<>> \in Seq(Symbols) /\ Len(<<>>) = 0
      BY EmptySeq
    <3> HIDE DEF b
    <3> QED
      BY <2>2, <3>2, <3>3
  <2> QED
    BY <2>1, <2>2
<1>7. e = g \o b
  OBVIOUS
<1> HIDE DEF h, t, b, w
<1>8. h \in Seq(Symbols) /\ Len(h) = v
  BY <1>2 DEF Piece
<1>9. t \in Seq(Symbols) /\ Len(t) = n
  BY <1>1, <1>3 DEF Piece
<1>10. Runs(t, T, v)
  <2>1. Runs(t, T, v + 0)
    BY <1>1, <1>3, RunsPiece
  <2>2. v + 0 = v
    OBVIOUS
  <2> QED
    BY <2>1, <2>2
<1>11. Runs(g, T, 0) /\ Len(g) = v + n
  <2>1. 0 + Len(h) = v
    BY <1>8
  <2>2. Runs(t, T, 0 + Len(h))
    BY <1>10, <2>1
  <2>3. Runs(h \o t, T, 0) /\ Len(h \o t) = Len(h) + Len(t)
    <3>1. \A m \in Nat, s1, s2 \in Seq(Symbols) :
            Runs(s1, T, m) /\ Runs(s2, T, m + Len(s1)) =>
              Runs(s1 \o s2, T, m) /\ Len(s1 \o s2) = Len(s1) + Len(s2)
      BY RunsJoin
    <3>2. 0 \in Nat
      OBVIOUS
    <3>3. h \in Seq(Symbols) /\ t \in Seq(Symbols)
      BY <1>8, <1>9
    <3> QED
      BY <1>4, <2>2, <3>1, <3>2, <3>3, Zenon
  <2> QED
    BY <1>8, <1>9, <2>3
<1> HIDE DEF g
<1>12. g \in Seq(Symbols) /\ Len(g) = w
  BY <1>11 DEF Runs, w
<1>13. /\ e \in Seq(Symbols) /\ Len(e) = Len(g) + Len(b)
       /\ \A i \in 1..(Len(g) + Len(b)) : e[i] = IF i <= Len(g) THEN g[i] ELSE b[i - Len(g)]
  <2> DEFINE u == g \o b
  <2>1. /\ u \in Seq(Symbols) /\ Len(u) = Len(g) + Len(b)
        /\ \A i \in 1..(Len(g) + Len(b)) : u[i] = IF i <= Len(g) THEN g[i] ELSE b[i - Len(g)]
    BY <1>6, <1>12, ConcatProperties
  <2> HIDE DEF u
  <2>2. e = u
    BY <1>7 DEF u
  <2> QED
    BY <2>1, <2>2
<1>14. w <= Len(e) /\ Len(e) = (IF w <= Len(d) THEN Len(d) ELSE w)
  BY <1>1, <1>5, <1>6, <1>12, <1>13
<1>15. SubSeq(e, 1, w) = g
  <2> DEFINE u == SubSeq(e, 1, w)
  <2>1. Piece(e, 0, w, u)
    BY <1>5, <1>13, <1>14, PieceFront
  <2> HIDE DEF u
  <2>2. u \in Seq(Symbols) /\ Len(u) = w - 0 /\ \A i \in 1..Len(u) : u[i] = e[0 + i]
    BY <2>1, Zenon DEF Piece
  <2>3. Len(u) = Len(g)
    BY <1>5, <1>12, <2>2
  <2>4. ASSUME NEW i \in 1..Len(u) PROVE u[i] = g[i]
    <3>1. i \in 1..(Len(g) + Len(b)) /\ i <= Len(g) /\ 0 + i = i
      BY <1>5, <1>6, <1>12, <2>3
    <3> QED
      BY <1>13, <2>2, <3>1
  <2>5. u = g
    BY <1>12, <2>2, <2>3, <2>4, SeqEqual
  <2> QED
    BY <2>5 DEF u
<1>16. Wrote(d, v, n, e, w)
  BY <1>5, <1>13, <1>14 DEF Wrote, w
<1> QED
  BY <1>11, <1>15, <1>16 DEF w

\* The first v elements of d are the beginning of T.
Begun(T, d, v) ==
  /\ d \in Seq(Symbols) /\ v \in Nat /\ v <= Len(d)
  /\ Runs(SubSeq(d, 1, v), T, 0)

\* How much of s was written.
Put(s, n) ==
  /\ n \in 0..Len(s) /\ written' = written + n
  /\ written' <= Len(dest')
  /\ Len(dest') = (IF written' <= Len(dest) THEN Len(dest) ELSE written')

LEMMA PutStep ==
  ASSUME NEW T \in Seq(Symbols), Begun(T, dest, written), NEW s, Runs(s, T, written),
         NEW whole \in BOOLEAN, Copying!Put(s, whole)
  PROVE  /\ Begun(T, dest', written') /\ faults' = (faults \/ ~whole)
         /\ \E n : Put(s, n) /\ whole = (n = Len(s))
<1>1. PICK n \in 0..Len(s) :
        /\ whole = (n = Len(s)) /\ faults' = (faults \/ ~whole) /\ written' = written + n
        /\ dest' = SubSeq(dest, 1, written) \o SubSeq(s, 1, n)
                     \o Copying!From(dest, written + n + 1)
  BY Zenon DEF Copying!Put, Copying!Written
<1>2. /\ dest \in Seq(Symbols) /\ written \in Nat /\ written <= Len(dest)
      /\ Runs(SubSeq(dest, 1, written), T, 0)
  BY Zenon DEF Begun
<1>3. /\ Wrote(dest, written, n, dest', written + n)
      /\ Runs(SubSeq(dest', 1, written + n), T, 0)
  BY <1>1, <1>2, WriteIs
<1>4. Wrote(dest, written, n, dest', written') /\ Runs(SubSeq(dest', 1, written'), T, 0)
  BY <1>1, <1>3
<1>5. dest' \in Seq(Symbols) /\ written' \in Nat /\ written' <= Len(dest')
  BY <1>4, Zenon DEF Wrote
<1>6. Begun(T, dest', written')
  BY <1>4, <1>5, Zenon DEF Begun
<1>7. Put(s, n)
  BY <1>1, <1>4, <1>5, Zenon DEF Put, Wrote
<1> QED
  BY <1>1, <1>6, <1>7, Zenon

\* Nothing is written yet.
LEMMA BegunEmpty ==
  ASSUME NEW T \in Seq(Symbols), NEW d \in Seq(Symbols)
  PROVE  Begun(T, d, 0)
<1>1. SubSeq(d, 1, 0) = <<>>
  BY SubSeqEmpty
<1>2. Runs(<<>>, T, 0)
  <2>1. 0 \in Nat /\ 0 <= Len(T)
    OBVIOUS
  <2> QED
    BY <2>1, RunsEmpty
<1>3. 0 \in Nat /\ 0 <= Len(d)
  OBVIOUS
<1> QED
  BY <1>1, <1>2, <1>3, Zenon DEF Begun

\* All is written.
LEMMA BegunWhole ==
  ASSUME NEW T \in Seq(Symbols), NEW d, NEW v, Begun(T, d, v), v = Len(T), Len(d) = v
  PROVE  d = T
<1>1. d \in Seq(Symbols) /\ Runs(SubSeq(d, 1, Len(d)), T, 0)
  BY DEF Begun
<1>2. SubSeq(d, 1, Len(d)) = d
  BY <1>1, SubSeqFull
<1> QED
  BY <1>1, <1>2, RunsWhole

LEMMA PieceOfPiece ==
  ASSUME NEW s, NEW m \in Nat, NEW n \in Nat, NEW t, Piece(s, m, n, t),
         NEW k \in Nat, NEW l \in Nat, k <= l, l <= Len(t), NEW u, Piece(t, k, l, u)
  PROVE  Piece(s, m + k, m + l, u)
<1>1. Len(t) \in Nat /\ \A i \in 1..Len(t) : t[i] = s[m + i]
  BY Zenon DEF Piece
<1>2. /\ u \in Seq(Symbols) /\ Len(u) = l - k /\ Len(u) \in Nat
      /\ \A i \in 1..Len(u) : u[i] = t[k + i]
  BY Zenon DEF Piece
<1>3. Len(u) = (m + l) - (m + k)
  BY <1>2
<1>4. ASSUME NEW i \in 1..Len(u) PROVE u[i] = s[(m + k) + i]
  <2>1. k + i \in 1..Len(t) /\ m + (k + i) = (m + k) + i
    BY <1>1, <1>2
  <2> QED
    BY <1>1, <1>2, <2>1
<1> QED
  BY <1>2, <1>3, <1>4 DEF Piece

-----------------------------------------------------------------------------
PlainOps == {"stream_copy", "dev_copy", "dump", "import", "import_new"}

Nothing == [in |-> <<>>, pending |-> <<>>, finish |-> FALSE, ret |-> "OK"]

CopyTypes ==
  /\ op \in Copying!Ops /\ data \in Seq(Symbols)
  /\ start \in Nat /\ start <= Len(data) /\ at \in Nat /\ at <= Len(data)
  /\ op \in {"gzip", "gunzip"} => start = 0
  /\ failed \in BOOLEAN /\ faults \in BOOLEAN /\ (failed => faults)
  /\ z \in [in : Seq(Symbols), pending : Seq(Symbols), finish : BOOLEAN,
            ret : {"OK", "END", "Z_DATA_ERROR"}]

\* What the source of a copy was read from.
Base == IF op = "stream_copy" THEN start ELSE 0

\* The compressed data before the symbol that ends them.
DataEnd == Copying!Stop(data) - 1

\* What a file or stream is in the end: an import gives the file its size at once.
Sized == Len(dest) = IF op \in Copying!Imports THEN Len(data) ELSE written

\* As long as nothing fails, whole buffers are moved.
WholeBufs == op = "stream_copy" /\ ~faults => \E k \in Nat : written = k * CopySize

AtStart ==
  /\ written = 0 /\ buf = <<>> /\ z = Nothing /\ ~faults /\ at = start
  /\ dest = IF op = "import" THEN Imported ELSE <<>>

AtRead ==
  /\ op \in PlainOps /\ Begun(Copying!Expected, dest, written) /\ Sized
  /\ at = Base + written /\ WholeBufs

AtWrite ==
  /\ op \in PlainOps /\ Begun(Copying!Expected, dest, written) /\ Sized /\ WholeBufs
  /\ Runs(buf, Copying!Expected, written)
  /\ at = Base + written + Len(buf) /\ Len(buf) # 0 /\ Len(buf) <= CopySize
  /\ Len(buf) < CopySize => failed \/ at = Len(data)

AtVerify ==
  /\ op \in Copying!Imports /\ Begun(Copying!Expected, dest, written) /\ Sized
  /\ IF at = written THEN failed \/ at = Len(data) ELSE faults

\* The data that deflate has taken and not given back follow what is written.
AtGzip ==
  /\ op = "gzip" /\ Begun(Copying!Expected, dest, written) /\ Sized /\ ~faults /\ ~z.finish
  /\ Runs(z.pending, Copying!Expected, written) /\ at = written + Len(z.pending)

Deflated(n) == n = IF z.finish THEN Len(data) + 1 ELSE at

AtDeflate ==
  /\ op = "gzip" /\ Begun(Copying!Expected, dest, written) /\ Sized /\ ~faults
  /\ Runs(z.pending, Copying!Expected, written)
  /\ Deflated(written + Len(z.pending))

AtGzipWrite ==
  /\ op = "gzip" /\ Begun(Copying!Expected, dest, written) /\ Sized /\ ~faults
  /\ Runs(buf, Copying!Expected, written) /\ Len(buf) <= CopySize
  /\ Runs(z.pending, Copying!Expected, written + Len(buf))
  /\ Deflated(written + Len(buf) + Len(z.pending))
  /\ z.finish /\ Len(buf) < CopySize => Len(z.pending) = 0 /\ z.ret = "END"

AtGunzip ==
  /\ op = "gunzip" /\ Begun(Copying!Expected, dest, written) /\ Sized /\ ~faults
  /\ z.ret = "OK" /\ Len(z.pending) = 0 /\ written = 2 * at /\ at <= DataEnd

\* n symbols are what the data before those that inflate has not looked at stand for.
Inflated(n) ==
  CASE z.ret = "OK" -> /\ n = 2 * (at - Len(z.in)) /\ Len(z.in) <= at
                       /\ at - Len(z.in) <= DataEnd
                       /\ Piece(data, at - Len(z.in), at, z.in)
    [] z.ret = "END" -> n = 2 * DataEnd /\ Len(z.pending) = 0 /\ Len(z.in) = 0
    [] OTHER -> FALSE

AtInflate ==
  /\ op = "gunzip" /\ Begun(Copying!Expected, dest, written) /\ Sized /\ ~faults
  /\ Runs(z.pending, Copying!Expected, written)
  /\ Inflated(written + Len(z.pending))

AtGunzipWrite ==
  /\ op = "gunzip" /\ Begun(Copying!Expected, dest, written) /\ Sized /\ ~faults
  /\ Runs(buf, Copying!Expected, written) /\ Len(buf) <= CopySize
  /\ Runs(z.pending, Copying!Expected, written + Len(buf))
  /\ Inflated(written + Len(buf) + Len(z.pending))
  /\ Len(buf) < CopySize => Len(z.pending) = 0 /\ Len(z.in) = 0

AtDone == Copying!CopiesTold /\ Copying!ImportUndone

CopyInv ==
  /\ CopyTypes
  /\ pc = "start" => AtStart
  /\ pc = "read" => AtRead
  /\ pc = "write" => AtWrite
  /\ pc = "verify" => AtVerify
  /\ pc = "gzip" => AtGzip
  /\ pc = "deflate" => AtDeflate
  /\ pc = "gzip_write" => AtGzipWrite
  /\ pc = "gunzip" => AtGunzip
  /\ pc = "inflate" => AtInflate
  /\ pc = "gunzip_write" => AtGunzipWrite
  /\ pc = "done" => AtDone

LEMMA GoalSame ==
  ASSUME op' = op, data' = data, start' = start
  PROVE  /\ Copying!Expected' = Copying!Expected /\ Base' = Base /\ DataEnd' = DataEnd
         /\ Copying!WellFormed' = Copying!WellFormed
BY DEF Copying!Expected, Base, DataEnd, Copying!WellFormed

\* The first symbol that compressed data end with.
StopIn(s) == Copying!SelectInSeq(s, LAMBDA c : c \in {End, Bad})

LEMMA StopIs ==
  ASSUME NEW s \in Seq(Symbols)
  PROVE  /\ StopIn(s) \in 0..Len(s)
         /\ StopIn(s) = 0 => \A i \in 1..Len(s) : s[i] \notin {End, Bad}
         /\ StopIn(s) # 0 => /\ s[StopIn(s)] \in {End, Bad}
                             /\ \A i \in 1..(StopIn(s) - 1) : s[i] \notin {End, Bad}
<1> DEFINE I == {i \in 1..Len(s) : s[i] \in {End, Bad}}
<1>1. StopIn(s) = IF I # {} THEN Copying!Min(I) ELSE 0
  BY DEF StopIn, Copying!SelectInSeq
<1>2. Len(s) \in Nat
  OBVIOUS
<1>3. CASE I = {}
  BY <1>1, <1>2, <1>3
<1>4. CASE I # {}
  <2>1. I \subseteq Nat
    OBVIOUS
  <2>2. \E m \in I : \A k \in I : m <= k
    BY <1>4, <2>1, LeastExists
  <2> DEFINE m == Copying!Min(I)
  <2>3. m = CHOOSE x \in I : \A y \in I : x <= y
    BY DEF Copying!Min
  <2>4. m \in I /\ \A k \in I : m <= k
    BY <2>2, <2>3
  <2>5. StopIn(s) = m
    BY <1>1, <1>4
  <2> HIDE DEF m
  <2>6. m \in 1..Len(s) /\ s[m] \in {End, Bad}
    BY <2>4
  <2>7. ASSUME NEW i \in 1..(m - 1) PROVE s[i] \notin {End, Bad}
    <3>1. i \in 1..Len(s) /\ ~(m <= i)
      BY <1>2, <2>6
    <3> QED
      BY <2>4, <3>1
  <2> QED
    BY <1>2, <2>5, <2>6, <2>7
<1> QED
  BY <1>3, <1>4

LEMMA DataEndIs ==
  ASSUME data \in Seq(Symbols)
  PROVE  /\ DataEnd \in Nat /\ DataEnd <= Len(data)
         /\ \A i \in 1..DataEnd : data[i] \notin {End, Bad}
         /\ DataEnd < Len(data) => data[DataEnd + 1] \in {End, Bad}
<1>1. Copying!Stop(data) = IF StopIn(data) = 0 THEN Len(data) + 1 ELSE StopIn(data)
  BY DEF Copying!Stop, StopIn
<1>2. /\ StopIn(data) \in 0..Len(data) /\ Len(data) \in Nat
      /\ StopIn(data) = 0 => \A i \in 1..Len(data) : data[i] \notin {End, Bad}
      /\ StopIn(data) # 0 =>
           /\ data[StopIn(data)] \in {End, Bad}
           /\ \A i \in 1..(StopIn(data) - 1) : data[i] \notin {End, Bad}
  BY StopIs
<1>3. CASE StopIn(data) = 0
  <2>1. DataEnd = Len(data)
    BY <1>1, <1>2, <1>3 DEF DataEnd
  <2> QED
    BY <1>2, <1>3, <2>1
<1>4. CASE StopIn(data) # 0
  <2>1. DataEnd = StopIn(data) - 1 /\ DataEnd + 1 = StopIn(data)
    BY <1>1, <1>2, <1>4 DEF DataEnd
  <2> QED
    BY <1>2, <1>4, <2>1
<1> QED
  BY <1>3, <1>4

\* What the symbols of compressed data stand for.
LEMMA TwiceIs ==
  ASSUME NEW s \in Seq(Symbols)
  PROVE  /\ Copying!Twice(s) \in Seq(Symbols) /\ Len(Copying!Twice(s)) = 2 * Len(s)
         /\ \A i \in 1..(2 * Len(s)) : Copying!Twice(s)[i] = s[(i + 1) \div 2]
<1>1. Len(s) \in Nat /\ 2 * Len(s) \in Nat
  OBVIOUS
<1>2. \A i \in 1..(2 * Len(s)) : (i + 1) \div 2 \in 1..Len(s)
  BY <1>1
<1>3. \A i \in 1..Len(s) : s[i] \in Symbols
  OBVIOUS
<1>4. \A i \in 1..(2 * Len(s)) : s[(i + 1) \div 2] \in Symbols
  BY <1>2, <1>3
<1> DEFINE n == 2 * Len(s)
           t == [i \in 1..n |-> s[(i + 1) \div 2]]
<1>5. t = Copying!Twice(s)
  BY DEF Copying!Twice
<1>6. t \in [1..n -> Symbols]
  BY <1>4
<1>7. \A i \in 1..n : t[i] = s[(i + 1) \div 2]
  OBVIOUS
<1>8. n \in Nat
  BY <1>1
<1> HIDE DEF n, t
<1>9. t \in Seq(Symbols) /\ Len(t) = n
  BY <1>6, <1>8
<1> QED
  BY <1>5, <1>7, <1>9 DEF n

\* What a copy should have in the end.
LEMMA GoalOfPlain ==
  ASSUME CopyTypes, op \in PlainOps
  PROVE  /\ Copying!Expected \in Seq(Symbols) /\ Base \in Nat /\ Base <= Len(data)
         /\ Piece(data, Base, Len(data), Copying!Expected)
<1>1. /\ data \in Seq(Symbols) /\ Len(data) \in Nat
      /\ start \in Nat /\ start <= Len(data)
  BY DEF CopyTypes
<1>2. CASE op = "stream_copy"
  <2>1. Copying!Expected = Copying!From(data, start + 1) /\ Base = start
    BY <1>2 DEF Copying!Expected, Base
  <2> QED
    BY <1>1, <2>1, PieceBack DEF Piece
<1>3. CASE op # "stream_copy"
  <2>1. Copying!Expected = data /\ Base = 0
    BY <1>3 DEF Copying!Expected, Base, PlainOps
  <2>2. Len(data) = Len(data) - 0 /\ \A i \in 1..Len(data) : 0 + i = i
    BY <1>1
  <2> QED
    BY <1>1, <2>1, <2>2 DEF Piece
<1> QED
  BY <1>2, <1>3

LEMMA GoalOfGzip ==
  ASSUME CopyTypes, op = "gzip"
  PROVE  /\ Copying!Expected \in Seq(Symbols) /\ Len(Copying!Expected) = Len(data) + 1
         /\ \A i \in 1..Len(data) : Copying!Expected[i] = data[i]
         /\ Copying!Expected[Len(data) + 1] = End
<1> DEFINE d == data
           e == <<End>>
           t == d \o e
<1>1. Copying!Expected = t
  BY DEF Copying!Expected, Copying!Compressed
<1>2. d \in Seq(Symbols) /\ Len(d) \in Nat
  BY DEF CopyTypes
<1>3. e \in Seq(Symbols) /\ Len(e) = 1 /\ e[1] = End
  BY DEF Symbols
<1> HIDE DEF d, e
<1>4. /\ t \in Seq(Symbols) /\ Len(t) = Len(d) + Len(e)
      /\ \A i \in 1..(Len(d) + Len(e)) : t[i] = IF i <= Len(d) THEN d[i] ELSE e[i - Len(d)]
  BY <1>2, <1>3, ConcatProperties
<1> HIDE DEF t
<1>5. Len(t) = Len(d) + 1 /\ (Len(d) + 1) - Len(d) = 1 /\ ~(Len(d) + 1 <= Len(d))
  BY <1>2, <1>3, <1>4
<1>6. \A i \in 1..Len(d) : t[i] = d[i]
  BY <1>2, <1>3, <1>4
<1>7. Len(d) + 1 \in 1..(Len(d) + Len(e))
  BY <1>2, <1>3
<1>8. t[Len(d) + 1] = End
  BY <1>3, <1>4, <1>5, <1>7
<1>9. /\ t \in Seq(Symbols) /\ Len(t) = Len(d) + 1 /\ \A i \in 1..Len(d) : t[i] = d[i]
      /\ t[Len(d) + 1] = End
  BY <1>4, <1>5, <1>6, <1>8
<1> QED
  BY <1>1, <1>9 DEF d

LEMMA GoalOfGunzip ==
  ASSUME CopyTypes, op = "gunzip"
  PROVE  /\ Copying!Expected \in Seq(Symbols) /\ Len(Copying!Expected) = 2 * DataEnd
         /\ \A i \in 1..(2 * DataEnd) : Copying!Expected[i] = data[(i + 1) \div 2]
<1>1. Copying!Expected = Copying!Twice(SubSeq(data, 1, DataEnd))
  BY DEF Copying!Expected, DataEnd
<1>2. data \in Seq(Symbols)
  BY DEF CopyTypes
<1>3. DataEnd \in Nat /\ DataEnd <= Len(data)
  BY <1>2, DataEndIs
<1> DEFINE s == SubSeq(data, 1, DataEnd)
<1>4. Piece(data, 0, DataEnd, s)
  BY <1>2, <1>3, PieceFront
<1>5. Copying!Expected = Copying!Twice(s)
  BY <1>1
<1> HIDE DEF s
<1>6. s \in Seq(Symbols) /\ Len(s) = DataEnd /\ \A i \in 1..DataEnd : s[i] = data[i]
  <2>1. /\ s \in Seq(Symbols) /\ Len(s) = DataEnd - 0
        /\ \A i \in 1..Len(s) : s[i] = data[0 + i]
    BY <1>4, Zenon DEF Piece
  <2>2. DataEnd - 0 = DataEnd /\ \A i \in 1..DataEnd : 0 + i = i
    BY <1>3
  <2> QED
    BY <2>1, <2>2
<1>7. /\ Copying!Twice(s) \in Seq(Symbols) /\ Len(Copying!Twice(s)) = 2 * Len(s)
      /\ \A i \in 1..(2 * Len(s)) : Copying!Twice(s)[i] = s[(i + 1) \div 2]
  BY <1>6, TwiceIs
<1>8. \A i \in 1..(2 * DataEnd) : (i + 1) \div 2 \in 1..DataEnd
  BY <1>3
<1> QED
  BY <1>5, <1>6, <1>7, <1>8

\* What a read brings is what comes next in the source, and the position is behind it.
TakenFrom(g, fails) ==
  /\ at' = at + Len(g) /\ at' \in Nat /\ at' <= Len(data) /\ Len(g) <= CopySize
  /\ Piece(data, at, at', g)
  /\ ~fails => Len(g) = CopySize \/ at' = Len(data)
  /\ failed' = (failed \/ fails) /\ faults' = (faults \/ fails) /\ fails \in BOOLEAN

LEMMA ReadIs ==
  ASSUME CopyTypes, NEW r \in Copying!Reads, Copying!Take(r)
  PROVE  TakenFrom(r.got, r.fails)
<1>1. data \in Seq(Symbols) /\ at \in Nat /\ at <= Len(data) /\ Len(data) \in Nat
  BY DEF CopyTypes
<1>2. CopySize \in Nat /\ CopySize > 0
  BY PartsAssumption DEF Copying!CopyAssumption
<1> DEFINE f == Copying!From(data, at + 1)
<1>3. Piece(data, at, Len(data), f)
  BY <1>1, PieceBack
<1>4. \A m \in Nat : \E k \in Nat :
        /\ k <= Len(f) /\ k <= m /\ (k = m \/ k = Len(f))
        /\ Piece(f, 0, k, Copying!Upto(f, m))
  <2>1. f \in Seq(Symbols)
    BY <1>3 DEF Piece
  <2> HIDE DEF f
  <2> QED
    BY <2>1, UptoPiece
<1>5. \/ r.got = Copying!Upto(f, CopySize) /\ r.fails = FALSE
      \/ \E m \in 0..(CopySize - 1) : r.got = Copying!Upto(f, m) /\ r.fails = TRUE
  BY DEF Copying!Reads
<1>6. PICK m \in Nat : /\ m <= CopySize /\ r.got = Copying!Upto(f, m)
                       /\ r.fails \in BOOLEAN /\ (~r.fails => m = CopySize)
  <2>1. CASE r.got = Copying!Upto(f, CopySize) /\ r.fails = FALSE
    <3>1. CopySize <= CopySize
      BY <1>2
    <3> QED
      BY <1>2, <2>1, <3>1, Zenon
  <2>2. ASSUME NEW m \in 0..(CopySize - 1), r.got = Copying!Upto(f, m), r.fails = TRUE
        PROVE  \E k \in Nat : /\ k <= CopySize /\ r.got = Copying!Upto(f, k)
                              /\ r.fails \in BOOLEAN /\ (~r.fails => k = CopySize)
    <3>1. m \in Nat /\ m <= CopySize
      BY <1>2
    <3> QED
      BY <2>2, <3>1, Zenon
  <2> QED
    BY <1>5, <2>1, <2>2, Zenon
<1> HIDE DEF f
<1>7. PICK k \in Nat : /\ k <= Len(f) /\ k <= m /\ (k = m \/ k = Len(f))
                       /\ Piece(f, 0, k, r.got)
  BY <1>4, <1>6
<1>8. Len(f) = Len(data) - at /\ Len(f) \in Nat
  BY <1>3 DEF Piece
<1>9. Len(r.got) = k /\ Len(r.got) \in Nat
  <2>1. Len(r.got) = k - 0
    BY <1>7 DEF Piece
  <2> QED
    BY <2>1
<1>10. Piece(data, at + 0, at + k, r.got)
  <2>1. 0 \in Nat /\ 0 <= k
    OBVIOUS
  <2> QED
    BY <1>1, <1>3, <1>7, <2>1, PieceOfPiece
<1>11. at + 0 = at /\ at + k = at + Len(r.got)
  BY <1>1, <1>9
<1>12. at' = at + Len(r.got) /\ failed' = (failed \/ r.fails) /\ faults' = (faults \/ r.fails)
  BY DEF Copying!Take
<1>13. Piece(data, at, at', r.got)
  BY <1>10, <1>11, <1>12
<1>14. /\ at' \in Nat /\ at' <= Len(data) /\ Len(r.got) <= CopySize
       /\ (~r.fails => Len(r.got) = CopySize \/ at' = Len(data))
  BY <1>1, <1>2, <1>6, <1>7, <1>8, <1>9, <1>12
<1> QED
  BY <1>6, <1>12, <1>13, <1>14, Zenon DEF TakenFrom

\* A part of the source that is copied as it is.
LEMMA PlainRuns ==
  ASSUME CopyTypes, op \in PlainOps, NEW w \in Nat, NEW n \in Nat, Base + w <= n,
         n <= Len(data), NEW t, Piece(data, Base + w, n, t)
  PROVE  Runs(t, Copying!Expected, w)
<1>1. /\ Copying!Expected \in Seq(Symbols) /\ Base \in Nat /\ Base <= Len(data)
      /\ Piece(data, Base, Len(data), Copying!Expected)
  BY GoalOfPlain
<1>2. /\ t \in Seq(Symbols) /\ Len(t) = n - (Base + w) /\ Len(t) \in Nat
      /\ \A i \in 1..Len(t) : t[i] = data[(Base + w) + i]
  BY Zenon DEF Piece
<1>3. /\ Len(Copying!Expected) = Len(data) - Base /\ Len(Copying!Expected) \in Nat
      /\ \A i \in 1..Len(Copying!Expected) : Copying!Expected[i] = data[Base + i]
  BY <1>1, Zenon DEF Piece
<1>4. Len(data) \in Nat
  BY DEF CopyTypes
<1>5. w + Len(t) <= Len(Copying!Expected)
  BY <1>1, <1>2, <1>3, <1>4
<1>6. ASSUME NEW i \in 1..Len(t) PROVE t[i] = Copying!Expected[w + i]
  <2>1. w + i \in 1..Len(Copying!Expected) /\ Base + (w + i) = (Base + w) + i
    BY <1>1, <1>2, <1>5
  <2> QED
    BY <1>2, <1>3, <2>1
<1> QED
  BY <1>2, <1>5, <1>6 DEF Runs

\* What the rest of a loop may not change.
Settled == op' = op /\ data' = data /\ start' = start

\* What is left of the older content, whose last block may be wiped.
LeftOver(d) ==
  /\ Len(d) = Len(Imported)
  /\ \A k \in 1..Len(Imported) : d[k] = Imported[k] \/ Copying!InFullLastBlock(k)

\* A loop that ends.
LEMMA DoneIs ==
  ASSUME Settled, pc' = "done", Copying!Expected \in Seq(Symbols),
         dest' = Copying!Gone \/ Runs(SubSeq(dest', 1, written'), Copying!Expected, 0),
         rc' = "OK" /\ (failed' => op \in {"gzip", "gunzip"}) => dest' = Copying!Expected,
         ~faults' /\ Copying!WellFormed
           /\ (op = "stream_copy" => (Len(data) - start) % CopySize # 0) => rc' = "OK",
         op \in Copying!Imports =>
           /\ rc' # "OK" /\ op = "import_new" => dest' = Copying!Gone
           /\ rc' = "RangeError" /\ op = "import" => dest' = Imported
           /\ rc' = "WriteError" /\ op = "import" => LeftOver(dest')
           /\ at' = start
  PROVE  AtDone'
<1>1. Copying!Expected' = Copying!Expected /\ Copying!WellFormed' = Copying!WellFormed
  BY GoalSame DEF Settled
<1>2. op' = op /\ data' = data /\ start' = start
  BY DEF Settled
<1>3. Copying!InOrder'
  <2>1. CASE dest' = Copying!Gone
    BY <2>1 DEF Copying!InOrder
  <2>2. CASE Runs(SubSeq(dest', 1, written'), Copying!Expected, 0)
    <3> DEFINE s == SubSeq(dest', 1, written')
    <3>1. Copying!IsPrefix(s, Copying!Expected)
      BY <2>2, RunsPrefix
    <3> QED
      BY <1>1, <3>1 DEF Copying!InOrder
  <2> QED
    BY <2>1, <2>2
<1>4. Copying!SuccessTold'
  BY <1>1, <1>2 DEF Copying!SuccessTold
<1>5. Copying!ImportUndone'
  BY <1>2 DEF Copying!ImportUndone, LeftOver
<1> QED
  BY <1>3, <1>4, <1>5 DEF AtDone, Copying!CopiesTold

\* A loop that goes on.
LEMMA GoesOn ==
  ASSUME CopyTypes', pc' = "start" => AtStart', pc' = "read" => AtRead', pc' = "write" => AtWrite',
         pc' = "verify" => AtVerify', pc' = "gzip" => AtGzip', pc' = "deflate" => AtDeflate',
         pc' = "gzip_write" => AtGzipWrite', pc' = "gunzip" => AtGunzip',
         pc' = "inflate" => AtInflate', pc' = "gunzip_write" => AtGunzipWrite',
         pc' = "done" => AtDone'
  PROVE  CopyInv'
BY Zenon DEF CopyInv

LEMMA TypesKept ==
  ASSUME CopyTypes, Settled, at' \in Nat, at' <= Len(data), failed' \in BOOLEAN,
         faults' \in BOOLEAN, failed' => faults', z' = z
  PROVE  CopyTypes'
BY DEF CopyTypes, Settled

-----------------------------------------------------------------------------
LEMMA CopySizeIs ==
  /\ CopySize \in Nat /\ CopySize > 0 /\ MaxSize \in Nat /\ Imported \in Seq(Symbols)
  /\ FileBlock \in Nat /\ FileBlock > 0
<1>1. /\ CopySize \in Nat \ {0} /\ MaxSize \in Nat /\ Imported \in Seq(Int)
      /\ FileBlock \in Nat \ {0}
  BY PartsAssumption DEF Copying!CopyAssumption
<1>2. Int \subseteq Symbols
  BY DEF Symbols
<1>3. Imported \in Seq(Symbols)
  BY <1>1, <1>2, SeqMonotonic
<1> QED
  BY <1>1, <1>3

LEMMA SourcesAre ==
  ASSUME NEW o, NEW d \in Copying!Sources(o)
  PROVE  d \in Seq(Symbols)
<1>1. ASSUME NEW n \in 0..MaxSize PROVE Copying!Plain(n) \in Seq(Symbols) /\ n \in Nat
  <2>1. n \in Nat
    BY CopySizeIs
  <2>2. Copying!Plain(n) \in [1..n -> Symbols]
    BY <2>1 DEF Copying!Plain, Symbols
  <2> QED
    BY <2>1, <2>2
<1>2. \A c \in Symbols : <<c>> \in Seq(Symbols)
  OBVIOUS
<1>3. \A s, t \in Seq(Symbols) : s \o t \in Seq(Symbols)
  BY ConcatProperties
<1>4. End \in Symbols /\ Bad \in Symbols /\ \A n \in Nat : n + 1 \in Symbols
  BY DEF Symbols
<1>5. <<Bad, End>> \in Seq(Symbols)
  BY <1>4
<1>6. \A s \in Seq(Symbols) : Copying!Compressed(s) \in Seq(Symbols)
  BY <1>2, <1>3, <1>4, Zenon DEF Copying!Compressed
<1>7. ASSUME NEW n \in 0..MaxSize
      PROVE  /\ Copying!Plain(n) \in Seq(Symbols)
             /\ Copying!Compressed(Copying!Plain(n)) \in Seq(Symbols)
             /\ Copying!Compressed(Copying!Plain(n)) \o <<n + 1>> \in Seq(Symbols)
             /\ Copying!Plain(n) \o <<Bad, End>> \in Seq(Symbols)
  BY <1>1, <1>2, <1>3, <1>4, <1>5, <1>6, Zenon
<1>8. \E n \in 0..MaxSize :
        \/ d = Copying!Plain(n)
        \/ d = Copying!Compressed(Copying!Plain(n))
        \/ d = Copying!Compressed(Copying!Plain(n)) \o <<n + 1>>
        \/ d = Copying!Plain(n) \o <<Bad, End>>
  <2>1. \/ d \in {Copying!Plain(n) : n \in 0..MaxSize}
        \/ d \in {Copying!Compressed(Copying!Plain(n)) : n \in 0..MaxSize}
        \/ d \in {Copying!Compressed(Copying!Plain(n)) \o <<n + 1>> : n \in 0..MaxSize}
        \/ d \in {Copying!Plain(n) \o <<Bad, End>> : n \in 0..MaxSize}
    BY Zenon DEF Copying!Sources
  <2> QED
    BY <2>1, Zenon
<1> QED
  BY <1>7, <1>8, Zenon

LEMMA CopyBegins ==
  ASSUME Copying!Init
  PROVE  CopyInv
<1>1. /\ op \in Copying!Ops /\ data \in Seq(Symbols)
      /\ at \in (IF op \in {"gzip", "gunzip"} THEN {0} ELSE 0..Len(data)) /\ start = at
  BY SourcesAre DEF Copying!Init
<1>2. Len(data) \in Nat
  BY <1>1
<1>3. /\ start \in Nat /\ start <= Len(data) /\ at \in Nat /\ at <= Len(data)
      /\ op \in {"gzip", "gunzip"} => start = 0
  BY <1>1, <1>2
<1>4. z \in [in : Seq(Symbols), pending : Seq(Symbols), finish : BOOLEAN,
             ret : {"OK", "END", "Z_DATA_ERROR"}]
  <2>1. <<>> \in Seq(Symbols)
    BY EmptySeq
  <2> QED
    BY <2>1 DEF Copying!Init
<1>5. failed = FALSE /\ faults = FALSE
  BY DEF Copying!Init
<1>6. CopyTypes
  BY <1>1, <1>3, <1>4, <1>5 DEF CopyTypes
<1>7. AtStart /\ pc = "start"
  BY <1>5 DEF Copying!Init, AtStart, Nothing
<1> QED
  BY <1>6, <1>7 DEF CopyInv

LEMMA StartStep ==
  ASSUME CopyInv, Copying!Start
  PROVE  CopyInv'
<1>1. /\ CopyTypes /\ AtStart
      /\ op \in {"stream_copy", "dev_copy", "dump", "gzip", "gunzip"}
      /\ at' = (IF op \in {"dev_copy", "dump"} THEN 0 ELSE at)
      /\ pc' = (IF op \in {"gzip", "gunzip"} THEN op ELSE "read")
      /\ UNCHANGED <<op, data, start, failed, faults, buf, dest, written, z>>
  BY DEF Copying!Start, Copying!Goto, CopyInv, CopyTypes, Copying!Ops, Copying!Imports
<1>2. /\ written' = 0 /\ dest' = <<>> /\ z' = Nothing /\ ~faults' /\ at = start
      /\ op' = op /\ data' = data /\ start' = start
      /\ failed' = failed /\ faults' = faults /\ z' = z
  BY <1>1 DEF AtStart
<1>3. /\ start \in Nat /\ start <= Len(data) /\ data \in Seq(Symbols)
      /\ op \in {"gzip", "gunzip"} => start = 0
      /\ failed \in BOOLEAN /\ faults \in BOOLEAN /\ (failed => faults)
  BY <1>1 DEF CopyTypes
<1>4. at' \in Nat /\ at' <= Len(data)
  BY <1>1, <1>2, <1>3
<1>5. CopyTypes'
  BY <1>1, <1>2, <1>3, <1>4, TypesKept DEF Settled
<1>6. Copying!Expected' = Copying!Expected /\ Base' = Base /\ DataEnd' = DataEnd
  BY <1>2, GoalSame
<1>7. Copying!Expected \in Seq(Symbols)
  BY <1>1, GoalOfPlain, GoalOfGzip, GoalOfGunzip DEF PlainOps
<1>8. <<>> \in Seq(Symbols) /\ Len(<<>>) = 0
  BY EmptySeq
<1>9. Begun(Copying!Expected', dest', written')
  BY <1>2, <1>6, <1>7, <1>8, BegunEmpty
<1>10. Sized'
  BY <1>1, <1>2, <1>8 DEF Sized, Copying!Imports
<1>11. Runs(<<>>, Copying!Expected', 0)
  <2>1. 0 \in Nat /\ 0 <= Len(Copying!Expected)
    BY <1>7
  <2> QED
    BY <1>6, <1>7, <2>1, RunsEmpty
<1>12. CASE op \notin {"gzip", "gunzip"}
  <2>1. at' = Base' + written' /\ pc' = "read" /\ op' \in PlainOps
    BY <1>1, <1>2, <1>3, <1>6, <1>12 DEF Base, PlainOps
  <2>2. WholeBufs'
    <3>1. 0 \in Nat /\ written' = 0 * CopySize
      BY <1>2, CopySizeIs
    <3> QED
      BY <3>1 DEF WholeBufs
  <2>3. AtRead'
    BY <1>9, <1>10, <2>1, <2>2 DEF AtRead
  <2> QED
    BY <1>5, <2>1, <2>3 DEF CopyInv
<1>13. CASE op = "gzip"
  <2>1. pc' = "gzip" /\ at' = 0 /\ op' = "gzip"
    BY <1>1, <1>2, <1>3, <1>13
  <2>2. z'.pending = <<>> /\ ~z'.finish
    BY <1>2 DEF Nothing
  <2>3. at' = written' + Len(z'.pending) /\ Runs(z'.pending, Copying!Expected', written')
    BY <1>2, <1>8, <1>11, <2>1, <2>2
  <2>4. AtGzip'
    BY <1>2, <1>9, <1>10, <2>1, <2>2, <2>3 DEF AtGzip
  <2> QED
    BY <1>5, <2>1, <2>4 DEF CopyInv
<1>14. CASE op = "gunzip"
  <2>1. pc' = "gunzip" /\ at' = 0 /\ op' = "gunzip"
    BY <1>1, <1>2, <1>3, <1>14
  <2>2. z'.pending = <<>> /\ z'.ret = "OK"
    BY <1>2 DEF Nothing
  <2>3. DataEnd \in Nat
    BY <1>3, DataEndIs
  <2>4. Len(z'.pending) = 0 /\ written' = 2 * at' /\ at' <= DataEnd'
    BY <1>2, <1>6, <1>8, <2>1, <2>2, <2>3
  <2>5. AtGunzip'
    BY <1>2, <1>9, <1>10, <2>1, <2>2, <2>4 DEF AtGunzip
  <2> QED
    BY <1>5, <2>1, <2>5 DEF CopyInv
<1> QED
  BY <1>12, <1>13, <1>14

\* A loop that ends without success, and not by itself.
LEMMA GivenUp ==
  ASSUME Settled, pc' = "done", Copying!Expected \in Seq(Symbols),
         Begun(Copying!Expected, dest', written'), rc' # "OK", op \notin Copying!Imports,
         \/ faults' \/ ~Copying!WellFormed
         \/ op = "stream_copy" /\ (Len(data) - start) % CopySize = 0
  PROVE  AtDone'
<1>1. Runs(SubSeq(dest', 1, written'), Copying!Expected, 0)
  BY DEF Begun
<1> QED
  BY <1>1, DoneIs

\* A loop that ends and has moved everything.
LEMMA AllMoved ==
  ASSUME Settled, pc' = "done", Copying!Expected \in Seq(Symbols),
         Begun(Copying!Expected, dest', written'), rc' = "OK", op \notin Copying!Imports,
         (failed' /\ op \notin {"gzip", "gunzip"}) \/ dest' = Copying!Expected
  PROVE  AtDone'
<1>1. Runs(SubSeq(dest', 1, written'), Copying!Expected, 0)
  BY DEF Begun
<1> QED
  BY <1>1, DoneIs

LEMMA BaseIs ==
  ASSUME CopyTypes, op \in PlainOps
  PROVE  /\ Copying!Expected \in Seq(Symbols) /\ Base \in Nat /\ Base <= Len(data)
         /\ Len(data) \in Nat /\ Len(Copying!Expected) = Len(data) - Base
         /\ op \in Copying!Imports => Base = 0
         /\ op = "stream_copy" => Base = start
<1>1. Len(data) \in Nat
  BY DEF CopyTypes
<1> QED
  BY <1>1, GoalOfPlain DEF Piece, Base, Copying!Imports

LEMMA ReadMoreStep ==
  ASSUME CopyInv, Copying!ReadMore
  PROVE  CopyInv'
<1>1. /\ CopyTypes /\ AtRead
      /\ UNCHANGED <<op, data, start, dest, written, z>>
  BY DEF Copying!ReadMore, CopyInv
<1>2. PICK r \in Copying!Reads :
        /\ Copying!Take(r) /\ buf' = r.got
        /\ IF r.got # <<>> THEN pc' = "write" /\ rc' = rc
           ELSE IF op = "stream_copy" THEN pc' = "done" /\ rc' = "IOError"
           ELSE IF op \in Copying!Imports THEN pc' = "verify" /\ rc' = rc
           ELSE pc' = "done" /\ rc' = "OK"
  BY DEF Copying!ReadMore, Copying!Goto, Copying!Return
<1>3. TakenFrom(r.got, r.fails)
  BY <1>1, <1>2, ReadIs
<1>4. /\ at' = at + Len(r.got) /\ at' \in Nat /\ at' <= Len(data)
      /\ Len(r.got) <= CopySize /\ Piece(data, at, at', r.got)
      /\ (~r.fails => Len(r.got) = CopySize \/ at' = Len(data))
      /\ failed' = (failed \/ r.fails) /\ faults' = (faults \/ r.fails) /\ r.fails \in BOOLEAN
  BY <1>3, Zenon DEF TakenFrom
<1>5. /\ op \in PlainOps /\ Begun(Copying!Expected, dest, written) /\ Sized
      /\ at = Base + written /\ WholeBufs
  BY <1>1 DEF AtRead
<1>6. /\ op' = op /\ data' = data /\ start' = start /\ dest' = dest /\ written' = written
      /\ z' = z
  BY <1>1
<1>7. failed \in BOOLEAN /\ faults \in BOOLEAN /\ (failed => faults) /\ at \in Nat
  BY <1>1 DEF CopyTypes
<1>8. CopyTypes'
  BY <1>1, <1>4, <1>6, <1>7, TypesKept DEF Settled
<1>9. Settled /\ Copying!Expected' = Copying!Expected /\ Base' = Base
  BY <1>6, GoalSame DEF Settled
<1>10. /\ Copying!Expected \in Seq(Symbols) /\ Base \in Nat /\ Len(data) \in Nat
       /\ Len(Copying!Expected) = Len(data) - Base
       /\ op = "stream_copy" => Base = start
       /\ op \in Copying!Imports => Base = 0
  BY <1>1, <1>5, BaseIs
<1>11. written \in Nat /\ written <= Len(dest)
  BY <1>5 DEF Begun
<1>12. Begun(Copying!Expected', dest', written') /\ Sized'
  BY <1>5, <1>6, <1>9 DEF Sized
<1>13. r.got \in Seq(Symbols) /\ Len(r.got) \in Nat /\ (r.got = <<>> <=> Len(r.got) = 0)
  <2>1. r.got \in Seq(Symbols)
    BY <1>4 DEF Piece
  <2> QED
    BY <2>1, EmptySeq
<1>14. CASE r.got # <<>>
  <2>1. Runs(r.got, Copying!Expected, written)
    <3>1. Base + written <= at' /\ Piece(data, Base + written, at', r.got)
      BY <1>4, <1>5, <1>7, <1>13
    <3> QED
      BY <1>1, <1>4, <1>5, <1>11, <3>1, PlainRuns
  <2>2. pc' = "write" /\ buf' = r.got
    BY <1>2, <1>14
  <2>3. Runs(buf', Copying!Expected', written')
    BY <1>6, <1>9, <2>1, <2>2
  <2>4. /\ at' = Base' + written' + Len(buf') /\ Len(buf') # 0 /\ Len(buf') <= CopySize
        /\ Len(buf') < CopySize => failed' \/ at' = Len(data')
    BY <1>4, <1>5, <1>6, <1>9, <1>13, <1>14, <2>2
  <2>5. WholeBufs'
    BY <1>4, <1>5, <1>6 DEF WholeBufs
  <2>6. AtWrite'
    BY <1>5, <1>6, <1>12, <2>3, <2>4, <2>5, Zenon DEF AtWrite
  <2> QED
    BY <1>8, <2>2, <2>6 DEF CopyInv
<1>15. CASE r.got = <<>>
  <2>1. at' = at /\ (~r.fails => at' = Len(data))
    BY <1>4, <1>7, <1>13, <1>15, CopySizeIs
  <2>2. CASE op = "stream_copy"
    <3>1. pc' = "done" /\ rc' = "IOError" /\ op \notin Copying!Imports
      BY <1>2, <1>15, <2>2 DEF Copying!Imports
    <3>2. ASSUME ~faults' PROVE (Len(data) - start) % CopySize = 0
      <4>1. ~faults /\ at = Len(data)
        BY <1>4, <2>1, <3>2
      <4>2. PICK k \in Nat : written = k * CopySize
        BY <1>5, <2>2, <4>1 DEF WholeBufs
      <4>3. Len(data) - start = written
        BY <1>5, <1>10, <1>11, <2>2, <4>1
      <4>4. \A k1 \in Nat, b \in Nat : b > 0 => (k1 * b) % b = 0
        OBVIOUS
      <4> QED
        BY <4>2, <4>3, <4>4, CopySizeIs
    <3>3. AtDone'
      BY <1>9, <1>6, <1>10, <1>12, <2>2, <3>1, <3>2, GivenUp
    <3> QED
      BY <1>8, <3>1, <3>3 DEF CopyInv
  <2>3. CASE op \in Copying!Imports
    <3>1. pc' = "verify"
      BY <1>2, <1>15, <2>3 DEF Copying!Imports
    <3>2. at' = written'
      BY <1>5, <1>6, <1>10, <1>11, <2>1, <2>3
    <3>3. failed' \/ at' = Len(data')
      BY <1>4, <1>6, <2>1
    <3>4. AtVerify'
      BY <1>6, <1>12, <2>3, <3>2, <3>3 DEF AtVerify
    <3> QED
      BY <1>8, <3>1, <3>4 DEF CopyInv
  <2>4. CASE op # "stream_copy" /\ op \notin Copying!Imports
    <3>1. pc' = "done" /\ rc' = "OK" /\ op \notin {"gzip", "gunzip"}
      BY <1>2, <1>5, <1>15, <2>4 DEF PlainOps
    <3>2. ASSUME ~failed' PROVE dest' = Copying!Expected
      <4>0. ~r.fails
        BY <1>4, <3>2, Zenon
      <4>1. at = Len(data) /\ written = Len(Copying!Expected)
        BY <1>5, <1>10, <1>11, <2>1, <4>0
      <4>2. Len(dest) = written
        BY <1>5, <2>4 DEF Sized
      <4> QED
        BY <1>5, <1>6, <1>10, <4>1, <4>2, BegunWhole
    <3>3. AtDone'
      BY <1>6, <1>9, <1>10, <1>12, <2>4, <3>1, <3>2, AllMoved
    <3> QED
      BY <1>8, <3>1, <3>3 DEF CopyInv
  <2> QED
    BY <2>2, <2>3, <2>4
<1> QED
  BY <1>14, <1>15

LEMMA WriteBufStep ==
  ASSUME CopyInv, Copying!WriteBuf
  PROVE  CopyInv'
<1>1. /\ CopyTypes /\ AtWrite
      /\ buf' = <<>> /\ UNCHANGED <<op, data, at, start, failed, z>>
  BY DEF Copying!WriteBuf, CopyInv
<1>2. PICK whole \in BOOLEAN :
        /\ Copying!Put(buf, whole)
        /\ IF ~whole THEN (IF op \in Copying!Imports THEN pc' = "verify"
                           ELSE pc' = "done" /\ rc' = "IOError")
           ELSE IF op = "stream_copy" /\ Len(buf) < CopySize
           THEN pc' = "done" /\ rc' = "OK"
           ELSE pc' = "read"
  BY DEF Copying!WriteBuf, Copying!Goto, Copying!Return
<1>3. /\ op \in PlainOps /\ Begun(Copying!Expected, dest, written) /\ Sized /\ WholeBufs
      /\ Runs(buf, Copying!Expected, written)
      /\ at = Base + written + Len(buf) /\ Len(buf) # 0 /\ Len(buf) <= CopySize
      /\ Len(buf) < CopySize => failed \/ at = Len(data)
  BY <1>1 DEF AtWrite
<1>4. /\ op' = op /\ data' = data /\ start' = start /\ at' = at /\ failed' = failed /\ z' = z
  BY <1>1
<1>5. /\ Copying!Expected \in Seq(Symbols) /\ Base \in Nat /\ Len(data) \in Nat
      /\ Len(Copying!Expected) = Len(data) - Base
      /\ op = "stream_copy" => Base = start
      /\ op \in Copying!Imports => Base = 0
  BY <1>1, <1>3, BaseIs
<1>6. /\ Begun(Copying!Expected, dest', written') /\ faults' = (faults \/ ~whole)
      /\ \E n : Put(buf, n) /\ whole = (n = Len(buf))
  BY <1>2, <1>3, <1>5, PutStep
<1>7. PICK n : Put(buf, n) /\ whole = (n = Len(buf))
  BY <1>6
<1>8. /\ failed \in BOOLEAN /\ faults \in BOOLEAN /\ (failed => faults)
      /\ at \in Nat /\ at <= Len(data)
  BY <1>1 DEF CopyTypes
<1>9. CopyTypes'
  BY <1>1, <1>4, <1>6, <1>8, TypesKept DEF Settled
<1>10. Settled /\ Copying!Expected' = Copying!Expected /\ Base' = Base
  BY <1>4, GoalSame DEF Settled
<1>11. /\ written \in Nat /\ written <= Len(dest) /\ Len(dest) \in Nat /\ Len(buf) \in Nat
       /\ written + Len(buf) <= Len(Copying!Expected)
  BY <1>3 DEF Begun, Runs
<1>12. /\ n \in 0..Len(buf) /\ written' = written + n
       /\ Len(dest') = (IF written' <= Len(dest) THEN Len(dest) ELSE written')
  BY <1>7, Zenon DEF Put
<1>13. Len(dest) = IF op \in Copying!Imports THEN Len(data) ELSE written
  BY <1>3 DEF Sized
<1>14. Len(dest') = IF op \in Copying!Imports THEN Len(data) ELSE written'
  BY <1>5, <1>11, <1>12, <1>13
<1>15. Begun(Copying!Expected', dest', written') /\ Sized'
  BY <1>4, <1>6, <1>10, <1>14 DEF Sized
<1>16. CASE ~whole
  <2>1. n # Len(buf) /\ faults'
    BY <1>6, <1>7, <1>16
  <2>2. CASE op \in Copying!Imports
    <3>1. pc' = "verify" /\ at' # written'
      BY <1>2, <1>3, <1>4, <1>5, <1>11, <1>12, <1>16, <2>1, <2>2
    <3>2. AtVerify'
      BY <1>4, <1>15, <2>1, <2>2, <3>1 DEF AtVerify
    <3> QED
      BY <1>9, <3>1, <3>2 DEF CopyInv
  <2>3. CASE op \notin Copying!Imports
    <3>1. pc' = "done" /\ rc' = "IOError"
      BY <1>2, <1>16, <2>3
    <3>2. AtDone'
      BY <1>5, <1>6, <1>10, <2>1, <2>3, <3>1, GivenUp
    <3> QED
      BY <1>9, <3>1, <3>2 DEF CopyInv
  <2> QED
    BY <2>2, <2>3
<1>17. CASE whole
  <2>1. n = Len(buf) /\ written' = written + Len(buf) /\ at' = Base' + written'
        /\ faults' = faults
    <3>1. n = Len(buf)
      BY <1>7, <1>17, Zenon
    <3>2. faults' = faults
      BY <1>6, <1>8, <1>17
    <3>3. written' = written + Len(buf)
      BY <1>12, <3>1
    <3>4. at' = Base' + written'
      BY <1>3, <1>4, <1>5, <1>10, <1>11, <3>3
    <3> QED
      BY <3>1, <3>2, <3>3, <3>4
  <2>2. CASE op = "stream_copy" /\ Len(buf) < CopySize
    <3>1. pc' = "done" /\ rc' = "OK" /\ op \notin Copying!Imports
      BY <1>2, <1>17, <2>2 DEF Copying!Imports
    <3>2. ASSUME ~failed' PROVE dest' = Copying!Expected
      <4>1. written' = Len(Copying!Expected) /\ Len(dest') = written'
        BY <1>3, <1>4, <1>5, <1>10, <1>11, <1>14, <2>1, <2>2, <3>1, <3>2
      <4> QED
        BY <1>5, <1>6, <4>1, BegunWhole
    <3>3. AtDone'
      BY <1>5, <1>6, <1>10, <2>2, <3>1, <3>2, AllMoved
    <3> QED
      BY <1>9, <3>1, <3>3 DEF CopyInv
  <2>3. CASE ~(op = "stream_copy" /\ Len(buf) < CopySize)
    <3>1. pc' = "read"
      BY <1>2, <1>17, <2>3
    <3>2. WholeBufs'
      <4> SUFFICES ASSUME op' = "stream_copy", ~faults'
                   PROVE  \E k \in Nat : written' = k * CopySize
        BY DEF WholeBufs
      <4>1. PICK k \in Nat : written = k * CopySize
        BY <1>3, <1>4, <2>1 DEF WholeBufs
      <4>2. written' = k * CopySize + CopySize
        BY <1>3, <1>4, <1>11, <2>1, <2>3, <4>1, CopySizeIs
      <4>3. k + 1 \in Nat /\ (k + 1) * CopySize = k * CopySize + CopySize
        BY CopySizeIs
      <4> QED
        BY <4>2, <4>3
    <3>3. AtRead'
      BY <1>3, <1>4, <1>15, <2>1, <3>2 DEF AtRead
    <3> QED
      BY <1>9, <3>1, <3>3 DEF CopyInv
  <2> QED
    BY <2>2, <2>3
<1> QED
  BY <1>16, <1>17

LEMMA ZeroSeq ==
  ASSUME NEW n \in Int
  PROVE  /\ Copying!Zeros(n) \in Seq(Symbols)
         /\ Len(Copying!Zeros(n)) = IF n > 0 THEN n ELSE 0
<1>1. CASE n > 0
  <2>1. Copying!Zeros(n) \in [1..n -> Symbols] /\ n \in Nat
    BY <1>1 DEF Copying!Zeros, Symbols
  <2> QED
    BY <1>1, <2>1
<1>2. CASE ~(n > 0)
  <2>1. 1..n = 1..0
    BY <1>2
  <2>2. Copying!Zeros(n) \in [1..0 -> Symbols] /\ 0 \in Nat
    BY <2>1 DEF Copying!Zeros, Symbols
  <2> QED
    BY <1>2, <2>2
<1> QED
  BY <1>1, <1>2

\* A file that is cut keeps its length.
LEMMA CutBackIs ==
  ASSUME NEW s \in Seq(Symbols)
  PROVE  /\ Copying!CutBack(s) \in Seq(Symbols) /\ Len(Copying!CutBack(s)) = Len(s)
         /\ \A k \in 1..Len(s) :
              \/ Copying!CutBack(s)[k] = s[k]
              \/ Len(s) % FileBlock = 0 /\ k > Len(s) - FileBlock
<1> DEFINE n == Len(s)
           Wiped(k) == n % FileBlock = 0 /\ k > n - FileBlock
           c == Copying!CutBack(s)
<1>1. c = [k \in 1..n |-> IF Wiped(k) THEN 0 ELSE s[k]] /\ n \in Nat
  BY DEF Copying!CutBack
<1>2. \A k \in 1..n : s[k] \in Symbols /\ 0 \in Symbols
  BY DEF Symbols
<1> HIDE DEF c, Wiped, n
<1>3. c \in [1..n -> Symbols]
  BY <1>1, <1>2
<1>4. c \in Seq(Symbols) /\ Len(c) = n
  BY <1>1, <1>3
<1>5. \A k \in 1..n : c[k] = s[k] \/ Wiped(k)
  BY <1>1
<1> QED
  BY <1>4, <1>5 DEF c, n, Wiped

\* An import as it begins.
LEMMA ImportBegins ==
  ASSUME CopyInv, pc = "start", op \in Copying!Imports
  PROVE  /\ CopyTypes /\ AtStart /\ op \in PlainOps /\ dest \in Seq(Symbols)
         /\ Copying!Expected = data /\ data \in Seq(Symbols) /\ Len(data) \in Nat
         /\ start \in Nat /\ start <= Len(data) /\ at \in Nat /\ at <= Len(data)
         /\ failed \in BOOLEAN /\ faults \in BOOLEAN /\ (failed => faults)
<1>1. CopyTypes /\ AtStart
  BY DEF CopyInv
<1>2. <<>> \in Seq(Symbols)
  BY EmptySeq
<1>3. op \in PlainOps /\ dest \in Seq(Symbols)
  BY <1>1, <1>2, CopySizeIs DEF AtStart, Copying!Imports, PlainOps
<1>4. Copying!Expected = data
  BY DEF Copying!Expected, Copying!Imports
<1> QED
  BY <1>1, <1>3, <1>4 DEF CopyTypes

LEMMA NoRoomStep ==
  ASSUME CopyInv, Copying!NoRoom
  PROVE  CopyInv'
<1>1. /\ pc = "start" /\ op \in Copying!Imports /\ at' = start /\ faults' = TRUE
      /\ pc' = "done" /\ rc' = "WriteError"
      /\ UNCHANGED <<op, data, start, failed, buf, written, z>>
  BY DEF Copying!NoRoom, Copying!Return
<1>2. PICK n \in Len(dest)..(Len(data) - 1) :
        dest' = Copying!Removed(Copying!CutBack(
                  SubSeq(dest \o Copying!Zeros(n - Len(dest)), 1, Len(dest))))
  BY DEF Copying!NoRoom
<1>3. /\ CopyTypes /\ AtStart /\ op \in PlainOps /\ dest \in Seq(Symbols)
      /\ Copying!Expected = data /\ data \in Seq(Symbols) /\ Len(data) \in Nat
      /\ start \in Nat /\ start <= Len(data)
      /\ failed \in BOOLEAN /\ faults \in BOOLEAN
  BY <1>1, ImportBegins
<1>4. SubSeq(dest \o Copying!Zeros(n - Len(dest)), 1, Len(dest)) = dest
  <2> DEFINE d == dest
             e == Copying!Zeros(n - Len(dest))
  <2>1. d \in Seq(Symbols) /\ e \in Seq(Symbols) /\ Len(d) \in Nat
    BY <1>2, <1>3, ZeroSeq
  <2> HIDE DEF d, e
  <2>2. SubSeq(d \o e, 1, Len(d)) = SubSeq(d, 1, Len(d))
    BY <2>1, SubSeqOfConcat1
  <2>3. SubSeq(d, 1, Len(d)) = d
    BY <2>1, SubSeqFull
  <2>4. SubSeq(d \o e, 1, Len(d)) = d
    BY <2>2, <2>3
  <2> QED
    BY <2>4 DEF d, e
<1>5. dest' = Copying!Removed(Copying!CutBack(dest))
  BY <1>2, <1>4
<1>6. CopyTypes'
  BY <1>1, <1>3, TypesKept DEF Settled
<1>7. AtDone'
  <2> DEFINE cut == Copying!CutBack(dest)
  <2>1. dest' = IF op = "import_new" THEN Copying!Gone ELSE cut
    BY <1>5 DEF Copying!Removed
  <2>2. op = "import" => LeftOver(cut)
    <3>1. op = "import" => dest = Imported
      BY <1>3 DEF AtStart
    <3>2. /\ Len(cut) = Len(dest)
          /\ \A k \in 1..Len(dest) :
               cut[k] = dest[k] \/ (Len(dest) % FileBlock = 0 /\ k > Len(dest) - FileBlock)
      BY <1>3, CutBackIs
    <3> HIDE DEF cut
    <3> QED
      BY <3>1, <3>2 DEF LeftOver, Copying!InFullLastBlock
  <2>3. cut \in Seq(Symbols)
    BY <1>3, CutBackIs
  <2> HIDE DEF cut
  <2>4. Begun(Copying!Expected, cut, 0) /\ written' = 0
    BY <1>1, <1>3, <2>3, BegunEmpty DEF AtStart
  <2>5. dest' = Copying!Gone \/ Runs(SubSeq(dest', 1, written'), Copying!Expected, 0)
    BY <2>1, <2>4 DEF Begun
  <2>6. Settled /\ Copying!Expected \in Seq(Symbols)
    BY <1>1, <1>3 DEF Settled
  <2> QED
    BY <1>1, <2>1, <2>2, <2>5, <2>6, DoneIs DEF Copying!Imports
<1> QED
  BY <1>1, <1>6, <1>7 DEF CopyInv

LEMMA SourceLostStep ==
  ASSUME CopyInv, Copying!SourceLost
  PROVE  CopyInv'
<1>1. /\ pc = "start" /\ op \in Copying!Imports /\ faults' = TRUE
      /\ dest' = Copying!Removed(dest)
      /\ pc' = "done" /\ rc' = "RangeError"
      /\ UNCHANGED <<op, data, at, start, failed, buf, written, z>>
  BY DEF Copying!SourceLost, Copying!Return
<1>2. /\ CopyTypes /\ AtStart /\ op \in PlainOps /\ dest \in Seq(Symbols)
      /\ Copying!Expected = data /\ data \in Seq(Symbols) /\ Len(data) \in Nat
      /\ at \in Nat /\ at <= Len(data)
      /\ failed \in BOOLEAN /\ faults \in BOOLEAN
  BY <1>1, ImportBegins
<1>3. CopyTypes'
  BY <1>1, <1>2, TypesKept DEF Settled
<1>4. AtDone'
  <2>1. dest' = IF op = "import_new" THEN Copying!Gone ELSE dest
    BY <1>1 DEF Copying!Removed
  <2>2. (dest = IF op = "import" THEN Imported ELSE <<>>) /\ at = start
    BY <1>2 DEF AtStart
  <2>3. Begun(Copying!Expected, dest, 0) /\ written' = 0
    BY <1>1, <1>2, BegunEmpty DEF AtStart
  <2>4. dest' = Copying!Gone \/ Runs(SubSeq(dest', 1, written'), Copying!Expected, 0)
    BY <2>1, <2>3 DEF Begun
  <2>5. Settled /\ Copying!Expected \in Seq(Symbols)
    BY <1>1, <1>2 DEF Settled
  <2> QED
    BY <1>1, <2>1, <2>2, <2>4, <2>5, DoneIs DEF Copying!Imports
<1> QED
  BY <1>1, <1>3, <1>4 DEF CopyInv

LEMMA ResizeStep ==
  ASSUME CopyInv, Copying!Resize
  PROVE  CopyInv'
<1>1. /\ pc = "start" /\ op \in Copying!Imports
      /\ dest' = IF Len(data) < Len(dest) THEN Copying!CutBack(Copying!Upto(dest, Len(data)))
                 ELSE dest \o Copying!Zeros(Len(data) - Len(dest))
      /\ IF data = <<>> THEN at' = start /\ pc' = "done" /\ rc' = "OK"
         ELSE at' = 0 /\ pc' = "read"
      /\ UNCHANGED <<op, data, start, failed, faults, buf, written, z>>
  BY DEF Copying!Resize, Copying!Return, Copying!Goto
<1>2. /\ CopyTypes /\ AtStart /\ op \in PlainOps /\ dest \in Seq(Symbols)
      /\ Copying!Expected = data /\ data \in Seq(Symbols) /\ Len(data) \in Nat
      /\ start \in Nat /\ start <= Len(data)
      /\ failed \in BOOLEAN /\ faults \in BOOLEAN /\ (failed => faults)
  BY <1>1, ImportBegins
<1>3. dest' \in Seq(Symbols) /\ Len(dest') = Len(data)
  <2>1. Len(dest) \in Nat
    BY <1>2
  <2>2. CASE Len(data) < Len(dest)
    <3> DEFINE u == Copying!Upto(dest, Len(data))
    <3>1. PICK k \in Nat : /\ k <= Len(dest) /\ k <= Len(data)
                           /\ (k = Len(data) \/ k = Len(dest)) /\ Piece(dest, 0, k, u)
      BY <1>2, UptoPiece
    <3> HIDE DEF u
    <3>2. u \in Seq(Symbols) /\ Len(u) = k /\ k = Len(data)
      <4>1. Len(data) \in Nat
        BY <1>2
      <4>2. k = Len(data)
        BY <2>1, <2>2, <3>1, <4>1
      <4> QED
        BY <3>1, <4>2 DEF Piece
    <3>3. Copying!CutBack(u) \in Seq(Symbols) /\ Len(Copying!CutBack(u)) = Len(u)
      BY <3>2, CutBackIs
    <3>4. dest' = Copying!CutBack(u)
      BY <1>1, <2>2 DEF u
    <3> QED
      BY <3>2, <3>3, <3>4
  <2>3. CASE ~(Len(data) < Len(dest))
    <3> DEFINE d == Len(data) - Len(dest)
               e == Copying!Zeros(d)
    <3>1. d \in Int /\ d >= 0 /\ d + Len(dest) = Len(data)
      BY <1>2, <2>1, <2>3
    <3>2. dest' = dest \o e
      BY <1>1, <2>3
    <3> HIDE DEF d
    <3>3. e \in Seq(Symbols) /\ Len(e) = d
      <4>1. e \in Seq(Symbols) /\ Len(e) = IF d > 0 THEN d ELSE 0
        BY <3>1, ZeroSeq
      <4> QED
        BY <3>1, <4>1
    <3> HIDE DEF e
    <3>4. dest \o e \in Seq(Symbols) /\ Len(dest \o e) = Len(dest) + Len(e)
      BY <1>2, <3>3, ConcatProperties
    <3> QED
      BY <2>1, <3>1, <3>2, <3>3, <3>4
  <2> QED
    BY <2>2, <2>3
<1>4. at' \in Nat /\ at' <= Len(data)
  BY <1>1, <1>2
<1>5. CopyTypes'
  BY <1>1, <1>2, <1>4, TypesKept DEF Settled
<1>6. /\ op' = op /\ data' = data /\ start' = start /\ written' = 0 /\ ~faults'
      /\ failed' = failed /\ failed = FALSE
  BY <1>1, <1>2 DEF AtStart
<1>7. Settled /\ Copying!Expected' = Copying!Expected /\ Base' = Base
  BY <1>6, GoalSame DEF Settled
<1>8. Begun(Copying!Expected, dest', written')
  BY <1>2, <1>3, <1>6, BegunEmpty
<1>9. CASE data = <<>>
  <2>1. Len(data) = 0 /\ Len(dest') = 0
    BY <1>3, <1>9, EmptySeq
  <2>2. dest' = Copying!Expected
    BY <1>2, <1>3, <1>9, <2>1, EmptySeq
  <2>3. pc' = "done" /\ rc' = "OK" /\ at' = start
    BY <1>1, <1>9
  <2>4. Runs(SubSeq(dest', 1, written'), Copying!Expected, 0)
    BY <1>8 DEF Begun
  <2>5. AtDone'
    BY <1>2, <1>7, <2>2, <2>3, <2>4, DoneIs
  <2> QED
    BY <1>5, <2>3, <2>5 DEF CopyInv
<1>10. CASE data # <<>>
  <2>1. at' = 0 /\ pc' = "read"
    BY <1>1, <1>10
  <2>2. at' = Base' + written'
    BY <1>1, <1>6, <1>7, <2>1 DEF Base, Copying!Imports
  <2>3. Sized' /\ WholeBufs'
    BY <1>1, <1>3, <1>6 DEF Sized, WholeBufs, Copying!Imports
  <2>4. AtRead'
    BY <1>2, <1>6, <1>7, <1>8, <2>2, <2>3 DEF AtRead
  <2> QED
    BY <1>5, <2>1, <2>4 DEF CopyInv
<1> QED
  BY <1>9, <1>10

LEMMA VerifyStep ==
  ASSUME CopyInv, Copying!Verify
  PROVE  CopyInv'
<1>1. /\ CopyTypes /\ AtVerify /\ pc' = "done" /\ at' = start
      /\ rc' = (IF at = written THEN "OK" ELSE "IOError")
      /\ dest' = (IF at = written THEN dest ELSE Copying!Removed(dest))
      /\ UNCHANGED <<op, data, start, failed, faults, buf, written, z>>
  BY DEF Copying!Verify, Copying!Return, CopyInv
<1>2. /\ op \in Copying!Imports /\ Begun(Copying!Expected, dest, written) /\ Sized
      /\ IF at = written THEN failed \/ at = Len(data) ELSE faults
  BY <1>1 DEF AtVerify
<1>3. op \in PlainOps
  BY <1>2 DEF Copying!Imports, PlainOps
<1>4. /\ Copying!Expected \in Seq(Symbols) /\ Len(data) \in Nat
      /\ Len(Copying!Expected) = Len(data)
  BY <1>1, <1>2, <1>3, BaseIs
<1>5. /\ failed \in BOOLEAN /\ faults \in BOOLEAN /\ (failed => faults)
      /\ start \in Nat /\ start <= Len(data)
  BY <1>1 DEF CopyTypes
<1>6. CopyTypes'
  BY <1>1, <1>5, TypesKept DEF Settled
<1>7. Settled /\ written' = written /\ failed' = failed /\ faults' = faults
  BY <1>1 DEF Settled
<1>8. Runs(SubSeq(dest, 1, written), Copying!Expected, 0)
  BY <1>2 DEF Begun
<1>9. CASE at = written
  <2>1. rc' = "OK" /\ dest' = dest
    BY <1>1, <1>9
  <2>2. ASSUME ~failed' PROVE dest' = Copying!Expected
    <3>1. written = Len(Copying!Expected) /\ Len(dest) = written
      BY <1>2, <1>4, <1>7, <1>9, <2>2 DEF Sized
    <3> QED
      BY <1>2, <1>4, <2>1, <3>1, BegunWhole
  <2>3. op \notin {"gzip", "gunzip"}
    BY <1>2 DEF Copying!Imports
  <2>4. AtDone'
    BY <1>1, <1>4, <1>7, <1>8, <2>1, <2>2, <2>3, DoneIs
  <2> QED
    BY <1>1, <1>6, <2>4 DEF CopyInv
<1>10. CASE at # written
  <2>1. rc' = "IOError" /\ dest' = (IF op = "import_new" THEN Copying!Gone ELSE dest)
    BY <1>1, <1>10 DEF Copying!Removed
  <2>2. AtDone'
    BY <1>1, <1>2, <1>4, <1>7, <1>8, <1>10, <2>1, DoneIs
  <2> QED
    BY <1>1, <1>6, <2>2 DEF CopyInv
<1> QED
  BY <1>9, <1>10

-----------------------------------------------------------------------------
\* What follows s in T follows it too when n elements of s are taken away.
LEMMA RunsSplit ==
  ASSUME NEW T \in Seq(Symbols), NEW m \in Nat, NEW s, Runs(s, T, m), NEW n \in 0..Len(s)
  PROVE  /\ Runs(SubSeq(s, 1, n), T, m) /\ Len(SubSeq(s, 1, n)) = n
         /\ Runs(Copying!From(s, n + 1), T, m + n)
         /\ Len(Copying!From(s, n + 1)) = Len(s) - n
<1>1. s \in Seq(Symbols) /\ Len(s) \in Nat
  BY DEF Runs
<1>2. n \in Nat /\ n <= Len(s)
  BY <1>1
<1>3. Piece(s, 0, n, SubSeq(s, 1, n)) /\ Piece(s, n, Len(s), Copying!From(s, n + 1))
  BY <1>1, <1>2, PieceFront, PieceBack
<1>4. 0 \in Nat /\ 0 <= n /\ Len(s) <= Len(s) /\ m + 0 = m
  BY <1>1, <1>2
<1>5. Runs(SubSeq(s, 1, n), T, m + 0)
  BY <1>2, <1>3, <1>4, RunsPiece
<1>6. Runs(Copying!From(s, n + 1), T, m + n)
  BY <1>1, <1>2, <1>3, <1>4, RunsPiece
<1>7. Len(SubSeq(s, 1, n)) = n - 0 /\ Len(Copying!From(s, n + 1)) = Len(s) - n
  BY <1>3, Zenon DEF Piece
<1>8. n - 0 = n
  BY <1>2
<1> QED
  BY <1>4, <1>5, <1>6, <1>7, <1>8

ZTypes ==
  [in : Seq(Symbols), pending : Seq(Symbols), finish : BOOLEAN,
   ret : {"OK", "END", "Z_DATA_ERROR"}]

LEMMA TypesKeptZ ==
  ASSUME CopyTypes, Settled, at' \in Nat, at' <= Len(data), failed' \in BOOLEAN,
         faults' \in BOOLEAN, failed' => faults', z' \in ZTypes
  PROVE  CopyTypes'
BY DEF CopyTypes, Settled, ZTypes

LEMMA GzipRuns ==
  ASSUME CopyTypes, op = "gzip", NEW n \in Nat, n <= Len(data), at <= n, NEW t,
         Piece(data, at, n, t)
  PROVE  Runs(t, Copying!Expected, at)
<1>1. /\ Len(Copying!Expected) = Len(data) + 1
      /\ \A i \in 1..Len(data) : Copying!Expected[i] = data[i]
  BY GoalOfGzip
<1>2. at \in Nat /\ Len(data) \in Nat
  BY DEF CopyTypes
<1>3. /\ t \in Seq(Symbols) /\ Len(t) = n - at /\ Len(t) \in Nat
      /\ \A i \in 1..Len(t) : t[i] = data[at + i]
  BY Zenon DEF Piece
<1>4. at + Len(t) <= Len(Copying!Expected)
  BY <1>1, <1>2, <1>3
<1>5. ASSUME NEW i \in 1..Len(t) PROVE t[i] = Copying!Expected[at + i]
  <2>1. at + i \in 1..Len(data)
    BY <1>2, <1>3
  <2> QED
    BY <1>1, <1>3, <2>1
<1> QED
  BY <1>3, <1>4, <1>5 DEF Runs

LEMMA EndRuns ==
  ASSUME CopyTypes, op = "gzip"
  PROVE  Runs(<<End>>, Copying!Expected, Len(data)) /\ Len(<<End>>) = 1
<1> DEFINE e == <<End>>
<1>1. e \in Seq(Symbols) /\ Len(e) = 1 /\ e[1] = End
  BY DEF Symbols
<1> HIDE DEF e
<1>2. /\ Len(Copying!Expected) = Len(data) + 1 /\ Copying!Expected[Len(data) + 1] = End
      /\ Len(data) \in Nat
  BY GoalOfGzip DEF CopyTypes
<1>3. \A i \in 1..Len(e) : i = 1
  BY <1>1
<1>4. \A i \in 1..Len(e) : e[i] = Copying!Expected[Len(data) + i]
  BY <1>1, <1>2, <1>3
<1>5. Runs(e, Copying!Expected, Len(data)) /\ Len(e) = 1
  BY <1>1, <1>2, <1>4 DEF Runs
<1> QED
  BY <1>5 DEF e

LEMMA GzipReadStep ==
  ASSUME CopyInv, Copying!GzipRead
  PROVE  CopyInv'
<1>1. /\ CopyTypes /\ AtGzip /\ UNCHANGED <<op, data, start, buf, dest, written>>
  BY DEF Copying!GzipRead, CopyInv
<1>2. PICK r \in Copying!Reads :
        /\ Copying!Take(r)
        /\ IF r.fails THEN pc' = "done" /\ rc' = "Z_ERRNO" /\ z' = z
           ELSE LET finish == Len(r.got) < CopySize IN
             /\ z' = [z EXCEPT !.pending = @ \o r.got \o (IF finish THEN <<End>> ELSE <<>>),
                               !.finish = finish]
             /\ pc' = "deflate"
  BY DEF Copying!GzipRead, Copying!Goto, Copying!Return
<1>3. TakenFrom(r.got, r.fails)
  BY <1>1, <1>2, ReadIs
<1>4. /\ at' = at + Len(r.got) /\ at' \in Nat /\ at' <= Len(data)
      /\ Len(r.got) <= CopySize /\ Piece(data, at, at', r.got)
      /\ (~r.fails => Len(r.got) = CopySize \/ at' = Len(data))
      /\ failed' = (failed \/ r.fails) /\ faults' = (faults \/ r.fails) /\ r.fails \in BOOLEAN
  BY <1>3, Zenon DEF TakenFrom
<1>5. /\ op = "gzip" /\ Begun(Copying!Expected, dest, written) /\ Sized /\ ~faults /\ ~z.finish
      /\ Runs(z.pending, Copying!Expected, written) /\ at = written + Len(z.pending)
  BY <1>1 DEF AtGzip
<1>6. op' = op /\ data' = data /\ start' = start /\ dest' = dest /\ written' = written
  BY <1>1
<1>7. /\ failed \in BOOLEAN /\ faults \in BOOLEAN /\ (failed => faults) /\ at \in Nat
      /\ at <= Len(data) /\ z \in ZTypes
  BY <1>1 DEF CopyTypes, ZTypes
<1>8. Settled /\ Copying!Expected' = Copying!Expected
  BY <1>6, GoalSame DEF Settled
<1>9. /\ Copying!Expected \in Seq(Symbols) /\ Len(Copying!Expected) = Len(data) + 1
  BY <1>1, <1>5, GoalOfGzip
<1>10. written \in Nat /\ Len(data) \in Nat
  BY <1>1, <1>5 DEF Begun, CopyTypes
<1>11. Begun(Copying!Expected', dest', written') /\ Sized'
  BY <1>5, <1>6, <1>8 DEF Sized
<1>12. CASE r.fails
  <2>1. pc' = "done" /\ rc' = "Z_ERRNO" /\ z' = z
    BY <1>2, <1>12
  <2>2. failed' \in BOOLEAN /\ faults' \in BOOLEAN /\ faults'
    BY <1>4, <1>7, <1>12
  <2>3. CopyTypes'
    BY <1>1, <1>4, <1>8, <2>1, <2>2, TypesKept
  <2>4. AtDone'
    BY <1>5, <1>6, <1>8, <1>9, <1>11, <2>1, <2>2, GivenUp DEF Copying!Imports
  <2> QED
    BY <2>1, <2>3, <2>4 DEF CopyInv
<1>13. CASE ~r.fails
  <2> DEFINE finish == Len(r.got) < CopySize
             tail == IF finish THEN <<End>> ELSE <<>>
             p == z.pending
             g == r.got
             q == p \o g
             all == q \o tail
  <2>1. pc' = "deflate" /\ z' = [z EXCEPT !.pending = all, !.finish = finish]
    BY <1>2, <1>13
  <2>2. failed' = failed /\ faults' = faults
    BY <1>4, <1>7, <1>13
  <2>3. Runs(g, Copying!Expected, written + Len(p))
    BY <1>1, <1>4, <1>5, <1>7, GzipRuns
  <2>4. p \in Seq(Symbols) /\ g \in Seq(Symbols) /\ Len(p) \in Nat /\ Len(g) \in Nat
    BY <1>5, <2>3 DEF Runs
  <2>5. /\ finish \in BOOLEAN /\ (finish => at' = Len(data) /\ tail = <<End>>)
        /\ (~finish => tail = <<>>)
    BY <1>4, <1>13, <2>4, CopySizeIs
  <2>6. Runs(p, Copying!Expected, written)
    BY <1>5
  <2>7. at' = written + Len(p) + Len(g)
    BY <1>4, <1>5
  <2> HIDE DEF p, g, finish
  <2>8. Runs(q, Copying!Expected, written) /\ Len(q) = Len(p) + Len(g)
    BY <1>9, <1>10, <2>3, <2>4, <2>6, RunsJoin
  <2>9. q \in Seq(Symbols) /\ Len(q) \in Nat /\ written + Len(q) = at'
    BY <1>10, <2>4, <2>7, <2>8 DEF Runs
  <2> HIDE DEF q, tail
  <2>10. Runs(tail, Copying!Expected, written + Len(q)) /\ Len(tail) = IF finish THEN 1 ELSE 0
    <3>1. CASE finish
      BY <1>1, <1>5, <2>5, <2>9, <3>1, EndRuns
    <3>2. CASE ~finish
      <4>1. at' <= Len(Copying!Expected) /\ Len(<<>>) = 0
        BY <1>4, <1>9, <1>10
      <4> QED
        BY <1>4, <1>9, <2>5, <2>9, <3>2, <4>1, RunsEmpty
    <3> QED
      BY <2>5, <3>1, <3>2
  <2>11. tail \in Seq(Symbols)
    BY <2>10 DEF Runs
  <2>12. Runs(all, Copying!Expected, written) /\ Len(all) = Len(q) + Len(tail)
    BY <1>9, <1>10, <2>8, <2>9, <2>10, <2>11, RunsJoin
  <2>13. all \in Seq(Symbols)
    BY <2>12 DEF Runs
  <2> HIDE DEF all
  <2>14. z'.pending = all /\ z'.finish = finish /\ z' \in ZTypes
    BY <1>7, <2>1, <2>5, <2>13 DEF ZTypes
  <2>15. written' + Len(z'.pending) = IF z'.finish THEN Len(data') + 1 ELSE at'
    BY <1>4, <1>6, <1>10, <2>5, <2>9, <2>10, <2>12, <2>14
  <2>16. CopyTypes'
    BY <1>1, <1>4, <1>7, <1>8, <2>2, <2>14, TypesKeptZ
  <2>17. AtDeflate'
    BY <1>5, <1>6, <1>8, <1>11, <2>2, <2>12, <2>14, <2>15 DEF AtDeflate, Deflated
  <2> QED
    BY <2>1, <2>16, <2>17 DEF CopyInv
<1> QED
  BY <1>12, <1>13

LEMMA DeflateStep ==
  ASSUME CopyInv, Copying!Deflate
  PROVE  CopyInv'
<1>1. /\ CopyTypes /\ AtDeflate /\ pc' = "gzip_write"
      /\ UNCHANGED <<op, data, at, start, failed, faults, dest, written>>
  BY DEF Copying!Deflate, CopyInv, Copying!Goto
<1>2. PICK n \in 0..CopySize :
        /\ n <= Len(z.pending)
        /\ z.finish => n = Len(Copying!Upto(z.pending, CopySize))
        /\ buf' = SubSeq(z.pending, 1, n)
        /\ z' = [z EXCEPT !.pending = Copying!From(@, n + 1),
                          !.ret = IF z.finish /\ n = Len(z.pending) THEN "END" ELSE "OK"]
  BY DEF Copying!Deflate
<1>3. /\ op = "gzip" /\ Begun(Copying!Expected, dest, written) /\ Sized /\ ~faults
      /\ Runs(z.pending, Copying!Expected, written)
      /\ written + Len(z.pending) = IF z.finish THEN Len(data) + 1 ELSE at
  BY <1>1 DEF AtDeflate, Deflated
<1>4. /\ op' = op /\ data' = data /\ start' = start /\ dest' = dest /\ written' = written
      /\ at' = at /\ failed' = failed /\ faults' = faults
  BY <1>1
<1>5. /\ failed \in BOOLEAN /\ faults \in BOOLEAN /\ (failed => faults) /\ at \in Nat
      /\ at <= Len(data) /\ z \in ZTypes
  BY <1>1 DEF CopyTypes, ZTypes
<1>6. Settled /\ Copying!Expected' = Copying!Expected
  BY <1>4, GoalSame DEF Settled
<1>7. Copying!Expected \in Seq(Symbols)
  BY <1>1, <1>3, GoalOfGzip
<1>8. written \in Nat /\ Len(data) \in Nat
  BY <1>1, <1>3 DEF Begun, CopyTypes
<1>9. Begun(Copying!Expected', dest', written') /\ Sized'
  BY <1>3, <1>4, <1>6 DEF Sized
<1> DEFINE p == z.pending
           b == SubSeq(p, 1, n)
           q == Copying!From(p, n + 1)
           end == IF z.finish /\ n = Len(p) THEN "END" ELSE "OK"
<1>10. p \in Seq(Symbols) /\ Len(p) \in Nat
  BY <1>3 DEF Runs
<1>11. n \in 0..Len(p) /\ n \in Nat /\ n <= CopySize
  BY <1>2, <1>10, CopySizeIs
<1>12. z.finish => n = CopySize \/ n = Len(p)
  <2>1. PICK k \in Nat : /\ k <= Len(p) /\ k <= CopySize /\ (k = CopySize \/ k = Len(p))
                         /\ Piece(p, 0, k, Copying!Upto(p, CopySize))
    BY <1>10, CopySizeIs, UptoPiece
  <2>2. Len(Copying!Upto(p, CopySize)) = k
    BY <2>1 DEF Piece
  <2> QED
    BY <1>2, <2>1, <2>2
<1>13. /\ Runs(b, Copying!Expected, written) /\ Len(b) = n
       /\ Runs(q, Copying!Expected, written + n) /\ Len(q) = Len(p) - n
  <2>1. Runs(p, Copying!Expected, written)
    BY <1>3
  <2> HIDE DEF p
  <2> QED
    BY <1>7, <1>8, <1>11, <2>1, RunsSplit
<1>14. buf' = b /\ z' = [z EXCEPT !.pending = q, !.ret = end]
  BY <1>2
<1>15. q \in Seq(Symbols) /\ end \in {"OK", "END", "Z_DATA_ERROR"}
  BY <1>13 DEF Runs
<1>16. end = "END" <=> z.finish /\ n = Len(p)
  OBVIOUS
<1> HIDE DEF b, q, end
<1>17. z'.pending = q /\ z'.ret = end /\ z'.finish = z.finish /\ z' \in ZTypes
  BY <1>5, <1>14, <1>15 DEF ZTypes
<1> HIDE DEF p
<1>18. Len(buf') = n /\ Len(z'.pending) = Len(p) - n
  BY <1>13, <1>14, <1>17
<1>19. /\ Runs(buf', Copying!Expected', written') /\ Len(buf') <= CopySize
       /\ Runs(z'.pending, Copying!Expected', written' + Len(buf'))
  BY <1>4, <1>6, <1>11, <1>13, <1>14, <1>17
<1>20. written + Len(p) = IF z.finish THEN Len(data) + 1 ELSE at
  BY <1>3 DEF p
<1>21. Deflated(written + Len(buf) + Len(z.pending))'
  <2>1. written' + Len(buf') + Len(z'.pending) = written + Len(p)
    BY <1>4, <1>8, <1>10, <1>11, <1>18
  <2> QED
    BY <1>4, <1>17, <1>20, <2>1 DEF Deflated
<1>22. z'.finish /\ Len(buf') < CopySize => Len(z'.pending) = 0 /\ z'.ret = "END"
  BY <1>10, <1>11, <1>12, <1>16, <1>17, <1>18
<1>23. AtGzipWrite'
  BY <1>3, <1>4, <1>6, <1>9, <1>19, <1>21, <1>22 DEF AtGzipWrite
<1>24. CopyTypes'
  BY <1>1, <1>4, <1>5, <1>6, <1>17, TypesKeptZ
<1> QED
  BY <1>1, <1>23, <1>24 DEF CopyInv

LEMMA GzipWriteStep ==
  ASSUME CopyInv, Copying!GzipWrite
  PROVE  CopyInv'
<1>1. /\ CopyTypes /\ AtGzipWrite
      /\ UNCHANGED <<op, data, at, start, failed, z>>
  BY DEF Copying!GzipWrite, CopyInv
<1>2. PICK whole \in BOOLEAN :
        /\ Copying!Put(buf, whole)
        /\ IF ~whole THEN pc' = "done" /\ rc' = "Z_ERRNO"
           ELSE IF Len(buf) = CopySize THEN pc' = "deflate"
           ELSE IF ~z.finish THEN pc' = "gzip"
           ELSE pc' = "done" /\ rc' = IF z.ret = "END" THEN "OK" ELSE z.ret
  BY DEF Copying!GzipWrite, Copying!Goto, Copying!Return
<1>3. /\ op = "gzip" /\ Begun(Copying!Expected, dest, written) /\ Sized /\ ~faults
      /\ Runs(buf, Copying!Expected, written) /\ Len(buf) <= CopySize
      /\ Runs(z.pending, Copying!Expected, written + Len(buf))
      /\ written + Len(buf) + Len(z.pending) = IF z.finish THEN Len(data) + 1 ELSE at
      /\ z.finish /\ Len(buf) < CopySize => Len(z.pending) = 0 /\ z.ret = "END"
  BY <1>1 DEF AtGzipWrite, Deflated
<1>4. /\ op' = op /\ data' = data /\ start' = start /\ at' = at /\ failed' = failed /\ z' = z
  BY <1>1
<1>5. Copying!Expected \in Seq(Symbols) /\ Len(Copying!Expected) = Len(data) + 1
  BY <1>1, <1>3, GoalOfGzip
<1>6. /\ Begun(Copying!Expected, dest', written') /\ faults' = (faults \/ ~whole)
      /\ \E n : Put(buf, n) /\ whole = (n = Len(buf))
  BY <1>2, <1>3, <1>5, PutStep
<1>7. PICK n : Put(buf, n) /\ whole = (n = Len(buf))
  BY <1>6
<1>8. /\ failed \in BOOLEAN /\ faults \in BOOLEAN /\ (failed => faults)
      /\ at \in Nat /\ at <= Len(data)
  BY <1>1 DEF CopyTypes
<1>9. CopyTypes'
  BY <1>1, <1>4, <1>6, <1>8, TypesKept DEF Settled
<1>10. Settled /\ Copying!Expected' = Copying!Expected
  BY <1>4, GoalSame DEF Settled
<1>11. CASE ~whole
  <2>1. pc' = "done" /\ rc' = "Z_ERRNO" /\ faults'
    BY <1>2, <1>6, <1>11
  <2>2. AtDone'
    BY <1>3, <1>5, <1>6, <1>10, <2>1, GivenUp DEF Copying!Imports
  <2> QED
    BY <1>9, <2>1, <2>2 DEF CopyInv
<1>12. CASE whole
  <2>1. n = Len(buf) /\ faults' = faults
    BY <1>6, <1>7, <1>8, <1>12
  <2>2. /\ written' = written + Len(buf)
        /\ Len(dest') = (IF written' <= Len(dest) THEN Len(dest) ELSE written')
    BY <1>7, <2>1, Zenon DEF Put
  <2>3. Len(dest) = written /\ written \in Nat /\ Len(buf) \in Nat
    BY <1>3 DEF Begun, Runs, Sized, Copying!Imports
  <2>4. Len(dest') = written'
    BY <2>2, <2>3
  <2>5. Begun(Copying!Expected', dest', written') /\ Sized'
    BY <1>3, <1>4, <1>6, <1>10, <2>4 DEF Sized, Copying!Imports
  <2>6. Runs(z'.pending, Copying!Expected', written')
    BY <1>3, <1>4, <1>10, <2>2
  <2>7. written' + Len(z'.pending) = IF z'.finish THEN Len(data') + 1 ELSE at'
    BY <1>3, <1>4, <2>2
  <2>8. CASE Len(buf) = CopySize
    <3>1. pc' = "deflate"
      BY <1>2, <1>12, <2>8
    <3>2. AtDeflate'
      BY <1>3, <1>4, <2>1, <2>5, <2>6, <2>7 DEF AtDeflate, Deflated
    <3> QED
      BY <1>9, <3>1, <3>2 DEF CopyInv
  <2>9. CASE Len(buf) # CopySize /\ ~z.finish
    <3>1. pc' = "gzip"
      BY <1>2, <1>12, <2>9
    <3>2. AtGzip'
      BY <1>3, <1>4, <2>1, <2>5, <2>6, <2>7, <2>9 DEF AtGzip
    <3> QED
      BY <1>9, <3>1, <3>2 DEF CopyInv
  <2>10. CASE Len(buf) # CopySize /\ z.finish
    <3>1. Len(buf) < CopySize
      BY <1>3, <2>3, <2>10, CopySizeIs
    <3>2. Len(z.pending) = 0 /\ z.ret = "END"
      BY <1>3, <2>10, <3>1
    <3>3. pc' = "done" /\ rc' = "OK"
      BY <1>2, <1>12, <2>10, <3>2
    <3>4. written' = Len(Copying!Expected)
      BY <1>3, <1>5, <2>2, <2>3, <2>10, <3>2
    <3>5. dest' = Copying!Expected
      BY <1>5, <1>6, <2>4, <3>4, BegunWhole
    <3>6. AtDone'
      BY <1>3, <1>5, <1>6, <1>10, <3>3, <3>5, AllMoved DEF Copying!Imports
    <3> QED
      BY <1>9, <3>3, <3>6 DEF CopyInv
  <2> QED
    BY <2>8, <2>9, <2>10
<1> QED
  BY <1>11, <1>12

-----------------------------------------------------------------------------
LEMMA GunzipReadStep ==
  ASSUME CopyInv, Copying!GunzipRead
  PROVE  CopyInv'
<1>1. /\ CopyTypes /\ AtGunzip /\ UNCHANGED <<op, data, start, buf, dest, written>>
  BY DEF Copying!GunzipRead, CopyInv
<1>2. PICK r \in Copying!Reads :
        /\ Copying!Take(r) /\ z' = [z EXCEPT !.in = r.got]
        /\ IF r.fails THEN pc' = "done" /\ rc' = "Z_ERRNO"
           ELSE IF r.got = <<>> THEN pc' = "done" /\ rc' = "Z_DATA_ERROR"
           ELSE pc' = "inflate"
  BY DEF Copying!GunzipRead, Copying!Goto, Copying!Return
<1>3. TakenFrom(r.got, r.fails)
  BY <1>1, <1>2, ReadIs
<1>4. /\ at' = at + Len(r.got) /\ at' \in Nat /\ at' <= Len(data)
      /\ Len(r.got) <= CopySize /\ Piece(data, at, at', r.got)
      /\ (~r.fails => Len(r.got) = CopySize \/ at' = Len(data))
      /\ failed' = (failed \/ r.fails) /\ faults' = (faults \/ r.fails) /\ r.fails \in BOOLEAN
  BY <1>3, Zenon DEF TakenFrom
<1>5. /\ op = "gunzip" /\ Begun(Copying!Expected, dest, written) /\ Sized /\ ~faults
      /\ z.ret = "OK" /\ Len(z.pending) = 0 /\ written = 2 * at /\ at <= DataEnd
  BY <1>1 DEF AtGunzip
<1>6. op' = op /\ data' = data /\ start' = start /\ dest' = dest /\ written' = written
  BY <1>1
<1>7. /\ failed \in BOOLEAN /\ faults \in BOOLEAN /\ (failed => faults) /\ at \in Nat
      /\ at <= Len(data) /\ z \in ZTypes /\ data \in Seq(Symbols) /\ Len(data) \in Nat
  BY <1>1 DEF CopyTypes, ZTypes
<1>8. Settled /\ Copying!Expected' = Copying!Expected /\ DataEnd' = DataEnd
  BY <1>6, GoalSame DEF Settled
<1>9. Copying!Expected \in Seq(Symbols) /\ Len(Copying!Expected) = 2 * DataEnd
  BY <1>1, <1>5, GoalOfGunzip
<1>10. /\ DataEnd \in Nat /\ DataEnd <= Len(data)
       /\ \A i \in 1..DataEnd : data[i] \notin {End, Bad}
  BY <1>7, DataEndIs
<1>11. Begun(Copying!Expected', dest', written') /\ Sized'
  BY <1>5, <1>6, <1>8 DEF Sized
<1>12. r.got \in Seq(Symbols) /\ Len(r.got) = at' - at
  BY <1>4 DEF Piece
<1>13. z' \in ZTypes /\ z'.in = r.got /\ z'.ret = "OK" /\ z'.pending = z.pending
  BY <1>2, <1>5, <1>7, <1>12 DEF ZTypes
<1>14. CopyTypes'
  <2>1. failed' \in BOOLEAN /\ faults' \in BOOLEAN /\ (failed' => faults')
    BY <1>4, <1>7
  <2> QED
    BY <1>1, <1>4, <1>8, <1>13, <2>1, TypesKeptZ
<1>15. CASE r.fails
  <2>1. pc' = "done" /\ rc' = "Z_ERRNO" /\ faults'
    BY <1>2, <1>4, <1>15
  <2>2. AtDone'
    BY <1>5, <1>6, <1>8, <1>9, <1>11, <2>1, GivenUp DEF Copying!Imports
  <2> QED
    BY <1>14, <2>1, <2>2 DEF CopyInv
<1>16. CASE ~r.fails /\ r.got = <<>>
  <2>1. pc' = "done" /\ rc' = "Z_DATA_ERROR"
    BY <1>2, <1>16
  <2>2. at = Len(data)
    <3>1. Len(r.got) = 0
      BY <1>16, EmptySeq
    <3> QED
      BY <1>4, <1>7, <1>16, <3>1, CopySizeIs
  <2>3. \A i \in 1..Len(data) : data[i] # End
    BY <1>5, <1>10, <2>2
  <2>4. End \notin Copying!Range(data)
    <3>1. DOMAIN data = 1..Len(data)
      BY <1>7
    <3> QED
      BY <2>3, <3>1 DEF Copying!Range
  <2>5. ~Copying!WellFormed
    BY <1>5, <2>4 DEF Copying!WellFormed
  <2>6. AtDone'
    BY <1>5, <1>6, <1>8, <1>9, <1>11, <2>1, <2>5, GivenUp DEF Copying!Imports
  <2> QED
    BY <1>14, <2>1, <2>6 DEF CopyInv
<1>17. CASE ~r.fails /\ r.got # <<>>
  <2>1. pc' = "inflate" /\ ~faults'
    BY <1>2, <1>4, <1>5, <1>17
  <2>2. at' - Len(z'.in) = at /\ Len(z'.in) <= at' /\ written' + Len(z'.pending) = 2 * at
    <3>1. Len(z'.in) = Len(r.got) /\ Len(z'.pending) = 0
      BY <1>5, <1>13
    <3>2. Len(r.got) = at' - at /\ at \in Nat /\ at' \in Nat
      BY <1>4, <1>7, <1>12
    <3>3. \A a, b, l \in Int : a >= 0 /\ l = b - a => b - l = a /\ l <= b
      OBVIOUS
    <3>4. Len(z'.in) = at' - at /\ Len(z'.in) \in Int /\ at \in Int /\ at >= 0 /\ at' \in Int
      BY <3>1, <3>2
    <3>5. at' - Len(z'.in) = at /\ Len(z'.in) <= at'
      BY <3>3, <3>4
    <3>6. written' + Len(z'.pending) = 2 * at
      BY <1>5, <1>6, <3>1, <3>2
    <3> QED
      BY <3>5, <3>6
  <2>3. Inflated(written + Len(z.pending))'
    BY <1>4, <1>5, <1>6, <1>8, <1>13, <2>2 DEF Inflated
  <2>4. Runs(z'.pending, Copying!Expected', written')
    <3>1. z.pending = <<>>
      BY <1>5, <1>7, EmptySeq DEF ZTypes
    <3>2. written \in Nat /\ written <= Len(Copying!Expected)
      BY <1>5, <1>7, <1>9, <1>10
    <3> QED
      BY <1>6, <1>8, <1>9, <1>13, <3>1, <3>2, RunsEmpty
  <2>5. AtInflate'
    BY <1>5, <1>6, <1>11, <2>1, <2>3, <2>4 DEF AtInflate
  <2> QED
    BY <1>14, <2>1, <2>5 DEF CopyInv
<1> QED
  BY <1>15, <1>16, <1>17

LEMMA GunzipWriteStep ==
  ASSUME CopyInv, Copying!GunzipWrite
  PROVE  CopyInv'
<1>1. /\ CopyTypes /\ AtGunzipWrite
      /\ UNCHANGED <<op, data, at, start, failed, z>>
  BY DEF Copying!GunzipWrite, CopyInv
<1>2. PICK whole \in BOOLEAN :
        /\ Copying!Put(buf, whole)
        /\ IF ~whole THEN pc' = "done" /\ rc' = "Z_ERRNO"
           ELSE IF Len(buf) = CopySize THEN pc' = "inflate"
           ELSE IF z.ret = "END" THEN pc' = "done" /\ rc' = "OK"
           ELSE pc' = "gunzip"
  BY DEF Copying!GunzipWrite, Copying!Goto, Copying!Return
<1>3. /\ op = "gunzip" /\ Begun(Copying!Expected, dest, written) /\ Sized /\ ~faults
      /\ Runs(buf, Copying!Expected, written) /\ Len(buf) <= CopySize
      /\ Runs(z.pending, Copying!Expected, written + Len(buf))
      /\ Inflated(written + Len(buf) + Len(z.pending))
      /\ Len(buf) < CopySize => Len(z.pending) = 0 /\ Len(z.in) = 0
  BY <1>1 DEF AtGunzipWrite
<1>4. /\ op' = op /\ data' = data /\ start' = start /\ at' = at /\ failed' = failed /\ z' = z
  BY <1>1
<1>5. Copying!Expected \in Seq(Symbols) /\ Len(Copying!Expected) = 2 * DataEnd
  BY <1>1, <1>3, GoalOfGunzip
<1>6. /\ Begun(Copying!Expected, dest', written') /\ faults' = (faults \/ ~whole)
      /\ \E n : Put(buf, n) /\ whole = (n = Len(buf))
  BY <1>2, <1>3, <1>5, PutStep
<1>7. PICK n : Put(buf, n) /\ whole = (n = Len(buf))
  BY <1>6
<1>8. /\ failed \in BOOLEAN /\ faults \in BOOLEAN /\ (failed => faults)
      /\ at \in Nat /\ at <= Len(data)
  BY <1>1 DEF CopyTypes
<1>9. CopyTypes'
  BY <1>1, <1>4, <1>6, <1>8, TypesKept DEF Settled
<1>10. Settled /\ Copying!Expected' = Copying!Expected /\ DataEnd' = DataEnd
  BY <1>4, GoalSame DEF Settled
<1>11. CASE ~whole
  <2>1. pc' = "done" /\ rc' = "Z_ERRNO" /\ faults'
    BY <1>2, <1>6, <1>11
  <2>2. AtDone'
    BY <1>3, <1>5, <1>6, <1>10, <2>1, GivenUp DEF Copying!Imports
  <2> QED
    BY <1>9, <2>1, <2>2 DEF CopyInv
<1>12. CASE whole
  <2>1. n = Len(buf) /\ faults' = faults
    BY <1>6, <1>7, <1>8, <1>12
  <2>2. /\ written' = written + Len(buf)
        /\ Len(dest') = (IF written' <= Len(dest) THEN Len(dest) ELSE written')
    BY <1>7, <2>1, Zenon DEF Put
  <2>3. Len(dest) = written /\ written \in Nat /\ Len(buf) \in Nat
    BY <1>3 DEF Begun, Runs, Sized, Copying!Imports
  <2>4. Len(dest') = written' /\ written' \in Nat
    BY <2>2, <2>3
  <2>5. Begun(Copying!Expected', dest', written') /\ Sized'
    BY <1>3, <1>4, <1>6, <1>10, <2>4 DEF Sized, Copying!Imports
  <2>6. Runs(z'.pending, Copying!Expected', written')
    BY <1>3, <1>4, <1>10, <2>2
  <2>7. Inflated(written' + Len(z.pending))
    BY <1>3, <2>2
  <2>8. CASE Len(buf) = CopySize
    <3>1. pc' = "inflate"
      BY <1>2, <1>12, <2>8
    <3>2. Inflated(written + Len(z.pending))'
      BY <1>4, <1>10, <2>7 DEF Inflated
    <3>3. AtInflate'
      BY <1>3, <1>4, <2>1, <2>5, <2>6, <3>2 DEF AtInflate
    <3> QED
      BY <1>9, <3>1, <3>3 DEF CopyInv
  <2>9. CASE Len(buf) # CopySize
    <3>1. Len(z.pending) = 0 /\ Len(z.in) = 0
      <4>1. Len(buf) < CopySize
        BY <1>3, <2>3, <2>9, CopySizeIs
      <4> QED
        BY <1>3, <4>1
    <3>2. CASE z.ret = "END"
      <4>1. pc' = "done" /\ rc' = "OK"
        BY <1>2, <1>12, <2>9, <3>2
      <4>2. written' = Len(Copying!Expected)
        BY <1>5, <2>4, <2>7, <3>1, <3>2 DEF Inflated
      <4>3. dest' = Copying!Expected
        BY <1>5, <1>6, <2>4, <4>2, BegunWhole
      <4>4. AtDone'
        BY <1>3, <1>5, <1>6, <1>10, <4>1, <4>3, AllMoved DEF Copying!Imports
      <4> QED
        BY <1>9, <4>1, <4>4 DEF CopyInv
    <3>3. CASE z.ret # "END"
      <4>1. pc' = "gunzip"
        BY <1>2, <1>12, <2>9, <3>3
      <4>2. z.ret = "OK" /\ written' = 2 * at /\ at <= DataEnd
        BY <1>8, <2>4, <2>7, <3>1, <3>3 DEF Inflated
      <4>3. AtGunzip'
        BY <1>3, <1>4, <1>10, <2>1, <2>5, <3>1, <4>2 DEF AtGunzip
      <4> QED
        BY <1>9, <4>1, <4>3 DEF CopyInv
    <3> QED
      BY <3>2, <3>3
  <2> QED
    BY <2>8, <2>9
<1> QED
  BY <1>11, <1>12

\* The bytes that data[m + 1], ..., data[n] stand for.
LEMMA TwiceRuns ==
  ASSUME CopyTypes, op = "gunzip", NEW m \in Nat, NEW n \in Nat, m <= n, n <= DataEnd,
         NEW t, Piece(data, m, n, t)
  PROVE  /\ Runs(Copying!Twice(t), Copying!Expected, 2 * m)
         /\ Len(Copying!Twice(t)) = 2 * (n - m)
<1>1. /\ Len(Copying!Expected) = 2 * DataEnd
      /\ \A i \in 1..(2 * DataEnd) : Copying!Expected[i] = data[(i + 1) \div 2]
  BY GoalOfGunzip
<1>2. DataEnd \in Nat
  BY DataEndIs DEF CopyTypes
<1>3. /\ t \in Seq(Symbols) /\ Len(t) = n - m /\ Len(t) \in Nat
      /\ \A i \in 1..Len(t) : t[i] = data[m + i]
  BY Zenon DEF Piece
<1> DEFINE u == Copying!Twice(t)
<1>4. /\ u \in Seq(Symbols) /\ Len(u) = 2 * Len(t)
      /\ \A i \in 1..(2 * Len(t)) : u[i] = t[(i + 1) \div 2]
  BY <1>3, TwiceIs
<1> HIDE DEF u
<1>5. Len(u) = 2 * (n - m) /\ Len(u) \in Nat /\ 2 * m + Len(u) <= Len(Copying!Expected)
  BY <1>1, <1>2, <1>3, <1>4
<1>6. ASSUME NEW i \in 1..Len(u) PROVE u[i] = Copying!Expected[2 * m + i]
  <2>1. /\ i \in 1..(2 * Len(t)) /\ 2 * m + i \in 1..(2 * DataEnd)
        /\ (i + 1) \div 2 \in 1..Len(t)
        /\ ((2 * m + i) + 1) \div 2 = m + ((i + 1) \div 2)
    BY <1>1, <1>2, <1>3, <1>4, <1>5
  <2>2. u[i] = t[(i + 1) \div 2]
    BY <1>4, <2>1
  <2>3. t[(i + 1) \div 2] = data[m + ((i + 1) \div 2)]
    BY <1>3, <2>1
  <2>4. Copying!Expected[2 * m + i] = data[((2 * m + i) + 1) \div 2]
    BY <1>1, <2>1
  <2> QED
    BY <2>1, <2>2, <2>3, <2>4
<1>7. Runs(u, Copying!Expected, 2 * m) /\ Len(u) = 2 * (n - m)
  BY <1>4, <1>5, <1>6 DEF Runs
<1> QED
  BY <1>7 DEF u

\* What inflate takes of the data it has: all that come before the end.
GoodOf(s) == IF StopIn(s) = 0 THEN s ELSE SubSeq(s, 1, StopIn(s) - 1)

LEMMA GoodIs ==
  ASSUME CopyTypes, z.ret = "OK", NEW n, Inflated(n)
  PROVE  /\ n = 2 * (at - Len(z.in)) /\ at - Len(z.in) \in Nat
         /\ z.in \in Seq(Symbols) /\ Len(z.in) \in Nat
         /\ \E k \in Nat :
              /\ at - Len(z.in) <= k /\ k <= DataEnd /\ k <= at
              /\ Piece(data, at - Len(z.in), k, GoodOf(z.in))
              /\ StopIn(z.in) = 0 => k = at
              /\ StopIn(z.in) # 0 =>
                   /\ k = DataEnd /\ k < Len(data) /\ data[k + 1] = z.in[StopIn(z.in)]
                   /\ Piece(data, k, at, Copying!From(z.in, StopIn(z.in)))
<1>1. /\ n = 2 * (at - Len(z.in)) /\ Len(z.in) <= at /\ at - Len(z.in) <= DataEnd
      /\ Piece(data, at - Len(z.in), at, z.in)
  BY DEF Inflated
<1>2. /\ at \in Nat /\ data \in Seq(Symbols) /\ at <= Len(data) /\ Len(data) \in Nat
  BY DEF CopyTypes
<1>3. z.in \in Seq(Symbols) /\ Len(z.in) \in Nat
  BY <1>1 DEF Piece
<1> DEFINE s == z.in
           c == at - Len(s)
<1>4. /\ s \in Seq(Symbols) /\ Len(s) \in Nat /\ c \in Nat /\ c <= DataEnd
      /\ c + Len(s) = at /\ Piece(data, c, at, s)
  BY <1>1, <1>2, <1>3
<1>5. \A i \in 1..Len(s) : s[i] = data[c + i]
  BY <1>4, Zenon DEF Piece
<1>6. /\ DataEnd \in Nat /\ DataEnd <= Len(data)
      /\ \A i \in 1..DataEnd : data[i] \notin {End, Bad}
      /\ DataEnd < Len(data) => data[DataEnd + 1] \in {End, Bad}
  BY <1>2, DataEndIs
<1>7. n = 2 * c
  BY <1>1
<1> HIDE DEF s, c
<1> DEFINE stop == StopIn(s)
<1>8. /\ stop \in 0..Len(s)
      /\ stop = 0 => \A i \in 1..Len(s) : s[i] \notin {End, Bad}
      /\ stop # 0 => s[stop] \in {End, Bad} /\ \A i \in 1..(stop - 1) : s[i] \notin {End, Bad}
  BY <1>4, StopIs
<1>9. GoodOf(s) = IF stop = 0 THEN s ELSE SubSeq(s, 1, stop - 1)
  BY DEF GoodOf
<1> HIDE DEF stop
<1>10. CASE stop = 0
  <2>1. at <= DataEnd
    <3>1. SUFFICES ASSUME DataEnd < at PROVE FALSE
      BY <1>2, <1>6
    <3>2. /\ (DataEnd + 1) - c \in 1..Len(s) /\ c + ((DataEnd + 1) - c) = DataEnd + 1
          /\ DataEnd < Len(data)
      BY <1>2, <1>4, <1>6, <3>1
    <3>3. s[(DataEnd + 1) - c] = data[DataEnd + 1]
      BY <1>5, <3>2
    <3> QED
      BY <1>6, <1>8, <1>10, <3>2, <3>3
  <2>2. GoodOf(s) = s /\ c <= at /\ at <= at
    BY <1>2, <1>4, <1>9, <1>10
  <2>3. /\ c <= at /\ at <= DataEnd /\ at <= at /\ Piece(data, c, at, GoodOf(s))
        /\ stop = 0 => at = at
        /\ stop # 0 => /\ at = DataEnd /\ at < Len(data) /\ data[at + 1] = s[stop]
                       /\ Piece(data, at, at, Copying!From(s, stop))
    BY <1>4, <1>10, <2>1, <2>2
  <2> QED
    BY <1>2, <1>3, <1>4, <1>7, <2>3 DEF s, c, stop
<1>11. CASE stop # 0
  <2> DEFINE k == c + (stop - 1)
  <2>1. stop - 1 \in Nat /\ stop - 1 <= Len(s) /\ stop <= Len(s) /\ stop \in Nat
    BY <1>4, <1>8, <1>11
  <2>2. k \in Nat /\ c <= k /\ k + 1 = c + stop /\ k + 1 <= at /\ c + Len(s) = at
        /\ c + 0 = c /\ 0 \in Nat /\ 0 <= stop - 1 /\ Len(s) <= Len(s) /\ (stop - 1) + 1 = stop
    BY <1>4, <2>1
  <2>3. Piece(s, 0, stop - 1, SubSeq(s, 1, stop - 1))
    BY <1>4, <2>1, PieceFront
  <2>4. Piece(s, stop - 1, Len(s), Copying!From(s, stop))
    <3>1. Piece(s, stop - 1, Len(s), Copying!From(s, (stop - 1) + 1))
      BY <1>4, <2>1, PieceBack
    <3> QED
      BY <2>2, <3>1
  <2>5. Piece(data, c + 0, c + (stop - 1), SubSeq(s, 1, stop - 1))
    BY <1>2, <1>4, <2>1, <2>2, <2>3, PieceOfPiece
  <2>6. Piece(data, c + (stop - 1), c + Len(s), Copying!From(s, stop))
    BY <1>2, <1>4, <2>1, <2>2, <2>4, PieceOfPiece
  <2>7. Piece(data, c, k, GoodOf(s)) /\ Piece(data, k, at, Copying!From(s, stop))
    BY <1>9, <1>11, <2>2, <2>5, <2>6
  <2>8. data[k + 1] = s[stop]
    BY <1>5, <1>8, <1>11, <2>1, <2>2
  <2> HIDE DEF k
  <2>9. k = DataEnd
    <3>1. ~(k + 1 <= DataEnd)
      <4>1. k + 1 \in Nat /\ 1 <= k + 1
        BY <2>2
      <4> QED
        BY <1>6, <1>8, <1>11, <2>8, <4>1
    <3>2. ~(DataEnd < k)
      <4> SUFFICES ASSUME DataEnd < k PROVE FALSE
        OBVIOUS
      <4>1. /\ (DataEnd + 1) - c \in 1..(stop - 1) /\ (DataEnd + 1) - c \in 1..Len(s)
            /\ c + ((DataEnd + 1) - c) = DataEnd + 1 /\ DataEnd < Len(data)
        BY <1>2, <1>4, <1>6, <2>1, <2>2
      <4>2. s[(DataEnd + 1) - c] = data[DataEnd + 1]
        BY <1>5, <4>1
      <4> QED
        BY <1>6, <1>8, <1>11, <4>1, <4>2
    <3> QED
      BY <1>6, <2>2, <3>1, <3>2
  <2>10. k <= at /\ k < Len(data) /\ k <= DataEnd
    BY <1>2, <1>6, <2>2, <2>9
  <2>11. /\ c <= k /\ k <= DataEnd /\ k <= at /\ Piece(data, c, k, GoodOf(s))
         /\ stop = 0 => k = at
         /\ stop # 0 => /\ k = DataEnd /\ k < Len(data) /\ data[k + 1] = s[stop]
                        /\ Piece(data, k, at, Copying!From(s, stop))
    BY <1>11, <2>2, <2>7, <2>8, <2>9, <2>10
  <2>12. \E kk \in Nat :
           /\ c <= kk /\ kk <= DataEnd /\ kk <= at /\ Piece(data, c, kk, GoodOf(s))
           /\ stop = 0 => kk = at
           /\ stop # 0 => /\ kk = DataEnd /\ kk < Len(data) /\ data[kk + 1] = s[stop]
                          /\ Piece(data, kk, at, Copying!From(s, stop))
    BY <2>2, <2>11
  <2> QED
    BY <1>3, <1>4, <1>7, <2>12 DEF s, c, stop
<1> QED
  BY <1>10, <1>11

\* What inflate gives and keeps: all is what is not written yet.
LEMMA InflateStep ==
  ASSUME CopyInv, Copying!Inflate
  PROVE  CopyInv'
<1> DEFINE stop == StopIn(z.in)
           good == GoodOf(z.in)
           more == Copying!Twice(good)
           all == z.pending \o more
           out == Copying!Upto(all, CopySize)
           kept == Copying!From(all, Len(out) + 1)
           emptied == Len(out) = Len(all)
           ret == IF z.ret = "END" THEN "END"
                  ELSE IF stop # 0 /\ emptied
                  THEN (IF z.in[stop] = End THEN "END" ELSE "Z_DATA_ERROR")
                  ELSE "OK"
           rest == IF stop # 0 /\ ~emptied THEN Copying!From(z.in, stop) ELSE <<>>
<1>1. /\ CopyTypes /\ AtInflate
      /\ UNCHANGED <<op, data, at, start, failed, faults, dest, written>>
  BY DEF Copying!Inflate, CopyInv
<1>2. /\ z' = [z EXCEPT !.pending = kept, !.ret = ret, !.in = rest]
      /\ IF ret = "Z_DATA_ERROR" THEN pc' = "done" /\ rc' = ret
         ELSE buf' = out /\ pc' = "gunzip_write"
  BY DEF Copying!Inflate, Copying!Goto, Copying!Return, StopIn, GoodOf
<1>3. /\ op = "gunzip" /\ Begun(Copying!Expected, dest, written) /\ Sized /\ ~faults
      /\ Runs(z.pending, Copying!Expected, written)
      /\ Inflated(written + Len(z.pending))
  BY <1>1 DEF AtInflate
<1>4. /\ op' = op /\ data' = data /\ start' = start /\ dest' = dest /\ written' = written
      /\ at' = at /\ failed' = failed /\ faults' = faults
  BY <1>1
<1>5. /\ failed \in BOOLEAN /\ faults \in BOOLEAN /\ (failed => faults) /\ at \in Nat
      /\ at <= Len(data) /\ z \in ZTypes /\ data \in Seq(Symbols) /\ Len(data) \in Nat
  BY <1>1 DEF CopyTypes, ZTypes
<1>6. Settled /\ Copying!Expected' = Copying!Expected /\ DataEnd' = DataEnd
  BY <1>4, GoalSame DEF Settled
<1>7. Copying!Expected \in Seq(Symbols) /\ Len(Copying!Expected) = 2 * DataEnd
  BY <1>1, <1>3, GoalOfGunzip
<1>8. written \in Nat /\ z.pending \in Seq(Symbols) /\ Len(z.pending) \in Nat
  BY <1>3 DEF Begun, Runs
<1>9. Begun(Copying!Expected', dest', written') /\ Sized'
  BY <1>3, <1>4, <1>6 DEF Sized
<1>10. DataEnd \in Nat /\ DataEnd <= Len(data)
  BY <1>5, DataEndIs
<1>11. z.ret \in {"OK", "END"}
  BY <1>3 DEF Inflated
<1>12. Len(<<>>) = 0 /\ <<>> \in Seq(Symbols)
  BY EmptySeq
\* How far the data have been looked at.
<1>13. \E k \in Nat :
         /\ k <= DataEnd
         /\ Runs(more, Copying!Expected, written + Len(z.pending)) /\ more \in Seq(Symbols)
         /\ written + Len(z.pending) + Len(more) = 2 * k
         /\ z.ret = "END" => k = DataEnd /\ stop = 0 /\ Len(z.pending) = 0 /\ Len(more) = 0
         /\ z.ret = "OK" /\ stop = 0 => k = at
         /\ z.ret = "OK" /\ stop # 0 =>
              /\ k = DataEnd /\ k < Len(data) /\ data[k + 1] = z.in[stop]
              /\ Piece(data, k, at, Copying!From(z.in, stop))
  <2>1. CASE z.ret = "OK"
    <3> DEFINE c == at - Len(z.in)
    <3>1. /\ written + Len(z.pending) = 2 * c /\ c \in Nat
          /\ \E k \in Nat :
               /\ c <= k /\ k <= DataEnd /\ k <= at /\ Piece(data, c, k, good)
               /\ stop = 0 => k = at
               /\ stop # 0 => /\ k = DataEnd /\ k < Len(data) /\ data[k + 1] = z.in[stop]
                              /\ Piece(data, k, at, Copying!From(z.in, stop))
      BY <1>1, <1>3, <2>1, GoodIs
    <3> HIDE DEF c, good, stop
    <3>2. PICK k \in Nat :
               /\ c <= k /\ k <= DataEnd /\ k <= at /\ Piece(data, c, k, good)
               /\ stop = 0 => k = at
               /\ stop # 0 => /\ k = DataEnd /\ k < Len(data) /\ data[k + 1] = z.in[stop]
                              /\ Piece(data, k, at, Copying!From(z.in, stop))
      BY <3>1
    <3>3. Runs(more, Copying!Expected, 2 * c) /\ Len(more) = 2 * (k - c)
      BY <1>1, <1>3, <3>1, <3>2, TwiceRuns
    <3> HIDE DEF more
    <3>4. more \in Seq(Symbols) /\ Runs(more, Copying!Expected, written + Len(z.pending))
      BY <3>1, <3>3 DEF Runs
    <3>5. written + Len(z.pending) + Len(more) = 2 * k
      BY <3>1, <3>2, <3>3
    <3>6. z.ret # "END"
      BY <2>1
    <3> QED
      BY <3>2, <3>4, <3>5, <3>6, Zenon
  <2>2. CASE z.ret = "END"
    <3>1. /\ written + Len(z.pending) = 2 * DataEnd /\ Len(z.pending) = 0 /\ Len(z.in) = 0
      BY <1>3, <2>2 DEF Inflated
    <3>2. z.in \in Seq(Symbols)
      BY <1>5 DEF ZTypes
    <3>3. stop = 0
      BY <3>1, <3>2, StopIs
    <3>4. good = z.in
      BY <3>3 DEF GoodOf
    <3>5. more \in Seq(Symbols) /\ Len(more) = 2 * Len(z.in)
      BY <3>2, <3>4, TwiceIs
    <3> HIDE DEF more, stop
    <3>6. more = <<>> /\ Len(more) = 0
      BY <3>1, <3>5, EmptySeq
    <3>7. Runs(<<>>, Copying!Expected, written + Len(z.pending))
      <4>1. written + Len(z.pending) \in Nat
        BY <1>8
      <4>2. written + Len(z.pending) <= Len(Copying!Expected)
        BY <1>7, <1>10, <3>1
      <4> QED
        BY <1>7, <4>1, <4>2, RunsEmpty
    <3>8. Runs(more, Copying!Expected, written + Len(z.pending))
      BY <3>6, <3>7
    <3>9. written + Len(z.pending) + Len(more) = 2 * DataEnd
      BY <1>10, <3>1, <3>6
    <3>10. z.ret # "OK" /\ DataEnd <= DataEnd
      BY <1>10, <2>2
    <3> QED
      BY <1>10, <3>1, <3>3, <3>5, <3>6, <3>8, <3>9, <3>10, Zenon
  <2> QED
    BY <1>11, <2>1, <2>2
<1> HIDE DEF more
<1>14. PICK k \in Nat :
         /\ k <= DataEnd
         /\ Runs(more, Copying!Expected, written + Len(z.pending)) /\ more \in Seq(Symbols)
         /\ written + Len(z.pending) + Len(more) = 2 * k
         /\ z.ret = "END" => k = DataEnd /\ stop = 0 /\ Len(z.pending) = 0 /\ Len(more) = 0
         /\ z.ret = "OK" /\ stop = 0 => k = at
         /\ z.ret = "OK" /\ stop # 0 =>
              /\ k = DataEnd /\ k < Len(data) /\ data[k + 1] = z.in[stop]
              /\ Piece(data, k, at, Copying!From(z.in, stop))
  BY <1>13, Zenon
<1>15. /\ Runs(all, Copying!Expected, written) /\ Len(all) = Len(z.pending) + Len(more)
       /\ all \in Seq(Symbols) /\ Len(all) \in Nat
  <2>1. Runs(all, Copying!Expected, written) /\ Len(all) = Len(z.pending) + Len(more)
    BY <1>3, <1>7, <1>8, <1>14, RunsJoin
  <2> HIDE DEF all
  <2> QED
    BY <2>1 DEF Runs
<1>16. Len(more) \in Nat
  BY <1>14
<1>17. written + Len(all) = 2 * k
  BY <1>8, <1>14, <1>15, <1>16
<1> HIDE DEF all
\* What goes into the buffer.
<1>18. \E n \in Nat : /\ n <= Len(all) /\ n <= CopySize /\ (n = CopySize \/ n = Len(all))
                      /\ Piece(all, 0, n, out)
  BY <1>15, CopySizeIs, UptoPiece
<1> HIDE DEF out
<1>19. PICK n \in Nat : /\ n <= Len(all) /\ n <= CopySize
                        /\ (n = CopySize \/ n = Len(all)) /\ Piece(all, 0, n, out)
  BY <1>18
<1>20. Len(out) = n /\ Len(out) \in 0..Len(all)
  <2>1. Len(out) = n - 0
    BY <1>19, Zenon DEF Piece
  <2> QED
    BY <1>15, <1>19, <2>1
<1>21. Runs(out, Copying!Expected, written)
  <2>1. 0 \in Nat /\ 0 <= n /\ written + 0 = written
    BY <1>8
  <2>2. Runs(out, Copying!Expected, written + 0)
    BY <1>7, <1>8, <1>15, <1>19, <2>1, RunsPiece
  <2> QED
    BY <2>1, <2>2
<1>22. /\ Runs(kept, Copying!Expected, written + Len(out)) /\ Len(kept) = Len(all) - Len(out)
  <2>1. \A j \in 0..Len(all) :
          /\ Runs(Copying!From(all, j + 1), Copying!Expected, written + j)
          /\ Len(Copying!From(all, j + 1)) = Len(all) - j
    BY <1>7, <1>8, <1>15, RunsSplit
  <2> QED
    BY <1>20, <2>1, Zenon
<1> HIDE DEF kept
<1>23. kept \in Seq(Symbols) /\ Len(kept) \in Nat
  BY <1>22 DEF Runs
<1>24. emptied <=> Len(kept) = 0
  BY <1>15, <1>20, <1>22
<1>25. Len(out) < CopySize => emptied
  BY <1>15, <1>19, <1>20
<1>26. written + Len(out) + Len(kept) = 2 * k
  <2>1. Len(kept) = Len(all) - Len(out)
    BY <1>22
  <2>2. Len(all) \in Int /\ Len(out) \in Int /\ written \in Int
    BY <1>8, <1>15, <1>20
  <2>3. \A a, b, w \in Int : w + b + (a - b) = w + a
    OBVIOUS
  <2>4. written + Len(out) + (Len(all) - Len(out)) = written + Len(all)
    BY <2>2, <2>3
  <2> QED
    BY <1>17, <2>1, <2>4
<1>27. ret \in {"OK", "END", "Z_DATA_ERROR"} /\ emptied \in BOOLEAN
  OBVIOUS
<1>28. rest \in Seq(Symbols)
  <2>1. CASE stop # 0 /\ ~emptied
    <3>1. z.ret = "OK"
      BY <1>11, <1>14, <2>1
    <3>2. Piece(data, k, at, Copying!From(z.in, stop))
      BY <1>14, <2>1, <3>1
    <3>3. Copying!From(z.in, stop) \in Seq(Symbols)
      BY <3>2, Zenon DEF Piece
    <3> QED
      BY <2>1, <3>3
  <2>2. CASE ~(stop # 0 /\ ~emptied)
    BY <1>12, <2>2
  <2> QED
    BY <2>1, <2>2
<1>29. /\ ret = "Z_DATA_ERROR" => z.ret = "OK" /\ stop # 0 /\ z.in[stop] # End
       /\ ret = "END" => z.ret = "END" \/ (stop # 0 /\ emptied)
       /\ ret = "OK" => z.ret = "OK" /\ (stop = 0 \/ ~emptied)
  <2> HIDE DEF stop, emptied
  <2>1. CASE z.ret = "END"
    <3>1. ret = "END"
      BY <2>1
    <3> HIDE DEF ret
    <3>2. ret # "Z_DATA_ERROR" /\ ret # "OK"
      BY <3>1
    <3> QED
      BY <2>1, <3>2, Zenon
  <2>2. CASE z.ret = "OK"
    <3>1. CASE stop # 0 /\ emptied
      BY <2>2, <3>1
    <3>2. CASE ~(stop # 0 /\ emptied)
      <4>1. ret = "OK"
        BY <2>2, <3>2
      <4>2. stop = 0 \/ ~emptied
        BY <3>2
      <4> HIDE DEF ret
      <4> QED
        BY <2>2, <4>1, <4>2
    <3> QED
      BY <3>1, <3>2
  <2> QED
    BY <1>11, <2>1, <2>2
<1>30. /\ stop # 0 /\ ~emptied => rest = Copying!From(z.in, stop)
       /\ stop = 0 \/ emptied => rest = <<>>
  OBVIOUS
<1> HIDE DEF ret, rest, emptied, stop, good
<1>31. z' \in ZTypes /\ z'.pending = kept /\ z'.ret = ret /\ z'.in = rest
  BY <1>2, <1>5, <1>23, <1>27, <1>28 DEF ZTypes
<1>32. CopyTypes'
  BY <1>1, <1>4, <1>5, <1>6, <1>31, TypesKeptZ
<1>33. CASE ret = "Z_DATA_ERROR"
  <2>1. pc' = "done" /\ rc' = "Z_DATA_ERROR"
    BY <1>2, <1>33
  <2>2. z.ret = "OK" /\ stop # 0 /\ z.in[stop] # End
    BY <1>29, <1>33
  <2>3. k = DataEnd /\ k < Len(data) /\ data[k + 1] = z.in[stop]
    BY <1>14, <2>2
  <2>4. data[k + 1] = Bad /\ k + 1 \in 1..Len(data)
    BY <1>5, <2>2, <2>3, DataEndIs
  <2>5. Bad \in Copying!Range(data)
    <3>1. DOMAIN data = 1..Len(data)
      BY <1>5
    <3> QED
      BY <2>4, <3>1 DEF Copying!Range
  <2>6. ~Copying!WellFormed
    BY <1>3, <2>5 DEF Copying!WellFormed
  <2>7. AtDone'
    BY <1>3, <1>4, <1>6, <1>7, <1>9, <2>1, <2>6, GivenUp DEF Copying!Imports
  <2> QED
    BY <1>32, <2>1, <2>7 DEF CopyInv
<1>34. CASE ret # "Z_DATA_ERROR"
  <2>1. pc' = "gunzip_write" /\ buf' = out
    BY <1>2, <1>34
  <2>2. /\ Runs(buf', Copying!Expected', written') /\ Len(buf') <= CopySize
        /\ Runs(z'.pending, Copying!Expected', written' + Len(buf'))
    BY <1>4, <1>6, <1>19, <1>20, <1>21, <1>22, <1>31, <2>1
  <2>3. Len(buf') < CopySize => Len(z'.pending) = 0 /\ Len(z'.in) = 0
    BY <1>12, <1>24, <1>25, <1>30, <1>31, <2>1
  <2>4. written' + Len(buf') + Len(z'.pending) = 2 * k
    BY <1>4, <1>26, <1>31, <2>1
  <2>5. Inflated(written + Len(buf) + Len(z.pending))'
    <3>1. CASE ret = "END"
      <4>1. k = DataEnd /\ Len(kept) = 0 /\ rest = <<>>
        <5>1. CASE z.ret = "END"
          <6>1. k = DataEnd /\ stop = 0 /\ Len(all) = 0
            BY <1>14, <1>15, <5>1
          <6>2. Len(out) = 0
            BY <1>20, <6>1
          <6>3. Len(kept) = Len(all) - Len(out)
            BY <1>22
          <6>4. Len(kept) = 0
            BY <6>1, <6>2, <6>3
          <6>5. rest = <<>>
            BY <1>30, <6>1
          <6> QED
            BY <6>1, <6>4, <6>5
        <5>2. CASE z.ret # "END"
          <6>1. z.ret = "OK" /\ stop # 0 /\ emptied
            BY <1>11, <1>29, <3>1, <5>2
          <6> QED
            BY <1>14, <1>24, <1>30, <6>1
        <5> QED
          BY <5>1, <5>2
      <4>2. z'.ret = "END" /\ Len(z'.pending) = 0 /\ Len(z'.in) = 0
        BY <1>12, <1>31, <3>1, <4>1
      <4>3. written' + Len(buf') + Len(z'.pending) = 2 * DataEnd'
        BY <1>6, <2>4, <4>1
      <4> QED
        BY <4>2, <4>3 DEF Inflated
    <3>2. CASE ret = "OK"
      <4>1. z.ret = "OK" /\ (stop = 0 \/ ~emptied)
        BY <1>29, <3>2
      <4>2. Piece(data, k, at, rest)
        <5>1. CASE stop = 0
          <6>1. k = at /\ rest = <<>> /\ at - at = 0 /\ 0 \in Nat
            BY <1>5, <1>14, <1>30, <4>1, <5>1
          <6>2. \A i \in 1..Len(rest) : rest[i] = data[k + i]
            BY <1>12, <6>1
          <6> QED
            BY <1>12, <6>1, <6>2 DEF Piece
        <5>2. CASE stop # 0
          BY <1>14, <1>30, <4>1, <5>2
        <5> QED
          BY <5>1, <5>2
      <4>3. Len(rest) = at - k /\ Len(rest) \in Nat
        BY <4>2, Zenon DEF Piece
      <4>4. at - Len(rest) = k /\ Len(rest) <= at
        BY <1>5, <4>3
      <4>5. /\ at' - Len(z'.in) = k /\ Len(z'.in) <= at' /\ k <= DataEnd'
            /\ Piece(data', at' - Len(z'.in), at', z'.in) /\ z'.ret = "OK"
        BY <1>4, <1>6, <1>14, <1>31, <3>2, <4>2, <4>4
      <4> QED
        BY <2>4, <4>5 DEF Inflated
    <3> QED
      BY <1>27, <1>34, <3>1, <3>2
  <2>6. AtGunzipWrite'
    BY <1>3, <1>4, <1>9, <2>2, <2>3, <2>5 DEF AtGunzipWrite
  <2> QED
    BY <1>32, <2>1, <2>6 DEF CopyInv
<1> QED
  BY <1>33, <1>34

-----------------------------------------------------------------------------
LEMMA CopyStep ==
  ASSUME CopyInv, [Copying!Next]_Copying!vars
  PROVE  CopyInv'
<1>1. CASE Copying!Next
  BY <1>1, StartStep, ReadMoreStep, WriteBufStep, NoRoomStep, SourceLostStep, ResizeStep,
     VerifyStep, GzipReadStep, DeflateStep, GzipWriteStep, GunzipReadStep, InflateStep,
     GunzipWriteStep, Zenon DEF Copying!Next
<1>2. CASE UNCHANGED Copying!vars
  BY <1>2 DEF Copying!vars, CopyInv, CopyTypes, AtStart, AtRead, AtWrite, AtVerify, AtGzip,
              AtDeflate, AtGzipWrite, AtGunzip, AtInflate, AtGunzipWrite, AtDone,
              Base, DataEnd, Sized, WholeBufs, Deflated, Inflated, Copying!CopiesTold,
              Copying!ImportUndone, Copying!InFullLastBlock, Copying!InOrder,
              Copying!SuccessTold, Copying!WellFormed, Copying!Expected
<1> QED
  BY <1>1, <1>2

Places ==
  {"start", "read", "write", "verify", "gzip", "deflate", "gzip_write", "gunzip", "inflate",
   "gunzip_write", "done"}

LEMMA PlacesKept ==
  ASSUME pc \in Places, [Copying!Next]_Copying!vars
  PROVE  pc' \in Places
BY DEF Copying!Next, Copying!Start, Copying!ReadMore, Copying!WriteBuf, Copying!NoRoom,
       Copying!SourceLost, Copying!Resize, Copying!Verify, Copying!GzipRead,
       Copying!Deflate, Copying!GzipWrite, Copying!GunzipRead, Copying!Inflate,
       Copying!GunzipWrite, Copying!Goto, Copying!Return, Copying!vars, Places

\* Until a loop ends, what it has written is the beginning of what it should write.
LEMMA CopyTold ==
  ASSUME CopyInv, pc \in Places
  PROVE  Copying!CopiesTold /\ Copying!ImportUndone
<1>1. CASE pc = "done"
  BY <1>1 DEF CopyInv, AtDone
<1>2. CASE pc # "done"
  <2>1. Copying!SuccessTold /\ Copying!ImportUndone
    BY <1>2 DEF Copying!SuccessTold, Copying!ImportUndone
  <2>2. Copying!Expected \in Seq(Symbols)
    BY GoalOfPlain, GoalOfGzip, GoalOfGunzip DEF CopyInv, CopyTypes, Copying!Ops, PlainOps
  <2>3. Begun(Copying!Expected, dest, written)
    <3>1. CASE pc = "start"
      <4>1. dest = <<>> \/ dest = Imported
        BY <3>1 DEF CopyInv, AtStart
      <4>2. dest \in Seq(Symbols) /\ written = 0
        BY <3>1, <4>1, CopySizeIs, EmptySeq DEF CopyInv, AtStart
      <4> QED
        BY <2>2, <4>2, BegunEmpty
    <3>2. CASE pc # "start"
      BY <1>2, <3>2, Zenon DEF CopyInv, Places, AtRead, AtWrite, AtVerify, AtGzip,
         AtDeflate, AtGzipWrite, AtGunzip, AtInflate, AtGunzipWrite
    <3> QED
      BY <3>1, <3>2
  <2>4. Runs(SubSeq(dest, 1, written), Copying!Expected, 0)
    BY <2>3 DEF Begun
  <2>5. Copying!IsPrefix(SubSeq(dest, 1, written), Copying!Expected)
    BY <2>2, <2>4, RunsPrefix
  <2>6. Copying!InOrder
    BY <2>5 DEF Copying!InOrder
  <2> QED
    BY <2>1, <2>6 DEF Copying!CopiesTold
<1> QED
  BY <1>1, <1>2

-----------------------------------------------------------------------------
(***************************************************************************)
(* The pools.                                                              *)
(***************************************************************************)

Contents == {"empty", "set", "zero", "garbage"}

\* Beside PoolsSound, the types.
PoolsInv ==
  /\ pool \in [type : Pooling!Pools, array : BOOLEAN]
  /\ marks \in [Pooling!Places -> BOOLEAN]
  /\ next \in Nat /\ (~pool.type.hinted => next = 0)
  /\ object \in [Pooling!Places \cup Pooling!Heap -> Contents]
  /\ owned \subseteq Pooling!Places \cup Pooling!Heap
  /\ Pooling!PoolsSound

LEMMA PoolTypes ==
  ASSUME NEW t \in Pooling!Pools
  PROVE  t.emptied \in {"any", "place"} /\ t.hinted \in BOOLEAN /\ t.places \in Nat
<1>1. \A n, h, e, c : LET p == Pooling!Pool(n, h, e, c) IN
        p.emptied = e /\ p.hinted = h /\ p.places = n
  BY DEF Pooling!Pool
<1>2. PICK n \in Nat, h \in BOOLEAN, e \in {"any", "place"}, c \in {"any", "place"} :
        t = Pooling!Pool(n, h, e, c)
  BY DEF Pooling!Pools, Pooling!InodeList, Pooling!InodeMeta, Pooling!Fs,
         Pooling!Dev, Pooling!Closer, Pooling!File, Pooling!BlockDev, Pooling!DevFILE,
         Pooling!Subdev, Pooling!Membuf, Pooling!Memmap, Pooling!Fileno
<1>3. t.emptied = e /\ t.hinted = h /\ t.places = n
  BY <1>1, <1>2
<1> QED
  BY <1>3

\* Addresses of the array are no addresses of malloc's.
LEMMA Addresses ==
  ASSUME Pooling!BoundAssumption, pool \in [type : Pooling!Pools, array : BOOLEAN]
  PROVE  /\ Pooling!Places \subseteq Nat
         /\ Pooling!Heap \cap Pooling!Places = {}
<1>1. pool.type.places \in Nat
  BY PoolTypes
<1>2. Pooling!Places \subseteq Nat
  BY <1>1 DEF Pooling!Places, Pooling!BoundAssumption
<1>3. ASSUME NEW a \in Pooling!Heap PROVE a \in Int /\ a < 0
  BY DEF Pooling!Heap, Pooling!BoundAssumption
<1> QED
  BY <1>2, <1>3

LEMMA PoolsInitInv == Pooling!BoundAssumption /\ Pooling!Init => PoolsInv
  BY Addresses DEF Pooling!Init, PoolsInv, Pooling!PoolsSound, Contents

\* The place that is found is free, and every place below it is marked.
LEMMA FoundFree ==
  ASSUME Pooling!BoundAssumption, PoolsInv, Pooling!Found # -1
  PROVE  /\ Pooling!Found \in Pooling!Places /\ Pooling!Found \notin owned
         /\ \A q \in Pooling!Places : q < Pooling!Found => marks[q]
<1> DEFINE free == {p \in Pooling!Places : p >= next /\ ~marks[p]}
<1>1. free # {} /\ free \subseteq Nat
  BY Addresses DEF Pooling!Found, PoolsInv
<1>2. PICK m \in free : \A q \in free : m <= q
  BY <1>1, LeastExists
<1>3. Pooling!Found = CHOOSE p \in free : \A q \in free : p <= q
  BY <1>1 DEF Pooling!Found
<1>4. Pooling!Found \in free /\ \A q \in free : Pooling!Found <= q
  BY <1>2, <1>3
<1>5. ASSUME NEW q \in Pooling!Places, q < Pooling!Found, ~marks[q] PROVE FALSE
  <2>1. q \in Nat /\ Pooling!Found \in Nat /\ next \in Nat
    BY <1>1, <1>4, Addresses DEF PoolsInv
  <2>2. q >= next
    BY <1>5, <2>1 DEF PoolsInv, Pooling!PoolsSound
  <2> QED
    BY <1>4, <1>5, <2>1, <2>2
<1> QED
  BY <1>4, <1>5 DEF PoolsInv, Pooling!PoolsSound

LEMMA PoolsNextInv ==
  ASSUME Pooling!BoundAssumption, PoolsInv, [Pooling!Next]_Pooling!vars
  PROVE  PoolsInv'
<1> pool.type \in Pooling!Pools
  BY DEF PoolsInv
<1> /\ Pooling!Places \subseteq Nat /\ Pooling!Heap \cap Pooling!Places = {}
    /\ pool.type.emptied \in {"any", "place"} /\ pool.type.hinted \in BOOLEAN
  BY Addresses, PoolTypes DEF PoolsInv
<1>1. pool' = pool /\ Pooling!Places' = Pooling!Places /\ Pooling!Heap' = Pooling!Heap
  BY DEF Pooling!Next, Pooling!vars, Pooling!Alloc, Pooling!TakePlace, Pooling!AllocFromHeap,
         Pooling!Fill, Pooling!FreePlace, Pooling!FreeToHeap, Pooling!Places, Pooling!Heap
<1>2. CASE Pooling!Alloc
  <2> DEFINE p == Pooling!Found
  <2>1. p \in Pooling!Places /\ p \notin owned /\ \A q \in Pooling!Places : q < p => marks[q]
    BY <1>2, FoundFree DEF Pooling!Alloc
  <2>2. /\ marks' = [marks EXCEPT ![p] = TRUE]
        /\ next' = IF pool.type.hinted THEN p + 1 ELSE 0
        /\ object' = [object EXCEPT ![p] = "empty"]
        /\ owned' = owned \cup {p}
    BY <1>2 DEF Pooling!Alloc, Pooling!TakePlace
  <2> HIDE DEF p
  <2>3. ASSUME NEW q \in Pooling!Places, q < p + 1 PROVE q < p \/ q = p
    <3>1. q \in Nat /\ p \in Nat
      BY <2>1
    <3> QED
      BY <2>3, <3>1
  <2>4. \A q \in Pooling!Places : q < next' => marks'[q]
    BY <2>1, <2>2, <2>3 DEF PoolsInv
  <2> QED
    BY <1>1, <2>1, <2>2, <2>4 DEF PoolsInv, Pooling!PoolsSound, Contents
<1>3. CASE Pooling!AllocFromHeap
  <2>1. PICK a \in Pooling!Heap \ owned :
          /\ object' = [object EXCEPT ![a] = IF pool.type.emptied = "any" THEN "empty"
                                             ELSE "garbage"]
          /\ owned' = owned \cup {a} /\ marks' = marks /\ next' = next
    BY <1>3 DEF Pooling!AllocFromHeap
  <2>2. a \notin Pooling!Places
    OBVIOUS
  <2>3. object' \in [Pooling!Places \cup Pooling!Heap -> Contents]
    BY <2>1 DEF PoolsInv, Contents
  <2>4. object'[a] = "empty" \/ pool.type.emptied = "place"
    BY <2>1 DEF PoolsInv
  <2>5. \A b \in Pooling!Places \cup Pooling!Heap : b # a => object'[b] = object[b]
    BY <2>1 DEF PoolsInv
  <2> QED
    BY <1>1, <2>1, <2>2, <2>3, <2>4, <2>5 DEF PoolsInv, Pooling!PoolsSound
<1>4. CASE Pooling!Fill
  BY <1>1, <1>4 DEF Pooling!Fill, PoolsInv, Pooling!PoolsSound, Contents
<1>5. CASE Pooling!FreePlace
  <2>1. PICK a \in owned :
          /\ a \in Pooling!Places
          /\ marks' = [marks EXCEPT ![a] = FALSE]
          /\ next' = IF pool.type.hinted /\ a < next THEN a ELSE next
          /\ object' = [object EXCEPT ![a] = "empty"]
          /\ owned' = owned \ {a}
    BY <1>5 DEF Pooling!FreePlace, Pooling!Belongs, Pooling!NextAfter
  <2>2. ASSUME ~pool.type.hinted PROVE next = 0
    BY <2>2 DEF PoolsInv
  <2>3. \A q \in Pooling!Places : q < next' => q < next /\ q # a
    BY <2>1, <2>2 DEF PoolsInv
  <2> QED
    BY <1>1, <2>1, <2>3 DEF PoolsInv, Pooling!PoolsSound, Contents
<1>6. CASE Pooling!FreeToHeap
  BY <1>1, <1>6 DEF Pooling!FreeToHeap, Pooling!Belongs, PoolsInv, Pooling!PoolsSound,
                    Contents
<1>7. CASE UNCHANGED Pooling!vars
  BY <1>1, <1>7 DEF Pooling!vars, PoolsInv, Pooling!PoolsSound
<1> QED
  BY <1>2, <1>3, <1>4, <1>5, <1>6, <1>7 DEF Pooling!Next

-----------------------------------------------------------------------------
(***************************************************************************)
(* Streams, devices and block devices.                                     *)
(***************************************************************************)

ObjectRecs ==
  [kind : {"gone", "blockdev"} \cup Handling!OnFile \cup Handling!OnDevice
          \cup Handling!Devices,
   data : BOOLEAN, on : Nat, owns : BOOLEAN, hook : BOOLEAN]

FileRecs ==
  [is : {"none", "FILE", "descriptor", "closed"}, owner : {"none", "caller", "object"}]

Whats == {"object", "meta", "buffer", "client"}

HandleStates ==
  [object : [Handling!Objects -> ObjectRecs], file : [Handling!Files -> FileRecs],
   memory : SUBSET (Handling!Objects \X Whats), twice : BOOLEAN]

\* What an object needs memory for.
WhatsOf(o) ==
  IF o.kind = "gone" THEN {}
  ELSE {"object"} \cup (IF o.data /\ o.kind # "blockdev" THEN {"meta"} ELSE {})
       \cup (IF o.data /\ o.kind = "membuf" THEN {"buffer"} ELSE {})
       \cup (IF o.hook THEN {"client"} ELSE {})

MemoryOf(objects) ==
  {p \in Handling!Objects \X Whats : p[2] \in WhatsOf(objects[p[1]])}

OwnedFile == [is |-> "FILE", owner |-> "object"]
OwnsFile(o, f) == o.kind \in Handling!OnFile /\ o.on = f /\ o.data /\ o.owns
Uses(o, x) == o.kind \in Handling!OnDevice /\ o.on = x /\ o.data

\* The client of an object is only called until it is closed.
WellMade(o) ==
  /\ o.kind = "gone" => o = Handling!Gone
  /\ o.hook => o.data /\ o.kind # "blockdev"
  /\ o.kind \in Handling!OnFile => o.on \in Handling!Files
  /\ o.kind \in Handling!OnDevice /\ o.data => o.on \in Handling!Objects

\* Whoever owns a device is the only one who uses it; so nothing else is on it when it
\* is finalized.
HandlesGood(s) ==
  /\ s \in HandleStates /\ ~s.twice
  /\ s.memory = MemoryOf(s.object)
  /\ \A x \in Handling!Objects : WellMade(s.object[x])
  /\ \A f \in Handling!Files :
       s.file[f] = OwnedFile <=> \E x \in Handling!Objects : OwnsFile(s.object[x], f)
  /\ \A f \in Handling!Files, x, y \in Handling!Objects :
       OwnsFile(s.object[x], f) /\ OwnsFile(s.object[y], f) => x = y
  /\ \A x, y \in Handling!Objects :
       Uses(s.object[x], y) => y # x /\ s.object[y].kind \in Handling!Devices
  /\ \A x, y, d \in Handling!Objects :
       Uses(s.object[x], d) /\ Uses(s.object[y], d) /\ s.object[x].owns => x = y

HandlesInv == HandlesGood(Handling!State)

-----------------------------------------------------------------------------
LEMMA HandlesBecome ==
  ASSUME NEW s, HandlesGood(s), Handling!Become(s)
  PROVE  HandlesInv'
<1>1. Handling!State' = s
  BY DEF HandlesGood, HandleStates, Handling!Become, Handling!State
<1> QED
  BY <1>1 DEF HandlesInv, HandlesGood

LEMMA FreeIs ==
  ASSUME NEW s \in HandleStates, NEW pieces,
         \A p \in pieces : p \in s.memory \/ p[2] = "buffer"
  PROVE  LET t == Handling!Free(s, pieces) IN
         /\ t \in HandleStates
         /\ t.object = s.object /\ t.file = s.file /\ t.twice = s.twice
         /\ t.memory = s.memory \ pieces
<1> DEFINE w == s.twice \/ \E p \in pieces \ s.memory : p[2] # "buffer"
           m == s.memory \ pieces
<1>1. Handling!Free(s, pieces) = [s EXCEPT !.memory = m, !.twice = w]
  BY DEF Handling!Free
<1>2. w = s.twice /\ m \in SUBSET (Handling!Objects \X Whats)
  BY DEF HandleStates
<1> HIDE DEF w, m
<1>3. /\ [s EXCEPT !.memory = m, !.twice = w].object = s.object
      /\ [s EXCEPT !.memory = m, !.twice = w].file = s.file
      /\ [s EXCEPT !.memory = m, !.twice = w].memory = m
      /\ [s EXCEPT !.memory = m, !.twice = w].twice = w
      /\ [s EXCEPT !.memory = m, !.twice = w] \in HandleStates
  BY <1>2 DEF HandleStates
<1> QED
  BY <1>1, <1>2, <1>3 DEF m

LEMMA FcloseIs ==
  ASSUME NEW s \in HandleStates, NEW f \in Handling!Files, s.file[f].is = "FILE"
  PROVE  LET t == Handling!Fclose(s, f) IN
         /\ t \in HandleStates
         /\ t.object = s.object /\ t.memory = s.memory /\ t.twice = s.twice
         /\ t.file = [s.file EXCEPT ![f].is = "closed"]
<1> DEFINE c == [s.file EXCEPT ![f].is = "closed"]
           w == s.twice \/ s.file[f].is # "FILE"
<1>1. c \in [Handling!Files -> FileRecs]
  BY DEF HandleStates, FileRecs
<1>2. Handling!Fclose(s, f) = [s EXCEPT !.file = c, !.twice = w]
  BY DEF Handling!Fclose, HandleStates
<1>3. w = s.twice
  BY DEF HandleStates
<1> HIDE DEF w, c
<1>4. /\ [s EXCEPT !.file = c, !.twice = w].object = s.object
      /\ [s EXCEPT !.file = c, !.twice = w].memory = s.memory
      /\ [s EXCEPT !.file = c, !.twice = w].file = c
      /\ [s EXCEPT !.file = c, !.twice = w].twice = w
      /\ [s EXCEPT !.file = c, !.twice = w] \in HandleStates
  BY <1>1, <1>3 DEF HandleStates
<1> QED
  BY <1>2, <1>3, <1>4 DEF c

LEMMA ObjectSet ==
  ASSUME NEW s \in HandleStates, NEW x \in Handling!Objects, NEW o \in ObjectRecs
  PROVE  LET t == [s EXCEPT !.object[x] = o] IN
         /\ t \in HandleStates
         /\ t.object = [s.object EXCEPT ![x] = o]
         /\ t.file = s.file /\ t.memory = s.memory /\ t.twice = s.twice
<1> DEFINE b == [s.object EXCEPT ![x] = o]
<1>1. b \in [Handling!Objects -> ObjectRecs]
  BY DEF HandleStates
<1>2. [s EXCEPT !.object[x] = o] = [s EXCEPT !.object = b]
  BY DEF HandleStates
<1> HIDE DEF b
<1>3. /\ [s EXCEPT !.object = b] \in HandleStates
      /\ [s EXCEPT !.object = b].object = b
      /\ [s EXCEPT !.object = b].file = s.file
      /\ [s EXCEPT !.object = b].memory = s.memory
      /\ [s EXCEPT !.object = b].twice = s.twice
  BY <1>1 DEF HandleStates
<1> QED
  BY <1>2, <1>3 DEF b

LEMMA FieldsSet ==
  ASSUME NEW s \in HandleStates, NEW x \in Handling!Objects
  PROVE  /\ [s EXCEPT !.object[x].hook = FALSE]
              = [s EXCEPT !.object[x] = [s.object[x] EXCEPT !.hook = FALSE]]
         /\ [s EXCEPT !.object[x].hook = TRUE]
              = [s EXCEPT !.object[x] = [s.object[x] EXCEPT !.hook = TRUE]]
         /\ [s EXCEPT !.object[x].data = FALSE]
              = [s EXCEPT !.object[x] = [s.object[x] EXCEPT !.data = FALSE]]
BY DEF HandleStates

\* The parts of an object's memory that there should be are there, the others are not;
\* and what it closes is open.
WholeObject(s, x) ==
  LET o == s.object[x] IN
  /\ o.kind \notin {"gone", "blockdev"} /\ (o.hook => o.data)
  /\ \A w \in WhatsOf(o) \ {"buffer"} : <<x, w>> \in s.memory
  /\ \A w \in Whats \ WhatsOf(o) : <<x, w>> \notin s.memory
  /\ OwnsFile(o, o.on) => o.on \in Handling!Files /\ s.file[o.on].is = "FILE"

ClosedFiles(s, o) ==
  IF OwnsFile(o, o.on) THEN [s.file EXCEPT ![o.on].is = "closed"] ELSE s.file

LEMMA CallDtorIs ==
  ASSUME NEW s \in HandleStates, NEW x \in Handling!Objects, WholeObject(s, x)
  PROVE  LET t == Handling!CallDtor(s, x)
             o == s.object[x]
         IN /\ t \in HandleStates
            /\ t.object = [s.object EXCEPT ![x] = [o EXCEPT !.hook = FALSE]]
            /\ t.file = s.file /\ t.twice = s.twice
            /\ t.memory = s.memory \ {<<x, "client">>}
<1> DEFINE o == s.object[x]
           h == [o EXCEPT !.hook = FALSE]
           p == <<x, "client">>
<1>1. o \in ObjectRecs /\ h \in ObjectRecs
  BY DEF HandleStates, ObjectRecs
<1>2. CASE o.hook
  <2> DEFINE u == Handling!Free(s, {p})
  <2>1. p \in s.memory
    BY <1>2 DEF WholeObject, WhatsOf
  <2>2. /\ u \in HandleStates /\ u.object = s.object /\ u.file = s.file /\ u.twice = s.twice
        /\ u.memory = s.memory \ {p}
    BY <2>1, FreeIs
  <2>3. Handling!CallDtor(s, x) = [u EXCEPT !.object[x].hook = FALSE]
    BY <1>2 DEF Handling!CallDtor, Handling!Piece
  <2> HIDE DEF u
  <2>4. Handling!CallDtor(s, x) = [u EXCEPT !.object[x] = h]
    BY <2>2, <2>3, FieldsSet
  <2> HIDE DEF h
  <2>5. LET v == [u EXCEPT !.object[x] = h] IN
        /\ v \in HandleStates /\ v.object = [u.object EXCEPT ![x] = h]
        /\ v.file = u.file /\ v.memory = u.memory /\ v.twice = u.twice
    BY <1>1, <2>2, ObjectSet
  <2>6. LET v == Handling!CallDtor(s, x) IN
        /\ v \in HandleStates /\ v.object = [s.object EXCEPT ![x] = h]
        /\ v.file = s.file /\ v.memory = s.memory \ {p} /\ v.twice = s.twice
    BY <2>2, <2>4, <2>5
  <2> QED
    BY <2>6 DEF h
<1>3. CASE ~o.hook
  <2>1. Handling!CallDtor(s, x) = s
    BY <1>3 DEF Handling!CallDtor
  <2>2. h = o
    BY <1>1, <1>3 DEF ObjectRecs
  <2>3. [s.object EXCEPT ![x] = o] = s.object
    BY DEF HandleStates
  <2>4. p \notin s.memory
    BY <1>3 DEF WholeObject, WhatsOf, Whats
  <2> QED
    BY <2>1, <2>2, <2>3, <2>4
<1> QED
  BY <1>2, <1>3

LEMMA CloseOneIs ==
  ASSUME NEW s \in HandleStates, NEW x \in Handling!Objects, WholeObject(s, x)
  PROVE  LET t == Handling!CloseOne(s, x)
             o == s.object[x]
         IN /\ t \in HandleStates
            /\ t.object = [s.object EXCEPT ![x] = [o EXCEPT !.data = FALSE, !.hook = FALSE]]
            /\ t.file = ClosedFiles(s, o) /\ t.twice = s.twice
            /\ t.memory = s.memory \ ({x} \X {"meta", "buffer", "client"})
<1> DEFINE o == s.object[x]
           t == Handling!CloseOne(s, x)
           a == Handling!CallDtor(s, x)
           e == [a EXCEPT !.object[x].data = FALSE]
           c == Handling!CloseFile(e, o)
           h == [o EXCEPT !.hook = FALSE]
           q == [o EXCEPT !.data = FALSE, !.hook = FALSE]
<1>0. o \in ObjectRecs /\ h \in ObjectRecs /\ q \in ObjectRecs /\ [h EXCEPT !.data = FALSE] = q
  BY DEF HandleStates, ObjectRecs
<1>1. /\ a \in HandleStates /\ a.object = [s.object EXCEPT ![x] = h]
      /\ a.file = s.file /\ a.twice = s.twice /\ a.memory = s.memory \ {<<x, "client">>}
  BY CallDtorIs
<1>2. CASE ~o.data
  <2>1. ~o.hook /\ q = o /\ h = o
    BY <1>0, <1>2 DEF WholeObject, ObjectRecs
  <2>2. t = s
    BY <1>2, <2>1 DEF Handling!CloseOne, Handling!CallDtor
  <2>3. [s.object EXCEPT ![x] = o] = s.object
    BY DEF HandleStates
  <2>4. s.memory \ ({x} \X {"meta", "buffer", "client"}) = s.memory
    BY <1>2, <2>1 DEF WholeObject, WhatsOf, Whats
  <2>5. ClosedFiles(s, o) = s.file
    BY <1>2 DEF ClosedFiles, OwnsFile
  <2> QED
    BY <2>1, <2>2, <2>3, <2>4, <2>5
<1>3. CASE o.data
  <2> DEFINE pieces == Handling!Pieces(x, o.kind) \ {Handling!Piece(x, "object")}
  <2>1. t = Handling!Free(c, pieces)
    BY <1>3 DEF Handling!CloseOne
  <2>2. e = [a EXCEPT !.object[x] = q]
    <3>1. a.object[x] = h
      BY <1>1 DEF HandleStates
    <3> HIDE DEF a, h, q
    <3> QED
      BY <1>0, <1>1, <3>1, FieldsSet
  <2>3. /\ e \in HandleStates /\ e.object = [a.object EXCEPT ![x] = q]
        /\ e.file = s.file /\ e.twice = s.twice /\ e.memory = s.memory \ {<<x, "client">>}
    <3> HIDE DEF a, q, e
    <3> QED
      BY <1>0, <1>1, <2>2, ObjectSet
  <2>4. e.object = [s.object EXCEPT ![x] = q]
    <3> HIDE DEF a, q, e, h
    <3> QED
      BY <1>1, <2>3 DEF HandleStates
  <2>5. /\ c \in HandleStates /\ c.object = e.object /\ c.twice = e.twice
        /\ c.memory = e.memory /\ c.file = ClosedFiles(s, o)
    <3>1. CASE o.kind \in Handling!OnFile /\ o.owns
      <4>1. o.on \in Handling!Files /\ e.file[o.on].is = "FILE" /\ OwnsFile(o, o.on)
        BY <1>3, <2>3, <3>1 DEF WholeObject, OwnsFile
      <4>2. c = Handling!Fclose(e, o.on)
        BY <3>1 DEF Handling!CloseFile
      <4> HIDE DEF e, c, o
      <4>3. /\ c \in HandleStates /\ c.object = e.object /\ c.twice = e.twice
            /\ c.memory = e.memory /\ c.file = [e.file EXCEPT ![o.on].is = "closed"]
        BY <2>3, <4>1, <4>2, FcloseIs
      <4> QED
        BY <2>3, <4>1, <4>3 DEF ClosedFiles
    <3>2. CASE ~(o.kind \in Handling!OnFile /\ o.owns)
      <4>1. c = e
        BY <3>2 DEF Handling!CloseFile
      <4> HIDE DEF e, c
      <4> QED
        BY <2>3, <3>2, <4>1 DEF ClosedFiles, OwnsFile
    <3> QED
      BY <3>1, <3>2
  <2>6. pieces = {<<x, "meta">>} \cup (IF o.kind = "membuf" THEN {<<x, "buffer">>} ELSE {})
    BY DEF WholeObject, Handling!Pieces, Handling!Piece
  <2> HIDE DEF c, e, a, q, h
  <2>7. \A p \in pieces : p \in c.memory \/ p[2] = "buffer"
    BY <1>3, <2>3, <2>5, <2>6 DEF WholeObject, WhatsOf
  <2>8. /\ t \in HandleStates /\ t.object = c.object /\ t.file = c.file /\ t.twice = c.twice
        /\ t.memory = c.memory \ pieces
    <3> HIDE DEF pieces, t
    <3> QED
      BY <2>1, <2>5, <2>7, FreeIs
  <2>9. c.memory \ pieces = s.memory \ ({x} \X {"meta", "buffer", "client"})
    <3>1. o.kind # "membuf" => <<x, "buffer">> \notin s.memory
      BY DEF WholeObject, WhatsOf, Whats
    <3> HIDE DEF pieces, t, o
    <3> QED
      BY <2>3, <2>5, <2>6, <3>1
  <2> QED
    BY <2>3, <2>4, <2>5, <2>8, <2>9 DEF q
<1> QED
  BY <1>2, <1>3

LEMMA FinalizeDeviceIs ==
  ASSUME NEW s \in HandleStates, NEW x \in Handling!Objects, WholeObject(s, x)
  PROVE  LET t == Handling!FinalizeDevice(s, x) IN
         /\ t \in HandleStates
         /\ t.object = [s.object EXCEPT ![x] = Handling!Gone]
         /\ t.file = ClosedFiles(s, s.object[x]) /\ t.twice = s.twice
         /\ t.memory = s.memory \ ({x} \X Whats)
<1> DEFINE c == Handling!CloseOne(s, x)
           q == [s.object[x] EXCEPT !.data = FALSE, !.hook = FALSE]
           p == {Handling!Piece(x, "object")}
           u == Handling!Free(c, p)
           g == Handling!Gone
           t == Handling!FinalizeDevice(s, x)
<1>1. /\ c \in HandleStates /\ c.object = [s.object EXCEPT ![x] = q]
      /\ c.file = ClosedFiles(s, s.object[x]) /\ c.twice = s.twice
      /\ c.memory = s.memory \ ({x} \X {"meta", "buffer", "client"})
  BY CloseOneIs
<1>2. p = {<<x, "object">>}
  BY DEF Handling!Piece
<1>3. <<x, "object">> \in s.memory
  BY DEF WholeObject, WhatsOf
<1>4. t = [u EXCEPT !.object[x] = g]
  BY DEF Handling!FinalizeDevice
<1> HIDE DEF c, p
<1>5. \A r \in p : r \in c.memory \/ r[2] = "buffer"
  BY <1>1, <1>2, <1>3
<1>6. /\ u \in HandleStates /\ u.object = c.object /\ u.file = c.file /\ u.twice = c.twice
      /\ u.memory = c.memory \ p
  BY <1>1, <1>5, FreeIs
<1>7. g \in ObjectRecs
  BY DEF Handling!Gone, ObjectRecs
<1> HIDE DEF u, g, q, t
<1>8. LET v == [u EXCEPT !.object[x] = g] IN
      /\ v \in HandleStates /\ v.object = [u.object EXCEPT ![x] = g]
      /\ v.file = u.file /\ v.memory = u.memory /\ v.twice = u.twice
  BY <1>6, <1>7, ObjectSet
<1>9. /\ t \in HandleStates /\ t.object = [u.object EXCEPT ![x] = g]
      /\ t.file = u.file /\ t.memory = u.memory /\ t.twice = u.twice
  BY <1>4, <1>8
<1>10. [u.object EXCEPT ![x] = g] = [s.object EXCEPT ![x] = g]
  BY <1>1, <1>6 DEF HandleStates
<1>11. u.memory = s.memory \ ({x} \X Whats)
  BY <1>1, <1>2, <1>6 DEF Whats
<1> QED
  BY <1>1, <1>6, <1>9, <1>10, <1>11 DEF t, g

\* A state in which one object became o.
LEMMA SetGood ==
  ASSUME NEW s, HandlesGood(s), NEW x \in Handling!Objects, NEW o \in ObjectRecs,
         WellMade(o),
         NEW t \in HandleStates, t.object = [s.object EXCEPT ![x] = o], ~t.twice,
         t.memory = (s.memory \ ({x} \X Whats)) \cup ({x} \X WhatsOf(o)),
         \A f \in Handling!Files :
           t.file[f] = OwnedFile
             <=> OwnsFile(o, f) \/ (s.file[f] = OwnedFile /\ ~OwnsFile(s.object[x], f)),
         \A f \in Handling!Files, y \in Handling!Objects :
           OwnsFile(o, f) /\ OwnsFile(s.object[y], f) => y = x,
         \A d \in Handling!Objects :
           Uses(o, d) => d # x /\ s.object[d].kind \in Handling!Devices,
         \A y, d \in Handling!Objects :
           Uses(o, d) /\ Uses(s.object[y], d) /\ y # x
             => ~o.owns /\ ~s.object[y].owns,
         \A y \in Handling!Objects :
           y # x /\ Uses(s.object[y], x) => o.kind \in Handling!Devices
  PROVE  HandlesGood(t)
<1>1. s \in HandleStates /\ s.object \in [Handling!Objects -> ObjectRecs]
  BY DEF HandlesGood, HandleStates
<1>2. /\ t.object[x] = o
      /\ \A y \in Handling!Objects : y # x => t.object[y] = s.object[y]
  BY <1>1
<1>3. t.memory = MemoryOf(t.object)
  <2>1. s.memory = MemoryOf(s.object)
    BY DEF HandlesGood
  <2>2. WhatsOf(o) \subseteq Whats
    BY DEF WhatsOf, Whats
  <2> HIDE DEF WhatsOf, Whats
  <2> QED
    BY <1>2, <2>1, <2>2 DEF MemoryOf
<1>4. \A y \in Handling!Objects : WellMade(t.object[y])
  BY <1>2 DEF HandlesGood
<1>5. ASSUME NEW f \in Handling!Files
      PROVE  t.file[f] = OwnedFile <=> \E y \in Handling!Objects : OwnsFile(t.object[y], f)
  <2>1. s.file[f] = OwnedFile <=> \E y \in Handling!Objects : OwnsFile(s.object[y], f)
    BY DEF HandlesGood
  <2>2. \A y, w \in Handling!Objects :
          OwnsFile(s.object[y], f) /\ OwnsFile(s.object[w], f) => y = w
    BY DEF HandlesGood
  <2> QED
    BY <1>2, <2>1, <2>2
<1>6. ASSUME NEW f \in Handling!Files, NEW y \in Handling!Objects, NEW w \in Handling!Objects,
             OwnsFile(t.object[y], f), OwnsFile(t.object[w], f)
      PROVE  y = w
  <2>2. \A i, j \in Handling!Objects :
          OwnsFile(s.object[i], f) /\ OwnsFile(s.object[j], f) => i = j
    BY DEF HandlesGood
  <2> QED
    BY <1>2, <1>6, <2>2
<1>7. ASSUME NEW y \in Handling!Objects, NEW w \in Handling!Objects,
             Uses(t.object[y], w)
      PROVE  w # y /\ t.object[w].kind \in Handling!Devices
  <2>1. \A i, j \in Handling!Objects :
          Uses(s.object[i], j) => j # i /\ s.object[j].kind \in Handling!Devices
    BY DEF HandlesGood
  <2>2. CASE y = x
    BY <1>2, <1>7, <2>2
  <2>3. CASE y # x /\ w = x
    BY <1>2, <1>7, <2>3
  <2>4. CASE y # x /\ w # x
    BY <1>2, <1>7, <2>1, <2>4
  <2> QED
    BY <2>2, <2>3, <2>4
<1>8. ASSUME NEW y \in Handling!Objects, NEW w \in Handling!Objects,
             NEW d \in Handling!Objects,
             Uses(t.object[y], d), Uses(t.object[w], d), t.object[y].owns
      PROVE  y = w
  <2>1. \A i, j \in Handling!Objects :
          Uses(s.object[i], d) /\ Uses(s.object[j], d) /\ s.object[i].owns => i = j
    BY DEF HandlesGood
  <2> QED
    BY <1>2, <1>8, <2>1
<1> QED
  BY <1>3, <1>4, <1>5, <1>6, <1>7, <1>8 DEF HandlesGood

LEMMA WholeWhenGood ==
  ASSUME NEW s, HandlesGood(s), NEW x \in Handling!Objects,
         s.object[x].kind \notin {"gone", "blockdev"}
  PROVE  WholeObject(s, x)
<1> DEFINE o == s.object[x]
<1>1. s.memory = MemoryOf(s.object) /\ WellMade(o)
  BY DEF HandlesGood
<1>2. \A w \in Whats : <<x, w>> \in s.memory <=> w \in WhatsOf(o)
  <2> HIDE DEF Whats, WhatsOf
  <2> QED
    BY <1>1 DEF MemoryOf
<1>3. WhatsOf(o) \subseteq Whats
  BY DEF WhatsOf, Whats
<1>4. OwnsFile(o, o.on) => o.on \in Handling!Files /\ s.file[o.on].is = "FILE"
  <2> SUFFICES ASSUME OwnsFile(o, o.on)
               PROVE  o.on \in Handling!Files /\ s.file[o.on].is = "FILE"
    OBVIOUS
  <2>1. o.on \in Handling!Files
    BY <1>1 DEF WellMade, OwnsFile
  <2>2. s.file[o.on] = OwnedFile
    BY <2>1 DEF HandlesGood
  <2> QED
    BY <2>1, <2>2 DEF OwnedFile
<1> HIDE DEF Whats, WhatsOf
<1> QED
  BY <1>1, <1>2, <1>3, <1>4 DEF WholeObject, WellMade

\* Nobody uses what is not a device.
LEMMA UsedAreDevices ==
  ASSUME NEW s, HandlesGood(s), NEW x \in Handling!Objects,
         s.object[x].kind \notin Handling!Devices
  PROVE  \A y \in Handling!Objects : ~Uses(s.object[y], x)
BY DEF HandlesGood

\* An object that is closed, or is no more.
LEMMA ShutGood ==
  ASSUME NEW s, HandlesGood(s), NEW x \in Handling!Objects, NEW q \in ObjectRecs,
         WellMade(q), ~q.data,
         NEW t \in HandleStates, t.object = [s.object EXCEPT ![x] = q],
         t.twice = s.twice, t.file = ClosedFiles(s, s.object[x]),
         t.memory = (s.memory \ ({x} \X Whats)) \cup ({x} \X WhatsOf(q)),
         \A y \in Handling!Objects :
           y # x /\ Uses(s.object[y], x) => q.kind \in Handling!Devices
  PROVE  HandlesGood(t)
<1> DEFINE o == s.object[x]
<1>1. s \in HandleStates /\ ~s.twice /\ s.file \in [Handling!Files -> FileRecs]
      /\ WellMade(o)
  BY DEF HandlesGood, HandleStates
<1>2. \A d : ~OwnsFile(q, d) /\ ~Uses(q, d)
  BY DEF OwnsFile, Uses
<1>3. ASSUME NEW f \in Handling!Files
      PROVE  t.file[f] = OwnedFile <=> s.file[f] = OwnedFile /\ ~OwnsFile(o, f)
  <2>1. CASE OwnsFile(o, o.on)
    <3>1. o.on \in Handling!Files /\ t.file = [s.file EXCEPT ![o.on].is = "closed"]
      BY <1>1, <2>1 DEF ClosedFiles, WellMade, OwnsFile
    <3>2. CASE f = o.on
      <4>1. t.file[f].is = "closed"
        BY <1>1, <3>1, <3>2 DEF FileRecs
      <4> QED
        BY <2>1, <3>2, <4>1 DEF OwnedFile
    <3>3. CASE f # o.on
      <4>1. t.file[f] = s.file[f]
        BY <1>1, <3>1, <3>3
      <4> QED
        BY <3>3, <4>1 DEF OwnsFile
    <3> QED
      BY <3>2, <3>3
  <2>2. CASE ~OwnsFile(o, o.on)
    <3>1. ~OwnsFile(o, f)
      BY <2>2 DEF OwnsFile
    <3> QED
      BY <2>2, <3>1 DEF ClosedFiles
  <2> QED
    BY <2>1, <2>2
<1> HIDE DEF o
<1>4. /\ \A f \in Handling!Files :
            t.file[f] = OwnedFile
              <=> OwnsFile(q, f) \/ (s.file[f] = OwnedFile /\ ~OwnsFile(s.object[x], f))
      /\ \A f \in Handling!Files, y \in Handling!Objects :
           OwnsFile(q, f) /\ OwnsFile(s.object[y], f) => y = x
      /\ \A d \in Handling!Objects :
           Uses(q, d) => d # x /\ s.object[d].kind \in Handling!Devices
      /\ \A y, d \in Handling!Objects :
           Uses(q, d) /\ Uses(s.object[y], d) /\ y # x
             => ~q.owns /\ ~s.object[y].owns
  BY <1>2, <1>3 DEF o
<1> QED
  BY <1>1, <1>4, SetGood

LEMMA CloseOneGood ==
  ASSUME NEW s, HandlesGood(s), NEW x \in Handling!Objects,
         s.object[x].kind \notin {"gone", "blockdev"}
  PROVE  LET t == Handling!CloseOne(s, x) IN
         /\ HandlesGood(t)
         /\ t.object = [s.object EXCEPT
                          ![x] = [s.object[x] EXCEPT !.data = FALSE, !.hook = FALSE]]
<1> DEFINE o == s.object[x]
           q == [o EXCEPT !.data = FALSE, !.hook = FALSE]
           t == Handling!CloseOne(s, x)
<1>1. s \in HandleStates /\ o \in ObjectRecs /\ WellMade(o)
  BY DEF HandlesGood, HandleStates
<1>2. WholeObject(s, x)
  BY WholeWhenGood
<1>3. /\ t \in HandleStates
      /\ t.object = [s.object EXCEPT ![x] = q]
      /\ t.file = ClosedFiles(s, o) /\ t.twice = s.twice
      /\ t.memory = s.memory \ ({x} \X {"meta", "buffer", "client"})
  BY <1>1, <1>2, CloseOneIs
<1>4. q \in ObjectRecs /\ WellMade(q) /\ ~q.data /\ q.kind = o.kind /\ ~q.hook
  BY <1>1 DEF ObjectRecs, WellMade
<1>5. s.memory \ ({x} \X {"meta", "buffer", "client"})
        = (s.memory \ ({x} \X Whats)) \cup ({x} \X WhatsOf(q))
  <2>1. WhatsOf(q) = {"object"}
    BY <1>4 DEF WhatsOf
  <2>2. <<x, "object">> \in s.memory
    BY <1>2 DEF WholeObject, WhatsOf
  <2>3. \A p : p \in {x} \X Whats
                <=> p \in {x} \X {"meta", "buffer", "client"} \/ p = <<x, "object">>
    BY DEF Whats
  <2>4. {x} \X WhatsOf(q) = {<<x, "object">>}
    BY <2>1
  <2>5. <<x, "object">> \notin {x} \X {"meta", "buffer", "client"}
    OBVIOUS
  <2> QED
    BY <2>2, <2>3, <2>4, <2>5
<1>6. \A y \in Handling!Objects :
        y # x /\ Uses(s.object[y], x) => q.kind \in Handling!Devices
  BY <1>4, UsedAreDevices
<1> HIDE DEF q, t, o
<1>7. t.memory = (s.memory \ ({x} \X Whats)) \cup ({x} \X WhatsOf(q))
  BY <1>3, <1>5
<1>8. HandlesGood(t)
  BY <1>3, <1>4, <1>6, <1>7, ShutGood DEF o
<1> QED
  BY <1>3, <1>8 DEF q, o, t

LEMMA GoneIs ==
  /\ Handling!Gone \in ObjectRecs /\ WellMade(Handling!Gone)
  /\ ~Handling!Gone.data /\ ~Handling!Gone.hook /\ ~Handling!Gone.owns
  /\ Handling!Gone.kind = "gone"
  /\ WhatsOf(Handling!Gone) = {}
BY DEF Handling!Gone, ObjectRecs, WellMade, WhatsOf, Handling!OnFile, Handling!OnDevice

LEMMA FinalizeDeviceGood ==
  ASSUME NEW s, HandlesGood(s), NEW x \in Handling!Objects,
         s.object[x].kind \notin {"gone", "blockdev"},
         \A y \in Handling!Objects : ~Uses(s.object[y], x)
  PROVE  LET t == Handling!FinalizeDevice(s, x) IN
         /\ HandlesGood(t)
         /\ t.object = [s.object EXCEPT ![x] = Handling!Gone]
<1> DEFINE t == Handling!FinalizeDevice(s, x)
           g == Handling!Gone
<1>1. s \in HandleStates
  BY DEF HandlesGood
<1>2. /\ t \in HandleStates /\ t.object = [s.object EXCEPT ![x] = g]
      /\ t.file = ClosedFiles(s, s.object[x]) /\ t.twice = s.twice
      /\ t.memory = s.memory \ ({x} \X Whats)
  BY <1>1, WholeWhenGood, FinalizeDeviceIs
<1>3. g \in ObjectRecs /\ WellMade(g) /\ ~g.data /\ WhatsOf(g) = {}
  BY GoneIs
<1> HIDE DEF t, g
<1>4. t.memory = (s.memory \ ({x} \X Whats)) \cup ({x} \X WhatsOf(g))
  BY <1>2, <1>3
<1>5. HandlesGood(t)
  BY <1>2, <1>3, <1>4, ShutGood
<1> QED
  BY <1>2, <1>5 DEF t, g

BareBlockdev == [Handling!Gone EXCEPT !.kind = "blockdev"]

LEMMA BareIs ==
  /\ BareBlockdev \in ObjectRecs /\ WellMade(BareBlockdev)
  /\ ~BareBlockdev.data /\ ~BareBlockdev.hook /\ ~BareBlockdev.owns
  /\ BareBlockdev.kind = "blockdev"
  /\ WhatsOf(BareBlockdev) = {"object"}
BY DEF BareBlockdev, Handling!Gone, ObjectRecs, WellMade, WhatsOf, Handling!OnFile,
       Handling!OnDevice

LEMMA CleanupGood ==
  ASSUME NEW s, HandlesGood(s), NEW x \in Handling!Objects, s.object[x].kind = "blockdev"
  PROVE  LET t == Handling!Cleanup(s, x) IN
         /\ HandlesGood(t)
         /\ t.object[x] = BareBlockdev
         /\ \A y \in Handling!Objects : y # x => t.object[y] \in {s.object[y], Handling!Gone}
<1> DEFINE o == s.object[x]
           bare == BareBlockdev
           r == [s EXCEPT !.object[x] = bare]
           t == Handling!Cleanup(s, x)
<1>1. /\ s \in HandleStates /\ o \in ObjectRecs /\ WellMade(o) /\ s.memory = MemoryOf(s.object)
      /\ s.object \in [Handling!Objects -> ObjectRecs]
  BY DEF HandlesGood, HandleStates
<1>2. /\ bare \in ObjectRecs /\ WellMade(bare) /\ ~bare.data /\ ~bare.hook /\ ~bare.owns
      /\ bare.kind = "blockdev" /\ WhatsOf(bare) = {"object"}
  BY BareIs
<1>3. WhatsOf(o) = {"object"}
  BY <1>1 DEF WhatsOf, WellMade
<1>4. ~OwnsFile(o, o.on) /\ \A f : ~OwnsFile(o, f)
  BY DEF OwnsFile, Handling!OnFile
<1> HIDE DEF bare
<1>5. /\ r \in HandleStates /\ r.object = [s.object EXCEPT ![x] = bare]
      /\ r.file = s.file /\ r.memory = s.memory /\ r.twice = s.twice
  BY <1>1, <1>2, ObjectSet
<1>6. r.memory = (s.memory \ ({x} \X Whats)) \cup ({x} \X WhatsOf(bare))
  <2>1. \A w \in Whats : <<x, w>> \in s.memory <=> w = "object"
    <3> HIDE DEF o
    <3>1. \A w \in Whats : <<x, w>> \in s.memory <=> w \in WhatsOf(s.object[x])
      <4> HIDE DEF Whats, WhatsOf
      <4> QED
        BY <1>1 DEF MemoryOf
    <3> QED
      BY <1>3, <3>1 DEF o
  <2>2. "object" \in Whats
    BY DEF Whats
  <2>3. \A p \in {x} \X Whats : p \in s.memory <=> p = <<x, "object">>
    BY <2>1
  <2>4. s.memory = (s.memory \ ({x} \X Whats)) \cup {<<x, "object">>}
    <3>1. <<x, "object">> \in {x} \X Whats
      BY <2>2
    <3> HIDE DEF Whats
    <3> QED
      BY <2>3, <3>1
  <2>5. {x} \X WhatsOf(bare) = {<<x, "object">>}
    BY <1>2
  <2> QED
    BY <1>5, <2>4, <2>5
<1>7. \A y \in Handling!Objects : ~Uses(s.object[y], x)
  <2>1. s.object[x].kind \notin Handling!Devices
    BY DEF Handling!Devices, Handling!OnMemory
  <2> QED
    BY <2>1, UsedAreDevices
<1>8. r.file = ClosedFiles(s, s.object[x])
  BY <1>4, <1>5 DEF ClosedFiles
<1> HIDE DEF r
<1>9. HandlesGood(r)
  BY <1>2, <1>5, <1>6, <1>7, <1>8, ShutGood
<1>10. CASE ~(o.data /\ o.owns)
  <2>1. t = r
    BY <1>10 DEF Handling!Cleanup, bare, BareBlockdev, r
  <2> HIDE DEF t
  <2> QED
    BY <1>1, <1>5, <1>9, <2>1 DEF bare, t
<1>11. CASE o.data /\ o.owns
  <2> DEFINE d == o.on
             c == Handling!FinalizeDevice(s, d)
             g == Handling!Gone
  <2>1. o.kind \in Handling!OnDevice
    BY DEF Handling!OnDevice
  <2>2. d \in Handling!Objects /\ Uses(o, d)
    BY <1>1, <1>11, <2>1 DEF WellMade, Uses
  <2>3. s.object[d].kind \in Handling!Devices
    BY <2>2 DEF HandlesGood
  <2>4. s.object[d].kind \notin {"gone", "blockdev"} /\ d # x
    BY <2>3 DEF Handling!Devices, Handling!OnMemory
  <2>5. \A y \in Handling!Objects : y # x => ~Uses(s.object[y], d)
    BY <1>11, <2>2 DEF HandlesGood
  <2>6. WholeObject(s, d)
    BY <2>2, <2>4, WholeWhenGood
  <2> HIDE DEF d, o
  <2>7. /\ c \in HandleStates /\ c.object = [s.object EXCEPT ![d] = g]
        /\ c.file = ClosedFiles(s, s.object[d]) /\ c.twice = s.twice
        /\ c.memory = s.memory \ ({d} \X Whats)
    BY <1>1, <2>2, <2>6, FinalizeDeviceIs
  <2>8. t = [c EXCEPT !.object[x] = bare]
    BY <1>11 DEF Handling!Cleanup, bare, BareBlockdev, d, o
  <2>9. g \in ObjectRecs /\ WellMade(g) /\ ~g.data /\ WhatsOf(g) = {}
    BY GoneIs
  <2> HIDE DEF c, t, g
  <2>10. LET v == [c EXCEPT !.object[x] = bare] IN
         /\ v \in HandleStates /\ v.object = [c.object EXCEPT ![x] = bare]
         /\ v.file = c.file /\ v.memory = c.memory /\ v.twice = c.twice
    BY <1>2, <2>7, ObjectSet
  <2>11. /\ t \in HandleStates /\ t.object = [c.object EXCEPT ![x] = bare]
         /\ t.file = c.file /\ t.memory = c.memory /\ t.twice = c.twice
    BY <2>8, <2>10
  <2>12. t.object = [r.object EXCEPT ![d] = g]
    BY <1>1, <1>5, <2>2, <2>4, <2>7, <2>11
  <2>13. r.object[d] = s.object[d] /\ r.object[x] = bare
         /\ \A y \in Handling!Objects : y # x => r.object[y] = s.object[y]
    BY <1>1, <1>5, <2>2, <2>4
  <2>14. t.file = ClosedFiles(r, r.object[d])
    BY <1>5, <2>7, <2>11, <2>13 DEF ClosedFiles
  <2>15. t.memory = (r.memory \ ({d} \X Whats)) \cup ({d} \X WhatsOf(g))
    BY <1>5, <2>7, <2>9, <2>11
  <2>16. \A y \in Handling!Objects : ~Uses(r.object[y], d)
    <3>1. ~Uses(bare, d)
      BY <1>2 DEF Uses
    <3> QED
      BY <2>5, <2>13, <3>1
  <2>17. HandlesGood(t)
    BY <1>5, <1>9, <2>2, <2>7, <2>9, <2>11, <2>12, <2>14, <2>15, <2>16, ShutGood
  <2>18. /\ t.object[x] = bare
         /\ \A y \in Handling!Objects : y # x => t.object[y] \in {s.object[y], g}
    BY <1>1, <2>2, <2>4, <2>7, <2>11
  <2> QED
    BY <2>17, <2>18 DEF t, bare, g
<1> QED
  BY <1>10, <1>11

LEMMA ClosedGood ==
  ASSUME NEW s, HandlesGood(s), NEW x \in Handling!Objects, s.object[x].kind # "gone"
  PROVE  LET t == Handling!Closed(s, x) IN
         /\ HandlesGood(t)
         /\ t.object[x].kind = s.object[x].kind /\ ~t.object[x].data /\ ~t.object[x].hook
         /\ \A y \in Handling!Objects : y # x => t.object[y] \in {s.object[y], Handling!Gone}
<1> DEFINE o == s.object[x]
           c == Handling!CloseOne(s, x)
           q == [o EXCEPT !.data = FALSE, !.hook = FALSE]
           t == Handling!Closed(s, x)
<1>1. /\ s \in HandleStates /\ o \in ObjectRecs /\ WellMade(o)
      /\ s.object \in [Handling!Objects -> ObjectRecs]
  BY DEF HandlesGood, HandleStates
<1>2. CASE o.kind = "blockdev"
  <2>1. t = Handling!Cleanup(s, x)
    BY <1>2 DEF Handling!Closed
  <2>2. LET v == Handling!Cleanup(s, x) IN
        /\ HandlesGood(v)
        /\ v.object[x] = BareBlockdev
        /\ \A y \in Handling!Objects : y # x => v.object[y] \in {s.object[y], Handling!Gone}
    BY <1>2, CleanupGood
  <2> HIDE DEF t
  <2> QED
    BY <1>2, <2>1, <2>2, BareIs DEF t
<1>3. CASE o.kind # "blockdev"
  <2>1. HandlesGood(c) /\ c.object = [s.object EXCEPT ![x] = q]
    BY <1>3, CloseOneGood
  <2>2. q.kind = o.kind /\ ~q.data /\ ~q.hook
    BY <1>1 DEF ObjectRecs
  <2> HIDE DEF c, q
  <2>3. c.object[x] = q /\ \A y \in Handling!Objects : y # x => c.object[y] = s.object[y]
    BY <1>1, <2>1
  <2>4. CASE ~(o.kind = "streamDev" /\ o.data /\ o.owns)
    <3>1. t = c
      BY <1>3, <2>4 DEF Handling!Closed, c
    <3> HIDE DEF t
    <3> QED
      BY <2>1, <2>2, <2>3, <3>1 DEF t
  <2>5. CASE o.kind = "streamDev" /\ o.data /\ o.owns
    <3> DEFINE d == o.on
    <3>1. o.kind \in Handling!OnDevice
      BY <2>5 DEF Handling!OnDevice
    <3>2. d \in Handling!Objects /\ Uses(o, d)
      BY <1>1, <2>5, <3>1 DEF WellMade, Uses
    <3>3. s.object[d].kind \in Handling!Devices
      BY <3>2 DEF HandlesGood
    <3>4. s.object[d].kind \notin {"gone", "blockdev"} /\ d # x
      BY <2>5, <3>3 DEF Handling!Devices, Handling!OnMemory
    <3>5. \A y \in Handling!Objects : y # x => ~Uses(s.object[y], d)
      BY <2>5, <3>2 DEF HandlesGood
    <3>6. ~Uses(q, d)
      BY <2>2 DEF Uses
    <3>7. \A y \in Handling!Objects : ~Uses(c.object[y], d)
      BY <2>3, <3>5, <3>6
    <3>8. t = Handling!FinalizeDevice(c, d)
      BY <2>5 DEF Handling!Closed, c
    <3> HIDE DEF d, t
    <3>9. LET v == Handling!FinalizeDevice(c, d) IN
          /\ HandlesGood(v) /\ v.object = [c.object EXCEPT ![d] = Handling!Gone]
      BY <2>1, <2>3, <3>2, <3>4, <3>7, FinalizeDeviceGood
    <3>10. HandlesGood(t) /\ t.object = [c.object EXCEPT ![d] = Handling!Gone]
      BY <3>8, <3>9
    <3>11. c.object \in [Handling!Objects -> ObjectRecs]
      BY <2>1 DEF HandlesGood, HandleStates
    <3>12. /\ t.object[x] = q
           /\ \A y \in Handling!Objects : y # x => t.object[y] \in {s.object[y], Handling!Gone}
      BY <2>3, <3>2, <3>4, <3>10, <3>11
    <3> QED
      BY <2>2, <3>10, <3>12 DEF t
  <2> QED
    BY <2>4, <2>5
<1> QED
  BY <1>2, <1>3

LEMMA FinalizedHandle ==
  ASSUME NEW s, HandlesGood(s), NEW x \in Handling!Objects, s.object[x].kind # "gone",
         \A y \in Handling!Objects : ~Uses(s.object[y], x)
  PROVE  HandlesGood(Handling!Finalized(s, x))
<1> DEFINE c == Handling!Closed(s, x)
           p == {Handling!Piece(x, "object")}
           u == Handling!Free(c, p)
           g == Handling!Gone
           t == Handling!Finalized(s, x)
<1>1. /\ HandlesGood(c)
      /\ c.object[x].kind # "gone" /\ ~c.object[x].data /\ ~c.object[x].hook
      /\ \A y \in Handling!Objects : y # x => c.object[y] \in {s.object[y], g}
  BY ClosedGood
<1>2. t = [u EXCEPT !.object[x] = g]
  BY DEF Handling!Finalized
<1>3. p = {<<x, "object">>}
  BY DEF Handling!Piece
<1>4. g \in ObjectRecs /\ WellMade(g) /\ ~g.data /\ WhatsOf(g) = {}
  BY GoneIs
<1> HIDE DEF c, p, g
<1>5. /\ c \in HandleStates /\ c.memory = MemoryOf(c.object)
      /\ c.object \in [Handling!Objects -> ObjectRecs]
  BY <1>1 DEF HandlesGood, HandleStates
<1>6. WhatsOf(c.object[x]) = {"object"}
  BY <1>1 DEF WhatsOf
<1>7. \A w \in Whats : <<x, w>> \in c.memory <=> w = "object"
  <2> HIDE DEF Whats, WhatsOf
  <2> QED
    BY <1>5, <1>6 DEF MemoryOf
<1>8. "object" \in Whats
  BY DEF Whats
<1>9. \A r \in p : r \in c.memory \/ r[2] = "buffer"
  BY <1>3, <1>7, <1>8
<1>10. /\ u \in HandleStates /\ u.object = c.object /\ u.file = c.file /\ u.twice = c.twice
       /\ u.memory = c.memory \ p
  BY <1>5, <1>9, FreeIs
<1> HIDE DEF u, t
<1>11. LET v == [u EXCEPT !.object[x] = g] IN
       /\ v \in HandleStates /\ v.object = [u.object EXCEPT ![x] = g]
       /\ v.file = u.file /\ v.memory = u.memory /\ v.twice = u.twice
  BY <1>4, <1>10, ObjectSet
<1>12. /\ t \in HandleStates /\ t.object = [c.object EXCEPT ![x] = g]
       /\ t.file = c.file /\ t.memory = c.memory \ p /\ t.twice = c.twice
  BY <1>2, <1>10, <1>11
<1>13. c.memory \ p = (c.memory \ ({x} \X Whats)) \cup ({x} \X WhatsOf(g))
  <2>1. \A r \in {x} \X Whats : r \in c.memory <=> r = <<x, "object">>
    BY <1>7
  <2>2. <<x, "object">> \in {x} \X Whats
    BY <1>8
  <2> HIDE DEF Whats
  <2> QED
    BY <1>3, <1>4, <2>1, <2>2
<1>14. c.file = ClosedFiles(c, c.object[x])
  BY <1>1 DEF ClosedFiles, OwnsFile
<1>15. \A y \in Handling!Objects : y # x /\ Uses(c.object[y], x) => g.kind \in Handling!Devices
  <2>1. ~Uses(g, x)
    BY <1>4 DEF Uses
  <2> QED
    BY <1>1, <2>1
<1>16. HandlesGood(t)
  BY <1>1, <1>4, <1>12, <1>13, <1>14, <1>15, ShutGood
<1> QED
  BY <1>16 DEF t

LEMMA FileSet ==
  ASSUME NEW s \in HandleStates, NEW f \in Handling!Files, NEW r \in FileRecs
  PROVE  LET t == [s EXCEPT !.file[f] = r] IN
         /\ t \in HandleStates
         /\ t.object = s.object /\ t.memory = s.memory /\ t.twice = s.twice
         /\ t.file = [s.file EXCEPT ![f] = r]
<1> DEFINE c == [s.file EXCEPT ![f] = r]
<1>1. c \in [Handling!Files -> FileRecs]
  BY DEF HandleStates
<1>2. [s EXCEPT !.file[f] = r] = [s EXCEPT !.file = c]
  BY DEF HandleStates
<1> HIDE DEF c
<1>3. /\ [s EXCEPT !.file = c].object = s.object
      /\ [s EXCEPT !.file = c].memory = s.memory
      /\ [s EXCEPT !.file = c].file = c
      /\ [s EXCEPT !.file = c].twice = s.twice
      /\ [s EXCEPT !.file = c] \in HandleStates
  BY <1>1 DEF HandleStates
<1> QED
  BY <1>2, <1>3 DEF c

\* A file changed that no object owns, before and after.
LEMMA FileGood ==
  ASSUME NEW s, HandlesGood(s), NEW t \in HandleStates,
         t.object = s.object, t.memory = s.memory, t.twice = s.twice,
         \A f \in Handling!Files : t.file[f] = OwnedFile <=> s.file[f] = OwnedFile
  PROVE  HandlesGood(t)
BY DEF HandlesGood

LEMMA MemorySet ==
  ASSUME NEW s \in HandleStates, NEW m, m \subseteq Handling!Objects \X Whats
  PROVE  LET t == [s EXCEPT !.memory = m] IN
         /\ t \in HandleStates
         /\ t.object = s.object /\ t.file = s.file /\ t.twice = s.twice
         /\ t.memory = m
BY DEF HandleStates

LEMMA SameState ==
  ASSUME NEW s \in HandleStates, NEW t \in HandleStates, t.object = s.object,
         t.file = s.file, t.memory = s.memory, t.twice = s.twice
  PROVE  t = s
BY DEF HandleStates

\* What there is of an object that is gone.
LEMMA NothingOf ==
  ASSUME NEW s, HandlesGood(s), NEW x \in Handling!Objects, s.object[x].kind = "gone"
  PROVE  /\ s.object[x] = Handling!Gone
         /\ \A w : <<x, w>> \notin s.memory
         /\ \A y \in Handling!Objects : ~Uses(s.object[y], x)
         /\ \A f : ~OwnsFile(s.object[x], f) /\ ~Uses(s.object[x], f)
<1>1. s.object[x] = Handling!Gone
  BY DEF HandlesGood, WellMade
<1>2. WhatsOf(s.object[x]) = {}
  BY <1>1, GoneIs
<1>3. \A w : <<x, w>> \notin s.memory
  BY <1>2 DEF HandlesGood, MemoryOf
<1>4. s.object[x].kind \notin Handling!Devices
  BY DEF Handling!Devices, Handling!OnMemory
<1> QED
  BY <1>1, <1>3, <1>4, UsedAreDevices, GoneIs DEF OwnsFile, Uses

\* The first allocation of a new object, which is freed again.
LEMMA AbandonIs ==
  ASSUME NEW s, HandlesGood(s), NEW x \in Handling!Objects, s.object[x].kind = "gone"
  PROVE  Handling!Abandon(s, x) = s
<1> DEFINE m == s.memory \cup {<<x, "object">>}
           a == [s EXCEPT !.memory = m]
           p == {<<x, "object">>}
           t == Handling!Abandon(s, x)
<1>1. s \in HandleStates /\ s.memory \subseteq Handling!Objects \X Whats
  BY DEF HandlesGood, HandleStates
<1>2. m \subseteq Handling!Objects \X Whats
  BY <1>1 DEF Whats
<1>3. t = Handling!Free(a, p)
  BY <1>1 DEF Handling!Abandon, Handling!Piece
<1> HIDE DEF t
<1>4. /\ a \in HandleStates
      /\ a.object = s.object /\ a.file = s.file /\ a.twice = s.twice /\ a.memory = m
  <2> HIDE DEF m
  <2> QED
    BY <1>1, <1>2, MemorySet
<1> HIDE DEF a
<1>5. \A r \in p : r \in a.memory \/ r[2] = "buffer"
  BY <1>4
<1> HIDE DEF p
<1>6. /\ t \in HandleStates
      /\ t.object = a.object /\ t.file = a.file /\ t.twice = a.twice
      /\ t.memory = a.memory \ p
  BY <1>3, <1>4, <1>5, FreeIs
<1>7. <<x, "object">> \notin s.memory
  BY NothingOf
<1>8. t.memory = s.memory
  BY <1>4, <1>6, <1>7 DEF p
<1> HIDE DEF m
<1> QED
  BY <1>1, <1>4, <1>6, <1>8, SameState DEF t

LEMMA AddIs ==
  ASSUME NEW s \in HandleStates, NEW x \in Handling!Objects, NEW o \in ObjectRecs,
         o.kind # "gone", ~o.hook, o.data \/ o.kind = "blockdev"
  PROVE  LET t == Handling!Add(s, x, o) IN
         /\ t \in HandleStates
         /\ t.object = [s.object EXCEPT ![x] = o]
         /\ t.file = s.file /\ t.twice = s.twice
         /\ t.memory = s.memory \cup ({x} \X WhatsOf(o))
<1> DEFINE m == s.memory \cup Handling!Pieces(x, o.kind)
           a == [s EXCEPT !.object[x] = o]
           t == Handling!Add(s, x, o)
<1>1. o.kind # "blockdev" => o.data
  OBVIOUS
<1>2. Handling!Pieces(x, o.kind) = {x} \X WhatsOf(o)
  <2>1. WhatsOf(o) = {"object"} \cup (IF o.kind # "blockdev" THEN {"meta"} ELSE {})
                      \cup (IF o.kind = "membuf" THEN {"buffer"} ELSE {})
    BY <1>1 DEF WhatsOf
  <2>2. CASE o.kind = "blockdev"
    BY <2>1, <2>2 DEF Handling!Pieces, Handling!Piece
  <2>3. CASE o.kind = "membuf"
    <3>1. WhatsOf(o) = {"object", "meta", "buffer"}
      BY <2>1, <2>3
    <3>2. Handling!Pieces(x, o.kind) = {<<x, "object">>, <<x, "meta">>, <<x, "buffer">>}
      BY <2>3 DEF Handling!Pieces, Handling!Piece
    <3> QED
      BY <3>1, <3>2
  <2>4. CASE o.kind \notin {"blockdev", "membuf"}
    BY <2>1, <2>4 DEF Handling!Pieces, Handling!Piece
  <2> QED
    BY <2>2, <2>3, <2>4
<1>3. t = [a EXCEPT !.memory = m]
  BY DEF HandleStates, Handling!Add
<1>4. /\ a \in HandleStates /\ a.object = [s.object EXCEPT ![x] = o]
      /\ a.file = s.file /\ a.memory = s.memory /\ a.twice = s.twice
  BY ObjectSet
<1>5. m \subseteq Handling!Objects \X Whats
  <2>1. WhatsOf(o) \subseteq Whats /\ s.memory \subseteq Handling!Objects \X Whats
    BY DEF WhatsOf, Whats, HandleStates
  <2> HIDE DEF WhatsOf, Whats
  <2> QED
    BY <1>2, <2>1
<1> HIDE DEF a, m, t
<1>6. /\ t \in HandleStates
      /\ t.object = a.object /\ t.file = a.file /\ t.twice = a.twice /\ t.memory = m
  BY <1>3, <1>4, <1>5, MemorySet
<1> QED
  BY <1>2, <1>4, <1>6 DEF m, t

\* A state with one object more.
LEMMA MoreGood ==
  ASSUME NEW s, HandlesGood(s), NEW x \in Handling!Objects, s.object[x].kind = "gone",
         NEW o \in ObjectRecs, WellMade(o),
         NEW t \in HandleStates, t.object = [s.object EXCEPT ![x] = o], ~t.twice,
         t.memory = s.memory \cup ({x} \X WhatsOf(o)),
         \A f \in Handling!Files :
           t.file[f] = OwnedFile <=> OwnsFile(o, f) \/ s.file[f] = OwnedFile,
         \A f \in Handling!Files : OwnsFile(o, f) => s.file[f] # OwnedFile,
         \A d \in Handling!Objects : Uses(o, d) => s.object[d].kind \in Handling!Devices,
         \A y, d \in Handling!Objects :
           Uses(o, d) /\ Uses(s.object[y], d) => ~o.owns /\ ~s.object[y].owns
  PROVE  HandlesGood(t)
<1>1. /\ \A w : <<x, w>> \notin s.memory
      /\ \A y \in Handling!Objects : ~Uses(s.object[y], x)
      /\ \A f : ~OwnsFile(s.object[x], f) /\ ~Uses(s.object[x], f)
  BY NothingOf
<1>2. t.memory = (s.memory \ ({x} \X Whats)) \cup ({x} \X WhatsOf(o))
  <2>1. s.memory \ ({x} \X Whats) = s.memory
    <3> HIDE DEF Whats
    <3> QED
      BY <1>1
  <2> QED
    BY <2>1
<1>3. \A f \in Handling!Files, y \in Handling!Objects :
        OwnsFile(s.object[y], f) => s.file[f] = OwnedFile
  BY DEF HandlesGood
<1>4. "gone" \notin Handling!Devices
  BY DEF Handling!Devices, Handling!OnMemory
<1>5. /\ \A f \in Handling!Files :
           t.file[f] = OwnedFile
             <=> OwnsFile(o, f) \/ (s.file[f] = OwnedFile /\ ~OwnsFile(s.object[x], f))
      /\ \A f \in Handling!Files, y \in Handling!Objects :
           OwnsFile(o, f) /\ OwnsFile(s.object[y], f) => y = x
      /\ \A d \in Handling!Objects :
           Uses(o, d) => d # x /\ s.object[d].kind \in Handling!Devices
      /\ \A y, d \in Handling!Objects :
           Uses(o, d) /\ Uses(s.object[y], d) /\ y # x => ~o.owns /\ ~s.object[y].owns
      /\ \A y \in Handling!Objects :
           y # x /\ Uses(s.object[y], x) => o.kind \in Handling!Devices
  BY <1>1, <1>3, <1>4
<1> QED
  BY <1>2, <1>5, SetGood

LEMMA MadeIs ==
  ASSUME NEW kind \in Handling!OnFile \cup Handling!OnDevice \cup Handling!Devices,
         NEW on \in Nat, NEW owns \in BOOLEAN
  PROVE  LET o == Handling!Made(kind, on, owns) IN
         /\ o \in ObjectRecs /\ o.kind = kind /\ o.on = on /\ o.owns = owns
         /\ o.data /\ ~o.hook /\ kind # "gone"
BY DEF Handling!Made, ObjectRecs, Handling!OnFile, Handling!OnDevice, Handling!Devices,
       Handling!OnMemory

LEMMA NewObjectIs ==
  ASSUME Handling!SizesAssumption, HandlesInv, Handling!Free0 # {}
  PROVE  /\ Handling!NewObject \in Handling!Objects
         /\ handles[Handling!NewObject].kind = "gone"
<1>1. Handling!Free0 \subseteq Nat
  BY DEF Handling!Free0, Handling!Objects, Handling!SizesAssumption
<1>2. PICK m \in Handling!Free0 : \A k \in Handling!Free0 : m <= k
  BY <1>1, LeastExists
<1>3. Handling!NewObject \in Handling!Free0
  BY <1>2 DEF Handling!NewObject
<1> QED
  BY <1>3 DEF Handling!Free0

LEMMA StateIs ==
  ASSUME HandlesInv
  PROVE  /\ HandlesGood(Handling!State) /\ Handling!State \in HandleStates
         /\ Handling!State.object = handles /\ Handling!State.file = fds
         /\ Handling!State.memory = allocated /\ Handling!State.twice = twice
         /\ ~Handling!State.twice
         /\ handles \in [Handling!Objects -> ObjectRecs]
         /\ fds \in [Handling!Files -> FileRecs]
BY DEF HandlesInv, HandlesGood, HandleStates, Handling!State

LEMMA NumbersAre ==
  ASSUME Handling!SizesAssumption
  PROVE  Handling!Objects \subseteq Nat /\ Handling!Files \subseteq Nat
BY DEF Handling!SizesAssumption, Handling!Objects, Handling!Files

\* A new object made of the FILE f: it is the owner or not, and f becomes r.
LEMMA AddOnFile ==
  ASSUME Handling!SizesAssumption, NEW s, HandlesGood(s),
         NEW x \in Handling!Objects, s.object[x].kind = "gone",
         NEW f \in Handling!Files, NEW kind \in Handling!OnFile, NEW take \in BOOLEAN,
         NEW r \in FileRecs, r = OwnedFile <=> take, s.file[f] # OwnedFile
  PROVE  HandlesGood([Handling!Add(s, x, Handling!Made(kind, f, take)) EXCEPT
                        !.file[f] = r])
<1> DEFINE o == Handling!Made(kind, f, take)
           a == Handling!Add(s, x, o)
           t == [a EXCEPT !.file[f] = r]
<1>1. /\ o \in ObjectRecs /\ o.kind = kind /\ o.on = f /\ o.owns = take
      /\ o.data /\ ~o.hook /\ kind # "gone"
  BY MadeIs, NumbersAre
<1>2. kind \notin Handling!OnDevice /\ kind # "blockdev"
  BY DEF Handling!OnDevice, Handling!OnFile
<1>3. s \in HandleStates /\ ~s.twice
  BY DEF HandlesGood
<1> HIDE DEF o
<1>4. /\ a \in HandleStates
      /\ a.object = [s.object EXCEPT ![x] = o]
      /\ a.file = s.file /\ a.twice = s.twice
      /\ a.memory = s.memory \cup ({x} \X WhatsOf(o))
  BY <1>1, <1>3, AddIs
<1> HIDE DEF a
<1>5. /\ t \in HandleStates
      /\ t.object = a.object /\ t.memory = a.memory /\ t.twice = a.twice
      /\ t.file = [a.file EXCEPT ![f] = r]
  BY <1>4, FileSet
<1> HIDE DEF t
<1>6. WellMade(o)
  BY <1>1, <1>2 DEF WellMade
<1>7. \A g : (OwnsFile(o, g) <=> g = f /\ take) /\ ~Uses(o, g)
  BY <1>1, <1>2 DEF OwnsFile, Uses
<1>8. s.file \in [Handling!Files -> FileRecs]
  BY <1>3 DEF HandleStates
<1>9. \A g \in Handling!Files :
        t.file[g] = OwnedFile <=> OwnsFile(o, g) \/ s.file[g] = OwnedFile
  BY <1>4, <1>5, <1>7, <1>8
<1>10. \A g \in Handling!Files : OwnsFile(o, g) => s.file[g] # OwnedFile
  BY <1>7
<1>11. t.object = [s.object EXCEPT ![x] = o] /\ ~t.twice
       /\ t.memory = s.memory \cup ({x} \X WhatsOf(o))
  BY <1>3, <1>4, <1>5
<1>12. /\ \A d \in Handling!Objects : Uses(o, d) => s.object[d].kind \in Handling!Devices
       /\ \A y, d \in Handling!Objects :
            Uses(o, d) /\ Uses(s.object[y], d) => ~o.owns /\ ~s.object[y].owns
  BY <1>7
<1>13. HandlesGood(t)
  BY <1>1, <1>5, <1>6, <1>9, <1>10, <1>11, <1>12, MoreGood
<1> QED
  BY <1>13 DEF t, a, o

\* A new object on a device, or on none.
LEMMA AddOnDevice ==
  ASSUME Handling!SizesAssumption, NEW s, HandlesGood(s),
         NEW x \in Handling!Objects, s.object[x].kind = "gone",
         NEW kind \in (Handling!OnDevice \cup Handling!Devices) \ Handling!OnFile,
         NEW d \in Nat, NEW take \in BOOLEAN,
         kind \in Handling!OnDevice =>
           d \in Handling!Objects /\ s.object[d].kind \in Handling!Devices,
         \A y \in Handling!Objects :
           kind \in Handling!OnDevice /\ Uses(s.object[y], d) => ~take /\ ~s.object[y].owns
  PROVE  HandlesGood(Handling!Add(s, x, Handling!Made(kind, d, take)))
<1> DEFINE o == Handling!Made(kind, d, take)
           t == Handling!Add(s, x, o)
<1>1. /\ o \in ObjectRecs /\ o.kind = kind /\ o.on = d /\ o.owns = take
      /\ o.data /\ ~o.hook /\ kind # "gone"
  BY MadeIs
<1>2. s \in HandleStates /\ ~s.twice
  BY DEF HandlesGood
<1> HIDE DEF o
<1>3. /\ t \in HandleStates
      /\ t.object = [s.object EXCEPT ![x] = o]
      /\ t.file = s.file /\ t.twice = s.twice
      /\ t.memory = s.memory \cup ({x} \X WhatsOf(o))
  BY <1>1, <1>2, AddIs
<1> HIDE DEF t
<1>4. WellMade(o)
  BY <1>1 DEF WellMade
<1>5. \A g : ~OwnsFile(o, g) /\ (Uses(o, g) <=> kind \in Handling!OnDevice /\ g = d)
  BY <1>1 DEF OwnsFile, Uses
<1>6. /\ \A f \in Handling!Files :
           t.file[f] = OwnedFile <=> OwnsFile(o, f) \/ s.file[f] = OwnedFile
      /\ \A f \in Handling!Files : OwnsFile(o, f) => s.file[f] # OwnedFile
      /\ \A g \in Handling!Objects : Uses(o, g) => s.object[g].kind \in Handling!Devices
      /\ \A y, g \in Handling!Objects :
           Uses(o, g) /\ Uses(s.object[y], g) => ~o.owns /\ ~s.object[y].owns
  BY <1>1, <1>3, <1>5
<1>7. HandlesGood(t)
  BY <1>1, <1>2, <1>3, <1>4, <1>6, MoreGood
<1> QED
  BY <1>7 DEF t, o

\* Nobody who holds a device finds that another owns it.
LEMMA HeldIs ==
  ASSUME HandlesInv, NEW x \in Handling!Objects
  PROVE  /\ Handling!Held(x) =>
              handles[x].kind # "gone"
              /\ \A y \in Handling!Objects : Uses(handles[y], x) => ~handles[y].owns
         /\ ~Handling!InUse(x) => \A y \in Handling!Objects : ~Uses(handles[y], x)
BY DEF Handling!Held, Handling!Owned, Handling!InUse, Uses

-----------------------------------------------------------------------------
LEMMA HandlesForFILE ==
  ASSUME Handling!SizesAssumption, HandlesInv, Handling!ForFILE
  PROVE  HandlesInv'
<1> DEFINE n == Handling!NewObject
           s == Handling!State
<1>1. PICK f \in Handling!Files, take \in BOOLEAN, kind \in {"devFILE", "streamFILE"} :
        /\ fds[f] = [is |-> "FILE", owner |-> "caller"]
        /\ \/ Handling!Become(s)
           \/ Handling!Become(Handling!Abandon(s, n))
           \/ Handling!Become([Handling!Add(s, n, Handling!Made(kind, f, take)) EXCEPT
                       !.file[f].owner = IF take THEN "object" ELSE "caller"])
  BY DEF Handling!ForFILE
<1>2. n \in Handling!Objects /\ s.object[n].kind = "gone" /\ HandlesGood(s) /\ s.file = fds
      /\ s \in HandleStates
  BY NewObjectIs, StateIs DEF Handling!ForFILE
<1> HIDE DEF n, s
<1>3. CASE Handling!Become(s)
  BY <1>2, <1>3, HandlesBecome
<1>4. CASE Handling!Become(Handling!Abandon(s, n))
  BY <1>2, <1>4, AbandonIs, HandlesBecome
<1>5. CASE Handling!Become([Handling!Add(s, n, Handling!Made(kind, f, take)) EXCEPT
                       !.file[f].owner = IF take THEN "object" ELSE "caller"])
  <2> DEFINE who == IF take THEN "object" ELSE "caller"
             r == [is |-> "FILE", owner |-> who]
             o == Handling!Made(kind, f, take)
             a == Handling!Add(s, n, o)
  <2>1. kind \in Handling!OnFile /\ kind # "gone"
    BY <1>1 DEF Handling!OnFile
  <2>2. who \in {"object", "caller"} /\ (who = "object" <=> take)
    BY <1>1, Zenon
  <2>3. o \in ObjectRecs /\ o.kind # "gone" /\ ~o.hook /\ o.data
    BY <1>1, <2>1, MadeIs, NumbersAre
  <2> HIDE DEF who, o
  <2>4. r \in FileRecs /\ (r = OwnedFile <=> take) /\ fds[f] # OwnedFile
    BY <1>1, <2>2 DEF FileRecs, OwnedFile
  <2>5. a.file = fds /\ a \in HandleStates
    BY <1>2, <2>3, AddIs
  <2>6. [a.file[f] EXCEPT !.owner = who] = r
    BY <1>1, <2>5
  <2>7. [a EXCEPT !.file[f].owner = who] = [a EXCEPT !.file[f] = r]
    BY <2>6
  <2>8. HandlesGood([a EXCEPT !.file[f] = r])
    BY <1>1, <1>2, <2>1, <2>4, AddOnFile DEF o
  <2> HIDE DEF r, a
  <2>9. Handling!Become([a EXCEPT !.file[f].owner = who])
    BY <1>5 DEF a, o, who
  <2> QED
    BY <2>7, <2>8, <2>9, HandlesBecome
<1> QED
  BY <1>1, <1>3, <1>4, <1>5

LEMMA HandlesDevForFile ==
  ASSUME Handling!SizesAssumption, HandlesInv, Handling!DevForFile
  PROVE  HandlesInv'
<1> DEFINE n == Handling!NewObject
           s == Handling!State
           r == [is |-> "FILE", owner |-> "object"]
<1>1. PICK f \in Handling!Files :
        /\ fds[f] \in {Handling!NoFile, [is |-> "descriptor", owner |-> "caller"]}
        /\ \/ Handling!Become(s)
           \/ Handling!Become(Handling!Abandon(s, n))
           \/ Handling!Become([Handling!Add(s, n, Handling!Made("devFileno", f, TRUE)) EXCEPT
                       !.file[f] = r])
  BY DEF Handling!DevForFile
<1>2. n \in Handling!Objects /\ s.object[n].kind = "gone" /\ HandlesGood(s) /\ s.file = fds
  BY NewObjectIs, StateIs DEF Handling!DevForFile
<1>3. /\ "devFileno" \in Handling!OnFile /\ r \in FileRecs /\ r = OwnedFile
      /\ fds[f] # OwnedFile
  BY <1>1 DEF Handling!OnFile, FileRecs, OwnedFile, Handling!NoFile
<1> HIDE DEF n, s, r
<1>4. HandlesGood([Handling!Add(s, n, Handling!Made("devFileno", f, TRUE)) EXCEPT
                       !.file[f] = r])
  BY <1>2, <1>3, AddOnFile
<1> QED
  BY <1>1, <1>2, <1>4, AbandonIs, HandlesBecome

LEMMA GiveUpFILEGood ==
  ASSUME NEW s, HandlesGood(s), NEW f \in Handling!Files, s.file[f] # OwnedFile
  PROVE  HandlesGood(Handling!GiveUpFILE(s, f))
<1> DEFINE r == [is |-> "FILE", owner |-> "object"]
           a == [s EXCEPT !.file[f] = r]
           t == Handling!GiveUpFILE(s, f)
<1>1. s \in HandleStates /\ s.file \in [Handling!Files -> FileRecs] /\ r \in FileRecs
  BY DEF HandlesGood, HandleStates, FileRecs
<1>2. t = Handling!Fclose(a, f)
  BY DEF Handling!GiveUpFILE
<1> HIDE DEF t, r
<1>3. /\ a \in HandleStates
      /\ a.object = s.object /\ a.memory = s.memory /\ a.twice = s.twice
      /\ a.file = [s.file EXCEPT ![f] = r]
  BY <1>1, FileSet
<1>4. a.file[f].is = "FILE"
  BY <1>1, <1>3 DEF r
<1> HIDE DEF a
<1>5. /\ t \in HandleStates
      /\ t.object = a.object /\ t.memory = a.memory /\ t.twice = a.twice
      /\ t.file = [a.file EXCEPT ![f].is = "closed"]
  BY <1>2, <1>3, <1>4, FcloseIs
<1>6. t.file[f].is = "closed" /\ \A g \in Handling!Files : g # f => t.file[g] = s.file[g]
  BY <1>1, <1>3, <1>5 DEF FileRecs
<1>7. \A g \in Handling!Files : t.file[g] = OwnedFile <=> s.file[g] = OwnedFile
  BY <1>6 DEF OwnedFile
<1>8. HandlesGood(t)
  BY <1>3, <1>5, <1>7, FileGood
<1> QED
  BY <1>8 DEF t

LEMMA HandlesStreamForFile ==
  ASSUME Handling!SizesAssumption, HandlesInv, Handling!StreamForFile
  PROVE  HandlesInv'
<1> DEFINE n == Handling!NewObject
           s == Handling!State
           r == [is |-> "FILE", owner |-> "object"]
<1>1. PICK f \in Handling!Files :
        /\ fds[f] \in {Handling!NoFile, [is |-> "descriptor", owner |-> "caller"]}
        /\ \/ Handling!Become(s)
           \/ Handling!Become(Handling!GiveUpFILE(s, f))
           \/ Handling!Become(Handling!GiveUpFILE(Handling!Abandon(s, n), f))
           \/ Handling!Become([Handling!Add(s, n, Handling!Made("streamFILE", f, TRUE)) EXCEPT
                       !.file[f] = r])
  BY DEF Handling!StreamForFile
<1>2. n \in Handling!Objects /\ s.object[n].kind = "gone" /\ HandlesGood(s) /\ s.file = fds
  BY NewObjectIs, StateIs DEF Handling!StreamForFile
<1>3. /\ "streamFILE" \in Handling!OnFile /\ r \in FileRecs /\ r = OwnedFile
      /\ fds[f] # OwnedFile
  BY <1>1 DEF Handling!OnFile, FileRecs, OwnedFile, Handling!NoFile
<1> HIDE DEF n, s, r
<1>4. HandlesGood([Handling!Add(s, n, Handling!Made("streamFILE", f, TRUE)) EXCEPT
                       !.file[f] = r])
  BY <1>2, <1>3, AddOnFile
<1>5. HandlesGood(Handling!GiveUpFILE(s, f)) /\ Handling!Abandon(s, n) = s
  BY <1>2, <1>3, GiveUpFILEGood, AbandonIs
<1> QED
  BY <1>1, <1>2, <1>4, <1>5, HandlesBecome

LEMMA HandlesForDevice ==
  ASSUME Handling!SizesAssumption, HandlesInv, Handling!ForDevice
  PROVE  HandlesInv'
<1> DEFINE n == Handling!NewObject
           s == Handling!State
<1>1. PICK x \in Handling!Objects, take \in BOOLEAN, kind \in {"streamDev", "subdev"} :
        /\ handles[x].kind \in Handling!Devices /\ Handling!Held(x)
        /\ take => kind = "streamDev" /\ ~Handling!InUse(x)
        /\ \/ Handling!Become(s)
           \/ Handling!Become(Handling!Abandon(s, n))
           \/ Handling!Become(Handling!Add(s, n, Handling!Made(kind, x, take)))
  BY DEF Handling!ForDevice
<1>2. n \in Handling!Objects /\ s.object[n].kind = "gone" /\ HandlesGood(s)
      /\ s.object = handles
  BY NewObjectIs, StateIs DEF Handling!ForDevice
<1>3. kind \in Handling!OnDevice /\ kind \notin Handling!OnFile /\ x \in Nat
  BY NumbersAre DEF Handling!OnDevice, Handling!OnFile
<1>4. \A y \in Handling!Objects : Uses(handles[y], x) => ~take /\ ~handles[y].owns
  BY <1>1, HeldIs
<1> HIDE DEF n, s
<1>5. HandlesGood(Handling!Add(s, n, Handling!Made(kind, x, take)))
  BY <1>1, <1>2, <1>3, <1>4, AddOnDevice
<1> QED
  BY <1>1, <1>2, <1>5, AbandonIs, HandlesBecome

LEMMA HandlesForMemory ==
  ASSUME Handling!SizesAssumption, HandlesInv, Handling!ForMemory
  PROVE  HandlesInv'
<1> DEFINE n == Handling!NewObject
           s == Handling!State
           a(kind) == Handling!Add(s, n, Handling!Made(kind, 0, FALSE))
           unmade == [a("membuf") EXCEPT !.memory = @ \ {Handling!Piece(n, "buffer")}]
           g == Handling!FinalizeDevice(unmade, n)
<1>1. PICK kind \in Handling!OnMemory :
        \/ Handling!Become(s)
        \/ Handling!Become(Handling!Abandon(s, n))
        \/ Handling!Become(g)
        \/ Handling!Become(a(kind))
  BY Zenon DEF Handling!ForMemory
<1>2. n \in Handling!Objects /\ s.object[n].kind = "gone" /\ HandlesGood(s)
      /\ s \in HandleStates
  BY NewObjectIs, StateIs DEF Handling!ForMemory
<1>3. /\ kind \in (Handling!OnDevice \cup Handling!Devices) \ Handling!OnFile
      /\ kind \notin Handling!OnDevice
      /\ "membuf" \in (Handling!OnDevice \cup Handling!Devices) \ Handling!OnFile
      /\ "membuf" \notin Handling!OnDevice
  BY DEF Handling!OnDevice, Handling!OnFile, Handling!OnMemory, Handling!Devices
<1> HIDE DEF n, s
<1>4. HandlesGood(a(kind))
  BY <1>2, <1>3, AddOnDevice
<1>5. HandlesGood(g)
  <2> DEFINE o == Handling!Made("membuf", 0, FALSE)
             m == s.memory \cup ({n} \X WhatsOf(o))
             b == m \ {<<n, "buffer">>}
             k == a("membuf")
  <2>0. 0 \in Nat /\ FALSE \in BOOLEAN
    OBVIOUS
  <2>1. /\ HandlesGood(k) /\ k.object = [s.object EXCEPT ![n] = o]
        /\ k.memory = m /\ k.file = s.file /\ k.twice = s.twice
    <3>1. ASSUME NEW j \in (Handling!OnDevice \cup Handling!Devices) \ Handling!OnFile,
                 j \notin Handling!OnDevice
          PROVE  /\ HandlesGood(Handling!Add(s, n, Handling!Made(j, 0, FALSE)))
                 /\ Handling!Made(j, 0, FALSE) \in ObjectRecs
                 /\ ~Handling!Made(j, 0, FALSE).hook /\ Handling!Made(j, 0, FALSE).data
                 /\ Handling!Made(j, 0, FALSE).kind # "gone"
      BY <1>2, <2>0, <3>1, AddOnDevice, MadeIs
    <3>2. HandlesGood(k) /\ o \in ObjectRecs /\ ~o.hook /\ o.data /\ o.kind # "gone"
      BY <1>3, <3>1, Zenon DEF a
    <3>3. k = Handling!Add(s, n, o)
      BY DEF a
    <3> HIDE DEF o, k
    <3> QED
      BY <1>2, <3>2, <3>3, AddIs
  <2>2. /\ o.kind = "membuf" /\ ~o.hook /\ o.data
        /\ WhatsOf(o) = {"object", "meta", "buffer"}
    BY DEF Handling!Made, WhatsOf
  <2>3. \A w : <<n, w>> \notin s.memory
    BY <1>2, NothingOf
  <2>4. k \in HandleStates /\ k.object[n] = o
    BY <1>2, <2>1 DEF HandlesGood, HandleStates
  <2> HIDE DEF o, k
  <2>5. unmade = [k EXCEPT !.memory = b]
    BY <2>1 DEF k, Handling!Piece
  <2>6. b \subseteq Handling!Objects \X Whats
    BY <2>1, <2>4 DEF HandleStates
  <2> HIDE DEF unmade, b
  <2>7. /\ unmade \in HandleStates
        /\ unmade.object = k.object /\ unmade.file = k.file /\ unmade.twice = k.twice
        /\ unmade.memory = b
    BY <2>4, <2>5, <2>6, MemorySet
  <2>8. b = s.memory \cup {<<n, "object">>, <<n, "meta">>}
    BY <2>2, <2>3 DEF b
  <2>9. ~OwnsFile(o, o.on)
    BY <2>2 DEF OwnsFile, Handling!OnFile
  <2>10. WholeObject(unmade, n)
    BY <2>2, <2>3, <2>4, <2>7, <2>8, <2>9 DEF WholeObject, Whats
  <2> HIDE DEF g
  <2>11. /\ g \in HandleStates
         /\ g.object = [unmade.object EXCEPT ![n] = Handling!Gone]
         /\ g.file = ClosedFiles(unmade, unmade.object[n]) /\ g.twice = unmade.twice
         /\ g.memory = unmade.memory \ ({n} \X Whats)
    BY <1>2, <2>7, <2>10, FinalizeDeviceIs DEF g
  <2>12. g.object = s.object
    <3>1. s.object[n] = Handling!Gone
      BY <1>2, NothingOf
    <3>2. s.object \in [Handling!Objects -> ObjectRecs]
      BY <1>2 DEF HandleStates
    <3> QED
      BY <1>2, <2>1, <2>7, <2>11, <3>1, <3>2
  <2>13. g.file = s.file
    BY <2>1, <2>4, <2>7, <2>9, <2>11 DEF ClosedFiles
  <2>14. g.memory = s.memory
    BY <2>3, <2>7, <2>8, <2>11 DEF Whats
  <2>15. g = s
    BY <1>2, <2>1, <2>7, <2>11, <2>12, <2>13, <2>14, SameState
  <2> QED
    BY <1>2, <2>15
<1> HIDE DEF a, g
<1> QED
  BY <1>1, <1>2, <1>4, <1>5, AbandonIs, HandlesBecome

LEMMA HandlesDevForInode ==
  ASSUME Handling!SizesAssumption, HandlesInv, Handling!DevForInode
  PROVE  HandlesInv'
<1> DEFINE n == Handling!NewObject
           s == Handling!State
<1>1. \/ Handling!Become(s)
      \/ Handling!Become(Handling!Abandon(s, n))
      \/ Handling!Become(Handling!Add(s, n, Handling!Made("devInode", 0, FALSE)))
  BY DEF Handling!DevForInode
<1>2. n \in Handling!Objects /\ s.object[n].kind = "gone" /\ HandlesGood(s)
  BY NewObjectIs, StateIs DEF Handling!DevForInode
<1>3. /\ "devInode" \in (Handling!OnDevice \cup Handling!Devices) \ Handling!OnFile
      /\ "devInode" \notin Handling!OnDevice
  BY DEF Handling!OnDevice, Handling!OnFile, Handling!OnMemory, Handling!Devices
<1> HIDE DEF n, s
<1>4. HandlesGood(Handling!Add(s, n, Handling!Made("devInode", 0, FALSE)))
  BY <1>2, <1>3, AddOnDevice
<1> QED
  BY <1>1, <1>2, <1>4, AbandonIs, HandlesBecome

LEMMA HandlesNewBlockdev ==
  ASSUME Handling!SizesAssumption, HandlesInv, Handling!NewBlockdev
  PROVE  HandlesInv'
<1> DEFINE n == Handling!NewObject
           s == Handling!State
           o == BareBlockdev
           t == Handling!Add(s, n, o)
<1>1. Handling!Become(s) \/ Handling!Become(t)
  BY DEF Handling!NewBlockdev, BareBlockdev
<1>2. n \in Handling!Objects /\ s.object[n].kind = "gone" /\ HandlesGood(s)
      /\ s \in HandleStates /\ ~s.twice
  BY NewObjectIs, StateIs DEF Handling!NewBlockdev
<1>3. /\ o \in ObjectRecs /\ WellMade(o) /\ o.kind = "blockdev" /\ ~o.data /\ ~o.hook
  BY BareIs
<1> HIDE DEF n, s, o
<1>4. /\ t \in HandleStates
      /\ t.object = [s.object EXCEPT ![n] = o]
      /\ t.file = s.file /\ t.twice = s.twice
      /\ t.memory = s.memory \cup ({n} \X WhatsOf(o))
  BY <1>2, <1>3, AddIs
<1>5. \A f : ~OwnsFile(o, f) /\ ~Uses(o, f)
  BY <1>3 DEF OwnsFile, Uses
<1> HIDE DEF t
<1>6. /\ \A f \in Handling!Files :
           t.file[f] = OwnedFile <=> OwnsFile(o, f) \/ s.file[f] = OwnedFile
      /\ \A f \in Handling!Files : OwnsFile(o, f) => s.file[f] # OwnedFile
      /\ \A g \in Handling!Objects : Uses(o, g) => s.object[g].kind \in Handling!Devices
      /\ \A y, g \in Handling!Objects :
           Uses(o, g) /\ Uses(s.object[y], g) => ~o.owns /\ ~s.object[y].owns
  BY <1>4, <1>5
<1>7. HandlesGood(t)
  BY <1>2, <1>3, <1>4, <1>6, MoreGood
<1> QED
  BY <1>1, <1>2, <1>7, HandlesBecome

LEMMA HandlesFiles ==
  ASSUME HandlesInv, Handling!OpenItself \/ Handling!CloseItself
  PROVE  HandlesInv'
<1>1. /\ HandlesGood(Handling!State) /\ Handling!State \in HandleStates
      /\ Handling!State.object = handles /\ Handling!State.file = fds
      /\ Handling!State.memory = allocated /\ Handling!State.twice = twice
      /\ fds \in [Handling!Files -> FileRecs]
  BY StateIs
<1>2. CASE Handling!OpenItself
  <2>1. PICK f \in Handling!Files, is \in {"FILE", "descriptor"} :
          /\ fds[f] = Handling!NoFile
          /\ fds' = [fds EXCEPT ![f] = [is |-> is, owner |-> "caller"]]
          /\ UNCHANGED <<handles, allocated, twice>>
    BY <1>2 DEF Handling!OpenItself
  <2> DEFINE r == [is |-> is, owner |-> "caller"]
             s == Handling!State
             t == [s EXCEPT !.file[f] = r]
  <2>2. r \in FileRecs /\ r # OwnedFile /\ fds[f] # OwnedFile
    BY <2>1 DEF FileRecs, OwnedFile, Handling!NoFile
  <2> HIDE DEF r, s
  <2>3. /\ t \in HandleStates
        /\ t.object = s.object /\ t.memory = s.memory /\ t.twice = s.twice
        /\ t.file = [s.file EXCEPT ![f] = r]
    BY <1>1, <2>2, FileSet DEF s
  <2> HIDE DEF t
  <2>4. Handling!Become(t)
    BY <1>1, <2>1, <2>3 DEF Handling!Become, s, r
  <2>5. \A h \in Handling!Files : t.file[h] = OwnedFile <=> s.file[h] = OwnedFile
    BY <1>1, <2>2, <2>3 DEF s
  <2>6. HandlesGood(t)
    BY <1>1, <2>3, <2>5, FileGood DEF s
  <2> QED
    BY <2>4, <2>6, HandlesBecome
<1>3. CASE Handling!CloseItself
  <2> DEFINE s == Handling!State
  <2>1. PICK f \in Handling!Files :
          /\ fds[f] = [is |-> "FILE", owner |-> "caller"]
          /\ Handling!Become(Handling!Fclose(s, f))
    BY <1>3 DEF Handling!CloseItself
  <2> DEFINE t == Handling!Fclose(s, f)
  <2>2. s.file[f].is = "FILE" /\ fds[f] # OwnedFile
    BY <1>1, <2>1 DEF OwnedFile
  <2> HIDE DEF s
  <2>3. /\ t \in HandleStates
        /\ t.object = s.object /\ t.memory = s.memory /\ t.twice = s.twice
        /\ t.file = [s.file EXCEPT ![f].is = "closed"]
    BY <1>1, <2>2, FcloseIs DEF s
  <2> HIDE DEF t
  <2>4. t.file[f].is = "closed" /\ \A h \in Handling!Files : h # f => t.file[h] = s.file[h]
    BY <1>1, <2>3 DEF FileRecs, s
  <2>5. \A h \in Handling!Files : t.file[h] = OwnedFile <=> s.file[h] = OwnedFile
    BY <1>1, <2>2, <2>4 DEF OwnedFile, s
  <2>6. HandlesGood(t)
    BY <1>1, <2>3, <2>5, FileGood DEF s
  <2> QED
    BY <2>1, <2>6, HandlesBecome DEF t
<1> QED
  BY <1>2, <1>3

LEMMA HandlesGiveUp ==
  ASSUME Handling!SizesAssumption, HandlesInv, Handling!Close \/ Handling!Finalize
  PROVE  HandlesInv'
<1>1. HandlesGood(Handling!State) /\ Handling!State.object = handles
  BY StateIs
<1>2. CASE Handling!Close
  <2>1. PICK x \in Handling!Objects :
          Handling!Held(x) /\ Handling!Become(Handling!Closed(Handling!State, x))
    BY <1>2 DEF Handling!Close
  <2>2. HandlesGood(Handling!Closed(Handling!State, x))
    BY <1>1, <2>1, HeldIs, ClosedGood
  <2> QED
    BY <2>1, <2>2, HandlesBecome
<1>3. CASE Handling!Finalize
  <2>1. PICK x \in Handling!Objects :
          Handling!Held(x) /\ ~Handling!InUse(x)
          /\ Handling!Become(Handling!Finalized(Handling!State, x))
    BY <1>3 DEF Handling!Finalize
  <2>2. HandlesGood(Handling!Finalized(Handling!State, x))
    BY <1>1, <2>1, HeldIs, FinalizedHandle
  <2> QED
    BY <2>1, <2>2, HandlesBecome
<1> QED
  BY <1>2, <1>3

\* The client's data is allocated, and the destructor set.
LEMMA HookGood ==
  ASSUME NEW s, HandlesGood(s), NEW x \in Handling!Objects,
         s.object[x].kind \notin {"gone", "blockdev"}, s.object[x].data, ~s.object[x].hook
  PROVE  LET t == [s EXCEPT !.object[x].hook = TRUE,
                            !.memory = @ \cup {Handling!Piece(x, "client")}] IN
         /\ HandlesGood(t)
         /\ t.object = [s.object EXCEPT ![x] = [s.object[x] EXCEPT !.hook = TRUE]]
         /\ t.memory = s.memory \cup {<<x, "client">>}
         /\ t.file = s.file /\ t.twice = s.twice /\ <<x, "client">> \notin s.memory
<1> DEFINE o == s.object[x]
           q == [o EXCEPT !.hook = TRUE]
           a == [s EXCEPT !.object[x] = q]
           m == s.memory \cup {<<x, "client">>}
           t == [s EXCEPT !.object[x].hook = TRUE,
                          !.memory = @ \cup {Handling!Piece(x, "client")}]
<1>1. /\ s \in HandleStates /\ o \in ObjectRecs /\ WellMade(o) /\ ~s.twice
      /\ s.memory = MemoryOf(s.object) /\ s.object \in [Handling!Objects -> ObjectRecs]
  BY DEF HandlesGood, HandleStates
<1>2. /\ q \in ObjectRecs /\ WellMade(q) /\ q.kind = o.kind /\ q.on = o.on /\ q.data = o.data
      /\ q.owns = o.owns /\ q.hook
  BY <1>1 DEF ObjectRecs, WellMade
<1>3. t = [a EXCEPT !.memory = m]
  BY <1>1 DEF HandleStates, Handling!Piece
<1> HIDE DEF q
<1>4. /\ a \in HandleStates /\ a.object = [s.object EXCEPT ![x] = q]
      /\ a.file = s.file /\ a.memory = s.memory /\ a.twice = s.twice
  BY <1>1, <1>2, ObjectSet
<1>5. m \subseteq Handling!Objects \X Whats
  BY <1>1 DEF HandleStates, Whats
<1> HIDE DEF a, m, t
<1>6. /\ t \in HandleStates
      /\ t.object = a.object /\ t.file = a.file /\ t.twice = a.twice /\ t.memory = m
  BY <1>3, <1>4, <1>5, MemorySet
<1>7. WhatsOf(q) = WhatsOf(o) \cup {"client"} /\ WhatsOf(q) \subseteq Whats
      /\ "client" \notin WhatsOf(o)
  BY <1>2 DEF WhatsOf, Whats
<1>8. \A w \in Whats : <<x, w>> \in s.memory <=> w \in WhatsOf(o)
  <2> HIDE DEF Whats, WhatsOf
  <2> QED
    BY <1>1 DEF MemoryOf
<1>9. t.memory = (s.memory \ ({x} \X Whats)) \cup ({x} \X WhatsOf(q))
  <2> HIDE DEF Whats, WhatsOf, o
  <2>1. s.memory \subseteq Handling!Objects \X Whats
    BY <1>1 DEF HandleStates
  <2>2. \A p \in {x} \X Whats : p \in s.memory <=> p \in {x} \X WhatsOf(o)
    BY <1>8
  <2>3. {x} \X WhatsOf(q) = ({x} \X WhatsOf(o)) \cup {<<x, "client">>}
    BY <1>7
  <2>4. {x} \X WhatsOf(o) \subseteq {x} \X Whats
    BY <1>7
  <2> QED
    BY <1>6, <2>2, <2>3, <2>4 DEF m
<1>10. <<x, "client">> \notin s.memory
  <2>1. "client" \in Whats
    BY DEF Whats
  <2> QED
    BY <1>7, <1>8, <2>1
<1>11. \A g : (OwnsFile(q, g) <=> OwnsFile(o, g)) /\ (Uses(q, g) <=> Uses(o, g))
  BY <1>2 DEF OwnsFile, Uses
<1> HIDE DEF o
<1>12. /\ \A f \in Handling!Files :
            t.file[f] = OwnedFile
              <=> OwnsFile(q, f) \/ (s.file[f] = OwnedFile /\ ~OwnsFile(s.object[x], f))
       /\ \A f \in Handling!Files, y \in Handling!Objects :
            OwnsFile(q, f) /\ OwnsFile(s.object[y], f) => y = x
  BY <1>4, <1>6, <1>11 DEF HandlesGood, o
<1>13. /\ \A d \in Handling!Objects :
            Uses(q, d) => d # x /\ s.object[d].kind \in Handling!Devices
       /\ \A y, d \in Handling!Objects :
            Uses(q, d) /\ Uses(s.object[y], d) /\ y # x => ~q.owns /\ ~s.object[y].owns
       /\ \A y \in Handling!Objects :
            y # x /\ Uses(s.object[y], x) => q.kind \in Handling!Devices
  <2>1. \A d \in Handling!Objects : Uses(o, d) => s.object[d].kind \in Handling!Devices
    BY DEF HandlesGood, o
  <2>2. ~Uses(o, x)
    BY DEF HandlesGood, o
  <2>3. \A y, d \in Handling!Objects :
            Uses(o, d) /\ Uses(s.object[y], d) /\ y # x => ~o.owns /\ ~s.object[y].owns
    BY DEF HandlesGood, o
  <2>4. \A y \in Handling!Objects :
            Uses(s.object[y], x) => o.kind \in Handling!Devices
    BY DEF HandlesGood, o
  <2> QED
    BY <1>2, <1>11, <2>1, <2>2, <2>3, <2>4
<1>14. HandlesGood(t)
  BY <1>1, <1>2, <1>4, <1>6, <1>9, <1>12, <1>13, SetGood
<1> QED
  BY <1>4, <1>6, <1>10, <1>14 DEF m, q, o, t

LEMMA HandlesSetClient ==
  ASSUME HandlesInv, Handling!SetClient
  PROVE  HandlesInv'
<1> DEFINE s == Handling!State
<1>1. PICK x \in Handling!Objects :
        /\ handles[x].kind \notin {"gone", "blockdev"} /\ handles[x].data /\ ~handles[x].hook
        /\ Handling!Become([s EXCEPT !.object[x].hook = TRUE,
                                     !.memory = @ \cup {Handling!Piece(x, "client")}])
  BY DEF Handling!SetClient
<1>2. HandlesGood(s) /\ s.object = handles
  BY StateIs
<1> HIDE DEF s
<1> DEFINE t == [s EXCEPT !.object[x].hook = TRUE,
                          !.memory = @ \cup {Handling!Piece(x, "client")}]
<1>3. HandlesGood(t)
  BY <1>1, <1>2, HookGood
<1> QED
  BY <1>1, <1>3, HandlesBecome

\* The new device of a stream that could not be made is finalized, and its client freed.
LEMMA GiveUpDeviceGood ==
  ASSUME NEW s, HandlesGood(s), NEW x \in Handling!Objects,
         s.object[x].kind = "devInode", s.object[x].hook,
         \A y \in Handling!Objects : ~Uses(s.object[y], x)
  PROVE  HandlesGood(Handling!GiveUpDevice(s, x))
<1> DEFINE p == {<<x, "client">>}
           u == Handling!Free(s, p)
           q == [s.object[x] EXCEPT !.hook = FALSE]
           a == [u EXCEPT !.object[x].hook = FALSE]
           g == Handling!Gone
           t == Handling!GiveUpDevice(s, x)
<1>1. /\ s \in HandleStates /\ s.object[x] \in ObjectRecs
      /\ s.object \in [Handling!Objects -> ObjectRecs]
  BY DEF HandlesGood, HandleStates
<1>2. WholeObject(s, x)
  BY WholeWhenGood
<1>3. <<x, "client">> \in s.memory
  BY <1>2 DEF WholeObject, WhatsOf
<1>4. t = Handling!FinalizeDevice(a, x)
  BY DEF Handling!GiveUpDevice, Handling!Piece
<1>5. /\ u \in HandleStates /\ u.object = s.object /\ u.file = s.file /\ u.twice = s.twice
      /\ u.memory = s.memory \ p
  BY <1>1, <1>3, FreeIs
<1>6. q \in ObjectRecs /\ q.kind = "devInode" /\ ~q.hook
  BY <1>1 DEF ObjectRecs
<1> HIDE DEF u, q, g, t
<1>7. a = [u EXCEPT !.object[x] = q]
  BY <1>5, FieldsSet DEF q
<1> HIDE DEF a
<1>8. LET v == [u EXCEPT !.object[x] = q] IN
      /\ v \in HandleStates /\ v.object = [u.object EXCEPT ![x] = q]
      /\ v.file = u.file /\ v.memory = u.memory /\ v.twice = u.twice
  BY <1>5, <1>6, ObjectSet
<1>9. /\ a \in HandleStates /\ a.object = [s.object EXCEPT ![x] = q]
      /\ a.file = s.file /\ a.memory = s.memory \ p /\ a.twice = s.twice
  BY <1>5, <1>7, <1>8
<1>10. a.object[x] = q
  BY <1>1, <1>9
<1>11. ~OwnsFile(q, q.on) /\ ~OwnsFile(s.object[x], s.object[x].on)
  BY <1>6 DEF OwnsFile, Handling!OnFile
<1>12. WhatsOf(s.object[x]) = WhatsOf(q) \cup {"client"} /\ "client" \notin WhatsOf(q)
  <2>1. q.data = s.object[x].data
    BY <1>1 DEF q, ObjectRecs
  <2> QED
    BY <1>6, <2>1 DEF WhatsOf
<1>13. WholeObject(a, x)
  <2>1. /\ \A w \in WhatsOf(q) \ {"buffer"} : <<x, w>> \in s.memory \ p
        /\ \A w \in Whats \ WhatsOf(q) : <<x, w>> \notin s.memory \ p
    <3> HIDE DEF WhatsOf, Whats
    <3> QED
      BY <1>2, <1>12 DEF WholeObject
  <2> HIDE DEF p, WhatsOf, Whats
  <2> QED
    BY <1>6, <1>9, <1>10, <1>11, <2>1 DEF WholeObject
<1>14. /\ t \in HandleStates /\ t.object = [a.object EXCEPT ![x] = g]
       /\ t.file = ClosedFiles(a, a.object[x]) /\ t.twice = a.twice
       /\ t.memory = a.memory \ ({x} \X Whats)
  BY <1>4, <1>9, <1>13, FinalizeDeviceIs DEF g
<1>15. t.object = [s.object EXCEPT ![x] = g]
  BY <1>1, <1>9, <1>14
<1>16. t.file = ClosedFiles(s, s.object[x])
  BY <1>9, <1>10, <1>11, <1>14 DEF ClosedFiles
<1>17. g \in ObjectRecs /\ WellMade(g) /\ ~g.data /\ WhatsOf(g) = {}
  BY GoneIs DEF g
<1>18. t.memory = (s.memory \ ({x} \X Whats)) \cup ({x} \X WhatsOf(g))
  <2>1. p \subseteq {x} \X Whats
    BY DEF Whats
  <2> HIDE DEF p, Whats
  <2> QED
    BY <1>9, <1>14, <1>17, <2>1
<1>19. HandlesGood(t)
  BY <1>9, <1>14, <1>15, <1>16, <1>17, <1>18, ShutGood
<1> QED
  BY <1>19 DEF t

LEMMA CardinalitySame ==
  ASSUME NEW S
  PROVE  Handling!Cardinality(S) = Cardinality(S)
BY DEF Handling!Cardinality, Cardinality

LEMMA SecondNew ==
  ASSUME Handling!SizesAssumption, HandlesInv, Cardinality(Handling!Free0) > 1
  PROVE  LET y == Handling!NextObject IN
         /\ y \in Handling!Objects /\ handles[y].kind = "gone"
         /\ y # Handling!NewObject /\ Handling!Free0 # {}
<1> DEFINE n == Handling!NewObject
           free == Handling!Free0 \ {n}
           y == Handling!NextObject
<1>1. Handling!Free0 # {}
  BY FS_EmptySet
<1>2. Handling!Free0 # {n}
  <2>1. Cardinality({n}) = 1
    BY FS_Singleton
  <2> QED
    BY <2>1
<1>3. free # {}
  BY <1>1, <1>2
<1>4. free \subseteq Nat /\ y = CHOOSE o \in free : \A w \in free : o <= w
  BY NumbersAre DEF Handling!Free0, Handling!NextObject
<1> HIDE DEF free, y
<1>5. PICK m \in free : \A w \in free : m <= w
  BY <1>3, <1>4, LeastExists
<1>6. y \in free
  BY <1>4, <1>5
<1>7. y \in Handling!Objects /\ handles[y].kind = "gone" /\ y # n
  BY <1>6 DEF free, Handling!Free0
<1> QED
  BY <1>1, <1>7 DEF y, free

LEMMA HandlesOpenStream ==
  ASSUME Handling!SizesAssumption, HandlesInv, Handling!OpenStream
  PROVE  HandlesInv'
<1> DEFINE n == Handling!NewObject
           y == Handling!NextObject
           s == Handling!State
           o1 == Handling!Made("devInode", 0, FALSE)
           a == Handling!Add(s, n, o1)
           k == [a EXCEPT !.memory = @ \cup {Handling!Piece(n, "client")},
                          !.object[n].hook = TRUE]
           b == Handling!Add(k, y, Handling!Made("streamDev", n, TRUE))
<1>0. Cardinality(Handling!Free0) > 1
  BY CardinalitySame DEF Handling!OpenStream
<1>1. \/ Handling!Become(Handling!FinalizeDevice(a, n))
      \/ Handling!Become(Handling!GiveUpDevice(k, n))
      \/ Handling!Become(Handling!GiveUpDevice(Handling!Abandon(k, y), n))
      \/ Handling!Become(b)
  BY Zenon DEF Handling!OpenStream
<1>2. /\ y \in Handling!Objects /\ handles[y].kind = "gone" /\ y # n
      /\ Handling!Free0 # {}
  BY <1>0, SecondNew
<1>3. /\ n \in Handling!Objects /\ s.object[n].kind = "gone" /\ HandlesGood(s)
      /\ s.object[y].kind = "gone" /\ s.object \in [Handling!Objects -> ObjectRecs]
  BY <1>2, NewObjectIs, StateIs
<1>4. /\ "devInode" \in (Handling!OnDevice \cup Handling!Devices) \ Handling!OnFile
      /\ "devInode" \notin Handling!OnDevice /\ "devInode" \in Handling!Devices
      /\ "streamDev" \in (Handling!OnDevice \cup Handling!Devices) \ Handling!OnFile
  BY DEF Handling!OnDevice, Handling!OnFile, Handling!OnMemory, Handling!Devices
<1> HIDE DEF n, y, s
<1>6. o1.kind = "devInode" /\ o1.data /\ ~o1.hook
  BY DEF Handling!Made
<1>5. HandlesGood(a) /\ a.object = [s.object EXCEPT ![n] = o1]
  <2>0. 0 \in Nat /\ FALSE \in BOOLEAN
    OBVIOUS
  <2>1. ASSUME NEW j \in (Handling!OnDevice \cup Handling!Devices) \ Handling!OnFile,
               j \notin Handling!OnDevice
        PROVE  /\ HandlesGood(Handling!Add(s, n, Handling!Made(j, 0, FALSE)))
               /\ Handling!Made(j, 0, FALSE) \in ObjectRecs
    BY <1>3, <2>0, <2>1, AddOnDevice, MadeIs
  <2>2. HandlesGood(a) /\ o1 \in ObjectRecs
    BY <1>4, <2>1, Zenon
  <2>3. s \in HandleStates
    BY <1>3 DEF HandlesGood
  <2> HIDE DEF o1
  <2> QED
    BY <1>3, <1>6, <2>2, <2>3, AddIs
<1>7. a.object[n] = o1 /\ \A i \in Handling!Objects : i # n => a.object[i] = s.object[i]
  BY <1>3, <1>5
<1> HIDE DEF o1, a
<1>8. \A i \in Handling!Objects : ~Uses(a.object[i], n)
  <2>1. \A i \in Handling!Objects : ~Uses(s.object[i], n)
    BY <1>3, NothingOf
  <2>2. ~Uses(o1, n)
    BY <1>4, <1>6 DEF Uses
  <2> QED
    BY <1>7, <2>1, <2>2
<1>9. HandlesGood(Handling!FinalizeDevice(a, n))
  BY <1>3, <1>5, <1>6, <1>7, <1>8, FinalizeDeviceGood
<1> DEFINE h == [a EXCEPT !.object[n].hook = TRUE,
                          !.memory = @ \cup {Handling!Piece(n, "client")}]
           q == [o1 EXCEPT !.hook = TRUE]
<1>10. k = h
  BY <1>5 DEF HandlesGood, HandleStates
<1>11. HandlesGood(h) /\ h.object = [a.object EXCEPT ![n] = q]
  <2>1. a.object[n].kind \notin {"gone", "blockdev"} /\ a.object[n].data /\ ~a.object[n].hook
    BY <1>6, <1>7
  <2>2. q = [a.object[n] EXCEPT !.hook = TRUE]
    BY <1>7
  <2> HIDE DEF q
  <2>3. HandlesGood(h)
    BY <1>3, <1>5, <2>1, HookGood
  <2>4. h.object = [a.object EXCEPT ![n] = [a.object[n] EXCEPT !.hook = TRUE]]
    BY <1>5 DEF HandlesGood, HandleStates
  <2> QED
    BY <2>2, <2>3, <2>4
<1>12. o1 \in ObjectRecs
  BY <1>3, <1>5, <1>7 DEF HandlesGood, HandleStates
<1>13. q.kind = "devInode" /\ q.hook
  BY <1>6, <1>12 DEF ObjectRecs
<1> HIDE DEF h, k, q
<1>14. k.object[n] = q /\ \A i \in Handling!Objects : i # n => k.object[i] = s.object[i]
  BY <1>3, <1>5, <1>7, <1>10, <1>11 DEF HandlesGood, HandleStates
<1>15. \A i \in Handling!Objects : ~Uses(k.object[i], n)
  <2>1. ~Uses(q, n)
    BY <1>4, <1>13 DEF Uses
  <2> QED
    BY <1>7, <1>8, <1>14, <2>1
<1>16. HandlesGood(k) /\ k.object[y].kind = "gone"
  BY <1>2, <1>3, <1>10, <1>11, <1>14
<1>17. HandlesGood(Handling!GiveUpDevice(k, n))
  BY <1>3, <1>13, <1>14, <1>15, <1>16, GiveUpDeviceGood
<1>18. Handling!Abandon(k, y) = k
  BY <1>2, <1>16, AbandonIs
<1>19. HandlesGood(b)
  <2>1. n \in Nat /\ TRUE \in BOOLEAN
    BY <1>3, NumbersAre
  <2>2. k.object[n].kind \in Handling!Devices
    BY <1>4, <1>13, <1>14
  <2>3. ASSUME NEW j \in (Handling!OnDevice \cup Handling!Devices) \ Handling!OnFile
        PROVE  HandlesGood(Handling!Add(k, y, Handling!Made(j, n, TRUE)))
    BY <1>2, <1>3, <1>15, <1>16, <2>1, <2>2, AddOnDevice
  <2> QED
    BY <1>4, <2>3, Zenon DEF b
<1> HIDE DEF b
<1> QED
  BY <1>1, <1>9, <1>17, <1>18, <1>19, HandlesBecome

LEMMA HandlesSetupBlockdev ==
  ASSUME Handling!SizesAssumption, HandlesInv, Handling!SetupBlockdev
  PROVE  HandlesInv'
<1> DEFINE n == Handling!NewObject
           s == Handling!State
<1>1. PICK b \in Handling!Objects, x \in Handling!Objects :
       /\ handles[b].kind = "blockdev" /\ ~handles[b].data
       /\ handles[x].kind \in Handling!Devices /\ Handling!Held(x)
       /\ \/ Handling!Become([s EXCEPT !.object[b] = Handling!Made("blockdev", x, FALSE)])
          \/ /\ Handling!Free0 # {}
             /\ \/ Handling!Become(Handling!Abandon(s, n))
                \/ Handling!Become([Handling!Add(s, n, Handling!Made("subdev", x, FALSE))
                        EXCEPT !.object[b] = Handling!Made("blockdev", n, TRUE)])
  BY DEF Handling!SetupBlockdev
<1>2. /\ HandlesGood(s) /\ s.object = handles
      /\ s.object \in [Handling!Objects -> ObjectRecs]
      /\ Handling!Free0 # {} => n \in Handling!Objects /\ s.object[n].kind = "gone"
  BY NewObjectIs, StateIs
<1>3. /\ "subdev" \in (Handling!OnDevice \cup Handling!Devices) \ Handling!OnFile
      /\ "subdev" \in Handling!Devices
      /\ "blockdev" \in Handling!OnDevice \ Handling!OnFile
      /\ "blockdev" \notin Handling!Devices /\ "gone" \notin Handling!Devices
  BY DEF Handling!OnDevice, Handling!OnFile, Handling!OnMemory, Handling!Devices
<1>4. \A y \in Handling!Objects : Uses(handles[y], x) => ~handles[y].owns
  BY <1>1, HeldIs
<1> HIDE DEF n, s
\* A bare block device b is set up on the device d.
<1>5. ASSUME NEW r, HandlesGood(r), r.object[b].kind = "blockdev", ~r.object[b].data,
             NEW d \in Handling!Objects, NEW own \in BOOLEAN,
             r.object[d].kind \in Handling!Devices,
             \A y \in Handling!Objects : Uses(r.object[y], d) => ~own /\ ~r.object[y].owns
      PROVE  HandlesGood([r EXCEPT !.object[b] = Handling!Made("blockdev", d, own)])
  <2> DEFINE o == Handling!Made("blockdev", d, own)
             t == [r EXCEPT !.object[b] = o]
  <2>1. /\ o \in ObjectRecs /\ o.kind = "blockdev" /\ o.on = d /\ o.owns = own
        /\ o.data /\ ~o.hook
    <3>1. "blockdev" \in Handling!OnFile \cup Handling!OnDevice \cup Handling!Devices
          /\ d \in Nat
      BY <1>3, NumbersAre
    <3> QED
      BY <3>1, MadeIs
  <2>2. /\ r \in HandleStates /\ ~r.twice /\ r.memory = MemoryOf(r.object)
        /\ WellMade(r.object[b])
    BY <1>5 DEF HandlesGood
  <2> HIDE DEF o
  <2>3. /\ t \in HandleStates /\ t.object = [r.object EXCEPT ![b] = o]
        /\ t.file = r.file /\ t.memory = r.memory /\ t.twice = r.twice
    BY <2>1, <2>2, ObjectSet
  <2> HIDE DEF t
  <2>4. WhatsOf(o) = {"object"} /\ WhatsOf(r.object[b]) = {"object"}
    BY <1>5, <2>1, <2>2 DEF WhatsOf, WellMade
  <2>5. t.memory = (r.memory \ ({b} \X Whats)) \cup ({b} \X WhatsOf(o))
    <3>1. \A w \in Whats : <<b, w>> \in r.memory <=> w \in WhatsOf(r.object[b])
      <4> HIDE DEF Whats, WhatsOf
      <4> QED
        BY <2>2 DEF MemoryOf
    <3>2. "object" \in Whats
      BY DEF Whats
    <3>3. \A p \in {b} \X Whats : p \in r.memory <=> p = <<b, "object">>
      BY <2>4, <3>1
    <3>4. <<b, "object">> \in {b} \X Whats /\ {b} \X WhatsOf(o) = {<<b, "object">>}
      BY <2>4, <3>2
    <3> HIDE DEF Whats, WhatsOf
    <3> QED
      BY <2>3, <3>3, <3>4
  <2>6. WellMade(o)
    BY <1>3, <2>1 DEF WellMade
  <2>7. \A f : ~OwnsFile(o, f) /\ ~OwnsFile(r.object[b], f) /\ (Uses(o, f) <=> f = d)
    BY <1>3, <1>5, <2>1 DEF OwnsFile, Uses
  <2>8. /\ \A f \in Handling!Files :
             t.file[f] = OwnedFile
               <=> OwnsFile(o, f) \/ (r.file[f] = OwnedFile /\ ~OwnsFile(r.object[b], f))
        /\ \A f \in Handling!Files, y \in Handling!Objects :
             OwnsFile(o, f) /\ OwnsFile(r.object[y], f) => y = b
        /\ \A e \in Handling!Objects :
             Uses(o, e) => e # b /\ r.object[e].kind \in Handling!Devices
        /\ \A y, e \in Handling!Objects :
             Uses(o, e) /\ Uses(r.object[y], e) /\ y # b => ~o.owns /\ ~r.object[y].owns
    BY <1>3, <1>5, <2>1, <2>3, <2>7
  <2>9. \A y \in Handling!Objects :
          y # b /\ Uses(r.object[y], b) => o.kind \in Handling!Devices
    BY <1>3, <1>5, UsedAreDevices
  <2>10. HandlesGood(t)
    BY <1>5, <2>1, <2>2, <2>3, <2>5, <2>6, <2>8, <2>9, SetGood
  <2> QED
    BY <2>10 DEF t, o
<1>6. CASE Handling!Become([s EXCEPT !.object[b] = Handling!Made("blockdev", x, FALSE)])
  <2>1. HandlesGood([s EXCEPT !.object[b] = Handling!Made("blockdev", x, FALSE)])
    BY <1>1, <1>2, <1>4, <1>5
  <2> QED
    BY <1>6, <2>1, HandlesBecome
<1>7. CASE Handling!Free0 # {} /\ Handling!Become(Handling!Abandon(s, n))
  BY <1>2, <1>7, AbandonIs, HandlesBecome
<1>8. CASE Handling!Free0 # {}
           /\ Handling!Become([Handling!Add(s, n, Handling!Made("subdev", x, FALSE))
                        EXCEPT !.object[b] = Handling!Made("blockdev", n, TRUE)])
  <2> DEFINE o == Handling!Made("subdev", x, FALSE)
             a == Handling!Add(s, n, o)
  <2>1. n \in Handling!Objects /\ s.object[n].kind = "gone"
    BY <1>2, <1>8
  <2>2. x \in Nat
    BY NumbersAre
  <2>3. HandlesGood(a) /\ a.object = [s.object EXCEPT ![n] = o]
    <3>0. FALSE \in BOOLEAN
      OBVIOUS
    <3>1. ASSUME NEW j \in (Handling!OnDevice \cup Handling!Devices) \ Handling!OnFile
          PROVE  HandlesGood(Handling!Add(s, n, Handling!Made(j, x, FALSE)))
      BY <1>1, <1>2, <1>4, <2>1, <2>2, <3>0, AddOnDevice
    <3>2. HandlesGood(a)
      BY <1>3, <3>1, Zenon
    <3>4. o \in ObjectRecs /\ ~o.hook /\ o.data /\ o.kind # "gone"
      BY <1>3, <2>2, <3>0, MadeIs
    <3>3. s \in HandleStates
      BY <1>2 DEF HandlesGood
    <3> HIDE DEF o
    <3> QED
      BY <2>1, <3>2, <3>3, <3>4, AddIs
  <2>4. o.kind = "subdev" /\ o.on = x
    BY DEF Handling!Made
  <2> HIDE DEF o, a
  <2>5. b # n /\ x # n
    BY <1>1, <1>2, <1>3, <2>1
  <2>6. a.object[n] = o /\ \A y \in Handling!Objects : y # n => a.object[y] = s.object[y]
    BY <1>2, <2>1, <2>3
  <2>7. \A y \in Handling!Objects : ~Uses(a.object[y], n)
    <3>1. \A y \in Handling!Objects : ~Uses(s.object[y], n)
      BY <1>2, <2>1, NothingOf
    <3>2. ~Uses(o, n)
      BY <2>4, <2>5 DEF Uses
    <3> QED
      BY <2>6, <3>1, <3>2
  <2>8. /\ a.object[b].kind = "blockdev" /\ ~a.object[b].data
        /\ a.object[n].kind \in Handling!Devices
    BY <1>1, <1>2, <1>3, <2>4, <2>5, <2>6
  <2>9. HandlesGood([a EXCEPT !.object[b] = Handling!Made("blockdev", n, TRUE)])
    BY <1>5, <2>1, <2>3, <2>7, <2>8
  <2> QED
    BY <1>8, <2>9, HandlesBecome DEF a, o
<1> QED
  BY <1>1, <1>6, <1>7, <1>8

LEMMA HandlesInitInv == Handling!SizesAssumption /\ Handling!Init => HandlesInv
<1> SUFFICES ASSUME Handling!SizesAssumption, Handling!Init PROVE HandlesInv
  OBVIOUS
<1> DEFINE s == Handling!State
<1>1. /\ s.object = [x \in Handling!Objects |-> Handling!Gone]
      /\ s.file = [f \in Handling!Files |-> Handling!NoFile]
      /\ s.memory = {} /\ s.twice = FALSE
      /\ s = [object |-> s.object, file |-> s.file, memory |-> s.memory, twice |-> s.twice]
  BY DEF Handling!Init, Handling!State
<1>2. Handling!Gone \in ObjectRecs /\ WellMade(Handling!Gone) /\ WhatsOf(Handling!Gone) = {}
      /\ ~Handling!Gone.data
  BY GoneIs
<1>3. Handling!NoFile \in FileRecs /\ Handling!NoFile # OwnedFile
  BY DEF FileRecs, Handling!NoFile, OwnedFile
<1> HIDE DEF s
<1>4. s \in HandleStates
  <2>1. /\ s.object \in [Handling!Objects -> ObjectRecs]
        /\ s.file \in [Handling!Files -> FileRecs]
        /\ s.memory \in SUBSET (Handling!Objects \X Whats) /\ s.twice \in BOOLEAN
    BY <1>1, <1>2, <1>3
  <2> QED
    BY <1>1, <2>1 DEF HandleStates
<1>5. s.memory = MemoryOf(s.object)
  BY <1>1, <1>2 DEF MemoryOf
<1>6. \A x \in Handling!Objects : s.object[x] = Handling!Gone
  BY <1>1
<1>7. \A f : ~OwnsFile(Handling!Gone, f) /\ ~Uses(Handling!Gone, f)
  BY <1>2 DEF OwnsFile, Uses
<1>8. \A f \in Handling!Files : s.file[f] # OwnedFile
  BY <1>1, <1>3
<1>9. HandlesGood(s)
  BY <1>1, <1>2, <1>4, <1>5, <1>6, <1>7, <1>8 DEF HandlesGood
<1> QED
  BY <1>9 DEF HandlesInv, s

LEMMA HandlesNextInv ==
  ASSUME Handling!SizesAssumption, HandlesInv, [Handling!Next]_Handling!vars
  PROVE  HandlesInv'
<1>1. CASE Handling!Next
  BY <1>1, HandlesForFILE, HandlesDevForFile, HandlesStreamForFile, HandlesForDevice,
     HandlesForMemory, HandlesDevForInode, HandlesOpenStream, HandlesNewBlockdev,
     HandlesSetupBlockdev, HandlesFiles, HandlesSetClient, HandlesGiveUp
     DEF Handling!Next
<1>2. CASE UNCHANGED Handling!vars
  <2>1. Handling!State' = Handling!State
    BY <1>2 DEF Handling!vars, Handling!State
  <2> QED
    BY <2>1 DEF HandlesInv
<1> QED
  BY <1>1, <1>2

LEMMA HandlesInvSound ==
  ASSUME Handling!SizesAssumption, HandlesInv
  PROVE  Handling!HandlesSound
<1> DEFINE s == Handling!State
<1>1. /\ HandlesGood(s)
      /\ s.object = handles /\ s.file = fds /\ s.memory = allocated /\ s.twice = twice
      /\ handles \in [Handling!Objects -> ObjectRecs]
  BY StateIs
<1> HIDE DEF s
<1>2. ~twice
  BY <1>1 DEF HandlesGood
<1>3. ASSUME NEW x \in Handling!Objects, handles[x].kind # "gone"
      PROVE  Handling!PiecesOf(x) = {x} \X WhatsOf(handles[x])
  <2> DEFINE o == handles[x]
  <2>1. o.hook => o.data /\ o.kind # "blockdev"
    BY <1>1 DEF HandlesGood, WellMade
  <2>2. CASE ~o.data
    <3>1. WhatsOf(o) = {"object"}
      BY <1>3, <2>1, <2>2 DEF WhatsOf
    <3>2. Handling!PiecesOf(x) = {<<x, "object">>}
      BY <2>1, <2>2 DEF Handling!PiecesOf, Handling!Piece
    <3> QED
      BY <3>1, <3>2
  <2>3. CASE o.data
    <3> DEFINE h == IF o.hook THEN {"client"} ELSE {}
               hp == IF o.hook THEN {<<x, "client">>} ELSE {}
    <3>1. Handling!PiecesOf(x) = Handling!Pieces(x, o.kind) \cup hp
      BY <2>3 DEF Handling!PiecesOf, Handling!Piece
    <3>2. CASE o.kind = "blockdev"
      <4>1. WhatsOf(o) = {"object"} /\ hp = {}
        BY <2>1, <3>2 DEF WhatsOf
      <4>2. Handling!Pieces(x, o.kind) = {<<x, "object">>}
        BY <3>2 DEF Handling!Pieces, Handling!Piece
      <4> QED
        BY <3>1, <4>1, <4>2
    <3>3. CASE o.kind = "membuf"
      <4>1. WhatsOf(o) = {"object", "meta", "buffer"} \cup h
        BY <1>3, <2>3, <3>3 DEF WhatsOf
      <4>2. Handling!Pieces(x, o.kind) = {<<x, "object">>, <<x, "meta">>, <<x, "buffer">>}
        BY <3>3 DEF Handling!Pieces, Handling!Piece
      <4> QED
        BY <3>1, <4>1, <4>2
    <3>4. CASE o.kind \notin {"blockdev", "membuf"}
      <4>1. WhatsOf(o) = {"object", "meta"} \cup h
        BY <1>3, <2>3, <3>4 DEF WhatsOf
      <4>2. Handling!Pieces(x, o.kind) = {<<x, "object">>, <<x, "meta">>}
        BY <3>4 DEF Handling!Pieces, Handling!Piece
      <4> QED
        BY <3>1, <4>1, <4>2
    <3> QED
      BY <3>2, <3>3, <3>4
  <2> QED
    BY <2>2, <2>3
<1>4. allocated = UNION {Handling!PiecesOf(x) : x \in {y \in Handling!Objects : Handling!Live(y)}}
  <2>1. allocated = MemoryOf(handles)
    BY <1>1 DEF HandlesGood
  <2>2. \A x \in Handling!Objects : WhatsOf(handles[x]) \subseteq Whats
    BY DEF WhatsOf, Whats
  <2>3. \A x \in Handling!Objects : handles[x].kind = "gone" => WhatsOf(handles[x]) = {}
    BY DEF WhatsOf
  <2> DEFINE live == {y \in Handling!Objects : Handling!Live(y)}
  <2>4. \A x \in Handling!Objects : x \in live <=> handles[x].kind # "gone"
    BY DEF Handling!Live
  <2>5. ASSUME NEW p \in allocated
        PROVE  \E x \in live : p \in Handling!PiecesOf(x)
    <3>1. p \in Handling!Objects \X Whats /\ p[2] \in WhatsOf(handles[p[1]])
      BY <2>1 DEF MemoryOf
    <3> DEFINE x == p[1]
    <3>2. x \in live
      BY <2>3, <2>4, <3>1
    <3>3. p = <<x, p[2]>>
      BY <3>1
    <3> HIDE DEF live
    <3>4. p \in Handling!PiecesOf(x)
      BY <1>3, <2>4, <3>1, <3>2, <3>3
    <3> QED
      BY <3>2, <3>4
  <2>6. ASSUME NEW x \in live, NEW p \in Handling!PiecesOf(x)
        PROVE  p \in allocated
    <3>1. x \in Handling!Objects /\ p \in {x} \X WhatsOf(handles[x])
      BY <1>3, <2>4
    <3> HIDE DEF live
    <3> QED
      BY <2>1, <2>2, <3>1 DEF MemoryOf
  <2> HIDE DEF live
  <2>7. allocated = UNION {Handling!PiecesOf(x) : x \in live}
    BY <2>5, <2>6
  <2> QED
    BY <2>7 DEF live
<1>5. ASSUME NEW f \in Handling!Files
      PROVE  LET owners == {x \in Handling!Objects :
                              handles[x].kind \in Handling!OnFile /\ handles[x].on = f
                              /\ handles[x].data /\ handles[x].owns}
             IN Handling!Cardinality(owners)
                  = IF fds[f] = [is |-> "FILE", owner |-> "object"] THEN 1 ELSE 0
  <2> DEFINE owners == {x \in Handling!Objects :
                          handles[x].kind \in Handling!OnFile /\ handles[x].on = f
                          /\ handles[x].data /\ handles[x].owns}
  <2>1. owners = {x \in Handling!Objects : OwnsFile(handles[x], f)}
    BY DEF OwnsFile
  <2>2. fds[f] = OwnedFile <=> owners # {}
    BY <1>1, <2>1 DEF HandlesGood
  <2>3. \A x, y \in owners : x = y
    BY <1>1, <2>1 DEF HandlesGood
  <2> HIDE DEF owners
  <2>4. Handling!Cardinality(owners) = Cardinality(owners)
    BY CardinalitySame
  <2>5. CASE owners = {}
    <3>1. Cardinality(owners) = 0
      BY <2>5, FS_EmptySet
    <3> QED
      BY <2>2, <2>4, <2>5, <3>1 DEF owners, OwnedFile
  <2>6. CASE owners # {}
    <3>1. PICK x : x \in owners
      BY <2>6
    <3>2. owners = {x}
      BY <2>3, <3>1
    <3>3. Cardinality(owners) = 1
      BY <3>2, FS_Singleton
    <3> QED
      BY <2>2, <2>4, <2>6, <3>3 DEF owners, OwnedFile
  <2> QED
    BY <2>5, <2>6
<1>6. \A x \in Handling!Objects :
        handles[x].kind \in Handling!OnDevice /\ handles[x].data => Handling!Live(handles[x].on)
  <2>1. ASSUME NEW x \in Handling!Objects, handles[x].kind \in Handling!OnDevice, handles[x].data
        PROVE  Handling!Live(handles[x].on)
    <3>1. WellMade(handles[x])
      BY <1>1 DEF HandlesGood
    <3>2. handles[x].on \in Handling!Objects /\ Uses(handles[x], handles[x].on)
      BY <2>1, <3>1 DEF WellMade, Uses
    <3>3. handles[handles[x].on].kind \in Handling!Devices
      BY <1>1, <3>2 DEF HandlesGood
    <3> QED
      BY <3>3 DEF Handling!Live, Handling!Devices, Handling!OnMemory
  <2> QED
    BY <2>1
<1> QED
  BY <1>2, <1>4, <1>5, <1>6 DEF Handling!HandlesSound

-----------------------------------------------------------------------------
(***************************************************************************)
(* Fetching.                                                               *)
(***************************************************************************)

Results ==
  [data : Seq(Nat), alloced : Int, requested : Nat, read : Nat, given : Seq(Nat),
   rc : {"OK", "AllocError", "undefined"}]

\* A pointer that is not set is that of a fetch of nothing; a buffer is none of them.
FetchInv ==
  /\ result \in Results /\ left \in Seq(Nat) /\ Fetching!FetchTold
  /\ result.data = Fetching!Unset => Fetching!OnlyOfNothing
  /\ result.data \notin {Fetching!Null, Fetching!Unset} => Len(result.data) > 1

LEMMA FunctionIsSeq ==
  ASSUME NEW n \in Nat, NEW f, f = [b \in 1..n |-> f[b]], \A b \in 1..n : f[b] \in Nat
  PROVE  f \in Seq(Nat) /\ Len(f) = n
<1>1. f \in [1..n -> Nat]
  OBVIOUS
<1> QED
  BY <1>1

LEMMA ZerosAre ==
  ASSUME NEW n \in Nat
  PROVE  /\ Fetching!Zeros(n) \in Seq(Nat) /\ Len(Fetching!Zeros(n)) = n
         /\ \A b \in 1..n : Fetching!Zeros(n)[b] = 0
<1>1. Fetching!Zeros(n) = [b \in 1..n |-> 0]
  BY DEF Fetching!Zeros
<1> QED
  BY <1>1, FunctionIsSeq

LEMMA DataReplaced ==
  ASSUME NEW r \in Results, NEW b \in Seq(Nat), NEW c \in Int
  PROVE  /\ [r EXCEPT !.data = b, !.alloced = c] \in Results
         /\ [r EXCEPT !.data = b, !.alloced = c].data = b
         /\ [r EXCEPT !.data = b, !.alloced = c].rc = r.rc
BY DEF Results

\* A buffer into which k bytes were read.
Filled(buffer, k) == [b \in DOMAIN buffer |-> IF b <= k THEN left[b] ELSE buffer[b]]

\* What a device gives is in front of the zeros the buffer was filled with.
LEMMA ReadBegins ==
  ASSUME NEW buffer \in Seq(Nat), NEW n \in Nat, n <= Len(buffer),
         \A b \in 1..n : buffer[b] = 0, left \in Seq(Nat), NEW k \in 0..n, k <= Len(left)
  PROVE  LET d == Filled(buffer, k) IN
         /\ d \in Seq(Nat) /\ Len(d) = Len(buffer)
         /\ SubSeq(left, 1, k) \in Seq(Nat) /\ Len(SubSeq(left, 1, k)) = k
         /\ SubSeq(d, 1, n) = SubSeq(left, 1, k) \o Fetching!Zeros(n - k)
<1> DEFINE d == Filled(buffer, k)
<1>0. d = [b \in DOMAIN buffer |-> IF b <= k THEN left[b] ELSE buffer[b]]
  BY DEF Filled
<1> HIDE DEF d
<1>1. DOMAIN buffer = 1..Len(buffer) /\ k \in Nat /\ n - k \in Nat
  OBVIOUS
<1>2. \A b \in 1..Len(buffer) : d[b] = IF b <= k THEN left[b] ELSE buffer[b]
  BY <1>0, <1>1
<1>3. \A b \in 1..Len(buffer) : d[b] \in Nat
  BY <1>2
<1>4. d \in Seq(Nat) /\ Len(d) = Len(buffer)
  BY <1>0, <1>1, <1>3, FunctionIsSeq
<1> DEFINE g == SubSeq(left, 1, k)
           z0 == Fetching!Zeros(n - k)
<1>5. g \in Seq(Nat) /\ Len(g) = k /\ \A b \in 1..k : g[b] = left[b]
  OBVIOUS
<1>6. z0 \in Seq(Nat) /\ Len(z0) = n - k /\ \A b \in 1 .. n - k : z0[b] = 0
  BY <1>1, ZerosAre
<1> HIDE DEF g, z0
<1>7. g \o z0 \in Seq(Nat) /\ Len(g \o z0) = n
  BY <1>5, <1>6
<1>8. SubSeq(d, 1, n) \in Seq(Nat) /\ Len(SubSeq(d, 1, n)) = n
      /\ \A b \in 1..n : SubSeq(d, 1, n)[b] = d[b]
  BY <1>4
<1>9. ASSUME NEW b \in 1..n PROVE SubSeq(d, 1, n)[b] = (g \o z0)[b]
  <2>1. CASE b <= k
    <3>1. (g \o z0)[b] = g[b] /\ b \in 1..k
      BY <2>1, <1>1, <1>5, <1>6
    <3>2. b \in 1..Len(buffer)
      BY <1>1
    <3>3. d[b] = left[b]
      BY <2>1, <3>2, <1>2
    <3> QED
      BY <3>1, <3>3, <1>5, <1>8
  <2>2. CASE b > k
    <3>1. (g \o z0)[b] = z0[b - k] /\ b - k \in 1 .. n - k
      BY <2>2, <1>1, <1>5, <1>6
    <3>2. d[b] = 0
      BY <2>2, <1>2
    <3> QED
      BY <3>1, <3>2, <1>6, <1>8
  <2>3. b <= k \/ b > k
    BY <1>1
  <2> QED
    BY <2>1, <2>2, <2>3
<1>10. SubSeq(d, 1, n) = g \o z0
  BY <1>7, <1>8, <1>9, SeqEqual
<1> QED
  BY <1>4, <1>5, <1>10 DEF d, g, z0

LEMMA ReadIntoInv ==
  ASSUME left \in Seq(Nat), NEW buffer \in Seq(Nat), NEW n \in Nat, n <= Len(buffer),
         \A b \in 1..n : buffer[b] = 0, Fetching!ReadInto(buffer, n), Len(buffer) > 1
  PROVE  FetchInv'
<1> DEFINE d(k) == Filled(buffer, k)
<1>1. PICK k \in 0..n :
        /\ k <= Len(left)
        /\ result' = Fetching!Result(d(k), Len(buffer), n, k, SubSeq(left, 1, k))
        /\ left' = SubSeq(left, k + 1, Len(left))
  BY DEF Fetching!ReadInto, Filled
<1>2. /\ d(k) \in Seq(Nat) /\ Len(d(k)) = Len(buffer)
      /\ SubSeq(left, 1, k) \in Seq(Nat)
      /\ SubSeq(d(k), 1, n) = SubSeq(left, 1, k) \o Fetching!Zeros(n - k)
  BY <1>1, ReadBegins
<1> HIDE DEF d
<1>3. left' \in Seq(Nat)
  BY <1>1
<1>4. /\ result'.data = d(k) /\ result'.alloced = Len(buffer) /\ result'.requested = n
      /\ result'.read = k /\ result'.given = SubSeq(left, 1, k) /\ result' \in Results
  BY <1>1, <1>2 DEF Fetching!Result, Results
<1>5. result'.rc = "OK" /\ Len(result'.data) > 1
  BY <1>1, <1>2, <1>4 DEF Fetching!Result
<1>6. result'.data # Fetching!Unset
  <2>1. Len(Fetching!Unset) = 1
    BY DEF Fetching!Unset
  <2>2. Len(result'.data) # 1
    <3> DEFINE m == Len(buffer)
    <3>1. Len(result'.data) = m /\ m \in Nat
      BY <1>2, <1>4
    <3>2. m > 1
      OBVIOUS
    <3> HIDE DEF m
    <3>3. m # 1
      BY <3>1, <3>2
    <3> QED
      BY <3>1, <3>3
  <2> QED
    BY <2>1, <2>2, Zenon
<1> QED
  BY <1>2, <1>3, <1>4, <1>5, <1>6 DEF FetchInv, Fetching!FetchTold, Fetching!Zeros

LEMMA FetchInitInv == Fetching!FetchAssumption /\ Fetching!Init => FetchInv
<1> SUFFICES ASSUME Fetching!FetchAssumption, Fetching!Init PROVE FetchInv
  OBVIOUS
<1>1. result.data = Fetching!Null /\ result \in Results /\ result.rc = "OK"
  BY DEF Fetching!Init, Fetching!NoResult, Fetching!Result, Fetching!Null, Results
<1>2. left \in Seq(Nat)
  BY DEF Fetching!Init, Fetching!FetchAssumption
<1> QED
  BY <1>1, <1>2 DEF FetchInv, Fetching!FetchTold, Fetching!Null, Fetching!Unset

LEMMA NoResultIs ==
  /\ Fetching!NoResult \in Results /\ Fetching!NoResult.data = Fetching!Null
  /\ Fetching!NoResult.rc = "OK"
BY DEF Fetching!NoResult, Fetching!Result, Fetching!Null, Results

LEMMA FetchNextInv ==
  ASSUME Fetching!FetchAssumption, FetchInv, [Fetching!Next]_Fetching!vars
  PROVE  FetchInv'
<1> USE DEF FetchInv
<1> /\ result \in Results /\ left \in Seq(Nat) /\ MaxFetch \in Nat
  BY DEF Fetching!FetchAssumption
<1>0. CASE Fetching!Held /\ Fetching!GivenUnset
  <2>1. result' = [result EXCEPT !.rc = "undefined"] /\ left' = left /\ result.data = Fetching!Unset
    BY <1>0 DEF Fetching!GivenUnset, Fetching!Allocated
  <2>2. /\ result'.data = result.data /\ result'.alloced = result.alloced
        /\ result'.requested = result.requested /\ result' \in Results
    BY <2>1 DEF Results
  <2> QED
    BY <2>1, <2>2 DEF Fetching!FetchTold, Fetching!OnlyOfNothing
<1>5. ASSUME result'.data = Fetching!Null, result' \in Results, left' = left, result'.rc # "undefined"
      PROVE  FetchInv'
  BY <1>5 DEF Fetching!FetchTold, Fetching!Null, Fetching!Unset
<1>6. \A p \in {Fetching!Null, Fetching!Unset} :
        /\ Fetching!Result(p, 0, 0, 0, <<>>) \in Results
        /\ Fetching!Result(p, 0, 0, 0, <<>>).data = p
        /\ Fetching!Result(p, 0, 0, 0, <<>>).rc = "OK"
        /\ Fetching!Result(p, 0, 0, 0, <<>>).alloced = 0
        /\ Fetching!Result(p, 0, 0, 0, <<>>).requested = 0
  <2>1. <<>> \in Seq(Nat) /\ Fetching!Null \in Seq(Nat) /\ Fetching!Unset \in Seq(Nat)
    BY DEF Fetching!Null, Fetching!Unset
  <2> QED
    BY <2>1 DEF Fetching!Result, Results
<1>1. CASE Fetching!Fetch
  <2>1. PICK n \in 0..MaxFetch :
          \/ /\ \E p \in {Fetching!Null, Fetching!Unset} :
                  result' = Fetching!Result(p, 0, 0, 0, <<>>)
             /\ left' = left
          \/ n > 0 /\ Fetching!ReadInto(Fetching!Zeros(n + 1), n)
    BY <1>1 DEF Fetching!Fetch
  <2>2. CASE n > 0 /\ Fetching!ReadInto(Fetching!Zeros(n + 1), n)
    <3>1. /\ Fetching!Zeros(n + 1) \in Seq(Nat) /\ n <= Len(Fetching!Zeros(n + 1))
          /\ Len(Fetching!Zeros(n + 1)) > 1
          /\ \A b \in 1..n : Fetching!Zeros(n + 1)[b] = 0
      BY <2>2, ZerosAre
    <3> QED
      BY <2>2, <3>1, ReadIntoInv
  <2>3. ASSUME NEW p \in {Fetching!Null, Fetching!Unset},
               result' = Fetching!Result(p, 0, 0, 0, <<>>), left' = left
        PROVE  FetchInv'
    <3>1. /\ result' \in Results /\ result'.data = p /\ result'.rc = "OK"
          /\ result'.alloced = 0 /\ result'.requested = 0
      BY <1>6, <2>3
    <3> QED
      BY <2>3, <3>1 DEF Fetching!FetchTold, Fetching!OnlyOfNothing
  <2> QED
    BY <2>1, <2>2, <2>3
<1>2. CASE Fetching!NewResult \/ Fetching!FetchFree \/ Fetching!FetchFreeData
  <2>1. CASE Fetching!NewResult
    <3>1. result' = Fetching!Result(Fetching!Null, 0, 0, 0, <<>>) /\ left' = left
      BY <2>1 DEF Fetching!NewResult
    <3> QED
      BY <1>5, <1>6, <3>1
  <2>2. CASE Fetching!FetchFree
    <3>1. result' = Fetching!NoResult /\ left' = left => FetchInv'
      BY <1>5, NoResultIs
    <3> QED
      BY <1>0, <2>2, <3>1 DEF Fetching!FetchFree
  <2>3. CASE Fetching!FetchFreeData
    <3>1. CASE /\ Fetching!Held
               /\ result' = [result EXCEPT !.data = Fetching!Null, !.alloced = 0] /\ left' = left
      <4>1. Fetching!Null \in Seq(Nat) /\ result.rc # "undefined"
        BY <3>1 DEF Fetching!Null, Fetching!Held
      <4>2. \A c \in Int :
              /\ [result EXCEPT !.data = Fetching!Null, !.alloced = c] \in Results
              /\ [result EXCEPT !.data = Fetching!Null, !.alloced = c].data = Fetching!Null
              /\ [result EXCEPT !.data = Fetching!Null, !.alloced = c].rc = result.rc
        BY <4>1, DataReplaced
      <4>3. 0 \in Int
        OBVIOUS
      <4>4. result'.data = Fetching!Null /\ result' \in Results /\ result'.rc = result.rc
        BY <3>1, <4>2, <4>3, Zenon
      <4> QED
        BY <1>5, <3>1, <4>1, <4>4
    <3> QED
      BY <1>0, <2>3, <3>1 DEF Fetching!FetchFreeData
  <2> QED
    BY <1>2, <2>1, <2>2, <2>3
<1>3. CASE Fetching!FetchAgain
  <2> Fetching!Held
    BY <1>3 DEF Fetching!FetchAgain
  <2>1. PICK n \in 0..MaxFetch :
          \/ /\ n = 0
             /\ result' = [result EXCEPT !.requested = 0, !.read = 0, !.given = <<>>,
                                         !.rc = "OK"]
             /\ left' = left
          \/ n > 0 /\ Fetching!TooShort(n) /\ Fetching!GivenUnset
          \/ /\ n > 0 /\ Fetching!TooShort(n) /\ result.data # Fetching!Unset
             /\ \/ /\ result' = [result EXCEPT !.read = 0, !.given = <<>>,
                                               !.rc = "AllocError"]
                   /\ left' = left
                \/ Fetching!ReadInto(Fetching!Zeros(n + 1), n)
          \/ n > 0 /\ ~Fetching!TooShort(n) /\ Fetching!ReadInto(Fetching!Cleared(n), n)
    BY <1>3 DEF Fetching!FetchAgain, Fetching!Allocated
  <2>2. CASE /\ result' = [result EXCEPT !.requested = 0, !.read = 0, !.given = <<>>,
                                         !.rc = "OK"]
             /\ left' = left
    <3>1. /\ result'.data = result.data /\ result'.alloced = result.alloced
          /\ result'.requested = 0 /\ result'.read = 0 /\ result'.given = <<>>
          /\ result' \in Results /\ result'.rc = "OK"
      <4>1. <<>> \in Seq(Nat)
        OBVIOUS
      <4> QED
        BY <2>2, <4>1 DEF Results
    <3>2. SubSeq(result.data, 1, 0) = <<>> \o Fetching!Zeros(0)
      <4>1. Fetching!Zeros(0) \in Seq(Nat) /\ Len(Fetching!Zeros(0)) = 0
        BY ZerosAre
      <4> QED
        BY <4>1 DEF Results
    <3> QED
      BY <2>2, <3>1, <3>2 DEF Fetching!FetchTold, Fetching!OnlyOfNothing, Fetching!Zeros, Results
  <2>3. CASE /\ result' = [result EXCEPT !.read = 0, !.given = <<>>, !.rc = "AllocError"]
             /\ left' = left
    <3>1. <<>> \in Seq(Nat)
      OBVIOUS
    <3>2. /\ result'.data = result.data /\ result'.alloced = result.alloced
          /\ result'.requested = result.requested /\ result'.rc = "AllocError"
          /\ result' \in Results
      BY <2>3, <3>1 DEF Results
    <3> QED
      BY <2>3, <3>2 DEF Fetching!FetchTold, Fetching!OnlyOfNothing
  <2>4. CASE n > 0 /\ Fetching!ReadInto(Fetching!Zeros(n + 1), n)
    <3>1. /\ Fetching!Zeros(n + 1) \in Seq(Nat) /\ n <= Len(Fetching!Zeros(n + 1))
          /\ Len(Fetching!Zeros(n + 1)) > 1
          /\ \A b \in 1..n : Fetching!Zeros(n + 1)[b] = 0
      BY <2>4, ZerosAre
    <3> QED
      BY <2>4, <3>1, ReadIntoInv
  <2>5. CASE n > 0 /\ ~Fetching!TooShort(n) /\ Fetching!ReadInto(Fetching!Cleared(n), n)
    <3> DEFINE c == Fetching!Cleared(n)
    <3>1. /\ n <= Len(result.data) /\ DOMAIN result.data = 1..Len(result.data)
          /\ Len(result.data) > 1
      <4>1. result.data # Fetching!Null /\ n <= result.alloced
        BY <2>5 DEF Fetching!TooShort, Results
      <4>2. result.data # Fetching!Unset
        BY <2>5, <4>1 DEF Fetching!OnlyOfNothing
      <4> QED
        BY <4>1, <4>2 DEF Fetching!FetchTold, Results
    <3>2. /\ c = [b \in 1..Len(result.data) |-> IF b <= n THEN 0 ELSE result.data[b]]
          /\ \A b \in 1..Len(result.data) : result.data[b] \in Nat
      BY <3>1 DEF Fetching!Cleared, Results
    <3>3. c \in Seq(Nat) /\ Len(c) = Len(result.data)
      <4> HIDE DEF c
      <4>1. \A b \in 1..Len(result.data) : c[b] \in Nat
        BY <3>2
      <4> QED
        BY <3>2, <4>1, FunctionIsSeq DEF Results
    <3>4. \A b \in 1..n : c[b] = 0
      BY <3>1, <3>2
    <3> QED
      BY <2>5, <3>1, <3>3, <3>4, ReadIntoInv
  <2> QED
    BY <1>0, <2>1, <2>2, <2>3, <2>4, <2>5
<1>4. CASE UNCHANGED Fetching!vars
  BY <1>4 DEF Fetching!vars, Fetching!FetchTold, Fetching!OnlyOfNothing, Fetching!Null,
              Fetching!Unset, Fetching!Zeros
<1> QED
  BY <1>1, <1>2, <1>3, <1>4 DEF Fetching!Next

-----------------------------------------------------------------------------
(***************************************************************************)
(* All parts together.                                                     *)
(***************************************************************************)

LEMMA PartsBegin ==
  ASSUME PartsInit
  PROVE  /\ part = "copying" => Copying!Init
         /\ part = "pooling" => Pooling!Init
         /\ part = "handling" => Handling!Init
         /\ part = "fetching" => Fetching!Init
BY Zenon DEF PartsInit, OthersOff

\* A step of the program is one of the part whose behaviour this is, and none of the
\* others.
LEMMA PartsStep ==
  ASSUME [PartsNext]_partsVars
  PROVE  /\ part' = part
         /\ part = "copying" => [Copying!Next]_Copying!vars
         /\ part = "pooling" => [Pooling!Next]_Pooling!vars
         /\ part = "handling" => [Handling!Next]_Handling!vars
         /\ part = "fetching" => [Fetching!Next]_Fetching!vars
<1>1. CASE UNCHANGED partsVars
  BY <1>1 DEF partsVars, CopyingVars, PoolingVars, HandlingVars, FetchingVars,
              Copying!vars, Pooling!vars, Handling!vars, Fetching!vars
<1>2. CASE PartsNext
  BY <1>2 DEF PartsNext, OthersStay
<1> QED
  BY <1>1, <1>2

\* A copy is a beginning of what it should be at every moment, all of it when the loop
\* says so, and an import that fails is undone but for the last block of a file that
\* fills its blocks, which is cleared (whio_dev_copy, whio_stream_copy,
\* whefs_fs_dump_to_FILE, whefs_import_dev, whio_stream_gzip, whio_stream_gunzip).
THEOREM CopiesToldOfParts == PartsSpec => []CopiesTold
<1> DEFINE IInv0 == part = "copying" => CopyInv /\ pc \in Places
<1>1. PartsInit => IInv0
  BY PartsBegin, CopyBegins DEF Copying!Init, Places
<1>2. IInv0 /\ [PartsNext]_partsVars => IInv0'
  BY PartsStep, CopyStep, PlacesKept
<1>3. IInv0 => CopiesTold
  BY CopyTold DEF CopiesTold
<1> QED
  BY <1>1, <1>2, <1>3, PTL DEF PartsSpec

\* The memory of objects has one owner, so have the files and devices below the streams
\* and devices, and what a fetch brings is what the device gave (the pools of
\* WHIO_CONFIG_ENABLE_STATIC_MALLOC, whio_dev_*.c, whio_stream_*.c, whio_dev_fetch_r).
\* Only an object for a fetch of nothing owns a pointer that nothing set, and it is what
\* whio_dev_fetch_free gives back then.
THEOREM HandlesSoundOfParts == PartsSpec => []HandlesSound
<1> DEFINE IInv0 == /\ part = "pooling" => PoolsInv
                    /\ part = "handling" => HandlesInv
                    /\ part = "fetching" => FetchInv
<1>1. PartsInit => IInv0
  BY PartsBegin, PoolsInitInv, HandlesInitInv, FetchInitInv, PartsAssumption
<1>2. IInv0 /\ [PartsNext]_partsVars => IInv0'
  BY PartsStep, PoolsNextInv, HandlesNextInv, FetchNextInv, PartsAssumption
<1>3. IInv0 => HandlesSound
  BY HandlesInvSound, PartsAssumption DEF HandlesSound, PoolsInv, FetchInv
<1> QED
  BY <1>1, <1>2, <1>3, PTL DEF PartsSpec
=============================================================================
