-------------------------- MODULE WhioMemoryProofs --------------------------
(***************************************************************************)
(* A device over memory or a file, with windows on it, implements the      *)
(* sequence of bytes of WhioDevice, for any bytes, sizes, windows and      *)
(* growth.  First come sequences of bytes, then what a call does to a      *)
(* device and to its bytes, then each call as a step of WhioDevice.        *)
(***************************************************************************)
EXTENDS WhioMemory, SequenceTheorems, TLAPS

-----------------------------------------------------------------------------
(***************************************************************************)
(* Sequences of bytes.                                                     *)
(***************************************************************************)

\* The sequences of a bounded length that the model enumerates are all of them.
LEMMA UptoIs ==
  ASSUME NEW n \in Nat
  PROVE  Upto(n) = {s \in Seq(Byte) : Len(s) <= n}
<1>1. ASSUME NEW s \in Upto(n) PROVE s \in Seq(Byte) /\ Len(s) <= n
  <2>1. PICK m \in 0..n : s \in [1..m -> Byte]
    BY DEF Upto, Some
  <2>2. s \in Seq(Byte) /\ Len(s) = m
    BY <2>1
  <2> QED
    BY <2>2
<1>2. ASSUME NEW s \in Seq(Byte), Len(s) <= n PROVE s \in Upto(n)
  <2>1. Len(s) \in 0..n /\ s \in [1..Len(s) -> Byte]
    BY <1>2
  <2> QED
    BY <2>1 DEF Upto, Some
<1> QED
  BY <1>1, <1>2

\* A part of a sequence.
LEMMA PartOf ==
  ASSUME NEW s \in Seq(Byte), NEW m \in Nat, NEW n \in Nat, n <= Len(s)
  PROVE  /\ SubSeq(s, m + 1, n) \in Seq(Byte)
         /\ Len(SubSeq(s, m + 1, n)) = IF m < n THEN n - m ELSE 0
         /\ \A i \in 1..(n - m) : SubSeq(s, m + 1, n)[i] = s[m + i]
<1>1. \A i \in (m + 1)..n : s[i] \in Byte
  BY ElementOfSeq
<1>2. m + 1 \in Int /\ n \in Int
  OBVIOUS
<1> DEFINE q == SubSeq(s, m + 1, n)
<1>3. /\ q \in Seq(Byte)
      /\ Len(q) = IF m + 1 <= n THEN n - (m + 1) + 1 ELSE 0
      /\ \A i \in 1..(n - (m + 1) + 1) : q[i] = s[(m + 1) + i - 1]
  BY <1>1, <1>2, SubSeqProperties
<1> HIDE DEF q
<1>4. n - (m + 1) + 1 = n - m
  OBVIOUS
<1>5. \A i \in 1..(n - m) : (m + 1) + i - 1 = m + i
  OBVIOUS
<1>6. Len(q) = IF m < n THEN n - m ELSE 0
  BY <1>3
<1>7. \A i \in 1..(n - m) : q[i] = s[m + i]
  BY <1>3, <1>4, <1>5
<1> QED
  BY <1>3, <1>6, <1>7 DEF q

-----------------------------------------------------------------------------
(***************************************************************************)
(* What a call does to a device, and what it leaves of its bytes.          *)
(***************************************************************************)

\* A device whose end of file is in its buffer.
Sound(d) == d \in Device /\ d.size <= Len(d.buffer)

\* The bytes up to the end of file.
Data(d) == SubSeq(d.buffer, 1, d.size)

\* The bytes s are at p in e, where there was d: Holds of WhioDevice.
Kept(d, e, p, s) ==
  /\ Len(e) >= Len(d)
  /\ Len(e) > Len(d) => Len(e) <= p + Len(s) /\ (s # <<>> => Len(e) = p + Len(s))
  /\ s # <<>> => p + Len(s) <= Len(e) /\ SubSeq(e, p + 1, p + Len(s)) = s
  /\ \A i \in 1..Len(d) : i \notin (p + 1)..(p + Len(s)) => e[i] = d[i]

LEMMA DataIs ==
  ASSUME NEW d, Sound(d)
  PROVE  /\ Data(d) \in Seq(Byte) /\ Len(Data(d)) = d.size
         /\ \A i \in 1..d.size : Data(d)[i] = d.buffer[i]
<1>1. d.buffer \in Seq(Byte) /\ d.size \in Nat /\ d.size <= Len(d.buffer)
  BY SizesAssumption DEF Sound, Device
<1> DEFINE b == d.buffer
           n == d.size
<1>2. b \in Seq(Byte) /\ n \in Nat /\ n <= Len(b)
  BY <1>1
<1> HIDE DEF b, n
<1>3. /\ SubSeq(b, 0 + 1, n) \in Seq(Byte)
      /\ Len(SubSeq(b, 0 + 1, n)) = IF 0 < n THEN n - 0 ELSE 0
      /\ \A i \in 1..(n - 0) : SubSeq(b, 0 + 1, n)[i] = b[0 + i]
  BY <1>2, PartOf
<1>4. 0 + 1 = 1 /\ n - 0 = n /\ \A i \in 1..n : 0 + i = i
  BY <1>2
<1>5. /\ SubSeq(b, 1, n) \in Seq(Byte) /\ Len(SubSeq(b, 1, n)) = n
      /\ \A i \in 1..n : SubSeq(b, 1, n)[i] = b[i]
  BY <1>2, <1>3, <1>4
<1> QED
  BY <1>5 DEF Data, b, n

\* What a read gives, which is in the bytes.
LEMMA BytesAre ==
  ASSUME NEW d, Sound(d), NEW n \in Nat
  PROVE  /\ Bytes(d, n) = SubSeq(Data(d), d.pos + 1, Least(d.pos + n, Len(Data(d))))
         /\ Bytes(d, n) \in Seq(Byte) /\ Len(Bytes(d, n)) <= n
         /\ Bytes(d, n) # <<>> => d.pos + Len(Bytes(d, n)) <= d.size
<1> DEFINE b == d.buffer
           z == d.size
           p == d.pos
           t == Data(d)
           e == Least(p + n, z)
<1>1. b \in Seq(Byte) /\ z \in Nat /\ z <= Len(b) /\ p \in Nat
  BY SizesAssumption DEF Sound, Device
<1>2. t \in Seq(Byte) /\ Len(t) = z /\ \A i \in 1..z : t[i] = b[i]
  BY DataIs
<1> HIDE DEF b, z, p, t
<1>3. e \in Nat /\ e <= z /\ e <= p + n
  BY <1>1 DEF Least
<1> HIDE DEF e
<1> DEFINE x == SubSeq(b, p + 1, e)
           y == SubSeq(t, p + 1, e)
<1>4. /\ x \in Seq(Byte) /\ Len(x) = (IF p < e THEN e - p ELSE 0)
      /\ \A i \in 1..(e - p) : x[i] = b[p + i]
  <2>1. e <= Len(b)
    BY <1>1, <1>3
  <2> QED
    BY <1>1, <1>3, <2>1, PartOf
<1>5. /\ y \in Seq(Byte) /\ Len(y) = (IF p < e THEN e - p ELSE 0)
      /\ \A i \in 1..(e - p) : y[i] = t[p + i]
  BY <1>1, <1>2, <1>3, PartOf
<1> HIDE DEF x, y
<1>6. x = y
  <2>1. Len(x) = Len(y)
    BY <1>4, <1>5
  <2>2. ASSUME NEW i \in 1..Len(x) PROVE x[i] = y[i]
    <3>1. i \in 1..(e - p) /\ p + i \in 1..z
      BY <1>1, <1>3, <1>4
    <3> QED
      BY <3>1, <1>2, <1>4, <1>5
  <2> QED
    BY <1>4, <1>5, <2>1, <2>2, SeqEqual
<1>7. Len(x) <= n
  BY <1>1, <1>3, <1>4
<1>8. ASSUME x # <<>> PROVE p + Len(x) <= z
  <2>1. Len(x) # 0
    BY <1>4, <1>8, EmptySeq
  <2> QED
    BY <2>1, <1>1, <1>3, <1>4
<1>9. Bytes(d, n) = x
  BY DEF Bytes, x, b, p, z, e
<1>10. y = SubSeq(Data(d), d.pos + 1, Least(d.pos + n, Len(Data(d))))
  BY <1>2 DEF y, t, p, e, z
<1> QED
  BY <1>4, <1>6, <1>7, <1>8, <1>9, <1>10 DEF p, z

LEMMA ReallocIs ==
  ASSUME NEW b \in Seq(Byte), NEW n \in Nat
  PROVE  /\ Realloc(b, n) \in Seq(Byte) /\ Len(Realloc(b, n)) = n
         /\ \A i \in 1..n : i <= Len(b) => Realloc(b, n)[i] = b[i]
<1>1. ASSUME NEW i \in 1..n PROVE (IF i <= Len(b) THEN b[i] ELSE 0) \in Byte
  <2>1. CASE i <= Len(b)
    <3>1. i \in 1..Len(b)
      BY <2>1
    <3> QED
      BY <2>1, <3>1, ElementOfSeq
  <2>2. CASE ~(i <= Len(b))
    BY <2>2, ByteAssumption
  <2> QED
    BY <2>1, <2>2
<1>2. Realloc(b, n) \in [1..n -> Byte]
  BY <1>1 DEF Realloc
<1>3. Realloc(b, n) \in Seq(Byte) /\ Len(Realloc(b, n)) = n
  BY <1>2
<1>4. \A i \in 1..n : i <= Len(b) => Realloc(b, n)[i] = b[i]
  BY DEF Realloc
<1> QED
  BY <1>3, <1>4

\* The fields of a device that one call changes.
LEMMA WithSize ==
  ASSUME NEW d \in Device, NEW n \in 0..MaxPos, n <= Len(d.buffer),
         NEW e, e = [d EXCEPT !.size = n]
  PROVE  Sound(e) /\ e.kind = d.kind /\ e.pos = d.pos /\ e.size = n /\ e.buffer = d.buffer
BY DEF Sound, Device

LEMMA WithBuffer ==
  ASSUME NEW d \in Device, NEW n \in 0..MaxPos, NEW b \in Seq(Byte), n <= Len(b),
         NEW e, e = [d EXCEPT !.buffer = b, !.size = n]
  PROVE  Sound(e) /\ e.kind = d.kind /\ e.pos = d.pos /\ e.size = n /\ e.buffer = b
BY DEF Sound, Device

LEMMA SoundIs ==
  ASSUME NEW d, Sound(d)
  PROVE  /\ d \in Device /\ d.kind \in Kind /\ d.buffer \in Seq(Byte) /\ Len(d.buffer) \in Nat
         /\ d.size \in 0..MaxPos /\ d.pos \in 0..MaxPos /\ d.size \in Nat /\ d.pos \in Nat
         /\ d.size <= Len(d.buffer) /\ d.size <= d.size
BY SizesAssumption DEF Sound, Device

\* What a truncation leaves as it is, in whatever device; n is the new size or
\* the device stays as it is.
Cut(d, e, n) ==
  /\ Sound(e) /\ e.kind = d.kind /\ e.pos = d.pos
  /\ e = d \/ e.size = n
  /\ \A i \in 1..d.size : i <= e.size => e.buffer[i] = d.buffer[i]

LEMMA CutBuffer ==
  ASSUME NEW d, Sound(d), NEW n \in 0..MaxPos, NEW m \in Nat, n <= m,
         NEW e, e = [d EXCEPT !.buffer = Realloc(d.buffer, m), !.size = n]
  PROVE  Cut(d, e, n)
<1>1. d \in Device /\ d.buffer \in Seq(Byte) /\ d.size \in Nat /\ d.size <= Len(d.buffer)
  BY SizesAssumption DEF Sound, Device
<1> DEFINE b == Realloc(d.buffer, m)
<1>2. /\ b \in Seq(Byte) /\ Len(b) = m
      /\ \A i \in 1..m : i <= Len(d.buffer) => b[i] = d.buffer[i]
  BY <1>1, ReallocIs
<1>3. e = [d EXCEPT !.buffer = b, !.size = n]
  OBVIOUS
<1> HIDE DEF b
<1>4. Sound(e) /\ e.kind = d.kind /\ e.pos = d.pos /\ e.size = n /\ e.buffer = b
  <2>1. n <= Len(b)
    BY <1>2
  <2> QED
    BY <1>1, <1>2, <1>3, <2>1 DEF Sound, Device
<1>5. ASSUME NEW i \in 1..d.size, i <= e.size PROVE e.buffer[i] = d.buffer[i]
  <2>1. i \in 1..m /\ i <= Len(d.buffer)
    BY <1>1, <1>4, <1>5
  <2> QED
    BY <1>2, <1>4, <2>1
<1> QED
  BY <1>4, <1>5 DEF Cut

LEMMA CutSize ==
  ASSUME NEW d, Sound(d), NEW n \in 0..MaxPos, n <= Len(d.buffer),
         NEW e, e = [d EXCEPT !.size = n]
  PROVE  Cut(d, e, n)
<1>1. d \in Device
  BY DEF Sound
<1>2. Sound(e) /\ e.kind = d.kind /\ e.pos = d.pos /\ e.size = n /\ e.buffer = d.buffer
  BY <1>1, WithSize
<1> QED
  BY <1>2 DEF Cut

LEMMA CutSelf ==
  ASSUME NEW d, Sound(d), NEW n
  PROVE  Cut(d, d, n)
BY DEF Cut

\* A growing buffer grows to what is asked for at least.
LEMMA GrownIs ==
  ASSUME NEW d, Sound(d), NEW n \in 0..MaxPos
  PROVE  Grown(d, n) \in Nat /\ n <= Grown(d, n)
<1>1. Len(d.buffer) \in Nat /\ Factor \in Nat /\ n \in Nat
  BY SizesAssumption DEF Sound, Device
<1>2. \A l, f \in Nat : l * (f + 1) \in Nat /\ (l * (f + 1)) \div 100 \in Nat
  <2>1. \A l, f \in Nat : l * (f + 1) \in Nat
    OBVIOUS
  <2>2. \A k \in Nat : k \div 100 \in Nat
    OBVIOUS
  <2> QED
    BY <2>1, <2>2, Zenon
<1>3. (Len(d.buffer) * (Factor + 1)) \div 100 \in Nat
  BY <1>1, <1>2
<1> DEFINE g == (Len(d.buffer) * (Factor + 1)) \div 100
<1> HIDE DEF g
<1>4. Grown(d, n) = IF d.kind = "growing" THEN Most(n, g) ELSE n
  BY DEF Grown, Alloced, g
<1>5. g \in Nat
  BY <1>3 DEF g
<1> QED
  BY <1>1, <1>4, <1>5 DEF Most

LEMMA TruncMembufIs ==
  ASSUME NEW d, Sound(d), NEW n \in 0..MaxPos, NEW got \in BOOLEAN
  PROVE  Cut(d, TruncMembuf(d, n, got), n)
<1>1. d.buffer \in Seq(Byte) /\ Len(d.buffer) \in Nat
  BY DEF Sound, Device
<1>2. n \in Nat
  BY SizesAssumption
<1>0. n <= n
  BY <1>2
<1>3. CASE n > Len(d.buffer) /\ got
  <2>0. ~(n <= Len(d.buffer))
    BY <1>1, <1>2, <1>3
  <2> DEFINE g == Grown(d, n)
  <2>1. g \in Nat /\ n <= g
    BY GrownIs
  <2>2. TruncMembuf(d, n, got) = [d EXCEPT !.buffer = Realloc(d.buffer, g), !.size = n]
    BY <1>3, <2>0, Zenon DEF TruncMembuf, Alloced
  <2> HIDE DEF g
  <2> QED
    BY <2>1, <2>2, CutBuffer
<1>4. CASE n > Len(d.buffer) /\ ~got
  <2>0. ~(n <= Len(d.buffer))
    BY <1>1, <1>2, <1>4
  <2>1. TruncMembuf(d, n, got) = d
    BY <1>4, <2>0, Zenon DEF TruncMembuf, Alloced
  <2> QED
    BY <2>1, CutSelf
<1>5. CASE n <= Len(d.buffer) /\ Shrinks(d, n) /\ (got \/ n = 0)
  <2>1. ~(n > Len(d.buffer))
    BY <1>1, <1>2, <1>5
  <2>2. TruncMembuf(d, n, got) = [d EXCEPT !.buffer = Realloc(d.buffer, n), !.size = n]
    BY <1>5, <2>1, Zenon DEF TruncMembuf, Alloced
  <2> QED
    BY <1>2, <1>0, <2>2, CutBuffer, Zenon
<1>6. CASE n <= Len(d.buffer) /\ ~(Shrinks(d, n) /\ (got \/ n = 0))
  <2>1. ~(n > Len(d.buffer))
    BY <1>1, <1>2, <1>6
  <2>2. TruncMembuf(d, n, got) = [d EXCEPT !.size = n]
    BY <1>6, <2>1, Zenon DEF TruncMembuf, Alloced
  <2> QED
    BY <1>6, <2>2, CutSize
<1>7. n > Len(d.buffer) \/ n <= Len(d.buffer)
  BY <1>1, <1>2
<1> QED
  BY <1>3, <1>4, <1>5, <1>6, <1>7, Zenon

LEMMA TruncFileIs ==
  ASSUME NEW d, Sound(d), NEW n \in 0..MaxPos, NEW got \in BOOLEAN
  PROVE  Cut(d, TruncFile(d, n, got), n)
<1>1. n \in Nat
  BY SizesAssumption
<1>0. n <= n
  BY <1>1
<1>2. CASE got
  <2>1. TruncFile(d, n, got) = [d EXCEPT !.buffer = Realloc(d.buffer, n), !.size = n]
    BY <1>2, Zenon DEF TruncFile
  <2> QED
    BY <1>1, <1>0, <2>1, CutBuffer, Zenon
<1>3. CASE ~got
  <2>1. TruncFile(d, n, got) = d
    BY <1>3, Zenon DEF TruncFile
  <2> QED
    BY <2>1, CutSelf
<1> QED
  BY <1>2, <1>3, Zenon

LEMMA TruncIs ==
  ASSUME NEW d, Sound(d), NEW n \in 0..MaxPos, NEW got \in BOOLEAN
  PROVE  Cut(d, Trunc(d, n, got), n)
<1>1. d.kind \in {"growing", "fixed", "map", "const map", "file"}
  BY KindAssumption DEF Sound, Device
<1>2. CASE d.kind \in {"growing", "fixed"}
  <2>1. Trunc(d, n, got) = TruncMembuf(d, n, got)
    BY <1>2 DEF Trunc
  <2> QED
    BY <2>1, TruncMembufIs
<1>3. CASE d.kind \in {"map", "const map"}
  <2>1. Trunc(d, n, got) = TruncMemmap(d, n)
    BY <1>3 DEF Trunc
  <2>2. CASE n > Len(d.buffer)
    <3>1. TruncMemmap(d, n) = d
      BY <2>2 DEF TruncMemmap, Alloced
    <3> QED
      BY <2>1, <3>1, CutSelf
  <2>3. CASE ~(n > Len(d.buffer))
    <3>1. TruncMemmap(d, n) = [d EXCEPT !.size = n]
      BY <2>3, Zenon DEF TruncMemmap, Alloced
    <3>2. n <= Len(d.buffer)
      BY <2>3, SizesAssumption DEF Sound, Device
    <3> QED
      BY <2>1, <3>1, <3>2, CutSize
  <2> QED
    BY <2>2, <2>3
<1>4. CASE d.kind = "file"
  <2>1. Trunc(d, n, got) = TruncFile(d, n, got)
    BY <1>4 DEF Trunc
  <2> QED
    BY <2>1, TruncFileIs
<1> QED
  BY <1>1, <1>2, <1>3, <1>4

LEMMA Between ==
  ASSUME NEW a \in Nat, NEW m \in Nat, NEW z \in Nat, m >= a, z = a \/ z = m
  PROVE  a <= z /\ (z > a => z <= m)
OBVIOUS

\* The size of a device that is made longer for a write up to m.
Longer(d, e, m) ==
  /\ Sound(e) /\ e.kind = d.kind /\ e.pos = d.pos /\ d.size <= e.size
  /\ e.size > d.size => e.size <= m /\ d.kind # "const map"
  /\ \A i \in 1..d.size : e.buffer[i] = d.buffer[i]

LEMMA WidenedIs ==
  ASSUME NEW d, Sound(d), NEW m \in 0..MaxPos, NEW got \in BOOLEAN
  PROVE  Longer(d, Widened(d, m, got), m)
<1> SUFFICES ASSUME NEW e, e = Widened(d, m, got)
             PROVE  /\ Sound(e) /\ e.kind = d.kind /\ e.pos = d.pos /\ d.size <= e.size
                    /\ e.size > d.size => e.size <= m /\ d.kind # "const map"
                    /\ \A i \in 1..d.size : e.buffer[i] = d.buffer[i]
  BY Zenon DEF Longer
<1>1. /\ d \in Device /\ d.size \in Nat /\ m \in Nat /\ Len(d.buffer) \in Nat
      /\ d.size <= Len(d.buffer)
  BY SizesAssumption DEF Sound, Device
<1>2. ASSUME m >= d.size, d.kind # "const map", Cut(d, e, m)
      PROVE  /\ Sound(e) /\ e.kind = d.kind /\ e.pos = d.pos /\ d.size <= e.size
             /\ e.size > d.size => e.size <= m /\ d.kind # "const map"
             /\ \A i \in 1..d.size : e.buffer[i] = d.buffer[i]
  <2>0. /\ Sound(e) /\ e.kind = d.kind /\ e.pos = d.pos /\ (e = d \/ e.size = m)
        /\ \A i \in 1..d.size : i <= e.size => e.buffer[i] = d.buffer[i]
    BY <1>2, Zenon DEF Cut
  <2>8. e.size \in Nat
    BY <2>0, SoundIs, Zenon
  <2>9. e.size = d.size \/ e.size = m
    BY <2>0, Zenon
  <2>1. d.size <= e.size
    BY <1>1, <1>2, <2>8, <2>9, Between, Zenon
  <2>2. e.size > d.size => e.size <= m
    BY <1>1, <1>2, <2>8, <2>9, Between, Zenon
  <2>3. \A i \in 1..d.size : i <= e.size
    BY <1>1, <2>1, <2>8
  <2> QED
    BY <1>2, <2>0, <2>1, <2>2, <2>3, Zenon
<1>3. CASE d.kind = "growing" /\ m >= d.size
  <2>1. e = Trunc(d, m, got)
    BY <1>3 DEF Widened
  <2>2. Cut(d, e, m)
    BY <2>1, TruncIs
  <2> QED
    BY <1>2, <1>3, <2>2
<1>4. CASE d.kind = "fixed" /\ m >= d.size
  <2> DEFINE n == Least(m, Len(d.buffer))
  <2>1. e = [d EXCEPT !.size = n]
    BY <1>4 DEF Widened, Alloced
  <2>2. n \in 0..MaxPos /\ n <= Len(d.buffer) /\ n <= m /\ d.size <= n
    BY <1>1, <1>4, SizesAssumption DEF Least
  <2> HIDE DEF n
  <2>3. Sound(e) /\ e.kind = d.kind /\ e.pos = d.pos /\ e.size = n /\ e.buffer = d.buffer
    BY <1>1, <2>1, <2>2, WithSize
  <2> QED
    BY <1>4, <2>2, <2>3
<1>5. CASE d.kind = "file" /\ m >= d.size
  <2>1. e = TruncFile(d, m, TRUE)
    BY <1>5 DEF Widened
  <2>2. Cut(d, e, m)
    BY <2>1, TruncFileIs
  <2> QED
    BY <1>2, <1>5, <2>2
<1>6. CASE ~(d.kind \in {"growing", "fixed", "file"} /\ m >= d.size)
  <2>1. e = d
    BY <1>6 DEF Widened
  <2>2. d.size <= d.size /\ ~(d.size > d.size)
    BY <1>1
  <2> QED
    BY <2>1, <2>2, Zenon
<1>7. d.kind \in {"growing", "fixed", "file"} \/ ~(d.kind \in {"growing", "fixed", "file"})
  OBVIOUS
<1> QED
  BY <1>3, <1>4, <1>5, <1>6, <1>7

\* The bytes t in the buffer, before the end of file.
Replaced(d, e, t) ==
  /\ Sound(e) /\ e.kind = d.kind /\ e.size = d.size /\ e.pos = d.pos + Len(t)
  /\ \A i \in 1..d.size : e.buffer[i] =
       IF i \in (d.pos + 1)..(d.pos + Len(t)) THEN t[i - d.pos] ELSE d.buffer[i]

LEMMA PutIs ==
  ASSUME NEW d, Sound(d), NEW t \in Seq(Byte), d.pos + Len(t) <= MaxPos,
         t # <<>> => d.pos + Len(t) <= d.size
  PROVE  Replaced(d, Put(d, t), t)
<1> SUFFICES ASSUME NEW e, e = Put(d, t)
             PROVE  /\ Sound(e) /\ e.kind = d.kind /\ e.size = d.size /\ e.pos = d.pos + Len(t)
                    /\ \A i \in 1..d.size : e.buffer[i] =
                         IF i \in (d.pos + 1)..(d.pos + Len(t)) THEN t[i - d.pos] ELSE d.buffer[i]
  BY Zenon DEF Replaced
<1> DEFINE p == d.pos
           n == Len(d.buffer)
           b == d.buffer
           c == [i \in 1..n |-> IF i - p \in DOMAIN t THEN t[i - p] ELSE b[i]]
<1>1. /\ d \in Device /\ p \in 0..MaxPos /\ n \in Nat /\ b \in Seq(Byte) /\ d.size \in 0..MaxPos
      /\ MaxPos \in Nat /\ d.size <= n /\ Len(t) \in Nat /\ n = Len(b)
  BY SizesAssumption DEF Sound, Device
<1>2. e = [[d EXCEPT !.buffer = c] EXCEPT !.pos = @ + Len(t)]
  BY DEF Put, Skip, Alloced
<1>3. DOMAIN t = 1..Len(t)
  OBVIOUS
<1> HIDE DEF p, n, b
<1>4. ASSUME NEW i \in 1..n
      PROVE  (IF i - p \in DOMAIN t THEN t[i - p] ELSE b[i]) \in Byte
  <2>1. CASE i - p \in DOMAIN t
    BY <2>1, <1>3, ElementOfSeq
  <2>2. CASE ~(i - p \in DOMAIN t)
    <3>1. i \in 1..Len(b)
      BY <1>1
    <3> QED
      BY <2>2, <3>1, <1>1, ElementOfSeq
  <2> QED
    BY <2>1, <2>2
<1>5. c \in [1..n -> Byte]
  BY <1>4
<1>6. c \in Seq(Byte) /\ Len(c) = n
  BY <1>1, <1>5
<1>7. \A i \in 1..n : c[i] = IF i - p \in 1..Len(t) THEN t[i - p] ELSE b[i]
  BY <1>3
<1>8. \A i \in 1..n : i - p \in 1..Len(t) <=> i \in (p + 1)..(p + Len(t))
  BY <1>1
<1> HIDE DEF c
<1>9. p + Len(t) \in 0..MaxPos
  BY <1>1 DEF p
<1>10. e = [d EXCEPT !.buffer = c, !.pos = p + Len(t)]
  BY <1>1, <1>2 DEF p, Device
<1>11. /\ e \in Device /\ e.kind = d.kind /\ e.size = d.size /\ e.pos = p + Len(t)
       /\ e.buffer = c
  <2> DEFINE q == p + Len(t)
  <2>1. q \in 0..MaxPos /\ e = [d EXCEPT !.buffer = c, !.pos = q]
    BY <1>9, <1>10
  <2> HIDE DEF q
  <2>2. /\ e \in Device /\ e.kind = d.kind /\ e.size = d.size /\ e.pos = q
        /\ e.buffer = c
    BY <2>1, <1>1, <1>6 DEF Device
  <2> QED
    BY <2>2 DEF q
<1>12. Sound(e)
  BY <1>1, <1>6, <1>11 DEF Sound
<1>13. \A i \in 1..d.size : i \in 1..n
  BY <1>1
<1>14. ASSUME NEW i \in 1..d.size
       PROVE  e.buffer[i] = IF i \in (p + 1)..(p + Len(t)) THEN t[i - p] ELSE b[i]
  BY <1>7, <1>8, <1>11, <1>13
<1> QED
  BY <1>11, <1>12, <1>14 DEF p, b

\* How much fits between p and z.
Fitting(k, n, z, p) ==
  /\ k \in Nat /\ k <= n
  /\ k # 0 => p + k <= z
  /\ z <= p + n => z <= p + k /\ (k # 0 => z = p + k)

LEMMA FitsIs ==
  ASSUME NEW n \in Nat, NEW z \in Nat, NEW p \in Nat
  PROVE  Fitting(Least(n, Most(0, z - p)), n, z, p)
BY DEF Fitting, Least, Most

\* What is stored is at the position, and nothing else is different.
Holding(d, r, n) ==
  /\ Sound(r.dev) /\ r.dev.pos = d.pos + Len(r.answer)
  /\ r.answer \in Seq(Byte) /\ Len(r.answer) <= n
  /\ Kept(Data(d), Data(r.dev), d.pos, r.answer)

LEMMA StoredIs ==
  ASSUME NEW d, Sound(d), NEW s \in Seq(Byte), d.pos + Len(s) <= MaxPos, NEW got \in BOOLEAN
  PROVE  Holding(d, Stored(d, s, got), Len(s))
<1> SUFFICES ASSUME NEW r, r = Stored(d, s, got)
             PROVE  /\ Sound(r.dev) /\ r.dev.pos = d.pos + Len(r.answer)
                    /\ r.answer \in Seq(Byte) /\ Len(r.answer) <= Len(s)
                    /\ Kept(Data(d), Data(r.dev), d.pos, r.answer)
  BY Zenon DEF Holding
<1> DEFINE p == d.pos
           m == p + Len(s)
           e == Widened(d, m, got)
           k == Fits(e, Len(s))
           t == SubSeq(s, 1, k)
           f == Put(e, t)
<1>1. p \in Nat /\ d.size \in Nat /\ Len(s) \in Nat /\ MaxPos \in Nat
  BY SizesAssumption DEF Sound, Device
<1>2. r.dev = f /\ r.answer = t
  BY DEF Stored
<1>3. m \in 0..MaxPos
  BY <1>1
<1>15. e = Widened(d, m, got)
  OBVIOUS
<1> HIDE DEF p, m, e
<1>4. /\ Sound(e) /\ e.kind = d.kind /\ e.pos = d.pos /\ d.size <= e.size
      /\ e.size > d.size => e.size <= m /\ d.kind # "const map"
      /\ \A i \in 1..d.size : e.buffer[i] = d.buffer[i]
  <2>1. Longer(d, e, m)
    BY <1>3, <1>15, WidenedIs, Zenon
  <2> QED
    BY <2>1, Zenon DEF Longer
<1>5. e.size \in Nat
  BY <1>4, SoundIs, Zenon
<1>6. /\ k \in Nat /\ k <= Len(s)
      /\ k # 0 => p + k <= e.size
      /\ e.size > d.size => e.size <= p + k /\ (k # 0 => e.size = p + k)
  <2>1. p = e.pos
    BY <1>4 DEF p
  <2>2. CASE e.kind = "const map"
    <3>1. k = 0
      BY <2>2 DEF Fits
    <3>2. ~(e.size > d.size)
      BY <1>4, <2>2, Zenon
    <3> QED
      BY <1>1, <3>1, <3>2
  <2>3. CASE e.kind # "const map"
    <3>1. k = Least(Len(s), Most(0, e.size - p))
      BY <2>1, <2>3 DEF Fits
    <3> HIDE DEF k
    <3>2. /\ k \in Nat /\ k <= Len(s)
          /\ k # 0 => p + k <= e.size
          /\ e.size <= p + Len(s) => e.size <= p + k /\ (k # 0 => e.size = p + k)
      <4>1. Fitting(k, Len(s), e.size, p)
        BY <1>1, <1>5, <3>1, FitsIs, Zenon
      <4> QED
        BY <4>1, Zenon DEF Fitting
    <3>3. e.size > d.size => e.size <= p + Len(s)
      BY <1>4, Zenon DEF m
    <3> QED
      BY <3>2, <3>3, Zenon
  <2> QED
    BY <2>2, <2>3, Zenon
<1> HIDE DEF k
<1>7. t \in Seq(Byte) /\ Len(t) = k /\ \A i \in 1..k : t[i] = s[i]
  <2>1. /\ SubSeq(s, 0 + 1, k) \in Seq(Byte)
        /\ Len(SubSeq(s, 0 + 1, k)) = IF 0 < k THEN k - 0 ELSE 0
        /\ \A i \in 1..(k - 0) : SubSeq(s, 0 + 1, k)[i] = s[0 + i]
    BY <1>6, PartOf
  <2>2. 0 + 1 = 1 /\ k - 0 = k /\ \A i \in 1..k : 0 + i = i
    BY <1>6
  <2>3. SubSeq(s, 1, k) \in Seq(Byte) /\ Len(SubSeq(s, 1, k)) = k
    BY <1>6, <2>1, <2>2
  <2>4. \A i \in 1..k : SubSeq(s, 1, k)[i] = s[i]
    BY <2>1, <2>2
  <2> QED
    BY <2>3, <2>4
<1> HIDE DEF t
<1>8. t # <<>> => k # 0
  BY <1>7, EmptySeq
<1>9. /\ Sound(f) /\ f.size = e.size /\ f.pos = e.pos + Len(t)
      /\ \A i \in 1..e.size : f.buffer[i] =
           IF i \in (e.pos + 1)..(e.pos + Len(t)) THEN t[i - e.pos] ELSE e.buffer[i]
  <2>1. e.pos + Len(t) <= MaxPos
    <3>1. e.pos = p /\ Len(t) = k
      BY <1>4, <1>7, Zenon DEF p
    <3>2. k \in Nat /\ k <= Len(s)
      BY <1>6, Zenon
    <3>3. p + Len(s) <= MaxPos
      BY DEF p
    <3>4. p + k <= MaxPos
      BY <1>1, <3>2, <3>3
    <3> QED
      BY <3>1, <3>4, Zenon
  <2>2. t # <<>> => e.pos + Len(t) <= e.size
    BY <1>4, <1>6, <1>7, <1>8 DEF p
  <2>3. f = Put(e, t)
    BY DEF f
  <2> HIDE DEF f
  <2> QED
    <3>1. Replaced(e, f, t)
      BY <1>4, <1>7, <2>1, <2>2, <2>3, PutIs, Zenon
    <3> QED
      BY <3>1, Zenon DEF Replaced
<1> HIDE DEF f
<1> DEFINE x == Data(d)
           y == Data(f)
<1>10. /\ x \in Seq(Byte) /\ Len(x) = d.size
       /\ \A i \in 1..d.size : x[i] = d.buffer[i]
  BY DataIs
<1>11. /\ y \in Seq(Byte) /\ Len(y) = e.size
       /\ \A i \in 1..e.size : y[i] = f.buffer[i]
  BY DataIs, <1>9
<1> HIDE DEF x, y
<1>12. \A i \in 1..e.size : y[i] = IF i \in (p + 1)..(p + k) THEN t[i - p] ELSE e.buffer[i]
  BY <1>4, <1>7, <1>9, <1>11 DEF p
<1>13. Kept(x, y, p, t)
  <2>1. Len(y) >= Len(x)
    BY <1>1, <1>4, <1>5, <1>10, <1>11
  <2>2. Len(y) > Len(x) => Len(y) <= p + Len(t) /\ (t # <<>> => Len(y) = p + Len(t))
    BY <1>6, <1>7, <1>8, <1>10, <1>11
  <2>3. ASSUME t # <<>> PROVE p + Len(t) <= Len(y) /\ SubSeq(y, p + 1, p + Len(t)) = t
    <3>1. k # 0 /\ p + k <= Len(y) /\ p + k \in Nat
      BY <1>1, <1>6, <1>8, <1>11, <2>3
    <3> DEFINE q == SubSeq(y, p + 1, p + k)
    <3>2. /\ q \in Seq(Byte) /\ Len(q) = (IF p < p + k THEN (p + k) - p ELSE 0)
          /\ \A i \in 1..((p + k) - p) : q[i] = y[p + i]
      BY <1>1, <1>11, <3>1, PartOf
    <3> HIDE DEF q
    <3>3. Len(q) = k /\ (p + k) - p = k
      BY <1>1, <1>6, <3>1, <3>2
    <3>4. ASSUME NEW i \in 1..Len(q) PROVE q[i] = t[i]
      <4>1. i \in 1..k /\ p + i \in 1..e.size /\ p + i \in (p + 1)..(p + k) /\ (p + i) - p = i
        BY <1>1, <1>5, <1>6, <1>11, <3>1, <3>3
      <4>2. q[i] = y[p + i]
        BY <3>2, <3>3, <4>1
      <4>3. y[p + i] = t[(p + i) - p]
        BY <1>12, <4>1
      <4> QED
        BY <4>1, <4>2, <4>3
    <3>5. q = t
      BY <1>7, <3>2, <3>3, <3>4, SeqEqual
    <3> QED
      BY <1>7, <3>1, <3>5 DEF q
  <2>4. ASSUME NEW i \in 1..Len(x), i \notin (p + 1)..(p + Len(t)) PROVE y[i] = x[i]
    <3>0. d.size <= e.size
      BY <1>4, Zenon
    <3>1. i \in 1..d.size /\ i \in 1..e.size
      BY <1>1, <1>5, <1>10, <3>0
    <3> QED
      BY <3>1, <2>4, <1>4, <1>7, <1>10, <1>12
  <2> QED
    BY <2>1, <2>2, <2>3, <2>4 DEF Kept
<1>14. Len(t) <= Len(s)
  BY <1>6, <1>7
<1> QED
  BY <1>2, <1>4, <1>7, <1>9, <1>13, <1>14 DEF x, y, p

LEMMA KeptSelf ==
  ASSUME NEW x \in Seq(Byte), NEW p \in Nat
  PROVE  Kept(x, x, p, <<>>)
<1>1. Len(x) \in Nat
  OBVIOUS
<1> QED
  BY <1>1 DEF Kept

\* A write that may stop early.
LEMMA WrittenIs ==
  ASSUME NEW d, Sound(d), NEW s \in Seq(Byte), d.pos + Len(s) <= MaxPos, NEW got \in BOOLEAN,
         NEW r \in Written(d, s, got)
  PROVE  Holding(d, r, Len(s))
<1>1. d.pos \in Nat /\ Len(s) \in Nat /\ MaxPos \in Nat
  BY SizesAssumption DEF Sound, Device
<1>2. ASSUME r = [dev |-> d, answer |-> <<>>]
      PROVE  Holding(d, r, Len(s))
  <2>1. r.dev = d /\ r.answer = <<>>
    BY <1>2
  <2>2. Kept(Data(d), Data(d), d.pos, <<>>)
    BY <1>1, DataIs, KeptSelf
  <2>3. <<>> \in Seq(Byte) /\ Len(<<>>) = 0
    BY EmptySeq
  <2>4. d.pos = d.pos + 0 /\ 0 <= Len(s)
    BY <1>1
  <2> QED
    BY <2>1, <2>2, <2>3, <2>4 DEF Holding
<1>3. CASE s = <<>>
  <2>1. Written(d, s, got) = {[dev |-> d, answer |-> <<>>]}
    BY <1>3 DEF Written
  <2> QED
    BY <1>2, <2>1
<1>4. CASE s # <<>> /\ d.kind = "file"
  <2>1. CASE r = [dev |-> d, answer |-> <<>>]
    BY <1>2, <2>1
  <2>2. CASE \E k \in 1..Len(s) : r = Stored(d, SubSeq(s, 1, k), got)
    <3>1. PICK k \in 1..Len(s) : r = Stored(d, SubSeq(s, 1, k), got)
      BY <2>2
    <3> DEFINE c == SubSeq(s, 1, k)
    <3>2. c \in Seq(Byte) /\ Len(c) = k
      <4>1. k \in Nat /\ k <= Len(s) /\ 0 < k /\ k - 0 = k
        BY <1>1
      <4>2. /\ SubSeq(s, 0 + 1, k) \in Seq(Byte)
            /\ Len(SubSeq(s, 0 + 1, k)) = IF 0 < k THEN k - 0 ELSE 0
        BY <4>1, PartOf
      <4>3. 0 + 1 = 1
        OBVIOUS
      <4> QED
        BY <4>1, <4>2, <4>3
    <3>3. r = Stored(d, c, got)
      BY <3>1
    <3> HIDE DEF c
    <3>4. d.pos + Len(c) <= MaxPos /\ Len(c) <= Len(s)
      BY <1>1, <3>2
    <3>5. Holding(d, r, Len(c))
      BY <3>2, <3>3, <3>4, StoredIs, Zenon
    <3>6. Len(r.answer) <= Len(c) /\ Len(r.answer) \in Nat /\ Len(c) \in Nat
      BY <3>2, <3>5, LenProperties DEF Holding
    <3>7. Len(r.answer) <= Len(s)
      BY <1>1, <3>4, <3>6
    <3> QED
      BY <3>5, <3>7, Zenon DEF Holding
  <2>3. r = [dev |-> d, answer |-> <<>>] \/ \E k \in 1..Len(s) : r = Stored(d, SubSeq(s, 1, k), got)
    BY <1>4 DEF Written
  <2> QED
    BY <2>1, <2>2, <2>3
<1>5. CASE s # <<>> /\ d.kind # "file"
  <2>1. r = Stored(d, s, got)
    BY <1>5 DEF Written
  <2> QED
    BY <2>1, StoredIs
<1> QED
  BY <1>3, <1>4, <1>5

-----------------------------------------------------------------------------
(***************************************************************************)
(* A device at another position, which has the same bytes.                 *)
(***************************************************************************)

Moved(d, e, p) ==
  /\ Sound(e) /\ e.pos = p /\ e.kind = d.kind /\ e.size = d.size /\ Data(e) = Data(d)

LEMMA MovedIs ==
  ASSUME NEW d, Sound(d), NEW p \in 0..MaxPos
  PROVE  Moved(d, [d EXCEPT !.pos = p], p)
<1> DEFINE e == [d EXCEPT !.pos = p]
<1>1. d \in Device /\ d.size <= Len(d.buffer)
  BY SoundIs, Zenon
<1>2. /\ e \in Device /\ e.pos = p /\ e.kind = d.kind /\ e.size = d.size
      /\ e.buffer = d.buffer
  BY <1>1 DEF Device
<1> HIDE DEF e
<1>3. Sound(e) /\ Data(e) = Data(d)
  BY <1>1, <1>2, Zenon DEF Sound, Data
<1> QED
  BY <1>2, <1>3, Zenon DEF Moved, e

LEMMA SkipIs ==
  ASSUME NEW d, Sound(d), NEW k \in Nat, d.pos + k <= MaxPos
  PROVE  Moved(d, Skip(d, k), d.pos + k)
<1> DEFINE p == d.pos + k
<1>1. d \in Device /\ d.pos \in Nat /\ MaxPos \in Nat
  BY SoundIs, SizesAssumption, Zenon
<1>2. p \in 0..MaxPos
  BY <1>1
<1>3. Skip(d, k) = [d EXCEPT !.pos = p]
  BY <1>1 DEF Skip, Device
<1> HIDE DEF p
<1>4. Moved(d, [d EXCEPT !.pos = p], p)
  BY <1>2, MovedIs, Zenon
<1> QED
  BY <1>3, <1>4, Zenon DEF p

\* What a read of d gives and where it leaves d.
ReadWell(d, s, e) ==
  /\ s \in Seq(Byte) /\ Moved(d, e, d.pos + Len(s))
  /\ d.pos + Len(s) \in 0..MaxPos

LEMMA ReadIs ==
  ASSUME NEW d, Sound(d), NEW n \in Nat
  PROVE  ReadWell(d, Bytes(d, n), Skip(d, Len(Bytes(d, n))))
<1> DEFINE s == Bytes(d, n)
<1>1. s \in Seq(Byte) /\ (s # <<>> => d.pos + Len(s) <= d.size)
  BY BytesAre, Zenon
<1>2. d.pos \in 0..MaxPos /\ d.size \in 0..MaxPos /\ MaxPos \in Nat
  BY SoundIs, SizesAssumption, Zenon
<1> HIDE DEF s
<1>3. Len(s) \in Nat
  BY <1>1, LenProperties
<1>4. d.pos + Len(s) \in 0..MaxPos
  <2>1. CASE s = <<>>
    <3>1. Len(s) = 0
      BY <2>1, EmptySeq
    <3> QED
      BY <1>2, <3>1
  <2>2. CASE s # <<>>
    BY <1>1, <1>2, <1>3, <2>2
  <2> QED
    BY <2>1, <2>2, Zenon
<1>5. d.pos + Len(s) <= MaxPos
  BY <1>2, <1>4
<1>6. Moved(d, Skip(d, Len(s)), d.pos + Len(s))
  BY <1>3, <1>5, SkipIs, Zenon
<1> QED
  BY <1>1, <1>4, <1>6, Zenon DEF ReadWell, s

\* The same bytes for the abstract device.
LEMMA BytesMoved ==
  ASSUME NEW d, NEW e, NEW p, Sound(d), Moved(d, e, p), NEW n \in Nat
  PROVE  /\ Bytes(e, n) = SubSeq(Data(d), p + 1, Least(p + n, Len(Data(d))))
         /\ Bytes(e, n) \in Seq(Byte) /\ Len(Bytes(e, n)) <= n
<1>1. Sound(e) /\ e.pos = p /\ Data(e) = Data(d)
  BY Zenon DEF Moved
<1>2. /\ Bytes(e, n) = SubSeq(Data(e), e.pos + 1, Least(e.pos + n, Len(Data(e))))
      /\ Bytes(e, n) \in Seq(Byte) /\ Len(Bytes(e, n)) <= n
  BY <1>1, BytesAre, Zenon
<1> QED
  BY <1>1, <1>2, Zenon

-----------------------------------------------------------------------------
(***************************************************************************)
(* The calls on the device.                                                *)
(***************************************************************************)

\* What every proof of a step needs.
LEMMA TypesAre ==
  ASSUME TypeOK
  PROVE  /\ Sound(dev) /\ sub \in [Sub -> Part] /\ answer \in Seq(Byte)
         /\ Len(answer) <= MaxIo /\ overrun \in BOOLEAN
         /\ MaxPos \in Nat /\ MaxIo \in Nat /\ MaxIo <= MaxPos
<1>1. MaxPos \in Nat /\ MaxIo \in Nat /\ MaxIo <= MaxPos
  BY SizesAssumption
<1>2. answer \in Seq(Byte) /\ Len(answer) <= MaxIo
  BY <1>1, UptoIs DEF TypeOK
<1>3. Sound(dev) /\ sub \in [Sub -> Part] /\ overrun \in BOOLEAN
  BY Zenon DEF TypeOK, Sound, Alloced
<1> QED
  BY <1>1, <1>2, <1>3, Zenon

LEMMA TypesNext ==
  ASSUME Sound(dev'), sub' \in [Sub -> Part], answer' \in Seq(Byte), Len(answer') <= MaxIo,
         overrun' \in BOOLEAN
  PROVE  TypeOK'
<1>1. MaxIo \in Nat
  BY SizesAssumption
<1>2. answer' \in Upto(MaxIo)
  BY <1>1, UptoIs
<1> QED
  BY <1>2, Zenon DEF TypeOK, Sound, Alloced

LEMMA ReadFromStep ==
  ASSUME TypeOK, NEW p \in 0..MaxPos, ReadFrom(p)
  PROVE  TypeOK' /\ Abstract!ReadFrom(p)
<1> DEFINE d == [dev EXCEPT !.pos = p]
<1>1. Moved(dev, d, p)
  BY TypesAre, MovedIs, Zenon
<1>2. PICK n \in 1..MaxIo : answer' = Bytes(d, n)
  BY Zenon DEF ReadFrom
<1>3. dev' = Skip(d, Len(answer')) /\ sub' = sub /\ overrun' = overrun
  BY Zenon DEF ReadFrom
<1> HIDE DEF d
<1>4. n \in Nat /\ n \in 0..MaxPos /\ n <= MaxIo /\ MaxIo \in Nat
  BY TypesAre
<1>5. Sound(d) /\ d.pos = p /\ Data(d) = Data(dev)
  BY <1>1, Zenon DEF Moved
<1>6. ReadWell(d, answer', dev')
  BY <1>2, <1>3, <1>4, <1>5, ReadIs, Zenon
<1>7. Sound(dev') /\ dev'.pos = p + Len(answer') /\ Data(dev)' = Data(dev)
  <2>1. Moved(d, dev', d.pos + Len(answer'))
    BY <1>6, Zenon DEF ReadWell
  <2>2. Sound(dev') /\ dev'.pos = d.pos + Len(answer') /\ Data(dev') = Data(d)
    BY <2>1, Zenon DEF Moved
  <2>3. Data(dev)' = Data(dev')
    BY Zenon DEF Data
  <2> QED
    BY <2>2, <2>3, <1>5, Zenon
<1>8. /\ answer' = SubSeq(Data(dev), p + 1, Least(p + n, Len(Data(dev))))
      /\ answer' \in Seq(Byte) /\ Len(answer') <= n
  BY <1>1, <1>2, <1>4, TypesAre, BytesMoved, Zenon
<1>9. Len(answer') <= MaxIo
  <2>1. Len(answer') \in Nat
    BY <1>8, LenProperties
  <2> QED
    BY <1>4, <1>8, <2>1
<1>10. TypeOK'
  BY <1>3, <1>7, <1>8, <1>9, TypesAre, TypesNext, Zenon
<1>11. Abstract!ReadFrom(p)
  <2>1. answer' = Abstract!From(p, n)
    BY <1>8, Zenon DEF Abstract!From, Abstract!Least, Least, Data
  <2> QED
    BY <1>3, <1>4, <1>7, <2>1, Zenon DEF Abstract!ReadFrom, Data
<1> QED
  BY <1>10, <1>11

\* The states of the device, as the abstract device has them.
LEMMA DataTyped ==
  ASSUME NEW d, Sound(d)
  PROVE  Data(d) \in Abstract!Upto(MaxPos)
<1>1. Data(d) \in Seq(Byte) /\ Len(Data(d)) = d.size
  BY DataIs, Zenon
<1>2. d.size \in 0..MaxPos
  BY SoundIs, Zenon
<1>3. Len(Data(d)) <= MaxPos
  BY <1>1, <1>2
<1> QED
  BY <1>1, <1>3, Zenon DEF Abstract!Upto

\* A write of s at p, after which the device is e: a step of the abstract device.
\* The position of e may be anywhere.
LEMMA WriteHolds ==
  ASSUME NEW d, NEW p \in 0..MaxPos, Sound(dev), Moved(dev, d, p), NEW s \in Seq(Byte),
         p + Len(s) <= MaxPos, NEW got \in BOOLEAN, NEW r \in Written(d, s, got)
  PROVE  /\ Sound(r.dev) /\ r.answer \in Seq(Byte) /\ Len(r.answer) <= Len(s)
         /\ r.dev.pos = p + Len(r.answer)
         /\ Abstract!Holds(Data(r.dev), p, r.answer)
<1>1. Sound(d) /\ d.pos = p /\ Data(d) = Data(dev)
  BY Zenon DEF Moved
<1>2. d.pos + Len(s) <= MaxPos
  BY <1>1, Zenon
<1>3. Holding(d, r, Len(s))
  BY <1>1, <1>2, WrittenIs, Zenon
<1>4. /\ Sound(r.dev) /\ r.answer \in Seq(Byte) /\ Len(r.answer) <= Len(s)
      /\ r.dev.pos = p + Len(r.answer)
      /\ Kept(Data(dev), Data(r.dev), p, r.answer)
  BY <1>1, <1>3, Zenon DEF Holding
<1>5. Abstract!Holds(Data(r.dev), p, r.answer)
  BY <1>4, Zenon DEF Kept, Data, Abstract!Holds
<1> QED
  BY <1>4, <1>5, Zenon

\* The two outcomes of a write.
LEMMA WriteFromIs ==
  ASSUME NEW p, WriteFrom(p)
  PROVE  \E s \in Upto(MaxIo) \ {<<>>}, got \in BOOLEAN :
           /\ InBounds(p, Len(s)) /\ sub' = sub
           /\ \/ /\ \E r \in Written([dev EXCEPT !.pos = p], s, got) :
                      dev' = r.dev /\ answer' = r.answer
                 /\ overrun' = overrun
              \/ overrun' = TRUE /\ dev' = dev /\ answer' = answer
BY Zenon DEF WriteFrom, WriteTo, Itself

LEMMA WriteFromStep ==
  ASSUME TypeOK, NEW p \in 0..MaxPos, WriteFrom(p)
  PROVE  TypeOK' /\ (Abstract!WriteTo(p) \/ UNCHANGED Abstract!vars)
<1> DEFINE d == [dev EXCEPT !.pos = p]
<1>1. PICK s \in Upto(MaxIo) \ {<<>>}, got \in BOOLEAN :
        /\ InBounds(p, Len(s)) /\ sub' = sub
        /\ \/ /\ \E r \in Written(d, s, got) : dev' = r.dev /\ answer' = r.answer
              /\ overrun' = overrun
           \/ overrun' = TRUE /\ dev' = dev /\ answer' = answer
  BY WriteFromIs, Zenon
<1>2. Moved(dev, d, p)
  BY TypesAre, MovedIs, Zenon
<1> HIDE DEF d
<1>3. s \in Seq(Byte) /\ Len(s) <= MaxIo /\ Len(s) \in Nat /\ MaxIo \in Nat /\ MaxPos \in Nat
  <2>1. s \in Seq(Byte) /\ Len(s) <= MaxIo
    BY TypesAre, UptoIs
  <2> QED
    BY <2>1, TypesAre, LenProperties
<1>4. p + Len(s) <= MaxPos
  BY <1>1, Zenon DEF InBounds
<1>5. CASE /\ \E r \in Written(d, s, got) : dev' = r.dev /\ answer' = r.answer
           /\ overrun' = overrun
  <2>1. PICK r \in Written(d, s, got) : dev' = r.dev /\ answer' = r.answer
    BY <1>5, Zenon
  <2>2. /\ Sound(dev') /\ answer' \in Seq(Byte) /\ Len(answer') <= Len(s)
        /\ dev'.pos = p + Len(answer') /\ Abstract!Holds(Data(dev'), p, answer')
    <3>1. /\ Sound(r.dev) /\ r.answer \in Seq(Byte) /\ Len(r.answer) <= Len(s)
          /\ r.dev.pos = p + Len(r.answer)
          /\ Abstract!Holds(Data(r.dev), p, r.answer)
      BY <1>2, <1>3, <1>4, TypesAre, WriteHolds, Zenon
    <3> QED
      BY <2>1, <3>1, Zenon
  <2>3. Len(answer') \in Nat /\ Len(answer') <= MaxIo /\ Len(answer') <= MaxPos
    <3>1. Len(answer') \in Nat
      BY <2>2, LenProperties
    <3>2. MaxIo <= MaxPos
      BY TypesAre, Zenon
    <3> QED
      BY <1>3, <2>2, <3>1, <3>2
  <2>4. TypeOK'
    BY <1>1, <1>5, <2>2, <2>3, TypesAre, TypesNext, Zenon
  <2>5. answer' \in Abstract!Upto(MaxPos)
    BY <2>2, <2>3, Zenon DEF Abstract!Upto
  <2>6. Data(dev') \in Abstract!Upto(MaxPos)
    BY <2>2, DataTyped, Zenon
  <2>7. Abstract!WriteTo(p)
    BY <1>1, <2>2, <2>5, <2>6, Zenon DEF Abstract!WriteTo, Data
  <2> QED
    BY <2>4, <2>7, Zenon
<1>6. CASE overrun' = TRUE /\ dev' = dev /\ answer' = answer
  <2>1. TypeOK'
    BY <1>1, <1>6, TypesAre, TypesNext, Zenon
  <2>2. UNCHANGED Abstract!vars
    BY <1>1, <1>6, Zenon DEF Abstract!vars
  <2> QED
    BY <2>1, <2>2, Zenon
<1> QED
  BY <1>1, <1>5, <1>6, Zenon

LEMMA SeekStep ==
  ASSUME TypeOK, Seek
  PROVE  TypeOK' /\ Abstract!Seek
<1>1. PICK p \in 0..MaxPos : dev' = [dev EXCEPT !.pos = p]
  BY Zenon DEF Seek
<1>2. answer' = <<>> /\ sub' = sub /\ overrun' = overrun
  BY Zenon DEF Seek
<1>3. Moved(dev, dev', p)
  BY <1>1, TypesAre, MovedIs, Zenon
<1>4. Sound(dev') /\ dev'.pos = p /\ Data(dev') = Data(dev)
  BY <1>3, Zenon DEF Moved
<1>5. TypeOK'
  <2>1. answer' \in Seq(Byte) /\ Len(answer') <= MaxIo
    BY <1>2, EmptySeq, TypesAre
  <2> QED
    BY <1>2, <1>4, <2>1, TypesAre, TypesNext, Zenon
<1>6. Abstract!Seek
  BY <1>2, <1>4, Zenon DEF Abstract!Seek, Data
<1> QED
  BY <1>5, <1>6, Zenon

LEMMA TruncateStep ==
  ASSUME TypeOK, Truncate
  PROVE  TypeOK' /\ Abstract!Truncate
<1>1. PICK n \in 0..MaxPos, got \in BOOLEAN : dev' = Trunc(dev, n, got)
  BY Zenon DEF Truncate
<1>2. answer' = <<>> /\ sub' = sub /\ overrun' = overrun
  BY Zenon DEF Truncate
<1>3. Cut(dev, dev', n)
  BY <1>1, TypesAre, TruncIs, Zenon
<1>4. /\ Sound(dev) /\ Sound(dev') /\ dev'.pos = dev.pos
      /\ \A i \in 1..dev.size : i <= dev'.size => dev'.buffer[i] = dev.buffer[i]
  BY <1>3, TypesAre, Zenon DEF Cut
<1>5. TypeOK'
  <2>1. answer' \in Seq(Byte) /\ Len(answer') <= MaxIo
    BY <1>2, EmptySeq, TypesAre
  <2> QED
    BY <1>2, <1>4, <2>1, TypesAre, TypesNext, Zenon
<1> DEFINE x == Data(dev)
           y == Data(dev')
           m == dev.size
           k == dev'.size
<1>6. /\ Len(x) = m /\ \A i \in 1..m : x[i] = dev.buffer[i]
      /\ Len(y) = k /\ \A i \in 1..k : y[i] = dev'.buffer[i]
  BY <1>4, DataIs, Zenon
<1>7. m \in Nat /\ k \in Nat
  BY <1>4, SoundIs, Zenon
<1> HIDE DEF x, y, m, k
<1>8. ASSUME NEW i \in 1..Least(Len(x), Len(y)) PROVE y[i] = x[i]
  <2>1. i \in 1..m /\ i \in 1..k /\ i <= k
    BY <1>6, <1>7 DEF Least
  <2>2. dev'.buffer[i] = dev.buffer[i]
    BY <1>4, <2>1, Zenon DEF m, k
  <2> QED
    BY <1>6, <2>1, <2>2, Zenon
<1>9. Data(dev') \in Abstract!Upto(MaxPos)
  BY <1>4, DataTyped, Zenon
<1>10. Abstract!Truncate
  BY <1>2, <1>4, <1>8, <1>9, Zenon DEF Abstract!Truncate, Abstract!Least, Least, Data, x, y
<1> QED
  BY <1>5, <1>10, Zenon

-----------------------------------------------------------------------------
(***************************************************************************)
(* The calls on a part.                                                    *)
(***************************************************************************)

LEMMA RoomIs ==
  ASSUME NEW w \in Part
  PROVE  Abstract!Room(w) = Room(w) /\ Room(w) \in Nat
<1>1. w.lower \in Nat /\ w.upper \in Nat /\ w.pos \in Nat
  BY SizesAssumption DEF Part
<1> QED
  BY <1>1 DEF Room, Outside, Abstract!Room

LEMMA PartIs ==
  ASSUME NEW w \in Part, NEW p \in 0..MaxPos
  PROVE  [w EXCEPT !.pos = p] \in Part
BY DEF Part

\* The part behind what was transferred.
LEMMA AdvancesIs ==
  ASSUME NEW s \in Sub, NEW w \in Part, sub \in [Sub -> Part], PartAdvances(s, w),
         w.pos + Len(answer') \in 0..MaxPos
  PROVE  sub' \in [Sub -> Part]
<1>1. [w EXCEPT !.pos = w.pos + Len(answer')] \in Part
  BY PartIs, Zenon
<1>2. sub' = [sub EXCEPT ![s] = [w EXCEPT !.pos = w.pos + Len(answer')]]
  BY Zenon DEF PartAdvances
<1> DEFINE v == [w EXCEPT !.pos = w.pos + Len(answer')]
<1>3. v \in Part /\ sub' = [sub EXCEPT ![s] = v]
  BY <1>1, <1>2
<1> HIDE DEF v
<1> QED
  BY <1>3

LEMMA ReadInStep ==
  ASSUME TypeOK, NEW s \in Sub, NEW w \in Part, NEW p \in 0..MaxPos, ReadIn(s, w, p)
  PROVE  TypeOK' /\ dev'.pos = p /\ Abstract!ReadIn(s, w)
<1> DEFINE d == [dev EXCEPT !.pos = w.pos]
           e == Skip(d, Len(answer'))
<1>1. PICK m \in 1..MaxIo : answer' = Bytes(d, Least(m, Room(w)))
  BY Zenon DEF ReadIn, MoveTo
<1>2. /\ dev' = [e EXCEPT !.pos = p] /\ PartAdvances(s, w) /\ overrun' = overrun
  BY Zenon DEF ReadIn, MoveTo, MoveBack
<1>3. w.pos \in 0..MaxPos
  BY DEF Part
<1>4. Moved(dev, d, w.pos)
  BY <1>3, TypesAre, MovedIs, Zenon
<1> HIDE DEF d
<1> DEFINE n == Least(m, Room(w))
<1>5. n \in Nat /\ n \in 0..Room(w) /\ n <= MaxIo /\ MaxIo \in Nat
  BY TypesAre, RoomIs DEF Least
<1>6. answer' = Bytes(d, n)
  BY <1>1
<1> HIDE DEF n
<1>7. Sound(d) /\ d.pos = w.pos /\ Data(d) = Data(dev)
  BY <1>4, Zenon DEF Moved
<1>8. ReadWell(d, answer', e)
  BY <1>5, <1>6, <1>7, ReadIs, Zenon
<1>9. Moved(d, e, w.pos + Len(answer')) /\ w.pos + Len(answer') \in 0..MaxPos
  BY <1>7, <1>8, Zenon DEF ReadWell
<1> HIDE DEF e
<1>10. Moved(e, dev', p)
  BY <1>2, <1>9, MovedIs, Zenon DEF Moved
<1>11. Sound(dev') /\ dev'.pos = p /\ Data(dev') = Data(dev)
  BY <1>7, <1>9, <1>10, Zenon DEF Moved
<1>12. /\ answer' = SubSeq(Data(dev), w.pos + 1, Least(w.pos + n, Len(Data(dev))))
       /\ answer' \in Seq(Byte) /\ Len(answer') <= n
  BY <1>4, <1>5, <1>6, TypesAre, BytesMoved, Zenon
<1>13. Len(answer') <= MaxIo
  <2>1. Len(answer') \in Nat
    BY <1>12, LenProperties
  <2> QED
    BY <1>5, <1>12, <2>1
<1>14. sub' \in [Sub -> Part]
  BY <1>2, <1>9, TypesAre, AdvancesIs, Zenon
<1>15. TypeOK'
  BY <1>2, <1>11, <1>12, <1>13, <1>14, TypesAre, TypesNext, Zenon
<1>16. Abstract!ReadIn(s, w)
  <2>1. answer' = Abstract!From(w.pos, n)
    BY <1>12, Zenon DEF Abstract!From, Abstract!Least, Least, Data
  <2>2. n \in 0..Abstract!Room(w)
    BY <1>5, RoomIs, Zenon
  <2> QED
    BY <1>2, <1>11, <2>1, <2>2, Zenon DEF Abstract!ReadIn, PartAdvances, Data
<1> QED
  BY <1>11, <1>15, <1>16, Zenon

\* The outcomes of a write to a part: nothing fits the window, or c is written.
LEMMA WriteInIs ==
  ASSUME NEW s, NEW w, NEW p, WriteIn(s, w, p)
  PROVE  \E b \in Upto(MaxIo) \ {<<>>} : \E c \in {SubSeq(b, 1, Least(Len(b), Room(w)))} :
           /\ InBounds(w.pos, Len(c))
           /\ \/ c = <<>> /\ dev' = MoveBack(dev, p) /\ answer' = c /\ overrun' = overrun
              \/ \E got \in BOOLEAN : \E r \in Written(MoveTo(w), c, got) :
                   dev' = MoveBack(r.dev, p) /\ answer' = r.answer /\ overrun' = overrun
              \/ overrun' = TRUE /\ dev' = dev /\ answer' = answer
           /\ IF overrun' THEN sub' = sub ELSE PartAdvances(s, w)
BY Zenon DEF WriteIn, WriteTo

LEMMA WriteInStep ==
  ASSUME TypeOK, ~overrun, NEW s \in Sub, NEW w \in Part, NEW p \in 0..MaxPos,
         WriteIn(s, w, p)
  PROVE  /\ TypeOK'
         /\ (dev'.pos = p /\ Abstract!WriteIn(s, w)) \/ UNCHANGED Abstract!vars
<1> DEFINE d == [dev EXCEPT !.pos = w.pos]
<1>1. PICK b \in Upto(MaxIo) \ {<<>>} : \E c \in {SubSeq(b, 1, Least(Len(b), Room(w)))} :
           /\ InBounds(w.pos, Len(c))
           /\ \/ c = <<>> /\ dev' = MoveBack(dev, p) /\ answer' = c /\ overrun' = overrun
              \/ \E got \in BOOLEAN : \E r \in Written(MoveTo(w), c, got) :
                   dev' = MoveBack(r.dev, p) /\ answer' = r.answer /\ overrun' = overrun
              \/ overrun' = TRUE /\ dev' = dev /\ answer' = answer
           /\ IF overrun' THEN sub' = sub ELSE PartAdvances(s, w)
  BY WriteInIs, Zenon
<1>2. PICK c \in {SubSeq(b, 1, Least(Len(b), Room(w)))} :
           /\ InBounds(w.pos, Len(c))
           /\ \/ c = <<>> /\ dev' = MoveBack(dev, p) /\ answer' = c /\ overrun' = overrun
              \/ \E got \in BOOLEAN : \E r \in Written(d, c, got) :
                   dev' = MoveBack(r.dev, p) /\ answer' = r.answer /\ overrun' = overrun
              \/ overrun' = TRUE /\ dev' = dev /\ answer' = answer
           /\ IF overrun' THEN sub' = sub ELSE PartAdvances(s, w)
  BY <1>1, Zenon DEF MoveTo
<1>3. w.pos \in 0..MaxPos /\ w.pos \in Nat
  BY SizesAssumption DEF Part
<1>4. Moved(dev, d, w.pos)
  BY <1>3, TypesAre, MovedIs, Zenon
<1> HIDE DEF d
<1>5. Room(w) \in Nat /\ Abstract!Room(w) = Room(w)
  BY RoomIs, Zenon
<1>6. b \in Seq(Byte) /\ Len(b) \in Nat /\ Len(b) <= MaxIo
  <2>1. b \in Seq(Byte) /\ Len(b) <= MaxIo
    BY TypesAre, UptoIs
  <2> QED
    BY <2>1, LenProperties
<1>7. /\ c \in Seq(Byte) /\ Len(c) \in Nat /\ Len(c) <= Room(w) /\ Len(c) <= MaxIo
      /\ MaxIo \in Nat /\ MaxPos \in Nat /\ MaxIo <= MaxPos
  <2> DEFINE k == Least(Len(b), Room(w))
  <2>1. k \in Nat /\ k <= Len(b) /\ k <= Room(w)
    BY <1>5, <1>6 DEF Least
  <2>2. c = SubSeq(b, 1, k)
    BY <1>2, Zenon
  <2> HIDE DEF k
  <2>3. /\ SubSeq(b, 0 + 1, k) \in Seq(Byte)
        /\ Len(SubSeq(b, 0 + 1, k)) = IF 0 < k THEN k - 0 ELSE 0
    BY <1>6, <2>1, PartOf
  <2>4. 0 + 1 = 1
    OBVIOUS
  <2>5. c \in Seq(Byte) /\ Len(c) = k
    BY <2>1, <2>2, <2>3, <2>4
  <2> QED
    BY <1>5, <1>6, <2>1, <2>5, TypesAre
<1>8. w.pos + Len(c) <= MaxPos
  BY <1>2, Zenon DEF InBounds
<1>9. ASSUME NEW e, Sound(e), dev' = MoveBack(e, p), answer' \in Seq(Byte),
             Len(answer') <= Len(c), overrun' = overrun,
             Abstract!Holds(Data(e), w.pos, answer')
      PROVE  TypeOK' /\ dev'.pos = p /\ Abstract!WriteIn(s, w)
  <2>1. Moved(e, dev', p)
    BY <1>9, MovedIs, Zenon DEF MoveBack
  <2>2. Sound(dev') /\ dev'.pos = p /\ Data(dev') = Data(e)
    BY <2>1, Zenon DEF Moved
  <2>3. /\ Len(answer') \in Nat /\ Len(answer') <= MaxIo /\ Len(answer') <= Room(w)
        /\ w.pos + Len(answer') \in 0..MaxPos
    <3>1. Len(answer') \in Nat
      BY <1>9, LenProperties
    <3> QED
      BY <1>3, <1>5, <1>7, <1>8, <1>9, <3>1
  <2>4. PartAdvances(s, w)
    BY <1>2, <1>9, Zenon
  <2>5. sub' \in [Sub -> Part]
    BY <2>3, <2>4, TypesAre, AdvancesIs, Zenon
  <2>6. TypeOK'
    BY <1>9, <2>2, <2>3, <2>5, TypesAre, TypesNext, Zenon
  <2>7. answer' \in Abstract!Upto(Abstract!Room(w))
    BY <1>5, <1>9, <2>3, Zenon DEF Abstract!Upto
  <2>8. Data(dev') \in Abstract!Upto(MaxPos)
    BY <2>2, DataTyped, Zenon
  <2>9. Abstract!WriteIn(s, w)
    BY <1>9, <2>2, <2>4, <2>7, <2>8, Zenon DEF Abstract!WriteIn, PartAdvances, Data
  <2> QED
    BY <2>2, <2>6, <2>9, Zenon
<1>10. CASE c = <<>> /\ dev' = MoveBack(dev, p) /\ answer' = c /\ overrun' = overrun
  <2>1. Sound(dev) /\ Data(dev) \in Seq(Byte)
    BY TypesAre, DataIs, Zenon
  <2>2. Kept(Data(dev), Data(dev), w.pos, <<>>)
    BY <1>3, <2>1, KeptSelf, Zenon
  <2>3. Abstract!Holds(Data(dev), w.pos, answer')
    <3>1. Abstract!Holds(Data(dev), w.pos, <<>>)
      BY <2>2, Zenon DEF Kept, Data, Abstract!Holds
    <3> QED
      BY <1>10, <3>1, Zenon
  <2>4. answer' \in Seq(Byte) /\ Len(answer') <= Len(c)
    BY <1>7, <1>10
  <2> QED
    BY <1>9, <1>10, <2>1, <2>3, <2>4, Zenon
<1>11. CASE \E got \in BOOLEAN : \E r \in Written(d, c, got) :
              dev' = MoveBack(r.dev, p) /\ answer' = r.answer /\ overrun' = overrun
  <2>0. PICK got \in BOOLEAN : \E r \in Written(d, c, got) :
              dev' = MoveBack(r.dev, p) /\ answer' = r.answer /\ overrun' = overrun
    BY <1>11, Zenon
  <2>1. PICK r \in Written(d, c, got) :
              dev' = MoveBack(r.dev, p) /\ answer' = r.answer /\ overrun' = overrun
    BY <2>0, Zenon
  <2>2. /\ Sound(r.dev) /\ r.answer \in Seq(Byte) /\ Len(r.answer) <= Len(c)
        /\ Abstract!Holds(Data(r.dev), w.pos, r.answer)
    BY <1>3, <1>4, <1>7, <1>8, TypesAre, WriteHolds, Zenon
  <2>3. /\ answer' \in Seq(Byte) /\ Len(answer') <= Len(c)
        /\ Abstract!Holds(Data(r.dev), w.pos, answer')
    BY <2>1, <2>2, Zenon
  <2> QED
    BY <1>9, <2>1, <2>2, <2>3, Zenon
<1>12. CASE overrun' = TRUE /\ dev' = dev /\ answer' = answer
  <2>0. sub' = sub
    BY <1>2, <1>12, Zenon
  <2>1. TypeOK'
    BY <1>12, <2>0, TypesAre, TypesNext, Zenon
  <2>2. UNCHANGED Abstract!vars
    BY <1>12, <2>0, Zenon DEF Abstract!vars
  <2> QED
    BY <2>1, <2>2, Zenon
<1> QED
  BY <1>2, <1>10, <1>11, <1>12, Zenon

\* A part without upper bound has no bytes.
LEMMA UnlimitedStep ==
  ASSUME TypeOK, ~overrun, NEW s \in Sub, PartRead(s) \/ PartWrite(s),
         ~Abstract!Limited(sub[s])
  PROVE  TypeOK' /\ Abstract!UnlimitedIsEmpty(s)
<1> DEFINE w == sub[s]
           d == [dev EXCEPT !.pos = w.pos]
<1>1. w \in Part /\ dev.pos \in 0..MaxPos
  BY TypesAre, SoundIs, Zenon
<1>2. /\ Room(w) = 0 /\ w.pos \in 0..MaxPos /\ w.pos \in Nat
      /\ [w EXCEPT !.pos = w.pos + 0] = w
  <2>1. w.upper = 0 /\ w.pos \in 0..MaxPos /\ w.pos \in Nat
    BY <1>1, SizesAssumption DEF Part, Abstract!Limited
  <2>2. Room(w) = 0
    BY <2>1 DEF Room, Outside
  <2>3. [w EXCEPT !.pos = w.pos + 0] = w
    BY <1>1, <2>1 DEF Part
  <2> QED
    BY <2>1, <2>2, <2>3, Zenon
<1>3. \A n \in Nat : Least(n, Room(w)) = 0
  BY <1>2 DEF Least
<1>4. Moved(dev, d, w.pos)
  BY <1>2, TypesAre, MovedIs, Zenon
<1>5. /\ answer' = <<>> /\ sub' = sub /\ overrun' = overrun
      /\ Moved(dev, dev', dev.pos)
  <2>1. CASE PartRead(s)
    <3>1. ReadIn(s, w, dev.pos)
      BY <2>1, Zenon DEF PartRead
    <3>2. PICK m \in 1..MaxIo : answer' = Bytes(d, Least(m, Room(w)))
      BY <3>1, Zenon DEF ReadIn, MoveTo
    <3>3. m \in Nat
      BY TypesAre
    <3>4. answer' = Bytes(d, 0)
      BY <1>3, <3>2, <3>3
    <3>5. Sound(d) /\ d.pos = w.pos
      BY <1>4, Zenon DEF Moved
    <3> DEFINE e == Skip(d, Len(answer'))
    <3> HIDE DEF d
    <3>6. ReadWell(d, answer', e)
      BY <3>4, <3>5, ReadIs, Zenon
    <3>7. answer' = <<>>
      BY <3>4, <3>5, SoundIs DEF Bytes, Least
    <3>8. Len(answer') = 0
      BY <3>7
    <3>9. Moved(d, e, w.pos + Len(answer'))
      BY <3>5, <3>6, Zenon DEF ReadWell
    <3>10. dev' = [e EXCEPT !.pos = dev.pos] /\ PartAdvances(s, w) /\ overrun' = overrun
      BY <3>1, Zenon DEF ReadIn, MoveTo, MoveBack, d
    <3> HIDE DEF e
    <3>11. Moved(dev, dev', dev.pos)
      BY <1>1, <1>4, <3>9, <3>10, MovedIs, Zenon DEF Moved
    <3>12. sub' = [sub EXCEPT ![s] = [w EXCEPT !.pos = w.pos + 0]]
      BY <3>8, <3>10, Zenon DEF PartAdvances
    <3>13. sub' = sub
      BY <1>2, <3>12, TypesAre
    <3> QED
      BY <3>7, <3>10, <3>11, <3>13, Zenon
  <2>2. CASE PartWrite(s)
    <3>1. WriteIn(s, w, dev.pos)
      BY <2>2, Zenon DEF PartWrite
    <3>2. PICK b \in Upto(MaxIo) \ {<<>>} :
            LET c == SubSeq(b, 1, Least(Len(b), Room(w))) IN
            /\ c = <<>> => dev' = MoveBack(dev, dev.pos) /\ answer' = c /\ overrun' = overrun
            /\ IF overrun' THEN UNCHANGED sub ELSE PartAdvances(s, w)
      BY <3>1, Zenon DEF WriteIn
    <3>3. b \in Seq(Byte) /\ Len(b) \in Nat
      <4>1. b \in Seq(Byte)
        BY TypesAre, UptoIs
      <4> QED
        BY <4>1, LenProperties
    <3>4. Least(Len(b), Room(w)) = 0
      BY <1>3, <3>3, Zenon
    <3> DEFINE c == SubSeq(b, 1, Least(Len(b), Room(w)))
    <3>5. c = <<>>
      <4>1. SubSeq(b, 1, 0) = <<>>
        BY <3>3
      <4> QED
        BY <3>4, <4>1
    <3>11. /\ c = <<>> => dev' = MoveBack(dev, dev.pos) /\ answer' = c /\ overrun' = overrun
           /\ IF overrun' THEN UNCHANGED sub ELSE PartAdvances(s, w)
      BY <3>2, Zenon
    <3> HIDE DEF c
    <3>6. /\ dev' = MoveBack(dev, dev.pos) /\ answer' = <<>> /\ overrun' = overrun
          /\ PartAdvances(s, w)
      BY <3>5, <3>11
    <3>7. Moved(dev, dev', dev.pos)
      BY <1>1, <3>6, TypesAre, MovedIs, Zenon DEF MoveBack
    <3>8. Len(answer') = 0
      BY <3>6
    <3>9. sub' = [sub EXCEPT ![s] = [w EXCEPT !.pos = w.pos + 0]]
      BY <3>6, <3>8, Zenon DEF PartAdvances
    <3>10. sub' = sub
      BY <1>2, <3>9, TypesAre
    <3> QED
      BY <3>6, <3>7, <3>10, Zenon
  <2> QED
    BY <2>1, <2>2, Zenon
<1>6. Sound(dev') /\ dev'.pos = dev.pos /\ Data(dev') = Data(dev)
  BY <1>5, Zenon DEF Moved
<1>7. TypeOK'
  <2>1. answer' \in Seq(Byte) /\ Len(answer') <= MaxIo
    BY <1>5, EmptySeq, TypesAre
  <2>2. sub' \in [Sub -> Part]
    BY <1>5, TypesAre, Zenon
  <2> QED
    BY <1>5, <1>6, <2>1, <2>2, TypesAre, TypesNext, Zenon
<1>8. Abstract!UnlimitedIsEmpty(s)
  BY <1>5, <1>6, Zenon DEF Abstract!UnlimitedIsEmpty, Data
<1> QED
  BY <1>7, <1>8, Zenon

LEMMA PartReadStep ==
  ASSUME TypeOK, ~overrun, NEW s \in Sub, PartRead(s)
  PROVE  TypeOK' /\ (Abstract!PartRead(s) \/ Abstract!UnlimitedIsEmpty(s))
<1>1. sub[s] \in Part /\ dev.pos \in 0..MaxPos
  BY TypesAre, SoundIs, Zenon
<1>2. ReadIn(s, sub[s], dev.pos)
  BY Zenon DEF PartRead
<1>3. TypeOK' /\ dev'.pos = dev.pos /\ Abstract!ReadIn(s, sub[s])
  BY <1>1, <1>2, ReadInStep, Zenon
<1> QED
  BY <1>3, UnlimitedStep, Zenon DEF Abstract!PartRead

LEMMA PartWriteStep ==
  ASSUME TypeOK, ~overrun, NEW s \in Sub, PartWrite(s)
  PROVE  /\ TypeOK'
         /\ \/ Abstract!PartWrite(s) \/ Abstract!UnlimitedIsEmpty(s)
            \/ UNCHANGED Abstract!vars
<1>1. sub[s] \in Part /\ dev.pos \in 0..MaxPos
  BY TypesAre, SoundIs, Zenon
<1>2. WriteIn(s, sub[s], dev.pos)
  BY Zenon DEF PartWrite
<1>3. /\ TypeOK'
      /\ (dev'.pos = dev.pos /\ Abstract!WriteIn(s, sub[s])) \/ UNCHANGED Abstract!vars
  BY <1>1, <1>2, WriteInStep, Zenon
<1> QED
  BY <1>3, UnlimitedStep, Zenon DEF Abstract!PartWrite

LEMMA PartSeekStep ==
  ASSUME TypeOK, NEW s \in Sub, PartSeek(s)
  PROVE  TypeOK' /\ Abstract!SeekMovesDevice(s)
<1>1. PICK p \in 0..MaxPos : sub' = [sub EXCEPT ![s].pos = p] /\ dev' = MoveTo(sub'[s])
  BY Zenon DEF PartSeek
<1>2. answer' = <<>> /\ overrun' = overrun
  BY Zenon DEF PartSeek
<1>3. sub \in [Sub -> Part]
  BY TypesAre, Zenon
<1>4. sub' \in [Sub -> Part] /\ sub'[s].pos = p
  <2> DEFINE v == [sub[s] EXCEPT !.pos = p]
  <2>1. v \in Part /\ v.pos = p
    BY <1>3 DEF Part
  <2>2. sub' = [sub EXCEPT ![s] = v]
    BY <1>1
  <2> HIDE DEF v
  <2> QED
    BY <1>3, <2>1, <2>2
<1>5. dev' = [dev EXCEPT !.pos = p]
  BY <1>1, <1>4, Zenon DEF MoveTo
<1>6. Moved(dev, dev', p)
  BY <1>5, TypesAre, MovedIs, Zenon
<1>7. Sound(dev') /\ dev'.pos = p /\ Data(dev') = Data(dev)
  BY <1>6, Zenon DEF Moved
<1>8. TypeOK'
  <2>1. answer' \in Seq(Byte) /\ Len(answer') <= MaxIo
    BY <1>2, EmptySeq, TypesAre
  <2> QED
    BY <1>2, <1>4, <1>7, <2>1, TypesAre, TypesNext, Zenon
<1>9. Abstract!SeekMovesDevice(s)
  BY <1>1, <1>2, <1>4, <1>7, Zenon DEF Abstract!SeekMovesDevice, Abstract!SeekTo, Data
<1> QED
  BY <1>8, <1>9, Zenon

\* The position of a record of a window is in it.
LEMMA RecordIs ==
  ASSUME NEW w \in Part, NEW i \in 0..MaxPos, w.lower + (i + 1) * RecordSize <= w.upper
  PROVE  w.lower + i * RecordSize \in w.lower..MaxPos /\ w.upper # 0
<1>1. /\ RecordSize \in Nat /\ MaxPos \in Nat /\ w.lower \in Nat /\ w.upper \in Nat
      /\ w.upper <= MaxPos /\ i \in Nat
  BY SizesAssumption DEF Part
<1>2. \A j \in Nat : j * RecordSize \in Nat
  BY <1>1
<1>3. (i + 1) * RecordSize = i * RecordSize + RecordSize
  BY <1>1
<1> DEFINE m == i * RecordSize
<1>4. m \in Nat
  BY <1>1, <1>2
<1>5. w.lower + (m + RecordSize) <= w.upper
  BY <1>3
<1> HIDE DEF m
<1>6. w.lower + m \in w.lower..MaxPos /\ w.upper # 0
  <2>1. RecordSize > 0
    BY SizesAssumption
  <2> QED
    BY <1>1, <1>4, <1>5, <2>1
<1> QED
  BY <1>6 DEF m

LEMMA RecordStep ==
  ASSUME TypeOK, ~overrun, NEW s \in Sub, Record(s)
  PROVE  TypeOK' /\ (Abstract!RecordMovesDevice(s) \/ UNCHANGED Abstract!vars)
<1>1. PICK i \in Records(s) :
        \/ ReadIn(s, RecordAt(s, i), RecordAt(s, i).pos)
        \/ WriteIn(s, RecordAt(s, i), RecordAt(s, i).pos)
  BY Zenon DEF Record
<1>2. sub[s] \in Part /\ sub[s].lower \in Nat /\ MaxPos \in Nat
  <2>1. sub[s] \in Part
    BY TypesAre, Zenon
  <2> QED
    BY <2>1, SizesAssumption DEF Part
<1> DEFINE p == sub[s].lower + i * RecordSize
           w == [sub[s] EXCEPT !.pos = p]
<1>3. i \in 0..MaxPos /\ sub[s].lower + (i + 1) * RecordSize <= sub[s].upper
  BY DEF Records
<1>4. p \in sub[s].lower..MaxPos /\ sub[s].upper # 0
  BY <1>2, <1>3, RecordIs, Zenon
<1>5. RecordAt(s, i) = w
  BY Zenon DEF RecordAt
<1> HIDE DEF p
<1>6. p \in 0..MaxPos
  BY <1>2, <1>4
<1>7. w \in Part /\ w.pos = p /\ Abstract!Limited(w)
  BY <1>2, <1>4, <1>6 DEF Part, Abstract!Limited
<1> HIDE DEF w
<1>8. CASE ReadIn(s, w, p)
  <2>1. TypeOK' /\ dev'.pos = p /\ Abstract!ReadIn(s, w)
    BY <1>6, <1>7, <1>8, ReadInStep, Zenon
  <2>2. Abstract!RecordMovesDevice(s)
    BY <1>4, <1>7, <2>1, Zenon DEF Abstract!RecordMovesDevice, Abstract!RecordAt, w
  <2> QED
    BY <2>1, <2>2, Zenon
<1>9. CASE WriteIn(s, w, p)
  <2>1. TypeOK' /\ ((dev'.pos = p /\ Abstract!WriteIn(s, w)) \/ UNCHANGED Abstract!vars)
    BY <1>6, <1>7, <1>9, WriteInStep, Zenon
  <2>2. CASE dev'.pos = p /\ Abstract!WriteIn(s, w)
    <3>1. Abstract!RecordMovesDevice(s)
      BY <1>4, <1>7, <2>2, Zenon DEF Abstract!RecordMovesDevice, Abstract!RecordAt, w
    <3> QED
      BY <2>1, <3>1, Zenon
  <2> QED
    BY <2>1, <2>2, Zenon
<1> QED
  BY <1>1, <1>5, <1>7, <1>8, <1>9, Zenon

LEMMA ReboundStep ==
  ASSUME TypeOK, NEW s \in Sub, Rebound(s)
  PROVE  TypeOK' /\ Abstract!Rebound(s)
<1>1. PICK v \in Windows :
        sub' = [sub EXCEPT ![s] = [lower |-> v[1], upper |-> v[2], pos |-> v[1]]]
  BY Zenon DEF Rebound
<1>2. answer' = <<>> /\ dev' = dev /\ overrun' = overrun
  BY Zenon DEF Rebound
<1>3. v[1] \in 0..MaxPos /\ v[2] \in 0..MaxPos
  BY WindowsAssumption
<1>4. sub' \in [Sub -> Part]
  <2> DEFINE w == [lower |-> v[1], upper |-> v[2], pos |-> v[1]]
  <2>1. w \in Part
    BY <1>3 DEF Part
  <2>2. sub' = [sub EXCEPT ![s] = w]
    BY <1>1
  <2>3. sub \in [Sub -> Part]
    BY TypesAre, Zenon
  <2> HIDE DEF w
  <2> QED
    BY <2>1, <2>2, <2>3
<1>5. TypeOK'
  <2>1. answer' \in Seq(Byte) /\ Len(answer') <= MaxIo
    BY <1>2, EmptySeq, TypesAre
  <2> QED
    BY <1>2, <1>4, <2>1, TypesAre, TypesNext, Zenon
<1>6. Abstract!Rebound(s)
  BY <1>1, <1>2, <1>3, Zenon DEF Abstract!Rebound
<1> QED
  BY <1>5, <1>6, Zenon

-----------------------------------------------------------------------------
(***************************************************************************)
(* The device implements the sequence of bytes with windows.               *)
(***************************************************************************)

LEMMA InitStep ==
  ASSUME Init
  PROVE  TypeOK /\ Abstract!Init
<1>1. PICK k \in Kind, b \in Upto(MaxIo) :
        dev = [kind |-> k, buffer |-> b, size |-> Len(b), pos |-> 0]
  BY Zenon DEF Init
<1>2. /\ sub = [s \in Sub |-> [lower |-> 0, upper |-> 0, pos |-> 0]]
      /\ answer = <<>> /\ overrun = FALSE
  BY Zenon DEF Init
<1>3. MaxPos \in Nat /\ MaxIo \in Nat /\ MaxIo <= MaxPos
  BY SizesAssumption
<1>4. b \in Seq(Byte) /\ Len(b) \in Nat /\ Len(b) <= MaxIo
  <2>1. b \in Seq(Byte) /\ Len(b) <= MaxIo
    BY <1>3, UptoIs
  <2> QED
    BY <2>1, LenProperties
<1>5. Sound(dev) /\ dev.pos = 0
  <2>1. Len(b) \in 0..MaxPos /\ 0 \in 0..MaxPos /\ Len(b) <= Len(b)
    BY <1>3, <1>4
  <2> QED
    BY <1>1, <1>4, <2>1 DEF Sound, Device
<1>6. sub \in [Sub -> Part]
  BY <1>2, <1>3 DEF Part
<1>7. TypeOK
  <2>1. answer \in Upto(MaxIo)
    <3>1. <<>> \in Seq(Byte) /\ Len(<<>>) = 0
      BY EmptySeq
    <3>2. <<>> \in {s \in Seq(Byte) : Len(s) <= MaxIo}
      BY <1>3, <3>1
    <3> QED
      BY <1>2, <1>3, <3>2, UptoIs, Zenon
  <2> QED
    BY <1>2, <1>5, <1>6, <2>1, Zenon DEF TypeOK, Sound, Alloced
<1>8. Abstract!Init
  <2>1. Data(dev) \in Abstract!Upto(MaxPos)
    BY <1>5, DataTyped, Zenon
  <2> QED
    BY <1>2, <1>5, <2>1, Zenon DEF Abstract!Init, Data
<1> QED
  BY <1>7, <1>8, Zenon

LEMMA NextStep ==
  ASSUME TypeOK, [Next]_vars
  PROVE  TypeOK' /\ [Abstract!Next]_Abstract!vars
<1>0. dev.pos \in 0..MaxPos
  BY TypesAre, SoundIs, Zenon
<1>1. CASE Read
  <2>1. TypeOK' /\ Abstract!ReadFrom(dev.pos)
    BY <1>0, <1>1, ReadFromStep, Zenon DEF Read
  <2> QED
    BY <2>1, Zenon DEF Abstract!Next, Abstract!Promised, Abstract!Read
<1>2. CASE Write
  <2>1. TypeOK' /\ (Abstract!WriteTo(dev.pos) \/ UNCHANGED Abstract!vars)
    BY <1>0, <1>2, WriteFromStep, Zenon DEF Write
  <2> QED
    BY <2>1, Zenon DEF Abstract!Next, Abstract!Promised, Abstract!Write
<1>3. CASE ReadAt
  <2>1. PICK p \in 0..MaxPos : ReadFrom(p)
    BY <1>3, Zenon DEF ReadAt
  <2>2. TypeOK' /\ Abstract!ReadFrom(p)
    BY <2>1, ReadFromStep, Zenon
  <2> QED
    BY <2>2, Zenon DEF Abstract!Next, Abstract!Promised, Abstract!ReadAt
<1>4. CASE WriteAt
  <2>1. PICK p \in 0..MaxPos : WriteFrom(p)
    BY <1>4, Zenon DEF WriteAt
  <2>2. TypeOK' /\ (Abstract!WriteTo(p) \/ UNCHANGED Abstract!vars)
    BY <2>1, WriteFromStep, Zenon
  <2> QED
    BY <2>2, Zenon DEF Abstract!Next, Abstract!Promised, Abstract!WriteAt
<1>5. CASE Seek
  BY <1>5, SeekStep, Zenon DEF Abstract!Next, Abstract!Promised
<1>6. CASE Truncate
  BY <1>6, TruncateStep, Zenon DEF Abstract!Next, Abstract!Promised
<1>7. ASSUME ~overrun, NEW s \in Sub, PartRead(s)
      PROVE  TypeOK' /\ [Abstract!Next]_Abstract!vars
  BY <1>7, PartReadStep, Zenon
     DEF Abstract!Next, Abstract!Promised, Abstract!NotPromised
<1>8. ASSUME ~overrun, NEW s \in Sub, PartWrite(s)
      PROVE  TypeOK' /\ [Abstract!Next]_Abstract!vars
  BY <1>8, PartWriteStep, Zenon
     DEF Abstract!Next, Abstract!Promised, Abstract!NotPromised
<1>9. ASSUME NEW s \in Sub, PartSeek(s) PROVE TypeOK' /\ [Abstract!Next]_Abstract!vars
  BY <1>9, PartSeekStep, Zenon
     DEF Abstract!Next, Abstract!Promised, Abstract!NotPromised
<1>10. ASSUME ~overrun, NEW s \in Sub, Record(s)
       PROVE  TypeOK' /\ [Abstract!Next]_Abstract!vars
  BY <1>10, RecordStep, Zenon
     DEF Abstract!Next, Abstract!Promised, Abstract!NotPromised
<1>11. ASSUME NEW s \in Sub, Rebound(s) PROVE TypeOK' /\ [Abstract!Next]_Abstract!vars
  BY <1>11, ReboundStep, Zenon DEF Abstract!Next, Abstract!Promised
<1>12. CASE UNCHANGED vars
  <2>1. dev' = dev /\ sub' = sub /\ answer' = answer /\ overrun' = overrun
    BY <1>12, Zenon DEF vars
  <2>2. TypeOK'
    BY <2>1, TypesAre, TypesNext, Zenon
  <2>3. UNCHANGED Abstract!vars
    BY <2>1, Zenon DEF Abstract!vars
  <2> QED
    BY <2>2, <2>3, Zenon
<1> QED
  BY <1>1, <1>2, <1>3, <1>4, <1>5, <1>6, <1>7, <1>8, <1>9, <1>10, <1>11, <1>12, Zenon
     DEF Next, Ruined

\* The end of file of a device is always in its buffer, and its position, its parts
\* and what a call gave are in their bounds, whatever the buffer grows by
\* (whio_dev_membuf_write, whio_dev_membuf_trunc, whio_dev_subdev_io).
THEOREM TypesOfMemory == Spec => []TypeOK
<1>1. Init => TypeOK
  BY InitStep, Zenon
<1>2. TypeOK /\ [Next]_vars => TypeOK'
  BY NextStep, Zenon
<1> QED
  BY <1>1, <1>2, PTL DEF Spec

\* A device of whatever kind, with windows and windows of records on it, is a sequence
\* of bytes with a position: a write puts what it says it wrote where the position is
\* and changes nothing else, a part stays in its window and leaves the position of the
\* device and of the other parts alone, and a truncation keeps what it does not cut off,
\* until a write is copied behind a buffer that could not grow (whio_dev.h).  The promise
\* of whio_devs.h is not kept in the steps that WhioDevice calls NotPromised: a part
\* without upper bound transfers nothing, and a seek of a part moves the device.
THEOREM MemoryImplementsDevice == Spec => ImplementsDevice
<1>1. Init => TypeOK /\ Abstract!Init
  BY InitStep, Zenon
<1>2. TypeOK /\ [Next]_vars => TypeOK'
  BY NextStep, Zenon
<1>3. TypeOK /\ [Next]_vars => [Abstract!Next]_Abstract!vars
  BY NextStep, Zenon
<1> QED
  BY <1>1, <1>2, <1>3, PTL DEF Spec, ImplementsDevice, Abstract!Spec
=============================================================================
