-------------------------- MODULE JournalStoreProofs --------------------------
(***************************************************************************)
(* Theorems about the state file, for journals and clocks of any bound and *)
(* any payloads, as long as every process runs with one chunk size: with   *)
(* two sizes the code does not keep its promise.  A journal is cut into    *)
(* tiles of that size; what the head records of the chunks are the first   *)
(* tiles of the journal the process holds, up to the detail compaction     *)
(* strips, at every point of a save.                                       *)
(***************************************************************************)
EXTENDS JournalStore, TLAPS, WellFoundedInduction, SequenceTheorems

-----------------------------------------------------------------------------
(* Numbers. *)

LEMMA LeastNatural ==
  ASSUME NEW T \in SUBSET Nat, T # {}
  PROVE  \E n \in T : \A m \in T : n <= m
<1>1. IsWellFoundedOn(OpToRel(<, Nat), Nat)
  BY NatLessThanWellFounded
<1>2. PICK n \in T : \A m \in T : ~(<<m, n>> \in OpToRel(<, Nat))
  BY <1>1, WFMin
<1>3. ASSUME NEW m \in T PROVE n <= m
  <2>1. ~(m < n)
    BY <1>2 DEF OpToRel
  <2>2. QED
    BY <2>1
<1>4. QED
  BY <1>3

LEMMA Tiling ==
  ASSUME NEW s \in Nat \ {0}, NEW i \in Nat \ {0}, NEW j \in Nat, i < j
  PROVE  /\ (i - 1) * s \in Nat /\ i * s \in Nat /\ i * s = (i - 1) * s + s
         /\ i * s <= (j - 1) * s /\ (j - 1) * s \in Nat
<1>1. (i - 1) * s \in Nat /\ i * s \in Nat /\ i * s = (i - 1) * s + s
  BY Z3
<1>2. (j - 1) * s = i * s + (j - 1 - i) * s /\ (j - 1 - i) * s \in Nat
  BY Z3
<1>3. QED
  BY <1>1, <1>2

LEMMA Division ==
  ASSUME NEW a \in Nat, NEW s \in Nat \ {0}
  PROVE  /\ a \div s \in Nat
         /\ (a \div s) * s <= a
         /\ a < (a \div s) * s + s
  BY Z3

-----------------------------------------------------------------------------
(* Chunk after chunk. *)

\* f[i] is what the first i of the parts X make together.
Joins(f, n, X) == f = [i \in 0..n |-> IF i = 0 THEN <<>> ELSE f[i - 1] \o X[i]]

LEMMA Joining ==
  ASSUME NEW n \in Nat, NEW X
  PROVE  \E f : Joins(f, n, X)
<1> DEFINE T == {m \in Nat : ~\E f : Joins(f, m, X)}
<1>1. SUFFICES ASSUME T # {} PROVE FALSE
  OBVIOUS
<1>2. PICK m \in T : \A k \in T : m <= k
  BY <1>1, LeastNatural
<1>3. m # 0
  <2>1. Joins([i \in 0..0 |-> <<>>], 0, X)
    BY DEF Joins
  <2>2. QED
    BY <2>1
<1>4. PICK f : Joins(f, m - 1, X)
  BY <1>2, <1>3
<1> DEFINE g == [i \in 0..m |-> IF i = m THEN f[m - 1] \o X[m] ELSE f[i]]
<1>5. ASSUME NEW i \in 0..m
      PROVE  g[i] = IF i = 0 THEN <<>> ELSE g[i - 1] \o X[i]
  <2>1. CASE i = m
    BY <1>3, <2>1
  <2>2. CASE i # m
    BY <1>4, <2>2 DEF Joins
  <2>3. QED
    BY <2>1, <2>2
<1>6. Joins(g, m, X)
  BY <1>5 DEF Joins
<1>7. QED
  BY <1>6

\* What the head records of a chunk.
Part(i) == SubSeq(chunk[i], 1, head.files[i])

LEMMA AssembledByParts ==
  ASSUME TailId \in Nat
  PROVE  \E f : /\ Assembled = f[TailId]
                /\ f[0] = <<>>
                /\ \A i \in 1..TailId : f[i] = f[i - 1] \o Part(i)
<1> DEFINE X == [i \in 1..TailId |-> Part(i)]
           F(f) == f = [i \in 0..TailId |->
                          IF i = 0 THEN <<>>
                          ELSE f[i - 1] \o SubSeq(chunk[i], 1, head.files[i])]
           g == CHOOSE f : F(f)
<1>1. PICK f : Joins(f, TailId, X)
  BY Joining
<1>2. F(f)
  <2>1. ASSUME NEW i \in 0..TailId, i # 0
        PROVE  X[i] = SubSeq(chunk[i], 1, head.files[i])
    <3>1. i \in 1..TailId
      BY <2>1
    <3>2. X[i] = Part(i)
      BY <3>1
    <3>3. QED
      BY <3>2 DEF Part
  <2>2. QED
    BY <1>1, <2>1 DEF Joins
<1>3. F(g)
  BY <1>2
<1>4. Assembled = g[TailId]
  BY DEF Assembled
<1> HIDE DEF g
<1>5. g[0] = <<>> /\ \A i \in 1..TailId : g[i] = g[i - 1] \o Part(i)
  <2>1. g[0] = <<>>
    BY <1>3
  <2>2. ASSUME NEW i \in 1..TailId PROVE g[i] = g[i - 1] \o Part(i)
    <3>1. i \in 0..TailId /\ i # 0
      OBVIOUS
    <3>2. g[i] = IF i = 0 THEN <<>> ELSE g[i - 1] \o SubSeq(chunk[i], 1, head.files[i])
      BY <1>3, <3>1, Zenon
    <3>3. QED
      BY <3>1, <3>2 DEF Part
  <2>3. QED
    BY <2>1, <2>2
<1>6. QED
  BY <1>4, <1>5

\* Where the i-th tile of size s begins, and where n tiles end whose last has l elements.
Start(i, s) == (i - 1) * s

\* n parts X and what the first of them make, f: all have length s but for the last, as L says.
LaidOut(s, n, L, f, X) ==
  /\ s \in Nat \ {0} /\ n \in Nat \ {0}
  /\ \A i \in 1..n : L[i] \in 0..s /\ (i < n => L[i] = s)
  /\ f[0] = <<>>
  /\ \A i \in 1..n : f[i] = f[i - 1] \o X[i]

PartsIn(S, n, L, X) == \A i \in 1..n : X[i] \in Seq(S) /\ Len(X[i]) = L[i]

TilesOf(j, s, n, L, X) ==
  \A i \in 1..n : X[i] = SubSeq(j, Start(i, s) + 1, Start(i, s) + L[i])

\* Parts that are the tiles of a sequence make up its beginning.
LEMMA TilesJoin ==
  ASSUME NEW S, NEW j \in Seq(S), NEW s, NEW n, NEW L, NEW f, NEW X,
         LaidOut(s, n, L, f, X), TilesOf(j, s, n, L, X), Start(n, s) + L[n] <= Len(j)
  PROVE  f[n] = SubSeq(j, 1, Start(n, s) + L[n])
<1> USE DEF LaidOut, TilesOf
<1> DEFINE End(i) == IF i = 0 THEN 0 ELSE Start(i, s) + L[i]
           T == {i \in 0..n : f[i] # SubSeq(j, 1, End(i))}
<1>1. SUFFICES ASSUME T # {} PROVE FALSE
  OBVIOUS
<1>2. PICK m \in T : \A k \in T : m <= k
  <2>1. T \in SUBSET Nat
    OBVIOUS
  <2> HIDE DEF T
  <2>2. QED
    BY <1>1, <2>1, LeastNatural
<1>3. m # 0
  <2>1. SubSeq(j, 1, 0) = <<>>
    OBVIOUS
  <2>2. QED
    BY <1>2, <2>1
<1>4. f[m - 1] = SubSeq(j, 1, End(m - 1)) /\ m \in 1..n
  BY <1>2, <1>3
<1>5. Start(m, s) \in Nat /\ Start(n, s) \in Nat /\ Start(m, s) <= Start(n, s)
  <2>1. CASE m < n
    BY <1>4, <2>1, Tiling DEF Start
  <2>2. CASE m = n
    BY <2>2, Tiling, <1>4, n < n + 1 DEF Start
  <2>3. QED
    BY <1>4, <2>1, <2>2
<1>6. End(m - 1) = Start(m, s)
  <2>1. CASE m = 1
    BY <2>1 DEF Start
  <2>2. CASE m # 1
    <3>1. m - 1 \in 1..n /\ m - 1 < n /\ m - 1 < m
      BY <1>4, <2>2
    <3>2. L[m - 1] = s
      BY <3>1
    <3>3. (m - 1) * s = (m - 1 - 1) * s + s
      BY <3>1, <1>4, Tiling
    <3>4. QED
      BY <3>1, <3>2, <3>3 DEF Start
  <2>3. QED
    BY <2>1, <2>2
<1>7. L[m] \in Nat /\ Start(m, s) + L[m] <= Len(j)
  <2>1. CASE m < n
    <3>1. L[m] = s /\ L[n] \in Nat
      BY <1>4, <2>1
    <3>2. Start(m, s) + s <= Start(n, s)
      BY <1>4, <2>1, Tiling DEF Start
    <3>3. Len(j) \in Nat
      OBVIOUS
    <3>4. QED
      BY <1>5, <3>1, <3>2, <3>3
  <2>2. CASE m = n
    BY <2>2, <1>4
  <2>3. QED
    BY <1>4, <2>1, <2>2
<1>8. f[m] = SubSeq(j, 1, Start(m, s)) \o SubSeq(j, Start(m, s) + 1, Start(m, s) + L[m])
  BY <1>4, <1>6
<1>9. f[m] = SubSeq(j, 1, Start(m, s) + L[m])
  <2> DEFINE a == Start(m, s)
             b == Start(m, s) + L[m]
  <2>1. a \in 0..Len(j) /\ b \in a..Len(j) /\ Len(j) \in Nat
    BY <1>5, <1>7
  <2> HIDE DEF a, b
  <2>2. SubSeq(j, 1, a) \o SubSeq(j, a + 1, b) = SubSeq(j, 1, b)
    BY <2>1, ConcatAdjacentSubSeq
  <2>3. QED
    BY <1>8, <2>2 DEF a, b
<1>10. QED
  BY <1>2, <1>3, <1>9

\* What parts of full length, but for the last, make up has each part as its tile.
LEMMA PartsJoin ==
  ASSUME NEW S, NEW s, NEW n, NEW L, NEW f, NEW X,
         LaidOut(s, n, L, f, X), PartsIn(S, n, L, X)
  PROVE  /\ \A i \in 0..n : f[i] \in Seq(S)
         /\ Len(f[n]) = Start(n, s) + L[n]
         /\ TilesOf(f[n], s, n, L, X)
<1> USE DEF LaidOut, PartsIn, TilesOf
<1> DEFINE End(i) == IF i = 0 THEN 0 ELSE Start(i, s) + L[i]
           P(k) == /\ f[k] \in Seq(S)
                   /\ Len(f[k]) = End(k)
                   /\ \A i \in 1..k : X[i] = SubSeq(f[k], Start(i, s) + 1, Start(i, s) + L[i])
           T == {i \in 0..n : ~P(i)}
<1>1. ASSUME T # {} PROVE FALSE
  <2>1. PICK m \in T : \A k \in T : m <= k
    <3>1. T \in SUBSET Nat
      OBVIOUS
    <3> HIDE DEF T
    <3>2. QED
      BY <1>1, <3>1, LeastNatural
  <2>2. P(0)
    OBVIOUS
  <2>3. m # 0 /\ m \in 1..n /\ m - 1 \in 0..n /\ ~P(m)
    <3> HIDE DEF P
    <3>1. QED
      BY <2>1, <2>2
  <2>4. P(m - 1)
    <3> HIDE DEF P
    <3>1. QED
      BY <2>1, <2>3
  <2>5. End(m - 1) = Start(m, s) /\ Start(m, s) \in Nat
    <3>1. CASE m = 1
      BY <3>1 DEF Start
    <3>2. CASE m # 1
      <4>1. m - 1 \in 1..n /\ m - 1 < n /\ m - 1 < m
        BY <2>3, <3>2
      <4>2. L[m - 1] = s
        BY <4>1
      <4>3. (m - 1) * s = (m - 1 - 1) * s + s /\ (m - 1) * s \in Nat
        BY <4>1, <2>3, Tiling
      <4>4. QED
        BY <4>1, <4>2, <4>3 DEF Start
    <3>3. QED
      BY <3>1, <3>2
  <2>6. f[m] = f[m - 1] \o X[m] /\ X[m] \in Seq(S) /\ Len(X[m]) = L[m] /\ L[m] \in Nat
    <3>1. m \in 1..n
      BY <2>3
    <3> HIDE DEF T, P
    <3>2. f[m] = f[m - 1] \o X[m] /\ X[m] \in Seq(S) /\ Len(X[m]) = L[m]
      BY <3>1
    <3>3. L[m] \in 0..s
      BY <3>1
    <3>4. QED
      BY <3>2, <3>3
  <2>7. f[m - 1] \in Seq(S) /\ Len(f[m - 1]) = Start(m, s)
    BY <2>4, <2>5
  <2>8. f[m] \in Seq(S) /\ Len(f[m]) = Start(m, s) + L[m]
    <3>1. f[m - 1] \o X[m] \in Seq(S) /\ Len(f[m - 1] \o X[m]) = Len(f[m - 1]) + Len(X[m])
      BY <2>6, <2>7, ConcatProperties
    <3> HIDE DEF T, P
    <3>2. QED
      BY <2>6, <2>7, <3>1
  <2>9. ASSUME NEW i \in 1..m
        PROVE  X[i] = SubSeq(f[m], Start(i, s) + 1, Start(i, s) + L[i])
    <3>1. CASE i = m /\ L[m] = 0
      <4>1. X[m] = <<>>
        BY <2>6, <3>1, EmptySeq
      <4>2. SubSeq(f[m], Start(m, s) + 1, Start(m, s) + 0) = <<>>
        BY <2>5, <2>8, SubSeqEmpty
      <4>3. QED
        BY <3>1, <4>1, <4>2
    <3>2. CASE i = m /\ L[m] # 0
      <4> DEFINE a == Start(m, s)
      <4>1. SubSeq(f[m - 1] \o X[m], a + 1, a + L[m]) = SubSeq(X[m], 1, L[m])
        <5> DEFINE u == f[m - 1]
                   v == X[m]
                   p == a + 1
                   q == a + L[m]
        <5>1. u \in Seq(S) /\ v \in Seq(S) /\ Len(u) = a /\ Len(v) = L[m] /\ a \in Nat
          BY <2>5, <2>6, <2>7
        <5>2. /\ p \in Len(u) + 1 .. Len(u) + Len(v)
              /\ q \in Len(u) + 1 .. Len(u) + Len(v)
              /\ p - Len(u) = 1 /\ q - Len(u) = L[m]
          <6> HIDE DEF u, v, a
          <6>1. QED
            BY <5>1, <2>6, <3>2
        <5> HIDE DEF u, v, p, q
        <5>3. SubSeq(u \o v, p, q) = SubSeq(v, p - Len(u), q - Len(u))
          BY <5>1, <5>2, SubSeqOfConcat2
        <5>4. QED
          BY <5>2, <5>3 DEF u, v, p, q
      <4>2. SubSeq(X[m], 1, L[m]) = X[m]
        BY <2>6, SubSeqFull
      <4>3. QED
        BY <3>2, <4>1, <4>2, <2>6
    <3>3. CASE i < m
      <4> DEFINE a == Start(i, s)
                 b == Start(i, s) + L[i]
      <4>1. L[i] = s /\ i \in 1..m - 1
        BY <2>3, <3>3
      <4>2. a \in Nat /\ b <= Start(m, s) /\ a + 1 <= b /\ b \in Nat
        BY <2>3, <3>3, <4>1, Tiling DEF Start
      <4>3. X[i] = SubSeq(f[m - 1], a + 1, b)
        BY <2>4, <4>1
      <4> HIDE DEF a, b
      <4>4. a + 1 \in 1..Len(f[m - 1]) /\ b \in 1..Len(f[m - 1])
        BY <2>5, <2>7, <4>2
      <4>5. SubSeq(f[m - 1] \o X[m], a + 1, b) = SubSeq(f[m - 1], a + 1, b)
        BY <2>6, <2>7, <4>4, SubSeqOfConcat1
      <4>6. QED
        BY <4>3, <4>5, <2>6 DEF a, b
    <3>4. QED
      BY <3>1, <3>2, <3>3, <2>3
  <2>10. P(m)
    BY <2>3, <2>8, <2>9
  <2>11. QED
    BY <2>3, <2>10
<1>2. \A i \in 0..n : P(i)
  <2> HIDE DEF P
  <2>1. QED
    BY <1>1
<1>3. n \in 0..n /\ n # 0
  OBVIOUS
<1>4. P(n)
  <2> HIDE DEF P
  <2>1. QED
    BY <1>2, <1>3
<1>5. QED
  BY <1>2, <1>3, <1>4

-----------------------------------------------------------------------------
(* What compaction strips. *)

SlimOp(op) == [op EXCEPT !.body = Slim[@]]

LEMMA SlimOperation ==
  ASSUME NEW op \in Operation
  PROVE  SlimOp(op) \in Operation /\ SlimOp(SlimOp(op)) = SlimOp(op)
  BY BodyAssumption DEF SlimOp, Operation

LEMMA SlimSequence ==
  ASSUME NEW ops \in Seq(Operation)
  PROVE  /\ SlimAll(ops) \in Seq(Operation)
         /\ Len(SlimAll(ops)) = Len(ops)
         /\ \A i \in 1..Len(ops) : SlimAll(ops)[i] = SlimOp(ops[i])
<1>1. SlimAll(ops) = [i \in 1..Len(ops) |-> SlimOp(ops[i])]
  BY DEF SlimAll, SlimOp
<1>2. \A i \in 1..Len(ops) : SlimOp(ops[i]) \in Operation
  BY SlimOperation, ElementOfSeq
<1>3. QED
  BY <1>1, <1>2, LenProperties, IsASeq

LEMMA SlimTwice ==
  ASSUME NEW ops \in Seq(Operation)
  PROVE  SlimAll(SlimAll(ops)) = SlimAll(ops)
<1>1. \A i \in 1..Len(ops) : SlimAll(SlimAll(ops))[i] = SlimAll(ops)[i]
  BY SlimSequence, SlimOperation, ElementOfSeq
<1>2. QED
  BY <1>1, SlimSequence, SeqEqual

LEMMA SlimAppend ==
  ASSUME NEW ops \in Seq(Operation), NEW op \in Operation
  PROVE  SlimAll(Append(ops, op)) = Append(SlimAll(ops), SlimOp(op))
<1> DEFINE long == Append(ops, op)
<1>1. /\ long \in Seq(Operation) /\ Len(long) = Len(ops) + 1 /\ long[Len(ops) + 1] = op
      /\ \A i \in 1..Len(ops) : long[i] = ops[i]
  BY AppendProperties
<1> HIDE DEF long
<1>2. /\ SlimAll(ops) \in Seq(Operation) /\ Len(SlimAll(ops)) = Len(ops)
      /\ \A i \in 1..Len(ops) : SlimAll(ops)[i] = SlimOp(ops[i])
      /\ SlimAll(long) \in Seq(Operation) /\ Len(SlimAll(long)) = Len(ops) + 1
      /\ \A i \in 1..Len(ops) + 1 : SlimAll(long)[i] = SlimOp(long[i])
  BY <1>1, SlimSequence
<1> DEFINE other == Append(SlimAll(ops), SlimOp(op))
<1>3. /\ other \in Seq(Operation) /\ Len(other) = Len(ops) + 1
      /\ other[Len(ops) + 1] = SlimOp(op)
      /\ \A i \in 1..Len(ops) : other[i] = SlimAll(ops)[i]
  BY <1>2, SlimOperation, AppendProperties
<1> HIDE DEF other
<1>4. Len(ops) \in Nat
  BY LenProperties
<1>5. \A i \in 1..Len(ops) + 1 : SlimAll(long)[i] = other[i]
  BY <1>1, <1>2, <1>3, <1>4
<1>6. SlimAll(long) = other
  BY <1>2, <1>3, <1>5, SeqEqual
<1>7. QED
  BY <1>6 DEF long, other

LEMMA SlimSubSeq ==
  ASSUME NEW ops \in Seq(Operation), NEW m \in Nat \ {0}, NEW n \in Nat, n <= Len(ops)
  PROVE  SlimAll(SubSeq(ops, m, n)) = SubSeq(SlimAll(ops), m, n)
<1>1. Len(ops) \in Nat /\ SlimAll(ops) \in Seq(Operation) /\ Len(SlimAll(ops)) = Len(ops)
  BY SlimSequence, LenProperties
<1>2. CASE m > n
  <2>1. SubSeq(ops, m, n) = <<>> /\ SubSeq(SlimAll(ops), m, n) = <<>>
    BY <1>1, <1>2, SubSeqEmpty
  <2>2. SlimAll(<<>>) = <<>>
    BY DEF SlimAll
  <2>3. QED
    BY <2>1, <2>2
<1>3. CASE m <= n
  <2>1. m \in 1..Len(ops) + 1 /\ n \in m - 1..Len(ops)
    BY <1>1, <1>3
  <2> DEFINE a == SubSeq(ops, m, n)
             b == SubSeq(SlimAll(ops), m, n)
  <2>2. /\ a \in Seq(Operation) /\ Len(a) = n - m + 1
        /\ \A i \in 1..n - m + 1 : a[i] = ops[m + i - 1]
    BY <2>1, SubSeqProperties
  <2>3. /\ b \in Seq(Operation) /\ Len(b) = n - m + 1
        /\ \A i \in 1..n - m + 1 : b[i] = SlimAll(ops)[m + i - 1]
    BY <1>1, <2>1, SubSeqProperties
  <2> HIDE DEF a, b
  <2>4. /\ SlimAll(a) \in Seq(Operation) /\ Len(SlimAll(a)) = n - m + 1
        /\ \A i \in 1..n - m + 1 : SlimAll(a)[i] = SlimOp(a[i])
    BY <2>2, SlimSequence
  <2>5. ASSUME NEW i \in 1..n - m + 1
        PROVE  SlimAll(a)[i] = b[i]
    <3>1. m + i - 1 \in 1..Len(ops)
      BY <1>1, <1>3
    <3>2. QED
      BY <3>1, <2>2, <2>3, <2>4, SlimSequence
  <2>6. SlimAll(a) = b
    BY <2>3, <2>4, <2>5, SeqEqual
  <2>7. QED
    BY <2>6 DEF a, b
<1>4. QED
  BY <1>1, <1>2, <1>3

LEMMA SlimConcat ==
  ASSUME NEW a \in Seq(Operation), NEW b \in Seq(Operation)
  PROVE  SlimAll(a \o b) = SlimAll(a) \o SlimAll(b)
<1> DEFINE c == a \o b
           d == SlimAll(a) \o SlimAll(b)
<1>1. /\ c \in Seq(Operation) /\ Len(c) = Len(a) + Len(b)
      /\ \A i \in 1..Len(a) + Len(b) : c[i] = IF i <= Len(a) THEN a[i] ELSE b[i - Len(a)]
  BY ConcatProperties
<1>2. /\ SlimAll(a) \in Seq(Operation) /\ Len(SlimAll(a)) = Len(a)
      /\ \A i \in 1..Len(a) : SlimAll(a)[i] = SlimOp(a[i])
      /\ SlimAll(b) \in Seq(Operation) /\ Len(SlimAll(b)) = Len(b)
      /\ \A i \in 1..Len(b) : SlimAll(b)[i] = SlimOp(b[i])
      /\ Len(a) \in Nat /\ Len(b) \in Nat
  BY SlimSequence, LenProperties
<1>3. /\ d \in Seq(Operation) /\ Len(d) = Len(a) + Len(b)
      /\ \A i \in 1..Len(a) + Len(b) :
           d[i] = IF i <= Len(a) THEN SlimAll(a)[i] ELSE SlimAll(b)[i - Len(a)]
  <2> DEFINE u == SlimAll(a)
             v == SlimAll(b)
  <2>1. u \in Seq(Operation) /\ v \in Seq(Operation) /\ Len(u) = Len(a) /\ Len(v) = Len(b)
    BY <1>2
  <2> HIDE DEF u, v
  <2>2. /\ u \o v \in Seq(Operation) /\ Len(u \o v) = Len(u) + Len(v)
        /\ \A i \in 1..Len(u) + Len(v) :
             (u \o v)[i] = IF i <= Len(u) THEN u[i] ELSE v[i - Len(u)]
    BY <2>1, ConcatProperties
  <2>3. QED
    BY <2>1, <2>2 DEF u, v
<1> HIDE DEF c, d
<1>4. /\ SlimAll(c) \in Seq(Operation) /\ Len(SlimAll(c)) = Len(a) + Len(b)
      /\ \A i \in 1..Len(a) + Len(b) : SlimAll(c)[i] = SlimOp(c[i])
  BY <1>1, SlimSequence
<1>5. ASSUME NEW i \in 1..Len(a) + Len(b) PROVE SlimAll(c)[i] = d[i]
  <2>1. CASE i <= Len(a)
    <3>1. i \in 1..Len(a)
      BY <1>2, <2>1
    <3>2. QED
      BY <1>1, <1>2, <1>3, <1>4, <2>1, <3>1
  <2>2. CASE ~(i <= Len(a))
    <3>1. i - Len(a) \in 1..Len(b)
      BY <1>2, <2>2
    <3>2. QED
      BY <1>1, <1>2, <1>3, <1>4, <2>2, <3>1
  <2>3. QED
    BY <2>1, <2>2
<1>6. SlimAll(c) = d
  BY <1>3, <1>4, <1>5, SeqEqual
<1>7. QED
  BY <1>6 DEF c, d

-----------------------------------------------------------------------------
(* The inductive invariant. *)

\* All processes run with the same chunk size.
OneSize == \A a, b \in ChunkSizes : a = b

Typed ==
  /\ \A i \in DOMAIN chunk : chunk[i] \in Seq(Operation) /\ Len(chunk[i]) <= size
  /\ head.files \in Seq(Nat) /\ head.tick \in 0..MaxTick
  /\ sidecar.tick \in 0..MaxTick
  /\ pc \in {"down", "idle", "chunks", "sidecar"} /\ after \in {"down", "idle"}
  /\ at \in Nat \ {0} /\ size \in ChunkSizes
  /\ journal \in Seq(Operation) /\ clock \in 0..MaxTick

\* The head names chunks that are there; all but the last are recorded as full.
Named ==
  Committed =>
    /\ \A i \in 1..TailId :
         /\ i \in DOMAIN chunk
         /\ head.files[i] \in 0..size /\ head.files[i] <= Len(chunk[i])
         /\ i < TailId => head.files[i] = size
    /\ TailId > 1 => head.files[TailId] > 0

\* How many operations the head records.
Recorded == Start(TailId, size) + head.files[TailId]

\* What is recorded of a chunk is, but for what compaction strips, the journal's tile.
Continued ==
  Committed /\ pc # "down" =>
    /\ Recorded <= Len(journal)
    /\ \A i \in 1..TailId :
         SlimAll(Part(i)) =
           SubSeq(SlimAll(journal), Start(i, size) + 1, Start(i, size) + head.files[i])

\* A save has written, or kept, the chunks before the one it is at.
Written ==
  pc = "chunks" =>
    \A i \in 1..ChunkCount :
      i < at => i \in DOMAIN chunk /\ SlimAll(chunk[i]) = SlimAll(Piece(i))

StoreInv == Typed /\ Named /\ Continued /\ Written

LEMMA NamedIsReadable ==
  ASSUME Typed, Named
  PROVE  AlwaysReadable
<1>1. SUFFICES ASSUME Committed PROVE Readable
  BY DEF AlwaysReadable
<1>2. TailId \in Nat /\ size \in Nat
  BY SizeAssumption, LenProperties DEF Typed, TailId
<1>3. ASSUME NEW i \in 1..TailId
      PROVE  /\ i \in DOMAIN chunk /\ head.files[i] <= Len(chunk[i])
             /\ head.files[i] = Len(chunk[i]) \/ i = TailId
  <2>1. /\ i \in DOMAIN chunk /\ head.files[i] \in 0..size
        /\ head.files[i] <= Len(chunk[i]) /\ (i < TailId => head.files[i] = size)
    BY <1>1 DEF Named
  <2>2. Len(chunk[i]) \in Nat /\ Len(chunk[i]) <= size
    BY <2>1, LenProperties DEF Typed
  <2>3. QED
    BY <1>2, <2>1, <2>2
<1>4. QED
  BY <1>3 DEF Readable

\* What a load assembles: as many operations as recorded, chunk after chunk.
Whole ==
  /\ Assembled \in Seq(Operation) /\ Len(Assembled) = Recorded
  /\ \A i \in 1..TailId :
       Part(i) = SubSeq(Assembled, Start(i, size) + 1, Start(i, size) + head.files[i])

\* The parts have the recorded lengths.
LEMMA PartLengths ==
  ASSUME Typed, Named, Committed
  PROVE  /\ TailId \in Nat \ {0} /\ size \in Nat \ {0}
         /\ \A i \in 1..TailId :
              /\ head.files[i] \in 0..size /\ (i < TailId => head.files[i] = size)
              /\ Part(i) \in Seq(Operation) /\ Len(Part(i)) = head.files[i]
<1>1. size \in Nat \ {0}
  BY SizeAssumption DEF Typed
<1>2. TailId \in Nat \ {0}
  <2>1. head.files \in Seq(Nat) /\ head.files # <<>>
    BY DEF Typed, Committed
  <2>2. QED
    BY <2>1, EmptySeq, LenProperties DEF TailId
<1>3. ASSUME NEW i \in 1..TailId
      PROVE  /\ head.files[i] \in 0..size /\ (i < TailId => head.files[i] = size)
             /\ Part(i) \in Seq(Operation) /\ Len(Part(i)) = head.files[i]
  <2>1. /\ head.files[i] \in 0..size /\ (i < TailId => head.files[i] = size)
        /\ chunk[i] \in Seq(Operation) /\ head.files[i] <= Len(chunk[i])
    BY DEF Typed, Named
  <2>2. Len(chunk[i]) \in Nat /\ head.files[i] \in 0..Len(chunk[i])
    BY <1>1, <2>1, LenProperties
  <2> DEFINE p == SubSeq(chunk[i], 1, head.files[i])
  <2>3. p \in Seq(Operation) /\ Len(p) = head.files[i]
    <3> DEFINE n == head.files[i]
    <3>1. 1 \in 1..Len(chunk[i]) + 1 /\ n \in 1 - 1..Len(chunk[i])
      BY <2>2
    <3> HIDE DEF n
    <3>2. SubSeq(chunk[i], 1, n) \in Seq(Operation) /\ Len(SubSeq(chunk[i], 1, n)) = n - 1 + 1
      BY <2>1, <3>1, SubSeqProperties
    <3>3. n \in Nat
      BY <2>2, <3>1
    <3>4. QED
      BY <3>2, <3>3 DEF n
  <2>4. QED
    BY <2>1, <2>3 DEF Part
<1>4. QED
  BY <1>1, <1>2, <1>3

LEMMA LoadIsWhole ==
  ASSUME Typed, Named, Committed
  PROVE  Whole
<1>1. PICK f : /\ Assembled = f[TailId] /\ f[0] = <<>>
               /\ \A i \in 1..TailId : f[i] = f[i - 1] \o Part(i)
  BY PartLengths, AssembledByParts
<1> DEFINE L == head.files
           X == [i \in 1..TailId |-> Part(i)]
           n == TailId
<1>2. LaidOut(size, n, L, f, X) /\ PartsIn(Operation, n, L, X)
  BY <1>1, PartLengths DEF LaidOut, PartsIn
<1>3. \A i \in 1..n : X[i] = Part(i)
  OBVIOUS
<1> HIDE DEF L, X, n
<1>4. /\ \A i \in 0..n : f[i] \in Seq(Operation)
      /\ Len(f[n]) = Start(n, size) + L[n]
      /\ TilesOf(f[n], size, n, L, X)
  BY <1>2, PartsJoin
<1>5. f[n] \in Seq(Operation)
  BY <1>2, <1>4 DEF LaidOut
<1>6. QED
  BY <1>1, <1>3, <1>4, <1>5 DEF Whole, TilesOf, Recorded, L, n

\* As long as a process continues what is on disk, the log is a prefix of its journal.
Agree == Durable = SubSeq(SlimAll(journal), 1, Recorded)

LEMMA ContinuedAgrees ==
  Typed /\ Named /\ Continued /\ Committed /\ pc # "down" => Agree
<1> SUFFICES ASSUME Typed, Named, Continued, Committed, pc # "down" PROVE Agree
  OBVIOUS
<1>1. PICK f : /\ Assembled = f[TailId] /\ f[0] = <<>>
               /\ \A i \in 1..TailId : f[i] = f[i - 1] \o Part(i)
  BY PartLengths, AssembledByParts
<1> DEFINE n == TailId
           L == head.files
           X == [i \in 1..n |-> Part(i)]
           j == SlimAll(journal)
           Y == [i \in 1..n |-> SlimAll(Part(i))]
           g == [i \in 0..n |-> SlimAll(f[i])]
<1>2. LaidOut(size, n, L, f, X) /\ PartsIn(Operation, n, L, X)
  BY <1>1, PartLengths DEF LaidOut, PartsIn
<1>3. \A i \in 0..n : f[i] \in Seq(Operation)
  <2> HIDE DEF L, X, n
  <2>1. QED
    BY <1>2, PartsJoin
<1>4. g[0] = <<>> /\ \A i \in 1..n : g[i] = g[i - 1] \o Y[i]
  <2>1. g[0] = <<>>
    BY <1>2 DEF SlimAll, LaidOut
  <2>2. ASSUME NEW i \in 1..n PROVE g[i] = g[i - 1] \o Y[i]
    <3>1. i \in 0..n /\ i - 1 \in 0..n /\ X[i] = Part(i) /\ X[i] \in Seq(Operation)
      BY <1>2 DEF LaidOut, PartsIn
    <3>2. SlimAll(f[i - 1] \o X[i]) = SlimAll(f[i - 1]) \o SlimAll(X[i])
      BY <1>3, <3>1, SlimConcat
    <3>3. QED
      BY <1>1, <3>1, <3>2
  <2>3. QED
    BY <2>1, <2>2
<1>5. /\ j \in Seq(Operation) /\ Start(n, size) + L[n] <= Len(j)
      /\ TilesOf(j, size, n, L, Y) /\ LaidOut(size, n, L, g, Y)
  <2>1. journal \in Seq(Operation) /\ j \in Seq(Operation) /\ Len(j) = Len(journal)
    BY SlimSequence DEF Typed
  <2>2. TilesOf(j, size, n, L, Y)
    BY DEF Continued, TilesOf
  <2>3. LaidOut(size, n, L, g, Y)
    BY <1>2, <1>4 DEF LaidOut
  <2>4. QED
    BY <2>1, <2>2, <2>3 DEF Continued, Recorded
<1>6. g[n] = SlimAll(Assembled)
  BY <1>1, <1>2 DEF LaidOut
<1>7. Durable = g[n]
  BY <1>6, NamedIsReadable DEF Durable, AlwaysReadable
<1> HIDE DEF n, L, X, j, Y, g
<1>8. g[n] = SubSeq(j, 1, Start(n, size) + L[n])
  BY <1>5, TilesJoin
<1>9. QED
  BY <1>7, <1>8 DEF Agree, Recorded, n, L, j

-----------------------------------------------------------------------------
(* How a save cuts the journal. *)

\* Into how many pieces of size s a journal of n operations is cut.
Count(n, s) == IF n = 0 THEN 1 ELSE (n + s - 1) \div s

LEMMA Ends ==
  ASSUME NEW n \in Nat, NEW s \in Nat \ {0}
  PROVE  /\ Count(n, s) \in Nat \ {0} /\ n <= Count(n, s) * s
         /\ \A i \in 1..Count(n, s) :
              /\ Start(i, s) \in Nat /\ Smaller(i * s, n) \in Nat
              /\ Start(i, s) <= Smaller(i * s, n) /\ Smaller(i * s, n) <= n
              /\ Smaller(i * s, n) <= Start(i, s) + s
              /\ i < Count(n, s) => Smaller(i * s, n) = Start(i, s) + s
              /\ i = Count(n, s) => Smaller(i * s, n) = n
              /\ Count(n, s) > 1 => Start(i, s) < Smaller(i * s, n)
<1> DEFINE c == Count(n, s)
<1>0. c = IF n = 0 THEN 1 ELSE (n + s - 1) \div s
  BY DEF Count
<1> HIDE DEF c
<1>1. /\ c \in Nat \ {0} /\ (c - 1) * s \in Nat /\ c * s = (c - 1) * s + s
      /\ (n = 0 => c = 1) /\ (n # 0 => (c - 1) * s < n) /\ n <= c * s
  <2>1. CASE n = 0
    BY <1>0, <2>1
  <2>2. CASE n # 0
    <3>1. c \in Nat /\ c * s <= n + s - 1 /\ n + s - 1 < c * s + s
      BY <1>0, <2>2, Division, n + s - 1 \in Nat
    <3>2. c # 0
      <4>1. 0 * s = 0
        OBVIOUS
      <4>2. QED
        BY <2>2, <3>1, <4>1
    <3>3. (c - 1) * s \in Nat /\ c * s \in Nat /\ c * s = (c - 1) * s + s
      BY <3>1, <3>2, Tiling, c < c + 1, c \in Nat \ {0}
    <3>4. QED
      BY <2>2, <3>1, <3>2, <3>3
  <2>3. QED
    BY <2>1, <2>2
<1>2. ASSUME NEW i \in 1..c
      PROVE  /\ Start(i, s) \in Nat /\ Smaller(i * s, n) \in Nat
             /\ Start(i, s) <= Smaller(i * s, n) /\ Smaller(i * s, n) <= n
             /\ Smaller(i * s, n) <= Start(i, s) + s
             /\ i < c => Smaller(i * s, n) = Start(i, s) + s
             /\ i = c => Smaller(i * s, n) = n
             /\ c > 1 => Start(i, s) < Smaller(i * s, n)
  <2>1. i \in Nat \ {0} /\ i <= c
    BY <1>1
  <2>2. CASE i < c
    <3>1. /\ (i - 1) * s \in Nat /\ i * s \in Nat /\ i * s = (i - 1) * s + s
          /\ i * s <= (c - 1) * s
      BY <1>1, <2>1, <2>2, Tiling
    <3>2. n # 0
      BY <1>1, <2>1, <2>2
    <3>3. QED
      BY <1>1, <2>2, <3>1, <3>2 DEF Start, Smaller
  <2>3. CASE i = c
    BY <1>1, <2>3 DEF Start, Smaller
  <2>4. QED
    BY <1>1, <2>1, <2>2, <2>3
<1>3. QED
  BY <1>1, <1>2 DEF c

LEMMA Pieces ==
  ASSUME Typed
  PROVE  /\ ChunkCount \in Nat \ {0} /\ size \in Nat \ {0} /\ Len(journal) \in Nat
         /\ Len(journal) <= ChunkCount * size
         /\ \A i \in 1..ChunkCount :
              /\ Start(i, size) \in Nat /\ Len(Piece(i)) \in 0..size
              /\ Start(i, size) + Len(Piece(i)) <= Len(journal)
              /\ Piece(i) \in Seq(Operation)
              /\ Piece(i) = SubSeq(journal, Start(i, size) + 1, Start(i, size) + Len(Piece(i)))
              /\ i < ChunkCount => Len(Piece(i)) = size
              /\ i = ChunkCount => Start(i, size) + Len(Piece(i)) = Len(journal)
              /\ ChunkCount > 1 => Len(Piece(i)) > 0
<1> DEFINE n == Len(journal)
           c == ChunkCount
           e(i) == Smaller(i * size, n)
<1>1. size \in Nat \ {0} /\ n \in Nat /\ journal \in Seq(Operation)
  BY SizeAssumption, LenProperties DEF Typed
<1>2. c = Count(n, size)
  BY <1>1, EmptySeq DEF ChunkCount, Count
<1>3. \A i : Piece(i) = SubSeq(journal, Start(i, size) + 1, e(i))
  BY DEF Piece, Start
<1> HIDE DEF n, c, e
<1>4. /\ c \in Nat \ {0} /\ n <= c * size
      /\ \A i \in 1..c :
           /\ Start(i, size) \in Nat /\ e(i) \in Nat
           /\ Start(i, size) <= e(i) /\ e(i) <= n /\ e(i) <= Start(i, size) + size
           /\ i < c => e(i) = Start(i, size) + size
           /\ i = c => e(i) = n
           /\ c > 1 => Start(i, size) < e(i)
  <2>1. /\ c \in Nat \ {0} /\ n <= c * size
        /\ \A i \in 1..c :
             /\ Start(i, size) \in Nat /\ Smaller(i * size, n) \in Nat
             /\ Start(i, size) <= Smaller(i * size, n) /\ Smaller(i * size, n) <= n
             /\ Smaller(i * size, n) <= Start(i, size) + size
             /\ i < c => Smaller(i * size, n) = Start(i, size) + size
             /\ i = c => Smaller(i * size, n) = n
             /\ c > 1 => Start(i, size) < Smaller(i * size, n)
    <3>1. n \in Nat /\ size \in Nat \ {0}
      BY <1>1
    <3> HIDE <1>1
    <3>2. QED
      BY <1>2, <3>1, Ends
  <2>2. QED
    BY <2>1 DEF e
<1>5. ASSUME NEW i \in 1..c
      PROVE  Piece(i) \in Seq(Operation) /\ Len(Piece(i)) = e(i) - Start(i, size)
  <2> DEFINE a == Start(i, size) + 1
             b == e(i)
  <2>1. a \in 1..n + 1 /\ b \in a - 1..n
    BY <1>1, <1>4
  <2>2. b - a + 1 = e(i) - Start(i, size)
    BY <1>4
  <2> HIDE DEF a, b
  <2>3. SubSeq(journal, a, b) \in Seq(Operation) /\ Len(SubSeq(journal, a, b)) = b - a + 1
    BY <1>1, <2>1, SubSeqProperties DEF n
  <2>4. QED
    BY <1>3, <2>2, <2>3 DEF a, b
<1>6. ASSUME NEW i \in 1..c
      PROVE  /\ Start(i, size) \in Nat /\ Len(Piece(i)) \in 0..size
             /\ Start(i, size) + Len(Piece(i)) = e(i)
             /\ e(i) <= n /\ (i < c => Len(Piece(i)) = size) /\ (i = c => e(i) = n)
             /\ c > 1 => Len(Piece(i)) > 0
  <2>1. /\ Start(i, size) \in Nat /\ e(i) \in Nat /\ size \in Nat /\ c \in Nat /\ n \in Nat
        /\ Start(i, size) <= e(i) /\ e(i) <= n /\ e(i) <= Start(i, size) + size
        /\ i < c => e(i) = Start(i, size) + size
        /\ i = c => e(i) = n
        /\ c > 1 => Start(i, size) < e(i)
        /\ Len(Piece(i)) = e(i) - Start(i, size)
    BY <1>1, <1>4, <1>5
  <2>2. QED
    BY <2>1
<1>7. QED
  BY <1>1, <1>3, <1>4, <1>5, <1>6 DEF n, c

\* What the head records lies within the pieces.
LEMMA Within ==
  ASSUME Typed, Named, Committed, Recorded <= Len(journal)
  PROVE  /\ TailId <= ChunkCount
         /\ \A i \in 1..TailId : head.files[i] <= Len(Piece(i))
<1>1. /\ TailId \in Nat \ {0} /\ size \in Nat \ {0}
      /\ \A i \in 1..TailId : head.files[i] \in 0..size /\ (i < TailId => head.files[i] = size)
  BY PartLengths
<1>2. ChunkCount \in Nat \ {0} /\ Len(journal) \in Nat /\ Len(journal) <= ChunkCount * size
  BY Pieces
<1>3. TailId <= ChunkCount
  <2>1. SUFFICES ASSUME ChunkCount < TailId PROVE FALSE
    BY <1>1, <1>2
  <2>2. ChunkCount * size <= (TailId - 1) * size /\ (TailId - 1) * size \in Nat
    BY <1>1, <1>2, <2>1, Tiling
  <2>3. head.files[TailId] > 0 /\ head.files[TailId] \in Nat
    BY <1>1, <1>2, <2>1 DEF Named
  <2>4. ChunkCount * size \in Nat
    BY <1>1, <1>2, <2>1, Tiling
  <2>5. QED
    BY <1>2, <2>2, <2>3, <2>4 DEF Recorded, Start
<1>4. ASSUME NEW i \in 1..TailId PROVE head.files[i] <= Len(Piece(i))
  <2>1. /\ i \in 1..ChunkCount /\ head.files[i] \in 0..size
        /\ (i < TailId => head.files[i] = size)
    BY <1>1, <1>2, <1>3
  <2>2. /\ Start(i, size) \in Nat /\ Len(Piece(i)) \in 0..size
        /\ i < ChunkCount => Len(Piece(i)) = size
        /\ i = ChunkCount => Start(i, size) + Len(Piece(i)) = Len(journal)
    BY <2>1, Pieces
  <2>3. CASE i < ChunkCount
    BY <1>1, <2>1, <2>2, <2>3
  <2>4. CASE i = ChunkCount
    <3>1. i = TailId
      BY <1>1, <1>2, <1>3, <2>4
    <3>2. QED
      BY <1>1, <2>1, <2>2, <2>4, <3>1 DEF Recorded
  <2>5. QED
    BY <1>2, <2>1, <2>3, <2>4
<1>5. QED
  BY <1>3, <1>4

LEMMA PartsOrdered ==
  ASSUME Typed, Named, Committed
  PROVE  /\ Recorded \in Nat
         /\ \A i \in 1..TailId :
              Start(i, size) \in Nat /\ Start(i, size) + head.files[i] <= Recorded
<1>1. /\ TailId \in Nat \ {0} /\ size \in Nat \ {0}
      /\ \A i \in 1..TailId : head.files[i] \in 0..size /\ (i < TailId => head.files[i] = size)
  BY PartLengths
<1>2. Start(TailId, size) \in Nat /\ head.files[TailId] \in Nat
  <2>1. Start(TailId, size) \in Nat
    BY <1>1, Tiling, TailId < TailId + 1 DEF Start
  <2>2. QED
    BY <1>1, <2>1
<1>3. ASSUME NEW i \in 1..TailId
      PROVE  Start(i, size) \in Nat /\ Start(i, size) + head.files[i] <= Recorded
  <2>1. CASE i = TailId
    BY <1>1, <1>2, <2>1 DEF Recorded
  <2>2. CASE i < TailId
    <3>1. /\ (i - 1) * size \in Nat /\ i * size = (i - 1) * size + size
          /\ i * size <= (TailId - 1) * size
      BY <1>1, <2>2, Tiling
    <3>2. head.files[i] = size
      BY <1>1, <2>2
    <3>3. QED
      BY <1>1, <1>2, <3>1, <3>2 DEF Recorded, Start
  <2>3. QED
    BY <1>1, <2>1, <2>2
<1>4. QED
  BY <1>2, <1>3 DEF Recorded

\* The journal a load takes up continues what is recorded.
LEMMA LoadContinues ==
  ASSUME Typed, Named, Committed
  PROVE  /\ Assembled \in Seq(Operation) /\ Len(Assembled) = Recorded
         /\ Durable = SlimAll(Assembled)
         /\ \A i \in 1..TailId :
              SlimAll(Part(i)) =
                SubSeq(SlimAll(Assembled), Start(i, size) + 1, Start(i, size) + head.files[i])
<1>1. Whole /\ Readable
  BY LoadIsWhole, NamedIsReadable DEF AlwaysReadable
<1>2. ASSUME NEW i \in 1..TailId
      PROVE  SlimAll(Part(i)) =
               SubSeq(SlimAll(Assembled), Start(i, size) + 1, Start(i, size) + head.files[i])
  <2> DEFINE a == Start(i, size) + 1
             b == Start(i, size) + head.files[i]
  <2>1. Part(i) = SubSeq(Assembled, a, b)
    BY <1>1 DEF Whole
  <2>2. a \in Nat \ {0} /\ b \in Nat /\ b <= Len(Assembled) /\ Assembled \in Seq(Operation)
    BY <1>1, PartsOrdered, PartLengths DEF Whole
  <2> HIDE DEF a, b
  <2>3. SlimAll(SubSeq(Assembled, a, b)) = SubSeq(SlimAll(Assembled), a, b)
    BY <2>2, SlimSubSeq
  <2>4. QED
    BY <2>1, <2>3 DEF a, b
<1>3. QED
  BY <1>1, <1>2 DEF Whole, Durable

LEMMA SameDisk ==
  ASSUME UNCHANGED <<chunk, head>>
  PROVE  Durable' = Durable /\ Committed' = Committed /\ TailId' = TailId
  BY DEF Durable, Committed, Readable, Assembled, TailId

-----------------------------------------------------------------------------
(* One lemma per kind of step: it keeps the invariant, and it is a step of the log. *)

\* What stands for the draft of the commit log.
Draft == IF pc = "down" THEN Durable ELSE SlimAll(journal)

LogStep ==
  \/ Durable' = Durable /\ Draft' = Draft
  \/ Durable' = Durable /\ \E op \in Operation : Draft' = Append(Draft, op)
  \/ Durable' = Draft /\ Draft' = Draft
  \/ Durable' = Durable /\ Draft' = Durable

LEMMA InitInv ==
  ASSUME Init
  PROVE  StoreInv /\ Durable = <<>> /\ Draft = <<>>
<1>1. ~Committed /\ head.files = <<>> /\ head.tick = 0 /\ sidecar.tick = 0
  BY DEF Init, NoHead, NoSidecar, Committed
<1>2. Typed
  <2>1. DOMAIN chunk = {} /\ journal = <<>> /\ clock = 0
    BY DEF Init
  <2>2. 0 \in 0..MaxTick
    BY BoundsAssumption
  <2>3. QED
    BY <1>1, <2>1, <2>2 DEF Init, Typed
<1>3. Named /\ Continued /\ Written
  BY <1>1 DEF Init, Named, Continued, Written
<1>4. QED
  BY <1>1, <1>2, <1>3 DEF StoreInv, Durable, Draft, Init

\* A process comes up, with nothing or with what it loads; no step of it has touched the disk.
LEMMA TakenUp ==
  ASSUME StoreInv, OneSize, pc = "down", Configure, UNCHANGED <<chunk, head, sidecar>>,
         pc' \in {"idle", "chunks"}, after' \in {"down", "idle"}, at' \in Nat \ {0},
         pc' = "chunks" => at' = 1,
         journal' \in Seq(Operation), clock' \in 0..MaxTick,
         Committed => SlimAll(journal') = SlimAll(Assembled),
         ~Committed => journal' = <<>>
  PROVE  StoreInv' /\ LogStep
<1> USE DEF StoreInv
<1>1. size' = size /\ size \in ChunkSizes
  BY DEF OneSize, Configure, Typed
<1>2. Typed'
  BY <1>1 DEF Typed
<1>3. Durable' = Durable /\ Committed' = Committed /\ TailId' = TailId
  BY SameDisk
<1>4. Named'
  BY <1>1, <1>3 DEF Named
<1>5. SlimAll(journal') = Durable
  <2>1. CASE Committed
    BY <2>1, LoadContinues
  <2>2. CASE ~Committed
    BY <2>2 DEF Durable, SlimAll
  <2>3. QED
    BY <2>1, <2>2
<1>6. Continued'
  <2>1. SUFFICES ASSUME Committed
                 PROVE  /\ Recorded <= Len(journal')
                        /\ \A i \in 1..TailId :
                             SlimAll(Part(i)) =
                               SubSeq(SlimAll(journal'), Start(i, size) + 1,
                                      Start(i, size) + head.files[i])
    BY <1>1, <1>3 DEF Continued, Recorded, Part
  <2>2. Len(journal') = Recorded
    <3>1. Len(SlimAll(journal')) = Len(journal') /\ Len(SlimAll(Assembled)) = Len(Assembled)
      BY <2>1, LoadContinues, SlimSequence
    <3>2. QED
      BY <2>1, <3>1, LoadContinues
  <2>3. QED
    BY <2>1, <2>2, LoadContinues, PartsOrdered
<1>7. Written'
  <2>1. \A i \in Nat \ {0} : ~(i < 1)
    OBVIOUS
  <2>2. SUFFICES ASSUME pc' = "chunks", NEW i \in 1..ChunkCount', i < 1 PROVE FALSE
    BY DEF Written
  <2>3. QED
    BY <2>2
<1>8. Draft' = Draft
  BY <1>3, <1>5 DEF Draft
<1>9. QED
  BY <1>2, <1>3, <1>4, <1>6, <1>7, <1>8 DEF LogStep

LEMMA ReplayTick ==
  ASSUME Typed, NEW ops \in Seq(Operation)
  PROVE  ReplayClock(ops) \in 0..MaxTick
<1>1. CASE ops = <<>>
  BY <1>1 DEF ReplayClock, Typed
<1>2. CASE ops # <<>>
  <2>1. Len(ops) \in 1..Len(ops)
    BY <1>2, EmptySeq, LenProperties
  <2>2. ops[Len(ops)] \in Operation
    BY <2>1, ElementOfSeq
  <2>3. QED
    BY <1>2, <2>2 DEF ReplayClock, Operation
<1>3. QED
  BY <1>1, <1>2

LEMMA StartStep ==
  ASSUME StoreInv, OneSize, Seed \/ Load \/ Repair \/ Compact
  PROVE  StoreInv' /\ LogStep
<1> USE DEF StoreInv
<1>1. CASE Seed
  <2>1. /\ pc = "down" /\ ~Committed /\ Configure /\ UNCHANGED <<chunk, head, sidecar>>
        /\ pc' = "idle" /\ after' = "idle" /\ at' = at /\ journal' = <<>> /\ clock' = 0
    BY <1>1 DEF Seed, Hold, disk
  <2>2. 0 \in 0..MaxTick /\ <<>> \in Seq(Operation)
    BY BoundsAssumption
  <2>3. at \in Nat \ {0}
    BY DEF Typed
  <2> HIDE DEF StoreInv
  <2>4. QED
    BY <2>1, <2>2, <2>3, TakenUp
<1>2. CASE Load
  <2>1. /\ pc = "down" /\ Committed /\ Configure /\ UNCHANGED <<chunk, head, sidecar>>
        /\ pc' = "idle" /\ after' = "idle" /\ at' = at /\ journal' = Assembled
        /\ clock' \in {sidecar.tick, ReplayClock(Assembled)}
    BY <1>2 DEF Load, Hold, disk
  <2>2. Assembled \in Seq(Operation)
    BY <2>1, LoadContinues
  <2>3. clock' \in 0..MaxTick /\ at \in Nat \ {0}
    BY <2>1, <2>2, ReplayTick DEF Typed
  <2> HIDE DEF StoreInv
  <2>4. QED
    BY <2>1, <2>2, <2>3, TakenUp
<1>3. CASE Repair
  <2>1. /\ pc = "down" /\ Committed /\ Configure /\ UNCHANGED <<chunk, head, sidecar>>
        /\ pc' = "chunks" /\ after' = "idle" /\ at' = 1 /\ journal' = Assembled
        /\ clock' = ReplayClock(Assembled)
    BY <1>3 DEF Repair, Hold, disk
  <2>2. Assembled \in Seq(Operation)
    BY <2>1, LoadContinues
  <2>3. clock' \in 0..MaxTick
    BY <2>1, <2>2, ReplayTick
  <2> HIDE DEF StoreInv
  <2>4. QED
    BY <2>1, <2>2, <2>3, TakenUp
<1>4. CASE Compact
  <2>1. /\ pc = "down" /\ Committed /\ Configure /\ UNCHANGED <<chunk, head, sidecar>>
        /\ pc' = "chunks" /\ after' = "down" /\ at' = 1 /\ journal' = SlimAll(Assembled)
        /\ clock' = ReplayClock(SlimAll(Assembled))
    BY <1>4 DEF Compact, Hold, disk
  <2>2. /\ SlimAll(Assembled) \in Seq(Operation)
        /\ SlimAll(SlimAll(Assembled)) = SlimAll(Assembled)
    BY <2>1, LoadContinues, SlimSequence, SlimTwice
  <2>3. clock' \in 0..MaxTick
    BY <2>1, <2>2, ReplayTick
  <2> HIDE DEF StoreInv
  <2>4. QED
    BY <2>1, <2>2, <2>3, TakenUp
<1>5. QED
  BY <1>1, <1>2, <1>3, <1>4

\* An end, by a kill or because all is done: the disk stays, memory goes.
LEMMA Ended ==
  ASSUME StoreInv, UNCHANGED <<chunk, head, size>>, pc' = "down", Forget,
         sidecar'.tick \in 0..MaxTick, after' \in {"down", "idle"}, at' \in Nat \ {0}
  PROVE  StoreInv' /\ LogStep
<1> USE DEF StoreInv
<1>1. Durable' = Durable /\ Committed' = Committed /\ TailId' = TailId
  BY SameDisk
<1>2. Typed'
  <2>1. 0 \in 0..MaxTick /\ <<>> \in Seq(Operation)
    BY BoundsAssumption
  <2>2. journal' = <<>> /\ clock' = 0
    BY DEF Forget, Hold
  <2>3. QED
    BY <2>1, <2>2 DEF Typed
<1>3. Named'
  BY <1>1 DEF Named
<1>4. Continued' /\ Written'
  BY DEF Continued, Written
<1>5. QED
  BY <1>1, <1>2, <1>3, <1>4 DEF LogStep, Draft

\* A step that moves neither the disk nor the journal.
LEMMA Idling ==
  ASSUME StoreInv, UNCHANGED <<chunk, head, size, journal>>, pc # "down", pc' # "down",
         Typed', pc' = "chunks" => pc = "idle" /\ at' = 1
  PROVE  StoreInv' /\ LogStep
<1> USE DEF StoreInv
<1>1. Durable' = Durable /\ Committed' = Committed /\ TailId' = TailId
  BY SameDisk
<1>2. Named'
  BY <1>1 DEF Named
<1>3. Continued'
  BY <1>1 DEF Continued, Recorded, Part
<1>4. Written'
  <2>1. SUFFICES ASSUME pc' = "chunks", NEW i \in 1..ChunkCount', i < 1 PROVE FALSE
    BY DEF Written
  <2>2. QED
    BY <2>1
<1>5. QED
  BY <1>1, <1>2, <1>3, <1>4 DEF LogStep, Draft

LEMMA SubmitStep ==
  ASSUME StoreInv, NEW b \in Body, Submit(b)
  PROVE  StoreInv' /\ LogStep
<1> USE DEF StoreInv
<1> DEFINE op == [tick |-> clock, body |-> b]
<1>1. /\ pc = "idle" /\ pc' = "idle" /\ UNCHANGED <<chunk, head, sidecar, after, size, at>>
      /\ journal' = Append(journal, op) /\ clock' = clock
  BY DEF Submit, Hold, disk, process
<1>2. op \in Operation /\ journal \in Seq(Operation)
  BY DEF Typed, Operation
<1> HIDE DEF op
<1>3. /\ journal' \in Seq(Operation) /\ Len(journal') = Len(journal) + 1
      /\ Len(journal) \in Nat
  BY <1>1, <1>2, AppendProperties, LenProperties
<1>4. Typed'
  BY <1>1, <1>3 DEF Typed
<1>5. Durable' = Durable /\ Committed' = Committed /\ TailId' = TailId
  BY <1>1, SameDisk
<1>6. Named'
  BY <1>1, <1>5 DEF Named
<1>7. SlimAll(journal') = Append(SlimAll(journal), SlimOp(op)) /\ SlimOp(op) \in Operation
  BY <1>1, <1>2, SlimAppend, SlimOperation
<1>8. Continued'
  <2>1. SUFFICES ASSUME Committed
                 PROVE  /\ Recorded <= Len(journal')
                        /\ \A i \in 1..TailId :
                             SlimAll(Part(i)) =
                               SubSeq(SlimAll(journal'), Start(i, size) + 1,
                                      Start(i, size) + head.files[i])
    BY <1>1, <1>5 DEF Continued, Recorded, Part
  <2>2. Recorded <= Len(journal) /\ Recorded \in Nat
    BY <1>1, <2>1, PartsOrdered DEF Continued
  <2>3. ASSUME NEW i \in 1..TailId
        PROVE  SlimAll(Part(i)) =
                 SubSeq(SlimAll(journal'), Start(i, size) + 1, Start(i, size) + head.files[i])
    <3> DEFINE l == SlimAll(journal)
               x == SlimOp(op)
               m == Start(i, size) + 1
               n == Start(i, size) + head.files[i]
    <3>1. SlimAll(Part(i)) = SubSeq(l, m, n)
      BY <1>1, <2>1 DEF Continued
    <3>2. l \in Seq(Operation) /\ Len(l) = Len(journal) /\ x \in Operation
      BY <1>2, <1>7, SlimSequence
    <3>3. m \in Nat \ {0} /\ n \in Nat /\ n <= Len(journal)
      BY <1>3, <2>1, <2>2, PartsOrdered, PartLengths
    <3> HIDE DEF l, x, m, n
    <3>4. SubSeq(Append(l, x), m, n) = SubSeq(l, m, n)
      <4>1. CASE m > n
        BY <3>2, <3>3, <4>1, SubSeqEmpty, AppendProperties
      <4>2. CASE m <= n
        <5>1. m \in 1..Len(l) /\ n \in 1..Len(l) + 1 /\ n # Len(l) + 1
          BY <1>3, <3>2, <3>3, <4>2
        <5>2. Append(l, x) = l \o <<x>> /\ <<x>> \in Seq(Operation)
          BY <3>2, AppendIsConcat
        <5>3. m \in 1..Len(l) /\ n \in 1..Len(l)
          BY <1>3, <3>2, <5>1
        <5>4. QED
          BY <3>2, <5>2, <5>3, SubSeqOfConcat1
      <4>3. m > n \/ m <= n
        BY <3>3
      <4>4. QED
        BY <4>1, <4>2, <4>3
    <3>5. QED
      BY <1>7, <3>1, <3>4 DEF l, x, m, n
  <2>4. QED
    BY <1>3, <2>2, <2>3
<1>9. Written'
  BY <1>1 DEF Written
<1>10. LogStep
  BY <1>1, <1>5, <1>7 DEF LogStep, Draft
<1>11. QED
  BY <1>4, <1>6, <1>8, <1>9, <1>10

LEMMA QuietStep ==
  ASSUME StoreInv, (\E t \in 1..MaxTick : SetClock(t)) \/ BeginSave \/ Crash \/ WriteSidecar
  PROVE  StoreInv' /\ LogStep
<1> USE DEF StoreInv
<1>1. ASSUME NEW t \in 1..MaxTick, SetClock(t) PROVE StoreInv' /\ LogStep
  <2>1. /\ pc = "idle" /\ pc' = "idle" /\ journal' = journal /\ clock' = t
        /\ UNCHANGED <<chunk, head, sidecar, after, size, at>>
    BY <1>1 DEF SetClock, Hold, disk, process
  <2>2. t \in 0..MaxTick
    BY BoundsAssumption
  <2>3. Typed'
    BY <2>1, <2>2 DEF Typed
  <2> HIDE DEF StoreInv
  <2>4. QED
    BY <2>1, <2>3, Idling
<1>2. CASE BeginSave
  <2>1. /\ pc = "idle" /\ pc' = "chunks" /\ at' = 1
        /\ UNCHANGED <<chunk, head, sidecar, after, size, journal, clock>>
    BY <1>2 DEF BeginSave, disk, process, memory
  <2>2. Typed'
    BY <2>1 DEF Typed
  <2> HIDE DEF StoreInv
  <2>3. QED
    BY <2>1, <2>2, Idling
<1>3. CASE Crash
  <2>1. /\ Forget /\ pc' = "down" /\ after' = "down" /\ at' = 1
        /\ UNCHANGED <<chunk, head, sidecar, size>>
    BY <1>3 DEF Crash, disk
  <2>2. sidecar'.tick \in 0..MaxTick
    BY <2>1 DEF Typed
  <2> HIDE DEF StoreInv
  <2>3. QED
    BY <2>1, <2>2, Ended
<1>4. CASE WriteSidecar
  <2>1. /\ pc = "sidecar" /\ pc' = after /\ UNCHANGED <<chunk, head, after, size, at>>
        /\ IF after = "down" THEN Forget ELSE journal' = journal /\ clock' = clock
        /\ sidecar' \in {[there |-> TRUE, seal |-> built, tick |-> clock], NoSidecar}
    BY <1>4 DEF WriteSidecar, process, memory
  <2>2. sidecar'.tick \in 0..MaxTick /\ after \in {"down", "idle"} /\ at \in Nat \ {0}
    BY <2>1, BoundsAssumption DEF NoSidecar, Typed
  <2>3. CASE after = "down"
    <3> HIDE DEF StoreInv
    <3>1. QED
      BY <2>1, <2>2, <2>3, Ended
  <2>4. CASE after # "down"
    <3>1. pc' = "idle" /\ journal' = journal /\ clock' = clock
      BY <2>1, <2>2, <2>4
    <3>2. Typed'
      BY <2>1, <2>2, <3>1 DEF Typed
    <3> HIDE DEF StoreInv
    <3>3. QED
      BY <2>1, <3>1, <3>2, Idling
  <2>5. QED
    BY <2>3, <2>4
<1>5. QED
  BY <1>1, <1>2, <1>3, <1>4

\* A change of the chunks that keeps all the head names of them, up to the detail.
LEMMA ChunksChange ==
  ASSUME StoreInv, pc = "chunks", UNCHANGED <<head, sidecar, size, after, pc, journal, clock>>,
         at' \in Nat \ {0},
         \A i \in DOMAIN chunk' : chunk'[i] \in Seq(Operation) /\ Len(chunk'[i]) <= size,
         Committed => \A i \in 1..TailId :
                        /\ i \in DOMAIN chunk' /\ head.files[i] <= Len(chunk'[i])
                        /\ SlimAll(SubSeq(chunk'[i], 1, head.files[i])) = SlimAll(Part(i)),
         Written'
  PROVE  StoreInv' /\ LogStep
<1> USE DEF StoreInv
<1>1. Typed'
  BY DEF Typed
<1>2. Committed' = Committed /\ TailId' = TailId /\ Recorded' = Recorded
  BY DEF Committed, TailId, Recorded
<1>3. Named'
  BY <1>2 DEF Named
<1>4. Continued'
  BY <1>2 DEF Continued, Part
<1>5. Durable' = Durable
  <2>1. CASE Committed
    <3>1. Agree
      BY <2>1, ContinuedAgrees
    <3>2. (Typed /\ Named /\ Continued /\ Committed /\ pc # "down" => Agree)'
      BY ContinuedAgrees, PTL
    <3>3. Agree'
      BY <1>1, <1>2, <1>3, <1>4, <2>1, <3>2
    <3>4. QED
      BY <1>2, <3>1, <3>3 DEF Agree
  <2>2. CASE ~Committed
    BY <1>2, <2>2 DEF Durable
  <2>3. QED
    BY <2>1, <2>2
<1>6. QED
  BY <1>1, <1>3, <1>4, <1>5 DEF LogStep, Draft

LEMMA PrefixOfPiece ==
  ASSUME NEW S, NEW q \in Seq(S), NEW a \in Nat, NEW b \in Nat, a + b <= Len(q), NEW k \in 0..b
  PROVE  SubSeq(SubSeq(q, a + 1, a + b), 1, k) = SubSeq(q, a + 1, a + k)
<1>1. CASE k = 0
  BY <1>1, SubSeqEmpty
<1>2. CASE k # 0
  <2> DEFINE i == a + 1
             j == a + b
  <2>1. /\ i \in 1..Len(q) /\ j \in 1..Len(q) /\ 1 \in 1..j - i + 1 /\ k \in 1..j - i + 1
        /\ i + 1 - 1 = a + 1 /\ i + k - 1 = a + k
    BY <1>2, LenProperties
  <2> HIDE DEF i, j
  <2>2. SubSeq(SubSeq(q, i, j), 1, k) = SubSeq(q, i + 1 - 1, i + k - 1)
    BY <2>1, SubSeqOfSubSeq
  <2>3. QED
    BY <2>1, <2>2 DEF i, j
<1>3. QED
  BY <1>1, <1>2

LEMMA SlimPiece ==
  ASSUME Typed, NEW i \in 1..ChunkCount
  PROVE  /\ SlimAll(Piece(i)) =
              SubSeq(SlimAll(journal), Start(i, size) + 1, Start(i, size) + Len(Piece(i)))
         /\ Len(SlimAll(Piece(i))) = Len(Piece(i))
<1> DEFINE a == Start(i, size) + 1
           b == Start(i, size) + Len(Piece(i))
<1>1. /\ a \in Nat \ {0} /\ b \in Nat /\ b <= Len(journal) /\ journal \in Seq(Operation)
      /\ Piece(i) = SubSeq(journal, a, b) /\ Piece(i) \in Seq(Operation)
  BY Pieces DEF Typed
<1> HIDE DEF a, b
<1>2. SlimAll(SubSeq(journal, a, b)) = SubSeq(SlimAll(journal), a, b)
  BY <1>1, SlimSubSeq
<1>3. QED
  BY <1>1, <1>2, SlimSequence DEF a, b

\* A piece written over a chunk begins with what the head records of the chunk.
LEMMA PieceCovers ==
  ASSUME Typed, Named, Continued, pc # "down", Committed, NEW i \in 1..TailId
  PROVE  /\ i \in 1..ChunkCount
         /\ head.files[i] <= Len(Piece(i))
         /\ SlimAll(SubSeq(Piece(i), 1, head.files[i])) = SlimAll(Part(i))
<1>1. Recorded <= Len(journal)
  BY DEF Continued
<1>2. /\ i \in 1..ChunkCount /\ head.files[i] <= Len(Piece(i)) /\ head.files[i] \in Nat
  BY <1>1, Within, Pieces, PartLengths
<1>3. /\ Start(i, size) \in Nat /\ Len(Piece(i)) \in Nat /\ Piece(i) \in Seq(Operation)
      /\ Start(i, size) + Len(Piece(i)) <= Len(journal)
  BY <1>2, Pieces
<1> DEFINE k == head.files[i]
           l == Len(Piece(i))
           q == SlimAll(journal)
           a == Start(i, size)
<1>4. /\ q \in Seq(Operation) /\ Len(q) = Len(journal)
      /\ SlimAll(Piece(i)) = SubSeq(q, a + 1, a + l)
      /\ SlimAll(Part(i)) = SubSeq(q, a + 1, a + k)
  BY <1>2, SlimPiece, SlimSequence DEF Typed, Continued
<1>5. k \in 0..l /\ l \in Nat /\ a \in Nat /\ a + l <= Len(q)
  BY <1>2, <1>3, <1>4
<1>6. l = Len(Piece(i)) /\ k = head.files[i]
  OBVIOUS
<1> HIDE DEF k, l, q, a
<1>7. SubSeq(SubSeq(q, a + 1, a + l), 1, k) = SubSeq(q, a + 1, a + k)
  BY <1>4, <1>5, PrefixOfPiece
<1>8. SlimAll(SubSeq(Piece(i), 1, k)) = SubSeq(SlimAll(Piece(i)), 1, k)
  <2> DEFINE p == Piece(i)
  <2>1. p \in Seq(Operation) /\ k \in Nat /\ k <= Len(p)
    BY <1>3, <1>5, <1>6
  <2> HIDE DEF p
  <2>2. SlimAll(SubSeq(p, 1, k)) = SubSeq(SlimAll(p), 1, k)
    BY <2>1, SlimSubSeq
  <2>3. QED
    BY <2>2 DEF p
<1>9. QED
  BY <1>2, <1>4, <1>6, <1>7, <1>8

\* A chunk that is kept holds its piece already.
LEMMA KeptIsWritten ==
  ASSUME StoreInv, pc # "down", NEW i \in 1..ChunkCount, Kept(i)
  PROVE  i \in DOMAIN chunk /\ SlimAll(chunk[i]) = SlimAll(Piece(i))
<1> USE DEF StoreInv
<1>1. i \in 1..TailId /\ head.files[i] = size /\ Len(Piece(i)) = size /\ i \in DOMAIN chunk
  BY Pieces DEF Kept
<1>2. Committed
  <2>1. SUFFICES ASSUME head.files = <<>> PROVE FALSE
    BY DEF Committed
  <2>2. TailId = 0
    BY <2>1, EmptySeq DEF TailId
  <2>3. QED
    BY <1>1, <2>2
<1>3. chunk[i] \in Seq(Operation) /\ Len(chunk[i]) = size
  <2>1. /\ chunk[i] \in Seq(Operation) /\ Len(chunk[i]) <= size /\ head.files[i] <= Len(chunk[i])
        /\ size \in Nat
    BY <1>1, <1>2, SizeAssumption DEF Typed, Named
  <2>2. Len(chunk[i]) \in Nat
    BY <2>1, LenProperties
  <2>3. QED
    BY <1>1, <2>1, <2>2
<1>4. Part(i) = chunk[i]
  BY <1>1, <1>3, SubSeqFull DEF Part
<1>5. SubSeq(Piece(i), 1, size) = Piece(i)
  BY <1>1, Pieces, SubSeqFull
<1>6. SlimAll(SubSeq(Piece(i), 1, head.files[i])) = SlimAll(Part(i))
  BY <1>1, <1>2, PieceCovers
<1>7. QED
  BY <1>1, <1>4, <1>5, <1>6

LEMMA WriteChunkStep ==
  ASSUME StoreInv, WriteChunk
  PROVE  StoreInv' /\ LogStep
<1>1. /\ pc = "chunks" /\ at \in 1..ChunkCount /\ at' = at + 1 /\ at' \in Nat \ {0}
      /\ UNCHANGED <<head, sidecar, size, after, pc, journal, clock>>
      /\ ChunkCount \in Nat
  BY Pieces DEF WriteChunk, StoreInv, Typed, process, memory
<1>2. ChunkCount' = ChunkCount /\ \A i : Piece(i)' = Piece(i)
  BY <1>1 DEF ChunkCount, Piece
<1>3. CASE Kept(at)
  <2>1. chunk' = chunk
    BY <1>3 DEF WriteChunk
  <2>2. Written'
    <3>1. SUFFICES ASSUME NEW i \in 1..ChunkCount, i < at + 1
                   PROVE  i \in DOMAIN chunk /\ SlimAll(chunk[i]) = SlimAll(Piece(i))
      BY <1>1, <1>2, <2>1 DEF Written
    <3>2. CASE i = at
      BY <1>1, <1>3, <3>2, KeptIsWritten
    <3>3. CASE i < at
      BY <1>1, <3>3 DEF StoreInv, Written
    <3>4. QED
      BY <1>1, <3>1, <3>2, <3>3
  <2>3. /\ \A i \in DOMAIN chunk' : chunk'[i] \in Seq(Operation) /\ Len(chunk'[i]) <= size
        /\ Committed => \A i \in 1..TailId :
                          /\ i \in DOMAIN chunk' /\ head.files[i] <= Len(chunk'[i])
                          /\ SlimAll(SubSeq(chunk'[i], 1, head.files[i])) = SlimAll(Part(i))
    BY <2>1 DEF StoreInv, Typed, Named, Part
  <2>4. QED
    BY <1>1, <2>2, <2>3, ChunksChange
<1>4. CASE ~Kept(at)
  <2>1. /\ DOMAIN chunk' = DOMAIN chunk \cup {at} /\ chunk'[at] = Piece(at)
        /\ \A i \in DOMAIN chunk : i # at => chunk'[i] = chunk[i]
    BY <1>4 DEF WriteChunk
  <2>2. Piece(at) \in Seq(Operation) /\ Len(Piece(at)) <= size
    BY <1>1, Pieces DEF StoreInv
  <2>3. Written'
    <3>1. SUFFICES ASSUME NEW i \in 1..ChunkCount, i < at + 1
                   PROVE  i \in DOMAIN chunk' /\ SlimAll(chunk'[i]) = SlimAll(Piece(i))
      BY <1>1, <1>2 DEF Written
    <3>2. CASE i = at
      BY <2>1, <3>2
    <3>3. CASE i < at
      BY <1>1, <2>1, <3>3 DEF StoreInv, Written
    <3>4. QED
      BY <1>1, <3>1, <3>2, <3>3
  <2>4. \A i \in DOMAIN chunk' : chunk'[i] \in Seq(Operation) /\ Len(chunk'[i]) <= size
    BY <2>1, <2>2 DEF StoreInv, Typed
  <2>5. ASSUME Committed, NEW i \in 1..TailId
        PROVE  /\ i \in DOMAIN chunk' /\ head.files[i] <= Len(chunk'[i])
               /\ SlimAll(SubSeq(chunk'[i], 1, head.files[i])) = SlimAll(Part(i))
    <3>1. CASE i = at
      BY <1>1, <2>1, <2>5, <3>1, PieceCovers DEF StoreInv
    <3>2. CASE i # at
      BY <2>1, <2>5, <3>2 DEF StoreInv, Named, Part
    <3>3. QED
      BY <3>1, <3>2
  <2>6. QED
    BY <1>1, <2>3, <2>4, <2>5, ChunksChange
<1>5. QED
  BY <1>3, <1>4

LEMMA DropStaleStep ==
  ASSUME StoreInv, DropStale
  PROVE  StoreInv' /\ LogStep
<1>1. /\ pc = "chunks" /\ at' = at /\ at' \in Nat \ {0}
      /\ UNCHANGED <<head, sidecar, size, after, pc, journal, clock>>
      /\ ChunkCount \in Nat
  BY Pieces DEF DropStale, StoreInv, Typed, process, memory
<1>2. ChunkCount' = ChunkCount /\ \A i : Piece(i)' = Piece(i)
  BY <1>1 DEF ChunkCount, Piece
<1>3. PICK old \in Stale : chunk' = [j \in DOMAIN chunk \ {old} |-> chunk[j]]
  BY DEF DropStale
<1>4. \A i \in 1..ChunkCount : i # old
  BY <1>1, <1>3 DEF Stale
<1>5. Written'
  BY <1>1, <1>2, <1>3, <1>4 DEF StoreInv, Written
<1>6. \A i \in DOMAIN chunk' : chunk'[i] \in Seq(Operation) /\ Len(chunk'[i]) <= size
  BY <1>3 DEF StoreInv, Typed
<1>7. ASSUME Committed, NEW i \in 1..TailId
      PROVE  /\ i \in DOMAIN chunk' /\ head.files[i] <= Len(chunk'[i])
             /\ SlimAll(SubSeq(chunk'[i], 1, head.files[i])) = SlimAll(Part(i))
  <2>1. i \in 1..ChunkCount
    BY <1>1, <1>7, PieceCovers DEF StoreInv
  <2>2. i \in DOMAIN chunk /\ head.files[i] <= Len(chunk[i])
    BY <1>7 DEF StoreInv, Named
  <2>3. QED
    BY <1>3, <1>4, <2>1, <2>2 DEF Part
<1>8. QED
  BY <1>1, <1>5, <1>6, <1>7, ChunksChange

LEMMA WriteHeadStep ==
  ASSUME StoreInv, WriteHead
  PROVE  StoreInv' /\ LogStep
<1> USE DEF StoreInv
<1> DEFINE c == ChunkCount
<1>1. /\ pc = "chunks" /\ pc' = "sidecar" /\ at > c
      /\ head' = [files |-> [i \in 1..c |-> Len(Piece(i))], seal |-> built, tick |-> clock]
      /\ UNCHANGED <<chunk, sidecar, size, after, at, journal, clock>>
  BY DEF WriteHead, process, memory
<1>2. /\ c \in Nat \ {0} /\ size \in Nat \ {0} /\ at \in Nat
      /\ \A i \in 1..c :
           /\ Start(i, size) \in Nat /\ Len(Piece(i)) \in 0..size
           /\ i < c => Len(Piece(i)) = size
           /\ i = c => Start(i, size) + Len(Piece(i)) = Len(journal)
           /\ c > 1 => Len(Piece(i)) > 0
  BY Pieces DEF Typed
<1>3. ASSUME NEW i \in 1..c
      PROVE  /\ i \in DOMAIN chunk /\ SlimAll(chunk[i]) = SlimAll(Piece(i))
             /\ chunk[i] \in Seq(Operation) /\ Len(chunk[i]) = Len(Piece(i))
             /\ SlimAll(chunk[i]) = SubSeq(SlimAll(journal), Start(i, size) + 1,
                                           Start(i, size) + Len(Piece(i)))
             /\ SubSeq(chunk[i], 1, Len(Piece(i))) = chunk[i]
  <2>1. i < at
    BY <1>1, <1>2
  <2>2. i \in DOMAIN chunk /\ SlimAll(chunk[i]) = SlimAll(Piece(i))
    BY <1>1, <2>1 DEF Written
  <2>3. chunk[i] \in Seq(Operation) /\ Len(SlimAll(chunk[i])) = Len(chunk[i])
    BY <2>2, SlimSequence DEF Typed
  <2>4. QED
    BY <2>2, <2>3, SlimPiece, SubSeqFull
<1>4. /\ head'.files \in Seq(Nat) /\ head'.tick \in 0..MaxTick /\ TailId' = c
      /\ \A i \in 1..c : head'.files[i] = Len(Piece(i))
  <2>1. head'.files = [i \in 1..c |-> Len(Piece(i))] /\ head'.tick = clock
    BY <1>1
  <2>2. \A i \in 1..c : Len(Piece(i)) \in Nat
    BY <1>2
  <2>3. head'.files \in Seq(Nat) /\ Len(head'.files) = c
    BY <1>2, <2>1, <2>2, IsASeq, LenProperties
  <2>4. QED
    BY <2>1, <2>3 DEF TailId, Typed
<1> HIDE DEF c
<1>5. Committed'
  BY <1>2, <1>4, EmptySeq DEF Committed, TailId
<1>6. Typed'
  BY <1>1, <1>4 DEF Typed
<1>7. Named'
  BY <1>1, <1>2, <1>3, <1>4 DEF Named
<1>8. Recorded' = Len(journal)
  BY <1>1, <1>2, <1>4 DEF Recorded
<1>9. Continued'
  <2>1. ASSUME NEW i \in 1..c
        PROVE  SlimAll(Part(i)') = SubSeq(SlimAll(journal), Start(i, size) + 1,
                                         Start(i, size) + head'.files[i])
    <3>1. Part(i)' = chunk[i]
      BY <1>1, <1>3, <1>4 DEF Part
    <3>2. QED
      BY <1>3, <1>4, <3>1
  <2>2. Len(journal) <= Len(journal)
    BY LenProperties DEF Typed
  <2>3. QED
    BY <1>1, <1>4, <1>8, <2>1, <2>2 DEF Continued
<1>10. Written'
  BY <1>1 DEF Written
<1>11. Durable' = Draft
  <2>1. (Typed /\ Named /\ Continued /\ Committed /\ pc # "down" => Agree)'
    BY ContinuedAgrees, PTL
  <2>2. Durable' = SubSeq(SlimAll(journal), 1, Len(journal))
    BY <1>1, <1>5, <1>6, <1>7, <1>8, <1>9, <2>1 DEF Agree
  <2>3. SlimAll(journal) \in Seq(Operation) /\ Len(SlimAll(journal)) = Len(journal)
    BY SlimSequence DEF Typed
  <2>4. SubSeq(SlimAll(journal), 1, Len(journal)) = SlimAll(journal)
    BY <2>3, SubSeqFull
  <2>5. QED
    BY <1>1, <2>2, <2>4 DEF Draft
<1>12. QED
  BY <1>1, <1>6, <1>7, <1>9, <1>10, <1>11 DEF LogStep, Draft

-----------------------------------------------------------------------------
(* The theorems. *)

LEMMA NextStep ==
  ASSUME StoreInv, OneSize, [Next]_vars
  PROVE  StoreInv' /\ LogStep
<1>1. CASE Seed \/ Load \/ Repair \/ Compact
  BY <1>1, StartStep
<1>2. CASE Crash \/ BeginSave \/ WriteSidecar \/ \E t \in 1..MaxTick : SetClock(t)
  BY <1>2, QuietStep
<1>3. CASE \E b \in Body : Submit(b)
  BY <1>3, SubmitStep
<1>4. CASE WriteChunk
  BY <1>4, WriteChunkStep
<1>5. CASE DropStale
  BY <1>5, DropStaleStep
<1>6. CASE WriteHead
  BY <1>6, WriteHeadStep
<1>7. CASE UNCHANGED vars
  <2>1. UNCHANGED <<chunk, head, sidecar, pc, after, at, size, journal, clock>>
    BY <1>7 DEF vars
  <2>2. Durable' = Durable /\ Committed' = Committed /\ TailId' = TailId
    BY <2>1, SameDisk
  <2>3. ChunkCount' = ChunkCount /\ \A i : Piece(i)' = Piece(i)
    BY <2>1 DEF ChunkCount, Piece
  <2>4. Typed' /\ Named' /\ Continued' /\ Written'
    BY <2>1, <2>2, <2>3
    DEF StoreInv, Typed, Named, Continued, Recorded, Part, Written
  <2>5. QED
    BY <2>1, <2>2, <2>4 DEF StoreInv, LogStep, Draft
<1>8. QED
  BY <1>1, <1>2, <1>3, <1>4, <1>5, <1>6, <1>7 DEF Next

\* With one chunk size the invariant holds in every state, however the processes end.
THEOREM StoreInvariant ==
  ASSUME OneSize
  PROVE  Spec => []StoreInv
<1>1. Init => StoreInv
  BY InitInv
<1>2. StoreInv /\ [Next]_vars => StoreInv'
  BY NextStep
<1>3. QED
  BY <1>1, <1>2, PTL DEF Spec

\* At every instant of a save, a compaction or a repair, a kill leaves a state file of which
\* every chunk the head names is there and holds what the head records of it.
THEOREM AlwaysLoadable ==
  ASSUME OneSize
  PROVE  Spec => []AlwaysReadable
<1>1. StoreInv => AlwaysReadable
  BY NamedIsReadable DEF StoreInv
<1>2. QED
  BY <1>1, StoreInvariant, PTL

\* The files implement the commit log: a save commits the whole journal at the instant the head
\* is replaced or nothing of it, and what was committed is what any later process takes up.
THEOREM ImplementsCommitLog ==
  ASSUME OneSize
  PROVE  Spec => RefinesCommitLog
<1>1. Init => Log!LogInit
  BY InitInv DEF Log!LogInit, Draft
<1>2. LogStep => [Log!LogNext]_(Log!lvars)
  BY DEF LogStep, Draft, Log!LogNext, Log!Record, Log!Commit, Log!Restart, Log!lvars
<1>3. StoreInv /\ [Next]_vars => [Log!LogNext]_(Log!lvars)
  BY <1>2, NextStep
<1>4. QED
  BY <1>1, <1>3, StoreInvariant, PTL DEF Spec, RefinesCommitLog, Log!LogSpec

\* So a process always continues what is committed, and what is committed stays: no crash,
\* repair or compaction takes any of it back, but for what compaction strips.
LEMMA DraftContinues ==
  ASSUME StoreInv
  PROVE  Log!DraftExtendsLog
<1> USE DEF StoreInv
<1>1. CASE pc = "down"
  <2>1. Draft = Durable /\ Durable \in Seq(Operation)
    <3>1. Durable \in Seq(Operation)
      <4>1. CASE Committed
        BY <4>1, LoadContinues, SlimSequence
      <4>2. CASE ~Committed
        BY <4>2 DEF Durable
      <4>3. QED
        BY <4>1, <4>2
    <3>2. QED
      BY <1>1, <3>1 DEF Draft
  <2>2. QED
    BY <2>1, LenProperties DEF Log!DraftExtendsLog, Log!Extends, Draft
<1>2. CASE pc # "down" /\ ~Committed
  <2>1. SlimAll(journal) \in Seq(Operation) /\ Durable = <<>>
    BY <1>2, SlimSequence DEF Typed, Durable
  <2>2. QED
    BY <1>2, <2>1, LenProperties DEF Log!DraftExtendsLog, Log!Extends, Draft
<1>3. CASE pc # "down" /\ Committed
  <2> DEFINE q == SlimAll(journal)
             r == Recorded
  <2>1. q \in Seq(Operation) /\ Len(q) \in Nat /\ r \in 0..Len(q)
    BY <1>3, SlimSequence, PartsOrdered, LenProperties DEF Typed, Continued
  <2>2. Durable = SubSeq(q, 1, r) /\ Draft = q
    BY <1>3, ContinuedAgrees DEF Agree, Draft
  <2> HIDE DEF q, r
  <2>3. Len(SubSeq(q, 1, r)) = r /\ \A i \in 1..r : SubSeq(q, 1, r)[i] = q[i]
    <3>1. 1 \in 1..Len(q) + 1 /\ r \in 1 - 1..Len(q) /\ r - 1 + 1 = r
      BY <2>1
    <3>2. \A i \in 1..r : 1 + i - 1 = i
      BY <2>1
    <3>3. QED
      BY <2>1, <3>1, <3>2, SubSeqProperties
  <2>4. QED
    BY <2>1, <2>2, <2>3 DEF Log!DraftExtendsLog, Log!Extends, Draft
<1>4. QED
  BY <1>1, <1>2, <1>3

\* What was committed is never lost or changed, and what a process holds continues it.
THEOREM CommittedStays ==
  ASSUME OneSize
  PROVE  Spec => []Log!DraftExtendsLog /\ Log!LogOnlyGrows
<1>1. StoreInv => Log!DraftExtendsLog
  BY DraftContinues
<1>2. StoreInv /\ [Next]_vars => [Log!Extends(Durable', Durable)]_(Log!lvars)
  <2>1. SUFFICES ASSUME StoreInv, [Next]_vars, ~UNCHANGED Log!lvars
                 PROVE  Log!Extends(Durable', Durable)
    OBVIOUS
  <2>2. LogStep /\ Log!Extends(Draft, Durable)
    BY <2>1, NextStep, DraftContinues DEF Log!DraftExtendsLog, Draft
  <2>3. CASE Durable' = Draft
    BY <2>2, <2>3
  <2>4. CASE Durable' = Durable
    <3>1. Len(Durable) <= Len(Durable)
      <4>1. Durable \in Seq(Operation)
        BY <2>1, LoadContinues, SlimSequence DEF StoreInv, Durable
      <4>2. QED
        BY <4>1, LenProperties
    <3>2. QED
      BY <2>4, <3>1 DEF Log!Extends
  <2>5. QED
    BY <2>2, <2>3, <2>4 DEF LogStep
<1>3. QED
  BY <1>1, <1>2, StoreInvariant, PTL DEF Spec, Log!LogOnlyGrows
=============================================================================
