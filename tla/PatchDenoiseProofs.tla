------------------------- MODULE PatchDenoiseProofs -------------------------
(***************************************************************************)
(* What PatchMetadata computes and PatchDenoise does with it, for every    *)
(* height, degree, patch size, warm-up and order of the solver.            *)
(*                                                                         *)
(* First induction and recursion, with which sums and FlattenSeq are       *)
(* computed; then the split of an accepted request, the rows of a rank and *)
(* their reassembly.  The rest follows a stage through its requests: its   *)
(* counters (StageInv), the solver's history in every rank (History) and   *)
(* the caches of the attention (CachesInv).                                *)
(***************************************************************************)
EXTENDS PatchDenoise, FiniteSetTheorems, SequenceTheorems, WellFoundedInduction, TLAPS

----------------------------------------------------------------------------
(* Induction and recursion, over sets and functions: no theorem of the      *)
(* library that takes an operator is used.                                  *)

\* A set with zero that is closed under successor holds every number.
LEMMA SetInduction ==
    ASSUME NEW S, 0 \in S, \A m \in Nat : m \in S => m + 1 \in S
    PROVE  Nat \subseteq S
<1> SUFFICES ASSUME Nat \ S # {} PROVE FALSE
  OBVIOUS
<1> DEFINE T == Nat \ S
<1>1. PICK x \in T : \A y \in T : ~ (<<y, x>> \in OpToRel(<, Nat))
  BY WFMin, NatLessThanWellFounded, T \subseteq Nat, T # {}
<1>2. x \in Nat /\ x # 0 /\ x - 1 \in Nat
  OBVIOUS
<1>3. x - 1 \in T
  BY <1>2, (x-1)+1 = x
<1>4. <<x - 1, x>> \in OpToRel(<, Nat)
  BY <1>2 DEF OpToRel
<1> QED BY <1>1, <1>3, <1>4

\* g starts with base, and next[i] maps each of its values to the i-th.
Recursion(g, V, base, n, next) ==
    /\ g \in [0 .. n -> V]
    /\ g[0] = base
    /\ \A i \in 1 .. n : g[i] = next[i][g[i - 1]]

\* A value for zero and a step to the next value define a function.
LEMMA RecursionExists ==
    ASSUME NEW V, NEW base \in V, NEW n \in Nat, NEW next,
           \A i \in 1 .. n : \A v \in V : next[i][v] \in V
    PROVE  \E g : Recursion(g, V, base, n, next)
<1> DEFINE Upto(m, g) == /\ g \in [0 .. m -> V]
                         /\ g[0] = base
                         /\ \A i \in 1 .. m : g[i] = next[i][g[i - 1]]
           S == {m \in Nat : m <= n => \E g : Upto(m, g)}
<1>1. Upto(0, [i \in 0 .. 0 |-> base])
  OBVIOUS
<1>2. ASSUME NEW m \in Nat, m + 1 <= n, \E g : Upto(m, g)
      PROVE  \E g : Upto(m + 1, g)
  <2>1. PICK g : Upto(m, g)
    BY <1>2, Zenon
  <2> DEFINE h == [i \in 0 .. m + 1 |-> IF i <= m THEN g[i] ELSE next[m + 1][g[m]]]
  <2>2. g[m] \in V /\ m + 1 \in 1 .. n
    BY <1>2, <2>1
  <2>3. next[m + 1][g[m]] \in V
    BY <2>2
  <2>4. h \in [0 .. m + 1 -> V]
    BY <2>1, <2>3
  <2>5. h[0] = base
    BY <2>1
  <2>6. ASSUME NEW i \in 1 .. m + 1 PROVE h[i] = next[i][h[i - 1]]
    <3>1. CASE i <= m
      <4>1. h[i] = g[i] /\ h[i - 1] = g[i - 1] /\ i \in 1 .. m
        BY <3>1
      <4> QED  BY <4>1, <2>1
    <3>2. CASE i = m + 1
      <4>1. h[m + 1] = next[m + 1][g[m]] /\ h[m] = g[m] /\ i - 1 = m
        BY <3>2
      <4> QED  BY <4>1, <3>2
    <3> QED  BY <3>1, <3>2
  <2>7. Upto(m + 1, h)
    BY <2>4, <2>5, <2>6
  <2> QED  BY <2>7
<1>3. n \in S
  <2> HIDE DEF Upto
  <2>1. 0 \in S
    BY <1>1
  <2>2. ASSUME NEW m \in Nat, m \in S PROVE m + 1 \in S
    BY <1>2, <2>2
  <2> HIDE DEF S
  <2> QED  BY <2>1, <2>2, SetInduction
<1>4. PICK g : Upto(n, g)
  BY <1>3
<1>5. Recursion(g, V, base, n, next)
  BY <1>4 DEF Recursion
<1> QED  BY <1>5

\* The prefix sums of a list of numbers.
LEMMA SumsFacts ==
    ASSUME NEW s \in Seq(Nat)
    PROVE  /\ Sums(s) \in [0 .. Len(s) -> Nat]
           /\ Sums(s)[0] = 0
           /\ \A i \in 1 .. Len(s) : Sums(s)[i] = Sums(s)[i - 1] + s[i]
<1> DEFINE D(g) == g = [i \in 0 .. Len(s) |-> IF i = 0 THEN 0 ELSE g[i - 1] + s[i]]
           next == [i \in 1 .. Len(s) |-> [v \in Nat |-> v + s[i]]]
<1>1. \A i \in 1 .. Len(s) : s[i] \in Nat
  OBVIOUS
<1>2. \A i \in 1 .. Len(s) : \A v \in Nat : next[i][v] = v + s[i] /\ next[i][v] \in Nat
  BY <1>1
<1> HIDE DEF next, D
<1>3. PICK g : Recursion(g, Nat, 0, Len(s), next)
  <2>1. \A i \in 1 .. Len(s) : \A v \in Nat : next[i][v] \in Nat
    BY <1>2
  <2>2. 0 \in Nat /\ Len(s) \in Nat
    OBVIOUS
  <2> QED  BY <2>1, <2>2, RecursionExists, Zenon
<1>4. ASSUME NEW i \in 1 .. Len(s)
      PROVE  g[i - 1] \in Nat /\ g[i] = g[i - 1] + s[i]
  <2>1. i - 1 \in 0 .. Len(s)
    OBVIOUS
  <2> QED  BY <1>2, <1>3, <2>1 DEF Recursion
<1>5. D(g)
  <2>1. \A i \in 0 .. Len(s) : g[i] = IF i = 0 THEN 0 ELSE g[i - 1] + s[i]
    BY <1>3, <1>4, Len(s) \in Nat DEF Recursion
  <2>2. g \in [0 .. Len(s) -> Nat]
    BY <1>3 DEF Recursion
  <2>3. g = [i \in 0 .. Len(s) |-> g[i]]
    BY <2>2
  <2> QED  BY <2>1, <2>3 DEF D
<1>6. Sums(s) = CHOOSE f : D(f)
  BY DEF Sums, D
<1>7. D(Sums(s))
  BY <1>5, <1>6, Zenon
<1>8. Sums(s) = [i \in 0 .. Len(s) |-> IF i = 0 THEN 0 ELSE Sums(s)[i - 1] + s[i]]
  BY <1>7 DEF D
<1> DEFINE f == Sums(s)
           T == {m \in Nat : m <= Len(s) => f[m] \in Nat}
<1> HIDE DEF f
<1>9. f = [i \in 0 .. Len(s) |-> IF i = 0 THEN 0 ELSE f[i - 1] + s[i]]
  BY <1>8 DEF f
<1>10. f[0] = 0 /\ \A i \in 1 .. Len(s) : f[i] = f[i - 1] + s[i]
  <2>1. Len(s) \in Nat /\ 0 \in 0 .. Len(s)
    OBVIOUS
  <2>2. \A i \in 0 .. Len(s) : f[i] = IF i = 0 THEN 0 ELSE f[i - 1] + s[i]
    BY <1>9, Zenon
  <2> QED  BY <2>1, <2>2
<1>11. Nat \subseteq T
  <2>1. 0 \in T
    BY <1>10
  <2>2. ASSUME NEW m \in Nat, m \in T PROVE m + 1 \in T
    <3> SUFFICES ASSUME m + 1 <= Len(s) PROVE f[m + 1] \in Nat
      OBVIOUS
    <3>1. f[m + 1] = f[m] + s[m + 1] /\ f[m] \in Nat /\ s[m + 1] \in Nat
      BY <1>1, <1>10, <2>2
    <3> QED  BY <3>1
  <2> HIDE DEF T
  <2> QED  BY <2>1, <2>2, SetInduction
<1>12. f \in [0 .. Len(s) -> Nat]
  <2>1. \A i \in 0 .. Len(s) : f[i] \in Nat
    BY <1>11, Len(s) \in Nat
  <2> DEFINE h == [i \in 0 .. Len(s) |-> IF i = 0 THEN 0 ELSE f[i - 1] + s[i]]
  <2>2. DOMAIN f = 0 .. Len(s) /\ f = [i \in 0 .. Len(s) |-> f[i]]
    <3>1. f = h
      BY <1>9
    <3>2. h = [i \in 0 .. Len(s) |-> h[i]] /\ DOMAIN h = 0 .. Len(s)
      OBVIOUS
    <3> HIDE DEF h
    <3> QED  BY <3>1, <3>2
  <2> QED  BY <2>1, <2>2
<1> QED  BY <1>10, <1>12 DEF f

\* f[i] joins the first i of the n sequences; off are their offsets in it.
Joins(f, n, ss) ==
    f = [i \in 1 .. n |-> IF i = 1 THEN ss[i] ELSE f[i - 1] \o ss[i]]

AllSequences(A, n, ss) == \A i \in 1 .. n : ss[i] \in Seq(A)

Offsets(off, n, ss) ==
    /\ off[0] = 0
    /\ \A i \in 1 .. n : off[i - 1] \in Nat /\ off[i] = off[i - 1] + Len(ss[i])

\* Each of the sequences is whole in what is joined, at its offset.
Whole(joined, A, n, ss, off) ==
    /\ joined \in Seq(A) /\ Len(joined) = off[n]
    /\ \A i \in 1 .. n : \A j \in 1 .. Len(ss[i]) : joined[off[i - 1] + j] = ss[i][j]

\* Sequences can be joined one after the other.
LEMMA JoinExists ==
    ASSUME NEW A, NEW n \in Nat, n >= 1, NEW ss, AllSequences(A, n, ss)
    PROVE  \E f : Joins(f, n, ss)
<1> USE DEF AllSequences
<1> DEFINE next == [i \in 1 .. n - 1 |-> [v \in Seq(A) |-> v \o ss[i + 1]]]
<1>1. ASSUME NEW i \in 1 .. n - 1, NEW v \in Seq(A)
      PROVE  next[i][v] = v \o ss[i + 1] /\ next[i][v] \in Seq(A)
  <2>1. i + 1 \in 1 .. n /\ ss[i + 1] \in Seq(A)
    OBVIOUS
  <2>2. next[i][v] = v \o ss[i + 1]
    OBVIOUS
  <2> HIDE DEF next
  <2> QED  BY <2>1, <2>2
<1> HIDE DEF next
<1>2. PICK g : Recursion(g, Seq(A), ss[1], n - 1, next)
  <2>1. ss[1] \in Seq(A) /\ n - 1 \in Nat
    OBVIOUS
  <2>2. \A i \in 1 .. n - 1 : \A v \in Seq(A) : next[i][v] \in Seq(A)
    BY <1>1
  <2> QED  BY <2>1, <2>2, RecursionExists, Zenon
<1>3. /\ g[0] = ss[1]
      /\ \A i \in 1 .. n - 1 : g[i] = next[i][g[i - 1]]
      /\ \A i \in 0 .. n - 1 : g[i] \in Seq(A)
  BY <1>2 DEF Recursion
<1>4. ASSUME NEW i \in 2 .. n PROVE g[i - 1] = g[i - 2] \o ss[i]
  <2>1. i - 1 \in 1 .. n - 1 /\ i - 2 \in 0 .. n - 1 /\ (i - 1) + 1 = i /\ (i - 1) - 1 = i - 2
    OBVIOUS
  <2>2. g[i - 1] = next[i - 1][g[i - 2]] /\ g[i - 2] \in Seq(A)
    BY <1>3, <2>1
  <2> QED  BY <1>1, <2>1, <2>2
<1> DEFINE h == [i \in 1 .. n |-> g[i - 1]]
<1>5. ASSUME NEW i \in 1 .. n PROVE h[i] = IF i = 1 THEN ss[i] ELSE h[i - 1] \o ss[i]
  <2>1. CASE i = 1
    BY <1>3, <2>1
  <2>2. CASE i # 1
    <3>1. h[i] = g[i - 1] /\ h[i - 1] = g[i - 2] /\ i \in 2 .. n
      BY <2>2
    <3> QED  BY <1>4, <2>2, <3>1
  <2> QED  BY <2>1, <2>2
<1>6. h = [i \in 1 .. n |-> h[i]]
  OBVIOUS
<1> HIDE DEF h
<1>7. h = [i \in 1 .. n |-> IF i = 1 THEN ss[i] ELSE h[i - 1] \o ss[i]]
  BY <1>5, <1>6
<1>8. Joins(h, n, ss)
  BY <1>7 DEF Joins
<1> QED  BY <1>8

\* What is joined has each of the sequences whole, at its offset.
LEMMA JoinFacts ==
    ASSUME NEW A, NEW n \in Nat, n >= 1, NEW ss, NEW off, NEW f,
           AllSequences(A, n, ss), Offsets(off, n, ss), Joins(f, n, ss)
    PROVE  Whole(f[n], A, n, ss, off)
<1> USE DEF AllSequences, Offsets
<1>1. \A i \in 1 .. n : f[i] = IF i = 1 THEN ss[i] ELSE f[i - 1] \o ss[i]
  BY Zenon DEF Joins
<1>2. f[1] = ss[1]
  BY <1>1, 1 \in 1 .. n
<1>3. ASSUME NEW i \in 2 .. n PROVE f[i] = f[i - 1] \o ss[i]
  BY <1>1, i \in 1 .. n, i # 1
<1> DEFINE Joined(m) ==
             /\ f[m] \in Seq(A) /\ Len(f[m]) = off[m]
             /\ \A i \in 1 .. m : off[i] <= off[m]
             /\ \A i \in 1 .. m : \A j \in 1 .. Len(ss[i]) : f[m][off[i - 1] + j] = ss[i][j]
           T == {m \in Nat : m + 1 <= n => Joined(m + 1)}
<1>4. Joined(1)
  <2>1. ss[1] \in Seq(A) /\ off[1] = Len(ss[1]) /\ Len(ss[1]) \in Nat
    BY 1 \in 1 .. n, 1 - 1 = 0
  <2> QED  BY <1>2, <2>1
<1>5. ASSUME NEW m \in 1 .. n, m + 1 <= n, Joined(m)
      PROVE  Joined(m + 1)
  <2>1. /\ m + 1 \in 1 .. n /\ m + 1 \in 2 .. n /\ (m + 1) - 1 = m /\ ss[m + 1] \in Seq(A)
        /\ f[m] \in Seq(A) /\ Len(f[m]) = off[m] /\ off[m] \in Nat
    BY <1>5
  <2>2. f[m + 1] = f[m] \o ss[m + 1] /\ off[m + 1] = off[m] + Len(ss[m + 1])
    BY <1>3, <2>1
  <2>3. f[m + 1] \in Seq(A) /\ Len(f[m + 1]) = off[m + 1] /\ Len(ss[m + 1]) \in Nat
    <3>1. PICK v, w \in Seq(A) : v = f[m] /\ w = ss[m + 1]
      BY <2>1
    <3>2. v \o w \in Seq(A) /\ Len(v \o w) = Len(v) + Len(w) /\ Len(w) \in Nat
      OBVIOUS
    <3> QED  BY <2>1, <2>2, <3>1, <3>2
  <2>4. ASSUME NEW i \in 1 .. m + 1
        PROVE  off[i] <= off[m + 1]
    <3>1. CASE i \in 1 .. m
      <4>1. off[i] <= off[m] /\ off[i] \in Nat
        <5>1. i \in 1 .. n /\ ss[i] \in Seq(A) /\ off[i - 1] \in Nat
          BY <3>1
        <5>2. Len(ss[i]) \in Nat /\ off[i] = off[i - 1] + Len(ss[i])
          BY <5>1
        <5>3. off[i] <= off[m]
          BY <1>5, <3>1
        <5> QED  BY <5>1, <5>2, <5>3
      <4> QED  BY <2>1, <2>2, <2>3, <4>1
    <3>2. CASE i = m + 1
      BY <2>1, <2>2, <2>3, <3>2
    <3> QED  BY <3>1, <3>2
  <2>5. ASSUME NEW i \in 1 .. m + 1, NEW j \in 1 .. Len(ss[i])
        PROVE  f[m + 1][off[i - 1] + j] = ss[i][j]
    <3>1. CASE i \in 1 .. m
      <4>1. i \in 1 .. n /\ ss[i] \in Seq(A) /\ off[i] = off[i - 1] + Len(ss[i]) /\ off[i - 1] \in Nat
        BY <3>1
      <4>2. off[i] <= off[m]
        BY <1>5, <3>1
      <4>3. off[i - 1] + j \in 1 .. Len(f[m])
        <5>1. Len(ss[i]) \in Nat /\ Len(f[m]) = off[m] /\ off[m] \in Nat
          BY <2>1, <4>1
        <5> QED  BY SMTT(30), <4>1, <4>2, <5>1
      <4>4. f[m][off[i - 1] + j] = ss[i][j]
        BY <1>5, <3>1
      <4>5. PICK v, w \in Seq(A) : v = f[m] /\ w = ss[m + 1]
        BY <2>1
      <4>6. \A x \in 1 .. Len(v) : (v \o w)[x] = v[x]
        OBVIOUS
      <4>7. f[m + 1][off[i - 1] + j] = f[m][off[i - 1] + j]
        BY <2>2, <4>3, <4>5, <4>6
      <4> QED  BY <4>4, <4>7
    <3>2. CASE i = m + 1
      <4>1. i - 1 = m /\ j \in 1 .. Len(ss[m + 1])
        BY <3>2
      <4>2. f[m + 1][Len(f[m]) + j] = ss[m + 1][j]
        <5>1. PICK v, w \in Seq(A) : v = f[m] /\ w = ss[m + 1]
          BY <2>1
        <5>2. \A x \in 1 .. Len(w) : (v \o w)[Len(v) + x] = w[x]
          OBVIOUS
        <5> QED  BY <2>2, <4>1, <5>1, <5>2
      <4> QED  BY <2>1, <3>2, <4>1, <4>2
    <3> QED  BY <3>1, <3>2
  <2> QED  BY <2>3, <2>4, <2>5
<1>6. Nat \subseteq T
  <2> HIDE DEF Joined
  <2>1. 0 \in T
    BY <1>4
  <2>2. ASSUME NEW m \in Nat, m \in T PROVE m + 1 \in T
    <3> SUFFICES ASSUME (m + 1) + 1 <= n PROVE Joined((m + 1) + 1)
      OBVIOUS
    <3>1. m + 1 \in 1 .. n /\ m + 1 <= n
      OBVIOUS
    <3>2. Joined(m + 1)
      BY <2>2, <3>1
    <3> QED  BY <1>5, <3>1, <3>2
  <2> HIDE DEF T
  <2> QED  BY <2>1, <2>2, SetInduction
<1>7. Joined(n)
  <2> HIDE DEF Joined
  <2>1. n - 1 \in T /\ (n - 1) + 1 = n
    <3>1. n - 1 \in Nat /\ (n - 1) + 1 = n
      OBVIOUS
    <3> HIDE DEF T
    <3> QED  BY <1>6, <3>1
  <2> QED  BY <2>1
<1> QED  BY <1>7 DEF Whole

\* FlattenSeq joins a list of sequences.
LEMMA FlattenJoins ==
    ASSUME NEW A, NEW n \in Nat, n >= 1, NEW ss, NEW off, n = Len(ss),
           AllSequences(A, n, ss), Offsets(off, n, ss)
    PROVE  Whole(FlattenSeq(ss), A, n, ss, off)
<1>1. \E f : Joins(f, n, ss)
  BY JoinExists
<1> DEFINE f == CHOOSE f : Joins(f, n, ss)
<1>2. FlattenSeq(ss) = f[n]
  BY DEF FlattenSeq, Joins
<1>3. Joins(f, n, ss)
  BY <1>1, Zenon
<1> HIDE DEF f
<1> QED  BY <1>2, <1>3, JoinFacts

Lengths(n, ss) == \A i \in 1 .. n : Len(ss[i]) \in Nat

\* Every index of what is joined lies in one of the sequences.
LEMMA OffsetsCover ==
    ASSUME NEW n \in Nat, NEW ss, NEW off, Offsets(off, n, ss), Lengths(n, ss),
           NEW x \in 1 .. off[n]
    PROVE  \E i \in 1 .. n : \E j \in 1 .. Len(ss[i]) : x = off[i - 1] + j
<1> USE DEF Offsets, Lengths
<1> DEFINE Covered(m) == x <= off[m] =>
                \E i \in 1 .. m : \E j \in 1 .. Len(ss[i]) : x = off[i - 1] + j
           T == {m \in Nat : m <= n => Covered(m)}
<1>1. Covered(0)
  OBVIOUS
<1>2. ASSUME NEW m \in Nat, m + 1 <= n, Covered(m)
      PROVE  Covered(m + 1)
  <2> SUFFICES ASSUME x <= off[m + 1]
               PROVE  \E i \in 1 .. m + 1 : \E j \in 1 .. Len(ss[i]) : x = off[i - 1] + j
    OBVIOUS
  <2>1. CASE x <= off[m]
    <3>1. PICK i \in 1 .. m : \E j \in 1 .. Len(ss[i]) : x = off[i - 1] + j
      BY <1>2, <2>1
    <3>2. i \in 1 .. m + 1
      OBVIOUS
    <3> QED  BY <3>1, <3>2
  <2>2. CASE ~ (x <= off[m])
    <3>1. m + 1 \in 1 .. n /\ (m + 1) - 1 = m
      BY <1>2
    <3>2. off[m] \in Nat /\ off[m + 1] = off[m] + Len(ss[m + 1]) /\ Len(ss[m + 1]) \in Nat
      BY <3>1
    <3>3. x \in Int
      OBVIOUS
    <3>4. x - off[m] \in 1 .. Len(ss[m + 1]) /\ x = off[m] + (x - off[m])
      BY <2>2, <3>2, <3>3
    <3>5. m + 1 \in 1 .. m + 1
      OBVIOUS
    <3> QED  BY <3>1, <3>4, <3>5
  <2> QED  BY <2>1, <2>2
<1>3. Nat \subseteq T
  <2> HIDE DEF Covered
  <2>1. 0 \in T
    BY <1>1
  <2>2. ASSUME NEW m \in Nat, m \in T PROVE m + 1 \in T
    BY <1>2, <2>2
  <2> HIDE DEF T
  <2> QED  BY <2>1, <2>2, SetInduction
<1>4. Covered(n)
  <2> HIDE DEF Covered
  <2> QED  BY <1>3
<1>5. x <= off[n]
  OBVIOUS
<1> QED  BY <1>4, <1>5

----------------------------------------------------------------------------
(* Division.                                                                *)

LEMMA DivMod ==
    ASSUME NEW a \in Nat, NEW b \in Nat \ {0}
    PROVE  \E q \in Nat, m \in 0 .. b - 1 : q = a \div b /\ m = a % b /\ a = q * b + m
<1>1. PICK q \in Nat : q = a \div b
  OBVIOUS
<1>2. PICK m \in 0 .. b - 1 : m = a % b
  OBVIOUS
<1>3. m = a - q * b
  BY <1>1, <1>2
<1>4. a = q * b + m
  BY <1>3
<1> QED  BY <1>1, <1>2, <1>4

LEMMA DivModUnique ==
    ASSUME NEW b \in Nat \ {0}, NEW q \in Nat, NEW m \in 0 .. b - 1
    PROVE  (q * b + m) \div b = q /\ (q * b + m) % b = m
<1>1. PICK a \in Nat : a = q * b + m
  OBVIOUS
<1>2. a \div b = q /\ a % b = m
  BY <1>1
<1> QED  BY <1>1, <1>2

\* CeilDiv(a, b) is the least number of b that reaches a.
LEMMA CeilDivFacts ==
    ASSUME NEW a \in Nat, NEW b \in Nat \ {0}
    PROVE  /\ CeilDiv(a, b) \in Nat
           /\ a <= CeilDiv(a, b) * b
           /\ CeilDiv(a, b) * b < a + b
           /\ a > 0 => CeilDiv(a, b) > 0
<1>1. PICK x \in Nat : x = a + b - 1
  OBVIOUS
<1>2. PICK q \in Nat, m \in 0 .. b - 1 : q = x \div b /\ x = q * b + m
  BY DivMod
<1>3. CeilDiv(a, b) = q
  BY <1>1, <1>2 DEF CeilDiv
<1>4. a <= q * b /\ q * b < a + b
  BY <1>1, <1>2
<1>5. a > 0 => q > 0
  BY <1>4
<1> QED BY <1>3, <1>4, <1>5

LEMMA CeilDivLeast ==
    ASSUME NEW a \in Nat, NEW b \in Nat \ {0}, NEW q \in Nat, a <= q * b
    PROVE  CeilDiv(a, b) <= q
<1>1. PICK c \in Nat : c = CeilDiv(a, b) /\ c * b < a + b
  BY CeilDivFacts
<1>2. CASE c > q
  <2>1. (q + 1) * b <= c * b
    BY <1>2
  <2> QED BY <1>1, <2>1
<1> QED BY <1>1, <1>2

----------------------------------------------------------------------------
(* The heights of the parts and their ends.                                 *)

\* The shape of an accepted split: every rank has e rows of each of the n
\* patches and f of the last one, in whole token rows.
Shape(h, sp, ps, n, e, f) ==
    /\ n \in Nat \ {0} /\ e \in Nat \ {0} /\ f \in Nat \ {0} /\ f <= e
    /\ \E c \in Nat, d \in Nat : e = ps * c /\ f = ps * d
    /\ h = sp * ((n - 1) * e + f)

FlatParts(sp, n, e, f) == [i \in 1 .. n * sp |-> IF ((i - 1) % n) + 1 < n THEN e ELSE f]

\* Where the parts end: after k whole rounds over the patches, and j more.
Ends(S, sp, n, e, f) ==
    /\ S \in [0 .. n * sp -> Nat] /\ S[0] = 0
    /\ \A k \in Nat, j \in 0 .. n - 1 : k * n + j <= n * sp =>
          S[k * n + j] = k * ((n - 1) * e + f) + j * e

LEMMA EndsOfParts ==
    ASSUME NEW sp \in Nat \ {0}, NEW n \in Nat \ {0}, NEW e \in Nat, NEW f \in Nat
    PROVE  Ends(Sums(FlatParts(sp, n, e, f)), sp, n, e, f)
<1> DEFINE flat == FlatParts(sp, n, e, f)
           S == Sums(flat)
<1>1. PICK N \in Nat : N = n * sp
  OBVIOUS
<1>2. /\ flat \in Seq(Nat) /\ Len(flat) = N
      /\ \A i \in 1 .. N : flat[i] = IF ((i - 1) % n) + 1 < n THEN e ELSE f
  BY <1>1 DEF FlatParts
<1> HIDE DEF flat
<1>3. /\ S \in [0 .. N -> Nat] /\ S[0] = 0
      /\ \A i \in 1 .. N : S[i] = S[i - 1] + flat[i]
  BY <1>2, SumsFacts
<1> HIDE DEF S
<1>4. PICK W \in Nat : W = (n - 1) * e + f
  OBVIOUS
<1> DEFINE P(i) == \A k \in Nat, j \in 0 .. n - 1 : i = k * n + j => S[i] = k * W + j * e
           T == {i \in Nat : i <= N => P(i)}
<1>5. P(0)
  <2> SUFFICES ASSUME NEW k \in Nat, NEW j \in 0 .. n - 1, 0 = k * n + j
               PROVE  S[0] = k * W + j * e
    OBVIOUS
  <2>1. k = 0 /\ j = 0
    <3>1. k > 0 => k * n >= 1
      OBVIOUS
    <3>2. k * n >= 0
      OBVIOUS
    <3> QED  BY <3>1, <3>2
  <2> QED  BY <1>3, <2>1
<1>6. ASSUME NEW i \in Nat, i + 1 <= N, P(i)
      PROVE  P(i + 1)
  <2> SUFFICES ASSUME NEW k \in Nat, NEW j \in 0 .. n - 1, i + 1 = k * n + j
               PROVE  S[i + 1] = k * W + j * e
    OBVIOUS
  <2>1. i + 1 \in 1 .. N /\ (i + 1) - 1 = i
    BY <1>6
  <2>2. S[i + 1] = S[i] + flat[i + 1]
    BY <1>3, <2>1
  <2>3. CASE j > 0
    <3>1. j - 1 \in 0 .. n - 1 /\ i = k * n + (j - 1)
      BY <2>3
    <3>2. S[i] = k * W + (j - 1) * e
      BY <1>6, <3>1
    <3>3. i % n = j - 1
      BY <3>1, DivModUnique
    <3>4. flat[i + 1] = e
      BY <1>2, <2>1, <3>1, <3>3
    <3> QED  BY <2>2, <3>2, <3>4
  <2>4. CASE j = 0
    <3>1. k >= 1
      BY <2>4
    <3>2. k - 1 \in Nat /\ n - 1 \in 0 .. n - 1 /\ i = (k - 1) * n + (n - 1)
      BY <2>4, <3>1
    <3>3. S[i] = (k - 1) * W + (n - 1) * e
      BY <1>6, <3>2
    <3>4. i % n = n - 1
      BY <3>2, DivModUnique
    <3>5. flat[i + 1] = f
      BY <1>2, <2>1, <3>4
    <3>6. S[i + 1] = (k - 1) * W + W
      BY <1>4, <2>2, <3>3, <3>5
    <3> QED  BY <2>4, <3>6
  <2> QED  BY <2>3, <2>4
<1>7. Nat \subseteq T
  <2> HIDE DEF P
  <2>1. 0 \in T
    BY <1>5
  <2>2. ASSUME NEW i \in Nat, i \in T PROVE i + 1 \in T
    BY <1>6, <2>2
  <2> HIDE DEF T
  <2> QED  BY <2>1, <2>2, SetInduction
<1>8. ASSUME NEW k \in Nat, NEW j \in 0 .. n - 1, k * n + j <= n * sp
      PROVE  S[k * n + j] = k * ((n - 1) * e + f) + j * e
  <2>1. PICK i \in Nat : i = k * n + j
    OBVIOUS
  <2>2. P(i)
    <3> HIDE DEF P
    <3> QED  BY <1>1, <1>7, <1>8, <2>1
  <2>3. S[i] = k * W + j * e
    BY <2>1, <2>2
  <2> QED  BY <1>4, <2>1, <2>3
<1> QED  BY <1>1, <1>3, <1>8 DEF Ends, S, flat

\* What _calc_patches_metadata accepts has a shape, and no more patches than
\* are configured.
LEMMA AcceptedShape ==
    ASSUME setup \in Setups, NEW h \in Nat \ {0}, Divides(h), LastPatchFits(h)
    PROVE  \E n \in 1 .. setup.patches, e \in Nat, f \in Nat :
             /\ Shape(h, setup.sp, setup.patch_size, n, e, f)
             /\ n = NumPatches(h)
             /\ PatchHeight(h) = setup.sp * e /\ LastHeight(h) = setup.sp * f
             /\ FlatHeights(h) = FlatParts(setup.sp, n, e, f)
<1>1. PICK sp \in Nat \ {0}, ps \in Nat \ {0}, m \in Nat \ {0} :
         sp = setup.sp /\ ps = setup.patch_size /\ m = setup.patches
  BY PositiveSizes DEF Setups
<1>2. PICK u \in Nat \ {0} : u = Unit /\ u = sp * ps
  BY <1>1 DEF Unit
<1>3. PICK a \in Nat \ {0} : a = CeilDiv(h, m) /\ h <= a * m
  BY CeilDivFacts
<1>4. PICK c \in Nat \ {0} : c = CeilDiv(a, u) /\ a <= c * u
  <2>1. a \in Nat /\ a > 0
    OBVIOUS
  <2>2. CeilDiv(a, u) \in Nat /\ a <= CeilDiv(a, u) * u /\ CeilDiv(a, u) > 0
    BY <2>1, CeilDivFacts
  <2> QED  BY <2>2
<1>5. PICK H \in Nat \ {0} : H = PatchHeight(h) /\ H = c * u
  BY <1>1, <1>2, <1>3, <1>4 DEF PatchHeight
<1>6. PICK n \in Nat \ {0} : n = NumPatches(h) /\ h <= n * H /\ n * H < h + H
  <2>1. h \in Nat /\ h > 0 /\ NumPatches(h) = CeilDiv(h, H)
    BY <1>5 DEF NumPatches
  <2>2. /\ CeilDiv(h, H) \in Nat /\ h <= CeilDiv(h, H) * H
        /\ CeilDiv(h, H) * H < h + H /\ CeilDiv(h, H) > 0
    BY <2>1, CeilDivFacts
  <2> QED  BY <2>1, <2>2
<1>7. n <= m
  <2>1. a * m <= H * m
    BY <1>4, <1>5
  <2>2. h <= m * H
    BY <1>3, <2>1
  <2> QED  BY <1>5, <1>6, <2>2, CeilDivLeast DEF NumPatches
<1>8. PICK l \in Nat \ {0} : l = LastHeight(h) /\ l = h - H * (n - 1) /\ l <= H
  BY <1>5, <1>6 DEF LastHeight
<1>9. PICK d \in Nat : l = d * u
  <2>1. PICK q \in Nat, r \in 0 .. u - 1 : r = l % u /\ l = q * u + r
    BY DivMod
  <2>2. r = 0
    BY <1>2, <1>8, <2>1 DEF LastPatchFits
  <2> QED  BY <2>1, <2>2
<1> DEFINE e == ps * c
           f == ps * d
<1>10. e \in Nat \ {0} /\ f \in Nat /\ H = sp * e /\ l = sp * f
  <2>1. e \in Nat \ {0} /\ f \in Nat
    OBVIOUS
  <2>2. c * u = sp * (ps * c) /\ d * u = sp * (ps * d)
    BY <1>2
  <2> QED  BY <1>5, <1>9, <2>1, <2>2
<1> HIDE DEF e, f
<1>11. f # 0 /\ f <= e
  <2>1. f > e => sp * f > sp * e
    BY <1>10
  <2>2. f = 0 => sp * f = 0
    BY <1>10
  <2> QED  BY <1>8, <1>10, <2>1, <2>2
<1>12. h = sp * ((n - 1) * e + f)
  <2>1. h = (n - 1) * H + l
    BY <1>8
  <2>2. (n - 1) * (sp * e) + sp * f = sp * ((n - 1) * e + f)
    BY <1>10
  <2> QED  BY <1>10, <2>1, <2>2
<1>13. Shape(h, sp, ps, n, e, f)
  <2>1. e = ps * c /\ f = ps * d
    BY DEF e, f
  <2> QED  BY <1>10, <1>11, <1>12, <2>1 DEF Shape
<1>14. FlatHeights(h) = FlatParts(sp, n, e, f)
  <2>1. /\ Len(PatchHeights(h)) = n
        /\ \A p \in 1 .. n : PatchHeights(h)[p] = IF p < n THEN H ELSE l
    BY <1>5, <1>6, <1>8 DEF PatchHeights
  <2>2. H \div sp = e /\ l \div sp = f
    BY <1>10, DivModUnique, 0 \in 0 .. sp - 1
  <2>3. ASSUME NEW i \in 1 .. n * sp
        PROVE  PatchHeights(h)[((i - 1) % n) + 1] \div sp =
                  IF ((i - 1) % n) + 1 < n THEN e ELSE f
    <3>1. ((i - 1) % n) + 1 \in 1 .. n
      BY n * sp \in Nat
    <3> QED  BY <2>1, <2>2, <3>1
  <2> QED  BY <1>1, <2>1, <2>3 DEF FlatHeights, FlatParts
<1> QED  BY <1>1, <1>5, <1>6, <1>7, <1>8, <1>10, <1>13, <1>14

----------------------------------------------------------------------------
(* The split of an accepted request.                                        *)

\* The bounds of n patches whose parts end at S.
BoundsOf(S, n) ==
    [r \in Ranks |-> [p \in 1 .. n |-> <<S[Entry(p, r) - 1], S[Entry(p, r)]>>]]

\* The bounds are those of an accepted split of the recorded height.
SplitOf(n, e, f) ==
    /\ Shape(height, setup.sp, setup.patch_size, n, e, f)
    /\ num_pipeline_patch = n
    /\ PatchHeight(height) = setup.sp * e /\ LastHeight(height) = setup.sp * f
    /\ bounds = BoundsOf(Sums(FlatParts(setup.sp, n, e, f)), n)

LEMMA AcceptedSplit ==
    ASSUME setup \in Setups, height \in Nat \ {0}, Divides(height), LastPatchFits(height),
           num_pipeline_patch = NumPatches(height), bounds = RowBounds(height)
    PROVE  /\ num_pipeline_patch \in 1 .. setup.patches
           /\ \E n \in Nat, e \in Nat, f \in Nat : SplitOf(n, e, f)
<1>1. PICK n \in 1 .. setup.patches, e \in Nat, f \in Nat :
         /\ Shape(height, setup.sp, setup.patch_size, n, e, f)
         /\ n = NumPatches(height)
         /\ PatchHeight(height) = setup.sp * e /\ LastHeight(height) = setup.sp * f
         /\ FlatHeights(height) = FlatParts(setup.sp, n, e, f)
  BY AcceptedShape
<1>2. RowBounds(height) = BoundsOf(Sums(FlatHeights(height)), NumPatches(height))
  BY Zenon DEF RowBounds, BoundsOf
<1>3. SplitOf(n, e, f)
  BY <1>1, <1>2 DEF SplitOf
<1> QED  BY <1>1, <1>3

\* The i-th part, patch after patch and rank after rank.
LEMMA EntryFacts ==
    ASSUME setup \in Setups, NEW n \in Nat \ {0}, NEW i \in 1 .. n * setup.sp
    PROVE  /\ RankAt(i) \in Ranks /\ PatchAt(i) \in 1 .. n
           /\ (PatchAt(i) - 1) * setup.sp + RankAt(i) = i
<1>1. PICK sp \in Nat \ {0} : sp = setup.sp
  BY PositiveSizes DEF Setups
<1>2. PICK q \in Nat, m \in 0 .. sp - 1 : q = (i - 1) \div sp /\ m = (i - 1) % sp /\ i - 1 = q * sp + m
  BY <1>1, DivMod, i - 1 \in Nat
<1>3. q < n
  <2>1. q >= n => q * sp >= n * sp
    BY <1>1
  <2> QED  BY <1>1, <1>2, <2>1
<1>4. RankAt(i) = m + 1 /\ PatchAt(i) = q + 1
  BY <1>1, <1>2 DEF RankAt, PatchAt
<1>5. RankAt(i) \in Ranks /\ PatchAt(i) \in 1 .. n
  BY <1>1, <1>3, <1>4 DEF Ranks
<1>6. q * sp + (m + 1) = i
  BY <1>2
<1> QED  BY <1>1, <1>4, <1>5, <1>6

\* Its place in the list of parts.
LEMMA EntryRange ==
    ASSUME NEW sp \in Nat \ {0}, NEW n \in Nat \ {0}, NEW p \in 1 .. n, NEW r \in 1 .. sp
    PROVE  (p - 1) * sp + r \in 1 .. n * sp
<1>1. (p - 1) * sp >= 0
  OBVIOUS
<1>2. (p - 1) * sp <= (n - 1) * sp
  OBVIOUS
<1>3. (n - 1) * sp + sp = n * sp
  OBVIOUS
<1> QED  BY <1>1, <1>2, <1>3

LEMMA SplitPartitions ==
    ASSUME setup \in Setups, NEW n \in Nat, NEW e \in Nat, NEW f \in Nat, SplitOf(n, e, f)
    PROVE  RowsPartition /\ TokensFollowRows
<1>1. PICK sp \in Nat \ {0}, ps \in Nat \ {0} : sp = setup.sp /\ ps = setup.patch_size
  BY PositiveSizes DEF Setups
<1>2. PICK S : S = Sums(FlatParts(sp, n, e, f))
  OBVIOUS
<1>3. PICK c \in Nat, d \in Nat :
         /\ n # 0 /\ e = ps * c /\ f = ps * d
         /\ height = sp * ((n - 1) * e + f)
  BY <1>1 DEF SplitOf, Shape
<1>4. /\ S \in [0 .. n * sp -> Nat] /\ S[0] = 0
      /\ \A k \in Nat, j \in 0 .. n - 1 : k * n + j <= n * sp =>
            S[k * n + j] = k * ((n - 1) * e + f) + j * e
  <2>1. n \in Nat \ {0}
    BY <1>3
  <2>2. Ends(S, sp, n, e, f)
    BY <1>2, <2>1, EndsOfParts
  <2> QED  BY <2>2 DEF Ends
<1>5. /\ num_pipeline_patch = n /\ Ranks = 1 .. sp
      /\ bounds = [r \in Ranks |-> [p \in 1 .. n |->
                      <<S[(p - 1) * setup.sp + r - 1], S[(p - 1) * setup.sp + r]>>]]
  <2>1. num_pipeline_patch = n /\ bounds = BoundsOf(S, n)
    BY <1>1, <1>2 DEF SplitOf
  <2> QED  BY <1>1, <2>1 DEF Ranks, BoundsOf, Entry
<1>6. ASSUME NEW r \in 1 .. sp, NEW p \in 1 .. n
      PROVE  /\ (p - 1) * sp + r \in 1 .. n * sp
             /\ bounds[r][p][1] = S[(p - 1) * sp + r - 1] /\ bounds[r][p][2] = S[(p - 1) * sp + r]
  <2>1. (p - 1) * sp + r \in 1 .. n * sp
    BY <1>3, EntryRange
  <2>2. r \in Ranks
    BY <1>5
  <2> QED  BY <1>1, <1>5, <2>1, <2>2
<1>7. n * sp \in Nat /\ n * sp = (n - 1) * sp + sp /\ n * sp = sp * n + 0
  BY <1>3
<1>8. S[n * sp] = height
  <2>1. 0 \in 0 .. n - 1 /\ sp * n + 0 <= n * sp
    BY <1>3, <1>7
  <2>2. S[sp * n + 0] = sp * ((n - 1) * e + f) + 0 * e
    BY <1>4, <2>1
  <2> QED  BY <1>3, <1>7, <2>2
<1>9. RowsPartition
  <2>1. bounds # Unset
    <3>1. 1 \in DOMAIN bounds
      BY <1>5
    <3> QED  BY <3>1 DEF Unset
  <2>2. \A r \in Ranks : Len(bounds[r]) = num_pipeline_patch
    BY <1>3, <1>5
  <2>3. bounds[1][1][1] = 0
    <3>1. 1 \in 1 .. sp /\ 1 \in 1 .. n /\ (1 - 1) * sp + 1 - 1 = 0
      BY <1>3
    <3>2. bounds[1][1][1] = S[(1 - 1) * sp + 1 - 1]
      BY <1>6, <3>1
    <3> QED  BY <1>4, <3>1, <3>2
  <2>4. bounds[setup.sp][num_pipeline_patch][2] = height
    <3>1. sp \in 1 .. sp /\ n \in 1 .. n
      BY <1>3
    <3>2. bounds[sp][n][2] = S[(n - 1) * sp + sp]
      BY <1>6, <3>1
    <3> QED  BY <1>1, <1>5, <1>7, <1>8, <3>2
  <2>5. ASSUME NEW i \in 2 .. num_pipeline_patch * setup.sp
        PROVE  bounds[RankAt(i)][PatchAt(i)][1] = bounds[RankAt(i - 1)][PatchAt(i - 1)][2]
    <3>1. i \in 1 .. n * setup.sp /\ i - 1 \in 1 .. n * setup.sp
      BY <1>1, <1>5, <1>7
    <3>2. /\ RankAt(i) \in Ranks /\ PatchAt(i) \in 1 .. n
          /\ (PatchAt(i) - 1) * sp + RankAt(i) = i
      BY <1>1, <1>3, <3>1, EntryFacts
    <3>3. /\ RankAt(i - 1) \in Ranks /\ PatchAt(i - 1) \in 1 .. n
          /\ (PatchAt(i - 1) - 1) * sp + RankAt(i - 1) = i - 1
      BY <1>1, <1>3, <3>1, EntryFacts
    <3>4. PICK r \in 1 .. sp, p \in 1 .. n : r = RankAt(i) /\ p = PatchAt(i) /\ (p - 1) * sp + r = i
      BY <1>5, <3>2
    <3>5. PICK q \in 1 .. sp, m \in 1 .. n :
             q = RankAt(i - 1) /\ m = PatchAt(i - 1) /\ (m - 1) * sp + q = i - 1
      BY <1>5, <3>3
    <3>6. bounds[r][p][1] = S[i - 1]
      BY <1>6, <3>4
    <3>7. bounds[q][m][2] = S[i - 1]
      BY <1>6, <3>5
    <3> QED  BY <3>4, <3>5, <3>6, <3>7
  <2> QED  BY <2>1, <2>2, <2>3, <2>4, <2>5 DEF RowsPartition
<1>10. ASSUME NEW i \in 0 .. n * sp
       PROVE  (S[i] \div ps) * ps = S[i]
  <2>1. PICK k \in Nat, j \in 0 .. n - 1 : i = k * n + j
    <3>1. i \in Nat /\ n \in Nat \ {0}
      BY <1>3, <1>7
    <3>2. PICK q \in Nat, m \in 0 .. n - 1 : q = i \div n /\ m = i % n /\ i = q * n + m
      BY <3>1, DivMod
    <3> QED  BY <3>2
  <2>2. S[i] = k * ((n - 1) * e + f) + j * e
    BY <1>4, <1>7, <2>1
  <2>3. PICK t \in Nat : t = k * ((n - 1) * c + d) + j * c
    BY <1>3
  <2>4. S[i] = t * ps
    <3>1. (n - 1) * (ps * c) + ps * d = ps * ((n - 1) * c + d)
      BY <1>3
    <3>2. k * (ps * ((n - 1) * c + d)) + j * (ps * c) = ps * (k * ((n - 1) * c + d) + j * c)
      BY <1>3
    <3> QED  BY <1>3, <2>2, <2>3, <3>1, <3>2
  <2>5. (t * ps) \div ps = t
    BY DivModUnique, 0 \in 0 .. ps - 1, t * ps + 0 = t * ps
  <2> QED  BY <2>4, <2>5
<1>11. TokensFollowRows
  <2> SUFFICES ASSUME NEW r \in Ranks, NEW p \in 1 .. num_pipeline_patch, NEW k \in 1 .. 2
               PROVE  TokenBounds(r, p)[k] * setup.patch_size = bounds[r][p][k]
    BY DEF TokensFollowRows
  <2>1. r \in 1 .. sp /\ p \in 1 .. n
    BY <1>5
  <2>2. (p - 1) * sp + r \in 0 .. n * sp /\ (p - 1) * sp + r - 1 \in 0 .. n * sp
    BY <1>6, <1>7, <2>1
  <2>3. CASE k = 1
    BY <1>1, <1>6, <1>10, <2>1, <2>2, <2>3 DEF TokenBounds
  <2>4. CASE k = 2
    BY <1>1, <1>6, <1>10, <2>1, <2>2, <2>4 DEF TokenBounds
  <2> QED  BY <2>3, <2>4
<1> QED  BY <1>9, <1>11

----------------------------------------------------------------------------
(* The rows of a rank, when the parts of a patch have one height.           *)

PartHeight(n, e, f, p) == IF p < n THEN e ELSE f

PartStart(e, p, r) == ((p - 1) * setup.sp + r - 1) * e

\* The parts of all ranks have one height, in every patch.
EvenSplit(n, e, f) ==
    /\ n \in Nat \ {0} /\ e \in Nat \ {0} /\ f \in Nat \ {0} /\ f <= e
    /\ num_pipeline_patch = n /\ height = setup.sp * ((n - 1) * e + f)
    /\ setup.sp = 1 \/ e = f
    /\ PatchHeight(height) = setup.sp * e
    /\ \A r \in Ranks :
          /\ DOMAIN bounds[r] = 1 .. n /\ Len(bounds[r]) = n
          /\ \A p \in 1 .. n :
                /\ bounds[r][p][1] = PartStart(e, p, r)
                /\ bounds[r][p][2] = PartStart(e, p, r) + PartHeight(n, e, f, p)
                /\ PartStart(e, p, r) \in Nat

LEMMA EvenParts ==
    ASSUME setup \in Setups, NEW n \in Nat, NEW e \in Nat, NEW f \in Nat, SplitOf(n, e, f),
           setup.sp = 1 \/ LastHeight(height) = PatchHeight(height)
    PROVE  EvenSplit(n, e, f)
<1>1. PICK sp \in Nat \ {0}, ps \in Nat \ {0} : sp = setup.sp /\ ps = setup.patch_size
  BY PositiveSizes DEF Setups
<1>2. PICK S : S = Sums(FlatParts(sp, n, e, f))
  OBVIOUS
<1>3. /\ n \in Nat \ {0} /\ e \in Nat \ {0} /\ f \in Nat \ {0} /\ f <= e
      /\ height = sp * ((n - 1) * e + f)
      /\ num_pipeline_patch = n /\ bounds = BoundsOf(S, n)
      /\ PatchHeight(height) = sp * e /\ LastHeight(height) = sp * f
  BY <1>1, <1>2 DEF SplitOf, Shape
<1>4. sp = 1 \/ e = f
  <2>1. ASSUME sp * e = sp * f, e # f PROVE FALSE
    <3>1. PICK d \in Nat : e = f + 1 + d
      <4>1. e - f - 1 \in Nat /\ e = f + 1 + (e - f - 1)
        BY <1>3, <2>1
      <4> QED  BY <4>1
    <3>2. sp * (f + 1 + d) = sp * f + sp + sp * d /\ sp * d \in Nat
      BY <1>1
    <3> QED  BY <1>1, <1>3, <2>1, <3>1, <3>2
  <2> QED  BY <1>1, <1>3, <2>1
<1>5. /\ S \in [0 .. n * sp -> Nat] /\ S[0] = 0
      /\ \A k \in Nat, j \in 0 .. n - 1 : k * n + j <= n * sp =>
            S[k * n + j] = k * ((n - 1) * e + f) + j * e
  <2>1. Ends(S, sp, n, e, f)
    BY <1>2, <1>3, EndsOfParts
  <2> QED  BY <2>1 DEF Ends
<1>6. ASSUME NEW r \in 1 .. sp, NEW p \in 1 .. n
      PROVE  /\ S[(p - 1) * sp + r - 1] = ((p - 1) * sp + r - 1) * e
             /\ S[(p - 1) * sp + r] = ((p - 1) * sp + r - 1) * e + PartHeight(n, e, f, p)
  <2>1. (p - 1) * sp + r \in 1 .. n * sp
    BY <1>3, EntryRange
  <2>2. PICK i \in Nat : i = (p - 1) * sp + r - 1 /\ i + 1 <= n * sp /\ i + 1 = (p - 1) * sp + r
    BY <2>1
  <2>3. CASE e = f
    <3>1. ASSUME NEW x \in Nat, x <= n * sp PROVE S[x] = x * e
      <4>1. PICK k \in Nat, j \in 0 .. n - 1 : k = x \div n /\ j = x % n /\ x = k * n + j
        BY <1>3, DivMod
      <4>2. S[x] = k * ((n - 1) * e + e) + j * e
        BY ZenonT(40), <1>5, <2>3, <3>1, <4>1
      <4>3. k * ((n - 1) * e + e) + j * e = (k * n + j) * e
        BY <1>3
      <4> QED  BY <4>1, <4>2, <4>3
    <3>2. S[i] = i * e /\ S[i + 1] = (i + 1) * e /\ (i + 1) * e = i * e + e
      BY <2>2, <3>1
    <3>3. PartHeight(n, e, f, p) = e
      BY <2>3 DEF PartHeight
    <3> QED  BY <2>2, <3>2, <3>3
  <2>4. CASE sp = 1
    <3>1. r = 1 /\ i = p - 1 /\ n * sp = n
      BY <2>2, <2>4
    <3>2. S[i] = i * e
      <4>1. i \in 0 .. n - 1 /\ 0 * n + i <= n * sp /\ 0 * n + i = i
        BY <3>1
      <4>2. S[0 * n + i] = 0 * ((n - 1) * e + f) + i * e
        BY <1>5, <4>1
      <4> QED  BY <4>1, <4>2
    <3>3. CASE p < n
      <4>1. p \in 0 .. n - 1 /\ 0 * n + p <= n * sp /\ 0 * n + p = p
        BY <3>1, <3>3
      <4>2. S[0 * n + p] = 0 * ((n - 1) * e + f) + p * e
        BY <1>5, <4>1
      <4>3. p * e = (p - 1) * e + e
        OBVIOUS
      <4> QED  BY <2>2, <3>1, <3>2, <3>3, <4>1, <4>2, <4>3 DEF PartHeight
    <3>4. CASE p = n
      <4>1. 0 \in 0 .. n - 1 /\ 1 * n + 0 <= n * sp /\ 1 * n + 0 = n
        BY <1>3, <3>1
      <4>2. S[1 * n + 0] = 1 * ((n - 1) * e + f) + 0 * e
        BY <1>5, <4>1
      <4> QED  BY <2>2, <3>1, <3>2, <3>4, <4>1, <4>2 DEF PartHeight
    <3> QED  BY <3>3, <3>4
  <2> QED  BY <1>4, <2>3, <2>4
<1>7. ASSUME NEW r \in Ranks
      PROVE  /\ DOMAIN bounds[r] = 1 .. n /\ Len(bounds[r]) = n
             /\ \A p \in 1 .. n :
                   /\ bounds[r][p][1] = PartStart(e, p, r)
                   /\ bounds[r][p][2] = PartStart(e, p, r) + PartHeight(n, e, f, p)
                   /\ PartStart(e, p, r) \in Nat
  <2>1. bounds[r] = [p \in 1 .. n |-> <<S[Entry(p, r) - 1], S[Entry(p, r)]>>]
    BY <1>3 DEF BoundsOf
  <2>2. DOMAIN bounds[r] = 1 .. n /\ Len(bounds[r]) = n
    BY <1>3, <2>1
  <2>3. ASSUME NEW p \in 1 .. n
        PROVE  /\ bounds[r][p][1] = PartStart(e, p, r)
               /\ bounds[r][p][2] = PartStart(e, p, r) + PartHeight(n, e, f, p)
               /\ PartStart(e, p, r) \in Nat
    <3>1. bounds[r][p][1] = S[Entry(p, r) - 1] /\ bounds[r][p][2] = S[Entry(p, r)]
      BY <2>1
    <3>2. r \in 1 .. sp /\ Entry(p, r) = (p - 1) * sp + r /\ PartStart(e, p, r) = ((p - 1) * sp + r - 1) * e
      BY <1>1 DEF Ranks, Entry, PartStart
    <3>3. (p - 1) * sp + r - 1 \in Nat
      BY <1>3, <3>2, EntryRange
    <3> QED  BY <1>6, <3>1, <3>2, <3>3
  <2> QED  BY <2>2, <2>3
<1> QED  BY <1>1, <1>3, <1>4, <1>7 DEF EvenSplit

\* Where the patches of one rank end in its own latent.
LEMMA LocalEnds ==
    ASSUME NEW n \in Nat \ {0}, NEW e \in Nat, NEW f \in Nat
    PROVE  \E S : /\ S = Sums([q \in 1 .. n |-> PartHeight(n, e, f, q)])
                  /\ S \in [0 .. n -> Nat] /\ S[0] = 0
                  /\ \A p \in 1 .. n : S[p - 1] = (p - 1) * e /\ S[p] = S[p - 1] + PartHeight(n, e, f, p)
                  /\ S[n] = (n - 1) * e + f
<1> DEFINE parts == [q \in 1 .. n |-> PartHeight(n, e, f, q)]
           S == Sums(parts)
<1>1. parts \in Seq(Nat) /\ Len(parts) = n /\ \A q \in 1 .. n : parts[q] = PartHeight(n, e, f, q)
  BY DEF PartHeight
<1> HIDE DEF parts
<1>2. /\ S \in [0 .. n -> Nat] /\ S[0] = 0
      /\ \A q \in 1 .. n : S[q] = S[q - 1] + parts[q]
  BY <1>1, SumsFacts
<1> HIDE DEF S
<1> DEFINE T == {i \in Nat : i <= n - 1 => S[i] = i * e}
<1>3. Nat \subseteq T
  <2>1. 0 \in T
    BY <1>2
  <2>2. ASSUME NEW i \in Nat, i \in T PROVE i + 1 \in T
    <3> SUFFICES ASSUME i + 1 <= n - 1 PROVE S[i + 1] = (i + 1) * e
      OBVIOUS
    <3>1. i + 1 \in 1 .. n /\ (i + 1) - 1 = i /\ i + 1 < n
      OBVIOUS
    <3>2. S[i + 1] = S[i] + e /\ S[i] = i * e
      BY <1>1, <1>2, <2>2, <3>1 DEF PartHeight
    <3> QED  BY <3>2
  <2> HIDE DEF T
  <2> QED  BY <2>1, <2>2, SetInduction
<1>4. ASSUME NEW p \in 1 .. n PROVE S[p - 1] = (p - 1) * e /\ S[p] = S[p - 1] + PartHeight(n, e, f, p)
  <2>1. p - 1 \in Nat /\ p - 1 <= n - 1
    OBVIOUS
  <2> QED  BY <1>1, <1>2, <1>3, <2>1
<1>5. S[n] = (n - 1) * e + f
  BY <1>4, n \in 1 .. n DEF PartHeight
<1> QED  BY <1>2, <1>4, <1>5 DEF S, parts
\* What a rank holds: its part of every patch, in turn.
LocalShape(r, n, e, f) ==
    /\ LocalRows(r) \in Seq(Nat)
    /\ Len(LocalRows(r)) = (n - 1) * e + f
    /\ \A p \in 1 .. n : LocalStart(r, p) = (p - 1) * e
    /\ LocalStart(r, n + 1) = (n - 1) * e + f
    /\ \A p \in 1 .. n :
          /\ (p - 1) * e \in Nat /\ (p - 1) * e + PartHeight(n, e, f, p) <= (n - 1) * e + f
          /\ \A j \in 1 .. PartHeight(n, e, f, p) :
                LocalRows(r)[(p - 1) * e + j] = PartStart(e, p, r) + j

\* The m rows from start on, as bounds.
Spans(b, start, m) == b[1] = start /\ b[2] = start + m

LEMMA RowsFacts ==
    ASSUME NEW b, NEW start \in Nat, NEW m \in Nat, Spans(b, start, m)
    PROVE  /\ Rows(b) \in Seq(Nat) /\ Len(Rows(b)) = m
           /\ Rows(b) = [i \in 1 .. m |-> start + i]
           /\ \A i \in 1 .. m : Rows(b)[i] = start + i
<1>1. b[1] = start /\ b[2] - b[1] = m
  <2>1. b[1] = start /\ b[2] = start + m
    BY DEF Spans
  <2> QED  BY <2>1
<1>2. Rows(b) = [i \in 1 .. m |-> start + i]
  BY <1>1 DEF Rows
<1>3. [i \in 1 .. m |-> start + i] \in Seq(Nat) /\ Len([i \in 1 .. m |-> start + i]) = m
  OBVIOUS
<1> QED  BY <1>2, <1>3

LEMMA LocalFacts ==
    ASSUME setup \in Setups, NEW n \in Nat, NEW e \in Nat, NEW f \in Nat,
           EvenSplit(n, e, f), NEW r \in Ranks
    PROVE  LocalShape(r, n, e, f)
<1>1. n \in Nat \ {0} /\ e \in Nat \ {0} /\ f \in Nat \ {0} /\ f <= e
  BY DEF EvenSplit
<1>2. /\ DOMAIN bounds[r] = 1 .. n /\ Len(bounds[r]) = n
      /\ \A p \in 1 .. n :
            /\ bounds[r][p][1] = PartStart(e, p, r)
            /\ bounds[r][p][2] = PartStart(e, p, r) + PartHeight(n, e, f, p)
            /\ PartStart(e, p, r) \in Nat
  BY DEF EvenSplit
<1>3. \A p \in 1 .. n : PartHeight(n, e, f, p) \in Nat
  BY DEF PartHeight
<1> DEFINE parts == [p \in 1 .. n |-> Rows(bounds[r][p])]
<1>4. \A p \in 1 .. n :
         /\ parts[p] \in Seq(Nat) /\ Len(parts[p]) = PartHeight(n, e, f, p)
         /\ \A j \in 1 .. PartHeight(n, e, f, p) : parts[p][j] = PartStart(e, p, r) + j
  <2> SUFFICES ASSUME NEW p \in 1 .. n
               PROVE  /\ Rows(bounds[r][p]) \in Seq(Nat)
                      /\ Len(Rows(bounds[r][p])) = PartHeight(n, e, f, p)
                      /\ \A j \in 1 .. PartHeight(n, e, f, p) :
                            Rows(bounds[r][p])[j] = PartStart(e, p, r) + j
    OBVIOUS
  <2>1. PICK start \in Nat, m \in Nat :
           /\ start = PartStart(e, p, r) /\ m = PartHeight(n, e, f, p)
           /\ bounds[r][p][1] = start /\ bounds[r][p][2] = start + m
    BY <1>2, <1>3
  <2>2. PICK b : b = bounds[r][p]
    OBVIOUS
  <2>3. Spans(b, start, m)
    BY <2>1, <2>2 DEF Spans
  <2>4. /\ Rows(b) \in Seq(Nat) /\ Len(Rows(b)) = m
        /\ \A j \in 1 .. m : Rows(b)[j] = start + j
    BY <2>3, RowsFacts
  <2>5. Rows(bounds[r][p]) = Rows(b)
    BY <2>2, Zenon
  <2> HIDE <2>2
  <2> QED  BY <2>1, <2>4, <2>5
<1>5. LocalRows(r) = FlattenSeq(parts) /\ Len(parts) = n
  BY <1>1, <1>2 DEF LocalRows
<1>6. PICK S : /\ S = Sums([q \in 1 .. n |-> PartHeight(n, e, f, q)])
               /\ S \in [0 .. n -> Nat] /\ S[0] = 0
               /\ \A p \in 1 .. n : S[p - 1] = (p - 1) * e /\ S[p] = S[p - 1] + PartHeight(n, e, f, p)
               /\ S[n] = (n - 1) * e + f
  BY <1>1, LocalEnds
<1>7. \A p : LocalStart(r, p) = S[p - 1]
  <2>1. \A q \in 1 .. n : bounds[r][q][2] - bounds[r][q][1] = PartHeight(n, e, f, q)
    BY <1>2, <1>3
  <2>2. [q \in 1 .. Len(bounds[r]) |-> bounds[r][q][2] - bounds[r][q][1]]
          = [q \in 1 .. n |-> PartHeight(n, e, f, q)]
    BY <1>2, <2>1
  <2> QED  BY <1>6, <2>2, Zenon DEF LocalStart
<1> HIDE DEF parts
<1>8. AllSequences(Nat, n, parts)
  BY <1>4 DEF AllSequences
<1>9. Offsets(S, n, parts)
  <2>1. \A i \in 0 .. n : S[i] \in Nat
    BY <1>6
  <2>2. ASSUME NEW p \in 1 .. n
        PROVE  S[p - 1] \in Nat /\ S[p] = S[p - 1] + PartHeight(n, e, f, p)
    <3>1. p - 1 \in 0 .. n
      OBVIOUS
    <3> QED  BY <1>6, <2>1, <3>1
  <2> QED  BY <1>4, <1>6, <2>2 DEF Offsets
<1>10. Whole(LocalRows(r), Nat, n, parts, S)
  BY <1>1, <1>5, <1>8, <1>9, FlattenJoins
<1>11. LocalRows(r) \in Seq(Nat) /\ Len(LocalRows(r)) = (n - 1) * e + f
  BY <1>6, <1>10 DEF Whole
<1>12. LocalStart(r, n + 1) = (n - 1) * e + f
  <2>1. LocalStart(r, n + 1) = S[(n + 1) - 1] /\ (n + 1) - 1 = n
    BY <1>7
  <2> QED  BY <1>6, <2>1
<1>13. \A p \in 1 .. n : LocalStart(r, p) = (p - 1) * e
  BY <1>6, <1>7
<1>14. ASSUME NEW p \in 1 .. n
       PROVE  /\ (p - 1) * e \in Nat
              /\ (p - 1) * e + PartHeight(n, e, f, p) <= (n - 1) * e + f
              /\ \A j \in 1 .. PartHeight(n, e, f, p) :
                    LocalRows(r)[(p - 1) * e + j] = PartStart(e, p, r) + j
  <2>1. (p - 1) * e \in Nat
    BY <1>6
  <2>2. (p - 1) * e + PartHeight(n, e, f, p) <= (n - 1) * e + f
    <3>1. CASE p = n
      BY <1>1, <3>1 DEF PartHeight
    <3>2. CASE p < n
      <4>1. p * e <= (n - 1) * e
        BY <1>1, <3>2
      <4>2. (p - 1) * e + e = p * e
        BY <1>1
      <4>3. (n - 1) * e \in Nat /\ p * e \in Nat
        BY <1>1
      <4> QED  BY <1>1, <2>1, <3>2, <4>1, <4>2, <4>3 DEF PartHeight
    <3> QED  BY <3>1, <3>2
  <2>3. ASSUME NEW j \in 1 .. PartHeight(n, e, f, p)
        PROVE  LocalRows(r)[(p - 1) * e + j] = PartStart(e, p, r) + j
    <3>1. LocalRows(r)[S[p - 1] + j] = parts[p][j]
      BY <1>4, <1>10 DEF Whole
    <3> QED  BY <1>4, <1>6, <3>1
  <2> QED  BY <2>1, <2>2, <2>3
<1> QED  BY <1>11, <1>12, <1>13, <1>14 DEF LocalShape

\* What is gathered of a part, by the bounds of any rank.
LEMMA GatheredFacts ==
    ASSUME setup \in Setups, NEW n \in Nat, NEW e \in Nat, NEW f \in Nat,
           EvenSplit(n, e, f), NEW self \in Ranks, NEW r \in Ranks, NEW p \in 1 .. n
    PROVE  /\ GatheredPart(self, p, r) \in Seq(Nat)
           /\ Len(GatheredPart(self, p, r)) = PartHeight(n, e, f, p)
           /\ \A j \in 1 .. PartHeight(n, e, f, p) :
                 GatheredPart(self, p, r)[j] = PartStart(e, p, r) + j
<1>1. n \in Nat \ {0} /\ e \in Nat \ {0} /\ f \in Nat \ {0} /\ f <= e
  BY DEF EvenSplit
<1>2. PICK m \in Nat : m = PartHeight(n, e, f, p)
  BY DEF PartHeight
<1>3. PICK W \in Nat : W = (n - 1) * e + f
  <2>1. (n - 1) * e + f \in Nat
    BY <1>1
  <2> QED  BY <2>1
<1>4. PICK a \in Nat : a = (p - 1) * e
  <2>1. (p - 1) * e \in Nat
    BY <1>1
  <2> QED  BY <2>1
<1>5. LocalShape(r, n, e, f) /\ LocalShape(self, n, e, f)
  BY LocalFacts
<1>6. /\ LocalRows(r) \in Seq(Nat) /\ Len(LocalRows(r)) = W /\ a + m <= W
      /\ \A j \in 1 .. m : LocalRows(r)[a + j] = PartStart(e, p, r) + j
  BY <1>2, <1>3, <1>4, <1>5 DEF LocalShape
<1>7. LocalStart(self, p) = a
  BY <1>4, <1>5 DEF LocalShape
<1>8. LocalStart(self, p + 1) = a + m
  <2>1. CASE p = n
    BY <1>1, <1>2, <1>4, <1>5, <2>1 DEF LocalShape, PartHeight
  <2>2. CASE p < n
    <3>1. p + 1 \in 1 .. n /\ (p + 1) - 1 = p
      BY <2>2
    <3>2. LocalStart(self, p + 1) = p * e
      BY <1>5, <3>1 DEF LocalShape
    <3>3. p * e = (p - 1) * e + e
      BY <1>1
    <3> QED  BY <1>2, <1>4, <2>2, <3>2, <3>3 DEF PartHeight
  <2> QED  BY <2>1, <2>2
<1>9. PICK s \in Seq(Nat) : s = LocalRows(r) /\ Len(s) = W
  BY <1>6
<1>10. GatheredPart(self, p, r) = SubSeq(s, a + 1, a + m)
  BY <1>7, <1>8, <1>9 DEF GatheredPart
<1>11. /\ SubSeq(s, a + 1, a + m) \in Seq(Nat) /\ Len(SubSeq(s, a + 1, a + m)) = m
       /\ \A j \in 1 .. m : SubSeq(s, a + 1, a + m)[j] = s[a + j]
  <2>1. a + 1 \in 1 .. Len(s) + 1 /\ a + m \in (a + 1) - 1 .. Len(s)
    BY <1>6, <1>9
  <2>2. PICK b, c : b = a + 1 /\ c = a + m /\ b \in 1 .. Len(s) + 1 /\ c \in b - 1 .. Len(s)
    BY <2>1
  <2>3. /\ SubSeq(s, b, c) \in Seq(Nat) /\ Len(SubSeq(s, b, c)) = c - b + 1
        /\ \A j \in 1 .. c - b + 1 : SubSeq(s, b, c)[j] = s[b + j - 1]
    BY <2>2, SubSeqProperties
  <2>4. c - b + 1 = m /\ \A j \in 1 .. m : b + j - 1 = a + j
    BY <2>2
  <2> QED  BY <2>2, <2>3, <2>4
<1> QED  BY <1>2, <1>6, <1>9, <1>10, <1>11

LEMMA EvenSplitRebuilds ==
    ASSUME setup \in Setups, NEW n \in Nat, NEW e \in Nat, NEW f \in Nat, EvenSplit(n, e, f)
    PROVE  /\ SameSize
           /\ \A self \in Ranks : Rebuilt(self) = [i \in 1 .. height |-> i]
<1>1. PICK sp \in Nat \ {0} : sp = setup.sp
  BY PositiveSizes DEF Setups
<1>2. /\ n \in Nat \ {0} /\ e \in Nat \ {0} /\ f \in Nat \ {0} /\ f <= e
      /\ num_pipeline_patch = n /\ (sp = 1 \/ e = f)
  BY <1>1 DEF EvenSplit
<1>3. height = sp * ((n - 1) * e + f) /\ num_pipeline_patch = n /\ (sp = 1 \/ e = f)
  BY <1>1 DEF EvenSplit
<1>4. SameSize
  <2>1. \A r \in Ranks : Len(LocalRows(r)) = (n - 1) * e + f
    BY LocalFacts DEF LocalShape
  <2>2. 1 \in Ranks
    BY <1>1 DEF Ranks
  <2> QED  BY <2>1, <2>2 DEF SameSize
<1>5. PICK N \in Nat \ {0} : N = n * sp
  <2>1. n * sp \in Nat /\ n * sp # 0
    BY <1>1, <1>2
  <2> QED  BY <2>1
<1>6. height \in Nat /\ height = (N - 1) * e + f
  <2>1. CASE sp = 1
    BY <1>2, <1>3, <1>5, <2>1
  <2>2. CASE e = f
    <3>1. (n - 1) * e + e = n * e /\ (N - 1) * e + e = N * e /\ sp * (n * e) = (n * sp) * e
      BY <1>1, <1>2, <1>5
    <3>2. N * e \in Nat
      BY <1>2
    <3> QED  BY <1>3, <1>5, <2>2, <3>1, <3>2
  <2> QED  BY <1>3, <2>1, <2>2
<1>7. ASSUME NEW self \in Ranks
      PROVE  Rebuilt(self) = [i \in 1 .. height |-> i]
  <2> DEFINE ss == [i \in 1 .. N |-> GatheredPart(self, PatchAt(i), RankAt(i))]
             off == [i \in 0 .. N |-> IF i < N THEN i * e ELSE height]
  <2>1. ASSUME NEW i \in 1 .. N
        PROVE  /\ ss[i] \in Seq(Nat)
               /\ (i - 1) * e \in Nat /\ off[i - 1] = (i - 1) * e
               /\ off[i] = off[i - 1] + Len(ss[i])
               /\ \A j \in 1 .. Len(ss[i]) : ss[i][j] = off[i - 1] + j
    <3>1. PICK p \in 1 .. n, r \in Ranks :
             p = PatchAt(i) /\ r = RankAt(i) /\ (p - 1) * sp + r = i
      BY <1>1, <1>2, <1>5, EntryFacts
    <3>2. r \in 1 .. sp /\ (p - 1) * sp \in Nat
      BY <1>1, <1>2, <3>1 DEF Ranks
    <3>3. PICK m \in Nat : m = PartHeight(n, e, f, p)
      BY DEF PartHeight
    <3>4. PICK g \in Seq(Nat) : g = GatheredPart(self, p, r) /\ Len(g) = m
                                /\ \A j \in 1 .. m : g[j] = PartStart(e, p, r) + j
      BY <3>3, GatheredFacts
    <3>5. ss[i] = g
      BY <3>1, <3>4
    <3>6. PartStart(e, p, r) = (i - 1) * e
      <4>1. (p - 1) * sp + r - 1 = i - 1
        <5>1. PICK t \in Nat : t = (p - 1) * sp
          BY <3>2
        <5>2. t + r = i /\ r \in Nat /\ i \in Nat
          BY <3>1, <3>2, <5>1
        <5> QED  BY <5>1, <5>2
      <4> QED  BY <1>1, <4>1 DEF PartStart
    <3>7. (i - 1) * e \in Nat /\ off[i - 1] = (i - 1) * e
      BY <1>2, <1>5
    <3>8. off[i] = (i - 1) * e + m
      <4>1. CASE i < N
        <5>1. m = e
          <6>1. CASE e = f
            BY <3>3, <6>1 DEF PartHeight
          <6>2. CASE sp = 1
            <7>1. r = 1 /\ p = i /\ N = n
              BY <1>1, <1>2, <1>5, <3>1, <6>2 DEF Ranks
            <7> QED  BY <3>3, <4>1, <7>1 DEF PartHeight
          <6> QED  BY <1>3, <6>1, <6>2
        <5>2. i * e = (i - 1) * e + e
          BY <1>2
        <5> QED  BY <4>1, <5>1, <5>2
      <4>2. CASE i = N
        <5>1. p = n
          <6>1. p < n => (p - 1) * sp + sp <= (n - 1) * sp
            <7>1. p < n => p * sp <= (n - 1) * sp
              BY <1>1, <1>2
            <7>2. (p - 1) * sp + sp = p * sp
              BY <1>1
            <7> QED  BY <7>1, <7>2
          <6>2. n * sp = (n - 1) * sp + sp
            BY <1>1, <1>2
          <6>3. (n - 1) * sp \in Nat
            BY <1>1, <1>2
          <6>4. (p - 1) * sp + r = (n - 1) * sp + sp
            BY <1>5, <3>1, <4>2, <6>2
          <6> QED  BY <1>2, <3>2, <6>1, <6>3, <6>4
        <5>2. m = f
          BY <3>3, <5>1 DEF PartHeight
        <5> QED  BY <1>6, <4>2, <5>2
      <4> QED  BY <4>1, <4>2
    <3> HIDE DEF ss, off
    <3> QED  BY <3>4, <3>5, <3>6, <3>7, <3>8
  <2>2. Rebuilt(self) = FlattenSeq(ss) /\ Len(ss) = N
    BY <1>1, <1>3, <1>5 DEF Rebuilt
  <2>3. off[0] = 0 /\ off[N] = height
    BY <1>5
  <2> HIDE DEF ss, off
  <2>4. AllSequences(Nat, N, ss) /\ Offsets(off, N, ss)
    BY <2>1, <2>3 DEF AllSequences, Offsets
  <2>5. Whole(Rebuilt(self), Nat, N, ss, off)
    BY <1>5, <2>2, <2>4, FlattenJoins
  <2>6. PICK s \in Seq(Nat) : s = Rebuilt(self) /\ Len(s) = height
    BY <2>3, <2>5 DEF Whole
  <2>7. ASSUME NEW x \in 1 .. height PROVE s[x] = x
    <3>1. PICK i \in 1 .. N : \E j \in 1 .. Len(ss[i]) : x = off[i - 1] + j
      <4>1. Lengths(N, ss)
        BY <2>1 DEF Lengths
      <4>2. x \in 1 .. off[N]
        BY <2>3
      <4>3. N \in Nat
        OBVIOUS
      <4>4. \E i \in 1 .. N : \E j \in 1 .. Len(ss[i]) : x = off[i - 1] + j
        BY <2>4, <4>1, <4>2, <4>3, OffsetsCover
      <4> QED  BY <4>4
    <3>2. PICK j \in 1 .. Len(ss[i]) : x = off[i - 1] + j
      BY <3>1
    <3>3. s[off[i - 1] + j] = ss[i][j]
      BY <2>5, <2>6 DEF Whole
    <3> QED  BY <2>1, <3>2, <3>3
  <2> QED  BY <1>6, <2>6, <2>7
<1> QED  BY <1>4, <1>7

----------------------------------------------------------------------------
(* Requests.                                                                *)

\* The arithmetic of the split reads nothing but the degrees.
LEMMA SetupOnly ==
    ASSUME setup' = setup, NEW h
    PROVE  /\ Divides(h)' = Divides(h) /\ LastPatchFits(h)' = LastPatchFits(h)
           /\ NumPatches(h)' = NumPatches(h) /\ RowBounds(h)' = RowBounds(h)
           /\ Ranks' = Ranks
<1>1. Ranks' = Ranks /\ Unit' = Unit /\ Divides(h)' = Divides(h)
  BY DEF Ranks, Unit, Divides
<1>2. PatchHeight(h)' = PatchHeight(h)
  BY <1>1 DEF PatchHeight
<1>3. NumPatches(h)' = NumPatches(h)
  BY <1>2 DEF NumPatches
<1>4. LastHeight(h)' = LastHeight(h)
  BY <1>2, <1>3 DEF LastHeight
<1>5. LastPatchFits(h)' = LastPatchFits(h)
  BY <1>1, <1>4 DEF LastPatchFits
<1>6. PatchHeights(h)' = PatchHeights(h)
  BY <1>2, <1>3, <1>4, Zenon DEF PatchHeights
<1>7. FlatHeights(h)' = FlatHeights(h)
  BY <1>6, Zenon DEF FlatHeights
<1>8. RowBounds(h)' = RowBounds(h)
  BY <1>1, <1>3, <1>7, Zenon DEF RowBounds, Entry
<1> QED  BY <1>1, <1>3, <1>5, <1>8

LEMMA RowBoundsType ==
    ASSUME setup \in Setups, NEW h \in Nat \ {0}, Divides(h), LastPatchFits(h)
    PROVE  /\ NumPatches(h) \in 1 .. setup.patches
           /\ \A r \in Ranks : RowBounds(h)[r] \in Seq(Nat \X Nat)
<1>1. PICK sp \in Nat \ {0} : sp = setup.sp
  BY PositiveSizes DEF Setups
<1>2. PICK n \in 1 .. setup.patches, e \in Nat, f \in Nat :
         n = NumPatches(h) /\ FlatHeights(h) = FlatParts(setup.sp, n, e, f)
  BY AcceptedShape
<1>3. n \in Nat \ {0}
  BY PositiveSizes DEF Setups
<1>4. PICK S : S = Sums(FlatHeights(h)) /\ \A i \in 0 .. n * sp : S[i] \in Nat
  <2>1. Ends(Sums(FlatHeights(h)), sp, n, e, f)
    BY <1>1, <1>2, <1>3, EndsOfParts
  <2> QED  BY <2>1 DEF Ends
<1>5. ASSUME NEW r \in Ranks PROVE RowBounds(h)[r] \in Seq(Nat \X Nat)
  <2> DEFINE pairs == Nat \X Nat
             b == [p \in 1 .. n |-> <<S[Entry(p, r) - 1], S[Entry(p, r)]>>]
  <2>1. RowBounds(h)[r] = b
    BY <1>2, <1>4, Zenon DEF RowBounds
  <2>2. ASSUME NEW p \in 1 .. n PROVE b[p] \in pairs
    <3>1. Entry(p, r) \in 1 .. n * sp
      BY <1>1, <1>3, EntryRange DEF Entry, Ranks
    <3>2. PICK i \in Nat : i + 1 = Entry(p, r) /\ i = Entry(p, r) - 1 /\ i + 1 <= n * sp
      <4>1. n * sp \in Nat
        BY <1>1, <1>3
      <4> QED  BY <3>1, <4>1
    <3>3. n * sp \in Nat
      BY <1>1, <1>3
    <3>4. S[i] \in Nat /\ S[i + 1] \in Nat
      BY <1>4, <3>2, <3>3
    <3>5. b[p] = <<S[i], S[i + 1]>>
      BY <3>2
    <3> QED  BY <3>4, <3>5, Zenon
  <2> HIDE DEF pairs
  <2>3. b \in [1 .. n -> pairs]
    BY <2>2
  <2> HIDE DEF b
  <2>4. b \in Seq(pairs)
    BY <1>3, <2>3
  <2> QED  BY <2>1, <2>4, Zenon DEF pairs
<1> QED  BY <1>2, <1>5

LEMMA InitTypeOK == Init => TypeOK
<1> SUFFICES ASSUME Init PROVE TypeOK
  OBVIOUS
<1>1. num_pipeline_patch \in 1 .. setup.patches
  BY PositiveSizes DEF Init, Setups
<1>2. bounds = Unset
  BY DEF Init
<1> QED  BY <1>1, <1>2 DEF Init, TypeOK

\* What a recomputed split leaves has its kind, accepted or not.
LEMMA ResizeTypeOK ==
    ASSUME TypeOK, NEW h \in Heights, NEW byRows \in RowSplits, NEW otherSize,
           Resize(h, byRows, otherSize)
    PROVE  TypeOK'
<1>1. /\ setup' = setup /\ height' = h /\ split_latents_by_rows' = byRows
      /\ setup \in Setups /\ ready \in BOOLEAN
      /\ num_pipeline_patch \in 1 .. setup.patches
  BY DEF Resize, RecordSize, TypeOK
<1>2. h \in Nat \ {0} /\ byRows \in BOOLEAN
  BY PositiveSizes
<1>3. setup.patches \in 1 .. setup.patches
  <2>1. setup.patches \in Nat \ {0}
    BY <1>1, PositiveSizes DEF Setups
  <2> QED  BY <2>1
<1> DEFINE Listed(b) == b # Unset => \A r \in Ranks : b[r] \in Seq(Nat \X Nat)
<1>4. Listed(bounds)
  BY Zenon DEF TypeOK
<1>5. /\ num_pipeline_patch' \in 1 .. setup.patches /\ Listed(bounds')
      /\ ready' \in BOOLEAN /\ outcome' \in {"none", "accepted", "rejected", "repeated"}
  <2>1. CASE RefuseHeight(h, byRows)
    <3> HIDE DEF Listed
    <3> QED  BY <1>1, <1>4, <2>1 DEF RefuseHeight
  <2>2. CASE LeaveUnset(h, byRows)
    <3>1. bounds' = Unset
      BY <2>2 DEF LeaveUnset
    <3>2. Listed(bounds')
      BY <3>1
    <3> HIDE DEF Listed
    <3> QED  BY <1>3, <2>2, <3>2 DEF LeaveUnset
  <2>3. CASE RefuseLastPatch(h)
    <3> HIDE DEF Listed
    <3> QED  BY <1>1, <1>3, <1>4, <2>3 DEF RefuseLastPatch
  <2>4. CASE Split(h)
    <3>1. /\ Divides(h) /\ LastPatchFits(h) /\ num_pipeline_patch' = NumPatches(h)
          /\ bounds' = RowBounds(h) /\ ready' = TRUE /\ outcome' = "accepted"
      BY <2>4 DEF Split
    <3>2. \A r \in Ranks : RowBounds(h)[r] \in Seq(Nat \X Nat)
      BY <1>1, <1>2, <3>1, RowBoundsType, Zenon
    <3>3. Listed(bounds')
      BY <3>1, <3>2, Zenon
    <3> HIDE DEF Listed
    <3>4. NumPatches(h) \in 1 .. setup.patches
      BY <1>1, <1>2, <3>1, RowBoundsType
    <3> QED  BY <3>1, <3>3, <3>4
  <2> HIDE DEF Listed
  <2> QED  BY <2>1, <2>2, <2>3, <2>4 DEF Resize, CalcPatchesMetadata
<1>6. Ranks' = Ranks
  BY <1>1 DEF Ranks
<1>7. bounds' # Unset => \A r \in Ranks' : bounds'[r] \in Seq(Nat \X Nat)
  BY <1>5, <1>6, Zenon
<1> HIDE DEF Listed
<1>8. /\ setup' \in Setups /\ height' \in Heights
      /\ split_latents_by_rows' \in BOOLEAN /\ ready' \in BOOLEAN
      /\ num_pipeline_patch' \in 1 .. setup'.patches
      /\ outcome' \in {"none", "accepted", "rejected", "repeated"}
  BY <1>1, <1>2, <1>5
<1> QED  BY <1>7, <1>8, Zenon DEF TypeOK, Unset, Setups

LEMMA KeepTypeOK ==
    ASSUME TypeOK, NEW h, NEW byRows, NEW otherSize, KeepSplit(h, byRows, otherSize)
    PROVE  TypeOK'
<1>1. /\ setup' = setup /\ height' = height /\ split_latents_by_rows' = split_latents_by_rows
      /\ ready' = ready /\ num_pipeline_patch' = num_pipeline_patch /\ bounds' = bounds
      /\ Ranks' = Ranks
  BY DEF KeepSplit, Ranks
<1>2. outcome' \in {"none", "accepted", "rejected", "repeated"}
  BY DEF KeepSplit, TypeOK
<1> QED  BY <1>1, <1>2, Zenon DEF TypeOK, Setups, Unset

LEMMA NextTypeOK ==
    ASSUME TypeOK, [Next]_vars
    PROVE  TypeOK'
<1>1. CASE UNCHANGED vars
  <2>1. Ranks' = Ranks
    BY <1>1 DEF vars, Ranks
  <2> QED  BY <1>1, <2>1, Zenon DEF vars, TypeOK, Setups, Unset
<1>2. CASE Next
  <2>1. PICK h \in Heights, byRows \in RowSplits, otherSize \in BOOLEAN :
           Resize(h, byRows, otherSize) \/ KeepSplit(h, byRows, otherSize)
    BY <1>2 DEF Next
  <2> QED  BY <2>1, ResizeTypeOK, KeepTypeOK
<1> QED  BY <1>1, <1>2

\* A request that splits by rows and repeats no refused one has the split of
\* its own height.
SplitIsOwn ==
    Computed =>
        /\ Divides(height) /\ LastPatchFits(height)
        /\ num_pipeline_patch = NumPatches(height)
        /\ bounds = RowBounds(height)

\* A request with the recorded size counts as accepted only after an accepted one.
LEMMA KeepSplitPreserves ==
    ASSUME SplitIsOwn, NEW h, NEW byRows, NEW otherSize, KeepSplit(h, byRows, otherSize)
    PROVE  SplitIsOwn'
<1>1. outcome' = "accepted" => outcome = "accepted"
  BY DEF KeepSplit
<1>2. /\ setup' = setup /\ height' = height /\ split_latents_by_rows' = split_latents_by_rows
      /\ num_pipeline_patch' = num_pipeline_patch /\ bounds' = bounds
  BY DEF KeepSplit
<1>3. PICK g : g = height
  OBVIOUS
<1>4. /\ Divides(g)' = Divides(g) /\ LastPatchFits(g)' = LastPatchFits(g)
      /\ NumPatches(g)' = NumPatches(g) /\ RowBounds(g)' = RowBounds(g)
  BY <1>2, SetupOnly
<1> QED  BY <1>1, <1>2, <1>3, <1>4 DEF SplitIsOwn, Computed

\* A recomputed split is accepted only if it divides or is not by rows.
LEMMA ResizePreserves ==
    ASSUME NEW h, NEW byRows, NEW otherSize, Resize(h, byRows, otherSize)
    PROVE  SplitIsOwn'
<1>1. height' = h /\ split_latents_by_rows' = byRows /\ setup' = setup
  BY DEF Resize, RecordSize
<1>2. outcome' = "accepted" /\ byRows =>
         /\ Divides(h) /\ LastPatchFits(h)
         /\ num_pipeline_patch' = NumPatches(h) /\ bounds' = RowBounds(h)
  BY DEF Resize, CalcPatchesMetadata, RefuseHeight, LeaveUnset, RefuseLastPatch, Split
<1>3. /\ Divides(h)' = Divides(h) /\ LastPatchFits(h)' = LastPatchFits(h)
      /\ NumPatches(h)' = NumPatches(h) /\ RowBounds(h)' = RowBounds(h)
  BY <1>1, SetupOnly
<1> QED  BY <1>1, <1>2, <1>3 DEF SplitIsOwn, Computed

LEMMA OwnSplitSuffices ==
    ASSUME TypeOK, SplitIsOwn
    PROVE  RowsPartition /\ TokensFollowRows /\ RebuildsEvenSplit
<1>1. setup \in Setups /\ height \in Nat \ {0}
  BY PositiveSizes DEF TypeOK
<1>2. CASE ~Computed
  BY <1>2 DEF Computed, RowsPartition, TokensFollowRows, RebuildsEvenSplit
<1>3. CASE Computed
  <2>1. /\ Divides(height) /\ LastPatchFits(height)
        /\ num_pipeline_patch = NumPatches(height)
        /\ bounds = RowBounds(height)
    BY <1>3 DEF SplitIsOwn
  <2>2. PICK n \in Nat, e \in Nat, f \in Nat : SplitOf(n, e, f)
    BY <1>1, <2>1, AcceptedSplit
  <2>3. RowsPartition /\ TokensFollowRows
    BY <1>1, <2>2, SplitPartitions
  <2>4. RebuildsEvenSplit
    <3> SUFFICES ASSUME setup.sp = 1 \/ LastHeight(height) = PatchHeight(height)
                 PROVE  /\ SameSize
                        /\ \A self \in Ranks : Rebuilt(self) = [i \in 1 .. height |-> i]
      BY DEF RebuildsEvenSplit
    <3>1. EvenSplit(n, e, f)
      BY <1>1, <2>2, EvenParts
    <3> QED  BY <1>1, <3>1, EvenSplitRebuilds
  <2> QED  BY <2>3, <2>4
<1> QED  BY <1>2, <1>3

\* Every variable of the runtime state keeps to its kind, whatever requests
\* come and whichever of them are refused or come again.
THEOREM RequestsKeepTypes == Spec => []TypeOK
<1>1. Init => TypeOK
  BY InitTypeOK
<1>2. TypeOK /\ [Next]_vars => TypeOK'
  BY NextTypeOK
<1> QED  BY <1>1, <1>2, PTL DEF Spec

LEMMA SplitIsOwnHolds == Spec => [](TypeOK /\ SplitIsOwn)
<1>1. Init => SplitIsOwn
  BY DEF Init, SplitIsOwn, Computed
<1>2. TypeOK /\ SplitIsOwn /\ [Next]_vars => SplitIsOwn'
  <2> SUFFICES ASSUME TypeOK, SplitIsOwn, [Next]_vars PROVE SplitIsOwn'
    OBVIOUS
  <2>1. CASE UNCHANGED vars
    <3>1. /\ setup' = setup /\ height' = height /\ split_latents_by_rows' = split_latents_by_rows
          /\ ready' = ready /\ num_pipeline_patch' = num_pipeline_patch /\ bounds' = bounds
          /\ outcome' = outcome
      BY <2>1 DEF vars
    <3>2. PICK g : g = height
      OBVIOUS
    <3>3. /\ Divides(g)' = Divides(g) /\ LastPatchFits(g)' = LastPatchFits(g)
          /\ NumPatches(g)' = NumPatches(g) /\ RowBounds(g)' = RowBounds(g)
      BY <3>1, SetupOnly
    <3> QED  BY <3>1, <3>2, <3>3 DEF SplitIsOwn, Computed
  <2>2. CASE Next
    <3>1. PICK h \in Heights, byRows \in RowSplits, otherSize \in BOOLEAN :
             Resize(h, byRows, otherSize) \/ KeepSplit(h, byRows, otherSize)
      BY <2>2 DEF Next
    <3> QED  BY <3>1, KeepSplitPreserves, ResizePreserves
  <2> QED  BY <2>1, <2>2
<1> QED  BY <1>1, <1>2, RequestsKeepTypes, PTL DEF Spec

\* The requests a denoising stage receives are those of PatchMetadata: only
\* set_input_parameters touches what it computed.
THEOREM DenoisingOnlyReadsTheSplit == SpecDenoise => Spec
<1>1. InitDenoise => Init
  BY DEF InitDenoise
<1>2. [NextDenoise]_<<vars, denoiseVars>> => [Next]_vars
  BY DEF NextDenoise, SetInput, StartRequest, WarmupStep, EnterPatchMode, PatchStep, EndRequest
<1> QED  BY <1>1, <1>2, PTL DEF Spec, SpecDenoise

\* A request that splits by rows and repeats no refused one is denoised with a
\* split of its own rows: the parts of all ranks in all patches follow one
\* another from its first latent row to its last, whatever was refused before.
THEOREM SplitCoversEveryRow == SpecDenoise => []RowsPartition
<1>1. TypeOK /\ SplitIsOwn => RowsPartition
  BY OwnSplitSuffices
<1> QED  BY <1>1, SplitIsOwnHolds, DenoisingOnlyReadsTheSplit, PTL

\* The token bounds the attention layers index with are whole rows of the
\* patch embedding, for every accepted request.
THEOREM TokensMatchRows == SpecDenoise => []TokensFollowRows
<1>1. TypeOK /\ SplitIsOwn => TokensFollowRows
  BY OwnSplitSuffices
<1> QED  BY <1>1, SplitIsOwnHolds, DenoisingOnlyReadsTheSplit, PTL

\* With pipeline patches of one height, or one rank for all rows, gathering the
\* ranks' latents and taking them patch by patch and rank by rank gives the
\* rows of the image in order, on every rank.
THEOREM EvenSplitIsRebuilt == SpecDenoise => []RebuildsEvenSplit
<1>1. TypeOK /\ SplitIsOwn => RebuildsEvenSplit
  BY OwnSplitSuffices
<1> QED  BY <1>1, SplitIsOwnHolds, DenoisingOnlyReadsTheSplit, PTL

----------------------------------------------------------------------------
(* The solver's history, for one rank: outs is what the scheduler keeps of  *)
(* the last o steps, W rows each, t the time of the last finished step and  *)
(* done the number of finished steps of the request.                        *)

LEMMA MinOfTwo ==
    ASSUME NEW a \in Int, NEW b \in Int
    PROVE  Min({a, b}) = IF a <= b THEN a ELSE b
<1> DEFINE S == {a, b}
           P(x) == x \in S /\ \A y \in S : x <= y
<1>1. PICK m : m = (IF a <= b THEN a ELSE b) /\ P(m)
  OBVIOUS
<1>2. Min(S) = CHOOSE x : P(x)
  BY DEF Min
<1>3. P(Min(S))
  <2> HIDE DEF P
  <2> QED  BY <1>1, <1>2, Zenon
<1> QED  BY <1>1, <1>3

Least(m, a, b, c) == m \in {a, b, c} /\ m <= a /\ m <= b /\ m <= c

LEMMA MinOfThree ==
    ASSUME NEW a \in Int, NEW b \in Int, NEW c \in Int
    PROVE  Least(Min({a, b, c}), a, b, c)
<1> DEFINE S == {a, b, c}
           P(x) == x \in S /\ \A y \in S : x <= y
<1>1. \E x : P(x)
  <2>1. CASE a <= b /\ a <= c
    BY <2>1
  <2>2. CASE b <= a /\ b <= c
    BY <2>2
  <2>3. CASE c <= a /\ c <= b
    BY <2>3
  <2> QED  BY <2>1, <2>2, <2>3
<1>2. Min(S) = CHOOSE x : P(x)
  BY DEF Min
<1>3. P(Min(S))
  <2> HIDE DEF P
  <2> QED  BY <1>1, <1>2, Zenon
<1> QED  BY <1>3 DEF Least

Cells(W) == [1 .. W -> Nat]

\* Between two steps: slot o + 1 - k holds the outputs of the k-th last step.
Between(outs, o, W, t, done) ==
    \A k \in 1 .. o : k <= done => \A i \in 1 .. W : outs[o + 1 - k][i] = t + 1 - k

\* Within a step: the newest slot has this step's outputs up to a row.
Within(outs, o, W, t, done, filled) ==
    /\ \A i \in 1 .. filled : outs[o][i] = t + 1
    /\ \A k \in 2 .. o : k - 1 <= done => \A i \in 1 .. W : outs[o + 1 - k][i] = t + 2 - k

ShiftIf(first, outs, blank) == IF first THEN Append(Tail(outs), blank) ELSE outs

Recorded(first, outs, blank, o, start, len, t) ==
    [ShiftIf(first, outs, blank) EXCEPT ![o] = Overwritten(@, start, [i \in 1 .. len |-> t + 1])]

LEMMA ShiftFacts ==
    ASSUME NEW V, NEW s \in Seq(V), NEW b \in V, NEW o \in Nat \ {0}, Len(s) = o
    PROVE  /\ Append(Tail(s), b) \in Seq(V) /\ Len(Append(Tail(s), b)) = o
           /\ Append(Tail(s), b)[o] = b
           /\ \A j \in 1 .. o - 1 : Append(Tail(s), b)[j] = s[j + 1]
<1>1. s # <<>>
  OBVIOUS
<1>2. PICK w \in Seq(V) : w = Tail(s) /\ Len(w) = o - 1 /\ \A j \in 1 .. o - 1 : w[j] = s[j + 1]
  BY ZenonT(40), <1>1, HeadTailProperties
<1>3. /\ Append(w, b) \in Seq(V) /\ Len(Append(w, b)) = o
      /\ Append(w, b)[o] = b /\ \A j \in 1 .. o - 1 : Append(w, b)[j] = w[j]
  BY <1>2
<1> QED  BY <1>2, <1>3

\* Before the outputs of the next rows are recorded.
SolverReady(first, outs, blank, o, W, start, len, t, done) ==
    /\ outs \in Seq(Cells(W)) /\ Len(outs) = o /\ blank \in Cells(W)
    /\ start + len <= W
    /\ IF first THEN start = 0 /\ Between(outs, o, W, t, done)
                ELSE Within(outs, o, W, t, done, start)

\* After it, and what the solver reads.
SolverDone(new, o, W, start, len, t, done) ==
    /\ new \in Seq(Cells(W)) /\ Len(new) = o
    /\ Within(new, o, W, t, done, start + len)
    /\ \A k \in 1 .. o : k <= done + 1 =>
          /\ new[o + 1 - k] \in Seq(Nat) /\ Len(new[o + 1 - k]) = W
          /\ \A i \in 1 .. len : new[o + 1 - k][start + i] = t + 2 - k

\* w is c with the len cells after start set to v.
Fills(w, c, W, start, len, v) ==
    /\ c \in Cells(W) /\ start + len <= W
    /\ w = Overwritten(c, start, [i \in 1 .. len |-> v])

Filled(w, c, W, start, len, v) ==
    /\ w \in Cells(W)
    /\ \A i \in 1 .. W : w[i] = IF start < i /\ i <= start + len THEN v ELSE c[i]

LEMMA OverwrittenFacts ==
    ASSUME NEW W \in Nat, NEW c, NEW start \in Nat, NEW len \in Nat, NEW v \in Nat, NEW w,
           Fills(w, c, W, start, len, v)
    PROVE  Filled(w, c, W, start, len, v)
<1> DEFINE x == [i \in 1 .. len |-> v]
<1>1. c \in Cells(W) /\ start + len <= W /\ w = Overwritten(c, start, x)
  BY DEF Fills
<1>2. Len(x) = len /\ DOMAIN c = 1 .. W /\ \A i \in 1 .. W : c[i] \in Nat
  BY <1>1 DEF Cells
<1>3. w = [i \in 1 .. W |-> IF start < i /\ i <= start + len THEN x[i - start] ELSE c[i]]
  BY <1>1, <1>2 DEF Overwritten
<1>4. \A i \in 1 .. W : start < i /\ i <= start + len => x[i - start] = v
  OBVIOUS
<1>5. \A i \in 1 .. W : w[i] = IF start < i /\ i <= start + len THEN v ELSE c[i]
  BY <1>3, <1>4
<1>6. w \in Cells(W)
  BY <1>2, <1>3, <1>4 DEF Cells
<1> QED  BY <1>5, <1>6 DEF Filled

LEMMA RecordedFacts ==
    ASSUME NEW first \in BOOLEAN, NEW o \in Nat \ {0}, NEW W \in Nat, NEW outs, NEW blank,
           NEW start \in Nat, NEW len \in Nat, NEW t \in Nat, NEW done \in Nat,
           SolverReady(first, outs, blank, o, W, start, len, t, done)
    PROVE  SolverDone(Recorded(first, outs, blank, o, start, len, t), o, W, start, len, t, done)
<1>1. /\ outs \in Seq(Cells(W)) /\ Len(outs) = o /\ blank \in Cells(W)
      /\ start + len <= W
      /\ first => start = 0 /\ Between(outs, o, W, t, done)
      /\ ~first => Within(outs, o, W, t, done, start)
  BY DEF SolverReady
<1>2. PICK V : V = Cells(W)
  OBVIOUS
<1>3. PICK s : s = ShiftIf(first, outs, blank)
  OBVIOUS
<1>4. /\ s \in Seq(V) /\ Len(s) = o
      /\ first => \A j \in 1 .. o - 1 : s[j] = outs[j + 1]
      /\ ~first => s = outs
  <2>1. CASE first
    <3>1. s = Append(Tail(outs), blank)
      BY <1>3, <2>1 DEF ShiftIf
    <3> QED  BY <1>1, <1>2, <2>1, <3>1, ShiftFacts
  <2>2. CASE ~first
    BY <1>1, <1>2, <1>3, <2>2 DEF ShiftIf
  <2> QED  BY <2>1, <2>2
<1>5. /\ \A i \in 1 .. start : s[o][i] = t + 1
      /\ \A k \in 2 .. o : k - 1 <= done => \A i \in 1 .. W : s[o + 1 - k][i] = t + 2 - k
  <2>1. CASE first
    <3>1. ASSUME NEW k \in 2 .. o, k - 1 <= done, NEW i \in 1 .. W
          PROVE  s[o + 1 - k][i] = t + 2 - k
      <4>1. k - 1 \in 1 .. o /\ o + 1 - k \in 1 .. o - 1 /\ (o + 1 - k) + 1 = o + 1 - (k - 1)
        OBVIOUS
      <4>2. outs[o + 1 - (k - 1)][i] = t + 1 - (k - 1)
        BY <1>1, <2>1, <3>1, <4>1 DEF Between
      <4>3. s[o + 1 - k] = outs[(o + 1 - k) + 1]
        BY <1>4, <2>1, <4>1
      <4> QED  BY <4>1, <4>2, <4>3
    <3> QED  BY <1>1, <2>1, <3>1
  <2>2. CASE ~first
    BY <1>1, <1>4, <2>2 DEF Within
  <2> QED  BY <2>1, <2>2
<1>6. PICK c : c = s[o] /\ c \in Cells(W)
  BY <1>2, <1>4
<1>7. PICK v \in Nat : v = t + 1
  OBVIOUS
<1>8. PICK w : w = Overwritten(c, start, [i \in 1 .. len |-> v])
  OBVIOUS
<1>9. /\ w \in Cells(W)
      /\ \A i \in 1 .. W : w[i] = IF start < i /\ i <= start + len THEN t + 1 ELSE c[i]
  <2>1. /\ w \in Cells(W)
        /\ \A i \in 1 .. W : w[i] = IF start < i /\ i <= start + len THEN v ELSE c[i]
    <3>1. Fills(w, c, W, start, len, v)
      BY <1>1, <1>6, <1>8, Zenon DEF Fills
    <3>2. Filled(w, c, W, start, len, v)
      BY <3>1, OverwrittenFacts
    <3> QED  BY <3>2 DEF Filled
  <2> QED  BY <1>7, <2>1
<1>10. PICK new : new = Recorded(first, outs, blank, o, start, len, t)
  OBVIOUS
<1>11. new = [s EXCEPT ![o] = w]
  BY <1>3, <1>6, <1>8, <1>10, <1>7 DEF Recorded
<1>12. /\ new \in Seq(V) /\ Len(new) = o /\ new[o] = w
       /\ \A j \in 1 .. o - 1 : new[j] = s[j]
  BY <1>2, <1>4, <1>9, <1>11
<1>13. Within(new, o, W, t, done, start + len)
  <2>1. ASSUME NEW i \in 1 .. start + len PROVE new[o][i] = t + 1
    <3>1. i \in 1 .. W
      BY <1>1
    <3>2. i <= start => c[i] = t + 1
      BY <1>5, <1>6
    <3> QED  BY <1>9, <1>12, <3>1, <3>2
  <2>2. ASSUME NEW k \in 2 .. o, k - 1 <= done, NEW i \in 1 .. W
        PROVE  new[o + 1 - k][i] = t + 2 - k
    <3>1. o + 1 - k \in 1 .. o - 1
      OBVIOUS
    <3> QED  BY <1>5, <1>12, <2>2, <3>1
  <2> QED  BY <2>1, <2>2 DEF Within
<1>14. ASSUME NEW k \in 1 .. o, k <= done + 1
       PROVE  /\ new[o + 1 - k] \in Seq(Nat) /\ Len(new[o + 1 - k]) = W
              /\ \A i \in 1 .. len : new[o + 1 - k][start + i] = t + 2 - k
  <2>1. new[o + 1 - k] \in Cells(W)
    <3>1. o + 1 - k \in 1 .. o
      OBVIOUS
    <3> QED  BY <1>2, <1>12, <3>1
  <2>2. new[o + 1 - k] \in Seq(Nat) /\ Len(new[o + 1 - k]) = W
    BY <2>1 DEF Cells
  <2>3. ASSUME NEW i \in 1 .. len PROVE new[o + 1 - k][start + i] = t + 2 - k
    <3>1. start + i \in 1 .. start + len /\ start + i \in 1 .. W
      BY <1>1
    <3>2. CASE k = 1
      <4>1. o + 1 - k = o /\ t + 2 - k = t + 1
        BY <3>2
      <4> QED  BY <1>13, <3>1, <4>1 DEF Within
    <3>3. CASE k > 1
      <4>1. k \in 2 .. o /\ k - 1 <= done
        BY <1>14, <3>3
      <4> QED  BY <1>13, <3>1, <4>1 DEF Within
    <3> QED  BY <3>2, <3>3
  <2> QED  BY <2>2, <2>3
<1> QED  BY <1>2, <1>10, <1>12, <1>13, <1>14 DEF SolverDone

\* A step is finished when all its rows are recorded.
LEMMA WithinIsBetween ==
    ASSUME NEW o \in Nat \ {0}, NEW W \in Nat, NEW new, NEW t \in Nat, NEW done \in Nat,
           Within(new, o, W, t, done, W)
    PROVE  Between(new, o, W, t + 1, done + 1)
<1> SUFFICES ASSUME NEW k \in 1 .. o, k <= done + 1, NEW i \in 1 .. W
             PROVE  new[o + 1 - k][i] = (t + 1) + 1 - k
  BY DEF Between
<1>1. CASE k = 1
  <2>1. o + 1 - k = o /\ (t + 1) + 1 - k = t + 1
    BY <1>1
  <2> QED  BY <2>1 DEF Within
<1>2. CASE k > 1
  <2>1. k \in 2 .. o /\ k - 1 <= done /\ (t + 1) + 1 - k = t + 2 - k
    BY <1>2
  <2> QED  BY <2>1 DEF Within
<1> QED  BY <1>1, <1>2

----------------------------------------------------------------------------
(* A stage between its steps.                                               *)

Configs == [ulysses : UlyssesDegrees, warmup : Warmups, order : SolverOrders]

\* Where the stage is: it denoises only what was served with equal parts, the
\* scheduler counts the stage's steps, and the number of calls the scheduler
\* remembers is enough for the updates it makes.
StageInv ==
    /\ config \in Configs /\ setup.sp % config.ulysses = 0 /\ Accepted(config)
    /\ phase \in {"idle", "denoise"}
    /\ request \in 0 .. MaxRequests /\ step \in 0 .. NumSteps /\ step_index = step
    /\ patch_mode \in BOOLEAN
    /\ DOMAIN caches = Ranks
    /\ lower_order_nums \in 0 .. config.order
    /\ phase = "denoise" =>
          /\ Computed /\ EqualParts /\ request >= 1
          /\ pipeline_patch_idx \in 1 .. num_pipeline_patch
    /\ patch_mode => step >= config.warmup /\ lower_order_nums >= config.order - 1
    /\ ~patch_mode => lower_order_nums = IF config.order <= step THEN config.order ELSE step

LEMMA InitStageInv == InitDenoise => StageInv
<1> SUFFICES ASSUME InitDenoise PROVE StageInv
  OBVIOUS
<1>1. config \in Configs
  BY DEF InitDenoise, Configs
<1>2. DOMAIN caches = Ranks
  BY DEF InitDenoise
<1>3. 0 \in 0 .. MaxRequests /\ 0 \in 0 .. NumSteps
  BY DenoisingSizes
<1>4. /\ setup.sp % config.ulysses = 0 /\ Accepted(config) /\ phase = "idle"
      /\ request = 0 /\ step = 0 /\ patch_mode = FALSE
      /\ lower_order_nums = 0 /\ step_index = 0
  BY DEF InitDenoise
<1>5. PICK o \in Nat \ {0} : o = config.order
  <2>1. config.order \in SolverOrders
    BY <1>1 DEF Configs
  <2>2. config.order \in {2, 3}
    BY <2>1, DenoisingSizes
  <2> QED  BY <2>2
<1>6. /\ lower_order_nums \in 0 .. config.order
      /\ lower_order_nums = IF config.order <= step THEN config.order ELSE step
  <2>1. ~(o <= 0) /\ 0 \in 0 .. o
    OBVIOUS
  <2> QED  BY <1>4, <1>5, <2>1
<1>7. request \in 0 .. MaxRequests /\ step \in 0 .. NumSteps
  BY <1>3, <1>4
<1> QED  BY <1>1, <1>2, <1>4, <1>6, <1>7 DEF StageInv

\* The sizes as constants of a step's proof.
LEMMA StageSizes ==
    ASSUME StageInv
    PROVE  \E o \in Nat \ {0}, w \in Nat, u \in Nat \ {0} :
              /\ o = config.order /\ w = config.warmup /\ u = config.ulysses
              /\ w >= 1 /\ o <= w + 1 /\ w <= NumSteps /\ o \in {2, 3}
<1>1. /\ config.order \in SolverOrders /\ config.warmup \in Warmups
      /\ config.ulysses \in UlyssesDegrees
      /\ config.warmup >= 1 /\ config.order <= config.warmup + 1
  BY DEF StageInv, Configs, Accepted
<1>2. /\ config.order \in {2, 3} /\ config.warmup \in 0 .. NumSteps
      /\ config.ulysses \in Nat \ {0}
  BY <1>1, DenoisingSizes
<1> QED  BY <1>1, <1>2, DenoisingSizes

\* set_input_parameters keeps the degrees, whatever it does.
LEMMA NextKeepsSetup ==
    ASSUME Next
    PROVE  setup' = setup
  BY DEF Next, Resize, RecordSize, KeepSplit

\* What the steps of a request do to the scheduler's counters.
LEMMA StageSolver ==
    ASSUME StageInv, SolverStep, config' = config
    PROVE  /\ lower_order_nums' = IF config.order <= lower_order_nums + 1
                                    THEN config.order ELSE lower_order_nums + 1
           /\ step_index' = IF LastPatch THEN step + 1 ELSE step
<1>1. PICK o \in Nat, l \in Nat : o = config.order /\ l = lower_order_nums
  BY StageSizes DEF StageInv
<1>2. lower_order_nums' = Min({o, l + 1})
  BY <1>1 DEF SolverStep
<1>3. Min({o, l + 1}) = IF o <= l + 1 THEN o ELSE l + 1
  BY MinOfTwo
<1>4. step_index' = IF LastPatch THEN step + 1 ELSE step
  BY DEF SolverStep, NextStepIndex, StageInv
<1> QED  BY <1>1, <1>2, <1>3, <1>4

\* Nothing but the stage's own counters moves in a step.
LEMMA SameStage ==
    ASSUME StageInv, setup' = setup, config' = config
    PROVE  /\ config' \in Configs /\ setup'.sp % config'.ulysses = 0 /\ Accepted(config')
           /\ Ranks' = Ranks
  BY DEF StageInv, Configs, Ranks

LEMMA SameComputed ==
    ASSUME UNCHANGED vars
    PROVE  /\ Computed' = Computed /\ EqualParts' = EqualParts
           /\ setup' = setup /\ num_pipeline_patch' = num_pipeline_patch
<1>1. /\ setup' = setup /\ height' = height /\ split_latents_by_rows' = split_latents_by_rows
      /\ num_pipeline_patch' = num_pipeline_patch /\ outcome' = outcome
  BY DEF vars
<1>2. PatchHeight(height)' = PatchHeight(height)
  BY <1>1 DEF PatchHeight, Unit
<1>3. NumPatches(height)' = NumPatches(height)
  BY <1>1, <1>2 DEF NumPatches
<1>4. LastHeight(height)' = LastHeight(height)
  BY <1>1, <1>2, <1>3 DEF LastHeight
<1>5. EqualParts' = EqualParts
  BY <1>1, <1>2, <1>4 DEF EqualParts
<1> QED  BY <1>1, <1>5 DEF Computed

LEMMA StageNext ==
    ASSUME TypeOK, StageInv, [NextDenoise]_<<vars, denoiseVars>>
    PROVE  StageInv'
<1>1. PICK o \in Nat \ {0}, w \in Nat :
         o = config.order /\ w = config.warmup /\ w >= 1 /\ o <= w + 1 /\ w <= NumSteps
  BY StageSizes
<1>2. PICK n \in Nat \ {0} : n = num_pipeline_patch
  BY PositiveSizes DEF TypeOK, Setups
<1>3. NumSteps \in Nat \ {0} /\ MaxRequests \in Nat
  BY DenoisingSizes
<1>4. CASE UNCHANGED <<vars, denoiseVars>>
  <2>1. UNCHANGED vars /\ UNCHANGED denoiseVars
    BY <1>4
  <2>2. Computed' = Computed /\ EqualParts' = EqualParts /\ setup' = setup
        /\ num_pipeline_patch' = num_pipeline_patch /\ config' = config
    BY <2>1, SameComputed DEF denoiseVars
  <2>3. /\ config' \in Configs /\ setup'.sp % config'.ulysses = 0 /\ Accepted(config')
        /\ Ranks' = Ranks
    BY <2>2, SameStage
  <2>4. /\ phase' = phase /\ request' = request /\ step' = step /\ step_index' = step_index
        /\ patch_mode' = patch_mode /\ caches' = caches /\ lower_order_nums' = lower_order_nums
        /\ pipeline_patch_idx' = pipeline_patch_idx
    BY <2>1 DEF denoiseVars
  <2> QED  BY <2>2, <2>3, <2>4 DEF StageInv
<1>5. CASE SetInput
  <2>1. /\ phase = "idle" /\ setup' = setup /\ config' = config
        /\ phase' = phase /\ request' = request /\ step' = step /\ step_index' = step_index
        /\ patch_mode' = patch_mode /\ caches' = caches /\ lower_order_nums' = lower_order_nums
    BY <1>5, NextKeepsSetup DEF SetInput
  <2>2. /\ config' \in Configs /\ setup'.sp % config'.ulysses = 0 /\ Accepted(config')
        /\ Ranks' = Ranks
    BY <2>1, SameStage
  <2> QED  BY <2>1, <2>2 DEF StageInv
<1>6. ASSUME UNCHANGED vars, config' = config
      PROVE  /\ Computed' = Computed /\ EqualParts' = EqualParts /\ num_pipeline_patch' = n
             /\ config' \in Configs /\ setup'.sp % config'.ulysses = 0 /\ Accepted(config')
             /\ Ranks' = Ranks
  BY <1>2, <1>6, SameComputed, SameStage
<1>7. CASE StartRequest
  <2>1. /\ request' = request + 1 /\ step' = 0 /\ step_index' = 0 /\ lower_order_nums' = 0
        /\ patch_mode' = FALSE /\ pipeline_patch_idx' = 1 /\ phase' = "denoise"
        /\ caches' = caches /\ request < MaxRequests /\ Computed /\ EqualParts
        /\ UNCHANGED vars /\ config' = config
    BY <1>7 DEF StartRequest, ModeAtStart
  <2>2. request \in 0 .. MaxRequests /\ DOMAIN caches = Ranks
    BY DEF StageInv
  <2>3. /\ request' \in 0 .. MaxRequests /\ request' >= 1 /\ step' \in 0 .. NumSteps
        /\ lower_order_nums' \in 0 .. o /\ lower_order_nums' = IF o <= step' THEN o ELSE step'
        /\ pipeline_patch_idx' \in 1 .. n
    BY <1>1, <1>2, <1>3, <2>1, <2>2
  <2>4. config'.order = o /\ DOMAIN caches' = Ranks'
    BY <1>1, <1>6, <2>1, <2>2
  <2> QED  BY <1>6, <2>1, <2>3, <2>4 DEF StageInv
<1>8. CASE WarmupStep
  <2>1. /\ phase = "denoise" /\ step < w /\ phase' = phase /\ request' = request
        /\ step' = step + 1 /\ patch_mode' = patch_mode /\ pipeline_patch_idx' = pipeline_patch_idx
        /\ UNCHANGED vars /\ config' = config /\ SolverStep /\ Attend
    BY <1>1, <1>8 DEF WarmupStep
  <2>2. ~patch_mode
    BY <1>1, <2>1 DEF StageInv
  <2>3. step_index' = step + 1
    BY <2>1, <2>2, StageSolver DEF LastPatch
  <2>4. lower_order_nums' = IF o <= lower_order_nums + 1 THEN o ELSE lower_order_nums + 1
    BY <1>1, <2>1, StageSolver
  <2>5. DOMAIN caches' = Ranks
    BY <2>1 DEF Attend
  <2>6. step \in 0 .. NumSteps /\ lower_order_nums = IF o <= step THEN o ELSE step
    BY <1>1, <2>2 DEF StageInv
  <2>7. /\ step' \in 0 .. NumSteps /\ lower_order_nums' \in 0 .. o
        /\ lower_order_nums' = IF o <= step' THEN o ELSE step'
    BY <1>1, <1>3, <2>1, <2>4, <2>6
  <2> QED  BY <1>1, <1>2, <1>6, <2>1, <2>2, <2>3, <2>5, <2>7 DEF StageInv
<1>9. CASE EnterPatchMode
  <2>1. /\ phase = "denoise" /\ step = w /\ ~patch_mode /\ phase' = phase /\ request' = request
        /\ step' = step /\ step_index' = step_index /\ lower_order_nums' = lower_order_nums
        /\ patch_mode' = TRUE /\ pipeline_patch_idx' = 1 /\ caches' = caches
        /\ UNCHANGED vars /\ config' = config
    BY <1>1, <1>9 DEF EnterPatchMode
  <2>2. lower_order_nums = IF o <= step THEN o ELSE step
    BY <1>1, <2>1 DEF StageInv
  <2>3. lower_order_nums >= o - 1
    BY <1>1, <2>1, <2>2
  <2> QED  BY <1>1, <1>2, <1>6, <2>1, <2>3 DEF StageInv
<1>10. CASE PatchStep
  <2>1. /\ phase = "denoise" /\ patch_mode /\ step < NumSteps /\ phase' = phase
        /\ request' = request /\ step' = (IF LastPatch THEN step + 1 ELSE step)
        /\ patch_mode' = patch_mode /\ pipeline_patch_idx' = (pipeline_patch_idx % n) + 1
        /\ UNCHANGED vars /\ config' = config /\ SolverStep /\ Attend
    BY <1>2, <1>10 DEF PatchStep
  <2>2. step_index' = step'
    BY <2>1, StageSolver
  <2>3. lower_order_nums' = IF o <= lower_order_nums + 1 THEN o ELSE lower_order_nums + 1
    BY <1>1, <2>1, StageSolver
  <2>4. DOMAIN caches' = Ranks
    BY <2>1 DEF Attend
  <2>5. step \in 0 .. NumSteps /\ step >= w /\ lower_order_nums \in 0 .. o
        /\ lower_order_nums >= o - 1 /\ pipeline_patch_idx \in 1 .. n
    BY <1>1, <1>2, <2>1 DEF StageInv
  <2>6. pipeline_patch_idx' \in 1 .. n
    <3>1. PICK q \in Nat : q = pipeline_patch_idx
      BY <2>5
    <3>2. q % n \in 0 .. n - 1
      OBVIOUS
    <3> QED  BY <2>1, <3>1, <3>2
  <2>7. /\ step' \in 0 .. NumSteps /\ step' >= w /\ lower_order_nums' \in 0 .. o
        /\ lower_order_nums' >= o - 1
    BY <1>1, <1>3, <2>1, <2>3, <2>5
  <2> QED  BY <1>1, <1>2, <1>6, <2>1, <2>2, <2>4, <2>6, <2>7 DEF StageInv
<1>11. CASE EndRequest
  <2>1. /\ phase' = "idle" /\ request' = request /\ step' = step /\ step_index' = step_index
        /\ patch_mode' = patch_mode /\ lower_order_nums' = lower_order_nums
        /\ UNCHANGED vars /\ config' = config
        /\ \E ranks : caches' = Released(ranks)
    BY <1>11 DEF EndRequest
  <2>2. DOMAIN caches' = Ranks
    BY <2>1 DEF Released
  <2> QED  BY <1>1, <1>6, <2>1, <2>2 DEF StageInv
<1> QED  BY <1>4, <1>5, <1>7, <1>8, <1>9, <1>10, <1>11 DEF NextDenoise

\* Every variable of a stage keeps to its kind through all requests: the patch
\* index stays within the split and the scheduler never counts past its last
\* step.
THEOREM DenoisingKeepsTypes == SpecDenoise => []DenoiseTypeOK
<1>1. InitDenoise => StageInv
  BY InitStageInv
<1>2. TypeOK /\ StageInv /\ [NextDenoise]_<<vars, denoiseVars>> => StageInv'
  BY StageNext
<1>3. TypeOK /\ StageInv => DenoiseTypeOK
  BY DEF StageInv, DenoiseTypeOK
<1> QED  BY <1>1, <1>2, <1>3, RequestsKeepTypes, DenoisingOnlyReadsTheSplit, PTL DEF SpecDenoise

----------------------------------------------------------------------------
(* The rows a rank computes now.                                            *)

RowsNow(r) == IF patch_mode THEN PatchRows(r) ELSE LocalRows(r)

StartNow(r) == IF patch_mode THEN LocalStart(r, pipeline_patch_idx) ELSE 0

\* They lie within the rank's own latent: from its first row at the first
\* patch, up to its last row at the last one, and up to the next patch else.
Placed(r, W, start, len) ==
    /\ RowsNow(r) \in Seq(Nat) /\ Len(RowsNow(r)) = len
    /\ LocalRows(r) \in Seq(Nat) /\ Len(LocalRows(r)) = W
    /\ StartNow(r) = start /\ start + len <= W
    /\ FirstPatch => start = 0
    /\ LastPatch => start + len = W
    /\ patch_mode => start = LocalStart(r, pipeline_patch_idx)
    /\ ~LastPatch => LocalStart(r, pipeline_patch_idx + 1) = start + len

\* A stage that denoises has an even split.
LEMMA DenoisingSplit ==
    ASSUME TypeOK, SplitIsOwn, StageInv, phase = "denoise"
    PROVE  \E n \in Nat \ {0}, e \in Nat \ {0}, f \in Nat \ {0} : EvenSplit(n, e, f)
<1>1. setup \in Setups /\ height \in Nat \ {0}
  BY PositiveSizes DEF TypeOK
<1>2. Computed /\ (setup.sp = 1 \/ LastHeight(height) = PatchHeight(height))
  BY DEF StageInv, EqualParts
<1>3. PICK n \in Nat, e \in Nat, f \in Nat : SplitOf(n, e, f)
  BY <1>1, <1>2, AcceptedSplit DEF SplitIsOwn
<1>4. EvenSplit(n, e, f)
  BY <1>1, <1>2, <1>3, EvenParts
<1>5. n \in Nat \ {0} /\ e \in Nat \ {0} /\ f \in Nat \ {0}
  BY <1>4 DEF EvenSplit
<1> QED  BY <1>4, <1>5

LEMMA PlacedRows ==
    ASSUME TypeOK, SplitIsOwn, StageInv, phase = "denoise", NEW r \in Ranks
    PROVE  \E W \in Nat, start \in Nat, len \in Nat : Placed(r, W, start, len)
<1>1. setup \in Setups
  BY DEF TypeOK
<1>2. PICK n \in Nat \ {0}, e \in Nat \ {0}, f \in Nat \ {0} : EvenSplit(n, e, f)
  BY DenoisingSplit
<1>3. num_pipeline_patch = n /\ f <= e
  BY <1>2 DEF EvenSplit
<1>4. LocalShape(r, n, e, f)
  BY <1>1, <1>2, LocalFacts
<1>5. PICK W \in Nat : W = (n - 1) * e + f
  <2>1. (n - 1) * e + f \in Nat
    OBVIOUS
  <2> QED  BY <2>1
<1>6. LocalRows(r) \in Seq(Nat) /\ Len(LocalRows(r)) = W
  BY <1>4, <1>5 DEF LocalShape
<1>7. CASE ~patch_mode
  <2>1. Placed(r, W, 0, W)
    BY <1>6, <1>7 DEF Placed, RowsNow, StartNow, FirstPatch, LastPatch
  <2> QED  BY <2>1
<1>8. CASE patch_mode
  <2>1. PICK p \in 1 .. n : p = pipeline_patch_idx
    BY <1>3 DEF StageInv
  <2>2. PICK m \in Nat : m = PartHeight(n, e, f, p)
    BY DEF PartHeight
  <2>3. PICK a \in Nat : a = (p - 1) * e /\ a = LocalStart(r, p) /\ a + m <= W
    BY <1>4, <1>5, <2>2 DEF LocalShape
  <2>4. RowsNow(r) \in Seq(Nat) /\ Len(RowsNow(r)) = m
    <3>1. PICK b : b = bounds[r][p]
      OBVIOUS
    <3>2. PICK s \in Nat : s = PartStart(e, p, r)
      BY <1>2 DEF EvenSplit
    <3>3. Spans(b, s, m)
      BY <1>2, <2>2, <3>1, <3>2 DEF EvenSplit, Spans
    <3>4. Rows(b) \in Seq(Nat) /\ Len(Rows(b)) = m
      BY <3>3, RowsFacts
    <3>5. RowsNow(r) = Rows(b)
      BY <1>8, <2>1, <3>1 DEF RowsNow, PatchRows
    <3> QED  BY <3>4, <3>5
  <2>5. p = 1 => a = 0
    BY <2>3
  <2>6. p = n => a + m = W
    BY <1>5, <2>2, <2>3 DEF PartHeight
  <2>7. p # n => LocalStart(r, p + 1) = a + m
    <3> SUFFICES ASSUME p # n PROVE LocalStart(r, p + 1) = a + m
      OBVIOUS
    <3>1. p + 1 \in 1 .. n /\ (p + 1) - 1 = p /\ m = e
      BY <2>2 DEF PartHeight
    <3>2. LocalStart(r, p + 1) = p * e
      BY <1>4, <3>1 DEF LocalShape
    <3>3. p * e = (p - 1) * e + e
      OBVIOUS
    <3> QED  BY <2>3, <3>1, <3>2, <3>3
  <2>8. Placed(r, W, a, m)
    BY <1>3, <1>6, <1>8, <2>1, <2>3, <2>4, <2>5, <2>6, <2>7
       DEF Placed, StartNow, FirstPatch, LastPatch
  <2> QED  BY <2>8
<1> QED  BY <1>7, <1>8

\* The rows of a split stay while nothing is received.
LEMMA SplitOnly ==
    ASSUME UNCHANGED vars, NEW r, NEW p
    PROVE  LocalRows(r)' = LocalRows(r) /\ LocalStart(r, p)' = LocalStart(r, p)
<1>1. bounds' = bounds
  BY DEF vars
<1>2. LocalRows(r)' = LocalRows(r)
  BY <1>1, Zenon DEF LocalRows
<1>3. LocalStart(r, p)' = LocalStart(r, p)
  BY <1>1, Zenon DEF LocalStart
<1> QED  BY <1>2, <1>3

----------------------------------------------------------------------------
(* The history of every rank.                                               *)

RankHistory(outs, o, W, t, done, first, filled) ==
    /\ outs \in Seq(Cells(W)) /\ Len(outs) = o
    /\ IF first THEN Between(outs, o, W, t, done) ELSE Within(outs, o, W, t, done, filled)

History ==
    phase = "denoise" =>
        \A r \in Ranks :
            RankHistory(model_outputs[r], config.order, Len(LocalRows(r)), Time - 1, step,
                        FirstPatch, LocalStart(r, pipeline_patch_idx))

\* Recording a rank's outputs, in the words of the model.
LEMMA NewOutputsAre ==
    ASSUME NEW r \in Ranks, NEW W \in Nat, NEW start \in Nat, NEW len \in Nat,
           NEW t \in Nat, NEW o, Placed(r, W, start, len), Time = t + 1, o = config.order
    PROVE  /\ NewOutputs(r) = Recorded(FirstPatch, model_outputs[r], Blank(r), o, start, len, t)
           /\ Blank(r) \in Cells(W)
<1>1. RowsNow(r) \in Seq(Nat) /\ Len(RowsNow(r)) = len /\ StartNow(r) = start
      /\ Len(LocalRows(r)) = W
  BY DEF Placed
<1>2. DOMAIN RowsNow(r) = 1 .. len
  BY <1>1
<1>3. NewOutputs(r) = [Shifted(model_outputs[r], Blank(r)) EXCEPT ![config.order] =
                          Overwritten(@, StartNow(r), [i \in DOMAIN RowsNow(r) |-> Time])]
  BY Zenon DEF NewOutputs, StartNow, RowsNow
<1>4. [i \in DOMAIN RowsNow(r) |-> Time] = [i \in 1 .. len |-> t + 1]
  BY <1>2
<1>5. Shifted(model_outputs[r], Blank(r)) = ShiftIf(FirstPatch, model_outputs[r], Blank(r))
  BY DEF Shifted, ShiftIf
<1>6. Blank(r) \in Cells(W)
  BY <1>1 DEF Blank, Cells
<1> QED  BY <1>1, <1>3, <1>4, <1>5, <1>6, Zenon DEF Recorded

\* What a rank's history holds after its rows are recorded.
LEMMA StepRecords ==
    ASSUME TypeOK, SplitIsOwn, StageInv, History, phase = "denoise", NEW r \in Ranks,
           NEW W \in Nat, NEW start \in Nat, NEW len \in Nat, NEW t \in Nat, NEW o \in Nat \ {0},
           Placed(r, W, start, len), Time = t + 1, o = config.order
    PROVE  SolverDone(NewOutputs(r), o, W, start, len, t, step)
<1>1. PICK done \in Nat : done = step
  BY DenoisingSizes DEF StageInv
<1>2. PICK first \in BOOLEAN : first = FirstPatch
  BY DEF FirstPatch, StageInv
<1>3. PICK outs, blank : outs = model_outputs[r] /\ blank = Blank(r)
  OBVIOUS
<1>4. /\ NewOutputs(r) = Recorded(first, outs, blank, o, start, len, t)
      /\ blank \in Cells(W)
  BY <1>2, <1>3, NewOutputsAre
<1>5. RankHistory(outs, o, W, t, done, first, LocalStart(r, pipeline_patch_idx))
  <2>1. Len(LocalRows(r)) = W /\ Time - 1 = t
    BY DEF Placed
  <2> QED  BY <1>1, <1>2, <1>3, <2>1 DEF History
<1>6. SolverReady(first, outs, blank, o, W, start, len, t, done)
  <2>1. /\ start + len <= W
        /\ first => start = 0
        /\ ~first => start = LocalStart(r, pipeline_patch_idx)
    BY <1>2 DEF Placed, FirstPatch
  <2>2. /\ outs \in Seq(Cells(W)) /\ Len(outs) = o
        /\ first => Between(outs, o, W, t, done)
        /\ ~first => Within(outs, o, W, t, done, LocalStart(r, pipeline_patch_idx))
    BY <1>5 DEF RankHistory
  <2>3. ~first => Within(outs, o, W, t, done, start)
    BY <2>1, <2>2
  <2>4. blank \in Cells(W) /\ start + len <= W
    BY <1>4, <2>1
  <2>5. CASE first
    <3>1. start = 0 /\ Between(outs, o, W, t, done)
      BY <2>1, <2>2, <2>5
    <3> QED  BY <2>2, <2>4, <2>5, <3>1, Zenon DEF SolverReady
  <2>6. CASE ~first
    <3>1. Within(outs, o, W, t, done, start)
      BY <2>3, <2>6
    <3> QED  BY <2>2, <2>4, <2>6, <3>1, Zenon DEF SolverReady
  <2> QED  BY <2>5, <2>6
<1>7. SolverDone(Recorded(first, outs, blank, o, start, len, t), o, W, start, len, t, done)
  BY <1>6, RecordedFacts
<1> QED  BY <1>1, <1>4, <1>7

\* Both ways to count give one order of update: the scheduler's calls, and the
\* steps of the request.
LEMMA OneOrder ==
    ASSUME StageInv, step < NumSteps
    PROVE  /\ UpdateOrder \in Nat /\ UpdateOrder <= config.order /\ UpdateOrder <= step + 1
           /\ UpdateOrder = Min({config.order, step + 1, NumSteps - step})
<1>1. PICK o \in Nat \ {0}, w \in Nat : o = config.order /\ w = config.warmup /\ o <= w + 1
  BY StageSizes
<1>2. PICK N \in Nat, s \in Nat, l \in Nat :
         N = NumSteps /\ s = step /\ l = lower_order_nums /\ s < N /\ step_index = s
  BY <1>1, DenoisingSizes DEF StageInv
<1>3. l <= o /\ ((l >= o - 1 /\ s >= o - 1) \/ l = (IF o <= s THEN o ELSE s))
  <2>1. lower_order_nums \in 0 .. o
    BY <1>1 DEF StageInv
  <2>2. CASE patch_mode
    <3>1. s >= w /\ l >= o - 1
      BY <1>1, <1>2, <2>2 DEF StageInv
    <3> QED  BY <1>1, <1>2, <2>1, <3>1
  <2>3. CASE ~patch_mode
    <3>1. l = IF o <= s THEN o ELSE s
      BY <1>1, <1>2, <2>3 DEF StageInv
    <3> QED  BY <1>2, <2>1, <3>1
  <2> QED  BY <2>2, <2>3
<1>4. PICK x : x = Min({o, l + 1, N - s}) /\ Least(x, o, l + 1, N - s)
  <2>1. l + 1 \in Int /\ N - s \in Int
    BY <1>2
  <2> QED  BY <2>1, MinOfThree
<1>5. PICK y : y = Min({o, s + 1, N - s}) /\ Least(y, o, s + 1, N - s)
  <2>1. s + 1 \in Int /\ N - s \in Int
    BY <1>2
  <2> QED  BY <2>1, MinOfThree
<1>6. /\ x \in Nat /\ x <= o /\ y \in Nat /\ y <= s + 1
      /\ x = y
  BY <1>2, <1>3, <1>4, <1>5 DEF Least
<1>7. UpdateOrder = x
  BY <1>1, <1>2, <1>4 DEF UpdateOrder
<1> QED  BY <1>1, <1>2, <1>5, <1>6, <1>7

\* The newest outputs of as many steps as the update has orders.
Newest(slices, t) ==
    /\ Len(slices) = UpdateOrder
    /\ \A k \in DOMAIN slices : \A i \in DOMAIN slices[k] : slices[k][i] = t + 2 - k

\* What the solver is given of one rank.
LEMMA SlicesFacts ==
    ASSUME StageInv, step < NumSteps, NEW r \in Ranks, NEW W \in Nat, NEW start \in Nat,
           NEW len \in Nat, NEW t \in Nat, NEW o \in Nat \ {0}, NEW new,
           Placed(r, W, start, len), o = config.order, SolverDone(new, o, W, start, len, t, step)
    PROVE  Newest(Slices(r, new), t)
<1>1. PICK u \in Nat : u = UpdateOrder /\ u <= o /\ u <= step + 1
  BY OneOrder
<1>2. RowsNow(r) \in Seq(Nat) /\ Len(RowsNow(r)) = len /\ StartNow(r) = start /\ start + len <= W
  BY DEF Placed
<1>3. Slices(r, new) = [k \in 1 .. UpdateOrder |->
          SubSeq(new[config.order + 1 - k], StartNow(r) + 1, StartNow(r) + Len(RowsNow(r)))]
  BY Zenon DEF Slices, StartNow, RowsNow
<1>4. Slices(r, new) = [k \in 1 .. u |-> SubSeq(new[o + 1 - k], start + 1, start + len)]
  BY <1>1, <1>2, <1>3
<1>5. Len(Slices(r, new)) = UpdateOrder /\ DOMAIN Slices(r, new) = 1 .. u
  BY <1>1, <1>4
<1>6. ASSUME NEW k \in 1 .. u
      PROVE  \A i \in DOMAIN Slices(r, new)[k] : Slices(r, new)[k][i] = t + 2 - k
  <2>1. k \in 1 .. o /\ k <= step + 1
    BY <1>1, DenoisingSizes DEF StageInv
  <2>2. PICK s \in Seq(Nat) : /\ s = new[o + 1 - k] /\ Len(s) = W
                              /\ \A i \in 1 .. len : s[start + i] = t + 2 - k
    BY <2>1 DEF SolverDone
  <2>3. Slices(r, new)[k] = SubSeq(s, start + 1, start + len)
    BY <1>4, <2>2
  <2>4. PICK b, c : /\ b = start + 1 /\ c = start + len /\ c - b + 1 = len
                    /\ b \in 1 .. Len(s) + 1 /\ c \in b - 1 .. Len(s)
    BY <1>2, <2>2
  <2>5. /\ SubSeq(s, b, c) \in Seq(Nat) /\ Len(SubSeq(s, b, c)) = c - b + 1
        /\ \A i \in 1 .. c - b + 1 : SubSeq(s, b, c)[i] = s[b + i - 1]
    BY <2>4, SubSeqProperties
  <2>6. DOMAIN SubSeq(s, b, c) = 1 .. len
    BY <2>4, <2>5
  <2>7. ASSUME NEW i \in 1 .. len PROVE SubSeq(s, b, c)[i] = t + 2 - k
    <3>1. b + i - 1 = start + i
      BY <2>4
    <3> QED  BY <2>2, <2>4, <2>5, <3>1
  <2> QED  BY <2>3, <2>4, <2>6, <2>7
<1> QED  BY <1>5, <1>6 DEF Newest

\* The update of a step that the stage makes with its solver.
LEMMA SolverUpdates ==
    ASSUME TypeOK, SplitIsOwn, StageInv, History, phase = "denoise", step < NumSteps,
           SolverStep, UNCHANGED vars, config' = config,
           NEW t \in Nat, Time = t + 1
    PROVE  /\ updated'.at = step
           /\ \A r \in Ranks :
                 /\ Len(updated'.of[r]) = Min({config.order, step + 1, NumSteps - step})
                 /\ \A k \in DOMAIN updated'.of[r] : \A i \in DOMAIN updated'.of[r][k] :
                       updated'.of[r][k][i] = t + 2 - k
<1>1. /\ model_outputs' = [r \in Ranks |-> NewOutputs(r)]
      /\ updated' = [at |-> step_index, of |-> [r \in Ranks |-> Slices(r, model_outputs'[r])]]
  BY DEF SolverStep
<1>2. updated'.at = step
  BY <1>1 DEF StageInv
<1>3. ASSUME NEW r \in Ranks
      PROVE  /\ Len(updated'.of[r]) = Min({config.order, step + 1, NumSteps - step})
             /\ \A k \in DOMAIN updated'.of[r] : \A i \in DOMAIN updated'.of[r][k] :
                   updated'.of[r][k][i] = t + 2 - k
  <2>1. PICK new : new = NewOutputs(r)
    OBVIOUS
  <2>2. updated'.of[r] = Slices(r, new)
    <3>1. model_outputs'[r] = new
      BY <1>1, <2>1
    <3>2. updated'.of[r] = Slices(r, model_outputs'[r])
      BY <1>1
    <3> QED  BY <3>1, <3>2
  <2>3. PICK W \in Nat, start \in Nat, len \in Nat : Placed(r, W, start, len)
    BY PlacedRows
  <2>4. PICK o \in Nat \ {0} : o = config.order
    BY StageSizes
  <2>5. SolverDone(new, o, W, start, len, t, step)
    BY <2>1, <2>3, <2>4, StepRecords
  <2>6. Newest(Slices(r, new), t)
    BY <2>3, <2>4, <2>5, SlicesFacts
  <2>7. UpdateOrder = Min({config.order, step + 1, NumSteps - step})
    BY OneOrder
  <2> QED  BY <2>2, <2>6, <2>7 DEF Newest
<1> QED  BY <1>2, <1>3

\* The history a step leaves: of a step in its course, or a finished one.
LEMMA StepHistory ==
    ASSUME TypeOK, SplitIsOwn, StageInv, History, phase = "denoise",
           SolverStep, UNCHANGED vars, config' = config, patch_mode' = patch_mode,
           NEW t \in Nat, Time = t + 1,
           IF LastPatch THEN /\ FirstPatch' /\ step' = step + 1 /\ Time' = t + 2
                        ELSE /\ ~FirstPatch' /\ step' = step /\ Time' = t + 1
                             /\ pipeline_patch_idx' = pipeline_patch_idx + 1
    PROVE  History'
<1>1. SUFFICES ASSUME NEW r \in Ranks
               PROVE  RankHistory(model_outputs'[r], config.order, Len(LocalRows(r)), Time' - 1,
                                  step', FirstPatch', LocalStart(r, pipeline_patch_idx'))
  <2>1. Ranks' = Ranks /\ config'.order = config.order
    BY DEF vars, Ranks
  <2>2. PICK q : q = pipeline_patch_idx'
    OBVIOUS
  <2>3. \A r : LocalRows(r)' = LocalRows(r) /\ LocalStart(r, q)' = LocalStart(r, q)
    BY SplitOnly
  <2> QED  BY <2>1, <2>2, <2>3 DEF History
<1>2. PICK W \in Nat, start \in Nat, len \in Nat : Placed(r, W, start, len)
  BY PlacedRows
<1>3. PICK o \in Nat \ {0}, s \in Nat : o = config.order /\ s = step
  BY StageSizes DEF StageInv
<1>4. PICK new : new = NewOutputs(r) /\ model_outputs'[r] = new
  BY DEF SolverStep
<1>5. SolverDone(new, o, W, start, len, t, s)
  BY <1>2, <1>3, <1>4, StepRecords
<1>6. new \in Seq(Cells(W)) /\ Len(new) = o /\ Within(new, o, W, t, s, start + len)
  BY <1>5 DEF SolverDone
<1>7. Len(LocalRows(r)) = W
  BY <1>2 DEF Placed
<1>8. CASE LastPatch
  <2>1. start + len = W
    BY <1>2, <1>8 DEF Placed
  <2>2. Between(new, o, W, t + 1, s + 1)
    BY <1>6, <2>1, WithinIsBetween
  <2>3. FirstPatch' /\ step' = s + 1 /\ Time' - 1 = t + 1
    BY <1>3, <1>8
  <2> QED  BY <1>3, <1>4, <1>6, <1>7, <2>2, <2>3 DEF RankHistory
<1>9. CASE ~LastPatch
  <2>1. LocalStart(r, pipeline_patch_idx + 1) = start + len
    BY <1>2, <1>9 DEF Placed
  <2>2. ~FirstPatch' /\ step' = s /\ Time' - 1 = t /\ pipeline_patch_idx' = pipeline_patch_idx + 1
    BY <1>3, <1>9
  <2> QED  BY <1>3, <1>4, <1>6, <1>7, <2>1, <2>2 DEF RankHistory
<1> QED  BY <1>8, <1>9

\* The clock of a stage that denoises.
LEMMA Clock ==
    ASSUME StageInv, phase = "denoise"
    PROVE  \E base \in Nat, t \in Nat :
              /\ base = (request - 1) * NumSteps
              /\ t = base + step /\ Time = t + 1
<1>1. PICK q \in Nat, N \in Nat, s \in Nat : q = request - 1 /\ N = NumSteps /\ s = step
  BY DenoisingSizes DEF StageInv
<1>2. PICK b \in Nat : b = q * N
  <2>1. q * N \in Nat
    OBVIOUS
  <2> QED  BY <2>1
<1>3. b = (request - 1) * NumSteps /\ b + s = b + step /\ Time = (b + s) + 1
  BY <1>1, <1>2 DEF Time
<1> QED  BY <1>3

\* Whether a step of the solver was its last, and what it leaves to do.
LEMMA SolverMoves ==
    ASSUME TypeOK, StageInv, phase = "denoise", WarmupStep \/ PatchStep,
           NEW t \in Nat, Time = t + 1
    PROVE  /\ step < NumSteps /\ SolverStep /\ Attend /\ UNCHANGED vars
           /\ config' = config /\ patch_mode' = patch_mode /\ request' = request
           /\ AttendedTime' = t + 1
           /\ IF LastPatch THEN /\ FirstPatch' /\ step' = step + 1 /\ Time' = t + 2
                           ELSE /\ ~FirstPatch' /\ step' = step /\ Time' = t + 1
                                /\ pipeline_patch_idx' = pipeline_patch_idx + 1
<1>1. PICK base \in Nat, s \in Nat : base = (request - 1) * NumSteps /\ s = step /\ t = base + s
  BY Clock DEF StageInv
<1>2. PICK w \in Nat, N \in Nat : w = config.warmup /\ N = NumSteps /\ w <= N
  BY StageSizes, DenoisingSizes
<1>3. request' = request => Time' = base + step' + 1
  BY <1>1 DEF Time
<1>4. CASE WarmupStep
  <2>1. /\ step < w /\ Attend /\ SolverStep /\ step' = step + 1 /\ UNCHANGED vars
        /\ config' = config /\ request' = request /\ patch_mode' = patch_mode
    BY <1>2, <1>4 DEF WarmupStep
  <2>2. ~patch_mode
    BY <1>1, <1>2, <2>1 DEF StageInv
  <2>3. Time' = t + 2 /\ step < NumSteps
    BY <1>1, <1>2, <1>3, <2>1
  <2>4. FirstPatch' /\ LastPatch /\ AttendedTime' = t + 1
    BY <2>1, <2>2, <2>3 DEF FirstPatch, LastPatch, AttendedTime
  <2> QED  BY <2>1, <2>3, <2>4
<1>5. CASE PatchStep
  <2>1. PICK n \in Nat \ {0}, p \in Nat :
           n = num_pipeline_patch /\ p = pipeline_patch_idx /\ p \in 1 .. n
    <3>1. PICK n \in Nat \ {0} : n = num_pipeline_patch
      BY PositiveSizes DEF TypeOK, Setups
    <3>2. pipeline_patch_idx \in 1 .. n
      BY <3>1 DEF StageInv
    <3> QED  BY <3>1, <3>2
  <2>2. /\ patch_mode /\ step < N /\ Attend /\ SolverStep
        /\ pipeline_patch_idx' = (p % n) + 1 /\ step' = (IF LastPatch THEN step + 1 ELSE step)
        /\ UNCHANGED vars /\ config' = config /\ request' = request /\ patch_mode' = patch_mode
    BY <1>2, <1>5, <2>1 DEF PatchStep
  <2>3. num_pipeline_patch' = n
    BY <2>1, <2>2 DEF vars
  <2>4. CASE p = n
    <3>1. p % n = 0
      BY <2>4
    <3>2. LastPatch /\ pipeline_patch_idx' = 1 /\ step' = step + 1
      BY <2>1, <2>2, <2>4, <3>1 DEF LastPatch
    <3>3. Time' = t + 2
      BY <1>1, <1>3, <2>2, <3>2
    <3>4. AttendedPatch' = n
      BY <2>3, <3>2 DEF AttendedPatch
    <3>5. AttendedTime' = t + 1
      BY <2>3, <3>3, <3>4 DEF AttendedTime
    <3> QED  BY <1>2, <2>2, <3>2, <3>3, <3>5 DEF FirstPatch
  <2>5. CASE p # n
    <3>1. p % n = p
      BY <2>1, <2>5
    <3>2. ~LastPatch /\ pipeline_patch_idx' = p + 1 /\ step' = step
      BY <2>1, <2>2, <2>5, <3>1 DEF LastPatch
    <3>3. Time' = t + 1
      BY <1>1, <1>3, <2>2, <3>2
    <3>4. AttendedPatch' = p /\ p < n
      BY <2>1, <2>3, <2>5, <3>2 DEF AttendedPatch
    <3>5. AttendedTime' = t + 1
      BY <2>2, <2>3, <3>3, <3>4 DEF AttendedTime
    <3>6. ~FirstPatch'
      BY <2>1, <2>2, <3>2 DEF FirstPatch
    <3> QED  BY <1>2, <2>1, <2>2, <3>2, <3>3, <3>5, <3>6
  <2> QED  BY <2>4, <2>5
<1> QED  BY <1>4, <1>5

LEMMA HistoryNext ==
    ASSUME TypeOK, SplitIsOwn, StageInv, History, [NextDenoise]_<<vars, denoiseVars>>
    PROVE  History'
<1>1. CASE SetInput \/ EndRequest
  <2>1. phase' = "idle"
    BY <1>1 DEF SetInput, EndRequest
  <2> QED  BY <2>1 DEF History
<1>2. CASE StartRequest
  <2>1. /\ step' = 0 /\ patch_mode' = FALSE /\ UNCHANGED vars /\ config' = config
        /\ model_outputs' = [r \in Ranks |-> [k \in 1 .. config.order |-> Blank(r)]]
    BY <1>2 DEF StartRequest, ModeAtStart
  <2>2. PICK o \in Nat \ {0} : o = config.order
    BY StageSizes
  <2>3. Ranks' = Ranks /\ config'.order = o /\ FirstPatch'
    BY <2>1, <2>2 DEF vars, Ranks, FirstPatch
  <2>4. ASSUME NEW r \in Ranks, NEW t, NEW q
        PROVE  RankHistory(model_outputs'[r], o, Len(LocalRows(r)), t, step', FirstPatch', q)
    <3>1. PICK W : W = Len(LocalRows(r))
      OBVIOUS
    <3>2. PICK b : b = Blank(r) /\ b \in Cells(W)
      <4>1. Blank(r) = [i \in 1 .. W |-> 0]
        BY <3>1 DEF Blank
      <4>2. [i \in 1 .. W |-> 0] \in Cells(W)
        BY DEF Cells
      <4> QED  BY <4>1, <4>2
    <3>3. PICK outs : outs = model_outputs'[r] /\ outs = [k \in 1 .. o |-> b]
      BY <2>1, <2>2, <3>2
    <3>4. outs \in Seq(Cells(W)) /\ Len(outs) = o
      BY <3>2, <3>3
    <3>5. Between(outs, o, W, t, 0)
      BY DEF Between
    <3> QED  BY <2>1, <2>3, <3>1, <3>3, <3>4, <3>5 DEF RankHistory
  <2>5. PICK q, t : q = pipeline_patch_idx' /\ t = Time' - 1
    OBVIOUS
  <2>6. \A r : LocalRows(r)' = LocalRows(r)
    BY <2>1, SplitOnly
  <2> QED  BY <2>3, <2>4, <2>5, <2>6 DEF History
<1>3. CASE (WarmupStep \/ PatchStep) /\ phase = "denoise"
  <2>1. PICK t \in Nat : Time = t + 1
    BY <1>3, Clock
  <2>2. /\ step < NumSteps /\ SolverStep /\ UNCHANGED vars
        /\ config' = config /\ patch_mode' = patch_mode
        /\ IF LastPatch THEN /\ FirstPatch' /\ step' = step + 1 /\ Time' = t + 2
                        ELSE /\ ~FirstPatch' /\ step' = step /\ Time' = t + 1
                             /\ pipeline_patch_idx' = pipeline_patch_idx + 1
    BY <1>3, <2>1, SolverMoves
  <2> QED  BY <1>3, <2>1, <2>2, StepHistory
<1>4. CASE EnterPatchMode
  <2>1. /\ phase = "denoise" /\ ~patch_mode /\ patch_mode' = TRUE /\ pipeline_patch_idx' = 1
        /\ request' = request /\ step' = step /\ model_outputs' = model_outputs
        /\ UNCHANGED vars /\ config' = config
    BY <1>4 DEF EnterPatchMode
  <2>2. Ranks' = Ranks /\ FirstPatch' /\ FirstPatch /\ Time' = Time
    BY <2>1 DEF vars, Ranks, FirstPatch, Time
  <2>3. \A r : LocalRows(r)' = LocalRows(r)
    BY <2>1, SplitOnly
  <2>4. ASSUME NEW r \in Ranks, NEW q
        PROVE  RankHistory(model_outputs[r], config.order, Len(LocalRows(r)), Time - 1, step,
                           FirstPatch', q)
    <3>1. RankHistory(model_outputs[r], config.order, Len(LocalRows(r)), Time - 1, step,
                      FirstPatch, LocalStart(r, pipeline_patch_idx))
      BY <2>1 DEF History
    <3> QED  BY <2>2, <3>1 DEF RankHistory
  <2>5. PICK q : q = pipeline_patch_idx'
    OBVIOUS
  <2> QED  BY <2>1, <2>2, <2>3, <2>4, <2>5 DEF History
<1>5. CASE UNCHANGED <<vars, denoiseVars>>
  <2>1. /\ UNCHANGED vars /\ config' = config /\ phase' = phase /\ request' = request
        /\ step' = step /\ patch_mode' = patch_mode
        /\ pipeline_patch_idx' = pipeline_patch_idx /\ model_outputs' = model_outputs
    BY <1>5 DEF denoiseVars
  <2>2. Ranks' = Ranks /\ FirstPatch' = FirstPatch /\ Time' = Time
    BY <2>1 DEF vars, Ranks, FirstPatch, Time
  <2>3. PICK q : q = pipeline_patch_idx
    OBVIOUS
  <2>4. \A r : LocalRows(r)' = LocalRows(r) /\ LocalStart(r, q)' = LocalStart(r, q)
    BY <2>1, SplitOnly
  <2> QED  BY <2>1, <2>2, <2>3, <2>4 DEF History
<1> QED  BY <1>1, <1>2, <1>3, <1>4, <1>5 DEF NextDenoise, WarmupStep, PatchStep

LEMMA SolverInStepNext ==
    ASSUME TypeOK, SplitIsOwn, StageInv, History, SolverInStep,
           [NextDenoise]_<<vars, denoiseVars>>
    PROVE  SolverInStep'
<1>1. CASE SetInput \/ StartRequest \/ EnterPatchMode \/ EndRequest
  <2>1. updated' = Nothing
    BY <1>1 DEF SetInput, StartRequest, EnterPatchMode, EndRequest
  <2> QED  BY <2>1 DEF SolverInStep, Nothing
<1>2. CASE (WarmupStep \/ PatchStep) /\ phase = "denoise"
  <2>1. PICK base \in Nat, t \in Nat :
           base = (request - 1) * NumSteps /\ t = base + step /\ Time = t + 1
    BY <1>2, Clock
  <2>2. /\ step < NumSteps /\ SolverStep /\ UNCHANGED vars
        /\ config' = config /\ request' = request /\ AttendedTime' = t + 1
    BY <1>2, <2>1, SolverMoves
  <2>3. /\ updated'.at = step
        /\ \A r \in Ranks :
              /\ Len(updated'.of[r]) = Min({config.order, step + 1, NumSteps - step})
              /\ \A k \in DOMAIN updated'.of[r] : \A i \in DOMAIN updated'.of[r][k] :
                    updated'.of[r][k][i] = t + 2 - k
    BY <1>2, <2>1, <2>2, SolverUpdates
  <2>4. step = AttendedTime' - (request' - 1) * NumSteps - 1
    <3>1. step \in Nat
      BY DEF StageInv
    <3>2. (request' - 1) * NumSteps = base
      BY <2>1, <2>2
    <3> QED  BY <2>1, <2>2, <3>1, <3>2
  <2>5. ASSUME NEW r \in Ranks, NEW k \in DOMAIN updated'.of[r]
        PROVE  \A i \in DOMAIN updated'.of[r][k] : updated'.of[r][k][i] = AttendedTime' + 1 - k
    <3>1. PICK m \in Nat : m = Min({config.order, step + 1, NumSteps - step})
      <4>1. UpdateOrder \in Nat /\ UpdateOrder = Min({config.order, step + 1, NumSteps - step})
        BY <2>2, OneOrder
      <4> QED  BY <4>1
    <3>2. updated'.of[r] = Slices(r, model_outputs'[r])
      BY <2>2 DEF SolverStep
    <3>3. UpdateOrder = m
      BY <2>2, <3>1, OneOrder
    <3>4. DOMAIN Slices(r, model_outputs'[r]) = 1 .. m
      BY <3>3 DEF Slices
    <3>5. k \in Nat
      BY <3>2, <3>4
    <3>6. t + 2 - k = AttendedTime' + 1 - k
      BY <2>2, <3>5
    <3> QED  BY <2>3, <3>6
  <2>6. Ranks' = Ranks /\ config'.order = config.order
    BY <2>2 DEF vars, Ranks
  <2> QED  BY <2>3, <2>4, <2>5, <2>6 DEF SolverInStep
<1>3. CASE UNCHANGED <<vars, denoiseVars>>
  <2>1. /\ setup' = setup /\ config' = config /\ request' = request /\ step' = step
        /\ patch_mode' = patch_mode /\ num_pipeline_patch' = num_pipeline_patch
        /\ pipeline_patch_idx' = pipeline_patch_idx /\ updated' = updated
    BY <1>3 DEF vars, denoiseVars
  <2>2. Ranks' = Ranks /\ AttendedTime' = AttendedTime
    BY <2>1 DEF Ranks, AttendedTime, AttendedPatch, Time
  <2> QED  BY <2>1, <2>2 DEF SolverInStep, Nothing
<1> QED  BY <1>1, <1>2, <1>3 DEF NextDenoise, WarmupStep, PatchStep

\* The multistep solver is always called at the step the stage is in, and with
\* the model outputs of its own rows in this step and the steps just before it:
\* patch by patch, in every request, for every split, warm-up and order.
THEOREM SolverSeesItsOwnSteps == SpecDenoise => []SolverInStep
<1>1. InitDenoise => StageInv
  BY InitStageInv
<1>2. InitDenoise => History /\ SolverInStep
  BY DEF InitDenoise, History, SolverInStep
<1>3. TypeOK /\ StageInv /\ [NextDenoise]_<<vars, denoiseVars>> => StageInv'
  BY StageNext
<1>4. TypeOK /\ SplitIsOwn /\ StageInv /\ History /\ [NextDenoise]_<<vars, denoiseVars>> => History'
  BY HistoryNext
<1>5. TypeOK /\ SplitIsOwn /\ StageInv /\ History /\ SolverInStep
         /\ [NextDenoise]_<<vars, denoiseVars>> => SolverInStep'
  BY SolverInStepNext
<1> QED  BY <1>1, <1>2, <1>3, <1>4, <1>5, SplitIsOwnHolds, DenoisingOnlyReadsTheSplit, PTL
         DEF SpecDenoise

----------------------------------------------------------------------------
(* Numbers from 1 on in slots of b, the last of k slots with l of them.     *)

Slots(b, k, l, y) ==
    /\ b \in Nat \ {0} /\ k \in Nat \ {0} /\ l \in 1 .. b
    /\ y \in 1 .. (k - 1) * b + l

InSlot(b, k, l, y, i, j) ==
    /\ i \in 1 .. k /\ j \in 1 .. b
    /\ y = (i - 1) * b + j
    /\ i = k => j <= l

LEMMA SlotOf ==
    ASSUME NEW b, NEW k, NEW l, NEW y, Slots(b, k, l, y)
    PROVE  \E i, j : InSlot(b, k, l, y, i, j)
<1>1. b \in Nat \ {0} /\ k \in Nat \ {0} /\ l \in 1 .. b /\ y \in 1 .. (k - 1) * b + l
  BY DEF Slots
<1>2. PICK E \in Nat : E = (k - 1) * b
  <2>1. (k - 1) * b \in Nat
    BY <1>1
  <2> QED  BY <2>1
<1>3. y \in 1 .. E + l /\ y - 1 \in Nat
  BY <1>1, <1>2
<1>4. PICK q \in Nat, m \in 0 .. b - 1 : y - 1 = q * b + m
  BY <1>1, <1>3, DivMod
<1>5. q < k
  <2>1. q >= k => q * b >= k * b
    BY <1>1, <1>4
  <2>2. k * b = E + b
    BY <1>1, <1>2
  <2>3. q * b \in Nat /\ k * b \in Nat
    BY <1>1, <1>4
  <2> QED  BY <1>1, <1>3, <1>4, <2>1, <2>2, <2>3
<1>6. PICK i \in 1 .. k, j \in 1 .. b : i = q + 1 /\ j = m + 1
  BY <1>1, <1>4, <1>5
<1>7. (i - 1) * b = q * b
  BY <1>6
<1>8. y = (i - 1) * b + j
  <2>1. PICK x \in Nat : x = q * b
    BY <1>1, <1>4
  <2> QED  BY <1>3, <1>4, <1>6, <1>7, <2>1
<1>9. i = k => j <= l
  BY <1>1, <1>2, <1>3, <1>6, <1>8
<1> QED  BY <1>6, <1>8, <1>9 DEF InSlot

LEMMA SlotRange ==
    ASSUME NEW b \in Nat \ {0}, NEW k \in Nat \ {0}, NEW l \in 1 .. b,
           NEW i \in 1 .. k, NEW j \in 1 .. b, i = k => j <= l
    PROVE  (i - 1) * b + j \in 1 .. (k - 1) * b + l
<1>1. PICK E \in Nat, y \in Nat : E = (k - 1) * b /\ y = (i - 1) * b
  <2>1. (k - 1) * b \in Nat /\ (i - 1) * b \in Nat
    OBVIOUS
  <2> QED  BY <2>1
<1>2. CASE i = k
  BY <1>1, <1>2
<1>3. CASE i < k
  <2>1. i * b <= E
    BY <1>1, <1>3
  <2>2. i * b = y + b
    BY <1>1
  <2> QED  BY <1>1, <2>1, <2>2
<1> QED  BY <1>2, <1>3

----------------------------------------------------------------------------
(* The two orders of a key-value cache: by ranks, as the warm-up leaves it, *)
(* or by patches, as the asynchronous steps fill it.                        *)

Width(n, e, f) == (n - 1) * e + f

RankCell(n, e, f, p, u, j) == (u - 1) * Width(n, e, f) + ((p - 1) * e + j)

PatchCell(U, n, e, f, p, u, j) == (p - 1) * (U * e) + ((u - 1) * PartHeight(n, e, f, p) + j)

At(byRanks, U, n, e, f, p, u, j) ==
    IF byRanks THEN RankCell(n, e, f, p, u, j) ELSE PatchCell(U, n, e, f, p, u, j)

Sized(U, n, e, f) ==
    /\ U \in Nat \ {0} /\ n \in Nat \ {0} /\ e \in Nat \ {0} /\ f \in Nat \ {0} /\ f <= e

\* Sizes that follow from these.
LEMMA SizedFacts ==
    ASSUME NEW U, NEW n, NEW e, NEW f, Sized(U, n, e, f)
    PROVE  /\ Width(n, e, f) \in Nat \ {0} /\ U * e \in Nat \ {0} /\ U * f \in 1 .. U * e
           /\ U * Width(n, e, f) = (U - 1) * Width(n, e, f) + Width(n, e, f)
           /\ U * Width(n, e, f) = (n - 1) * (U * e) + U * f
           /\ \A p \in 1 .. n : PartHeight(n, e, f, p) \in 1 .. e
<1> USE DEF Sized
<1>1. PICK E \in Nat : E = (n - 1) * e
  <2>1. (n - 1) * e \in Nat
    OBVIOUS
  <2> QED  BY <2>1
<1>2. PICK W \in Nat \ {0} : W = Width(n, e, f) /\ W = E + f
  BY <1>1 DEF Width
<1>3. PICK x \in Nat \ {0}, y \in Nat \ {0} : x = U * e /\ y = U * f /\ y <= x
  <2>1. U * e \in Nat \ {0} /\ U * f \in Nat \ {0} /\ U * f <= U * e
    OBVIOUS
  <2> QED  BY <2>1
<1>4. U * W = (U - 1) * W + W
  OBVIOUS
<1>5. U * W = (n - 1) * (U * e) + U * f
  <2>1. U * (E + f) = U * E + U * f
    OBVIOUS
  <2>2. U * ((n - 1) * e) = (n - 1) * (U * e)
    OBVIOUS
  <2> QED  BY <1>1, <1>2, <2>1, <2>2
<1>6. \A p \in 1 .. n : PartHeight(n, e, f, p) \in 1 .. e
  BY DEF PartHeight
<1> QED  BY <1>2, <1>3, <1>4, <1>5, <1>6

\* Every cell of a cache is the place of one row.
LEMMA EveryCell ==
    ASSUME NEW U, NEW n, NEW e, NEW f, Sized(U, n, e, f), NEW byRanks \in BOOLEAN,
           NEW x \in 1 .. U * Width(n, e, f)
    PROVE  \E p \in 1 .. n : \E u \in 1 .. U : \E j \in 1 .. PartHeight(n, e, f, p) :
              x = At(byRanks, U, n, e, f, p, u, j)
<1>1. U \in Nat \ {0} /\ n \in Nat \ {0} /\ e \in Nat \ {0} /\ f \in 1 .. e
  BY DEF Sized
<1>2. PICK W \in Nat \ {0}, b \in Nat \ {0}, l \in Nat :
         /\ W = Width(n, e, f) /\ b = U * e /\ l = U * f /\ l \in 1 .. b
         /\ U * Width(n, e, f) = (U - 1) * W + W /\ U * Width(n, e, f) = (n - 1) * b + l
  BY SizedFacts
<1>3. CASE byRanks
  <2>1. Slots(W, U, W, x)
    BY <1>1, <1>2 DEF Slots
  <2>2. PICK u, y : InSlot(W, U, W, x, u, y)
    BY <2>1, SlotOf, Zenon
  <2>3. u \in 1 .. U /\ y \in 1 .. W /\ x = (u - 1) * W + y
    BY <2>2 DEF InSlot
  <2>4. Slots(e, n, f, y)
    BY <1>1, <1>2, <2>3 DEF Width, Slots
  <2>5. PICK p, j : InSlot(e, n, f, y, p, j)
    BY <2>4, SlotOf, Zenon
  <2>6. p \in 1 .. n /\ j \in 1 .. e /\ y = (p - 1) * e + j /\ (p = n => j <= f)
    BY <2>5 DEF InSlot
  <2>7. j \in 1 .. PartHeight(n, e, f, p)
    BY <1>1, <2>6 DEF PartHeight
  <2>8. x = At(byRanks, U, n, e, f, p, u, j)
    BY <1>2, <1>3, <2>3, <2>6 DEF At, RankCell, PatchCell
  <2> QED  BY <2>3, <2>6, <2>7, <2>8
<1>4. CASE ~byRanks
  <2>1. Slots(b, n, l, x)
    BY <1>1, <1>2 DEF Slots
  <2>2. PICK p, y : InSlot(b, n, l, x, p, y)
    BY <2>1, SlotOf, Zenon
  <2>3. p \in 1 .. n /\ y \in 1 .. b /\ x = (p - 1) * b + y /\ (p = n => y <= l)
    BY <2>2 DEF InSlot
  <2>4. PICK m \in Nat \ {0} : m = PartHeight(n, e, f, p) /\ (p = n => m = f) /\ (p # n => m = e)
    BY <1>1, <2>3 DEF PartHeight
  <2>5. y \in 1 .. (U - 1) * m + m /\ m \in 1 .. m
    <3>1. (U - 1) * m + m = U * m
      BY <1>1
    <3>2. p = n => U * m = l
      BY <1>2, <2>4
    <3>3. p # n => U * m = b
      BY <1>2, <2>4
    <3> QED  BY <1>2, <2>3, <3>1, <3>2, <3>3
  <2>6. Slots(m, U, m, y)
    BY <1>1, <2>4, <2>5 DEF Slots
  <2>7. PICK u, j : InSlot(m, U, m, y, u, j)
    BY <2>6, SlotOf, Zenon
  <2>8. u \in 1 .. U /\ j \in 1 .. m /\ y = (u - 1) * m + j
    BY <2>7 DEF InSlot
  <2>9. x = At(byRanks, U, n, e, f, p, u, j)
    BY <1>2, <1>4, <2>3, <2>4, <2>8 DEF At, RankCell, PatchCell
  <2> QED  BY <2>3, <2>4, <2>8, <2>9
<1> QED  BY <1>3, <1>4

\* The place of a row is a cell of the cache; in the order of the patches it
\* lies in the band of its patch.
LEMMA CellRange ==
    ASSUME NEW U, NEW n, NEW e, NEW f, Sized(U, n, e, f), NEW byRanks \in BOOLEAN,
           NEW p \in 1 .. n, NEW u \in 1 .. U, NEW j \in 1 .. PartHeight(n, e, f, p)
    PROVE  /\ At(byRanks, U, n, e, f, p, u, j) \in 1 .. U * Width(n, e, f)
           /\ (u - 1) * PartHeight(n, e, f, p) + j \in 1 .. U * PartHeight(n, e, f, p)
           /\ U * PartHeight(n, e, f, p) \in 1 .. U * e
<1>1. U \in Nat \ {0} /\ n \in Nat \ {0} /\ e \in Nat \ {0} /\ f \in 1 .. e
  BY DEF Sized
<1>2. PICK W \in Nat \ {0}, b \in Nat \ {0}, l \in Nat :
         /\ W = Width(n, e, f) /\ b = U * e /\ l = U * f /\ l \in 1 .. b
         /\ U * Width(n, e, f) = (U - 1) * W + W /\ U * Width(n, e, f) = (n - 1) * b + l
  BY SizedFacts
<1>3. PICK m \in Nat \ {0} : m = PartHeight(n, e, f, p) /\ (p = n => m = f) /\ (p # n => m = e)
  BY <1>1 DEF PartHeight
<1>4. PICK y : y = (u - 1) * m + j
  OBVIOUS
<1>5. y \in 1 .. U * m
  <2>1. m \in 1 .. m /\ j \in 1 .. m
    BY <1>3
  <2>2. y \in 1 .. (U - 1) * m + m
    BY <1>1, <1>4, <2>1, SlotRange
  <2>3. (U - 1) * m + m = U * m
    BY <1>1
  <2> QED  BY <2>2, <2>3
<1>6. U * m \in 1 .. b /\ (p = n => U * m = l)
  <2>1. p # n => U * m = b
    BY <1>2, <1>3
  <2>2. p = n => U * m = l
    BY <1>2, <1>3
  <2> QED  BY <1>2, <2>1, <2>2
<1>7. CASE byRanks
  <2>1. j \in 1 .. e /\ (p = n => j <= f)
    BY <1>1, <1>3
  <2>2. PICK z : z = (p - 1) * e + j /\ z \in 1 .. (n - 1) * e + f
    BY <1>1, <2>1, SlotRange
  <2>3. z \in 1 .. W /\ W \in 1 .. W
    BY <1>2, <2>2 DEF Width
  <2>4. (u - 1) * W + z \in 1 .. (U - 1) * W + W
    BY <1>1, <2>3, SlotRange
  <2>5. At(byRanks, U, n, e, f, p, u, j) = (u - 1) * W + z
    BY <1>2, <1>7, <2>2 DEF At, RankCell, PatchCell
  <2> QED  BY <1>2, <1>3, <1>4, <1>5, <1>6, <2>4, <2>5
<1>8. CASE ~byRanks
  <2>1. y \in 1 .. b /\ (p = n => y <= l)
    BY <1>5, <1>6
  <2>2. (p - 1) * b + y \in 1 .. (n - 1) * b + l
    BY <1>1, <1>2, <2>1, SlotRange
  <2>3. At(byRanks, U, n, e, f, p, u, j) = (p - 1) * b + y
    BY <1>2, <1>3, <1>4, <1>8 DEF At, RankCell, PatchCell
  <2> QED  BY <1>2, <1>3, <1>4, <1>5, <1>6, <2>2, <2>3
<1> QED  BY <1>7, <1>8

----------------------------------------------------------------------------
(* The rows of the latent, by patch, rank and place in the part.            *)

Grid(sp, n, e, f) ==
    /\ sp \in Nat \ {0} /\ n \in Nat \ {0} /\ e \in Nat \ {0} /\ f \in Nat \ {0} /\ f <= e
    /\ sp = 1 \/ e = f

RowAt(sp, e, p, q, j) == ((p - 1) * sp + q - 1) * e + j

Placing(sp, n, e, f, p, q, j) ==
    p \in 1 .. n /\ q \in 1 .. sp /\ j \in 1 .. PartHeight(n, e, f, p)

\* A row's patch is told by the row.
LEMMA RowFacts ==
    ASSUME NEW sp, NEW n, NEW e, NEW f, Grid(sp, n, e, f),
           NEW p, NEW q, NEW j, Placing(sp, n, e, f, p, q, j)
    PROVE  /\ RowAt(sp, e, p, q, j) \in 1 .. sp * Width(n, e, f)
           /\ CeilDiv(RowAt(sp, e, p, q, j), sp * e) = p
<1>1. /\ sp \in Nat \ {0} /\ n \in Nat \ {0} /\ e \in Nat \ {0} /\ f \in 1 .. e
      /\ sp = 1 \/ e = f
      /\ p \in 1 .. n /\ q \in 1 .. sp /\ j \in 1 .. e /\ (p = n => j <= f)
  BY DEF Grid, Placing, PartHeight
<1>2. PICK b \in Nat \ {0}, l \in Nat :
         b = sp * e /\ l = sp * f /\ l \in 1 .. b /\ sp * Width(n, e, f) = (n - 1) * b + l
  <2>1. Sized(sp, n, e, f)
    BY <1>1 DEF Sized
  <2> QED  BY <2>1, SizedFacts
<1>3. PICK z \in Nat : z = (q - 1) * e + j /\ z \in 1 .. b
  <2>1. sp = 1 \/ sp \in Nat \ {0}
    BY <1>1
  <2>2. (q - 1) * e + j \in 1 .. (sp - 1) * e + e
    BY <1>1, SlotRange, e \in 1 .. e
  <2>3. (sp - 1) * e + e = b
    BY <1>1, <1>2
  <2> QED  BY <2>2, <2>3
<1>4. p = n => z <= l
  <2>1. CASE sp = 1
    <3>1. q = 1 /\ l = f
      BY <1>1, <1>2, <2>1
    <3>2. z = j
      BY <1>1, <1>3, <3>1
    <3> QED  BY <1>1, <3>1, <3>2
  <2>2. CASE e = f
    <3>1. l = b
      BY <1>2, <2>2
    <3> QED  BY <1>3, <3>1
  <2> QED  BY <1>1, <2>1, <2>2
<1>5. PICK x \in Nat : x = RowAt(sp, e, p, q, j) /\ x = (p - 1) * b + z
  <2>1. ((p - 1) * sp + q - 1) * e = ((p - 1) * sp) * e + (q - 1) * e
    BY <1>1
  <2>2. ((p - 1) * sp) * e = (p - 1) * b
    BY <1>1, <1>2
  <2>3. (p - 1) * b \in Nat /\ (q - 1) * e \in Nat
    BY <1>1
  <2>4. ((p - 1) * sp + q - 1) * e + j = (p - 1) * b + z
    BY <1>1, <1>3, <2>1, <2>2, <2>3
  <2> QED  BY <2>3, <2>4 DEF RowAt
<1>6. x \in 1 .. (n - 1) * b + l
  BY <1>1, <1>2, <1>3, <1>4, <1>5, SlotRange
<1>7. x + b - 1 = p * b + (z - 1) /\ z - 1 \in 0 .. b - 1
  <2>1. (p - 1) * b + b = p * b
    BY <1>1
  <2>2. (p - 1) * b \in Nat
    BY <1>1
  <2> QED  BY <1>3, <1>5, <2>1, <2>2
<1>8. PICK m \in 0 .. b - 1 : m = z - 1 /\ x + b - 1 = p * b + m
  BY <1>7
<1>9. CeilDiv(x, b) = p
  <2>1. p \in Nat
    BY <1>1
  <2>2. (p * b + m) \div b = p
    BY <2>1, DivModUnique
  <2> QED  BY <1>8, <2>2 DEF CeilDiv
<1> QED  BY <1>2, <1>5, <1>6, <1>9

\* Every row is in some part.
LEMMA RowExists ==
    ASSUME NEW sp, NEW n, NEW e, NEW f, Grid(sp, n, e, f), NEW y \in 1 .. sp * Width(n, e, f)
    PROVE  \E p, q, j : Placing(sp, n, e, f, p, q, j) /\ y = RowAt(sp, e, p, q, j)
<1>1. /\ sp \in Nat \ {0} /\ n \in Nat \ {0} /\ e \in Nat \ {0} /\ f \in 1 .. e
      /\ sp = 1 \/ e = f
  BY DEF Grid
<1>2. PICK b \in Nat \ {0}, l \in Nat :
         b = sp * e /\ l = sp * f /\ l \in 1 .. b /\ sp * Width(n, e, f) = (n - 1) * b + l
  <2>1. Sized(sp, n, e, f)
    BY <1>1 DEF Sized
  <2> QED  BY <2>1, SizedFacts
<1>3. Slots(b, n, l, y)
  BY <1>1, <1>2 DEF Slots
<1>4. PICK p, z : InSlot(b, n, l, y, p, z)
  BY <1>3, SlotOf, Zenon
<1>5. p \in 1 .. n /\ z \in 1 .. b /\ y = (p - 1) * b + z /\ (p = n => z <= l)
  BY <1>4 DEF InSlot
<1>6. Slots(e, sp, e, z)
  <2>1. (sp - 1) * e + e = b
    BY <1>1, <1>2
  <2> QED  BY <1>1, <1>5, <2>1 DEF Slots
<1>7. PICK q, j : InSlot(e, sp, e, z, q, j)
  BY <1>6, SlotOf, Zenon
<1>8. q \in 1 .. sp /\ j \in 1 .. e /\ z = (q - 1) * e + j
  BY <1>7 DEF InSlot
<1>9. p = n => j <= f
  <2>1. CASE sp = 1
    <3>1. q = 1 /\ l = f
      BY <1>1, <1>2, <1>8, <2>1
    <3>2. z = j
      BY <1>1, <1>8, <3>1
    <3> QED  BY <1>5, <3>1, <3>2
  <2>2. CASE e = f
    BY <1>8, <2>2
  <2> QED  BY <1>1, <2>1, <2>2
<1>10. Placing(sp, n, e, f, p, q, j)
  BY <1>1, <1>5, <1>8, <1>9 DEF Placing, PartHeight
<1>11. y = RowAt(sp, e, p, q, j)
  <2>1. ((p - 1) * sp + q - 1) * e = ((p - 1) * sp) * e + (q - 1) * e
    BY <1>1, <1>5, <1>8
  <2>2. ((p - 1) * sp) * e = (p - 1) * b
    BY <1>1, <1>2, <1>5
  <2>3. (p - 1) * b \in Nat /\ (q - 1) * e \in Nat
    BY <1>1, <1>5, <1>8
  <2>4. ((p - 1) * sp + q - 1) * e + j = (p - 1) * b + z
    BY <1>1, <1>8, <2>1, <2>2, <2>3
  <2> QED  BY <1>5, <2>4 DEF RowAt
<1> QED  BY <1>10, <1>11

----------------------------------------------------------------------------
(* What the caches hold.                                                    *)

Keys == Nat \X Nat

\* The cache of a Ulysses group whose ranks follow rank g: the rows of the
\* patches in P are in their places, each patch p computed at time T[p].
Holds(c, byRanks, sp, U, n, e, f, g, T, P) ==
    /\ c \in Seq(Keys) /\ Len(c) = U * Width(n, e, f)
    /\ \A p \in 1 .. n : p \in P =>
          \A u \in 1 .. U : \A j \in 1 .. PartHeight(n, e, f, p) :
             c[At(byRanks, U, n, e, f, p, u, j)] = <<RowAt(sp, e, p, g + u, j), T[p]>>

\* What was joined of the ring: all h rows, patch p computed at T[p].
Reads(cells, h, b, n, T) ==
    /\ Len(cells) = h
    /\ {cells[i][1] : i \in DOMAIN cells} = 1 .. h
    /\ \A i \in DOMAIN cells :
          /\ CeilDiv(cells[i][1], b) \in 1 .. n
          /\ cells[i][2] = T[CeilDiv(cells[i][1], b)]

RingHolds(cs, R, byRanks, sp, U, n, e, f, T) ==
    /\ Len(cs) = R
    /\ \A i \in 1 .. R : Holds(cs[i], byRanks, sp, U, n, e, f, (i - 1) * U, T, 1 .. n)

\* The caches of the ring, one after the other, hold every row.
LEMMA RingReads ==
    ASSUME NEW sp, NEW U, NEW n, NEW e, NEW f, Grid(sp, n, e, f), Sized(U, n, e, f),
           NEW R \in Nat \ {0}, sp = R * U, NEW byRanks \in BOOLEAN, NEW T, NEW cs,
           RingHolds(cs, R, byRanks, sp, U, n, e, f, T)
    PROVE  Reads(FlattenSeq(cs), sp * Width(n, e, f), sp * e, n, T)
<1>1. /\ sp \in Nat \ {0} /\ U \in Nat \ {0} /\ n \in Nat \ {0} /\ e \in Nat \ {0}
      /\ f \in Nat \ {0} /\ Width(n, e, f) \in Nat \ {0}
  BY SizedFacts DEF Grid, Sized
<1>2. PICK L \in Nat \ {0} : L = U * Width(n, e, f)
  <2>1. PICK W \in Nat \ {0} : W = Width(n, e, f)
    BY <1>1
  <2>2. U * W \in Nat \ {0}
    BY <1>1
  <2> QED  BY <2>1, <2>2
<1> DEFINE off == [i \in 0 .. R |-> i * L]
<1>3. /\ off[0] = 0
      /\ \A i \in 1 .. R : off[i - 1] = (i - 1) * L /\ off[i - 1] \in Nat /\ off[i] = off[i - 1] + L
  <2>1. \A i \in 1 .. R : i - 1 \in 0 .. R /\ i \in 0 .. R /\ (i - 1) * L \in Nat
                          /\ i * L = (i - 1) * L + L
    OBVIOUS
  <2>2. off[0] = 0
    OBVIOUS
  <2> QED  BY <2>1, <2>2
<1>4. off[R] = sp * Width(n, e, f)
  <2>1. off[R] = R * L
    OBVIOUS
  <2>2. PICK W \in Nat \ {0} : W = Width(n, e, f)
    BY <1>1
  <2>3. R * (U * W) = (R * U) * W
    BY <1>1
  <2> QED  BY <1>2, <2>1, <2>2, <2>3
<1> HIDE DEF off
<1>5. ASSUME NEW i \in 1 .. R PROVE cs[i] \in Seq(Keys) /\ Len(cs[i]) = L
  BY <1>2 DEF RingHolds, Holds
<1>6. Offsets(off, R, cs) /\ AllSequences(Keys, R, cs) /\ Lengths(R, cs) /\ Len(cs) = R
  BY <1>3, <1>5 DEF Offsets, AllSequences, Lengths, RingHolds
<1> DEFINE cells == FlattenSeq(cs)
<1>7. Whole(cells, Keys, R, cs, off)
  BY <1>6, FlattenJoins
<1> HIDE DEF cells
<1>8. PICK h \in Nat : h = sp * Width(n, e, f) /\ h = off[R] /\ DOMAIN cells = 1 .. h /\ Len(cells) = h
  <2>1. cells \in Seq(Keys) /\ Len(cells) = off[R]
    BY <1>7 DEF Whole
  <2> QED  BY <1>4, <2>1
<1>9. ASSUME NEW i \in 1 .. R, NEW p \in 1 .. n, NEW u \in 1 .. U,
             NEW j \in 1 .. PartHeight(n, e, f, p)
      PROVE  \E x \in 1 .. L :
                /\ x = At(byRanks, U, n, e, f, p, u, j)
                /\ cells[off[i - 1] + x] = <<RowAt(sp, e, p, (i - 1) * U + u, j), T[p]>>
  <2>1. PICK x \in 1 .. L : x = At(byRanks, U, n, e, f, p, u, j)
    BY <1>2, CellRange
  <2>2. cs[i][x] = <<RowAt(sp, e, p, (i - 1) * U + u, j), T[p]>>
    BY <2>1 DEF RingHolds, Holds
  <2>3. cells[off[i - 1] + x] = cs[i][x]
    BY <1>5, <1>7, <2>1 DEF Whole
  <2> QED  BY <2>1, <2>2, <2>3
<1>10. ASSUME NEW i \in 1 .. R, NEW u \in 1 .. U PROVE (i - 1) * U + u \in 1 .. sp
  <2>1. (i - 1) * U + u \in 1 .. R * U
    BY <1>1, EntryRange
  <2> QED  BY <2>1
<1>11. ASSUME NEW x \in DOMAIN cells
       PROVE  /\ cells[x][1] \in 1 .. h /\ CeilDiv(cells[x][1], sp * e) \in 1 .. n
              /\ cells[x][2] = T[CeilDiv(cells[x][1], sp * e)]
  <2>1. x \in 1 .. off[R]
    BY <1>8
  <2>2. PICK i \in 1 .. R : \E y \in 1 .. Len(cs[i]) : x = off[i - 1] + y
    BY <1>6, <2>1, OffsetsCover
  <2>3. PICK y \in 1 .. L : x = off[i - 1] + y
    BY <1>5, <2>2
  <2>4. y \in 1 .. U * Width(n, e, f)
    BY <1>2
  <2>5. PICK p \in 1 .. n : \E u \in 1 .. U : \E j \in 1 .. PartHeight(n, e, f, p) :
              y = At(byRanks, U, n, e, f, p, u, j)
    BY <2>4, EveryCell
  <2>6. PICK u \in 1 .. U, j \in 1 .. PartHeight(n, e, f, p) : y = At(byRanks, U, n, e, f, p, u, j)
    BY <2>5
  <2>7. PICK q : q = (i - 1) * U + u
    OBVIOUS
  <2>8. PICK v \in 1 .. L :
           /\ v = At(byRanks, U, n, e, f, p, u, j)
           /\ cells[off[i - 1] + v] = <<RowAt(sp, e, p, (i - 1) * U + u, j), T[p]>>
    BY <1>9, <2>2, <2>5, <2>6
  <2>9. cells[x] = <<RowAt(sp, e, p, q, j), T[p]>>
    BY <2>3, <2>6, <2>7, <2>8
  <2>10. Placing(sp, n, e, f, p, q, j)
    BY <1>10, <2>2, <2>5, <2>6, <2>7 DEF Placing
  <2>11. RowAt(sp, e, p, q, j) \in 1 .. h /\ CeilDiv(RowAt(sp, e, p, q, j), sp * e) = p
    BY <1>8, <2>10, RowFacts
  <2> QED  BY <2>5, <2>9, <2>11
<1>12. ASSUME NEW y \in 1 .. h PROVE \E x \in DOMAIN cells : cells[x][1] = y
  <2>1. PICK p, q, j : Placing(sp, n, e, f, p, q, j) /\ y = RowAt(sp, e, p, q, j)
    BY <1>8, RowExists
  <2>2. p \in 1 .. n /\ q \in 1 .. sp /\ j \in 1 .. PartHeight(n, e, f, p)
    BY <2>1 DEF Placing
  <2>3. Slots(U, R, U, q)
    <3>1. (R - 1) * U + U = R * U
      BY <1>1
    <3> QED  BY <1>1, <2>2, <3>1 DEF Slots
  <2>4. PICK i, u : InSlot(U, R, U, q, i, u)
    BY <2>3, SlotOf, Zenon
  <2>5. i \in 1 .. R /\ u \in 1 .. U /\ q = (i - 1) * U + u
    BY <2>4 DEF InSlot
  <2>6. PICK x \in 1 .. L : cells[off[i - 1] + x] = <<RowAt(sp, e, p, (i - 1) * U + u, j), T[p]>>
    BY ZenonT(40), <1>9, <2>2, <2>5
  <2>7. cells[off[i - 1] + x][1] = y
    BY <2>1, <2>5, <2>6
  <2>8. off[i - 1] + x \in DOMAIN cells
    <3>1. (i - 1) * L + x \in 1 .. R * L
      BY <2>5, EntryRange
    <3>2. off[R] = R * L
      BY DEF off
    <3> QED  BY <1>3, <1>8, <2>5, <3>1, <3>2
  <2> QED  BY <2>7, <2>8
<1>13. {cells[i][1] : i \in DOMAIN cells} = 1 .. h
  <2>1. \A i \in DOMAIN cells : cells[i][1] \in 1 .. h
    BY <1>11
  <2>2. \A y \in 1 .. h : \E x \in DOMAIN cells : cells[x][1] = y
    BY <1>12
  <2> QED  BY <2>1, <2>2
<1>14. \A i \in DOMAIN cells :
         /\ CeilDiv(cells[i][1], sp * e) \in 1 .. n
         /\ cells[i][2] = T[CeilDiv(cells[i][1], sp * e)]
  BY <1>11
<1> QED  BY <1>8, <1>13, <1>14 DEF Reads, cells

----------------------------------------------------------------------------
(* What a Ulysses group exchanges.                                          *)

\* The ranks of r's Ulysses group are the U ranks after this one.
GroupStart(r, U) == ((r - 1) \div U) * U

EqualLists(ss, A, k, L) ==
    /\ Len(ss) = k
    /\ \A i \in 1 .. k : ss[i] \in Seq(A) /\ Len(ss[i]) = L

Joined(F, ss, A, k, L) ==
    /\ F \in Seq(A) /\ Len(F) = k * L
    /\ \A i \in 1 .. k : \A x \in 1 .. L : F[(i - 1) * L + x] = ss[i][x]

\* Lists of one length, one after the other.
LEMMA JoinedLists ==
    ASSUME NEW A, NEW k \in Nat \ {0}, NEW L \in Nat, NEW ss, EqualLists(ss, A, k, L)
    PROVE  Joined(FlattenSeq(ss), ss, A, k, L)
<1> DEFINE off == [i \in 0 .. k |-> i * L]
<1>1. /\ off[0] = 0 /\ off[k] = k * L
      /\ \A i \in 1 .. k : off[i - 1] = (i - 1) * L /\ off[i - 1] \in Nat /\ off[i] = off[i - 1] + L
  <2>1. \A i \in 1 .. k : i - 1 \in 0 .. k /\ i \in 0 .. k /\ (i - 1) * L \in Nat
                          /\ i * L = (i - 1) * L + L
    OBVIOUS
  <2>2. off[0] = 0
    OBVIOUS
  <2> QED  BY <2>1, <2>2
<1> HIDE DEF off
<1>2. Offsets(off, k, ss) /\ AllSequences(A, k, ss) /\ Len(ss) = k
  BY <1>1 DEF Offsets, AllSequences, EqualLists
<1> DEFINE F == FlattenSeq(ss)
<1>3. Whole(F, A, k, ss, off)
  BY <1>2, FlattenJoins
<1> HIDE DEF F
<1>4. F \in Seq(A) /\ Len(F) = k * L
  BY <1>1, <1>3 DEF Whole
<1>5. ASSUME NEW i \in 1 .. k, NEW x \in 1 .. L PROVE F[(i - 1) * L + x] = ss[i][x]
  <2>1. x \in 1 .. Len(ss[i])
    BY DEF EqualLists
  <2>2. F[off[i - 1] + x] = ss[i][x]
    BY <1>3, <2>1 DEF Whole
  <2> QED  BY <1>1, <2>2
<1> QED  BY <1>4, <1>5 DEF F, Joined

\* The degrees of a stage, and its groups.
Degrees(sp, R, U) ==
    /\ sp \in Nat \ {0} /\ R \in Nat \ {0} /\ U \in Nat \ {0} /\ sp = R * U
    /\ sp = setup.sp /\ U = config.ulysses

LEMMA StageDegrees ==
    ASSUME setup \in Setups, StageInv
    PROVE  \E sp, R, U : Degrees(sp, R, U) /\ R = setup.sp \div config.ulysses
<1>1. PICK U \in Nat \ {0} : U = config.ulysses
  BY StageSizes
<1>2. PICK sp \in Nat \ {0} : sp = setup.sp
  BY PositiveSizes DEF Setups
<1>3. sp % U = 0
  BY <1>1, <1>2 DEF StageInv
<1>4. PICK q \in Nat, m \in 0 .. U - 1 : q = sp \div U /\ m = sp % U /\ sp = q * U + m
  BY <1>1, <1>2, DivMod
<1>5. sp = q * U
  BY <1>3, <1>4
<1>6. q \in Nat \ {0}
  <2>1. q = 0 => q * U = 0
    BY <1>1
  <2> QED  BY <1>2, <1>5, <2>1
<1>7. Degrees(sp, q, U)
  BY <1>1, <1>2, <1>5, <1>6 DEF Degrees
<1> QED  BY <1>1, <1>2, <1>4, <1>7

LEMMA GroupRanks ==
    ASSUME NEW sp, NEW R, NEW U, Degrees(sp, R, U), NEW r \in Ranks
    PROVE  /\ GroupStart(r, U) \in Nat
           /\ \A u \in 1 .. U : GroupStart(r, U) + u \in Ranks
<1>1. /\ sp \in Nat \ {0} /\ R \in Nat \ {0} /\ U \in Nat \ {0} /\ sp = R * U
      /\ r \in 1 .. sp /\ Ranks = 1 .. sp
  BY DEF Degrees, Ranks
<1>2. PICK q \in Nat, m \in 0 .. U - 1 : q = (r - 1) \div U /\ r - 1 = q * U + m
  <2>1. r - 1 \in Nat
    BY <1>1
  <2> QED  BY <1>1, <2>1, DivMod
<1>3. q < R
  <2>1. q >= R => q * U >= R * U
    BY <1>1
  <2>2. q * U \in Nat
    BY <1>1
  <2> QED  BY <1>1, <1>2, <2>1, <2>2
<1>4. PICK i \in 1 .. R : i = q + 1 /\ i - 1 = q
  BY <1>1, <1>3
<1>5. ASSUME NEW u \in 1 .. U PROVE (i - 1) * U + u \in 1 .. R * U
  BY <1>1, EntryRange
<1>6. GroupStart(r, U) = (i - 1) * U /\ (i - 1) * U \in Nat
  <2>1. (i - 1) * U \in Nat
    BY <1>1
  <2> QED  BY <1>2, <1>4, <2>1 DEF GroupStart
<1> QED  BY <1>1, <1>5, <1>6

\* The keys a rank computes now: its rows, at this time.
Stamps(ks, rows, t) ==
    /\ ks \in Seq(Keys) /\ Len(ks) = Len(rows)
    /\ \A x \in 1 .. Len(rows) : ks[x] = <<rows[x], t>>

LEMMA OwnKeysFacts ==
    ASSUME NEW q, RowsNow(q) \in Seq(Nat), Time \in Nat
    PROVE  Stamps(OwnKeys(q), RowsNow(q), Time)
<1>1. PICK rows \in Seq(Nat), t \in Nat : rows = RowsNow(q) /\ t = Time
  OBVIOUS
<1>2. OwnKeys(q) = [i \in DOMAIN rows |-> <<rows[i], t>>]
  BY <1>1, Zenon DEF OwnKeys, RowsNow, Stamped
<1>3. OwnKeys(q) = [i \in 1 .. Len(rows) |-> <<rows[i], t>>]
  BY <1>2
<1>4. \A i \in 1 .. Len(rows) : <<rows[i], t>> \in Keys
  <2> SUFFICES ASSUME NEW i \in 1 .. Len(rows) PROVE <<rows[i], t>> \in Keys
    OBVIOUS
  <2>1. rows[i] \in Nat
    OBVIOUS
  <2> QED  BY <2>1 DEF Keys
<1> DEFINE ks == [i \in 1 .. Len(rows) |-> <<rows[i], t>>]
<1>5. \A i \in 1 .. Len(rows) : ks[i] = <<rows[i], t>>
  OBVIOUS
<1>6. ks \in [1 .. Len(rows) -> Keys]
  BY <1>4
<1>7. ks \in Seq(Keys) /\ Len(ks) = Len(rows)
  <2>1. Len(rows) \in Nat
    OBVIOUS
  <2> HIDE DEF ks
  <2>2. ks \in Seq(Keys)
    <3>1. PICK l \in Nat : l = Len(rows)
      BY <2>1
    <3>2. ks \in [1 .. l -> Keys]
      BY <1>6, <3>1
    <3> QED  BY <3>2 DEF Seq
  <2>3. DOMAIN ks = 1 .. Len(rows)
    BY <1>6
  <2> QED  BY <2>1, <2>2, <2>3
<1> QED  BY <1>1, <1>3, <1>5, <1>7 DEF Stamps

\* The rows of patch p of a Ulysses group, rank after rank.
Band(x, sp, U, m, e, p, g, t) ==
    /\ x \in Seq(Keys) /\ Len(x) = U * m
    /\ \A u \in 1 .. U : \A j \in 1 .. m : x[(u - 1) * m + j] = <<RowAt(sp, e, p, g + u, j), t>>

EqualRows(L) == \A q \in Ranks : RowsNow(q) \in Seq(Nat) /\ Len(RowsNow(q)) = L

GroupKeys(keys, U, L, g) ==
    /\ keys \in Seq(Keys) /\ Len(keys) = U * L
    /\ \A u \in 1 .. U : \A x \in 1 .. L : keys[(u - 1) * L + x] = <<RowsNow(g + u)[x], Time>>

LEMMA ExchangedJoins ==
    ASSUME NEW sp, NEW R, NEW U, Degrees(sp, R, U), NEW r \in Ranks, NEW L \in Nat,
           EqualRows(L), Time \in Nat
    PROVE  GroupKeys(Exchanged(r), U, L, GroupStart(r, U))
<1> DEFINE g == GroupStart(r, U)
<1>1. \A u \in 1 .. U : g + u \in Ranks
  BY GroupRanks
<1>2. \A q \in Ranks : RowsNow(q) \in Seq(Nat) /\ Len(RowsNow(q)) = L
  BY DEF EqualRows
<1>3. U \in Nat \ {0} /\ U = config.ulysses
  BY DEF Degrees
<1> DEFINE ss == [u \in 1 .. U |-> OwnKeys(g + u)]
<1>4. Exchanged(r) = FlattenSeq(ss)
  <2>1. \A u \in 1 .. U : UlyssesGroup(r)[u] = g + u
    BY <1>3 DEF UlyssesGroup, GroupStart
  <2>2. [u \in 1 .. config.ulysses |-> OwnKeys(UlyssesGroup(r)[u])] = ss
    BY <1>3, <2>1
  <2> QED  BY <2>2 DEF Exchanged
<1>5. ASSUME NEW u \in 1 .. U
      PROVE  /\ OwnKeys(g + u) \in Seq(Keys) /\ Len(OwnKeys(g + u)) = L
             /\ \A x \in 1 .. L : OwnKeys(g + u)[x] = <<RowsNow(g + u)[x], Time>>
  <2>1. PICK q \in Ranks : q = g + u
    BY <1>1
  <2>2. Stamps(OwnKeys(q), RowsNow(q), Time) /\ Len(RowsNow(q)) = L
    BY <1>2, OwnKeysFacts
  <2> QED  BY <2>1, <2>2 DEF Stamps
<1>6. Len(ss) = U /\ \A u \in 1 .. U : ss[u] = OwnKeys(g + u)
  BY <1>3
<1> HIDE DEF ss
<1>7. EqualLists(ss, Keys, U, L)
  BY <1>5, <1>6 DEF EqualLists
<1>8. Joined(FlattenSeq(ss), ss, Keys, U, L)
  BY <1>3, <1>7, JoinedLists
<1> DEFINE F == Exchanged(r)
<1>9. /\ F \in Seq(Keys) /\ Len(F) = U * L
      /\ \A u \in 1 .. U : \A x \in 1 .. L : F[(u - 1) * L + x] = ss[u][x]
  BY <1>4, <1>8 DEF Joined
<1> HIDE DEF F
<1>10. ASSUME NEW u \in 1 .. U, NEW x \in 1 .. L
      PROVE  F[(u - 1) * L + x] = <<RowsNow(g + u)[x], Time>>
  <2>1. ss[u][x] = <<RowsNow(g + u)[x], Time>>
    BY <1>5, <1>6
  <2> QED  BY <1>9, <2>1
<1> QED  BY <1>9, <1>10 DEF F, GroupKeys

\* The rows a rank computes now, in an even split.
WholeRows(rows, sp, n, e, f, q) ==
    /\ rows \in Seq(Nat) /\ Len(rows) = Width(n, e, f)
    /\ \A p \in 1 .. n : \A j \in 1 .. PartHeight(n, e, f, p) :
          rows[(p - 1) * e + j] = RowAt(sp, e, p, q, j)

PartRows(rows, sp, n, e, f, p, q) ==
    /\ rows \in Seq(Nat) /\ Len(rows) = PartHeight(n, e, f, p)
    /\ \A j \in 1 .. PartHeight(n, e, f, p) : rows[j] = RowAt(sp, e, p, q, j)

LEMMA RowsNowAre ==
    ASSUME setup \in Setups, NEW n \in Nat, NEW e \in Nat, NEW f \in Nat,
           EvenSplit(n, e, f), NEW q \in Ranks, NEW p \in 1 .. n
    PROVE  /\ ~patch_mode => WholeRows(RowsNow(q), setup.sp, n, e, f, q)
           /\ patch_mode /\ p = pipeline_patch_idx =>
                 PartRows(RowsNow(q), setup.sp, n, e, f, p, q)
           /\ LocalStart(q, p) = (p - 1) * e
<1>1. LocalShape(q, n, e, f)
  BY LocalFacts
<1>2. LocalStart(q, p) = (p - 1) * e
  BY <1>1 DEF LocalShape
<1>3. ASSUME ~patch_mode PROVE WholeRows(RowsNow(q), setup.sp, n, e, f, q)
  <2>1. RowsNow(q) = LocalRows(q)
    BY <1>3 DEF RowsNow
  <2> QED  BY <1>1, <2>1 DEF LocalShape, WholeRows, Width, RowAt, PartStart
<1>4. ASSUME patch_mode, p = pipeline_patch_idx
      PROVE  PartRows(RowsNow(q), setup.sp, n, e, f, p, q)
  <2>1. PICK b : b = bounds[q][p]
    OBVIOUS
  <2>2. PICK s \in Nat, m \in Nat : s = PartStart(e, p, q) /\ m = PartHeight(n, e, f, p)
    <3>1. PartStart(e, p, q) \in Nat
      BY DEF EvenSplit
    <3>2. PartHeight(n, e, f, p) \in Nat
      BY DEF PartHeight
    <3> QED  BY <3>1, <3>2
  <2>3. Spans(b, s, m)
    BY <2>2, <2>1 DEF EvenSplit, Spans
  <2>4. Rows(b) \in Seq(Nat) /\ Len(Rows(b)) = m /\ \A i \in 1 .. m : Rows(b)[i] = s + i
    BY <2>3, RowsFacts
  <2>5. RowsNow(q) = Rows(b)
    BY <1>4, <2>1 DEF RowsNow, PatchRows
  <2> QED  BY <2>2, <2>4, <2>5 DEF PartRows, RowAt, PartStart
<1> QED  BY <1>2, <1>3, <1>4

\* A stage's split, as the sizes of the lemmas on its caches.
LEMMA StageGrid ==
    ASSUME NEW sp, NEW R, NEW U, Degrees(sp, R, U), NEW n, NEW e, NEW f, EvenSplit(n, e, f)
    PROVE  /\ Grid(sp, n, e, f) /\ Sized(U, n, e, f)
           /\ height = sp * Width(n, e, f) /\ PatchHeight(height) = sp * e
           /\ num_pipeline_patch = n
<1>1. /\ n \in Nat \ {0} /\ e \in Nat \ {0} /\ f \in Nat \ {0} /\ f <= e
      /\ num_pipeline_patch = n /\ height = setup.sp * ((n - 1) * e + f)
      /\ setup.sp = 1 \/ e = f
      /\ PatchHeight(height) = setup.sp * e
  BY DEF EvenSplit
<1>2. sp = setup.sp /\ sp \in Nat \ {0} /\ U \in Nat \ {0}
  BY DEF Degrees
<1> QED  BY <1>1, <1>2 DEF Grid, Sized, Width

\* A step of the warm-up exchanges every row of the group.
LEMMA ExchangedWhole ==
    ASSUME setup \in Setups, NEW n \in Nat, NEW e \in Nat, NEW f \in Nat, EvenSplit(n, e, f),
           NEW sp, NEW R, NEW U, Degrees(sp, R, U), NEW r \in Ranks, ~patch_mode,
           Time \in Nat, NEW T, \A p \in 1 .. n : T[p] = Time, NEW P
    PROVE  Holds(Exchanged(r), TRUE, sp, U, n, e, f, GroupStart(r, U), T, P)
<1>1. Sized(U, n, e, f) /\ Grid(sp, n, e, f) /\ sp = setup.sp
  BY StageGrid DEF Degrees
<1>2. /\ n \in Nat \ {0} /\ e \in Nat \ {0} /\ f \in Nat \ {0} /\ f <= e
      /\ U \in Nat \ {0}
  BY <1>1 DEF Sized
<1>3. PICK W \in Nat \ {0} : W = Width(n, e, f)
  BY <1>1, SizedFacts
<1>4. PICK g \in Nat : g = GroupStart(r, U) /\ \A u \in 1 .. U : g + u \in Ranks
  BY GroupRanks
<1>5. ASSUME NEW q \in Ranks PROVE WholeRows(RowsNow(q), sp, n, e, f, q)
  BY <1>1, <1>2, RowsNowAre, 1 \in 1 .. n
<1>6. EqualRows(W)
  BY <1>3, <1>5 DEF WholeRows, EqualRows
<1> DEFINE F == Exchanged(r)
<1>7. GroupKeys(F, U, W, GroupStart(r, U))
  BY <1>6, ExchangedJoins
<1> HIDE DEF F
<1>8. /\ F \in Seq(Keys) /\ Len(F) = U * W
      /\ \A u \in 1 .. U : \A x \in 1 .. W : F[(u - 1) * W + x] = <<RowsNow(g + u)[x], Time>>
  BY <1>4, <1>7 DEF GroupKeys
<1>9. ASSUME NEW p \in 1 .. n, NEW u \in 1 .. U, NEW j \in 1 .. PartHeight(n, e, f, p)
      PROVE  F[At(TRUE, U, n, e, f, p, u, j)] = <<RowAt(sp, e, p, g + u, j), T[p]>>
  <2>1. PICK q \in Ranks : q = g + u
    BY <1>4
  <2>2. PICK x : x = (p - 1) * e + j /\ x \in 1 .. W
    <3>1. j \in 1 .. e /\ (p = n => j <= f)
      BY <1>2 DEF PartHeight
    <3>2. (p - 1) * e + j \in 1 .. (n - 1) * e + f
      BY <1>2, <3>1, SlotRange
    <3> QED  BY <1>3, <3>2 DEF Width
  <2>3. RowsNow(q)[x] = RowAt(sp, e, p, q, j)
    BY <1>5, <2>2 DEF WholeRows
  <2>4. F[(u - 1) * W + x] = <<RowsNow(q)[x], Time>>
    BY <1>8, <2>1, <2>2
  <2>5. At(TRUE, U, n, e, f, p, u, j) = (u - 1) * W + x
    BY <1>3, <2>2 DEF At, RankCell, PatchCell
  <2> QED  BY <2>1, <2>3, <2>4, <2>5
<1>10. Holds(F, TRUE, sp, U, n, e, f, g, T, P)
  BY <1>3, <1>8, <1>9 DEF Holds
<1> QED  BY <1>4, <1>10 DEF F

\* A step of a patch exchanges the rows of that patch.
LEMMA ExchangedBand ==
    ASSUME setup \in Setups, NEW n \in Nat, NEW e \in Nat, NEW f \in Nat, EvenSplit(n, e, f),
           NEW sp, NEW R, NEW U, Degrees(sp, R, U), NEW r \in Ranks, patch_mode,
           NEW p \in 1 .. n, p = pipeline_patch_idx, Time \in Nat
    PROVE  Band(Exchanged(r), sp, U, PartHeight(n, e, f, p), e, p, GroupStart(r, U), Time)
<1>1. Sized(U, n, e, f) /\ Grid(sp, n, e, f) /\ sp = setup.sp
  BY StageGrid DEF Degrees
<1>2. PICK m \in Nat : m = PartHeight(n, e, f, p)
  BY <1>1 DEF PartHeight, Sized
<1>3. PICK g \in Nat : g = GroupStart(r, U) /\ \A u \in 1 .. U : g + u \in Ranks
  BY GroupRanks
<1>4. ASSUME NEW q \in Ranks PROVE PartRows(RowsNow(q), sp, n, e, f, p, q)
  BY <1>1, RowsNowAre
<1>5. EqualRows(m)
  BY <1>2, <1>4 DEF PartRows, EqualRows
<1> DEFINE F == Exchanged(r)
<1>6. GroupKeys(F, U, m, GroupStart(r, U))
  BY <1>5, ExchangedJoins
<1> HIDE DEF F
<1>7. /\ F \in Seq(Keys) /\ Len(F) = U * m
      /\ \A u \in 1 .. U : \A x \in 1 .. m : F[(u - 1) * m + x] = <<RowsNow(g + u)[x], Time>>
  BY <1>3, <1>6 DEF GroupKeys
<1>8. ASSUME NEW u \in 1 .. U, NEW j \in 1 .. m
      PROVE  F[(u - 1) * m + j] = <<RowAt(sp, e, p, g + u, j), Time>>
  <2>1. PICK q \in Ranks : q = g + u
    BY <1>3
  <2>2. RowsNow(q)[j] = RowAt(sp, e, p, q, j)
    BY <1>2, <1>4 DEF PartRows
  <2>3. F[(u - 1) * m + j] = <<RowsNow(q)[j], Time>>
    BY <1>7, <2>1
  <2> QED  BY <2>1, <2>2, <2>3
<1>9. Band(F, sp, U, m, e, p, g, Time)
  BY <1>7, <1>8 DEF Band
<1> QED  BY <1>2, <1>3, <1>9 DEF F

----------------------------------------------------------------------------
(* How the caches change.                                                   *)

\* What holds of the patches in P holds of fewer patches.
LEMMA HoldsLess ==
    ASSUME NEW c, NEW byRanks, NEW sp, NEW U, NEW n, NEW e, NEW f, NEW g, NEW T, NEW P,
           Holds(c, byRanks, sp, U, n, e, f, g, T, P), NEW S, NEW Q,
           \A p \in 1 .. n : p \in Q => p \in P /\ S[p] = T[p]
    PROVE  Holds(c, byRanks, sp, U, n, e, f, g, S, Q)
  BY DEF Holds

\* With one rank in a Ulysses group, or with one patch, both orders are one.
OneOrderCell(U, n, e, f, p, u, j) ==
    /\ Sized(U, n, e, f) /\ (U = 1 \/ n = 1)
    /\ p \in 1 .. n /\ u \in 1 .. U /\ j \in 1 .. PartHeight(n, e, f, p)

LEMMA OneOrderOfCells ==
    ASSUME NEW U, NEW n, NEW e, NEW f, NEW p, NEW u, NEW j, OneOrderCell(U, n, e, f, p, u, j)
    PROVE  RankCell(n, e, f, p, u, j) = PatchCell(U, n, e, f, p, u, j)
<1>1. /\ Sized(U, n, e, f) /\ (U = 1 \/ n = 1)
      /\ p \in 1 .. n /\ u \in 1 .. U /\ j \in 1 .. PartHeight(n, e, f, p)
  BY DEF OneOrderCell
<1>2. U \in Nat \ {0} /\ n \in Nat \ {0} /\ e \in Nat \ {0} /\ f \in Nat \ {0}
  BY <1>1 DEF Sized
<1>3. CASE U = 1
  <2>1. PICK W \in Nat, m \in Nat : W = Width(n, e, f) /\ m = PartHeight(n, e, f, p) /\ j \in 1 .. m
    <3>1. Width(n, e, f) \in Nat /\ PartHeight(n, e, f, p) \in Nat
      BY <1>1, <1>2, SizedFacts DEF PartHeight
    <3> QED  BY <1>1, <3>1
  <2>2. u - 1 = 0 /\ U * e = e
    BY <1>1, <1>2, <1>3
  <2>3. PICK x \in Nat : x = (p - 1) * e
    <3>1. (p - 1) * e \in Nat
      BY <1>1, <1>2
    <3> QED  BY <3>1
  <2>4. 0 * W = 0 /\ 0 * m = 0
    OBVIOUS
  <2>5. RankCell(n, e, f, p, u, j) = 0 + (x + j)
    BY <2>1, <2>2, <2>3, <2>4 DEF RankCell, PatchCell
  <2>6. PatchCell(U, n, e, f, p, u, j) = x + (0 + j)
    BY <2>1, <2>2, <2>3, <2>4 DEF RankCell, PatchCell
  <2>7. 0 + (x + j) = x + (0 + j)
    BY <2>1, <2>3
  <2> QED  BY <2>5, <2>6, <2>7, Zenon
<1>4. CASE n = 1
  <2>1. Width(n, e, f) = f /\ PartHeight(n, e, f, p) = f /\ p - 1 = 0
    BY <1>1, <1>2, <1>4 DEF Width, PartHeight
  <2>2. 0 * e = 0 /\ 0 * (U * e) = 0
    BY <1>2
  <2>3. PICK x \in Nat : x = (u - 1) * f
    <3>1. (u - 1) * f \in Nat
      BY <1>1, <1>2
    <3> QED  BY <3>1
  <2>4. RankCell(n, e, f, p, u, j) = x + (0 + j)
    BY <2>1, <2>2, <2>3 DEF RankCell, PatchCell
  <2>5. PatchCell(U, n, e, f, p, u, j) = 0 + (x + j)
    BY <2>1, <2>2, <2>3 DEF RankCell, PatchCell
  <2>6. x + (0 + j) = 0 + (x + j)
    <3>1. j \in Nat
      BY <1>1, <1>2, <2>1
    <3> QED  BY <2>3, <3>1
  <2> QED  BY <2>4, <2>5, <2>6, Zenon
<1> QED  BY <1>1, <1>3, <1>4

\* Then what the warm-up leaves is in the order of the patches, too.
LEMMA OrderChanges ==
    ASSUME NEW c, NEW sp, NEW U, NEW n, NEW e, NEW f, NEW g, NEW T, NEW P,
           Sized(U, n, e, f), U = 1 \/ n = 1, Holds(c, TRUE, sp, U, n, e, f, g, T, P)
    PROVE  Holds(c, FALSE, sp, U, n, e, f, g, T, P)
<1> SUFFICES ASSUME NEW p \in 1 .. n, p \in P, NEW u \in 1 .. U,
                    NEW j \in 1 .. PartHeight(n, e, f, p)
             PROVE  c[At(FALSE, U, n, e, f, p, u, j)] = <<RowAt(sp, e, p, g + u, j), T[p]>>
  BY DEF Holds
<1>1. RankCell(n, e, f, p, u, j) = PatchCell(U, n, e, f, p, u, j)
  <2>1. OneOrderCell(U, n, e, f, p, u, j)
    BY DEF OneOrderCell
  <2> QED  BY <2>1, OneOrderOfCells
<1>2. c[At(TRUE, U, n, e, f, p, u, j)] = <<RowAt(sp, e, p, g + u, j), T[p]>>
  BY DEF Holds
<1> QED  BY <1>1, <1>2 DEF At

\* T2 and P2 are T and P with patch p written at time t.
WrittenAt(n, T, P, p, t, T2, P2) ==
    \A q \in 1 .. n : q \in P2 =>
        IF q = p THEN T2[q] = t ELSE q \in P /\ T2[q] = T[q]

\* A patch's rows go to their places in the cache and to no other.
LEMMA BandWritten ==
    ASSUME NEW c, NEW sp, NEW U, NEW n, NEW e, NEW f, NEW g, NEW T, NEW P,
           Sized(U, n, e, f), Holds(c, FALSE, sp, U, n, e, f, g, T, P),
           NEW p \in 1 .. n, NEW x, NEW t, Band(x, sp, U, PartHeight(n, e, f, p), e, p, g, t),
           NEW T2, NEW P2, WrittenAt(n, T, P, p, t, T2, P2)
    PROVE  Holds(Overwritten(c, (p - 1) * (U * e), x), FALSE, sp, U, n, e, f, g, T2, P2)
<1>1. U \in Nat \ {0} /\ n \in Nat \ {0} /\ e \in Nat \ {0} /\ f \in Nat \ {0} /\ f <= e
  BY DEF Sized
<1>2. PICK b \in Nat \ {0}, L \in Nat : b = U * e /\ L = U * Width(n, e, f)
  <2>1. PICK W \in Nat : W = Width(n, e, f)
    BY SizedFacts
  <2>2. U * e \in Nat \ {0} /\ U * W \in Nat
    BY <1>1
  <2> QED  BY <2>1, <2>2
<1>3. PICK m \in Nat \ {0} : m = PartHeight(n, e, f, p) /\ m <= e
  BY <1>1 DEF PartHeight
<1>4. PICK start \in Nat, len \in Nat : start = (p - 1) * b /\ len = U * m /\ len <= b
  <2>1. (p - 1) * b \in Nat /\ U * m \in Nat
    BY <1>1
  <2>2. U * m <= U * e
    BY <1>1, <1>3
  <2> QED  BY <1>2, <2>1, <2>2
<1>5. /\ x \in Seq(Keys) /\ Len(x) = len
      /\ \A u \in 1 .. U : \A j \in 1 .. m : x[(u - 1) * m + j] = <<RowAt(sp, e, p, g + u, j), t>>
  BY <1>3, <1>4 DEF Band
<1>6. c \in Seq(Keys) /\ Len(c) = L /\ DOMAIN c = 1 .. L
  BY <1>2 DEF Holds
<1> DEFINE w == Overwritten(c, start, x)
<1>7. w = [i \in 1 .. L |-> IF start < i /\ i <= start + len THEN x[i - start] ELSE c[i]]
  BY <1>5, <1>6 DEF Overwritten
<1>8. /\ w \in Seq(Keys) /\ Len(w) = L
      /\ \A i \in 1 .. L : w[i] = IF start < i /\ i <= start + len THEN x[i - start] ELSE c[i]
  <2>1. \A i \in 1 .. L : start < i /\ i <= start + len => x[i - start] \in Keys
    BY <1>5
  <2>2. \A i \in 1 .. L : c[i] \in Keys
    BY <1>6
  <2> HIDE DEF w
  <2>3. w \in [1 .. L -> Keys]
    BY <1>7, <2>1, <2>2
  <2>4. w \in Seq(Keys)
    BY <2>3 DEF Seq
  <2>5. Len(w) = L
    BY <2>3, <2>4
  <2> QED  BY <1>7, <2>4, <2>5
<1> HIDE DEF w
<1>9. ASSUME NEW q \in 1 .. n, q \in P2, NEW u \in 1 .. U, NEW j \in 1 .. PartHeight(n, e, f, q)
      PROVE  w[At(FALSE, U, n, e, f, q, u, j)] = <<RowAt(sp, e, q, g + u, j), T2[q]>>
  <2>1. PICK k \in Nat \ {0} : k = PartHeight(n, e, f, q) /\ j \in 1 .. k
    BY <1>1 DEF PartHeight
  <2>2. PICK z : z = (u - 1) * k + j /\ z \in 1 .. U * k /\ U * k \in 1 .. b
    BY <1>2, <2>1, CellRange
  <2>3. PICK i \in 1 .. L : i = (q - 1) * b + z /\ i = At(FALSE, U, n, e, f, q, u, j)
    <3>1. At(FALSE, U, n, e, f, q, u, j) \in 1 .. U * Width(n, e, f)
      BY CellRange
    <3>2. At(FALSE, U, n, e, f, q, u, j) = (q - 1) * b + z
      BY <1>2, <2>1, <2>2 DEF At, RankCell, PatchCell
    <3> QED  BY <1>2, <3>1, <3>2
  <2>4. IF q = p THEN T2[q] = t ELSE q \in P /\ T2[q] = T[q]
    BY <1>9 DEF WrittenAt
  <2>5. PICK y \in Nat : y = (q - 1) * b
    <3>1. (q - 1) * b \in Nat
      BY <1>1
    <3> QED  BY <3>1
  <2>6. CASE q = p
    <3>1. start < i /\ i <= start + len /\ i - start = z /\ k = m
      BY <1>3, <1>4, <2>1, <2>2, <2>3, <2>5, <2>6
    <3>2. w[i] = x[z]
      BY <1>8, <3>1
    <3>3. x[z] = <<RowAt(sp, e, p, g + u, j), t>>
      BY <1>5, <2>1, <2>2, <3>1
    <3> QED  BY <2>3, <2>4, <2>6, <3>2, <3>3
  <2>7. CASE q # p
    <3>1. ~(start < i /\ i <= start + len)
      <4>1. CASE q < p
        <5>1. PICK d \in Nat : p = q + 1 + d
          BY <4>1
        <5>2. (p - 1) * b = (q - 1) * b + b + d * b /\ d * b \in Nat
          BY <1>1, <5>1
        <5>3. i <= start
          BY <1>4, <2>2, <2>3, <2>5, <5>2
        <5> QED  BY <5>3
      <4>2. CASE q > p
        <5>1. PICK d \in Nat : q = p + 1 + d
          BY <4>2
        <5>2. (q - 1) * b = (p - 1) * b + b + d * b /\ d * b \in Nat
          BY <1>1, <5>1
        <5>3. i > start + len
          BY <1>4, <2>2, <2>3, <2>5, <5>2
        <5> QED  BY <5>3
      <4> QED  BY <2>7, <4>1, <4>2
    <3>2. w[i] = c[i]
      BY <1>8, <3>1
    <3>3. c[i] = <<RowAt(sp, e, q, g + u, j), T[q]>>
      <4>1. c[At(FALSE, U, n, e, f, q, u, j)] = <<RowAt(sp, e, q, g + u, j), T[q]>>
        BY <2>4, <2>7 DEF Holds
      <4> QED  BY <2>3, <4>1
    <3> QED  BY <2>3, <2>4, <2>7, <3>2, <3>3
  <2> QED  BY <2>6, <2>7
<1>10. w = Overwritten(c, (p - 1) * (U * e), x)
  BY <1>2, <1>4 DEF w
<1> QED  BY <1>2, <1>8, <1>9, <1>10 DEF Holds

\* A request of one patch keeps what was exchanged.
LEMMA OnlyPatch ==
    ASSUME NEW sp, NEW U, NEW n, NEW e, NEW f, NEW g, Sized(U, n, e, f), n = 1,
           NEW x, NEW t, Band(x, sp, U, PartHeight(n, e, f, 1), e, 1, g, t),
           NEW T2, T2[1] = t, NEW P2
    PROVE  Holds(x, FALSE, sp, U, n, e, f, g, T2, P2)
<1>1. U \in Nat \ {0} /\ e \in Nat \ {0} /\ f \in Nat \ {0}
  BY DEF Sized
<1>2. PartHeight(n, e, f, 1) = f /\ Width(n, e, f) = f
  BY <1>1 DEF PartHeight, Width
<1>3. /\ x \in Seq(Keys) /\ Len(x) = U * f
      /\ \A u \in 1 .. U : \A j \in 1 .. f : x[(u - 1) * f + j] = <<RowAt(sp, e, 1, g + u, j), t>>
  BY <1>2 DEF Band
<1>4. ASSUME NEW u \in 1 .. U, NEW j \in 1 .. f
      PROVE  At(FALSE, U, n, e, f, 1, u, j) = (u - 1) * f + j
  <2>1. 0 * (U * e) = 0 /\ 1 - 1 = 0
    BY <1>1
  <2>2. PICK y \in Nat : y = (u - 1) * f
    <3>1. (u - 1) * f \in Nat
      BY <1>1
    <3> QED  BY <3>1
  <2>3. At(FALSE, U, n, e, f, 1, u, j) = 0 + (y + j)
    BY <1>2, <2>1, <2>2 DEF At, RankCell, PatchCell
  <2>4. 0 + (y + j) = y + j
    BY <1>1, <2>2
  <2> QED  BY <2>2, <2>3, <2>4, Zenon
<1>5. ASSUME NEW p \in 1 .. n, NEW u \in 1 .. U, NEW j \in 1 .. PartHeight(n, e, f, p)
      PROVE  x[At(FALSE, U, n, e, f, p, u, j)] = <<RowAt(sp, e, p, g + u, j), T2[p]>>
  <2>1. p = 1
    OBVIOUS
  <2>2. j \in 1 .. f
    BY <1>2, <2>1
  <2> QED  BY <1>3, <1>4, <2>1, <2>2
<1> QED  BY <1>2, <1>3, <1>5 DEF Holds

----------------------------------------------------------------------------
(* The caches between steps, in every rank.                                 *)

\* The patches before p were computed at t + 1, the others at t.
Times(n, p, t) == [q \in 1 .. n |-> IF q < p THEN t + 1 ELSE t]

\* The patches whose rows are in their places: those computed in patch mode,
\* and all of them if what was there before was in this order.
Known(n, p, fresh) == {q \in 1 .. n : q < p \/ fresh}

RankCache(c, sp, U, n, e, f, g, mode, p, fresh, entered, t) ==
    /\ ~mode \/ entered => Holds(c, TRUE, sp, U, n, e, f, g, Times(n, 1, t), 1 .. n)
    /\ mode => Holds(c, FALSE, sp, U, n, e, f, g, Times(n, p, t), Known(n, p, fresh))

Fresh(n) == step > config.warmup \/ config.ulysses = 1 \/ n = 1

Entered == step = config.warmup /\ pipeline_patch_idx = 1

CachesInv ==
    phase = "denoise" /\ step > 0 =>
        \A n \in Nat, e \in Nat, f \in Nat : EvenSplit(n, e, f) =>
            \A r \in Ranks :
                RankCache(caches[r], setup.sp, config.ulysses, n, e, f,
                          GroupStart(r, config.ulysses), patch_mode, pipeline_patch_idx,
                          Fresh(n), Entered, Time - 1)

\* A rank's cache after its attention.
NewCache(c, sp, U, n, e, f, g, mode, p, fresh, t) ==
    IF mode THEN Holds(c, FALSE, sp, U, n, e, f, g, Times(n, p + 1, t), Known(n, p + 1, fresh))
            ELSE Holds(c, TRUE, sp, U, n, e, f, g, Times(n, n + 1, t), 1 .. n)

LEMMA AttendWrites ==
    ASSUME TypeOK, StageInv, CachesInv, phase = "denoise", Attend, step > 0 \/ ~patch_mode,
           NEW n \in Nat, NEW e \in Nat, NEW f \in Nat, EvenSplit(n, e, f),
           NEW sp, NEW R, NEW U, Degrees(sp, R, U), NEW t \in Nat, Time = t + 1, NEW r \in Ranks
    PROVE  NewCache(caches'[r], sp, U, n, e, f, GroupStart(r, U), patch_mode,
                    pipeline_patch_idx, Fresh(n), t)
<1>1. /\ setup \in Setups /\ Sized(U, n, e, f) /\ num_pipeline_patch = n
      /\ sp = setup.sp /\ U = config.ulysses /\ U \in Nat \ {0}
  BY StageGrid DEF TypeOK, Degrees
<1>2. n \in Nat \ {0} /\ e \in Nat \ {0}
  BY <1>1 DEF Sized
<1>3. PICK p \in 1 .. n : p = pipeline_patch_idx
  BY <1>1 DEF StageInv
<1>4. PICK g : g = GroupStart(r, U)
  OBVIOUS
<1>5. PICK fresh : fresh = Fresh(n)
  OBVIOUS
<1>6. caches'[r] = UpdatedCache(r)
  BY DEF Attend
<1>7. Time \in Nat
  OBVIOUS
<1>8. CASE ~patch_mode
  <2>1. caches'[r] = Exchanged(r)
    BY <1>6, <1>8 DEF UpdatedCache
  <2>2. PICK T : T = Times(n, n + 1, t)
    OBVIOUS
  <2>3. \A q \in 1 .. n : T[q] = Time
    BY <2>2 DEF Times
  <2>4. Holds(Exchanged(r), TRUE, sp, U, n, e, f, GroupStart(r, U), T, 1 .. n)
    BY <1>1, <1>7, <1>8, <2>3, ExchangedWhole
  <2> QED  BY <1>8, <2>1, <2>2, <2>4 DEF NewCache
<1>9. CASE patch_mode
  <2>1. PICK T, T2, P, P2 : /\ T = Times(n, p, t) /\ T2 = Times(n, p + 1, t)
                            /\ P = Known(n, p, fresh) /\ P2 = Known(n, p + 1, fresh)
    OBVIOUS
  <2>2. Band(Exchanged(r), sp, U, PartHeight(n, e, f, p), e, p, g, t + 1)
    BY <1>1, <1>3, <1>4, <1>7, <1>9, ExchangedBand
  <2>3. PICK x : x = Exchanged(r) /\ Band(x, sp, U, PartHeight(n, e, f, p), e, p, g, t + 1)
    BY <2>2
  <2>4. CASE n = 1
    <3>1. caches'[r] = x
      BY <1>1, <1>6, <2>3, <2>4 DEF UpdatedCache
    <3>2. p = 1 /\ T2[1] = t + 1
      BY <2>1, <2>4 DEF Times
    <3>3. Band(x, sp, U, PartHeight(n, e, f, 1), e, 1, g, t + 1)
      BY <2>3, <3>2
    <3>4. Holds(x, FALSE, sp, U, n, e, f, g, T2, P2)
      BY <1>1, <2>4, <3>2, <3>3, OnlyPatch
    <3> QED  BY <1>3, <1>4, <1>5, <1>9, <2>1, <3>1, <3>4 DEF NewCache
  <2>5. CASE n # 1
    <3>1. CacheStart(r) = (p - 1) * (U * e)
      <4>1. LocalStart(r, p) = (p - 1) * e
        BY <1>1, RowsNowAre
      <4>2. U * ((p - 1) * e) = (p - 1) * (U * e)
        BY <1>1, <1>2
      <4> QED  BY <1>1, <1>3, <4>1, <4>2 DEF CacheStart
    <3>2. caches'[r] = Overwritten(caches[r], (p - 1) * (U * e), x)
      BY <1>1, <1>6, <1>9, <2>3, <2>5, <3>1 DEF UpdatedCache
    <3>3. PICK c : c = caches[r] /\ Holds(c, FALSE, sp, U, n, e, f, g, T, P)
      <4>1. RankCache(caches[r], sp, U, n, e, f, GroupStart(r, U), patch_mode,
                      pipeline_patch_idx, Fresh(n), Entered, t)
        <5>1. Time - 1 = t
          OBVIOUS
        <5> QED  BY <1>1, <1>9, <5>1 DEF CachesInv
      <4> QED  BY <1>3, <1>4, <1>5, <1>9, <2>1, <4>1 DEF RankCache
    <3>4. WrittenAt(n, T, P, p, t + 1, T2, P2)
      <4> SUFFICES ASSUME NEW q \in 1 .. n, q \in P2
                   PROVE  IF q = p THEN T2[q] = t + 1 ELSE q \in P /\ T2[q] = T[q]
        BY DEF WrittenAt
      <4>1. T2[q] = (IF q < p + 1 THEN t + 1 ELSE t) /\ T[q] = (IF q < p THEN t + 1 ELSE t)
        BY <2>1 DEF Times
      <4>2. q < p + 1 \/ fresh
        BY <2>1 DEF Known
      <4>3. q # p => q \in P
        BY <2>1, <4>2 DEF Known
      <4> QED  BY <4>1, <4>3
    <3>5. Holds(Overwritten(c, (p - 1) * (U * e), x), FALSE, sp, U, n, e, f, g, T2, P2)
      BY <1>1, <2>3, <3>3, <3>4, BandWritten
    <3> QED  BY <1>3, <1>4, <1>5, <1>9, <2>1, <3>2, <3>3, <3>5 DEF NewCache
  <2> QED  BY <2>4, <2>5
<1> QED  BY <1>8, <1>9

\* The split is the same while nothing is received.
LEMMA SameSplit ==
    ASSUME UNCHANGED vars, NEW n, NEW e, NEW f
    PROVE  EvenSplit(n, e, f)' <=> EvenSplit(n, e, f)
<1>1. /\ setup' = setup /\ height' = height /\ bounds' = bounds
      /\ num_pipeline_patch' = num_pipeline_patch
  BY DEF vars
<1>2. PatchHeight(height)' = PatchHeight(height)
  BY <1>1 DEF PatchHeight, Unit
<1>3. \A p, r : PartStart(e, p, r)' = PartStart(e, p, r)
  BY <1>1 DEF PartStart
<1>4. Ranks' = Ranks
  BY <1>1 DEF Ranks
<1> QED  BY <1>1, <1>2, <1>3, <1>4 DEF EvenSplit

\* The caches after one more step, as the invariant has them.
LEMMA AttendKeeps ==
    ASSUME TypeOK, StageInv, CachesInv, phase = "denoise", WarmupStep \/ PatchStep
    PROVE  CachesInv'
<1>1. PICK t \in Nat : Time = t + 1
  BY Clock
<1>2. /\ Attend /\ UNCHANGED vars /\ config' = config /\ patch_mode' = patch_mode
      /\ IF LastPatch THEN /\ FirstPatch' /\ step' = step + 1 /\ Time' = t + 2
                      ELSE /\ ~FirstPatch' /\ step' = step /\ Time' = t + 1
                           /\ pipeline_patch_idx' = pipeline_patch_idx + 1
  BY <1>1, SolverMoves
<1>3. PICK w \in Nat, s \in Nat : w = config.warmup /\ s = step /\ w >= 1
  BY StageSizes DEF StageInv
<1>4. patch_mode => s >= w
  BY <1>3 DEF StageInv
<1>5. step > 0 \/ ~patch_mode
  BY <1>3, <1>4
<1> SUFFICES ASSUME NEW n \in Nat, NEW e \in Nat, NEW f \in Nat, EvenSplit(n, e, f)',
                    NEW r \in Ranks'
             PROVE  RankCache(caches'[r], setup'.sp, config'.ulysses, n, e, f,
                              GroupStart(r, config'.ulysses), patch_mode', pipeline_patch_idx',
                              Fresh(n)', Entered', Time' - 1)
  BY DEF CachesInv
<1>6. EvenSplit(n, e, f) /\ r \in Ranks /\ setup' = setup
  BY <1>2, SameSplit DEF vars, Ranks
<1>7. PICK sp, R, U : Degrees(sp, R, U)
  BY StageDegrees DEF TypeOK
<1>8. sp = setup'.sp /\ U = config'.ulysses /\ num_pipeline_patch = n /\ n \in Nat \ {0}
  BY <1>2, <1>6, <1>7, StageGrid DEF Degrees, Grid
<1>9. PICK p \in 1 .. n : p = pipeline_patch_idx
  BY <1>8 DEF StageInv
<1>10. PICK c, g, fresh : c = caches'[r] /\ g = GroupStart(r, U) /\ fresh = Fresh(n)
  OBVIOUS
<1>11. NewCache(c, sp, U, n, e, f, g, patch_mode, p, fresh, t)
  BY <1>1, <1>2, <1>5, <1>6, <1>7, <1>9, <1>10, AttendWrites
<1>12. Fresh(n)' \in BOOLEAN /\ Entered' \in BOOLEAN
  BY DEF Fresh, Entered
<1>13. PICK fresh2 \in BOOLEAN, entered2 \in BOOLEAN : fresh2 = Fresh(n)' /\ entered2 = Entered'
  BY <1>12, Zenon
<1>14. PICK p2, t2 : p2 = pipeline_patch_idx' /\ t2 = Time' - 1
  OBVIOUS
<1>15. RankCache(c, sp, U, n, e, f, g, patch_mode, p2, fresh2, entered2, t2)
  <2>1. CASE ~patch_mode
    <3>1. t2 = t + 1
      BY <1>1, <1>2, <1>14, <2>1 DEF LastPatch
    <3>2. PICK T, S : T = Times(n, n + 1, t) /\ S = Times(n, 1, t + 1)
      OBVIOUS
    <3>3. \A q \in 1 .. n : q \in 1 .. n => q \in 1 .. n /\ S[q] = T[q]
      BY <3>2 DEF Times
    <3>4. Holds(c, TRUE, sp, U, n, e, f, g, T, 1 .. n)
      BY <1>11, <2>1, <3>2 DEF NewCache
    <3>5. Holds(c, TRUE, sp, U, n, e, f, g, S, 1 .. n)
      BY <3>3, <3>4, HoldsLess
    <3> QED  BY <2>1, <3>1, <3>2, <3>5 DEF RankCache
  <2>2. CASE patch_mode /\ LastPatch
    <3>1. p = n /\ p2 = 1 /\ t2 = t + 1 /\ step' = s + 1
      BY <1>1, <1>2, <1>3, <1>8, <1>9, <1>14, <2>2 DEF LastPatch, FirstPatch
    <3>2. ~entered2
      <4>1. ~Entered'
        BY <1>2, <1>3, <1>4, <2>2, <3>1 DEF Entered
      <4> QED  BY <1>13, <4>1, Zenon
    <3>3. PICK T, S, P, Q : /\ T = Times(n, n + 1, t) /\ S = Times(n, 1, t + 1)
                            /\ P = Known(n, n + 1, fresh) /\ Q = Known(n, 1, fresh2)
      OBVIOUS
    <3>4. \A q \in 1 .. n : q \in Q => q \in P /\ S[q] = T[q]
      BY <3>3 DEF Times, Known
    <3>5. Holds(c, FALSE, sp, U, n, e, f, g, T, P)
      BY <1>11, <2>2, <3>1, <3>3 DEF NewCache
    <3>6. Holds(c, FALSE, sp, U, n, e, f, g, S, Q)
      BY <3>4, <3>5, HoldsLess
    <3> QED  BY <2>2, <3>1, <3>2, <3>3, <3>6 DEF RankCache
  <2>3. CASE patch_mode /\ ~LastPatch
    <3>1. p2 = p + 1 /\ t2 = t /\ step' = step
      BY <1>1, <1>2, <1>9, <1>14, <2>3
    <3>2. ~entered2
      <4>1. ~Entered'
        BY <1>9, <1>14, <3>1 DEF Entered
      <4> QED  BY <1>13, <4>1, Zenon
    <3>3. fresh2 = fresh
      <4>1. Fresh(n)' = Fresh(n)
        BY <1>2, <3>1 DEF Fresh
      <4> QED  BY <1>13, <1>10, <4>1, Zenon
    <3> QED  BY <1>11, <2>3, <3>1, <3>2, <3>3 DEF NewCache, RankCache
  <2> QED  BY <2>1, <2>2, <2>3
<1> QED  BY <1>2, <1>8, <1>10, <1>13, <1>14, <1>15

\* Entering patch mode changes no cache: with one rank in the Ulysses group or
\* one patch its order is that of the patches already.
LEMMA EnterKeeps ==
    ASSUME TypeOK, StageInv, CachesInv, EnterPatchMode
    PROVE  CachesInv'
<1>1. /\ phase = "denoise" /\ step = config.warmup /\ ~patch_mode /\ patch_mode' = TRUE
      /\ pipeline_patch_idx' = 1 /\ UNCHANGED vars /\ config' = config
      /\ request' = request /\ step' = step /\ caches' = caches
  BY DEF EnterPatchMode
<1>2. PICK t \in Nat : Time = t + 1
  BY <1>1, Clock
<1>3. PICK w \in Nat : w = config.warmup /\ w >= 1 /\ step = w
  BY <1>1, StageSizes
<1> SUFFICES ASSUME NEW n \in Nat, NEW e \in Nat, NEW f \in Nat, EvenSplit(n, e, f)',
                    NEW r \in Ranks'
             PROVE  RankCache(caches'[r], setup'.sp, config'.ulysses, n, e, f,
                              GroupStart(r, config'.ulysses), patch_mode', pipeline_patch_idx',
                              Fresh(n)', Entered', Time' - 1)
  BY DEF CachesInv
<1>4. EvenSplit(n, e, f) /\ r \in Ranks /\ setup' = setup
  BY <1>1, SameSplit DEF vars, Ranks
<1>5. PICK sp, R, U : Degrees(sp, R, U)
  BY StageDegrees DEF TypeOK
<1>6. /\ sp = setup'.sp /\ U = config'.ulysses /\ sp = setup.sp /\ U = config.ulysses
      /\ Sized(U, n, e, f)
  BY <1>1, <1>4, <1>5, StageGrid DEF Degrees
<1>7. PICK c, g : c = caches[r] /\ g = GroupStart(r, U)
  OBVIOUS
<1>8. Fresh(n)' \in BOOLEAN
  BY DEF Fresh
<1>9. PICK fresh2 \in BOOLEAN : fresh2 = Fresh(n)'
  BY <1>8, Zenon
<1>10. PICK T, P : T = Times(n, 1, t) /\ P = Known(n, 1, fresh2)
  OBVIOUS
<1>11. Holds(c, TRUE, sp, U, n, e, f, g, T, 1 .. n)
  <2>1. RankCache(caches[r], sp, U, n, e, f, GroupStart(r, U), patch_mode,
                  pipeline_patch_idx, Fresh(n), Entered, t)
    <3>1. Time - 1 = t /\ step > 0
      BY <1>2, <1>3
    <3> QED  BY <1>1, <1>4, <1>6, <3>1 DEF CachesInv
  <2> QED  BY <1>1, <1>7, <1>10, <2>1 DEF RankCache
<1>12. Holds(c, FALSE, sp, U, n, e, f, g, T, P)
  <2>1. fresh2 <=> U = 1 \/ n = 1
    <3>1. Fresh(n)' <=> U = 1 \/ n = 1
      BY <1>1, <1>3, <1>6 DEF Fresh
    <3> QED  BY <1>9, <3>1, Zenon
  <2>2. CASE U = 1 \/ n = 1
    <3>1. Holds(c, FALSE, sp, U, n, e, f, g, T, 1 .. n)
      BY <1>6, <1>11, <2>2, OrderChanges
    <3>2. \A q \in 1 .. n : q \in P => q \in 1 .. n /\ T[q] = T[q]
      OBVIOUS
    <3> QED  BY <3>1, <3>2, HoldsLess
  <2>3. CASE ~(U = 1 \/ n = 1)
    <3>1. \A q \in 1 .. n : q \notin P
      BY <1>10, <2>1, <2>3 DEF Known
    <3> QED  BY <1>11, <3>1 DEF Holds
  <2> QED  BY <2>2, <2>3
<1>13. Time' - 1 = t
  BY <1>1, <1>2 DEF Time
<1>14. RankCache(c, sp, U, n, e, f, g, TRUE, 1, fresh2, Entered', t)
  BY <1>10, <1>11, <1>12 DEF RankCache
<1> QED  BY <1>1, <1>6, <1>7, <1>9, <1>13, <1>14

LEMMA CachesNext ==
    ASSUME TypeOK, StageInv, CachesInv, [NextDenoise]_<<vars, denoiseVars>>
    PROVE  CachesInv'
<1>1. CASE SetInput \/ EndRequest
  <2>1. phase' = "idle"
    BY <1>1 DEF SetInput, EndRequest
  <2> QED  BY <2>1 DEF CachesInv
<1>2. CASE StartRequest
  <2>1. step' = 0
    BY <1>2 DEF StartRequest
  <2>2. ~(step' > 0)
    BY <2>1
  <2> QED  BY <2>2 DEF CachesInv
<1>3. CASE (WarmupStep \/ PatchStep) /\ phase = "denoise"
  BY <1>3, AttendKeeps
<1>4. CASE EnterPatchMode
  BY <1>4, EnterKeeps
<1>5. CASE UNCHANGED <<vars, denoiseVars>>
  <2>1. /\ UNCHANGED vars /\ setup' = setup /\ config' = config /\ phase' = phase
        /\ request' = request /\ step' = step /\ patch_mode' = patch_mode
        /\ pipeline_patch_idx' = pipeline_patch_idx /\ caches' = caches
    BY <1>5 DEF denoiseVars, vars
  <2>2. Ranks' = Ranks /\ Entered' = Entered /\ Time' = Time
    BY <2>1 DEF Ranks, Entered, Time
  <2>3. \A n : Fresh(n)' = Fresh(n)
    BY <2>1 DEF Fresh
  <2>4. ASSUME NEW n, NEW e, NEW f PROVE EvenSplit(n, e, f)' <=> EvenSplit(n, e, f)
    BY <2>1, SameSplit
  <2> QED  BY <2>1, <2>2, <2>3, <2>4 DEF CachesInv
<1> QED  BY <1>1, <1>2, <1>3, <1>4, <1>5 DEF NextDenoise, WarmupStep, PatchStep

----------------------------------------------------------------------------
(* What the ring reads.                                                     *)

AllHold(cc, byRanks, sp, U, n, e, f, T) ==
    \A q \in Ranks : Holds(cc[q], byRanks, sp, U, n, e, f, GroupStart(q, U), T, 1 .. n)

RingOf(cc, r) == FlattenSeq([i \in DOMAIN RingGroup(r) |-> cc[RingGroup(r)[i]]])

LEMMA RingReadsAll ==
    ASSUME setup \in Setups, StageInv, NEW n \in Nat, NEW e \in Nat, NEW f \in Nat,
           EvenSplit(n, e, f), NEW sp, NEW R, NEW U, Degrees(sp, R, U), NEW r \in Ranks,
           NEW cc, NEW byRanks \in BOOLEAN, NEW T, AllHold(cc, byRanks, sp, U, n, e, f, T)
    PROVE  Reads(RingOf(cc, r), height, PatchHeight(height), n, T)
<1>1. /\ sp \in Nat \ {0} /\ R \in Nat \ {0} /\ U \in Nat \ {0} /\ sp = R * U
      /\ sp = setup.sp /\ U = config.ulysses
  BY DEF Degrees
<1>2. /\ Grid(sp, n, e, f) /\ Sized(U, n, e, f)
      /\ height = sp * Width(n, e, f) /\ PatchHeight(height) = sp * e
  BY StageGrid
<1>3. setup.sp \div config.ulysses = R
  <2>1. (R * U + 0) \div U = R
    BY <1>1, DivModUnique, 0 \in 0 .. U - 1
  <2> QED  BY <1>1, <2>1
<1>4. PICK m \in 0 .. U - 1 : m = (r - 1) % U
  <2>1. r - 1 \in Nat
    BY DEF Ranks
  <2> QED  BY <1>1, <2>1
<1> DEFINE cs == [i \in 1 .. R |-> cc[(i - 1) * U + m + 1]]
<1>5. RingOf(cc, r) = FlattenSeq(cs)
  <2>1. RingGroup(r) = [i \in 1 .. R |-> (i - 1) * U + m + 1]
    BY <1>1, <1>3, <1>4 DEF RingGroup
  <2>2. [i \in DOMAIN RingGroup(r) |-> cc[RingGroup(r)[i]]] = cs
    BY <2>1
  <2> QED  BY <2>2 DEF RingOf
<1>6. ASSUME NEW i \in 1 .. R
      PROVE  Holds(cs[i], byRanks, sp, U, n, e, f, (i - 1) * U, T, 1 .. n)
  <2>1. PICK q : q = (i - 1) * U + m + 1 /\ q \in Ranks
    <3>1. PICK u \in 1 .. U : u = m + 1
      BY <1>1
    <3>2. (i - 1) * U + u \in 1 .. R * U
      BY <1>1, EntryRange
    <3>3. PICK y \in Nat : y = (i - 1) * U
      <4>1. (i - 1) * U \in Nat
        BY <1>1
      <4> QED  BY <4>1
    <3>4. (i - 1) * U + m + 1 = (i - 1) * U + u
      BY <3>1, <3>3
    <3> QED  BY <1>1, <3>2, <3>4 DEF Ranks
  <2>2. GroupStart(q, U) = (i - 1) * U
    <3>1. PICK j \in Nat : j = i - 1
      OBVIOUS
    <3>2. q - 1 = j * U + m
      <4>1. j * U \in Nat
        BY <1>1
      <4> QED  BY <2>1, <3>1, <4>1
    <3>3. (j * U + m) \div U = j
      BY <1>1, DivModUnique
    <3> QED  BY <3>1, <3>2, <3>3 DEF GroupStart
  <2>3. cs[i] = cc[q]
    BY <2>1
  <2>4. Holds(cc[q], byRanks, sp, U, n, e, f, GroupStart(q, U), T, 1 .. n)
    BY <2>1 DEF AllHold
  <2> QED  BY <2>2, <2>3, <2>4
<1>7. Len(cs) = R
  BY <1>1
<1> HIDE DEF cs
<1>8. RingHolds(cs, R, byRanks, sp, U, n, e, f, T)
  BY <1>6, <1>7 DEF RingHolds
<1>9. Reads(FlattenSeq(cs), sp * Width(n, e, f), sp * e, n, T)
  BY <1>1, <1>2, <1>8, RingReads
<1> QED  BY <1>2, <1>5, <1>9

\* Between steps the ring's caches hold every row, of the last step.
LEMMA CachesAreLatest ==
    ASSUME TypeOK, SplitIsOwn, StageInv, CachesInv
    PROVE  CachesLatest
<1> SUFFICES ASSUME phase = "denoise", step > 0, FirstPatch, NEW r \in Ranks
             PROVE  /\ EveryRowOnce(RingOf(caches, r))
                    /\ \A i \in DOMAIN RingOf(caches, r) : RingOf(caches, r)[i][2] = Time - 1
  BY Zenon DEF CachesLatest, RingOf
<1>1. PICK t \in Nat : Time = t + 1
  BY Clock
<1>2. PICK n \in Nat \ {0}, e \in Nat \ {0}, f \in Nat \ {0} : EvenSplit(n, e, f)
  BY DenoisingSplit
<1>3. PICK sp, R, U : Degrees(sp, R, U)
  BY StageDegrees DEF TypeOK
<1>4. sp = setup.sp /\ U = config.ulysses /\ setup \in Setups
  BY <1>3 DEF Degrees, TypeOK
<1>5. PICK w \in Nat, s \in Nat : w = config.warmup /\ s = step /\ (patch_mode => s >= w)
  <2>1. PICK w \in Nat : w = config.warmup
    BY StageSizes
  <2> QED  BY <2>1 DEF StageInv
<1>6. PICK T : T = Times(n, 1, t)
  OBVIOUS
<1>7. ASSUME NEW q \in Ranks
      PROVE  RankCache(caches[q], sp, U, n, e, f, GroupStart(q, U), patch_mode,
                       pipeline_patch_idx, Fresh(n), Entered, t)
  <2>1. Time - 1 = t
    BY <1>1
  <2> QED  BY <1>2, <1>4, <2>1 DEF CachesInv
<1>8. PICK byRanks \in BOOLEAN : AllHold(caches, byRanks, sp, U, n, e, f, T)
  <2>1. CASE ~patch_mode \/ Entered
    <3>1. AllHold(caches, TRUE, sp, U, n, e, f, T)
      BY <1>6, <1>7, <2>1 DEF AllHold, RankCache
    <3> QED  BY <3>1
  <2>2. CASE patch_mode /\ ~Entered
    <3>1. pipeline_patch_idx = 1
      BY <2>2 DEF FirstPatch
    <3>2. s > w
      BY <1>5, <2>2, <3>1 DEF Entered
    <3>3. Fresh(n)
      BY <1>5, <3>2 DEF Fresh
    <3>4. Known(n, 1, Fresh(n)) = 1 .. n
      BY <3>3 DEF Known
    <3>5. AllHold(caches, FALSE, sp, U, n, e, f, T)
      <4> SUFFICES ASSUME NEW q \in Ranks
                   PROVE  Holds(caches[q], FALSE, sp, U, n, e, f, GroupStart(q, U), T, 1 .. n)
        BY DEF AllHold
      <4>1. Holds(caches[q], FALSE, sp, U, n, e, f, GroupStart(q, U), Times(n, 1, t),
                  Known(n, 1, Fresh(n)))
        BY <1>7, <2>2, <3>1 DEF RankCache
      <4> QED  BY <1>6, <3>4, <4>1
    <3> QED  BY <3>5
  <2> QED  BY <2>1, <2>2
<1> DEFINE cells == RingOf(caches, r)
<1>9. Reads(cells, height, PatchHeight(height), n, T)
  BY <1>2, <1>3, <1>4, <1>8, RingReadsAll
<1> HIDE DEF cells
<1>10. EveryRowOnce(cells)
  BY <1>9 DEF Reads, EveryRowOnce
<1>11. ASSUME NEW i \in DOMAIN cells PROVE cells[i][2] = Time - 1
  <2>1. PICK q \in 1 .. n : cells[i][2] = T[q]
    BY <1>9 DEF Reads
  <2>2. T[q] = t
    BY <1>6 DEF Times
  <2> QED  BY <1>1, <2>1, <2>2
<1> QED  BY <1>10, <1>11 DEF cells

\* The attention of a step reads every row, as new as it can be.
LEMMA StepAttends ==
    ASSUME TypeOK, SplitIsOwn, StageInv, CachesInv, phase = "denoise", WarmupStep \/ PatchStep
    PROVE  AttendsNewest'
<1>1. PICK base \in Nat, t \in Nat :
         base = (request - 1) * NumSteps /\ t = base + step /\ Time = t + 1
  BY Clock
<1>2. /\ Attend /\ UNCHANGED vars /\ config' = config /\ patch_mode' = patch_mode
      /\ request' = request /\ AttendedTime' = t + 1
      /\ IF LastPatch THEN /\ FirstPatch' /\ step' = step + 1 /\ Time' = t + 2
                      ELSE /\ ~FirstPatch' /\ step' = step /\ Time' = t + 1
                           /\ pipeline_patch_idx' = pipeline_patch_idx + 1
  BY <1>1, SolverMoves
<1>3. PICK w \in Nat, s \in Nat : w = config.warmup /\ s = step /\ w >= 1 /\ (patch_mode => s >= w)
  <2>1. PICK w \in Nat : w = config.warmup /\ w >= 1
    BY StageSizes
  <2> QED  BY <2>1 DEF StageInv
<1>4. step > 0 \/ ~patch_mode
  BY <1>3
<1>5. PICK n \in Nat \ {0}, e \in Nat \ {0}, f \in Nat \ {0} : EvenSplit(n, e, f)
  BY DenoisingSplit
<1>6. PICK sp, R, U : Degrees(sp, R, U)
  BY StageDegrees DEF TypeOK
<1>7. /\ sp = setup.sp /\ U = config.ulysses /\ setup \in Setups /\ num_pipeline_patch = n
      /\ U \in Nat \ {0}
  BY <1>5, <1>6, StageGrid DEF Degrees, TypeOK
<1>8. PICK p \in 1 .. n : p = pipeline_patch_idx
  BY <1>7 DEF StageInv
<1>9. ASSUME NEW q \in Ranks
      PROVE  NewCache(caches'[q], sp, U, n, e, f, GroupStart(q, U), patch_mode, p, Fresh(n), t)
  BY <1>1, <1>2, <1>4, <1>5, <1>6, <1>8, AttendWrites
<1> SUFFICES ASSUME ~FirstAsyncStep' \/ config'.ulysses = 1 \/ num_pipeline_patch' = 1,
                    NEW r \in Ranks', NEW cells, cells = attended'[r]
             PROVE  /\ Len(cells) = height'
                    /\ {cells[i][1] : i \in DOMAIN cells} = 1 .. height'
                    /\ \A i \in DOMAIN cells :
                          cells[i][2] = IF \/ ~patch_mode' \/ num_pipeline_patch' = 1
                                           \/ PatchOf(cells[i][1])' <= AttendedPatch'
                                          THEN AttendedTime' ELSE AttendedTime' - 1
  BY DEF AttendsNewest, EveryRowOnce, NewestTime
<1>10. r \in Ranks /\ height' = height /\ num_pipeline_patch' = n /\ config'.ulysses = U
  BY <1>2, <1>7 DEF vars, Ranks
<1>11. patch_mode => Fresh(n)
  <2> SUFFICES ASSUME patch_mode PROVE Fresh(n)
    OBVIOUS
  <2>1. CASE U = 1 \/ n = 1
    BY <1>7, <2>1 DEF Fresh
  <2>2. CASE ~FirstAsyncStep'
    <3>1. ~(t + 1 = (request' - 1) * NumSteps' + config'.warmup + 1)
      BY <1>2, <2>2 DEF FirstAsyncStep
    <3>2. ~(t + 1 = base + w + 1)
      BY <1>1, <1>2, <1>3, <3>1
    <3>3. s # w
      BY <1>1, <1>3, <3>2
    <3> QED  BY <1>3, <3>3 DEF Fresh
  <2> QED  BY <1>10, <2>1, <2>2
<1>12. PICK last \in 1 .. n : last = IF patch_mode THEN p ELSE n
  OBVIOUS
<1>13. PICK T : T = Times(n, last + 1, t)
  OBVIOUS
<1>14. PICK byRanks \in BOOLEAN : AllHold(caches', byRanks, sp, U, n, e, f, T)
  <2>1. CASE ~patch_mode
    <3>1. AllHold(caches', TRUE, sp, U, n, e, f, Times(n, n + 1, t))
      BY <1>9, <2>1 DEF AllHold, NewCache
    <3> QED  BY <1>12, <1>13, <2>1, <3>1
  <2>2. CASE patch_mode
    <3>1. Known(n, p + 1, Fresh(n)) = 1 .. n
      BY <1>11, <2>2 DEF Known
    <3>2. AllHold(caches', FALSE, sp, U, n, e, f, Times(n, p + 1, t))
      <4> SUFFICES ASSUME NEW q \in Ranks
                   PROVE  Holds(caches'[q], FALSE, sp, U, n, e, f, GroupStart(q, U),
                                Times(n, p + 1, t), 1 .. n)
        BY DEF AllHold
      <4>1. Holds(caches'[q], FALSE, sp, U, n, e, f, GroupStart(q, U),
                  Times(n, p + 1, t), Known(n, p + 1, Fresh(n)))
        BY <1>9, <2>2 DEF NewCache
      <4> QED  BY <3>1, <4>1
    <3> QED  BY <1>12, <1>13, <2>2, <3>2
  <2> QED  BY <2>1, <2>2
<1>15. cells = RingOf(caches', r)
  BY <1>2, <1>10 DEF Attend, RingOf
<1>16. Reads(cells, height, PatchHeight(height), n, T)
  <2>1. PICK cc : cc = caches'
    OBVIOUS
  <2>2. AllHold(cc, byRanks, sp, U, n, e, f, T)
    BY <1>14, <2>1
  <2>3. Reads(RingOf(cc, r), height, PatchHeight(height), n, T)
    BY <1>5, <1>6, <1>7, <1>10, <2>2, RingReadsAll
  <2> QED  BY <1>15, <2>1, <2>3
<1>17. /\ Len(cells) = height'
       /\ {cells[i][1] : i \in DOMAIN cells} = 1 .. height'
  BY <1>10, <1>16 DEF Reads
<1>18. ASSUME NEW i \in DOMAIN cells
       PROVE  cells[i][2] = IF \/ ~patch_mode' \/ num_pipeline_patch' = 1
                               \/ PatchOf(cells[i][1])' <= AttendedPatch'
                              THEN AttendedTime' ELSE AttendedTime' - 1
  <2>1. PICK x : x = cells[i][1]
    OBVIOUS
  <2>2. PICK q \in 1 .. n : q = CeilDiv(x, PatchHeight(height)) /\ cells[i][2] = T[q]
    BY <1>16, <2>1 DEF Reads
  <2>3. PatchOf(x)' = q
    <3>1. PatchHeight(height)' = PatchHeight(height)
      BY <1>2 DEF vars, PatchHeight, Unit
    <3> QED  BY <2>2, <3>1 DEF PatchOf
  <2>4. T[q] = IF q < last + 1 THEN t + 1 ELSE t
    BY <1>12, <1>13 DEF Times
  <2>5. CASE ~patch_mode
    <3>1. q < last + 1
      BY <1>12, <2>5
    <3> QED  BY <1>2, <2>2, <2>4, <2>5, <3>1
  <2>6. CASE patch_mode
    <3>1. AttendedPatch' = p
      <4>1. CASE LastPatch
        <5>1. p = n /\ pipeline_patch_idx' = 1
          BY <1>2, <1>7, <1>8, <2>6, <4>1 DEF LastPatch, FirstPatch
        <5> QED  BY <1>10, <5>1 DEF AttendedPatch
      <4>2. CASE ~LastPatch
        <5>1. pipeline_patch_idx' = p + 1
          BY <1>2, <1>8, <4>2
        <5> QED  BY <5>1 DEF AttendedPatch
      <4> QED  BY <4>1, <4>2
    <3>2. last = p
      BY <1>12, <2>6
    <3> QED  BY <1>2, <1>10, <2>2, <2>3, <2>4, <2>6, <2>1, <3>1, <3>2
  <2> QED  BY <2>5, <2>6
<1> QED  BY <1>17, <1>18

LEMMA AttendsNewestNext ==
    ASSUME TypeOK, SplitIsOwn, StageInv, CachesInv, AttendsNewest,
           [NextDenoise]_<<vars, denoiseVars>>
    PROVE  AttendsNewest'
<1>1. CASE SetInput \/ StartRequest \/ EnterPatchMode \/ EndRequest
  <2>1. attended' = Nothing
    BY <1>1 DEF SetInput, StartRequest, EnterPatchMode, EndRequest
  <2> QED  BY <2>1 DEF AttendsNewest, Nothing
<1>2. CASE (WarmupStep \/ PatchStep) /\ phase = "denoise"
  BY <1>2, StepAttends
<1>3. CASE UNCHANGED <<vars, denoiseVars>>
  <2>1. /\ setup' = setup /\ height' = height /\ config' = config /\ request' = request
        /\ step' = step /\ patch_mode' = patch_mode /\ num_pipeline_patch' = num_pipeline_patch
        /\ pipeline_patch_idx' = pipeline_patch_idx /\ attended' = attended
    BY <1>3 DEF vars, denoiseVars
  <2>2. /\ Ranks' = Ranks /\ AttendedTime' = AttendedTime /\ AttendedPatch' = AttendedPatch
        /\ PatchHeight(height)' = PatchHeight(height)
    BY <2>1 DEF Ranks, AttendedTime, AttendedPatch, Time, PatchHeight, Unit
  <2>3. FirstAsyncStep' <=> FirstAsyncStep
    BY <2>1, <2>2 DEF FirstAsyncStep
  <2>4. \A x : NewestTime(x)' = NewestTime(x)
    BY <2>1, <2>2 DEF NewestTime, PatchOf
  <2>5. \A x : EveryRowOnce(x)' <=> EveryRowOnce(x)
    BY <2>1 DEF EveryRowOnce
  <2> QED  BY <2>1, <2>2, <2>3, <2>4, <2>5 DEF AttendsNewest, Nothing
<1> QED  BY <1>1, <1>2, <1>3 DEF NextDenoise, WarmupStep, PatchStep

\* After every step of every request the key-value caches of a ring together
\* hold every row of the latent exactly once, computed in that step: for every
\* height, split, Ulysses degree and warm-up.
THEOREM CachesHoldTheLastStep == SpecDenoise => []CachesLatest
<1>1. InitDenoise => StageInv
  BY InitStageInv
<1>2. InitDenoise => CachesInv
  BY DEF InitDenoise, CachesInv
<1>3. TypeOK /\ StageInv /\ [NextDenoise]_<<vars, denoiseVars>> => StageInv'
  BY StageNext
<1>4. TypeOK /\ StageInv /\ CachesInv /\ [NextDenoise]_<<vars, denoiseVars>> => CachesInv'
  BY CachesNext
<1>5. TypeOK /\ SplitIsOwn /\ StageInv /\ CachesInv => CachesLatest
  BY CachesAreLatest
<1> QED  BY <1>1, <1>2, <1>3, <1>4, <1>5, RequestsKeepTypes, SplitIsOwnHolds,
            DenoisingOnlyReadsTheSplit, PTL DEF SpecDenoise

\* Every attention reads every row of the latent once, the patches computed so
\* far from this step and the others from the step before; only the first
\* asynchronous step is not covered, when the Ulysses group has several ranks
\* and the image several patches.
THEOREM AttentionIsAsNewAsCanBe == SpecDenoise => []AttendsNewest
<1>1. InitDenoise => StageInv
  BY InitStageInv
<1>2. InitDenoise => CachesInv /\ AttendsNewest
  BY DEF InitDenoise, CachesInv, AttendsNewest
<1>3. TypeOK /\ StageInv /\ [NextDenoise]_<<vars, denoiseVars>> => StageInv'
  BY StageNext
<1>4. TypeOK /\ StageInv /\ CachesInv /\ [NextDenoise]_<<vars, denoiseVars>> => CachesInv'
  BY CachesNext
<1>5. TypeOK /\ SplitIsOwn /\ StageInv /\ CachesInv /\ AttendsNewest
         /\ [NextDenoise]_<<vars, denoiseVars>> => AttendsNewest'
  BY AttendsNewestNext
<1> QED  BY <1>1, <1>2, <1>3, <1>4, <1>5, RequestsKeepTypes, SplitIsOwnHolds,
            DenoisingOnlyReadsTheSplit, PTL DEF SpecDenoise
=============================================================================
