------------------------- MODULE RequestOutputProofs -------------------------
(***************************************************************************)
(* The groups of every configuration of degrees, and the way of the        *)
(* prompts through them to the images that are saved.                      *)
(*                                                                         *)
(* First the groups.  A rank is a number with five digits, its coordinates *)
(* on the axes, in the bases of the degrees; a group of an axis keeps four *)
(* of the digits and counts through the fifth, so it is the ranks that     *)
(* have the four in common.  The groups never change.                      *)
(*                                                                         *)
(* Then the shares.  A share depends on the data-parallel coordinate only; *)
(* every prompt is in one replica's, or a single one in all; and one owner *)
(* per replica follows from its coordinates.                               *)
(*                                                                         *)
(* Last the steps, with two invariants: Control says where each rank can   *)
(* be and what an owner holds before the latents are gathered, and Data    *)
(* says of every stage on the way who has the images of which prompts.     *)
(***************************************************************************)
EXTENDS RequestOutput, FiniteSetTheorems, SequenceTheorems, WellFoundedInduction, TLAPS

----------------------------------------------------------------------------
(* Induction and recursion, over sets and functions.                        *)

\* A set with zero that is closed under successor holds every number.
LEMMA SetInduction ==
    ASSUME NEW S, 0 \in S, \A m \in Nat : m \in S => m + 1 \in S
    PROVE  Nat \subseteq S
<1> SUFFICES ASSUME Nat \ S # {} PROVE FALSE
  OBVIOUS
<1> DEFINE T == Nat \ S
<1>1. PICK x \in T : \A y \in T : ~ (<<y, x>> \in OpToRel(<, Nat))
  BY WFMin, NatLessThanWellFounded, T \subseteq Nat, T # {}
<1>2. x \in Nat /\ x # 0 /\ x - 1 \in Nat
  OBVIOUS
<1>3. x - 1 \in T
  BY <1>2, (x-1)+1 = x
<1>4. <<x - 1, x>> \in OpToRel(<, Nat)
  BY <1>2 DEF OpToRel
<1> QED BY <1>1, <1>3, <1>4

\* g starts with base, and next[i] maps each of its values to the i-th.
Recursion(g, V, base, n, next) ==
    /\ g \in [0 .. n -> V]
    /\ g[0] = base
    /\ \A i \in 1 .. n : g[i] = next[i][g[i - 1]]

\* A value for zero and a step to the next value define a function.
LEMMA RecursionExists ==
    ASSUME NEW V, NEW base \in V, NEW n \in Nat, NEW next,
           \A i \in 1 .. n : \A v \in V : next[i][v] \in V
    PROVE  \E g : Recursion(g, V, base, n, next)
<1> DEFINE Upto(m, g) == /\ g \in [0 .. m -> V]
                         /\ g[0] = base
                         /\ \A i \in 1 .. m : g[i] = next[i][g[i - 1]]
           S == {m \in Nat : m <= n => \E g : Upto(m, g)}
<1>1. Upto(0, [i \in 0 .. 0 |-> base])
  OBVIOUS
<1>2. ASSUME NEW m \in Nat, m + 1 <= n, \E g : Upto(m, g)
      PROVE  \E g : Upto(m + 1, g)
  <2>1. PICK g : Upto(m, g)
    BY <1>2, Zenon
  <2> DEFINE h == [i \in 0 .. m + 1 |-> IF i <= m THEN g[i] ELSE next[m + 1][g[m]]]
  <2>2. g[m] \in V /\ m + 1 \in 1 .. n
    BY <1>2, <2>1
  <2>3. next[m + 1][g[m]] \in V
    BY <2>2
  <2>4. h \in [0 .. m + 1 -> V]
    BY <2>1, <2>3
  <2>5. h[0] = base
    BY <2>1
  <2>6. ASSUME NEW i \in 1 .. m + 1 PROVE h[i] = next[i][h[i - 1]]
    <3>1. CASE i <= m
      <4>1. h[i] = g[i] /\ h[i - 1] = g[i - 1] /\ i \in 1 .. m
        BY <3>1
      <4> QED  BY <4>1, <2>1
    <3>2. CASE i = m + 1
      <4>1. h[m + 1] = next[m + 1][g[m]] /\ h[m] = g[m] /\ i - 1 = m
        BY <3>2
      <4> QED  BY <4>1, <3>2
    <3> QED  BY <3>1, <3>2
  <2>7. Upto(m + 1, h)
    BY <2>4, <2>5, <2>6
  <2> QED  BY <2>7
<1>3. n \in S
  <2> HIDE DEF Upto
  <2>1. 0 \in S
    BY <1>1
  <2>2. ASSUME NEW m \in Nat, m \in S PROVE m + 1 \in S
    BY <1>2, <2>2
  <2> HIDE DEF S
  <2> QED  BY <2>1, <2>2, SetInduction
<1>4. PICK g : Upto(n, g)
  BY <1>3
<1>5. Recursion(g, V, base, n, next)
  BY <1>4 DEF Recursion
<1> QED  BY <1>5

\* f[i] joins the first i of the n sequences; off are their offsets in it.
Joins(f, n, ss) ==
    f = [i \in 1 .. n |-> IF i = 1 THEN ss[i] ELSE f[i - 1] \o ss[i]]
AllSequences(A, n, ss) == \A i \in 1 .. n : ss[i] \in Seq(A)

\* Sequences can be joined one after the other.
LEMMA JoinExists ==
    ASSUME NEW A, NEW n \in Nat, n >= 1, NEW ss, AllSequences(A, n, ss)
    PROVE  \E f : Joins(f, n, ss)
<1> USE DEF AllSequences
<1> DEFINE next == [i \in 1 .. n - 1 |-> [v \in Seq(A) |-> v \o ss[i + 1]]]
<1>1. ASSUME NEW i \in 1 .. n - 1, NEW v \in Seq(A)
      PROVE  next[i][v] = v \o ss[i + 1] /\ next[i][v] \in Seq(A)
  <2>1. i + 1 \in 1 .. n /\ ss[i + 1] \in Seq(A)
    OBVIOUS
  <2>2. next[i][v] = v \o ss[i + 1]
    OBVIOUS
  <2> HIDE DEF next
  <2> QED  BY <2>1, <2>2
<1> HIDE DEF next
<1>2. PICK g : Recursion(g, Seq(A), ss[1], n - 1, next)
  <2>1. ss[1] \in Seq(A) /\ n - 1 \in Nat
    OBVIOUS
  <2>2. \A i \in 1 .. n - 1 : \A v \in Seq(A) : next[i][v] \in Seq(A)
    BY <1>1
  <2> QED  BY <2>1, <2>2, RecursionExists, Zenon
<1>3. /\ g[0] = ss[1]
      /\ \A i \in 1 .. n - 1 : g[i] = next[i][g[i - 1]]
      /\ \A i \in 0 .. n - 1 : g[i] \in Seq(A)
  BY <1>2 DEF Recursion
<1>4. ASSUME NEW i \in 2 .. n PROVE g[i - 1] = g[i - 2] \o ss[i]
  <2>1. i - 1 \in 1 .. n - 1 /\ i - 2 \in 0 .. n - 1 /\ (i - 1) + 1 = i /\ (i - 1) - 1 = i - 2
    OBVIOUS
  <2>2. g[i - 1] = next[i - 1][g[i - 2]] /\ g[i - 2] \in Seq(A)
    BY <1>3, <2>1
  <2> QED  BY <1>1, <2>1, <2>2
<1> DEFINE h == [i \in 1 .. n |-> g[i - 1]]
<1>5. ASSUME NEW i \in 1 .. n PROVE h[i] = IF i = 1 THEN ss[i] ELSE h[i - 1] \o ss[i]
  <2>1. CASE i = 1
    BY <1>3, <2>1
  <2>2. CASE i # 1
    <3>1. h[i] = g[i - 1] /\ h[i - 1] = g[i - 2] /\ i \in 2 .. n
      BY <2>2
    <3> QED  BY <1>4, <2>2, <3>1
  <2> QED  BY <2>1, <2>2
<1>6. h = [i \in 1 .. n |-> h[i]]
  OBVIOUS
<1> HIDE DEF h
<1>7. h = [i \in 1 .. n |-> IF i = 1 THEN ss[i] ELSE h[i - 1] \o ss[i]]
  BY <1>5, <1>6
<1>8. Joins(h, n, ss)
  BY <1>7 DEF Joins
<1> QED  BY <1>8

----------------------------------------------------------------------------
(* Products and sums over the axes.                                         *)

\* prefix_product begins with one and multiplies by an entry at a time.
LEMMA ProductsStep ==
    ASSUME NEW s \in Seq(Nat)
    PROVE  /\ Products(s)[0] = 1
           /\ \A i \in 1 .. Len(s) : Products(s)[i] = Products(s)[i - 1] * s[i]
<1> DEFINE D(g) == g = [i \in 0 .. Len(s) |-> IF i = 0 THEN 1 ELSE g[i - 1] * s[i]]
           next == [i \in 1 .. Len(s) |-> [v \in Nat |-> v * s[i]]]
<1>1. \A i \in 1 .. Len(s) : s[i] \in Nat
  OBVIOUS
<1>2. \A i \in 1 .. Len(s) : \A v \in Nat : next[i][v] = v * s[i] /\ next[i][v] \in Nat
  BY <1>1
<1> HIDE DEF next, D
<1>3. PICK g : Recursion(g, Nat, 1, Len(s), next)
  <2>1. \A i \in 1 .. Len(s) : \A v \in Nat : next[i][v] \in Nat
    BY <1>2
  <2>2. 1 \in Nat /\ Len(s) \in Nat
    OBVIOUS
  <2> QED  BY <2>1, <2>2, RecursionExists, Zenon
<1>4. ASSUME NEW i \in 1 .. Len(s)
      PROVE  g[i] = g[i - 1] * s[i]
  <2>1. i - 1 \in 0 .. Len(s)
    OBVIOUS
  <2>2. g[i - 1] \in Nat /\ g[i] = next[i][g[i - 1]]
    BY <1>3, <2>1 DEF Recursion
  <2> QED  BY <1>2, <2>2
<1>5. D(g)
  <2>1. \A i \in 0 .. Len(s) : g[i] = IF i = 0 THEN 1 ELSE g[i - 1] * s[i]
    BY <1>3, <1>4, Len(s) \in Nat DEF Recursion
  <2>2. g \in [0 .. Len(s) -> Nat]
    BY <1>3 DEF Recursion
  <2>3. g = [i \in 0 .. Len(s) |-> g[i]]
    BY <2>2
  <2> QED  BY <2>1, <2>3 DEF D
<1>6. Products(s) = CHOOSE f : D(f)
  BY DEF Products, D
<1>7. D(Products(s))
  BY <1>5, <1>6, Zenon
<1> DEFINE f == Products(s)
<1>8. f = [i \in 0 .. Len(s) |-> IF i = 0 THEN 1 ELSE f[i - 1] * s[i]]
  BY <1>7 DEF D
<1> HIDE DEF f
<1>9. \A i \in 0 .. Len(s) : f[i] = IF i = 0 THEN 1 ELSE f[i - 1] * s[i]
  BY <1>8, Zenon
<1>10. Len(s) \in Nat /\ 0 \in 0 .. Len(s)
  OBVIOUS
<1>11. f[0] = 1 /\ \A i \in 1 .. Len(s) : f[i] = f[i - 1] * s[i]
  BY <1>9, <1>10
<1> QED  BY <1>11 DEF f

\* inner_product adds the product of a pair of entries at a time.
LEMMA InnerProductStep ==
    ASSUME NEW a \in Seq(Nat), NEW b \in Seq(Nat), Len(b) = Len(a)
    PROVE  \E f : /\ f[0] = 0
                  /\ \A i \in 1 .. Len(a) : f[i] = f[i - 1] + a[i] * b[i]
                  /\ InnerProduct(a, b) = f[Len(a)]
<1> DEFINE D(g) == g = [i \in 0 .. Len(a) |-> IF i = 0 THEN 0 ELSE g[i - 1] + a[i] * b[i]]
           next == [i \in 1 .. Len(a) |-> [v \in Nat |-> v + a[i] * b[i]]]
<1>1. \A i \in 1 .. Len(a) : a[i] \in Nat /\ b[i] \in Nat
  OBVIOUS
<1>2. \A i \in 1 .. Len(a) : \A v \in Nat :
          next[i][v] = v + a[i] * b[i] /\ next[i][v] \in Nat
  BY <1>1
<1> HIDE DEF next, D
<1>3. PICK g : Recursion(g, Nat, 0, Len(a), next)
  <2>1. \A i \in 1 .. Len(a) : \A v \in Nat : next[i][v] \in Nat
    BY <1>2
  <2>2. 0 \in Nat /\ Len(a) \in Nat
    OBVIOUS
  <2> QED  BY <2>1, <2>2, RecursionExists, Zenon
<1>4. ASSUME NEW i \in 1 .. Len(a)
      PROVE  g[i] = g[i - 1] + a[i] * b[i]
  <2>1. i - 1 \in 0 .. Len(a)
    OBVIOUS
  <2>2. g[i - 1] \in Nat /\ g[i] = next[i][g[i - 1]]
    BY <1>3, <2>1 DEF Recursion
  <2> QED  BY <1>2, <2>2
<1>5. D(g)
  <2>1. \A i \in 0 .. Len(a) : g[i] = IF i = 0 THEN 0 ELSE g[i - 1] + a[i] * b[i]
    BY <1>3, <1>4, Len(a) \in Nat DEF Recursion
  <2>2. g \in [0 .. Len(a) -> Nat]
    BY <1>3 DEF Recursion
  <2>3. g = [i \in 0 .. Len(a) |-> g[i]]
    BY <2>2
  <2> QED  BY <2>1, <2>3 DEF D
<1> DEFINE f == CHOOSE f : D(f)
<1>6. InnerProduct(a, b) = f[Len(a)]
  BY DEF InnerProduct, D
<1>7. D(f)
  BY <1>5, Zenon
<1>8. f = [i \in 0 .. Len(a) |-> IF i = 0 THEN 0 ELSE f[i - 1] + a[i] * b[i]]
  BY <1>7 DEF D
<1> HIDE DEF f
<1>9. \A i \in 0 .. Len(a) : f[i] = IF i = 0 THEN 0 ELSE f[i - 1] + a[i] * b[i]
  BY <1>8, Zenon
<1>10. Len(a) \in Nat /\ 0 \in 0 .. Len(a)
  OBVIOUS
<1>11. f[0] = 0 /\ \A i \in 1 .. Len(a) : f[i] = f[i - 1] + a[i] * b[i]
  BY <1>9, <1>10
<1> QED  BY <1>6, <1>11

\* The entries of a sequence of numbers.
LEMMA Entries ==
    ASSUME NEW s \in Seq(Nat)
    PROVE  \A i \in 1 .. Len(s) : s[i] \in Nat
<1> QED  OBVIOUS

\* The strides and digits over one, four and five axes.
LEMMA Products1 ==
    ASSUME NEW s \in Seq(Nat), Len(s) = 1
    PROVE  Products(s)[0] = 1 /\ Products(s)[1] = s[1]
<1>1. 1 \in 1 .. Len(s) /\ 1 - 1 = 0
  OBVIOUS
<1>2. \A i \in 1 .. Len(s) : s[i] \in Nat
  BY Entries
<1>3. s[1] \in Nat
  BY <1>1, <1>2
<1>4. Products(s)[0] = 1 /\ Products(s)[1] = Products(s)[0] * s[1]
  BY <1>1, ProductsStep
<1> QED  BY <1>3, <1>4

\* The products of the first entries of four numbers or more.
LEMMA Products4 ==
    ASSUME NEW s \in Seq(Nat), Len(s) >= 4
    PROVE  /\ Products(s)[0] = 1 /\ Products(s)[1] = s[1] /\ Products(s)[2] = s[1] * s[2]
           /\ Products(s)[3] = s[1] * s[2] * s[3] /\ Products(s)[4] = s[1] * s[2] * s[3] * s[4]
<1>1. Len(s) >= 4 /\ Len(s) \in Nat
  OBVIOUS
<1>2. /\ 1 \in 1 .. Len(s) /\ 2 \in 1 .. Len(s) /\ 3 \in 1 .. Len(s) /\ 4 \in 1 .. Len(s)
      /\ 1 - 1 = 0 /\ 2 - 1 = 1 /\ 3 - 1 = 2 /\ 4 - 1 = 3
  BY <1>1
<1>3. /\ Products(s)[0] = 1 /\ Products(s)[1] = Products(s)[0] * s[1]
      /\ Products(s)[2] = Products(s)[1] * s[2] /\ Products(s)[3] = Products(s)[2] * s[3]
      /\ Products(s)[4] = Products(s)[3] * s[4]
  BY <1>2, ProductsStep
<1>4. s[1] \in Nat /\ s[2] \in Nat /\ s[3] \in Nat /\ s[4] \in Nat
  BY <1>2, Entries
<1>5. Products(s)[1] = s[1]
  BY <1>3, <1>4
<1> QED  BY <1>3, <1>4, <1>5

\* The products of the first entries of five numbers.
LEMMA Products5 ==
    ASSUME NEW s \in Seq(Nat), Len(s) = 5
    PROVE  Products(s)[5] = s[1] * s[2] * s[3] * s[4] * s[5]
<1>1. Products(s)[5] = Products(s)[4] * s[5]
  BY ProductsStep, 5 \in 1 .. Len(s), 5 - 1 = 4
<1> QED  BY <1>1, Products4

\* The inner product over one axis.
LEMMA Inner1 ==
    ASSUME NEW a \in Seq(Nat), NEW b \in Seq(Nat), Len(a) = 1, Len(b) = 1
    PROVE  InnerProduct(a, b) = a[1] * b[1]
<1>1. PICK f : /\ f[0] = 0
               /\ \A i \in 1 .. Len(a) : f[i] = f[i - 1] + a[i] * b[i]
               /\ InnerProduct(a, b) = f[Len(a)]
  BY InnerProductStep
<1>2. 1 \in 1 .. Len(a) /\ 1 - 1 = 0
  OBVIOUS
<1>3. \A i \in 1 .. Len(a) : a[i] \in Nat /\ b[i] \in Nat
  BY Entries
<1>4. a[1] \in Nat /\ b[1] \in Nat
  BY <1>2, <1>3
<1>5. f[1] = f[0] + a[1] * b[1]
  BY <1>1, <1>2
<1> QED  BY <1>1, <1>4, <1>5

\* The inner product over four axes.
LEMMA Inner4 ==
    ASSUME NEW a \in Seq(Nat), NEW b \in Seq(Nat), Len(a) = 4, Len(b) = 4
    PROVE  InnerProduct(a, b) = a[1] * b[1] + a[2] * b[2] + a[3] * b[3] + a[4] * b[4]
<1>1. PICK f : /\ f[0] = 0
               /\ \A i \in 1 .. Len(a) : f[i] = f[i - 1] + a[i] * b[i]
               /\ InnerProduct(a, b) = f[Len(a)]
  BY InnerProductStep
<1>2. /\ 1 \in 1 .. Len(a) /\ 2 \in 1 .. Len(a) /\ 3 \in 1 .. Len(a) /\ 4 \in 1 .. Len(a)
      /\ 1 - 1 = 0 /\ 2 - 1 = 1 /\ 3 - 1 = 2 /\ 4 - 1 = 3
  OBVIOUS
<1>3. /\ f[1] = f[0] + a[1] * b[1] /\ f[2] = f[1] + a[2] * b[2]
      /\ f[3] = f[2] + a[3] * b[3] /\ f[4] = f[3] + a[4] * b[4]
  BY <1>1, <1>2
<1> DEFINE Both(i) == a[i] \in Nat /\ b[i] \in Nat
<1>6. \A i \in 1 .. Len(a) : Both(i)
  BY Entries
<1>4. Both(1) /\ Both(2) /\ Both(3) /\ Both(4)
  BY <1>2, <1>6
<1>5. f[1] = a[1] * b[1]
  BY <1>1, <1>3, <1>4
<1> QED  BY <1>1, <1>3, <1>4, <1>5

----------------------------------------------------------------------------
(* Digits.                                                                  *)

\* Quotient and remainder.
LEMMA DivMod ==
    ASSUME NEW a \in Nat, NEW b \in Nat \ {0}
    PROVE  \E q \in Nat, m \in 0 .. b - 1 : q = a \div b /\ m = a % b /\ a = q * b + m
<1>1. PICK q \in Nat : q = a \div b
  OBVIOUS
<1>2. PICK m \in 0 .. b - 1 : m = a % b
  OBVIOUS
<1>3. m = a - q * b
  BY <1>1, <1>2
<1>4. a = q * b + m
  BY <1>3
<1> QED  BY <1>1, <1>2, <1>4

\* A number has one quotient and one remainder.
LEMMA DivModUnique ==
    ASSUME NEW b \in Nat \ {0}, NEW q \in Nat, NEW m \in 0 .. b - 1
    PROVE  (q * b + m) \div b = q /\ (q * b + m) % b = m
<1>1. PICK a \in Nat : a = q * b + m
  OBVIOUS
<1>2. a \div b = q /\ a % b = m
  BY <1>1
<1> QED  BY <1>1, <1>2


\* The number with four digits, of bases n1 to n4.
Value4(d1, d2, d3, d4, n1, n2, n3) ==
    d1 * 1 + d2 * n1 + d3 * (n1 * n2) + d4 * (n1 * n2 * n3)

Bases4(n1, n2, n3, n4) ==
    n1 \in Nat \ {0} /\ n2 \in Nat \ {0} /\ n3 \in Nat \ {0} /\ n4 \in Nat \ {0}

Digits4(d1, d2, d3, d4, n1, n2, n3, n4) ==
    d1 \in 0 .. n1 - 1 /\ d2 \in 0 .. n2 - 1 /\ d3 \in 0 .. n3 - 1 /\ d4 \in 0 .. n4 - 1

\* A digit and a number over the base make a number.
LEMMA Compose ==
    ASSUME NEW n \in Nat \ {0}, NEW m \in Nat, NEW a \in 0 .. n - 1, NEW b \in 0 .. m - 1
    PROVE  a + b * n \in 0 .. n * m - 1
<1>1. m - 1 - b \in Nat /\ n \in Nat /\ b \in Nat
  OBVIOUS
<1>2. (m - 1 - b) * n \in Nat /\ b * n \in Nat
  BY <1>1
<1>3. n * m = n + b * n + (m - 1 - b) * n
  BY <1>1
<1>4. PICK x \in Nat, y \in Nat, z \in Int : x = b * n /\ y = (m - 1 - b) * n /\ z = n * m
  BY <1>2
<1> QED  BY <1>3, <1>4

\* A number below a product has a digit and a rest.
LEMMA Decomposed ==
    ASSUME NEW n \in Nat \ {0}, NEW m \in Nat, NEW x \in 0 .. n * m - 1
    PROVE  \E a \in 0 .. n - 1, b \in 0 .. m - 1 : x = a + b * n
<1>1. x \in Nat /\ x < n * m
  <2>1. PICK z \in Int : z = n * m
    OBVIOUS
  <2> QED  BY <2>1
<1>2. PICK q \in Nat, a \in 0 .. n - 1 : x = q * n + a
  BY <1>1, DivMod
<1>3. q < m
  <2> SUFFICES ASSUME q >= m PROVE FALSE
    BY <1>2
  <2>1. q - m \in Nat
    OBVIOUS
  <2>2. (q - m) * n \in Nat
    BY <2>1
  <2>3. q * n = m * n + (q - m) * n
    OBVIOUS
  <2>4. PICK u \in Int, v \in Nat, w \in Int : u = q * n /\ v = (q - m) * n /\ w = n * m
    BY <2>2
  <2> QED  BY <1>1, <1>2, <2>3, <2>4
<1>4. q \in 0 .. m - 1 /\ x = a + q * n
  BY <1>2, <1>3
<1> QED  BY <1>4

IsValue4(x, d1, d2, d3, d4, n1, n2, n3, n4) ==
    /\ x \in 0 .. n1 * n2 * n3 * n4 - 1
    /\ (x \div 1) % n1 = d1 /\ (x \div n1) % n2 = d2
    /\ (x \div (n1 * n2)) % n3 = d3 /\ (x \div (n1 * n2 * n3)) % n4 = d4

\* The digits of the value of four digits are these.
LEMMA ValueDigits4 ==
    ASSUME NEW n1, NEW n2, NEW n3, NEW n4, Bases4(n1, n2, n3, n4),
           NEW d1, NEW d2, NEW d3, NEW d4, Digits4(d1, d2, d3, d4, n1, n2, n3, n4),
           NEW x, x = Value4(d1, d2, d3, d4, n1, n2, n3)
    PROVE  IsValue4(x, d1, d2, d3, d4, n1, n2, n3, n4)
<1> USE DEF Bases4, Digits4, IsValue4
<1>1. PICK m \in Nat \ {0} : m = n1 * n2
  OBVIOUS
<1>2. PICK k \in Nat \ {0} : k = m * n3
  OBVIOUS
<1>3. PICK u \in 0 .. m - 1 : u = d1 + d2 * n1
  BY <1>1, Compose
<1>4. PICK v \in 0 .. k - 1 : v = u + d3 * m
  BY <1>2, Compose
<1>5. x = v + d4 * k
  BY <1>1, <1>2, <1>3, <1>4 DEF Value4
<1>6. x \in 0 .. k * n4 - 1
  BY <1>5, Compose
<1>7. PICK y \in Nat : y = d3 + d4 * n3
  OBVIOUS
<1>8. PICK z \in Nat : z = d2 + y * n2
  BY <1>7
<1>9. d3 * m + d4 * k = y * m
  BY <1>2, <1>7
<1>10. d2 * n1 + y * m = z * n1
  BY <1>1, <1>8
<1>11. x = y * m + u
  BY <1>4, <1>5, <1>9
<1>12. x = z * n1 + d1
  <2>1. PICK a \in Int, b \in Int, c \in Int : a = d2 * n1 /\ b = y * m /\ c = z * n1
    OBVIOUS
  <2> QED  BY <1>3, <1>10, <1>11, <2>1
<1>13. x \in Nat /\ x \div 1 = x
  BY <1>12
<1>14. x % n1 = d1 /\ x \div n1 = z
  BY <1>12, DivModUnique
<1>15. z % n2 = d2
  <2>1. z = y * n2 + d2
    BY <1>8
  <2> QED  BY <2>1, DivModUnique
<1>16. x \div m = y
  BY <1>11, DivModUnique
<1>17. y % n3 = d3
  <2>1. y = d4 * n3 + d3
    BY <1>7
  <2> QED  BY <2>1, DivModUnique
<1>18. x \div k = d4 /\ d4 % n4 = d4
  <2>1. x = d4 * k + v
    BY <1>5
  <2>2. x \div k = d4
    BY <2>1, DivModUnique
  <2>3. d4 = 0 * n4 + d4
    OBVIOUS
  <2>4. (0 * n4 + d4) % n4 = d4
    BY DivModUnique, 0 \in Nat
  <2> QED  BY <2>2, <2>3, <2>4
<1>19. x \in 0 .. n1 * n2 * n3 * n4 - 1
  BY <1>1, <1>2, <1>6
<1> QED  BY <1>1, <1>2, <1>13, <1>14, <1>15, <1>16, <1>17, <1>18, <1>19

HasValue4(x, n1, n2, n3, n4) ==
    \E d1, d2, d3, d4 : /\ Digits4(d1, d2, d3, d4, n1, n2, n3, n4)
                        /\ x = Value4(d1, d2, d3, d4, n1, n2, n3)

\* Every number below the product of four bases has four digits.
LEMMA HasDigits4 ==
    ASSUME NEW n1, NEW n2, NEW n3, NEW n4, Bases4(n1, n2, n3, n4),
           NEW x \in 0 .. n1 * n2 * n3 * n4 - 1
    PROVE  HasValue4(x, n1, n2, n3, n4)
<1> USE DEF Bases4
<1>1. PICK m \in Nat \ {0} : m = n1 * n2
  OBVIOUS
<1>2. PICK k \in Nat \ {0} : k = m * n3
  OBVIOUS
<1>3. x \in 0 .. k * n4 - 1
  BY <1>1, <1>2
<1>4. PICK v \in 0 .. k - 1, d4 \in 0 .. n4 - 1 : x = v + d4 * k
  BY <1>3, Decomposed
<1>5. PICK u \in 0 .. m - 1, d3 \in 0 .. n3 - 1 : v = u + d3 * m
  BY <1>2, Decomposed
<1>6. PICK d1 \in 0 .. n1 - 1, d2 \in 0 .. n2 - 1 : u = d1 + d2 * n1
  BY <1>1, Decomposed
<1>7. x = Value4(d1, d2, d3, d4, n1, n2, n3)
  BY <1>1, <1>2, <1>4, <1>5, <1>6 DEF Value4
<1> QED  BY <1>7 DEF Digits4, HasValue4

----------------------------------------------------------------------------
(* Coordinates.                                                             *)

Degrees(T, S, P, C, D) ==
    /\ Bases4(T, S, P, C) /\ D \in Nat \ {0}
    /\ setup.tp = T /\ setup.sp = S /\ setup.pp = P /\ setup.cfg = C /\ setup.dp = D

\* The rank with given coordinates.
RankWith(a, b, c, d, e, T, S, P, C) == Value4(a, b, c, d, T, S, P) + e * (T * S * P * C)

Coordinates(a, b, c, d, e, T, S, P, C, D) == Digits4(a, b, c, d, T, S, P, C) /\ e \in 0 .. D - 1

\* The entries over one axis.
LEMMA MaskedOne ==
    ASSUME NEW s, NEW i
    PROVE  Masked(s, <<i>>) = <<s[i]>>
<1> QED  BY DEF Masked

\* The entries over four axes.
LEMMA MaskedFour ==
    ASSUME NEW s, NEW i, NEW j, NEW k, NEW l
    PROVE  Masked(s, <<i, j, k, l>>) = <<s[i], s[j], s[k], s[l]>>
<1> QED  BY DEF Masked

\* The stride of one axis.
LEMMA StridesOne ==
    ASSUME NEW n \in Nat
    PROVE  Strides(<<n>>) = <<1>> /\ Product(<<n>>) = n
<1>1. <<n>> \in Seq(Nat) /\ Len(<<n>>) = 1 /\ DOMAIN <<n>> = 1 .. 1 /\ <<n>>[1] = n
  OBVIOUS
<1>2. Products(<<n>>)[0] = 1 /\ Products(<<n>>)[1] = n
  BY <1>1, Products1
<1>3. Strides(<<n>>) = [i \in 1 .. 1 |-> Products(<<n>>)[i - 1]]
  BY <1>1 DEF Strides
<1>4. Strides(<<n>>) = <<1>>
  BY <1>2, <1>3
<1> QED  BY <1>1, <1>2, <1>4 DEF Product

\* The strides of four axes.
LEMMA StridesFour ==
    ASSUME NEW n1 \in Nat, NEW n2 \in Nat, NEW n3 \in Nat, NEW n4 \in Nat
    PROVE  /\ Strides(<<n1, n2, n3, n4>>) = <<1, n1, n1 * n2, n1 * n2 * n3>>
           /\ Product(<<n1, n2, n3, n4>>) = n1 * n2 * n3 * n4
<1> DEFINE s == <<n1, n2, n3, n4>>
<1>1. s \in Seq(Nat) /\ Len(s) = 4 /\ DOMAIN s = 1 .. 4
  OBVIOUS
<1>2. s[1] = n1 /\ s[2] = n2 /\ s[3] = n3 /\ s[4] = n4
  OBVIOUS
<1> HIDE DEF s
<1>3. /\ Products(s)[0] = 1 /\ Products(s)[1] = n1 /\ Products(s)[2] = n1 * n2
      /\ Products(s)[3] = n1 * n2 * n3 /\ Products(s)[4] = n1 * n2 * n3 * n4
  <2>1. Len(s) >= 4
    BY <1>1
  <2> QED  BY <1>1, <1>2, <2>1, Products4
<1>4. Strides(s) = [i \in 1 .. 4 |-> Products(s)[i - 1]]
  BY <1>1 DEF Strides
<1>5. Strides(s) = <<1, n1, n1 * n2, n1 * n2 * n3>>
  BY <1>3, <1>4
<1>6. Product(s) = n1 * n2 * n3 * n4
  BY <1>1, <1>3 DEF Product
<1> QED  BY <1>5, <1>6 DEF s

ShapeIs(T, S, P, C, D) ==
    /\ Shape = <<T, S, P, C, D>>
    /\ Strides(Shape) = <<1, T, T * S, T * S * P, T * S * P * C>>
    /\ DitSize = T * S * P * C * D

\* The strides of the five axes and the number of ranks.
LEMMA ShapeFacts ==
    ASSUME NEW T, NEW S, NEW P, NEW C, NEW D, Degrees(T, S, P, C, D)
    PROVE  ShapeIs(T, S, P, C, D)
<1> USE DEF Degrees, Bases4
<1> DEFINE s == <<T, S, P, C, D>>
<1>1. s \in Seq(Nat) /\ Len(s) = 5 /\ DOMAIN s = 1 .. 5
  OBVIOUS
<1>2. s[1] = T /\ s[2] = S /\ s[3] = P /\ s[4] = C /\ s[5] = D
  OBVIOUS
<1>3. Shape = s
  BY DEF Shape
<1> HIDE DEF s
<1>4. /\ Products(s)[0] = 1 /\ Products(s)[1] = T /\ Products(s)[2] = T * S
      /\ Products(s)[3] = T * S * P /\ Products(s)[4] = T * S * P * C
  <2>1. Len(s) >= 4
    BY <1>1
  <2> QED  BY <1>1, <1>2, <2>1, Products4
<1>5. Products(s)[5] = T * S * P * C * D
  BY <1>1, <1>2, Products5
<1>6. Strides(s) = [i \in 1 .. 5 |-> Products(s)[i - 1]]
  BY <1>1 DEF Strides
<1>7. Strides(s) = <<1, T, T * S, T * S * P, T * S * P * C>>
  BY <1>4, <1>6
<1>8. Product(s) = T * S * P * C * D
  BY <1>1, <1>5 DEF Product
<1> QED  BY <1>3, <1>7, <1>8 DEF s, DitSize, ShapeIs

\* A place over one axis has that coordinate.
LEMMA DecomposeOne ==
    ASSUME NEW n \in Nat \ {0}, NEW k \in 0 .. n - 1
    PROVE  Decompose(k, <<n>>) = <<k>>
<1>1. DOMAIN <<n>> = 1 .. 1 /\ <<n>>[1] = n
  OBVIOUS
<1>2. Strides(<<n>>)[1] = 1
  BY StridesOne
<1>3. Decompose(k, <<n>>) = [i \in 1 .. 1 |-> (k \div Strides(<<n>>)[i]) % <<n>>[i]]
  BY <1>1 DEF Decompose
<1>4. k \div 1 = k /\ k % n = k
  <2>1. k = 0 * n + k
    OBVIOUS
  <2>2. (0 * n + k) % n = k
    BY DivModUnique, 0 \in Nat
  <2> QED  BY <2>1, <2>2
<1> QED  BY <1>1, <1>2, <1>3, <1>4

\* A place over four axes has four digits.
LEMMA DecomposeFour ==
    ASSUME NEW n1, NEW n2, NEW n3, NEW n4, Bases4(n1, n2, n3, n4),
           NEW d1, NEW d2, NEW d3, NEW d4, Digits4(d1, d2, d3, d4, n1, n2, n3, n4),
           NEW x, x = Value4(d1, d2, d3, d4, n1, n2, n3)
    PROVE  Decompose(x, <<n1, n2, n3, n4>>) = <<d1, d2, d3, d4>>
<1> DEFINE s == <<n1, n2, n3, n4>>
<1>1. DOMAIN s = 1 .. 4 /\ s[1] = n1 /\ s[2] = n2 /\ s[3] = n3 /\ s[4] = n4
  OBVIOUS
<1>2. Strides(s) = <<1, n1, n1 * n2, n1 * n2 * n3>>
  BY StridesFour DEF Bases4
<1> HIDE DEF s
<1> DEFINE D(i) == (x \div Strides(s)[i]) % s[i]
<1>3. Decompose(x, s) = [i \in 1 .. 4 |-> D(i)]
  BY <1>1 DEF Decompose
<1>4. /\ Strides(s)[1] = 1 /\ Strides(s)[2] = n1
      /\ Strides(s)[3] = n1 * n2 /\ Strides(s)[4] = n1 * n2 * n3
  BY <1>2
<1>5. D(1) = d1 /\ D(2) = d2 /\ D(3) = d3 /\ D(4) = d4
  BY <1>1, <1>4, ValueDigits4 DEF IsValue4
<1> HIDE DEF D
<1>6. [i \in 1 .. 4 |-> D(i)] = <<d1, d2, d3, d4>>
  BY <1>5
<1> QED  BY <1>3, <1>6 DEF s

\* One coordinate times its stride.
LEMMA InnerOne ==
    ASSUME NEW a \in Nat, NEW b \in Nat
    PROVE  InnerProduct(<<a>>, <<b>>) = a * b
<1>1. <<a>> \in Seq(Nat) /\ <<b>> \in Seq(Nat) /\ Len(<<a>>) = 1 /\ Len(<<b>>) = 1
      /\ <<a>>[1] = a /\ <<b>>[1] = b
  OBVIOUS
<1> QED  BY <1>1, Inner1

InnerFourIs(a1, a2, a3, a4, b1, b2, b3, b4) ==
    InnerProduct(<<a1, a2, a3, a4>>, <<b1, b2, b3, b4>>)
       = a1 * b1 + a2 * b2 + a3 * b3 + a4 * b4

\* Four coordinates times their strides.
LEMMA InnerFour ==
    ASSUME NEW a1 \in Nat, NEW a2 \in Nat, NEW a3 \in Nat, NEW a4 \in Nat,
           NEW b1 \in Nat, NEW b2 \in Nat, NEW b3 \in Nat, NEW b4 \in Nat
    PROVE  InnerFourIs(a1, a2, a3, a4, b1, b2, b3, b4)
<1> DEFINE a == <<a1, a2, a3, a4>>
           b == <<b1, b2, b3, b4>>
<1>1. a \in Seq(Nat) /\ b \in Seq(Nat) /\ Len(a) = 4 /\ Len(b) = 4
  OBVIOUS
<1>2. /\ a[1] = a1 /\ a[2] = a2 /\ a[3] = a3 /\ a[4] = a4
      /\ b[1] = b1 /\ b[2] = b2 /\ b[3] = b3 /\ b[4] = b4
  OBVIOUS
<1> HIDE DEF a, b
<1>3. InnerProduct(a, b) = a[1] * b[1] + a[2] * b[2] + a[3] * b[3] + a[4] * b[4]
  BY <1>1, Inner4
<1> QED  BY <1>2, <1>3 DEF a, b, InnerFourIs

\* What a number is over k does not change its digits below.
KeepsDigit(v, e, p, n, q) == ((v + e * (p * n * q)) \div p) % n = (v \div p) % n

\* What is below the place of a digit does not change the digit.
LEMMA DigitBelow ==
    ASSUME NEW p \in Nat \ {0}, NEW n \in Nat \ {0}, NEW q \in Nat, NEW v \in Nat, NEW e \in Nat
    PROVE  KeepsDigit(v, e, p, n, q)
<1>1. PICK w \in Nat, m \in 0 .. p - 1 : w = v \div p /\ v = w * p + m
  BY DivMod
<1>2. PICK h \in Nat, l \in 0 .. n - 1 : l = w % n /\ w = h * n + l
  BY ZenonT(40), DivMod
<1>3. PICK x \in Nat : x = w + e * (n * q)
  OBVIOUS
<1>4. v + e * (p * n * q) = x * p + m
  <2>1. e * (p * n * q) = (e * (n * q)) * p
    OBVIOUS
  <2>2. PICK y \in Nat : y = e * (n * q)
    OBVIOUS
  <2>3. x * p = w * p + y * p
    BY <1>3, <2>2
  <2>4. PICK s \in Nat, t \in Nat, u \in Nat : s = x * p /\ t = w * p /\ u = y * p
    OBVIOUS
  <2> QED  BY <1>1, <2>1, <2>2, <2>3, <2>4
<1>5. (x * p + m) \div p = x
  BY DivModUnique
<1>6. x = (h + e * q) * n + l
  <2>1. e * (n * q) = (e * q) * n
    OBVIOUS
  <2>2. PICK z \in Nat : z = e * q
    OBVIOUS
  <2>3. (h + z) * n = h * n + z * n
    OBVIOUS
  <2>4. PICK s \in Nat, t \in Nat, u \in Nat : s = (h + z) * n /\ t = h * n /\ u = z * n
    OBVIOUS
  <2> QED  BY <1>2, <1>3, <2>1, <2>2, <2>3, <2>4
<1>7. h + e * q \in Nat
  OBVIOUS
<1>8. ((h + e * q) * n + l) % n = l
  BY <1>7, DivModUnique
<1> QED  BY <1>1, <1>2, <1>4, <1>5, <1>6, <1>8 DEF KeepsDigit

\* Products of degrees are positive.
LEMMA Positive ==
    ASSUME NEW T, NEW S, NEW P, NEW C, Bases4(T, S, P, C)
    PROVE  /\ T \in Nat \ {0} /\ T * S \in Nat \ {0} /\ T * S * P \in Nat \ {0}
           /\ T * S * P * C \in Nat \ {0}
<1>1. T \in Nat \ {0} /\ S \in Nat \ {0} /\ P \in Nat \ {0} /\ C \in Nat \ {0}
  BY DEF Bases4
<1>2. PICK x \in Nat \ {0} : x = T * S
  BY <1>1
<1>3. PICK y \in Nat \ {0} : y = x * P
  BY <1>1
<1>4. PICK z \in Nat \ {0} : z = y * C
  BY <1>1
<1> QED  BY <1>1, <1>2, <1>3, <1>4

IsRank5(r, a, b, c, d, e, T, S, P, C, D) ==
    /\ r \in 0 .. T * S * P * C * D - 1
    /\ (r \div 1) % T = a /\ (r \div T) % S = b /\ (r \div (T * S)) % P = c
    /\ (r \div (T * S * P)) % C = d /\ (r \div (T * S * P * C)) % D = e

\* A rank's coordinates over the five axes.
LEMMA RankDigits ==
    ASSUME NEW T, NEW S, NEW P, NEW C, NEW D \in Nat \ {0}, Bases4(T, S, P, C),
           NEW a, NEW b, NEW c, NEW d, NEW e, Coordinates(a, b, c, d, e, T, S, P, C, D),
           NEW r, r = RankWith(a, b, c, d, e, T, S, P, C)
    PROVE  IsRank5(r, a, b, c, d, e, T, S, P, C, D)
<1>1. PICK v : v = Value4(a, b, c, d, T, S, P)
  OBVIOUS
<1>2. PICK k \in Nat \ {0} : k = T * S * P * C
  BY Positive
<1>3. Digits4(a, b, c, d, T, S, P, C) /\ e \in 0 .. D - 1
  BY DEF Coordinates
<1>16. IsValue4(v, a, b, c, d, T, S, P, C)
  BY <1>1, <1>3, ValueDigits4, Zenon
<1>4. /\ v \in 0 .. T * S * P * C - 1
      /\ (v \div 1) % T = a /\ (v \div T) % S = b
      /\ (v \div (T * S)) % P = c /\ (v \div (T * S * P)) % C = d
  BY <1>16 DEF IsValue4
<1>5. v \in 0 .. k - 1 /\ v \in Nat /\ e \in Nat
  BY <1>2, <1>3, <1>4
<1>6. r = v + e * k
  BY <1>1, <1>2 DEF RankWith
<1>7. r \in 0 .. k * D - 1
  BY <1>3, <1>5, <1>6, Compose
<1>8. /\ T \in Nat \ {0} /\ S \in Nat \ {0} /\ P \in Nat \ {0} /\ C \in Nat \ {0}
      /\ T * S \in Nat \ {0} /\ T * S * P \in Nat \ {0}
  BY Positive DEF Bases4
<1>9. S * P * C \in Nat /\ P * C \in Nat
  BY <1>8
<1>10. (r \div 1) % T = a
  <2>1. k = 1 * T * (S * P * C)
    BY <1>2, <1>8
  <2>2. KeepsDigit(v, e, 1, T, S * P * C)
    BY <1>5, <1>8, <1>9, DigitBelow, 1 \in Nat \ {0}, Zenon
  <2> QED  BY <1>4, <1>6, <2>1, <2>2 DEF KeepsDigit
<1>11. (r \div T) % S = b
  <2>1. k = T * S * (P * C)
    BY <1>2, <1>8
  <2>2. KeepsDigit(v, e, T, S, P * C)
    BY <1>5, <1>8, <1>9, DigitBelow, 1 \in Nat \ {0}, Zenon
  <2> QED  BY <1>4, <1>6, <2>1, <2>2 DEF KeepsDigit
<1>12. (r \div (T * S)) % P = c
  <2>1. PICK x \in Nat \ {0} : x = T * S
    BY <1>8
  <2>2. k = x * P * C
    BY <1>2, <2>1
  <2>3. KeepsDigit(v, e, x, P, C)
    <3>1. x \in Nat \ {0} /\ P \in Nat \ {0} /\ C \in Nat
      BY <1>8, <2>1
    <3> QED  BY <1>5, <3>1, DigitBelow, Zenon
  <2> QED  BY <1>4, <1>6, <2>1, <2>2, <2>3 DEF KeepsDigit
<1>13. (r \div (T * S * P)) % C = d
  <2>1. PICK x \in Nat \ {0} : x = T * S * P
    BY <1>8
  <2>2. k = x * C * 1
    BY <1>2, <1>8, <2>1
  <2>3. KeepsDigit(v, e, x, C, 1)
    <3>1. x \in Nat \ {0} /\ C \in Nat \ {0} /\ 1 \in Nat
      BY <1>8, <2>1
    <3> QED  BY <1>5, <3>1, DigitBelow, Zenon
  <2> QED  BY <1>4, <1>6, <2>1, <2>2, <2>3 DEF KeepsDigit
<1>14. (r \div k) % D = e
  <2>1. r = e * k + v
    BY <1>5, <1>6
  <2>2. (e * k + v) \div k = e
    BY <1>5, DivModUnique
  <2>3. e = 0 * D + e
    BY <1>5
  <2>4. (0 * D + e) % D = e
    BY <1>3, DivModUnique, 0 \in Nat
  <2> QED  BY <2>1, <2>2, <2>3, <2>4
<1>15. r \in 0 .. T * S * P * C * D - 1 /\ (r \div (T * S * P * C)) % D = e
  BY <1>2, <1>7, <1>14
<1> QED  BY <1>10, <1>11, <1>12, <1>13, <1>15 DEF IsRank5

\* The rank with given coordinates is one, and has them.
LEMMA RankCoordinates ==
    ASSUME NEW T, NEW S, NEW P, NEW C, NEW D, Degrees(T, S, P, C, D),
           NEW a, NEW b, NEW c, NEW d, NEW e, Coordinates(a, b, c, d, e, T, S, P, C, D),
           NEW r, r = RankWith(a, b, c, d, e, T, S, P, C)
    PROVE  r \in DitRanks /\ Decompose(r, Shape) = <<a, b, c, d, e>>
<1>1. Bases4(T, S, P, C) /\ D \in Nat \ {0}
  BY DEF Degrees
<1>2. /\ r \in 0 .. T * S * P * C * D - 1
      /\ (r \div 1) % T = a /\ (r \div T) % S = b /\ (r \div (T * S)) % P = c
      /\ (r \div (T * S * P)) % C = d /\ (r \div (T * S * P * C)) % D = e
  <2>1. IsRank5(r, a, b, c, d, e, T, S, P, C, D)
    BY <1>1, RankDigits, Zenon
  <2> QED  BY <2>1 DEF IsRank5
<1>3. /\ Shape = <<T, S, P, C, D>>
      /\ Strides(Shape) = <<1, T, T * S, T * S * P, T * S * P * C>>
      /\ DitSize = T * S * P * C * D
  <2>1. ShapeIs(T, S, P, C, D)
    BY ShapeFacts, Zenon
  <2> QED  BY <2>1 DEF ShapeIs
<1>4. r \in DitRanks
  BY <1>2, <1>3 DEF DitRanks
<1> DEFINE H(i) == (r \div Strides(Shape)[i]) % Shape[i]
<1>5. Decompose(r, Shape) = [i \in 1 .. 5 |-> H(i)]
  <2>1. DOMAIN Shape = 1 .. 5
    BY <1>3
  <2> QED  BY <2>1 DEF Decompose
<1>6. H(1) = a /\ H(2) = b /\ H(3) = c /\ H(4) = d /\ H(5) = e
  <2>1. /\ Shape[1] = T /\ Shape[2] = S /\ Shape[3] = P /\ Shape[4] = C /\ Shape[5] = D
        /\ Strides(Shape)[1] = 1 /\ Strides(Shape)[2] = T /\ Strides(Shape)[3] = T * S
        /\ Strides(Shape)[4] = T * S * P /\ Strides(Shape)[5] = T * S * P * C
    BY <1>3
  <2> QED  BY <1>2, <2>1, Zenon
<1> HIDE DEF H
<1>7. [i \in 1 .. 5 |-> H(i)] = <<a, b, c, d, e>>
  BY <1>6
<1> QED  BY <1>4, <1>5, <1>7

\* Every rank has coordinates.
LEMMA HasCoordinates ==
    ASSUME NEW T, NEW S, NEW P, NEW C, NEW D, Degrees(T, S, P, C, D), NEW r \in DitRanks
    PROVE  \E a, b, c, d, e : /\ Coordinates(a, b, c, d, e, T, S, P, C, D)
                              /\ r = RankWith(a, b, c, d, e, T, S, P, C)
<1>1. Bases4(T, S, P, C) /\ D \in Nat \ {0}
  BY DEF Degrees
<1>2. PICK k \in Nat \ {0} : k = T * S * P * C
  BY <1>1, Positive
<1>3. r \in 0 .. k * D - 1
  <2>1. ShapeIs(T, S, P, C, D)
    BY ShapeFacts, Zenon
  <2>2. DitSize = T * S * P * C * D
    BY <2>1 DEF ShapeIs
  <2> QED  BY <1>2, <2>2 DEF DitRanks
<1>4. PICK v \in 0 .. k - 1, e \in 0 .. D - 1 : r = v + e * k
  <2>1. k \in Nat \ {0} /\ D \in Nat
    BY <1>1
  <2> QED  BY <1>3, <2>1, Decomposed, Zenon
<1>5. v \in 0 .. T * S * P * C - 1
  BY <1>2
<1>6. PICK a, b, c, d : Digits4(a, b, c, d, T, S, P, C) /\ v = Value4(a, b, c, d, T, S, P)
  <2>1. HasValue4(v, T, S, P, C)
    BY <1>1, <1>5, HasDigits4, Zenon
  <2> QED  BY <2>1 DEF HasValue4
<1>7. r = RankWith(a, b, c, d, e, T, S, P, C)
  BY <1>2, <1>4, <1>6 DEF RankWith
<1>8. Coordinates(a, b, c, d, e, T, S, P, C, D)
  BY <1>6 DEF Coordinates
<1> QED  BY <1>7, <1>8

\* A rank is known by its coordinates.
LEMMA SameCoordinates ==
    ASSUME NEW T, NEW S, NEW P, NEW C, NEW D, Degrees(T, S, P, C, D),
           NEW r \in DitRanks, NEW q \in DitRanks,
           \A i \in 1 .. 5 : Decompose(r, Shape)[i] = Decompose(q, Shape)[i]
    PROVE  r = q
<1>1. PICK a, b, c, d, e : /\ Coordinates(a, b, c, d, e, T, S, P, C, D)
                           /\ r = RankWith(a, b, c, d, e, T, S, P, C)
  BY HasCoordinates
<1>2. PICK a2, b2, c2, d2, e2 : /\ Coordinates(a2, b2, c2, d2, e2, T, S, P, C, D)
                                /\ q = RankWith(a2, b2, c2, d2, e2, T, S, P, C)
  BY HasCoordinates
<1>3. Decompose(r, Shape) = <<a, b, c, d, e>> /\ Decompose(q, Shape) = <<a2, b2, c2, d2, e2>>
  BY <1>1, <1>2, RankCoordinates
<1>4. a = a2 /\ b = b2 /\ c = c2 /\ d = d2 /\ e = e2
  BY <1>3
<1> QED  BY <1>1, <1>2, <1>4

----------------------------------------------------------------------------
(* The groups of an axis.                                                   *)

\* The axes beside an axis, in their order.
Beside(a, o1, o2, o3, o4) ==
    \/ a = 1 /\ o1 = 2 /\ o2 = 3 /\ o3 = 4 /\ o4 = 5
    \/ a = 2 /\ o1 = 1 /\ o2 = 3 /\ o3 = 4 /\ o4 = 5
    \/ a = 3 /\ o1 = 1 /\ o2 = 2 /\ o3 = 4 /\ o4 = 5
    \/ a = 4 /\ o1 = 1 /\ o2 = 2 /\ o3 = 3 /\ o4 = 5
    \/ a = 5 /\ o1 = 1 /\ o2 = 2 /\ o3 = 3 /\ o4 = 4

\* The coordinates of a rank.
Coord(r) == Decompose(r, Shape)

\* Rank r has place k on axis a and digits d beside it.
PlacedAt(r, a, o1, o2, o3, o4, k, d1, d2, d3, d4) ==
    /\ r \in DitRanks /\ Coord(r)[a] = k
    /\ Coord(r)[o1] = d1 /\ Coord(r)[o2] = d2 /\ Coord(r)[o3] = d3 /\ Coord(r)[o4] = d4

GroupSum(r, a, o1, o2, o3, o4, k, d1, d2, d3, d4) ==
    r = k * Strides(Shape)[a]
        + (d1 * Strides(Shape)[o1] + d2 * Strides(Shape)[o2]
           + d3 * Strides(Shape)[o3] + d4 * Strides(Shape)[o4])

\* The rank at a place of a group is a sum over its coordinates.
LEMMA GroupRankSum ==
    ASSUME NEW T, NEW S, NEW P, NEW C, NEW D, Degrees(T, S, P, C, D),
           NEW a, NEW o1, NEW o2, NEW o3, NEW o4, Beside(a, o1, o2, o3, o4),
           NEW k \in 0 .. Shape[a] - 1, NEW g, NEW d1, NEW d2, NEW d3, NEW d4,
           Digits4(d1, d2, d3, d4, Shape[o1], Shape[o2], Shape[o3], Shape[o4]),
           g = Value4(d1, d2, d3, d4, Shape[o1], Shape[o2], Shape[o3])
    PROVE  GroupSum(GroupRank(g, k, <<a>>, <<o1, o2, o3, o4>>), a, o1, o2, o3, o4,
                    k, d1, d2, d3, d4)
<1> DEFINE N == Nat \ {0}
<1>1. Bases4(T, S, P, C) /\ D \in N
  BY DEF Degrees
<1>2. ShapeIs(T, S, P, C, D)
  BY ShapeFacts, Zenon
<1>3. Shape = <<T, S, P, C, D>> /\ Strides(Shape) = <<1, T, T * S, T * S * P, T * S * P * C>>
  BY <1>2 DEF ShapeIs
<1>4. /\ T \in N /\ S \in N /\ P \in N /\ C \in N /\ D \in N
      /\ T * S \in N /\ T * S * P \in N /\ T * S * P * C \in N
  BY <1>1, Positive DEF Bases4
<1>5. \A i \in 1 .. 5 : Shape[i] \in N /\ Strides(Shape)[i] \in N
  BY <1>3, <1>4
<1>6. a \in 1 .. 5 /\ o1 \in 1 .. 5 /\ o2 \in 1 .. 5 /\ o3 \in 1 .. 5 /\ o4 \in 1 .. 5
  BY DEF Beside
<1>7. Shape[a] \in N /\ Bases4(Shape[o1], Shape[o2], Shape[o3], Shape[o4])
  BY <1>5, <1>6 DEF Bases4
<1>8. Decompose(k, Masked(Shape, <<a>>)) = <<k>>
  <2>1. Masked(Shape, <<a>>) = <<Shape[a]>>
    BY MaskedOne
  <2> QED  BY <1>7, <2>1, DecomposeOne
<1>9. Decompose(g, Masked(Shape, <<o1, o2, o3, o4>>)) = <<d1, d2, d3, d4>>
  <2>1. Masked(Shape, <<o1, o2, o3, o4>>) = <<Shape[o1], Shape[o2], Shape[o3], Shape[o4]>>
    BY MaskedFour
  <2> QED  BY <1>7, <2>1, DecomposeFour
<1>10. Masked(Strides(Shape), <<a>>) = <<Strides(Shape)[a]>>
  BY MaskedOne
<1>11. Masked(Strides(Shape), <<o1, o2, o3, o4>>) =
          <<Strides(Shape)[o1], Strides(Shape)[o2], Strides(Shape)[o3], Strides(Shape)[o4]>>
  BY MaskedFour
<1>12. k \in Nat /\ d1 \in Nat /\ d2 \in Nat /\ d3 \in Nat /\ d4 \in Nat
  BY <1>7 DEF Digits4, Bases4
<1>13. /\ Strides(Shape)[a] \in Nat /\ Strides(Shape)[o1] \in Nat /\ Strides(Shape)[o2] \in Nat
       /\ Strides(Shape)[o3] \in Nat /\ Strides(Shape)[o4] \in Nat
  BY <1>5, <1>6
<1>14. InnerProduct(<<k>>, <<Strides(Shape)[a]>>) = k * Strides(Shape)[a]
  BY <1>12, <1>13, InnerOne
<1>15. InnerProduct(<<d1, d2, d3, d4>>, <<Strides(Shape)[o1], Strides(Shape)[o2],
                                         Strides(Shape)[o3], Strides(Shape)[o4]>>)
          = d1 * Strides(Shape)[o1] + d2 * Strides(Shape)[o2]
            + d3 * Strides(Shape)[o3] + d4 * Strides(Shape)[o4]
  <2>1. InnerFourIs(d1, d2, d3, d4, Strides(Shape)[o1], Strides(Shape)[o2],
                    Strides(Shape)[o3], Strides(Shape)[o4])
    BY <1>12, <1>13, InnerFour, Zenon
  <2> QED  BY <2>1 DEF InnerFourIs
<1> QED  BY <1>8, <1>9, <1>10, <1>11, <1>14, <1>15, Zenon DEF GroupRank, GroupSum

\* The rank at a place of a group has the place as its coordinate on the axis.
LEMMA GroupPlace ==
    ASSUME NEW T, NEW S, NEW P, NEW C, NEW D, Degrees(T, S, P, C, D),
           NEW a, NEW o1, NEW o2, NEW o3, NEW o4, Beside(a, o1, o2, o3, o4),
           NEW k \in 0 .. Shape[a] - 1, NEW g, NEW d1, NEW d2, NEW d3, NEW d4,
           Digits4(d1, d2, d3, d4, Shape[o1], Shape[o2], Shape[o3], Shape[o4]),
           g = Value4(d1, d2, d3, d4, Shape[o1], Shape[o2], Shape[o3])
    PROVE  PlacedAt(GroupRank(g, k, <<a>>, <<o1, o2, o3, o4>>), a, o1, o2, o3, o4, k, d1, d2, d3, d4)
<1>1. PICK r : r = GroupRank(g, k, <<a>>, <<o1, o2, o3, o4>>)
  OBVIOUS
<1>2. GroupSum(r, a, o1, o2, o3, o4, k, d1, d2, d3, d4)
  BY <1>1, GroupRankSum, Zenon
<1>3. ShapeIs(T, S, P, C, D)
  BY ShapeFacts, Zenon
<1>4. /\ Shape[1] = T /\ Shape[2] = S /\ Shape[3] = P /\ Shape[4] = C /\ Shape[5] = D
      /\ Strides(Shape)[1] = 1 /\ Strides(Shape)[2] = T /\ Strides(Shape)[3] = T * S
      /\ Strides(Shape)[4] = T * S * P /\ Strides(Shape)[5] = T * S * P * C
  BY <1>3 DEF ShapeIs
<1>5. Bases4(T, S, P, C) /\ D \in Nat \ {0}
  BY DEF Degrees
<1>6. /\ 1 \in Nat /\ T \in Nat /\ S \in Nat /\ P \in Nat /\ C \in Nat /\ D \in Nat
      /\ T * S \in Nat /\ T * S * P \in Nat /\ T * S * P * C \in Nat
  BY <1>5, Positive DEF Bases4
<1>15. PICK X \in Nat, Y \in Nat, Z \in Nat : X = T * S /\ Y = T * S * P /\ Z = T * S * P * C
  BY <1>6
<1>7. ASSUME NEW c1, NEW c2, NEW c3, NEW c4, NEW c5,
             Coordinates(c1, c2, c3, c4, c5, T, S, P, C, D),
             r = RankWith(c1, c2, c3, c4, c5, T, S, P, C)
      PROVE  /\ r \in DitRanks
             /\ Coord(r)[1] = c1 /\ Coord(r)[2] = c2 /\ Coord(r)[3] = c3
             /\ Coord(r)[4] = c4 /\ Coord(r)[5] = c5
  <2>1. r \in DitRanks /\ Coord(r) = <<c1, c2, c3, c4, c5>>
    BY <1>7, RankCoordinates DEF Coord
  <2> QED  BY <2>1
<1>8. ASSUME NEW x1 \in Nat, NEW x2 \in Nat, NEW x3 \in Nat, NEW x4 \in Nat, NEW x5 \in Nat
      PROVE  RankWith(x1, x2, x3, x4, x5, T, S, P, C) =
                x1 * 1 + x2 * T + x3 * X + x4 * Y + x5 * Z
  BY <1>15 DEF RankWith, Value4
<1>9. k \in 0 .. Shape[a] - 1 /\ Digits4(d1, d2, d3, d4, Shape[o1], Shape[o2], Shape[o3], Shape[o4])
  OBVIOUS
<1>10. CASE a = 1 /\ o1 = 2 /\ o2 = 3 /\ o3 = 4 /\ o4 = 5
  <2>1. k \in Nat /\ d1 \in Nat /\ d2 \in Nat /\ d3 \in Nat /\ d4 \in Nat
    BY <1>4, <1>6, <1>9, <1>10 DEF Digits4
  <2>2. Coordinates(k, d1, d2, d3, d4, T, S, P, C, D)
    BY <1>4, <1>9, <1>10 DEF Coordinates, Digits4
  <2>3. r = RankWith(k, d1, d2, d3, d4, T, S, P, C)
    <3>1. r = k * 1 + (d1 * T + d2 * X + d3 * Y + d4 * Z)
      BY <1>2, <1>4, <1>15, <1>10 DEF GroupSum
    <3>2. RankWith(k, d1, d2, d3, d4, T, S, P, C) = k * 1 + d1 * T + d2 * X + d3 * Y + d4 * Z
      BY <1>8, <2>1
    <3> QED  BY <1>6, <1>15, <2>1, <3>1, <3>2
  <2> QED  BY <1>1, <1>7, <1>10, <2>2, <2>3 DEF PlacedAt
<1>11. CASE a = 2 /\ o1 = 1 /\ o2 = 3 /\ o3 = 4 /\ o4 = 5
  <2>1. k \in Nat /\ d1 \in Nat /\ d2 \in Nat /\ d3 \in Nat /\ d4 \in Nat
    BY <1>4, <1>6, <1>9, <1>11 DEF Digits4
  <2>2. Coordinates(d1, k, d2, d3, d4, T, S, P, C, D)
    BY <1>4, <1>9, <1>11 DEF Coordinates, Digits4
  <2>3. r = RankWith(d1, k, d2, d3, d4, T, S, P, C)
    <3>1. r = k * T + (d1 * 1 + d2 * X + d3 * Y + d4 * Z)
      BY <1>2, <1>4, <1>15, <1>11 DEF GroupSum
    <3>2. RankWith(d1, k, d2, d3, d4, T, S, P, C) = d1 * 1 + k * T + d2 * X + d3 * Y + d4 * Z
      BY <1>8, <2>1
    <3> QED  BY <1>6, <1>15, <2>1, <3>1, <3>2
  <2> QED  BY <1>1, <1>7, <1>11, <2>2, <2>3 DEF PlacedAt
<1>12. CASE a = 3 /\ o1 = 1 /\ o2 = 2 /\ o3 = 4 /\ o4 = 5
  <2>1. k \in Nat /\ d1 \in Nat /\ d2 \in Nat /\ d3 \in Nat /\ d4 \in Nat
    BY <1>4, <1>6, <1>9, <1>12 DEF Digits4
  <2>2. Coordinates(d1, d2, k, d3, d4, T, S, P, C, D)
    BY <1>4, <1>9, <1>12 DEF Coordinates, Digits4
  <2>3. r = RankWith(d1, d2, k, d3, d4, T, S, P, C)
    <3>1. r = k * X + (d1 * 1 + d2 * T + d3 * Y + d4 * Z)
      BY <1>2, <1>4, <1>15, <1>12 DEF GroupSum
    <3>2. RankWith(d1, d2, k, d3, d4, T, S, P, C) = d1 * 1 + d2 * T + k * X + d3 * Y + d4 * Z
      BY <1>8, <2>1
    <3> QED  BY <1>6, <1>15, <2>1, <3>1, <3>2
  <2> QED  BY <1>1, <1>7, <1>12, <2>2, <2>3 DEF PlacedAt
<1>13. CASE a = 4 /\ o1 = 1 /\ o2 = 2 /\ o3 = 3 /\ o4 = 5
  <2>1. k \in Nat /\ d1 \in Nat /\ d2 \in Nat /\ d3 \in Nat /\ d4 \in Nat
    BY <1>4, <1>6, <1>9, <1>13 DEF Digits4
  <2>2. Coordinates(d1, d2, d3, k, d4, T, S, P, C, D)
    BY <1>4, <1>9, <1>13 DEF Coordinates, Digits4
  <2>3. r = RankWith(d1, d2, d3, k, d4, T, S, P, C)
    <3>1. r = k * Y + (d1 * 1 + d2 * T + d3 * X + d4 * Z)
      BY <1>2, <1>4, <1>15, <1>13 DEF GroupSum
    <3>2. RankWith(d1, d2, d3, k, d4, T, S, P, C) = d1 * 1 + d2 * T + d3 * X + k * Y + d4 * Z
      BY <1>8, <2>1
    <3> QED  BY <1>6, <1>15, <2>1, <3>1, <3>2
  <2> QED  BY <1>1, <1>7, <1>13, <2>2, <2>3 DEF PlacedAt
<1>14. CASE a = 5 /\ o1 = 1 /\ o2 = 2 /\ o3 = 3 /\ o4 = 4
  <2>1. k \in Nat /\ d1 \in Nat /\ d2 \in Nat /\ d3 \in Nat /\ d4 \in Nat
    BY <1>4, <1>6, <1>9, <1>14 DEF Digits4
  <2>2. Coordinates(d1, d2, d3, d4, k, T, S, P, C, D)
    BY <1>4, <1>9, <1>14 DEF Coordinates, Digits4
  <2>3. r = RankWith(d1, d2, d3, d4, k, T, S, P, C)
    <3>1. r = k * Z + (d1 * 1 + d2 * T + d3 * X + d4 * Y)
      BY <1>2, <1>4, <1>15, <1>14 DEF GroupSum
    <3>2. RankWith(d1, d2, d3, d4, k, T, S, P, C) = d1 * 1 + d2 * T + d3 * X + d4 * Y + k * Z
      BY <1>8, <2>1
    <3> QED  BY <1>6, <1>15, <2>1, <3>1, <3>2
  <2> QED  BY <1>1, <1>7, <1>14, <2>2, <2>3 DEF PlacedAt
<1> QED  BY <1>10, <1>11, <1>12, <1>13, <1>14 DEF Beside

\* The groups that differ in some axes only: every rank is in one of them, the
\* ranks of a group have the same other coordinates and are in their order.
Family(fam, N, n, others) ==
    /\ N \in Nat /\ n \in Nat \ {0}
    /\ fam \in [1 .. N -> [1 .. n -> DitRanks]]
    /\ \A r \in DitRanks : \E g \in 1 .. N, k \in 1 .. n : fam[g][k] = r
    /\ \A g, h \in 1 .. N : \A k, l \in 1 .. n :
          g = h <=> \A i \in others : Coord(fam[g][k])[i] = Coord(fam[h][l])[i]
    /\ \A g \in 1 .. N : \A k, l \in 1 .. n : k < l => fam[g][k] < fam[g][l]

\* The ranks' places in their groups of an axis.
Places(fam, N, n, a) == \A g \in 1 .. N : \A k \in 1 .. n : Coord(fam[g][k])[a] = k - 1

\* How many groups and places an axis has.
LEMMA GroupCount ==
    ASSUME NEW T, NEW S, NEW P, NEW C, NEW D, Degrees(T, S, P, C, D),
           NEW a, NEW o1, NEW o2, NEW o3, NEW o4, Beside(a, o1, o2, o3, o4)
    PROVE  /\ DitSize \div Shape[a] = Shape[o1] * Shape[o2] * Shape[o3] * Shape[o4]
           /\ Shape[a] \in Nat \ {0}
           /\ Bases4(Shape[o1], Shape[o2], Shape[o3], Shape[o4])
<1>1. Bases4(T, S, P, C) /\ D \in Nat \ {0}
  BY DEF Degrees
<1>2. ShapeIs(T, S, P, C, D)
  BY ShapeFacts, Zenon
<1>3. /\ Shape[1] = T /\ Shape[2] = S /\ Shape[3] = P /\ Shape[4] = C /\ Shape[5] = D
      /\ DitSize = T * S * P * C * D
  BY <1>2 DEF ShapeIs
<1>4. Shape[a] \in Nat \ {0} /\ Bases4(Shape[o1], Shape[o2], Shape[o3], Shape[o4])
  BY <1>1, <1>3 DEF Beside, Bases4
<1>5. PICK n1 \in Nat, n2 \in Nat, n3 \in Nat, n4 \in Nat, n \in Nat \ {0} :
          n1 = Shape[o1] /\ n2 = Shape[o2] /\ n3 = Shape[o3] /\ n4 = Shape[o4] /\ n = Shape[a]
  BY <1>4 DEF Bases4
<1>6. DitSize = (n1 * n2 * n3 * n4) * n
  <2>1. T \in Nat /\ S \in Nat /\ P \in Nat /\ C \in Nat /\ D \in Nat
    BY <1>1 DEF Bases4
  <2>2. CASE a = 1
    <3>1. n = T /\ n1 = S /\ n2 = P /\ n3 = C /\ n4 = D
      BY <1>3, <1>5, <2>2 DEF Beside
    <3>2. T * S * P * C * D = (S * P * C * D) * T
      BY <2>1
    <3> QED  BY <1>3, <3>1, <3>2
  <2>3. CASE a = 2
    <3>1. n = S /\ n1 = T /\ n2 = P /\ n3 = C /\ n4 = D
      BY <1>3, <1>5, <2>3 DEF Beside
    <3>2. T * S * P * C * D = (T * P * C * D) * S
      BY <2>1
    <3> QED  BY <1>3, <3>1, <3>2
  <2>4. CASE a = 3
    <3>1. n = P /\ n1 = T /\ n2 = S /\ n3 = C /\ n4 = D
      BY <1>3, <1>5, <2>4 DEF Beside
    <3>2. T * S * P * C * D = (T * S * C * D) * P
      BY <2>1
    <3> QED  BY <1>3, <3>1, <3>2
  <2>5. CASE a = 4
    <3>1. n = C /\ n1 = T /\ n2 = S /\ n3 = P /\ n4 = D
      BY <1>3, <1>5, <2>5 DEF Beside
    <3>2. T * S * P * C * D = (T * S * P * D) * C
      BY <2>1
    <3> QED  BY <1>3, <3>1, <3>2
  <2>6. CASE a = 5
    <3>1. n = D /\ n1 = T /\ n2 = S /\ n3 = P /\ n4 = C
      BY <1>3, <1>5, <2>6 DEF Beside
    <3> QED  BY <1>3, <3>1
  <2> QED  BY <2>2, <2>3, <2>4, <2>5, <2>6 DEF Beside
<1>7. PICK x \in Nat : x = n1 * n2 * n3 * n4
  OBVIOUS
<1>8. (x * n + 0) \div n = x
  BY DivModUnique, 0 \in 0 .. n - 1
<1>9. DitSize = x * n + 0
  BY <1>6, <1>7
<1> QED  BY <1>4, <1>5, <1>7, <1>8, <1>9

\* The groups of an axis are the ranks that differ in it only.
LEMMA AxisFamily ==
    ASSUME NEW T, NEW S, NEW P, NEW C, NEW D, Degrees(T, S, P, C, D),
           NEW a, NEW o1, NEW o2, NEW o3, NEW o4, Beside(a, o1, o2, o3, o4),
           NEW axis, Axes[axis] = <<a>>, OtherAxes[axis] = <<o1, o2, o3, o4>>
    PROVE  \E N : /\ Family(RankGroups(axis), N, Shape[a], {o1, o2, o3, o4})
                  /\ Places(RankGroups(axis), N, Shape[a], a)
<1>1. PICK N, n : N = DitSize \div Shape[a] /\ n = Shape[a]
  OBVIOUS
<1>2. PICK n1, n2, n3, n4 : n1 = Shape[o1] /\ n2 = Shape[o2] /\ n3 = Shape[o3] /\ n4 = Shape[o4]
  OBVIOUS
<1>3. N = n1 * n2 * n3 * n4 /\ n \in Nat \ {0} /\ Bases4(n1, n2, n3, n4)
  BY <1>1, <1>2, GroupCount
<1>4. N \in Nat
  <2>1. n1 * n2 * n3 * n4 \in Nat \ {0}
    BY <1>3, Positive
  <2> QED  BY <1>3, <2>1
<1> DEFINE fam == RankGroups(axis)
           at(g, k) == GroupRank(g - 1, k - 1, <<a>>, <<o1, o2, o3, o4>>)
<1>5. fam = [g \in 1 .. N |-> [k \in 1 .. n |-> at(g, k)]]
  <2>1. Masked(Shape, <<a>>) = <<Shape[a]>>
    BY MaskedOne
  <2>2. Product(<<Shape[a]>>) = Shape[a]
    BY <1>1, <1>3, StridesOne
  <2> QED  BY <1>1, <2>1, <2>2 DEF RankGroups
<1>6. ASSUME NEW g \in 1 .. N
      PROVE  \E d1, d2, d3, d4 : /\ Digits4(d1, d2, d3, d4, n1, n2, n3, n4)
                                 /\ g - 1 = Value4(d1, d2, d3, d4, n1, n2, n3)
  <2>1. g - 1 \in 0 .. n1 * n2 * n3 * n4 - 1
    <3>1. PICK x \in Nat : x = n1 * n2 * n3 * n4
      BY <1>3, <1>4
    <3>2. g - 1 \in 0 .. x - 1
      BY <1>3, <3>1
    <3> QED  BY <3>1, <3>2
  <2>2. HasValue4(g - 1, n1, n2, n3, n4)
    BY <1>3, <2>1, HasDigits4, Zenon
  <2> QED  BY <2>2 DEF HasValue4
<1>7. ASSUME NEW g \in 1 .. N, NEW k \in 1 .. n, NEW d1, NEW d2, NEW d3, NEW d4,
             Digits4(d1, d2, d3, d4, n1, n2, n3, n4), g - 1 = Value4(d1, d2, d3, d4, n1, n2, n3)
      PROVE  PlacedAt(at(g, k), a, o1, o2, o3, o4, k - 1, d1, d2, d3, d4)
  <2>1. k - 1 \in 0 .. Shape[a] - 1
    BY <1>1, <1>3
  <2>2. /\ Digits4(d1, d2, d3, d4, Shape[o1], Shape[o2], Shape[o3], Shape[o4])
        /\ g - 1 = Value4(d1, d2, d3, d4, Shape[o1], Shape[o2], Shape[o3])
    BY <1>2, <1>7
  <2> QED  BY <2>1, <2>2, GroupPlace, Zenon
<1>8. \A g \in 1 .. N : \A k \in 1 .. n : fam[g][k] = at(g, k)
  BY <1>5
<1> HIDE DEF at
<1>9. ASSUME NEW g \in 1 .. N, NEW k \in 1 .. n
      PROVE  at(g, k) \in DitRanks /\ Coord(at(g, k))[a] = k - 1
  <2>1. PICK d1, d2, d3, d4 : /\ Digits4(d1, d2, d3, d4, n1, n2, n3, n4)
                              /\ g - 1 = Value4(d1, d2, d3, d4, n1, n2, n3)
    BY <1>6
  <2>2. PlacedAt(at(g, k), a, o1, o2, o3, o4, k - 1, d1, d2, d3, d4)
    BY <1>7, <2>1
  <2> QED  BY <2>2 DEF PlacedAt
<1>10. fam \in [1 .. N -> [1 .. n -> DitRanks]]
  BY <1>5, <1>9
<1>11. ASSUME NEW r \in DitRanks
       PROVE  \E g \in 1 .. N, k \in 1 .. n : fam[g][k] = r
  <2>1. /\ Coord(r)[a] \in 0 .. n - 1
        /\ Digits4(Coord(r)[o1], Coord(r)[o2], Coord(r)[o3], Coord(r)[o4], n1, n2, n3, n4)
    <3>1. PICK c1, c2, c3, c4, c5 : /\ Coordinates(c1, c2, c3, c4, c5, T, S, P, C, D)
                                    /\ r = RankWith(c1, c2, c3, c4, c5, T, S, P, C)
      BY HasCoordinates
    <3>2. Coord(r) = <<c1, c2, c3, c4, c5>>
      BY <3>1, RankCoordinates DEF Coord
    <3>3. /\ Coord(r)[1] = c1 /\ Coord(r)[2] = c2 /\ Coord(r)[3] = c3
          /\ Coord(r)[4] = c4 /\ Coord(r)[5] = c5
      BY <3>2
    <3>4. ShapeIs(T, S, P, C, D)
      BY ShapeFacts, Zenon
    <3>5. Shape[1] = T /\ Shape[2] = S /\ Shape[3] = P /\ Shape[4] = C /\ Shape[5] = D
      BY <3>4 DEF ShapeIs
    <3>6. \A i \in 1 .. 5 : Coord(r)[i] \in 0 .. Shape[i] - 1
      BY <3>1, <3>3, <3>5 DEF Coordinates, Digits4
    <3> QED  BY <1>1, <1>2, <3>6 DEF Beside, Digits4
  <2>2. PICK d1, d2, d3, d4 :
           d1 = Coord(r)[o1] /\ d2 = Coord(r)[o2] /\ d3 = Coord(r)[o3] /\ d4 = Coord(r)[o4]
    OBVIOUS
  <2>3. PICK x : x = Value4(d1, d2, d3, d4, n1, n2, n3)
    OBVIOUS
  <2>4. IsValue4(x, d1, d2, d3, d4, n1, n2, n3, n4)
    BY <1>3, <2>1, <2>2, <2>3, ValueDigits4, Zenon
  <2>5. x \in 0 .. N - 1
    BY <1>3, <2>4 DEF IsValue4
  <2>6. PICK g \in 1 .. N, k \in 1 .. n : g - 1 = x /\ k - 1 = Coord(r)[a]
    <3>1. x + 1 \in 1 .. N /\ (x + 1) - 1 = x
      BY <1>4, <2>5
    <3>2. Coord(r)[a] + 1 \in 1 .. n /\ (Coord(r)[a] + 1) - 1 = Coord(r)[a]
      BY <1>3, <2>1
    <3> QED  BY <3>1, <3>2
  <2>7. PlacedAt(at(g, k), a, o1, o2, o3, o4, k - 1, d1, d2, d3, d4)
    BY <1>7, <2>1, <2>2, <2>3, <2>6
  <2>8. at(g, k) \in DitRanks /\ \A i \in 1 .. 5 : Coord(at(g, k))[i] = Coord(r)[i]
    BY <2>2, <2>6, <2>7 DEF PlacedAt, Beside
  <2>9. at(g, k) = r
    BY <2>8, SameCoordinates DEF Coord
  <2> QED  BY <1>8, <2>9
<1>12. ASSUME NEW g \in 1 .. N, NEW h \in 1 .. N, NEW k \in 1 .. n, NEW l \in 1 .. n
       PROVE  g = h <=> \A i \in {o1, o2, o3, o4} :
                            Coord(fam[g][k])[i] = Coord(fam[h][l])[i]
  <2>1. PICK d1, d2, d3, d4 : /\ Digits4(d1, d2, d3, d4, n1, n2, n3, n4)
                              /\ g - 1 = Value4(d1, d2, d3, d4, n1, n2, n3)
    BY <1>6
  <2>2. PICK e1, e2, e3, e4 : /\ Digits4(e1, e2, e3, e4, n1, n2, n3, n4)
                              /\ h - 1 = Value4(e1, e2, e3, e4, n1, n2, n3)
    BY <1>6
  <2>3. /\ PlacedAt(at(g, k), a, o1, o2, o3, o4, k - 1, d1, d2, d3, d4)
        /\ PlacedAt(at(h, l), a, o1, o2, o3, o4, l - 1, e1, e2, e3, e4)
    BY <1>7, <2>1, <2>2
  <2>4. ASSUME g = h PROVE d1 = e1 /\ d2 = e2 /\ d3 = e3 /\ d4 = e4
    <3>1. PlacedAt(at(h, l), a, o1, o2, o3, o4, l - 1, d1, d2, d3, d4)
      BY <1>7, <2>1, <2>4
    <3> QED  BY <2>3, <3>1 DEF PlacedAt
  <2>5. ASSUME d1 = e1, d2 = e2, d3 = e3, d4 = e4 PROVE g = h
    <3>1. g - 1 = h - 1
      BY <2>1, <2>2, <2>5
    <3> QED  BY <3>1
  <2>6. (\A i \in {o1, o2, o3, o4} : Coord(fam[g][k])[i] = Coord(fam[h][l])[i])
          <=> d1 = e1 /\ d2 = e2 /\ d3 = e3 /\ d4 = e4
    BY <1>8, <2>3 DEF PlacedAt
  <2> QED  BY <2>4, <2>5, <2>6
<1>13. ASSUME NEW g \in 1 .. N, NEW k \in 1 .. n, NEW l \in 1 .. n, k < l
       PROVE  fam[g][k] < fam[g][l]
  <2>1. PICK d1, d2, d3, d4 : /\ Digits4(d1, d2, d3, d4, n1, n2, n3, n4)
                              /\ g - 1 = Value4(d1, d2, d3, d4, n1, n2, n3)
    BY <1>6
  <2>2. /\ Digits4(d1, d2, d3, d4, Shape[o1], Shape[o2], Shape[o3], Shape[o4])
        /\ g - 1 = Value4(d1, d2, d3, d4, Shape[o1], Shape[o2], Shape[o3])
    BY <1>2, <2>1
  <2>3. k - 1 \in 0 .. Shape[a] - 1 /\ l - 1 \in 0 .. Shape[a] - 1
    BY <1>1, <1>3
  <2>4. /\ GroupSum(at(g, k), a, o1, o2, o3, o4, k - 1, d1, d2, d3, d4)
        /\ GroupSum(at(g, l), a, o1, o2, o3, o4, l - 1, d1, d2, d3, d4)
    BY <2>2, <2>3, GroupRankSum, Zenon DEF at
  <2>5. \A i \in 1 .. 5 : Strides(Shape)[i] \in Nat \ {0}
    <3>1. ShapeIs(T, S, P, C, D)
      BY ShapeFacts, Zenon
    <3>2. Bases4(T, S, P, C)
      BY DEF Degrees
    <3>3. /\ T \in Nat \ {0} /\ T * S \in Nat \ {0} /\ T * S * P \in Nat \ {0}
          /\ T * S * P * C \in Nat \ {0}
      BY <3>2, Positive
    <3> QED  BY <3>1, <3>3 DEF ShapeIs
  <2>6. PICK w \in Nat \ {0} : w = Strides(Shape)[a]
    BY <2>5 DEF Beside
  <2>7. PICK s : s = d1 * Strides(Shape)[o1] + d2 * Strides(Shape)[o2]
                     + d3 * Strides(Shape)[o3] + d4 * Strides(Shape)[o4]
    OBVIOUS
  <2>8. s \in Nat
    <3>1. d1 \in Nat /\ d2 \in Nat /\ d3 \in Nat /\ d4 \in Nat
      BY <1>3, <2>1 DEF Bases4, Digits4
    <3>2. /\ Strides(Shape)[o1] \in Nat /\ Strides(Shape)[o2] \in Nat
          /\ Strides(Shape)[o3] \in Nat /\ Strides(Shape)[o4] \in Nat
      BY <2>5 DEF Beside
    <3>3. PICK w1 \in Nat, w2 \in Nat, w3 \in Nat, w4 \in Nat :
             /\ w1 = Strides(Shape)[o1] /\ w2 = Strides(Shape)[o2]
             /\ w3 = Strides(Shape)[o3] /\ w4 = Strides(Shape)[o4]
      BY <3>2
    <3>4. d1 * w1 \in Nat /\ d2 * w2 \in Nat /\ d3 * w3 \in Nat /\ d4 * w4 \in Nat
      BY <3>1
    <3> QED  BY <2>7, <3>3, <3>4
  <2>9. at(g, k) = (k - 1) * w + s /\ at(g, l) = (l - 1) * w + s
    BY <2>4, <2>6, <2>7 DEF GroupSum
  <2>10. (k - 1) * w < (l - 1) * w
    <3>1. (l - 1) * w = (k - 1) * w + (l - k) * w
      OBVIOUS
    <3>2. PICK z \in Nat \ {0} : z = l - k
      BY <1>13
    <3>3. z * w \in Nat \ {0}
      OBVIOUS
    <3>4. PICK u \in Int, v \in Int, y \in Nat \ {0} :
             u = (l - 1) * w /\ v = (k - 1) * w /\ y = z * w
      BY <3>3
    <3> QED  BY <3>1, <3>2, <3>4
  <2>11. PICK u \in Int, v \in Int : u = (k - 1) * w /\ v = (l - 1) * w
    OBVIOUS
  <2>12. at(g, k) < at(g, l)
    BY <2>8, <2>9, <2>10, <2>11
  <2> QED  BY <1>8, <2>12
<1>14. Places(fam, N, n, a)
  BY <1>8, <1>9 DEF Places
<1>15. Family(fam, N, n, {o1, o2, o3, o4})
  BY <1>3, <1>4, <1>10, <1>11, <1>12, <1>13 DEF Family
<1> QED  BY <1>1, <1>14, <1>15

----------------------------------------------------------------------------
(* The replicas.                                                            *)

\* How many ranks a replica has.
LEMMA ReplicaSize ==
    ASSUME NEW T, NEW S, NEW P, NEW C, NEW D, Degrees(T, S, P, C, D)
    PROVE  \E Q \in Nat \ {0} : /\ Q = T * S * P * C /\ D \in Nat \ {0}
                                /\ DitSize = D * Q /\ DitSize \div D = Q /\ setup.dp = D
<1>1. Bases4(T, S, P, C) /\ D \in Nat \ {0} /\ setup.dp = D
  BY DEF Degrees
<1>2. PICK Q \in Nat \ {0} : Q = T * S * P * C
  BY <1>1, Positive
<1>3. DitSize = D * Q
  <2>1. ShapeIs(T, S, P, C, D)
    BY ShapeFacts, Zenon
  <2>2. DitSize = T * S * P * C * D
    BY <2>1 DEF ShapeIs
  <2> QED  BY <1>1, <1>2, <2>2
<1>4. (D * Q + 0) \div Q = D /\ (Q * D + 0) \div D = Q
  BY <1>1, DivModUnique, 0 \in 0 .. Q - 1, 0 \in 0 .. D - 1
<1>5. DitSize = Q * D + 0
  BY <1>1, <1>3
<1> QED  BY <1>1, <1>2, <1>3, <1>4, <1>5

\* The replica of a rank, and how many ranks of it come before.
LEMMA ReplicaOf ==
    ASSUME NEW T, NEW S, NEW P, NEW C, NEW D, Degrees(T, S, P, C, D),
           NEW Q, Q = T * S * P * C
    PROVE  /\ \A r \in DitRanks : /\ Coord(r)[5] = r \div Q /\ r \div Q \in 0 .. D - 1
                                  /\ \E k \in 0 .. Q - 1 : r = (r \div Q) * Q + k
           /\ \A e \in 0 .. D - 1, k \in 0 .. Q - 1 :
                 e * Q + k \in DitRanks /\ (e * Q + k) \div Q = e
<1>1. Q \in Nat \ {0} /\ D \in Nat \ {0} /\ DitSize = D * Q
  BY ReplicaSize
<1>2. ASSUME NEW e \in 0 .. D - 1, NEW k \in 0 .. Q - 1
      PROVE  e * Q + k \in DitRanks /\ (e * Q + k) \div Q = e
  <2>1. k + e * Q \in 0 .. Q * D - 1
    BY <1>1, Compose
  <2>2. e \in Nat /\ k \in Nat
    BY <1>1
  <2>3. PICK x \in Int, y \in Int : x = e * Q /\ y = Q * D
    BY <1>1
  <2>4. y = DitSize
    BY <1>1, <2>3
  <2>5. e * Q + k \in DitRanks
    BY <2>1, <2>2, <2>3, <2>4 DEF DitRanks
  <2>6. (e * Q + k) \div Q = e
    BY <1>1, <2>2, DivModUnique
  <2> QED  BY <2>5, <2>6
<1>3. ASSUME NEW r \in DitRanks
      PROVE  /\ Coord(r)[5] = r \div Q /\ r \div Q \in 0 .. D - 1
             /\ \E k \in 0 .. Q - 1 : r = (r \div Q) * Q + k
  <2>1. PICK a, b, c, d, e : /\ Coordinates(a, b, c, d, e, T, S, P, C, D)
                             /\ r = RankWith(a, b, c, d, e, T, S, P, C)
    BY HasCoordinates
  <2>2. Coord(r) = <<a, b, c, d, e>>
    BY <2>1, RankCoordinates DEF Coord
  <2>3. Coord(r)[5] = e
    BY <2>2
  <2>4. PICK v : v = Value4(a, b, c, d, T, S, P)
    OBVIOUS
  <2>5. IsValue4(v, a, b, c, d, T, S, P, C)
    BY <2>1, <2>4, ValueDigits4, Zenon DEF Coordinates, Degrees
  <2>6. v \in 0 .. Q - 1
    BY <2>5 DEF IsValue4
  <2>7. e \in 0 .. D - 1 /\ r = v + e * Q
    BY <2>1, <2>4 DEF Coordinates, RankWith
  <2>8. (e * Q + v) \div Q = e
    BY <1>2, <2>6, <2>7
  <2>9. r = e * Q + v
    BY <1>1, <2>6, <2>7
  <2> QED  BY <2>3, <2>6, <2>7, <2>8, <2>9
<1> QED  BY <1>2, <1>3

\* The replicas are runs of neighbours.
LEMMA ReplicaGroups ==
    ASSUME NEW T, NEW S, NEW P, NEW C, NEW D, Degrees(T, S, P, C, D),
           NEW Q, Q = T * S * P * C
    PROVE  RankGroups("replica") = [g \in 1 .. D |-> [k \in 1 .. Q |-> (g - 1) * Q + (k - 1)]]
<1>1. /\ Q \in Nat \ {0} /\ D \in Nat \ {0} /\ DitSize = D * Q
      /\ DitSize \div Q = D /\ Bases4(T, S, P, C)
  <2>1. Q \in Nat \ {0} /\ D \in Nat \ {0} /\ DitSize = D * Q
    BY ReplicaSize
  <2>2. (D * Q + 0) \div Q = D
    BY <2>1, DivModUnique, 0 \in 0 .. Q - 1
  <2>3. D * Q + 0 = D * Q
    BY <2>1
  <2> QED  BY <2>1, <2>2, <2>3 DEF Degrees
<1>2. /\ Shape[1] = T /\ Shape[2] = S /\ Shape[3] = P /\ Shape[4] = C /\ Shape[5] = D
      /\ Strides(Shape)[1] = 1 /\ Strides(Shape)[2] = T /\ Strides(Shape)[3] = T * S
      /\ Strides(Shape)[4] = T * S * P /\ Strides(Shape)[5] = Q
  <2>1. ShapeIs(T, S, P, C, D)
    BY ShapeFacts, Zenon
  <2> QED  BY <2>1 DEF ShapeIs
<1>3. Masked(Shape, <<1, 2, 3, 4>>) = <<T, S, P, C>> /\ Masked(Shape, <<5>>) = <<D>>
  <2>1. Masked(Shape, <<1, 2, 3, 4>>) = <<Shape[1], Shape[2], Shape[3], Shape[4]>>
    BY ZenonT(40), MaskedFour
  <2>2. Masked(Shape, <<5>>) = <<Shape[5]>>
    BY MaskedOne, Zenon
  <2> QED  BY <1>2, <2>1, <2>2, Zenon
<1>4. /\ Masked(Strides(Shape), <<1, 2, 3, 4>>) = <<1, T, T * S, T * S * P>>
      /\ Masked(Strides(Shape), <<5>>) = <<Q>>
  <2>1. Masked(Strides(Shape), <<1, 2, 3, 4>>) =
            <<Strides(Shape)[1], Strides(Shape)[2], Strides(Shape)[3], Strides(Shape)[4]>>
    BY ZenonT(40), MaskedFour
  <2>2. Masked(Strides(Shape), <<5>>) = <<Strides(Shape)[5]>>
    BY MaskedOne, Zenon
  <2> QED  BY <1>2, <2>1, <2>2, Zenon
<1>5. Product(<<T, S, P, C>>) = Q
  BY <1>1, StridesFour DEF Bases4
<1>6. ASSUME NEW g \in 1 .. D, NEW k \in 1 .. Q
      PROVE  GroupRank(g - 1, k - 1, <<1, 2, 3, 4>>, <<5>>) = (g - 1) * Q + (k - 1)
  <2>1. PICK x, e : x = k - 1 /\ e = g - 1
    OBVIOUS
  <2>2. x \in 0 .. Q - 1 /\ e \in 0 .. D - 1
    BY <1>1, <2>1
  <2>3. x \in 0 .. T * S * P * C - 1
    BY <2>2
  <2>4. HasValue4(x, T, S, P, C)
    BY <1>1, <2>3, HasDigits4, Zenon
  <2>5. PICK a, b, c, d : Digits4(a, b, c, d, T, S, P, C) /\ x = Value4(a, b, c, d, T, S, P)
    BY <2>4 DEF HasValue4
  <2>6. Decompose(x, <<T, S, P, C>>) = <<a, b, c, d>>
    <3>1. Bases4(T, S, P, C) /\ Digits4(a, b, c, d, T, S, P, C) /\ x = Value4(a, b, c, d, T, S, P)
      BY <1>1, <2>5
    <3> QED  BY <3>1, DecomposeFour
  <2>7. Decompose(e, <<D>>) = <<e>>
    BY <1>1, <2>2, DecomposeOne
  <2>8. /\ a \in Nat /\ b \in Nat /\ c \in Nat /\ d \in Nat
        /\ 1 \in Nat /\ T \in Nat /\ T * S \in Nat /\ T * S * P \in Nat
    BY <1>1, <2>5, Positive DEF Digits4, Bases4
  <2>9. InnerFourIs(a, b, c, d, 1, T, T * S, T * S * P)
    BY <2>8, InnerFour, Zenon
  <2>10. InnerProduct(<<a, b, c, d>>, <<1, T, T * S, T * S * P>>) = x
    BY <2>5, <2>9 DEF InnerFourIs, Value4
  <2>11. InnerProduct(<<e>>, <<Q>>) = e * Q
    BY <1>1, <2>2, InnerOne
  <2>12. GroupRank(e, x, <<1, 2, 3, 4>>, <<5>>) = x + e * Q
    BY <1>3, <1>4, <2>6, <2>7, <2>10, <2>11, Zenon DEF GroupRank
  <2>13. x + e * Q = e * Q + x
    BY <1>1, <2>2
  <2> QED  BY <2>1, <2>12, <2>13
<1>7. Axes["replica"] = <<1, 2, 3, 4>> /\ OtherAxes["replica"] = <<5>>
  BY DEF Axes, OtherAxes
<1>8. RankGroups("replica") =
          [g \in 1 .. D |-> [k \in 1 .. Q |-> GroupRank(g - 1, k - 1, <<1, 2, 3, 4>>, <<5>>)]]
  BY <1>1, <1>3, <1>5, <1>7 DEF RankGroups
<1> QED  BY <1>6, <1>8

\* The replicas are the ranks that have the data-parallel coordinate in common.
LEMMA ReplicaFamily ==
    ASSUME NEW T, NEW S, NEW P, NEW C, NEW D, Degrees(T, S, P, C, D)
    PROVE  \E N, n : Family(RankGroups("replica"), N, n, {5})
<1>1. PICK Q \in Nat \ {0} : Q = T * S * P * C /\ D \in Nat \ {0} /\ DitSize = D * Q
  BY ReplicaSize
<1> DEFINE fam == RankGroups("replica")
<1>2. fam = [g \in 1 .. D |-> [k \in 1 .. Q |-> (g - 1) * Q + (k - 1)]]
  BY <1>1, ReplicaGroups
<1>3. \A r \in DitRanks : /\ Coord(r)[5] = r \div Q /\ r \div Q \in 0 .. D - 1
                          /\ \E k \in 0 .. Q - 1 : r = (r \div Q) * Q + k
  BY <1>1, ReplicaOf
<1>4. \A e \in 0 .. D - 1, k \in 0 .. Q - 1 : e * Q + k \in DitRanks /\ (e * Q + k) \div Q = e
  BY <1>1, ReplicaOf
<1>5. \A g \in 1 .. D : \A k \in 1 .. Q : fam[g][k] = (g - 1) * Q + (k - 1)
  <2> HIDE DEF fam
  <2> TAKE g \in 1 .. D
  <2>1. fam[g] = [k \in 1 .. Q |-> (g - 1) * Q + (k - 1)]
    BY <1>2, Zenon
  <2> QED  BY <2>1, Zenon
<1>6. ASSUME NEW g \in 1 .. D, NEW k \in 1 .. Q
      PROVE  fam[g][k] \in DitRanks /\ Coord(fam[g][k])[5] = g - 1
  <2>1. g - 1 \in 0 .. D - 1 /\ k - 1 \in 0 .. Q - 1
    BY <1>1
  <2>2. (g - 1) * Q + (k - 1) \in DitRanks /\ ((g - 1) * Q + (k - 1)) \div Q = g - 1
    BY <1>4, <2>1
  <2> QED  BY <1>3, <1>5, <2>2
<1>7. fam \in [1 .. D -> [1 .. Q -> DitRanks]]
  <2>1. \A g \in 1 .. D : fam[g] \in [1 .. Q -> DitRanks]
    <3> TAKE g \in 1 .. D
    <3>1. fam[g] = [k \in 1 .. Q |-> fam[g][k]]
      BY <1>2
    <3> QED  BY <1>6, <3>1
  <2>2. fam = [g \in 1 .. D |-> fam[g]]
    BY <1>2
  <2> QED  BY <2>1, <2>2
<1>8. ASSUME NEW r \in DitRanks
      PROVE  \E g \in 1 .. D, k \in 1 .. Q : fam[g][k] = r
  <2>1. PICK k \in 0 .. Q - 1 : r = (r \div Q) * Q + k
    BY <1>3
  <2>2. PICK e \in 0 .. D - 1 : e = r \div Q
    BY <1>3
  <2>3. e + 1 \in 1 .. D /\ (e + 1) - 1 = e /\ k + 1 \in 1 .. Q /\ (k + 1) - 1 = k
    BY <1>1
  <2>4. fam[e + 1][k + 1] = e * Q + k
    BY <1>5, <2>3
  <2> QED  BY <2>1, <2>2, <2>3, <2>4
<1>9. ASSUME NEW g \in 1 .. D, NEW h \in 1 .. D, NEW k \in 1 .. Q, NEW l \in 1 .. Q
      PROVE  g = h <=> \A i \in {5} : Coord(fam[g][k])[i] = Coord(fam[h][l])[i]
  <2>1. Coord(fam[g][k])[5] = g - 1 /\ Coord(fam[h][l])[5] = h - 1
    BY <1>6
  <2>2. g = h <=> g - 1 = h - 1
    BY <1>1
  <2> QED  BY <2>1, <2>2
<1>10. ASSUME NEW g \in 1 .. D, NEW k \in 1 .. Q, NEW l \in 1 .. Q, k < l
       PROVE  fam[g][k] < fam[g][l]
  <2>1. PICK x \in Int : x = (g - 1) * Q
    BY <1>1
  <2> QED  BY <1>1, <1>5, <1>10, <2>1
<1>11. Family(fam, D, Q, {5})
  BY <1>1, <1>7, <1>8, <1>9, <1>10, Zenon DEF Family
<1> QED  BY <1>11

----------------------------------------------------------------------------
(* The group of a rank.                                                     *)

\* In a family, a rank is in one group; its members are the ranks with the same
\* other coordinates, in their order.
GroupIs(G, fam, n, others, r) ==
    /\ G \in [1 .. n -> DitRanks] /\ DOMAIN G = 1 .. n /\ Len(G) = n
    /\ r \in ToSet(G)
    /\ ToSet(G) = {q \in DitRanks : \A i \in others : Coord(q)[i] = Coord(r)[i]}

\* A rank's group is the ranks with its other coordinates.
LEMMA FamilyGroup ==
    ASSUME NEW fam, NEW N, NEW n, NEW others, Family(fam, N, n, others), NEW r \in DitRanks
    PROVE  LET G == CHOOSE g \in ToSet(fam) : r \in ToSet(g)
           IN  GroupIs(G, fam, n, others, r) /\ \E g \in 1 .. N : G = fam[g]
<1> USE DEF ToSet
<1>1. /\ N \in Nat /\ n \in Nat \ {0}
      /\ fam \in [1 .. N -> [1 .. n -> DitRanks]] /\ DOMAIN fam = 1 .. N
  BY DEF Family
<1>2. PICK g0 \in 1 .. N, k0 \in 1 .. n : fam[g0][k0] = r
  BY DEF Family
<1>3. fam[g0] \in ToSet(fam) /\ r \in ToSet(fam[g0])
  <2>1. DOMAIN fam[g0] = 1 .. n
    BY <1>1
  <2> QED  BY <1>1, <1>2, <2>1
<1> DEFINE G == CHOOSE g \in ToSet(fam) : r \in ToSet(g)
<1>4. G \in ToSet(fam) /\ r \in ToSet(G)
  BY <1>3
<1> HIDE DEF G
<1>5. PICK g \in 1 .. N : G = fam[g]
  BY <1>1, <1>4
<1>6. G \in [1 .. n -> DitRanks] /\ DOMAIN G = 1 .. n
  BY <1>1, <1>5
<1>7. Len(G) = n
  <2>1. G \in Seq(DitRanks)
    BY <1>1, <1>6
  <2> QED  BY <1>1, <1>6, <2>1, LenProperties
<1>8. PICK k \in 1 .. n : G[k] = r
  BY <1>4, <1>6
<1>9. \A h \in 1 .. N, l \in 1 .. n :
         g = h <=> \A i \in others : Coord(fam[g][k])[i] = Coord(fam[h][l])[i]
  <2>1. \A f, h \in 1 .. N : \A m, l \in 1 .. n :
           f = h <=> \A i \in others : Coord(fam[f][m])[i] = Coord(fam[h][l])[i]
    BY Zenon DEF Family
  <2>2. g \in 1 .. N /\ k \in 1 .. n
    OBVIOUS
  <2> QED  BY <2>1, <2>2
<1>10. ASSUME NEW q \in DitRanks
       PROVE  q \in ToSet(G) <=> \A i \in others : Coord(q)[i] = Coord(r)[i]
  <2>1. PICK h \in 1 .. N, l \in 1 .. n : fam[h][l] = q
    BY DEF Family
  <2>2. g = h <=> \A i \in others : Coord(r)[i] = Coord(q)[i]
    BY <1>5, <1>8, <1>9, <2>1
  <2>3. ASSUME g = h PROVE q \in ToSet(G)
    BY <1>5, <1>6, <2>1, <2>3
  <2>4. ASSUME q \in ToSet(G) PROVE g = h
    <3>1. PICK m \in 1 .. n : G[m] = q
      BY <1>6, <2>4
    <3>2. \A i \in others : Coord(fam[g][k])[i] = Coord(fam[g][m])[i]
      BY <1>9
    <3>3. \A i \in others : Coord(r)[i] = Coord(q)[i]
      BY <1>5, <1>8, <3>1, <3>2
    <3> QED  BY <2>2, <3>3
  <2>5. (\A i \in others : Coord(r)[i] = Coord(q)[i]) <=> \A i \in others : Coord(q)[i] = Coord(r)[i]
    OBVIOUS
  <2> QED  BY <2>2, <2>3, <2>4, <2>5
<1>11. ToSet(G) \subseteq DitRanks
  BY <1>6
<1>12. ToSet(G) = {q \in DitRanks : \A i \in others : Coord(q)[i] = Coord(r)[i]}
  BY <1>10, <1>11
<1> QED  BY <1>4, <1>5, <1>6, <1>7, <1>12 DEF G, GroupIs

\* The axes and the others of each.
LEMMA AxesOf ==
    /\ DOMAIN Axes = {"tp", "sp", "pp", "cfg", "dp", "replica"}
    /\ Axes["tp"] = <<1>> /\ OtherAxes["tp"] = <<2, 3, 4, 5>>
    /\ Axes["sp"] = <<2>> /\ OtherAxes["sp"] = <<1, 3, 4, 5>>
    /\ Axes["pp"] = <<3>> /\ OtherAxes["pp"] = <<1, 2, 4, 5>>
    /\ Axes["cfg"] = <<4>> /\ OtherAxes["cfg"] = <<1, 2, 3, 5>>
    /\ Axes["dp"] = <<5>> /\ OtherAxes["dp"] = <<1, 2, 3, 4>>
    /\ Axes["replica"] = <<1, 2, 3, 4>> /\ OtherAxes["replica"] = <<5>>
<1> QED  BY DEF Axes, OtherAxes

\* The entries of a sequence of one.
LEMMA SetOfOne ==
    ASSUME NEW a
    PROVE  ToSet(<<a>>) = {a}
<1>1. DOMAIN <<a>> = 1 .. 1 /\ 1 .. 1 = {1}
  OBVIOUS
<1> QED  BY <1>1 DEF ToSet

\* Every axis has its family of groups.
LEMMA Families ==
    ASSUME NEW T, NEW S, NEW P, NEW C, NEW D, Degrees(T, S, P, C, D), NEW axis \in DOMAIN Axes
    PROVE  \E N, n : Family(RankGroups(axis), N, n, ToSet(OtherAxes[axis]))
<1>1. ASSUME NEW a, NEW o1, NEW o2, NEW o3, NEW o4, Beside(a, o1, o2, o3, o4),
             Axes[axis] = <<a>>, OtherAxes[axis] = <<o1, o2, o3, o4>>
      PROVE  \E N, n : Family(RankGroups(axis), N, n, ToSet(OtherAxes[axis]))
  <2>1. \E N : Family(RankGroups(axis), N, Shape[a], {o1, o2, o3, o4})
    BY <1>1, AxisFamily
  <2>2. ToSet(OtherAxes[axis]) = {o1, o2, o3, o4}
    <3>1. ToSet(<<o1, o2, o3, o4>>) = {o1, o2, o3, o4}
      <4>1. DOMAIN <<o1, o2, o3, o4>> = 1 .. 4 /\ 1 .. 4 = {1, 2, 3, 4}
        OBVIOUS
      <4> QED  BY <4>1 DEF ToSet
    <3> QED  BY <1>1, <3>1, Zenon
  <2> QED  BY <2>1, <2>2
<1>2. /\ Beside(1, 2, 3, 4, 5) /\ Beside(2, 1, 3, 4, 5) /\ Beside(3, 1, 2, 4, 5)
      /\ Beside(4, 1, 2, 3, 5) /\ Beside(5, 1, 2, 3, 4)
  BY DEF Beside
<1>3. CASE axis = "tp"
  BY <1>1, <1>2, <1>3, AxesOf, Zenon
<1>4. CASE axis = "sp"
  BY <1>1, <1>2, <1>4, AxesOf, Zenon
<1>5. CASE axis = "pp"
  BY ZenonT(40), <1>1, <1>2, <1>5, AxesOf
<1>6. CASE axis = "cfg"
  BY ZenonT(40), <1>1, <1>2, <1>6, AxesOf
<1>7. CASE axis = "dp"
  BY ZenonT(40), <1>1, <1>2, <1>7, AxesOf
<1>8. CASE axis = "replica"
  <2>1. ToSet(OtherAxes[axis]) = {5}
    BY <1>8, AxesOf, SetOfOne
  <2> QED  BY <1>8, <2>1, ReplicaFamily
<1> QED  BY <1>3, <1>4, <1>5, <1>6, <1>7, <1>8, AxesOf

----------------------------------------------------------------------------
(* The groups do not change.                                                *)

Fixed ==
    /\ setup \in Setups
    /\ groups = [axis \in DOMAIN Axes |-> RankGroups(axis)]

\* The groups depend on the configuration only.
LEMMA SameGroups ==
    ASSUME setup' = setup
    PROVE  \A axis \in DOMAIN Axes : RankGroups(axis)' = RankGroups(axis)
<1> QED  BY DEF RankGroups, GroupRank, DitSize, Shape

\* No step changes the configuration or the groups.
LEMMA FixedStep ==
    ASSUME [Next]_vars
    PROVE  UNCHANGED <<setup, groups>>
<1>1. CASE UNCHANGED vars
  BY <1>1 DEF vars
<1>2. ASSUME NEW r \in DitRanks, Split(r) PROVE UNCHANGED <<setup, groups>>
  BY <1>2 DEF Split
<1>3. ASSUME NEW r \in DitRanks, Denoise(r) PROVE UNCHANGED <<setup, groups>>
  BY <1>3 DEF Denoise
<1>4. CASE Announce
  BY <1>4 DEF Announce
<1>5. CASE Collect
  BY <1>5 DEF Collect
<1>6. CASE Broadcast
  BY <1>6 DEF Broadcast
<1>7. CASE Transfer
  BY <1>7 DEF Transfer
<1>8. CASE VaeBroadcast
  BY <1>8 DEF VaeBroadcast
<1>9. CASE DriverReturns
  BY <1>9 DEF DriverReturns
<1>10. CASE GatherOutputs
  BY <1>10 DEF GatherOutputs
<1>11. CASE Save
  BY <1>11 DEF Save
<1>12. CASE Stop
  BY <1>12 DEF Stop, vars
<1> QED  BY <1>1, <1>2, <1>3, <1>4, <1>5, <1>6, <1>7, <1>8, <1>9, <1>10, <1>11, <1>12
         DEF Next, Step

\* The groups are those of the configuration all along.
LEMMA GroupsFixed == Spec => []Fixed
<1>1. Init => Fixed
  BY DEF Init, Fixed
<1>2. Fixed /\ [Next]_vars => Fixed'
  <2> SUFFICES ASSUME Fixed, [Next]_vars PROVE Fixed'
    OBVIOUS
  <2>1. UNCHANGED <<setup, groups>>
    BY FixedStep
  <2>2. \A axis \in DOMAIN Axes : RankGroups(axis)' = RankGroups(axis)
    BY <2>1, SameGroups
  <2>3. groups' = [axis \in DOMAIN Axes |-> RankGroups(axis)']
    BY <2>1, <2>2 DEF Fixed
  <2> QED  BY <2>1, <2>3 DEF Fixed, Axes
<1> QED  BY <1>1, <1>2, PTL DEF Spec

----------------------------------------------------------------------------
(* The groups are orthogonal.                                               *)

\* The degrees of the configuration.
LEMMA SetupDegrees ==
    ASSUME Fixed
    PROVE  \E T, S, P, C, D : Degrees(T, S, P, C, D)
<1>1. setup \in [tp : Nat \ {0}, sp : Nat \ {0}, pp : Nat \ {0}, cfg : Nat \ {0},
                 dp : Nat \ {0}, vae : Nat, parallel : BOOLEAN,
                 caller : {"legacy", "native", "ray"}, prompts : Nat \ {0}, batch : Nat]
  BY SetupsOK DEF Fixed
<1>2. Degrees(setup.tp, setup.sp, setup.pp, setup.cfg, setup.dp)
  BY <1>1 DEF Degrees, Bases4
<1> QED  BY <1>2

\* Every rank has a group on every axis.
LEMMA HasGroup ==
    ASSUME Fixed, NEW axis \in DOMAIN Axes, NEW r \in DitRanks
    PROVE  \E n : GroupIs(GroupOf(r, axis), groups[axis], n, ToSet(OtherAxes[axis]), r)
<1>1. PICK T, S, P, C, D : Degrees(T, S, P, C, D)
  BY SetupDegrees
<1>2. groups[axis] = RankGroups(axis)
  BY DEF Fixed
<1>3. PICK N, n : Family(groups[axis], N, n, ToSet(OtherAxes[axis]))
  BY <1>1, <1>2, Families
<1> QED  BY <1>3, FamilyGroup DEF GroupOf

\* In every configuration the groups are orthogonal.
LEMMA Orthogonal ==
    ASSUME Fixed
    PROVE  GroupsOrthogonal
<1>1. PICK T, S, P, C, D : Degrees(T, S, P, C, D)
  BY SetupDegrees
<1>2. \A axis \in DOMAIN Axes : groups[axis] = RankGroups(axis)
  BY DEF Fixed
<1>3. ASSUME NEW axis \in DOMAIN Axes, NEW r \in DitRanks
      PROVE  ToSet(GroupOf(r, axis)) =
                 {q \in DitRanks : \A i \in ToSet(OtherAxes[axis]) : Coord(q)[i] = Coord(r)[i]}
  BY HasGroup DEF GroupIs
<1>4. ASSUME NEW axis \in DOMAIN Axes, NEW g \in ToSet(groups[axis]), NEW k \in 1 .. Len(g) - 1
      PROVE  g[k] < g[k + 1]
  <2>1. PICK N, n : Family(groups[axis], N, n, ToSet(OtherAxes[axis]))
    BY <1>1, <1>2, Families
  <2>2. /\ n \in Nat \ {0} /\ groups[axis] \in [1 .. N -> [1 .. n -> DitRanks]]
        /\ \A h \in 1 .. N : \A i, j \in 1 .. n :
              i < j => groups[axis][h][i] < groups[axis][h][j]
    BY <2>1, Zenon DEF Family
  <2>3. PICK h \in 1 .. N : g = groups[axis][h]
    BY <2>2 DEF ToSet
  <2>4. g \in [1 .. n -> DitRanks]
    BY <2>2, <2>3
  <2>5. Len(g) = n
    <3>1. g \in Seq(DitRanks) /\ DOMAIN g = 1 .. n
      BY <2>2, <2>4
    <3> QED  BY <2>2, <3>1, LenProperties
  <2>6. k \in 1 .. n /\ k + 1 \in 1 .. n /\ k < k + 1
    BY <2>2, <2>5
  <2> QED  BY <2>2, <2>3, <2>6
<1>5. ASSUME NEW r \in DitRanks, NEW q \in DitRanks
      PROVE  q \in ToSet(GroupOf(r, "replica")) <=>
                 q \div (DitSize \div setup.dp) = r \div (DitSize \div setup.dp)
  <2>1. PICK Q \in Nat \ {0} : Q = T * S * P * C /\ DitSize \div D = Q /\ setup.dp = D
    BY <1>1, ReplicaSize
  <2>2. Coord(r)[5] = r \div Q /\ Coord(q)[5] = q \div Q
    BY <1>1, <2>1, ReplicaOf
  <2>3. ToSet(OtherAxes["replica"]) = {5}
    <3>1. ToSet(<<5>>) = {5}
      BY SetOfOne, Zenon
    <3> QED  BY <3>1, AxesOf, Zenon
  <2>4. "replica" \in DOMAIN Axes
    BY AxesOf
  <2>5. q \in ToSet(GroupOf(r, "replica")) <=> Coord(q)[5] = Coord(r)[5]
    BY <1>3, <2>3, <2>4
  <2> QED  BY <2>1, <2>2, <2>5
<1> DEFINE coordinates == [r \in DitRanks |-> Decompose(r, Shape)]
<1>6. \A r \in DitRanks : coordinates[r] = Coord(r)
  BY DEF Coord
<1> HIDE DEF coordinates
<1>7. \A axis \in DOMAIN Axes : \A r \in DitRanks :
         ToSet(GroupOf(r, axis)) =
             {q \in DitRanks : \A i \in ToSet(OtherAxes[axis]) :
                                   coordinates[q][i] = coordinates[r][i]}
  BY <1>3, <1>6
<1> USE DEF coordinates
<1> QED  BY <1>4, <1>5, <1>7, Zenon DEF GroupsOrthogonal

\* The groups of an axis are the ranks that differ in that axis only, in their
\* order, and a replica is a run of neighbours, whatever the degrees
\* (generate_masked_orthogonal_rank_groups).
THEOREM GroupsAreOrthogonal == Spec => []GroupsOrthogonal
<1>1. Fixed => GroupsOrthogonal
  BY Orthogonal
<1> QED  BY <1>1, GroupsFixed, PTL

----------------------------------------------------------------------------
(* Counting in sequences.                                                   *)

\* The places of a prompt in a sequence.
PlacesOf(s, e) == {i \in DOMAIN s : s[i] = e}

\* A sequence has an entry some number of times.
LEMMA CountFinite ==
    ASSUME NEW s \in Seq(Nat), NEW e
    PROVE  /\ IsFiniteSet(PlacesOf(s, e)) /\ Count(s, e) = Cardinality(PlacesOf(s, e))
           /\ Count(s, e) \in Nat
<1>1. PlacesOf(s, e) \subseteq 1 .. Len(s) /\ Len(s) \in Nat
  BY LenProperties DEF PlacesOf
<1>2. IsFiniteSet(1 .. Len(s))
  BY <1>1, FS_Interval
<1>3. IsFiniteSet(PlacesOf(s, e))
  BY <1>1, <1>2, FS_Subset
<1> QED  BY <1>3, FS_CardinalityType DEF Count, PlacesOf

\* The empty sequence has no entry.
LEMMA CountNone ==
    ASSUME NEW e
    PROVE  Count(<<>>, e) = 0
<1>1. {i \in DOMAIN <<>> : <<>>[i] = e} = {}
  OBVIOUS
<1> QED  BY <1>1, FS_EmptySet DEF Count

\* Counts add up when sequences are joined.
LEMMA CountConcat ==
    ASSUME NEW s \in Seq(Nat), NEW t \in Seq(Nat), NEW e
    PROVE  Count(s \o t, e) = Count(s, e) + Count(t, e)
<1>1. PICK m \in Nat, n \in Nat : m = Len(s) /\ n = Len(t)
  BY LenProperties
<1>2. /\ s \o t \in Seq(Nat) /\ Len(s \o t) = m + n /\ DOMAIN (s \o t) = 1 .. m + n
      /\ DOMAIN s = 1 .. m /\ DOMAIN t = 1 .. n
  BY <1>1, ConcatProperties, LenProperties
<1>3. \A i \in 1 .. m + n : (s \o t)[i] = IF i <= m THEN s[i] ELSE t[i - m]
  BY <1>1, ConcatProperties
<1> DEFINE A == PlacesOf(s, e)
           B == {i \in m + 1 .. m + n : t[i - m] = e}
           f == [i \in PlacesOf(t, e) |-> i + m]
<1>4. PlacesOf(s \o t, e) = A \union B
  BY <1>2, <1>3 DEF PlacesOf
<1>5. A \intersect B = {}
  BY <1>2 DEF PlacesOf
<1>6. IsFiniteSet(A) /\ IsFiniteSet(PlacesOf(t, e))
  BY CountFinite
<1>7. f \in Bijection(PlacesOf(t, e), B)
  <2>1. \A i \in PlacesOf(t, e) : i \in 1 .. n /\ t[i] = e
    BY <1>2 DEF PlacesOf
  <2>2. f \in [PlacesOf(t, e) -> B]
    <3>1. \A i \in PlacesOf(t, e) : i + m \in m + 1 .. m + n /\ (i + m) - m = i
      BY <2>1
    <3> QED  BY <2>1, <3>1
  <2>3. \A i, j \in PlacesOf(t, e) : f[i] = f[j] => i = j
    BY <2>1
  <2>4. ASSUME NEW j \in B PROVE \E i \in PlacesOf(t, e) : f[i] = j
    <3>1. j - m \in 1 .. n /\ t[j - m] = e /\ (j - m) + m = j
      OBVIOUS
    <3>2. j - m \in PlacesOf(t, e)
      BY <1>2, <3>1 DEF PlacesOf
    <3> QED  BY <3>1, <3>2
  <2> QED  BY <2>2, <2>3, <2>4 DEF Bijection, Injection, Surjection, IsInjective
<1> HIDE DEF A, B, f
<1>8. IsFiniteSet(B) /\ Cardinality(B) = Cardinality(PlacesOf(t, e))
  BY <1>6, <1>7, FS_Bijection DEF ExistsBijection
<1>9. Cardinality(A \union B) = Cardinality(A) + Cardinality(B) - Cardinality(A \intersect B)
  BY <1>6, <1>8, FS_Union
<1>10. Cardinality(A \intersect B) = 0 /\ Cardinality(A) \in Nat /\ Cardinality(B) \in Nat
  BY <1>5, <1>6, <1>8, FS_EmptySet, FS_CardinalityType
<1>11. Count(s \o t, e) = Cardinality(A \union B)
  BY <1>2, <1>4, CountFinite
<1>12. Count(s, e) = Cardinality(A) /\ Count(t, e) = Cardinality(PlacesOf(t, e))
  BY CountFinite DEF A
<1> QED  BY <1>8, <1>9, <1>10, <1>11, <1>12

\* Nothing is twice in a sequence.
Distinct(s) == \A i, j \in DOMAIN s : s[i] = s[j] => i = j

\* A sequence without repetition has an entry once or not at all.
LEMMA CountDistinct ==
    ASSUME NEW s \in Seq(Nat), Distinct(s), NEW e
    PROVE  Count(s, e) = IF e \in ToSet(s) THEN 1 ELSE 0
<1>1. CASE e \in ToSet(s)
  <2>1. PICK i \in DOMAIN s : s[i] = e
    BY <1>1 DEF ToSet
  <2>2. PlacesOf(s, e) = {i}
    BY <2>1 DEF PlacesOf, Distinct
  <2> QED  BY <1>1, <2>2, CountFinite, FS_Singleton
<1>2. CASE e \notin ToSet(s)
  <2>1. PlacesOf(s, e) = {}
    BY <1>2 DEF PlacesOf, ToSet
  <2> QED  BY <1>2, <2>1, CountFinite, FS_EmptySet
<1> QED  BY <1>1, <1>2

----------------------------------------------------------------------------
(* FlattenSeq.                                                              *)

\* f[i] is the first i sequences joined, s all of them.
JoinedBy(f, n, ss, s) ==
    /\ f \in [1 .. n -> Seq(Nat)]
    /\ f[1] = ss[1]
    /\ \A i \in 2 .. n : f[i] = f[i - 1] \o ss[i]
    /\ s = f[n]

\* FlattenSeq joins the sequences one after the other.
LEMMA FlattenJoins ==
    ASSUME NEW n \in Nat \ {0}, NEW ss \in [1 .. n -> Seq(Nat)]
    PROVE  \E f : JoinedBy(f, n, ss, FlattenSeq(ss))
<1>1. AllSequences(Nat, n, ss) /\ n >= 1
  BY DEF AllSequences
<1>2. \E f : Joins(f, n, ss)
  BY <1>1, JoinExists
<1> DEFINE f == CHOOSE f : Joins(f, n, ss)
<1>3. Joins(f, n, ss)
  BY <1>2
<1>4. ss \in Seq(Seq(Nat)) /\ DOMAIN ss = 1 .. n
  OBVIOUS
<1>5. Len(ss) = n
  BY <1>4, LenProperties
<1>6. FlattenSeq(ss) = f[n]
  BY <1>5 DEF FlattenSeq, Joins
<1> HIDE DEF f
<1>7. DOMAIN f = 1 .. n /\ f[1] = ss[1] /\ \A i \in 2 .. n : f[i] = f[i - 1] \o ss[i]
  <2> DEFINE g(i) == IF i = 1 THEN ss[i] ELSE f[i - 1] \o ss[i]
  <2>1. f = [i \in 1 .. n |-> g(i)]
    BY <1>3 DEF Joins
  <2> HIDE DEF g
  <2>2. DOMAIN f = 1 .. n /\ \A i \in 1 .. n : f[i] = g(i)
    BY <2>1
  <2>3. f[1] = g(1)
    BY <2>2
  <2>4. ASSUME NEW i \in 2 .. n PROVE f[i] = g(i) /\ i # 1
    BY <2>2
  <2> USE DEF g
  <2> QED  BY <2>2, <2>3, <2>4
<1> DEFINE S == {k \in Nat : k + 1 <= n => f[k + 1] \in Seq(Nat)}
<1>8. 0 \in S
  BY <1>7
<1>9. ASSUME NEW k \in Nat, k \in S PROVE k + 1 \in S
  <2> SUFFICES ASSUME (k + 1) + 1 <= n PROVE f[(k + 1) + 1] \in Seq(Nat)
    OBVIOUS
  <2>1. /\ (k + 1) + 1 \in 2 .. n /\ ((k + 1) + 1) - 1 = k + 1 /\ k + 1 <= n
        /\ (k + 1) + 1 \in 1 .. n
    OBVIOUS
  <2>2. f[k + 1] \in Seq(Nat) /\ ss[(k + 1) + 1] \in Seq(Nat)
    BY <1>9, <2>1
  <2>3. f[(k + 1) + 1] = f[k + 1] \o ss[(k + 1) + 1]
    BY <1>7, <2>1
  <2> QED  BY <2>2, <2>3, ConcatProperties
<1> HIDE DEF S
<1>10. Nat \subseteq S
  BY <1>8, <1>9, SetInduction
<1>11. ASSUME NEW i \in 1 .. n PROVE f[i] \in Seq(Nat)
  <2>1. i - 1 \in S /\ (i - 1) + 1 = i /\ i <= n
    BY <1>10
  <2> QED  BY <2>1 DEF S
<1>12. f \in [1 .. n -> Seq(Nat)]
  <2>1. f = [i \in 1 .. n |-> f[i]]
    BY <1>3 DEF Joins
  <2> QED  BY <1>11, <2>1
<1> QED  BY <1>6, <1>7, <1>12 DEF JoinedBy

\* Sequences of numbers joined are a sequence of numbers.
LEMMA FlattenType ==
    ASSUME NEW n \in Nat, NEW ss \in [1 .. n -> Seq(Nat)]
    PROVE  FlattenSeq(ss) \in Seq(Nat)
<1>1. CASE n = 0
  <2>1. ss \in Seq(Seq(Nat)) /\ DOMAIN ss = 1 .. n
    OBVIOUS
  <2>2. Len(ss) = 0
    BY <1>1, <2>1, LenProperties
  <2>3. ss = <<>>
    BY <2>1, <2>2, EmptySeq
  <2> QED  BY <2>2, <2>3 DEF FlattenSeq
<1>2. CASE n # 0
  <2>1. n \in Nat \ {0}
    BY <1>2
  <2>2. PICK f : JoinedBy(f, n, ss, FlattenSeq(ss))
    BY <2>1, FlattenJoins
  <2>3. n \in 1 .. n
    BY <2>1
  <2> QED  BY <2>2, <2>3 DEF JoinedBy
<1> QED  BY <1>1, <1>2

\* The sequences that have a prompt.
Having(ss, n, e) == {i \in 1 .. n : Count(ss[i], e) = 1}

\* If every sequence has a prompt once or not at all, all together have it as
\* often as there are sequences with it.
LEMMA CountJoined ==
    ASSUME NEW n \in Nat \ {0}, NEW ss \in [1 .. n -> Seq(Nat)], NEW e,
           \A i \in 1 .. n : Count(ss[i], e) \in {0, 1}
    PROVE  Count(FlattenSeq(ss), e) = Cardinality(Having(ss, n, e))
<1>1. PICK f : JoinedBy(f, n, ss, FlattenSeq(ss))
  BY FlattenJoins
<1> DEFINE H(k) == Having(ss, k, e)
           S == {k \in Nat : k + 1 <= n => Count(f[k + 1], e) = Cardinality(H(k + 1))}
<1>2. \A k \in Nat : IsFiniteSet(H(k)) /\ Cardinality(H(k)) \in Nat
  <2> TAKE k \in Nat
  <2>1. H(k) \subseteq 1 .. k /\ IsFiniteSet(1 .. k)
    BY FS_Interval DEF Having
  <2> QED  BY <2>1, FS_Subset, FS_CardinalityType
<1>3. H(0) = {}
  BY DEF Having
<1>4. ASSUME NEW k \in Nat, k + 1 <= n
      PROVE  Cardinality(H(k + 1)) = Cardinality(H(k)) + Count(ss[k + 1], e)
  <2>0. 1 .. k + 1 = (1 .. k) \union {k + 1} /\ k + 1 \in 1 .. n /\ k + 1 \notin 1 .. k
    BY <1>4
  <2>1. CASE Count(ss[k + 1], e) = 1
    <3>1. H(k + 1) = H(k) \union {k + 1} /\ k + 1 \notin H(k)
      BY <2>0, <2>1 DEF Having
    <3> QED  BY <1>2, <2>1, <3>1, FS_AddElement
  <2>2. CASE Count(ss[k + 1], e) = 0
    <3>1. H(k + 1) = H(k)
      BY <2>0, <2>2 DEF Having
    <3> QED  BY <1>2, <2>2, <3>1
  <2> QED  BY <2>0, <2>1, <2>2
<1> HIDE DEF H
<1>5. 0 \in S
  <2>1. Cardinality(H(0 + 1)) = Cardinality(H(0)) + Count(ss[0 + 1], e)
    BY <1>4
  <2>2. Cardinality(H(0)) = 0
    BY <1>3, FS_EmptySet
  <2>3. Count(ss[1], e) \in Nat
    BY CountFinite
  <2>4. f[1] = ss[1]
    BY <1>1 DEF JoinedBy
  <2> QED  BY <2>1, <2>2, <2>3, <2>4
<1>6. ASSUME NEW k \in Nat, k \in S PROVE k + 1 \in S
  <2> SUFFICES ASSUME (k + 1) + 1 <= n
               PROVE  Count(f[(k + 1) + 1], e) = Cardinality(H((k + 1) + 1))
    OBVIOUS
  <2>1. /\ (k + 1) + 1 \in 2 .. n /\ ((k + 1) + 1) - 1 = k + 1 /\ k + 1 <= n
        /\ (k + 1) + 1 \in 1 .. n /\ k + 1 \in 1 .. n
    OBVIOUS
  <2>2. f[(k + 1) + 1] = f[k + 1] \o ss[(k + 1) + 1] /\ f[k + 1] \in Seq(Nat)
    BY <1>1, <2>1 DEF JoinedBy
  <2>3. Count(f[(k + 1) + 1], e) = Count(f[k + 1], e) + Count(ss[(k + 1) + 1], e)
    BY <2>1, <2>2, CountConcat
  <2>4. Cardinality(H((k + 1) + 1)) = Cardinality(H(k + 1)) + Count(ss[(k + 1) + 1], e)
    BY <1>4, k + 1 \in Nat
  <2>5. Count(f[k + 1], e) = Cardinality(H(k + 1))
    BY <1>6, <2>1
  <2> QED  BY <2>3, <2>4, <2>5
<1> HIDE DEF S
<1>7. Nat \subseteq S
  BY <1>5, <1>6, SetInduction
<1>8. n - 1 \in S /\ (n - 1) + 1 = n /\ n <= n
  BY <1>7
<1>9. Count(f[n], e) = Cardinality(H(n))
  BY <1>8 DEF S
<1> QED  BY <1>1, <1>9 DEF H, JoinedBy

\* If only one of the sequences is not empty, all together are that one.
LEMMA FlattenAlone ==
    ASSUME NEW n \in Nat \ {0}, NEW ss \in [1 .. n -> Seq(Nat)], NEW j \in 1 .. n,
           \A i \in 1 .. n : i # j => ss[i] = <<>>
    PROVE  FlattenSeq(ss) = ss[j]
<1>1. PICK f : JoinedBy(f, n, ss, FlattenSeq(ss))
  BY FlattenJoins
<1> DEFINE S == {k \in Nat : k + 1 <= n => f[k + 1] = IF k + 1 < j THEN <<>> ELSE ss[j]}
<1>2. 0 \in S
  <2>1. f[1] = ss[1]
    BY <1>1 DEF JoinedBy
  <2>2. CASE j = 1
    BY <2>1, <2>2
  <2>3. CASE j # 1
    <3>1. ss[1] = <<>> /\ 0 + 1 < j
      BY <2>3
    <3> QED  BY <2>1, <3>1
  <2> QED  BY <2>2, <2>3
<1>3. ASSUME NEW k \in Nat, k \in S PROVE k + 1 \in S
  <2> SUFFICES ASSUME (k + 1) + 1 <= n
               PROVE  f[(k + 1) + 1] = IF (k + 1) + 1 < j THEN <<>> ELSE ss[j]
    OBVIOUS
  <2>1. /\ (k + 1) + 1 \in 2 .. n /\ ((k + 1) + 1) - 1 = k + 1 /\ k + 1 <= n
        /\ (k + 1) + 1 \in 1 .. n /\ k + 1 \in 1 .. n
    OBVIOUS
  <2>2. f[(k + 1) + 1] = f[k + 1] \o ss[(k + 1) + 1] /\ f[k + 1] \in Seq(Nat)
    BY <1>1, <2>1 DEF JoinedBy
  <2>3. f[k + 1] = IF k + 1 < j THEN <<>> ELSE ss[j]
    BY <1>3, <2>1
  <2>4. ss[j] \in Seq(Nat) /\ ss[(k + 1) + 1] \in Seq(Nat)
    BY <2>1
  <2>5. CASE (k + 1) + 1 = j
    <3>1. f[k + 1] = <<>>
      BY <2>3, <2>5
    <3> QED  BY <2>2, <2>4, <2>5, <3>1, ConcatEmptySeq
  <2>6. CASE (k + 1) + 1 # j
    <3>1. ss[(k + 1) + 1] = <<>>
      BY <2>1, <2>6
    <3>2. f[(k + 1) + 1] = f[k + 1]
      BY <2>2, <3>1, ConcatEmptySeq
    <3>3. k + 1 < j <=> (k + 1) + 1 < j
      BY <2>6
    <3> QED  BY <2>3, <3>2, <3>3
  <2> QED  BY <2>5, <2>6
<1> HIDE DEF S
<1>4. Nat \subseteq S
  BY <1>2, <1>3, SetInduction
<1>5. n - 1 \in S /\ (n - 1) + 1 = n /\ n <= n /\ ~ (n < j)
  BY <1>4
<1>6. f[n] = ss[j]
  BY <1>5 DEF S
<1> QED  BY <1>1, <1>6 DEF JoinedBy

----------------------------------------------------------------------------
(* InOrder.                                                                 *)

Increasing(s) == \A i, j \in DOMAIN s : i < j => s[i] < s[j]

\* s lists the members of a set of numbers in their order.
Lists(s, R) ==
    /\ IsFiniteSet(R) /\ Cardinality(R) \in Nat
    /\ s \in [1 .. Cardinality(R) -> R] /\ DOMAIN s = 1 .. Cardinality(R)
    /\ s \in Seq(R) /\ Len(s) = Cardinality(R) /\ ToSet(s) = R
    /\ Increasing(s) /\ Distinct(s)

\* Ranks can be listed in their order.
LEMMA OrderExists ==
    ASSUME NEW b \in Nat, NEW R \in SUBSET (0 .. b - 1)
    PROVE  \E s \in [1 .. Cardinality(R) -> R] : Increasing(s)
<1> DEFINE Ordered(A) == \E s \in [1 .. Cardinality(A) -> A] : Increasing(s)
           S == {c \in Nat : \A A \in SUBSET (0 .. c - 1) : Ordered(A)}
<1>1. 0 \in S
  <2> SUFFICES ASSUME NEW A \in SUBSET (0 .. 0 - 1) PROVE Ordered(A)
    OBVIOUS
  <2>1. A = {}
    OBVIOUS
  <2>2. Cardinality(A) = 0
    BY <2>1, FS_EmptySet
  <2>3. <<>> \in [1 .. 0 -> A] /\ Increasing(<<>>)
    BY DEF Increasing
  <2> QED  BY <2>2, <2>3
<1>2. ASSUME NEW c \in Nat, c \in S PROVE c + 1 \in S
  <2> SUFFICES ASSUME NEW A \in SUBSET (0 .. (c + 1) - 1) PROVE Ordered(A)
    OBVIOUS
  <2>1. \A B \in SUBSET (0 .. c - 1) : Ordered(B)
    BY <1>2
  <2> HIDE DEF S
  <2>2. CASE c \notin A
    <3>1. A \in SUBSET (0 .. c - 1)
      BY <2>2
    <3> QED  BY <2>1, <3>1
  <2>3. CASE c \in A
    <3> DEFINE B == A \ {c}
    <3>1. B \in SUBSET (0 .. c - 1) /\ A = B \union {c} /\ c \notin B
      BY <2>3
    <3> HIDE DEF B
    <3>2. PICK s \in [1 .. Cardinality(B) -> B] : Increasing(s)
      BY <2>1, <3>1
    <3>3. IsFiniteSet(B)
      <4>1. IsFiniteSet(0 .. c - 1)
        BY FS_Interval
      <4> QED  BY <3>1, <4>1, FS_Subset
    <3>4. PICK n \in Nat : n = Cardinality(B) /\ Cardinality(A) = n + 1
      BY <3>1, <3>3, FS_CardinalityType, FS_AddElement
    <3> DEFINE t == [i \in 1 .. n + 1 |-> IF i = n + 1 THEN c ELSE s[i]]
    <3>5. \A i \in 1 .. n + 1 : i # n + 1 => i \in 1 .. n /\ s[i] \in B /\ t[i] = s[i]
      BY <3>2, <3>4
    <3>6. t \in [1 .. n + 1 -> A]
      BY <3>1, <3>5
    <3>7. t[n + 1] = c /\ DOMAIN t = 1 .. n + 1
      OBVIOUS
    <3> HIDE DEF t
    <3>8. ASSUME NEW i \in 1 .. n + 1, NEW j \in 1 .. n + 1, i < j
          PROVE  t[i] < t[j]
      <4>1. i # n + 1
        BY <3>8
      <4>2. t[i] = s[i] /\ s[i] \in 0 .. c - 1 /\ i \in 1 .. n
        BY <3>1, <3>5, <4>1
      <4>3. CASE j = n + 1
        BY <3>7, <4>2, <4>3
      <4>4. CASE j # n + 1
        <5>1. t[j] = s[j] /\ j \in 1 .. n
          BY <3>5, <4>4
        <5>2. s[i] < s[j]
          BY <3>2, <3>4, <3>8, <4>2, <5>1 DEF Increasing
        <5> QED  BY <4>2, <5>1, <5>2
      <4> QED  BY <4>3, <4>4
    <3>9. Increasing(t)
      BY <3>7, <3>8 DEF Increasing
    <3> QED  BY <3>4, <3>6, <3>9
  <2> QED  BY <2>2, <2>3
<1> HIDE DEF S
<1>3. Nat \subseteq S
  BY <1>1, <1>2, SetInduction
<1> QED  BY <1>3 DEF S

\* InOrder lists them.
LEMMA InOrderLists ==
    ASSUME NEW b \in Nat, NEW R \in SUBSET (0 .. b - 1)
    PROVE  Lists(InOrder(R), R)
<1> DEFINE s == InOrder(R)
<1>1. s \in [1 .. Cardinality(R) -> R] /\ \A i, j \in DOMAIN s : i < j => s[i] < s[j]
  BY OrderExists DEF InOrder, Increasing
<1>2. IsFiniteSet(R) /\ Cardinality(R) \in Nat
  <2>1. IsFiniteSet(0 .. b - 1)
    BY FS_Interval
  <2> QED  BY <2>1, FS_Subset, FS_CardinalityType
<1> HIDE DEF s
<1>3. PICK n \in Nat : n = Cardinality(R)
  BY <1>2
<1>4. DOMAIN s = 1 .. n /\ s \in Seq(R)
  BY <1>1, <1>3
<1>5. Len(s) = n
  BY <1>3, <1>4, LenProperties
<1>6. Distinct(s)
  <2> SUFFICES ASSUME NEW i \in 1 .. n, NEW j \in 1 .. n, s[i] = s[j], i # j PROVE FALSE
    BY <1>4, Zenon DEF Distinct
  <2>1. PICK x \in Int : x = s[i]
    <3>1. s[i] \in R
      BY <1>1, <1>3
    <3>2. \A y \in R : y \in Int
      OBVIOUS
    <3> QED  BY <3>1, <3>2
  <2>2. i < j => s[i] < s[j]
    BY <1>1, <1>4
  <2>3. j < i => s[j] < s[i]
    BY <1>1, <1>4
  <2>4. i < j \/ j < i
    OBVIOUS
  <2>5. x < x
    BY <2>1, <2>2, <2>3, <2>4
  <2> QED  BY <2>1, <2>5
<1>7. s \in Injection(1 .. n, R)
  BY <1>1, <1>3, <1>4, <1>6 DEF Distinct, Injection, IsInjective
<1>8. s \in Surjection(1 .. n, R)
  <2>1. IsFiniteSet(1 .. n) /\ Cardinality(1 .. n) = n
    BY FS_Interval
  <2> QED  BY <1>2, <1>3, <1>7, <2>1, FS_Injection
<1>9. ToSet(s) = R
  BY <1>1, <1>3, <1>4, <1>8 DEF Surjection, ToSet
<1> QED  BY <1>1, <1>2, <1>3, <1>4, <1>5, <1>6, <1>9 DEF s, Lists, Increasing

\* As many places of the list hold members of a part as the part has.
LEMMA ListCount ==
    ASSUME NEW s, NEW R, Lists(s, R), NEW U \in SUBSET R
    PROVE  Cardinality({i \in 1 .. Len(s) : s[i] \in U}) = Cardinality(U)
<1> DEFINE I == {i \in 1 .. Len(s) : s[i] \in U}
           f == [i \in I |-> s[i]]
<1>1. /\ Len(s) \in Nat /\ DOMAIN s = 1 .. Len(s) /\ ToSet(s) = R
      /\ \A i, j \in 1 .. Len(s) : s[i] = s[j] => i = j
  BY DEF Lists, Distinct
<1>2. IsFiniteSet(I)
  <2>1. I \subseteq 1 .. Len(s) /\ IsFiniteSet(1 .. Len(s))
    BY <1>1, FS_Interval
  <2> QED  BY <2>1, FS_Subset
<1>3. f \in Bijection(I, U)
  <2>1. f \in [I -> U]
    OBVIOUS
  <2>2. \A i, j \in I : f[i] = f[j] => i = j
    BY <1>1
  <2>3. \A u \in U : \E i \in I : f[i] = u
    BY <1>1 DEF ToSet
  <2> QED  BY <2>1, <2>2, <2>3 DEF Bijection, Injection, Surjection, IsInjective
<1> HIDE DEF I, f
<1>4. Cardinality(U) = Cardinality(I)
  BY <1>2, <1>3, FS_Bijection DEF ExistsBijection
<1> QED  BY <1>4 DEF I

----------------------------------------------------------------------------
(* Slices.                                                                  *)

SliceIs(t, s, first, last) ==
    /\ t \in Seq(Nat)
    /\ Len(t) = LET end == IF last > Len(s) THEN Len(s) ELSE last
                IN  IF first < end THEN end - first ELSE 0
    /\ \A i \in 1 .. Len(t) : first + i \in 1 .. Len(s) /\ t[i] = s[first + i]

\* What a slice has.
LEMMA Sliced ==
    ASSUME NEW s \in Seq(Nat), NEW first \in Nat, NEW last \in Nat
    PROVE  SliceIs(Slice(s, first, last), s, first, last)
<1>1. PICK n \in Nat : n = Len(s)
  BY LenProperties
<1>2. PICK end \in Nat : end = (IF last > n THEN n ELSE last) /\ end <= n
  OBVIOUS
<1>3. Slice(s, first, last) = SubSeq(s, first + 1, end)
  BY <1>1, <1>2 DEF Slice
<1>4. \A i \in first + 1 .. end : i \in 1 .. n /\ s[i] \in Nat
  BY <1>1, <1>2, ElementOfSeq
<1> DEFINE t == SubSeq(s, first + 1, end)
<1>5. /\ t \in Seq(Nat)
      /\ Len(t) = IF first + 1 <= end THEN end - (first + 1) + 1 ELSE 0
      /\ \A i \in 1 .. end - (first + 1) + 1 : t[i] = s[(first + 1) + i - 1]
  BY <1>4, first + 1 \in Int, end \in Int, SubSeqProperties
<1> HIDE DEF t
<1>6. Len(t) = IF first < end THEN end - first ELSE 0
  BY <1>5
<1>7. ASSUME NEW i \in 1 .. Len(t) PROVE first + i \in 1 .. n /\ t[i] = s[first + i]
  <2>1. i \in 1 .. end - (first + 1) + 1 /\ (first + 1) + i - 1 = first + i
    BY <1>6
  <2>2. first + i \in first + 1 .. end
    BY <1>6
  <2> QED  BY <1>4, <1>5, <2>1, <2>2
<1> QED  BY <1>1, <1>2, <1>3, <1>5, <1>6, <1>7 DEF t, SliceIs

\* Neighbouring slices joined are a slice.
LEMMA SliceJoin ==
    ASSUME NEW s \in Seq(Nat), NEW b \in Nat, NEW c \in Nat, b <= c
    PROVE  Slice(s, 0, b) \o Slice(s, b, c) = Slice(s, 0, c)
<1>1. PICK n \in Nat : n = Len(s)
  BY LenProperties
<1>2. PICK u, v, w : u = Slice(s, 0, b) /\ v = Slice(s, b, c) /\ w = Slice(s, 0, c)
  OBVIOUS
<1>3. SliceIs(u, s, 0, b) /\ SliceIs(v, s, b, c) /\ SliceIs(w, s, 0, c)
  BY <1>2, Sliced, 0 \in Nat
<1>4. u \in Seq(Nat) /\ v \in Seq(Nat) /\ w \in Seq(Nat)
  BY <1>3 DEF SliceIs
<1>5. Len(u) \in Nat /\ Len(v) \in Nat /\ Len(w) \in Nat
  BY <1>4, LenProperties
<1>6. Len(u) = (IF b > n THEN n ELSE b)
  BY <1>1, <1>3 DEF SliceIs
<1>7. Len(v) = (IF b > n THEN 0 ELSE (IF c > n THEN n - b ELSE c - b))
  BY <1>1, <1>3 DEF SliceIs
<1>8. Len(w) = (IF c > n THEN n ELSE c)
  BY <1>1, <1>3 DEF SliceIs
<1>9. Len(u) + Len(v) = Len(w)
  BY <1>6, <1>7, <1>8
<1>10. /\ u \o v \in Seq(Nat) /\ Len(u \o v) = Len(u) + Len(v)
       /\ \A i \in 1 .. Len(u) + Len(v) :
             (u \o v)[i] = IF i <= Len(u) THEN u[i] ELSE v[i - Len(u)]
  BY <1>4, ConcatProperties
<1>11. ASSUME NEW i \in 1 .. Len(w) PROVE (u \o v)[i] = w[i]
  <2>1. w[i] = s[0 + i]
    BY <1>3 DEF SliceIs
  <2>2. CASE i <= Len(u)
    <3>1. i \in 1 .. Len(u)
      BY <1>5, <2>2
    <3>2. u[i] = s[0 + i]
      BY <1>3, <3>1 DEF SliceIs
    <3> QED  BY <1>9, <1>10, <2>1, <2>2, <3>2
  <2>3. CASE ~ (i <= Len(u))
    <3>1. i - Len(u) \in 1 .. Len(v)
      BY <1>5, <1>9, <2>3
    <3>2. v[i - Len(u)] = s[b + (i - Len(u))]
      BY <1>3, <3>1 DEF SliceIs
    <3>3. Len(u) = b
      BY <1>6, <1>7, <1>8, <2>3, <3>1
    <3>4. b + (i - Len(u)) = 0 + i
      BY <3>3
    <3> QED  BY <1>9, <1>10, <2>1, <2>3, <3>2, <3>4
  <2> QED  BY <2>2, <2>3
<1>12. u \o v = w
  BY <1>4, <1>9, <1>10, <1>11, SeqEqual
<1> QED  BY <1>2, <1>12

\* The slice of everything, and of nothing.
LEMMA SliceEnds ==
    ASSUME NEW s \in Seq(Nat), NEW c \in Nat, c >= Len(s)
    PROVE  Slice(s, 0, c) = s /\ Slice(s, 0, 0) = <<>>
<1>1. PICK n \in Nat : n = Len(s)
  BY LenProperties
<1>2. Slice(s, 0, c) = SubSeq(s, 1, n)
  BY <1>1 DEF Slice
<1>3. SubSeq(s, 1, n) = s
  BY <1>1, SubSeqFull
<1>4. Slice(s, 0, 0) = SubSeq(s, 1, 0)
  BY <1>1 DEF Slice
<1>5. SubSeq(s, 1, 0) = <<>>
  BY SubSeqEmpty
<1> QED  BY <1>2, <1>3, <1>4, <1>5

\* A slice of a sequence without repetition has none.
LEMMA SliceDistinct ==
    ASSUME NEW s \in Seq(Nat), Distinct(s), NEW b \in Nat, NEW c \in Nat
    PROVE  Distinct(Slice(s, b, c))
<1>1. PICK t : t = Slice(s, b, c)
  OBVIOUS
<1>2. SliceIs(t, s, b, c)
  BY <1>1, Sliced
<1>3. t \in Seq(Nat) /\ DOMAIN t = 1 .. Len(t) /\ DOMAIN s = 1 .. Len(s)
  BY <1>2, LenProperties DEF SliceIs
<1>4. ASSUME NEW i \in 1 .. Len(t), NEW j \in 1 .. Len(t), t[i] = t[j] PROVE i = j
  <2>1. b + i \in DOMAIN s /\ b + j \in DOMAIN s /\ s[b + i] = s[b + j]
    BY <1>2, <1>3, <1>4 DEF SliceIs
  <2>2. b + i = b + j
    BY <2>1 DEF Distinct
  <2>3. i \in Int /\ j \in Int
    OBVIOUS
  <2> QED  BY <2>2, <2>3
<1> QED  BY <1>1, <1>3, <1>4 DEF Distinct

\* A prompt of the first c is one of the first b or one of the next, not both.
LEMMA SliceSplit ==
    ASSUME NEW s \in Seq(Nat), Distinct(s), NEW b \in Nat, NEW c \in Nat, b <= c, NEW e
    PROVE  /\ e \in ToSet(Slice(s, 0, c)) <=>
                  e \in ToSet(Slice(s, 0, b)) \/ e \in ToSet(Slice(s, b, c))
           /\ ~ (e \in ToSet(Slice(s, 0, b)) /\ e \in ToSet(Slice(s, b, c)))
<1>1. PICK u, v, w : u = Slice(s, 0, b) /\ v = Slice(s, b, c) /\ w = Slice(s, 0, c)
  OBVIOUS
<1>2. SliceIs(u, s, 0, b) /\ SliceIs(v, s, b, c) /\ SliceIs(w, s, 0, c)
  BY <1>1, Sliced, 0 \in Nat
<1>3. u \in Seq(Nat) /\ v \in Seq(Nat) /\ w \in Seq(Nat)
  BY <1>2 DEF SliceIs
<1>4. Distinct(u) /\ Distinct(v) /\ Distinct(w)
  BY <1>1, SliceDistinct, 0 \in Nat
<1>5. Count(w, e) = Count(u, e) + Count(v, e)
  <2>1. u \o v = w
    BY <1>1, SliceJoin
  <2>2. Count(u \o v, e) = Count(u, e) + Count(v, e)
    BY <1>3, CountConcat
  <2> QED  BY <2>1, <2>2
<1>6. /\ Count(u, e) = IF e \in ToSet(u) THEN 1 ELSE 0
      /\ Count(v, e) = IF e \in ToSet(v) THEN 1 ELSE 0
      /\ Count(w, e) = IF e \in ToSet(w) THEN 1 ELSE 0
  BY <1>3, <1>4, CountDistinct
<1>7. (e \in ToSet(w) <=> e \in ToSet(u) \/ e \in ToSet(v)) /\ ~ (e \in ToSet(u) /\ e \in ToSet(v))
  BY <1>5, <1>6
<1> QED  BY <1>1, <1>7

----------------------------------------------------------------------------
(* The places of the ranks.                                                 *)

\* A rank's place in its group of an axis is its coordinate.
LEMMA PlaceIsCoordinate ==
    ASSUME Fixed, NEW T, NEW S, NEW P, NEW C, NEW D, Degrees(T, S, P, C, D),
           NEW a, NEW o1, NEW o2, NEW o3, NEW o4, Beside(a, o1, o2, o3, o4),
           NEW axis \in DOMAIN Axes, Axes[axis] = <<a>>, OtherAxes[axis] = <<o1, o2, o3, o4>>,
           NEW r \in DitRanks
    PROVE  RankInGroup(r, axis) = Coord(r)[a]
<1> DEFINE fam == RankGroups(axis)
           others == {o1, o2, o3, o4}
<1>1. PICK N, n : Family(fam, N, n, others) /\ Places(fam, N, n, a)
  BY AxisFamily
<1>2. groups[axis] = fam
  BY DEF Fixed
<1> HIDE DEF fam, others
<1>3. PICK G : G = GroupOf(r, axis)
  OBVIOUS
<1>4. GroupIs(G, fam, n, others, r) /\ \E g \in 1 .. N : G = fam[g]
  <2>1. G = CHOOSE g \in ToSet(fam) : r \in ToSet(g)
    BY <1>2, <1>3 DEF GroupOf
  <2> QED  BY <1>1, <2>1, FamilyGroup
<1>5. PICK g \in 1 .. N : G = fam[g]
  BY <1>4
<1>6. r \in ToSet(G) /\ DOMAIN G = 1 .. n
  BY <1>4 DEF GroupIs
<1> DEFINE k == CHOOSE k \in DOMAIN G : G[k] = r
<1>7. k \in 1 .. n /\ G[k] = r
  BY <1>6 DEF ToSet
<1> HIDE DEF k
<1>8. Coord(r)[a] = k - 1
  BY <1>1, <1>5, <1>7 DEF Places
<1> QED  BY <1>3, <1>8 DEF k, RankInGroup

\* Whose latents are finished, and where the ranks are on the other axes.
OwnerAt(r, S, P, C) ==
    /\ IsOwner(r) <=> Coord(r)[2] = S - 1 /\ Coord(r)[3] = P - 1 /\ Coord(r)[4] = C - 1
    /\ RankInGroup(r, "sp") = Coord(r)[2] /\ RankInGroup(r, "cfg") = Coord(r)[4]
    /\ RankInGroup(r, "dp") = Coord(r)[5]

\* Owners are at the end of the sequence, stage and guidance axes.
LEMMA Ownership ==
    ASSUME Fixed, NEW T, NEW S, NEW P, NEW C, NEW D, Degrees(T, S, P, C, D), NEW r \in DitRanks
    PROVE  OwnerAt(r, S, P, C)
<1>1. /\ Beside(2, 1, 3, 4, 5) /\ Beside(3, 1, 2, 4, 5)
      /\ Beside(4, 1, 2, 3, 5) /\ Beside(5, 1, 2, 3, 4)
  BY DEF Beside
<1>2. {"sp", "pp", "cfg", "dp"} \subseteq DOMAIN Axes
  BY AxesOf
<1>3. RankInGroup(r, "sp") = Coord(r)[2]
  <2>1. /\ "sp" \in DOMAIN Axes /\ Axes["sp"] = <<2>> /\ OtherAxes["sp"] = <<1, 3, 4, 5>>
        /\ Beside(2, 1, 3, 4, 5)
    BY <1>1, <1>2, AxesOf
  <2> QED  BY <2>1, PlaceIsCoordinate
<1>4. RankInGroup(r, "pp") = Coord(r)[3]
  <2>1. /\ "pp" \in DOMAIN Axes /\ Axes["pp"] = <<3>> /\ OtherAxes["pp"] = <<1, 2, 4, 5>>
        /\ Beside(3, 1, 2, 4, 5)
    BY <1>1, <1>2, AxesOf
  <2> QED  BY <2>1, PlaceIsCoordinate
<1>5. RankInGroup(r, "cfg") = Coord(r)[4]
  <2>1. /\ "cfg" \in DOMAIN Axes /\ Axes["cfg"] = <<4>> /\ OtherAxes["cfg"] = <<1, 2, 3, 5>>
        /\ Beside(4, 1, 2, 3, 5)
    BY <1>1, <1>2, AxesOf
  <2> QED  BY <2>1, PlaceIsCoordinate
<1>6. RankInGroup(r, "dp") = Coord(r)[5]
  <2>1. /\ "dp" \in DOMAIN Axes /\ Axes["dp"] = <<5>> /\ OtherAxes["dp"] = <<1, 2, 3, 4>>
        /\ Beside(5, 1, 2, 3, 4)
    BY <1>1, <1>2, AxesOf
  <2> QED  BY <2>1, PlaceIsCoordinate
<1>7. setup["sp"] = S /\ setup["pp"] = P /\ setup["cfg"] = C
  BY DEF Degrees
<1>8. IsOwner(r) <=> Coord(r)[2] = S - 1 /\ Coord(r)[3] = P - 1 /\ Coord(r)[4] = C - 1
  BY <1>3, <1>4, <1>5, <1>7 DEF IsOwner
<1> QED  BY <1>3, <1>5, <1>6, <1>8 DEF OwnerAt

\* Coordinates are below the degrees.
LEMMA CoordinateRange ==
    ASSUME NEW T, NEW S, NEW P, NEW C, NEW D, Degrees(T, S, P, C, D), NEW r \in DitRanks
    PROVE  /\ Coord(r)[1] \in 0 .. T - 1 /\ Coord(r)[2] \in 0 .. S - 1
           /\ Coord(r)[3] \in 0 .. P - 1 /\ Coord(r)[4] \in 0 .. C - 1
           /\ Coord(r)[5] \in 0 .. D - 1
<1>1. PICK a, b, c, d, e : /\ Coordinates(a, b, c, d, e, T, S, P, C, D)
                           /\ r = RankWith(a, b, c, d, e, T, S, P, C)
  BY HasCoordinates
<1>2. Coord(r) = <<a, b, c, d, e>>
  BY <1>1, RankCoordinates DEF Coord
<1> QED  BY <1>1, <1>2 DEF Coordinates, Digits4

\* One rank of every replica.
OnePerReplica(U, D) ==
    \E f \in Bijection(0 .. D - 1, U) : \A e \in 0 .. D - 1 : Coord(f[e])[5] = e

At5(b, c, d) == {r \in DitRanks : Coord(r)[2] = b /\ Coord(r)[3] = c /\ Coord(r)[4] = d}

\* Without tensor parallelism, the other coordinates give one rank of every replica.
LEMMA OnePer ==
    ASSUME NEW S, NEW P, NEW C, NEW D, Degrees(1, S, P, C, D),
           NEW b \in 0 .. S - 1, NEW c \in 0 .. P - 1, NEW d \in 0 .. C - 1
    PROVE  OnePerReplica(At5(b, c, d), D)
<1> DEFINE f == [e \in 0 .. D - 1 |-> RankWith(0, b, c, d, e, 1, S, P, C)]
           U == At5(b, c, d)
<1>1. ASSUME NEW e \in 0 .. D - 1
      PROVE  /\ f[e] \in DitRanks /\ Coord(f[e])[2] = b /\ Coord(f[e])[3] = c
             /\ Coord(f[e])[4] = d /\ Coord(f[e])[5] = e
  <2>1. Coordinates(0, b, c, d, e, 1, S, P, C, D)
    BY DEF Coordinates, Digits4
  <2>2. PICK r : r = RankWith(0, b, c, d, e, 1, S, P, C)
    OBVIOUS
  <2>3. r \in DitRanks /\ Coord(r) = <<0, b, c, d, e>>
    BY <2>1, <2>2, RankCoordinates DEF Coord
  <2>4. Coord(r)[2] = b /\ Coord(r)[3] = c /\ Coord(r)[4] = d /\ Coord(r)[5] = e
    BY <2>3
  <2>5. f[e] = r
    BY <2>2
  <2> QED  BY <2>3, <2>4, <2>5
<1> HIDE DEF f
<1>2. f \in [0 .. D - 1 -> U]
  <2>1. f = [e \in 0 .. D - 1 |-> f[e]]
    BY DEF f
  <2> QED  BY <1>1, <2>1 DEF At5
<1>3. \A e, g \in 0 .. D - 1 : f[e] = f[g] => e = g
  BY <1>1
<1>4. ASSUME NEW r \in U PROVE \E e \in 0 .. D - 1 : f[e] = r
  <2>1. r \in DitRanks /\ Coord(r)[2] = b /\ Coord(r)[3] = c /\ Coord(r)[4] = d
    BY DEF At5
  <2>2. Coord(r)[1] \in 0 .. 1 - 1 /\ Coord(r)[5] \in 0 .. D - 1
    BY <2>1, CoordinateRange
  <2>3. PICK e \in 0 .. D - 1 : e = Coord(r)[5]
    BY <2>2
  <2>4. Coord(f[e])[1] \in 0 .. 1 - 1
    BY <1>1, CoordinateRange
  <2>5. Coord(r)[1] = Coord(f[e])[1]
    BY <2>2, <2>4
  <2>6. \A i \in 1 .. 5 : Coord(r)[i] = Coord(f[e])[i]
    BY <1>1, <2>1, <2>3, <2>5
  <2>7. r = f[e]
    BY <1>1, <2>1, <2>6, SameCoordinates DEF Coord
  <2> QED  BY <2>7
<1>5. f \in Bijection(0 .. D - 1, U)
  <2> HIDE DEF U
  <2> QED  BY <1>2, <1>3, <1>4 DEF Bijection, Injection, Surjection, IsInjective
<1> QED  BY <1>1, <1>5 DEF OnePerReplica

----------------------------------------------------------------------------
(* Shares.                                                                  *)

AllPrompts == [i \in 1 .. setup.prompts |-> i]

\* The share of a replica.
ShareOf(e) ==
    LET each == CeilDiv(setup.prompts, setup.dp)
    IN  IF setup.prompts = 1 \/ setup.dp = 1 THEN AllPrompts
        ELSE IF setup.caller = "ray" THEN Slice(AllPrompts, e * each, (e + 1) * each)
        ELSE [i \in 1 .. CeilDiv(setup.prompts - e, setup.dp) |-> e + 1 + (i - 1) * setup.dp]

\* The ranks of a replica have the same share, under Ray and the runner.
LEMMA ShareOfReplica ==
    ASSUME Fixed, NEW T, NEW S, NEW P, NEW C, NEW D, Degrees(T, S, P, C, D), NEW r \in DitRanks
    PROVE  Share(r) = ShareOf(Coord(r)[5])
<1>1. PICK Q \in Nat \ {0} : Q = T * S * P * C /\ DitSize \div D = Q /\ setup.dp = D
  BY ReplicaSize
<1>2. r \div (DitSize \div setup.dp) = Coord(r)[5]
  BY <1>1, ReplicaOf
<1>3. RankInGroup(r, "dp") = Coord(r)[5]
  BY Ownership DEF OwnerAt
<1> QED  BY <1>2, <1>3, Zenon DEF Share, ShareOf, AllPrompts

\* A quotient rounded up.
LEMMA CeilDivFacts ==
    ASSUME NEW a \in Int, NEW b \in Nat \ {0}, a + b - 1 >= 0
    PROVE  \E q \in Nat : q = CeilDiv(a, b) /\ a <= q * b /\ q * b <= a + b - 1
<1>1. PICK x \in Nat : x = a + b - 1
  OBVIOUS
<1>2. PICK q \in Nat, m \in 0 .. b - 1 : q = x \div b /\ x = q * b + m
  BY DivMod
<1>3. PICK y \in Int : y = q * b
  OBVIOUS
<1>4. a <= y /\ y <= a + b - 1
  BY <1>1, <1>2, <1>3
<1> QED  BY <1>1, <1>2, <1>3, <1>4 DEF CeilDiv

\* Multiples of n are apart.
LEMMA LessMultiples ==
    ASSUME NEW n \in Nat \ {0}, NEW a \in Nat, NEW b \in Nat
    PROVE  /\ a * n < b * n <=> a < b
           /\ a * n <= b * n <=> a <= b
           /\ a * n = b * n <=> a = b
           /\ a * n \in Nat
<1>1. a * n \in Nat /\ b * n \in Nat
  OBVIOUS
<1>2. ASSUME NEW x \in Nat, NEW y \in Nat, x < y PROVE x * n < y * n
  <2>1. PICK z \in Nat \ {0} : y = x + z
    <3>1. y - x \in Nat \ {0} /\ y = x + (y - x)
      BY <1>2
    <3> QED  BY <3>1
  <2>2. y * n = x * n + z * n /\ z * n \in Nat \ {0}
    BY <2>1
  <2>3. PICK u \in Int, v \in Int, w \in Nat \ {0} : u = x * n /\ v = y * n /\ w = z * n
    BY <2>2
  <2> QED  BY <2>2, <2>3
<1>3. PICK u \in Nat, v \in Nat : u = a * n /\ v = b * n
  BY <1>1
<1>4. (a < b => u < v) /\ (b < a => v < u) /\ (a = b => u = v)
  BY <1>2, <1>3
<1> QED  BY <1>3, <1>4

\* What is assumed of a configuration.
LEMMA SetupFacts ==
    ASSUME Fixed
    PROVE  /\ setup.prompts \in Nat \ {0} /\ setup.dp \in Nat \ {0}
           /\ setup.batch \in Nat /\ setup.vae \in Nat /\ setup.parallel \in BOOLEAN
           /\ setup.caller \in {"legacy", "native", "ray"}
           /\ setup.vae > 0 => /\ setup.caller = "ray" /\ setup.parallel
                               /\ setup.dp = 1 /\ setup.tp = 1
           /\ setup.caller = "native" => setup.pp = 1
           /\ setup.caller = "ray" => setup.prompts % setup.dp = 0 /\ setup.batch = 0
<1>1. setup \in [tp : Nat \ {0}, sp : Nat \ {0}, pp : Nat \ {0}, cfg : Nat \ {0},
                 dp : Nat \ {0}, vae : Nat, parallel : BOOLEAN,
                 caller : {"legacy", "native", "ray"}, prompts : Nat \ {0}, batch : Nat]
  BY SetupsOK DEF Fixed
<1>2. /\ setup.vae > 0 => /\ setup.caller = "ray" /\ setup.parallel
                          /\ setup.dp = 1 /\ setup.tp = 1
      /\ setup.caller = "native" => setup.pp = 1
      /\ setup.caller = "ray" => setup.prompts % setup.dp = 0 /\ setup.batch = 0
  BY SetupsOK DEF Fixed
<1> QED  BY <1>1, <1>2

\* The sequence of all prompts.
LEMMA AllIs ==
    ASSUME Fixed
    PROVE  /\ AllPrompts \in Seq(Nat) /\ Len(AllPrompts) = setup.prompts
           /\ DOMAIN AllPrompts = 1 .. setup.prompts
           /\ \A i \in 1 .. setup.prompts : AllPrompts[i] = i
           /\ Distinct(AllPrompts) /\ ToSet(AllPrompts) = 1 .. setup.prompts
<1>1. PICK N \in Nat \ {0} : N = setup.prompts
  BY SetupFacts
<1>2. AllPrompts = [i \in 1 .. N |-> i]
  BY <1>1 DEF AllPrompts
<1>3. AllPrompts \in Seq(Nat) /\ DOMAIN AllPrompts = 1 .. N /\ \A i \in 1 .. N : AllPrompts[i] = i
  BY <1>2
<1>4. Len(AllPrompts) = N
  BY <1>3, LenProperties
<1> QED  BY <1>1, <1>3, <1>4 DEF Distinct, ToSet

\* An even number of prompts for every replica.
EvenRay(k) == k \in Nat \ {0} /\ setup.prompts = k * setup.dp /\ CeilDiv(setup.prompts, setup.dp) = k

\* Ray's prompts are an equal number for every replica.
LEMMA Evenly ==
    ASSUME Fixed, setup.prompts % setup.dp = 0
    PROVE  \E k : EvenRay(k)
<1>1. PICK N \in Nat \ {0}, D \in Nat \ {0} : N = setup.prompts /\ D = setup.dp
  BY SetupFacts
<1>2. PICK k \in Nat, m \in 0 .. D - 1 : k = N \div D /\ m = N % D /\ N = k * D + m
  BY DivMod
<1>3. m = 0 /\ N = k * D
  BY <1>1, <1>2
<1>4. k # 0
  BY <1>1, <1>3
<1>5. (k * D + (D - 1)) \div D = k
  <2>1. PICK c \in 0 .. D - 1 : c = D - 1
    BY <1>1
  <2>2. (k * D + c) \div D = k
    BY DivModUnique
  <2> QED  BY <2>1, <2>2
<1>6. N + D - 1 = k * D + (D - 1)
  BY <1>1, <1>2, <1>3
<1> QED  BY <1>1, <1>2, <1>3, <1>4, <1>5, <1>6 DEF EvenRay, CeilDiv

\* Ray's runs of neighbours: replica e gets the k prompts after e * k.
RayShareIs(s, e, k) ==
    /\ s \in Seq(Nat) /\ Len(s) = k
    /\ \A i \in 1 .. k : s[i] = e * k + i /\ e * k + i \in 1 .. setup.prompts

\* Ray's slice of a replica.
LEMMA RayShare ==
    ASSUME Fixed, NEW k, EvenRay(k), NEW e \in 0 .. setup.dp - 1
    PROVE  RayShareIs(Slice(AllPrompts, e * k, (e + 1) * k), e, k)
<1>1. PICK N \in Nat \ {0}, D \in Nat \ {0} : N = setup.prompts /\ D = setup.dp
  BY SetupFacts
<1>2. k \in Nat \ {0} /\ N = k * D /\ e \in 0 .. D - 1
  BY <1>1 DEF EvenRay
<1>3. PICK a \in Nat, b \in Nat : a = e * k /\ b = (e + 1) * k /\ b = a + k
  BY <1>2
<1>4. b <= N
  <2>1. e + 1 <= D /\ e + 1 \in Nat
    BY <1>2
  <2>2. (e + 1) * k <= D * k
    BY <1>2, <2>1, LessMultiples
  <2>3. D * k = N
    BY <1>2
  <2> QED  BY <1>3, <2>2, <2>3
<1> DEFINE s == Slice(AllPrompts, a, b)
<1>5. SliceIs(s, AllPrompts, a, b)
  BY AllIs, Sliced
<1> HIDE DEF s
<1>6. s \in Seq(Nat) /\ Len(s) = k
  BY <1>1, <1>2, <1>3, <1>4, <1>5, AllIs DEF SliceIs
<1>7. ASSUME NEW i \in 1 .. k PROVE s[i] = a + i /\ a + i \in 1 .. N
  <2>1. a + i \in 1 .. N
    BY <1>2, <1>3, <1>4
  <2>2. s[i] = AllPrompts[a + i]
    BY <1>5, <1>6 DEF SliceIs
  <2> QED  BY <1>1, <2>1, <2>2, AllIs
<1> QED  BY <1>1, <1>3, <1>6, <1>7 DEF RayShareIs, s

\* The runner's every dp-th prompt from the e-th on.
RunnerShareIs(s, e, n) ==
    /\ n \in Nat /\ s \in Seq(Nat) /\ Len(s) = n /\ n = CeilDiv(setup.prompts - e, setup.dp)
    /\ setup.prompts - e <= n * setup.dp
    /\ \A i \in 1 .. n : /\ s[i] = e + 1 + (i - 1) * setup.dp
                         /\ e + 1 + (i - 1) * setup.dp \in 1 .. setup.prompts

\* The runner's every dp-th prompt.
LEMMA RunnerShare ==
    ASSUME Fixed, NEW e \in 0 .. setup.dp - 1
    PROVE  \E n : RunnerShareIs([i \in 1 .. CeilDiv(setup.prompts - e, setup.dp) |->
                                    e + 1 + (i - 1) * setup.dp], e, n)
<1>1. PICK N \in Nat \ {0}, D \in Nat \ {0} : N = setup.prompts /\ D = setup.dp
  BY SetupFacts
<1>2. e \in 0 .. D - 1
  BY <1>1
<1>3. N - e \in Int /\ (N - e) + D - 1 >= 0
  BY <1>2
<1>4. PICK n \in Nat : /\ n = CeilDiv(N - e, D) /\ N - e <= n * D
                       /\ n * D <= (N - e) + D - 1
  BY <1>3, CeilDivFacts
<1> DEFINE s == [i \in 1 .. n |-> e + 1 + (i - 1) * D]
<1>5. ASSUME NEW i \in 1 .. n
      PROVE  e + 1 + (i - 1) * D \in 1 .. N
  <2>1. i \in Nat /\ n \in Nat /\ i <= n /\ i - 1 \in Nat
    OBVIOUS
  <2>2. i * D <= n * D
    BY <2>1, LessMultiples
  <2>3. (i - 1) * D = i * D - D /\ (i - 1) * D \in Nat
    BY <2>1
  <2>4. PICK x \in Int, y \in Int, z \in Nat : x = i * D /\ y = n * D /\ z = (i - 1) * D
    BY <2>3
  <2>5. z <= N - e - 1
    BY <1>2, <1>4, <2>2, <2>3, <2>4
  <2> QED  BY <1>2, <2>4, <2>5
<1>6. s \in [1 .. n -> Nat] /\ DOMAIN s = 1 .. n /\ \A i \in 1 .. n : s[i] = e + 1 + (i - 1) * D
  BY <1>5
<1> HIDE DEF s
<1>7. s \in Seq(Nat)
  BY <1>6
<1>8. Len(s) = n
  BY <1>6, <1>7, LenProperties
<1>9. RunnerShareIs(s, e, n)
  BY <1>1, <1>4, <1>5, <1>6, <1>7, <1>8 DEF RunnerShareIs
<1> QED  BY <1>1, <1>4, <1>9 DEF s

\* A share is a sequence of prompts without repetition.
ProperShare(e) ==
    /\ ShareOf(e) \in Seq(Nat) /\ Distinct(ShareOf(e))
    /\ ToSet(ShareOf(e)) \subseteq 1 .. setup.prompts

\* Every share is proper.
LEMMA SharesProper ==
    ASSUME Fixed, NEW e \in 0 .. setup.dp - 1
    PROVE  ProperShare(e)
<1>1. PICK N \in Nat \ {0}, D \in Nat \ {0} : N = setup.prompts /\ D = setup.dp
  BY SetupFacts
<1>2. e \in 0 .. D - 1
  BY <1>1
<1>3. CASE N = 1 \/ D = 1
  <2>1. ShareOf(e) = AllPrompts
    BY <1>1, <1>3 DEF ShareOf
  <2> QED  BY <2>1, AllIs DEF ProperShare
<1>4. CASE ~ (N = 1 \/ D = 1) /\ setup.caller = "ray"
  <2>1. PICK k : EvenRay(k)
    BY <1>4, SetupFacts, Evenly
  <2>2. ShareOf(e) = Slice(AllPrompts, e * k, (e + 1) * k)
    BY <1>1, <1>4, <2>1 DEF ShareOf, EvenRay
  <2>3. PICK s : s = ShareOf(e)
    OBVIOUS
  <2>4. RayShareIs(s, e, k)
    BY <2>1, <2>2, <2>3, RayShare
  <2>5. s \in Seq(Nat) /\ DOMAIN s = 1 .. k
    BY <2>4, LenProperties DEF RayShareIs
  <2>6. PICK x \in Int : x = e * k
    BY <1>2, <2>1 DEF EvenRay
  <2>7. \A i \in 1 .. k : s[i] = x + i /\ s[i] \in 1 .. N
    BY <1>1, <2>4, <2>6 DEF RayShareIs
  <2>8. Distinct(s)
    BY <2>5, <2>7 DEF Distinct
  <2>9. ToSet(s) \subseteq 1 .. N
    BY <2>5, <2>7 DEF ToSet
  <2> QED  BY <1>1, <2>3, <2>5, <2>8, <2>9 DEF ProperShare
<1>5. CASE ~ (N = 1 \/ D = 1) /\ setup.caller # "ray"
  <2>1. PICK s : s = ShareOf(e)
    OBVIOUS
  <2>2. s = [i \in 1 .. CeilDiv(setup.prompts - e, setup.dp) |-> e + 1 + (i - 1) * setup.dp]
    BY <1>1, <1>5, <2>1 DEF ShareOf
  <2>3. PICK n : RunnerShareIs(s, e, n)
    BY <2>2, RunnerShare
  <2>4. s \in Seq(Nat) /\ DOMAIN s = 1 .. n /\ n \in Nat
    BY <2>3, LenProperties DEF RunnerShareIs
  <2>5. \A i \in 1 .. n : s[i] = e + 1 + (i - 1) * D /\ s[i] \in 1 .. N
    BY <1>1, <2>3 DEF RunnerShareIs
  <2>6. Distinct(s)
    <3> SUFFICES ASSUME NEW i \in 1 .. n, NEW j \in 1 .. n, s[i] = s[j] PROVE i = j
      BY <2>4, Zenon DEF Distinct
    <3>1. PICK x \in Int, y \in Int : x = (i - 1) * D /\ y = (j - 1) * D
      BY <2>4
    <3>2. x = y
      BY <1>2, <2>5, <3>1
    <3>3. i - 1 \in Nat /\ j - 1 \in Nat
      BY <2>4
    <3>4. i - 1 = j - 1
      BY <3>1, <3>2, <3>3, LessMultiples
    <3> QED  BY <2>4, <3>4
  <2>7. ToSet(s) \subseteq 1 .. N
    BY <2>4, <2>5 DEF ToSet
  <2> QED  BY <1>1, <2>1, <2>4, <2>6, <2>7 DEF ProperShare
<1> QED  BY <1>3, <1>4, <1>5

\* The one replica that has a prompt.
LEMMA OneHasIt ==
    ASSUME Fixed, setup.prompts # 1, setup.dp # 1, NEW p \in 1 .. setup.prompts
    PROVE  \E e \in 0 .. setup.dp - 1 : \A g \in 0 .. setup.dp - 1 :
               p \in ToSet(ShareOf(g)) <=> g = e
<1>1. PICK N \in Nat \ {0}, D \in Nat \ {0} : N = setup.prompts /\ D = setup.dp
  BY SetupFacts
<1>2. p - 1 \in Nat /\ p \in Nat
  BY <1>1
<1>3. CASE setup.caller = "ray"
  <2>1. PICK k : EvenRay(k)
    BY <1>3, SetupFacts, Evenly
  <2>2. k \in Nat \ {0} /\ N = k * D
    BY <1>1, <2>1 DEF EvenRay
  <2>3. PICK e \in Nat, m \in 0 .. k - 1 : p - 1 = e * k + m
    BY ZenonT(40), <1>2, <2>2, DivMod
  <2>4. e \in 0 .. D - 1
    <3>1. PICK x \in Nat : x = e * k
      BY <2>2
    <3>2. e * k < D * k
      <4>1. D * k = N /\ x < N
        BY <1>1, <2>2, <2>3, <3>1
      <4> QED  BY <3>1, <4>1
    <3>3. e < D
      BY <2>2, <3>2, LessMultiples
    <3> QED  BY <3>3
  <2>5. ASSUME NEW g \in 0 .. D - 1
        PROVE  p \in ToSet(ShareOf(g)) <=> g = e
    <3>1. PICK s : s = ShareOf(g)
      OBVIOUS
    <3>2. s = Slice(AllPrompts, g * k, (g + 1) * k)
      BY <1>3, <2>1, <3>1 DEF ShareOf, EvenRay
    <3>3. RayShareIs(s, g, k)
      BY <1>1, <2>1, <3>2, RayShare
    <3>4. DOMAIN s = 1 .. k
      BY <3>3, LenProperties DEF RayShareIs
    <3>5. \A i \in 1 .. k : s[i] = g * k + i
      BY <3>3 DEF RayShareIs
    <3>6. ASSUME g = e PROVE p \in ToSet(s)
      <4>1. m + 1 \in 1 .. k
        BY <2>2
      <4>2. s[m + 1] = e * k + (m + 1)
        BY <3>5, <3>6, <4>1
      <4>3. PICK x \in Int : x = e * k
        BY <2>2
      <4>4. s[m + 1] = p
        BY <1>2, <2>3, <4>2, <4>3
      <4> QED  BY <3>4, <4>1, <4>4 DEF ToSet
    <3>7. ASSUME p \in ToSet(s) PROVE g = e
      <4>1. PICK i \in 1 .. k : s[i] = p
        BY <3>4, <3>7 DEF ToSet
      <4>2. PICK x \in Int : x = g * k
        BY <2>2
      <4>3. p - 1 = g * k + (i - 1) /\ i - 1 \in 0 .. k - 1
        BY <2>2, <3>5, <4>1, <4>2
      <4>4. (g * k + (i - 1)) \div k = g
        BY <2>2, <4>3, DivModUnique
      <4>5. (e * k + m) \div k = e
        BY <2>2, DivModUnique
      <4> QED  BY <2>3, <4>3, <4>4, <4>5
    <3> QED  BY <3>1, <3>6, <3>7
  <2> QED  BY <1>1, <2>4, <2>5
<1>4. CASE setup.caller # "ray"
  <2>1. PICK q \in Nat, e \in 0 .. D - 1 : p - 1 = q * D + e
    BY <1>2, DivMod
  <2>2. ASSUME NEW g \in 0 .. D - 1
        PROVE  p \in ToSet(ShareOf(g)) <=> g = e
    <3>1. PICK s : s = ShareOf(g)
      OBVIOUS
    <3>2. s = [i \in 1 .. CeilDiv(setup.prompts - g, setup.dp) |-> g + 1 + (i - 1) * setup.dp]
      BY <1>4, <3>1 DEF ShareOf
    <3>3. PICK n : RunnerShareIs(s, g, n)
      BY <1>1, <3>2, RunnerShare
    <3>4. DOMAIN s = 1 .. n /\ n \in Nat /\ N - g <= n * D
      BY <1>1, <3>3, LenProperties DEF RunnerShareIs
    <3>5. \A i \in 1 .. n : s[i] = g + 1 + (i - 1) * D
      BY <1>1, <3>3 DEF RunnerShareIs
    <3>6. ASSUME g = e PROVE p \in ToSet(s)
      <4>1. q < n
        <5>1. PICK x \in Nat, y \in Nat : x = q * D /\ y = n * D
          BY <3>4
        <5>2. x < y
          <6>1. p - 1 = x + e /\ N - g <= y /\ p <= N
            BY <1>1, <2>1, <3>4, <5>1
          <6> QED  BY <1>2, <3>6, <6>1
        <5> QED  BY <3>4, <5>1, <5>2, LessMultiples
      <4>2. q + 1 \in 1 .. n /\ (q + 1) - 1 = q
        BY <3>4, <4>1
      <4>3. s[q + 1] = e + 1 + q * D
        BY <3>5, <3>6, <4>2
      <4>4. PICK x \in Int : x = q * D
        OBVIOUS
      <4>5. s[q + 1] = p
        BY <1>2, <2>1, <4>3, <4>4
      <4> QED  BY <3>4, <4>2, <4>5 DEF ToSet
    <3>7. ASSUME p \in ToSet(s) PROVE g = e
      <4>1. PICK i \in 1 .. n : s[i] = p
        BY <3>4, <3>7 DEF ToSet
      <4>2. i - 1 \in Nat
        BY <3>4
      <4>3. PICK x \in Int : x = (i - 1) * D
        BY <4>2
      <4>4. p - 1 = (i - 1) * D + g
        BY <1>2, <3>5, <4>1, <4>3
      <4>5. ((i - 1) * D + g) % D = g /\ (q * D + e) % D = e
        BY <4>2, DivModUnique
      <4> QED  BY <2>1, <4>4, <4>5
    <3> QED  BY <3>1, <3>6, <3>7
  <2> QED  BY <1>1, <2>2
<1> QED  BY <1>3, <1>4

\* Unless the request is refused, every share has a prompt, and where latents
\* are gathered the shares are of one size.
LEMMA SharesEqual ==
    ASSUME Fixed, ~Refused, NEW e \in 0 .. setup.dp - 1, NEW g \in 0 .. setup.dp - 1
    PROVE  /\ Len(ShareOf(e)) \in Nat \ {0}
           /\ ParallelizesVae => Len(ShareOf(e)) = Len(ShareOf(g))
<1>1. PICK N \in Nat \ {0}, D \in Nat \ {0} : N = setup.prompts /\ D = setup.dp
  BY SetupFacts
<1>2. e \in 0 .. D - 1 /\ g \in 0 .. D - 1
  BY <1>1
<1>3. CASE N = 1 \/ D = 1
  <2>1. ShareOf(e) = AllPrompts /\ ShareOf(g) = AllPrompts
    BY <1>1, <1>3 DEF ShareOf
  <2> QED  BY <1>1, <2>1, AllIs
<1>4. CASE ~ (N = 1 \/ D = 1) /\ setup.caller = "ray"
  <2>1. PICK k : EvenRay(k)
    BY <1>4, SetupFacts, Evenly
  <2>2. ASSUME NEW h \in 0 .. D - 1 PROVE Len(ShareOf(h)) = k
    <3>1. PICK s : s = ShareOf(h)
      OBVIOUS
    <3>2. s = Slice(AllPrompts, h * k, (h + 1) * k)
      BY <1>1, <1>4, <2>1, <3>1 DEF ShareOf, EvenRay
    <3>3. RayShareIs(s, h, k)
      BY <1>1, <2>1, <3>2, RayShare
    <3> QED  BY <3>1, <3>3 DEF RayShareIs
  <2> QED  BY <1>2, <2>1, <2>2 DEF EvenRay
<1>5. CASE ~ (N = 1 \/ D = 1) /\ setup.caller # "ray"
  <2>1. N >= D /\ (ParallelizesVae => N % D = 0)
    BY <1>1, <1>5 DEF Refused
  <2>2. ASSUME NEW h \in 0 .. D - 1
        PROVE  \E n : RunnerShareIs(ShareOf(h), h, n)
    <3>1. ShareOf(h) = [i \in 1 .. CeilDiv(setup.prompts - h, setup.dp) |->
                           h + 1 + (i - 1) * setup.dp]
      BY <1>1, <1>5 DEF ShareOf
    <3> QED  BY <1>1, <3>1, RunnerShare
  <2>3. Len(ShareOf(e)) \in Nat \ {0}
    <3>1. PICK n : RunnerShareIs(ShareOf(e), e, n)
      BY <1>2, <2>2
    <3>2. n \in Nat /\ Len(ShareOf(e)) = n /\ N - e <= n * D
      BY <1>1, <3>1 DEF RunnerShareIs
    <3>3. n # 0
      <4> SUFFICES ASSUME n = 0 PROVE FALSE
        OBVIOUS
      <4>1. n * D = 0
        OBVIOUS
      <4> QED  BY <1>2, <2>1, <3>2, <4>1
    <3> QED  BY <3>2, <3>3
  <2>4. ASSUME ParallelizesVae PROVE Len(ShareOf(e)) = Len(ShareOf(g))
    <3>1. PICK k : EvenRay(k)
      BY <1>1, <2>1, <2>4, Evenly
    <3>2. k \in Nat /\ N = k * D
      BY <1>1, <3>1 DEF EvenRay
    <3>3. ASSUME NEW h \in 0 .. D - 1 PROVE Len(ShareOf(h)) = k
      <4>1. PICK n : RunnerShareIs(ShareOf(h), h, n)
        BY <2>2
      <4>2. Len(ShareOf(h)) = CeilDiv(N - h, D)
        BY <1>1, <4>1 DEF RunnerShareIs
      <4>3. PICK c \in 0 .. D - 1 : c = D - 1 - h
        BY <1>1
      <4>4. (k * D + c) \div D = k
        BY <3>2, DivModUnique
      <4>5. (N - h) + D - 1 = k * D + c
        <5>1. PICK x \in Int : x = k * D
          BY <3>2
        <5> QED  BY <3>2, <4>3, <5>1
      <4> QED  BY <4>2, <4>4, <4>5 DEF CeilDiv
    <3> QED  BY <1>2, <3>3
  <2> QED  BY <2>3, <2>4
<1> QED  BY <1>3, <1>4, <1>5

\* Of one rank of every replica, those that have a prompt in their share.
LEMMA HaversCount ==
    ASSUME Fixed, NEW T, NEW S, NEW P, NEW C, NEW D, Degrees(T, S, P, C, D),
           NEW U \in SUBSET DitRanks, OnePerReplica(U, D), NEW p \in 1 .. setup.prompts
    PROVE  Cardinality({r \in U : p \in ToSet(Share(r))}) =
               IF setup.prompts = 1 THEN setup.dp ELSE 1
<1>1. PICK N \in Nat \ {0} : N = setup.prompts /\ D = setup.dp /\ D \in Nat \ {0}
  BY SetupFacts DEF Degrees
<1>2. PICK f \in Bijection(0 .. D - 1, U) : \A e \in 0 .. D - 1 : Coord(f[e])[5] = e
  BY DEF OnePerReplica
<1>3. /\ f \in [0 .. D - 1 -> U] /\ \A u \in U : \E e \in 0 .. D - 1 : f[e] = u
  BY <1>2 DEF Bijection, Injection, Surjection
<1>4. \A r \in U : Share(r) = ShareOf(Coord(r)[5])
  BY ShareOfReplica
<1>5. \A e \in 0 .. D - 1 : f[e] \in U /\ Share(f[e]) = ShareOf(e)
  BY <1>2, <1>3, <1>4
<1>6. CASE N = 1 \/ D = 1
  <2>1. ASSUME NEW r \in U PROVE p \in ToSet(Share(r))
    <3>1. Share(r) = AllPrompts
      BY <1>1, <1>4, <1>6 DEF ShareOf
    <3> QED  BY <3>1, AllIs
  <2>2. {r \in U : p \in ToSet(Share(r))} = U
    BY <2>1
  <2>3. IsFiniteSet(0 .. D - 1) /\ Cardinality(0 .. D - 1) = D
    BY <1>1, FS_Interval
  <2>4. Cardinality(U) = D
    BY <1>2, <2>3, FS_Bijection DEF ExistsBijection
  <2> QED  BY <1>1, <1>6, <2>2, <2>4
<1>7. CASE ~ (N = 1 \/ D = 1)
  <2>1. PICK e \in 0 .. D - 1 : \A g \in 0 .. D - 1 : p \in ToSet(ShareOf(g)) <=> g = e
    BY <1>1, <1>7, OneHasIt
  <2>2. {r \in U : p \in ToSet(Share(r))} = {f[e]}
    <3>1. ASSUME NEW r \in U, p \in ToSet(Share(r)) PROVE r = f[e]
      <4>1. PICK g \in 0 .. D - 1 : f[g] = r
        BY <1>3
      <4>2. p \in ToSet(ShareOf(g))
        BY <1>5, <3>1, <4>1
      <4> QED  BY <2>1, <4>1, <4>2
    <3>2. f[e] \in U /\ p \in ToSet(Share(f[e]))
      BY <1>5, <2>1
    <3> QED  BY <3>1, <3>2
  <2> QED  BY <1>1, <1>7, <2>2, FS_Singleton
<1> QED  BY <1>6, <1>7

----------------------------------------------------------------------------
(* Owners.                                                                  *)

Owners == {r \in DitRanks : IsOwner(r)}

OwnerList == InOrder(Owners)

\* There are ranks that denoise.
LEMMA DitSizeType ==
    ASSUME Fixed
    PROVE  DitSize \in Nat \ {0} /\ 0 \in DitRanks /\ DitSize - 1 \in DitRanks
<1>1. PICK T, S, P, C, D : Degrees(T, S, P, C, D)
  BY SetupDegrees
<1>2. PICK Q \in Nat \ {0} : D \in Nat \ {0} /\ DitSize = D * Q
  BY <1>1, ReplicaSize
<1>3. DitSize \in Nat \ {0}
  BY <1>2
<1> QED  BY <1>3 DEF DitRanks

\* Every replica has an owner.
LEMMA OwnersExist ==
    ASSUME Fixed
    PROVE  Lists(OwnerList, Owners) /\ Owners # {} /\ Len(OwnerList) \in Nat \ {0}
<1>1. PICK T, S, P, C, D : Degrees(T, S, P, C, D)
  BY SetupDegrees
<1>2. Owners \in SUBSET (0 .. DitSize - 1)
  BY DEF Owners, DitRanks
<1>3. Lists(OwnerList, Owners)
  BY <1>2, DitSizeType, InOrderLists DEF OwnerList
<1>4. Bases4(T, S, P, C) /\ D \in Nat \ {0}
  BY <1>1 DEF Degrees
<1>5. PICK b \in Nat, c \in Nat, d \in Nat : b = S - 1 /\ c = P - 1 /\ d = C - 1
  BY <1>4 DEF Bases4
<1>6. Coordinates(0, b, c, d, 0, T, S, P, C, D)
  BY <1>4, <1>5 DEF Coordinates, Digits4, Bases4
<1>7. PICK r : r = RankWith(0, b, c, d, 0, T, S, P, C)
  OBVIOUS
<1>8. r \in DitRanks /\ Coord(r) = <<0, b, c, d, 0>>
  BY <1>1, <1>6, <1>7, RankCoordinates DEF Coord
<1>9. Coord(r)[2] = S - 1 /\ Coord(r)[3] = P - 1 /\ Coord(r)[4] = C - 1
  BY <1>5, <1>8
<1>10. r \in Owners
  BY <1>1, <1>8, <1>9, Ownership DEF OwnerAt, Owners
<1>11. Cardinality(Owners) # 0 /\ Cardinality(Owners) \in Nat /\ Len(OwnerList) = Cardinality(Owners)
  BY <1>3, <1>10, FS_EmptySet DEF Lists
<1> QED  BY <1>3, <1>10, <1>11

\* Without tensor parallelism it has one.
LEMMA OwnersOnePer ==
    ASSUME Fixed, NEW S, NEW P, NEW C, NEW D, Degrees(1, S, P, C, D)
    PROVE  OnePerReplica(Owners, D)
<1>1. Bases4(1, S, P, C)
  BY DEF Degrees
<1>2. PICK b \in 0 .. S - 1, c \in 0 .. P - 1, d \in 0 .. C - 1 :
         b = S - 1 /\ c = P - 1 /\ d = C - 1
  BY <1>1 DEF Bases4
<1>3. Owners = At5(b, c, d)
  BY <1>2, Ownership DEF OwnerAt, Owners, At5
<1> QED  BY <1>2, <1>3, OnePer

----------------------------------------------------------------------------
(* Where a rank can be, and what it holds when latents are gathered.        *)

Together == ParallelizesVae /\ ~Dedicated

\* The prompts of a call.
CallOf(r, c) ==
    IF setup.caller = "ray" THEN Share(r) ELSE Slice(Share(r), c * Batch(r), (c + 1) * Batch(r))

\* Of a rank with program counter p, calls c, latents l, owners o and images m.
RankOK(r, p, c, l, o, m) ==
    /\ c \in Nat /\ l \in Seq(Nat) /\ m \in Seq(Nat) /\ o \in {<<>>, OwnerList}
    /\ p \in {"split", "refused"} \/ ~Refused
    /\ r \in VaeRanks => p \in {"receive", "vae_broadcast", "returned", "end"}
    /\ r \in DitRanks => p \notin {"receive", "vae_broadcast"}
    /\ p \in {"announce", "collect"} => ParallelizesVae
    /\ p = "broadcast" => Together
    /\ p = "returned" => setup.caller = "ray"
    /\ p = "gather_outputs" => GathersOutputs
    /\ p = "save" => setup.caller # "ray"
    /\ p \in {"collect", "send"} => r \in Owners
    /\ p \in {"collect", "send", "broadcast"} => o = OwnerList
    /\ p = "send" => Dedicated
    /\ p \in {"announce", "collect"} => l = IF r \in Owners THEN CallOf(r, c) ELSE <<>>

ControlIn(p, c, l, o, m) ==
    /\ DOMAIN p = World /\ DOMAIN c = World /\ DOMAIN l = World
    /\ DOMAIN o = World /\ DOMAIN m = World
    /\ \A r \in World : RankOK(r, p[r], c[r], l[r], o[r], m[r])
    /\ Together => \A r, q \in World : c[r] = c[q]

Control == ControlIn(pc, call, latents, owners, images)

\* What the configuration determines does not change.
LEMMA Unchanged ==
    ASSUME UNCHANGED <<setup, groups>>
    PROVE  /\ World' = World /\ DitRanks' = DitRanks /\ VaeRanks' = VaeRanks
           /\ DitSize' = DitSize /\ SourceRank' = SourceRank
           /\ Owners' = Owners /\ OwnerList' = OwnerList
           /\ \A r : Share(r)' = Share(r) /\ Batch(r)' = Batch(r) /\ Calls(r)' = Calls(r)
           /\ Refused' = Refused /\ ParallelizesVae' = ParallelizesVae
           /\ Dedicated' = Dedicated /\ Together' = Together
           /\ GathersOutputs' = GathersOutputs /\ Copies' = Copies
           /\ setup' = setup
<1>1. DitSize' = DitSize
  BY DEF DitSize, Shape
<1>2. World' = World /\ DitRanks' = DitRanks /\ VaeRanks' = VaeRanks /\ SourceRank' = SourceRank
  BY <1>1 DEF World, DitRanks, VaeRanks, SourceRank
<1>3. \A r, axis : RankInGroup(r, axis)' = RankInGroup(r, axis)
  BY DEF RankInGroup, GroupOf
<1>4. \A r : IsOwner(r)' = IsOwner(r)
  BY <1>3 DEF IsOwner
<1>5. Owners' = Owners
  BY <1>2, <1>4 DEF Owners
<1>6. OwnerList' = OwnerList
  BY <1>5 DEF OwnerList, InOrder
<1>7. \A r : Share(r)' = Share(r)
  BY <1>1, <1>3 DEF Share
<1>8. \A r : Batch(r)' = Batch(r)
  BY <1>7 DEF Batch
<1>9. \A r : Calls(r)' = Calls(r)
  BY <1>7, <1>8 DEF Calls
<1>10. ParallelizesVae' = ParallelizesVae /\ Dedicated' = Dedicated
  BY DEF ParallelizesVae, NaiveForward, Dedicated
<1>11. Refused' = Refused /\ GathersOutputs' = GathersOutputs /\ Together' = Together
  BY <1>10 DEF Refused, GathersOutputs, Together
<1>12. Copies' = Copies
  BY <1>10 DEF Copies
<1> QED  BY <1>1, <1>2, <1>5, <1>6, <1>7, <1>8, <1>9, <1>10, <1>11, <1>12

\* The same of the prompts of a call.
LEMMA CallOfUnchanged ==
    ASSUME UNCHANGED <<setup, groups>>
    PROVE  \A r, c : CallOf(r, c)' = CallOf(r, c)
<1> QED  BY Unchanged DEF CallOf

\* So the invariant may be shown of the next values.
LEMMA ControlNext ==
    ASSUME UNCHANGED <<setup, groups>>, ControlIn(pc', call', latents', owners', images')
    PROVE  Control'
<1>1. \A r, p, c, l, o, m : RankOK(r, p, c, l, o, m)' = RankOK(r, p, c, l, o, m)
  BY Unchanged, CallOfUnchanged DEF RankOK
<1> QED  BY <1>1, Unchanged DEF Control, ControlIn

\* The ranks.
WorldIs ==
    /\ World = 0 .. DitSize + setup.vae - 1 /\ World = DitRanks \union VaeRanks
    /\ DitSize \in Nat \ {0} /\ setup.vae \in Nat
    /\ DitRanks \intersect VaeRanks = {} /\ Owners \subseteq DitRanks
    /\ 0 \in DitRanks /\ SourceRank \in DitRanks /\ SourceRank = DitSize - 1
    /\ Dedicated => DitSize \in VaeRanks /\ setup.caller = "ray" /\ ParallelizesVae
                    /\ setup.dp = 1 /\ setup.tp = 1
    /\ ~Dedicated => World = DitRanks \/ ~ParallelizesVae
    /\ setup.caller # "ray" => World = DitRanks /\ ~Dedicated
    /\ setup.caller = "ray" => ~Refused

\* Every configuration has such ranks.
LEMMA Worlds == ASSUME Fixed PROVE WorldIs
<1>1. PICK n \in Nat \ {0}, v \in Nat : n = DitSize /\ v = setup.vae
  BY DitSizeType, SetupFacts
<1>2. DitRanks = 0 .. n - 1 /\ VaeRanks = n .. n + v - 1 /\ World = DitRanks \union VaeRanks
  BY <1>1 DEF DitRanks, VaeRanks, World
<1>3. World = 0 .. n + v - 1 /\ DitRanks \intersect VaeRanks = {}
  BY <1>2
<1>4. 0 \in DitRanks /\ SourceRank \in DitRanks /\ SourceRank = n - 1 /\ Owners \subseteq DitRanks
  BY <1>1, <1>2 DEF SourceRank, Owners
<1>5. v > 0 => setup.caller = "ray" /\ setup.parallel /\ setup.dp = 1 /\ setup.tp = 1
  BY <1>1, SetupFacts
<1>6. Dedicated => DitSize \in VaeRanks /\ setup.caller = "ray" /\ ParallelizesVae
                   /\ setup.dp = 1 /\ setup.tp = 1
  BY <1>1, <1>2, <1>5 DEF Dedicated, ParallelizesVae, NaiveForward
<1>7. v = 0 => World = DitRanks
  BY <1>2
<1>8. ~Dedicated => World = DitRanks \/ ~ParallelizesVae
  BY <1>1, <1>5, <1>7 DEF Dedicated
<1>9. setup.caller # "ray" => World = DitRanks /\ ~Dedicated
  BY <1>1, <1>5, <1>7 DEF Dedicated
<1>10. setup.caller = "ray" => ~Refused
  BY DEF Refused
<1> QED  BY <1>1, <1>2, <1>3, <1>4, <1>6, <1>8, <1>9, <1>10 DEF WorldIs

\* The share of a rank, and the slices of it that its calls take.
ShareFacts(r) ==
    /\ Share(r) \in Seq(Nat) /\ Distinct(Share(r)) /\ ToSet(Share(r)) \subseteq 1 .. setup.prompts
    /\ Len(Share(r)) \in Nat /\ Batch(r) \in Nat
    /\ ~Refused => Len(Share(r)) # 0 /\ Batch(r) # 0

\* Every rank has such a share.
LEMMA Shares ==
    ASSUME Fixed, NEW r \in DitRanks
    PROVE  ShareFacts(r)
<1>1. PICK T, S, P, C, D : Degrees(T, S, P, C, D)
  BY SetupDegrees
<1>2. PICK e \in 0 .. setup.dp - 1 : Share(r) = ShareOf(e)
  <2>1. Coord(r)[5] \in 0 .. D - 1 /\ D = setup.dp
    BY <1>1, CoordinateRange DEF Degrees
  <2>2. Share(r) = ShareOf(Coord(r)[5])
    BY <1>1, ShareOfReplica
  <2> QED  BY <2>1, <2>2
<1>3. /\ Share(r) \in Seq(Nat) /\ Distinct(Share(r))
      /\ ToSet(Share(r)) \subseteq 1 .. setup.prompts
  BY <1>2, SharesProper DEF ProperShare
<1>4. Len(Share(r)) \in Nat
  BY <1>3, LenProperties
<1>5. Batch(r) \in Nat
  BY <1>4, SetupFacts DEF Batch
<1>6. ~Refused => Len(Share(r)) # 0 /\ Batch(r) # 0
  BY <1>2, SharesEqual DEF Batch
<1> QED  BY <1>3, <1>4, <1>5, <1>6 DEF ShareFacts

\* The prompts of a call are those of CallPrompts.
LEMMA CallOfType ==
    ASSUME Fixed, NEW r \in DitRanks, NEW c \in Nat
    PROVE  CallOf(r, c) \in Seq(Nat) /\ (c = call[r] => CallPrompts(r) = CallOf(r, c))
<1>1. Share(r) \in Seq(Nat) /\ Batch(r) \in Nat
  BY Shares DEF ShareFacts
<1>2. c * Batch(r) \in Nat /\ (c + 1) * Batch(r) \in Nat
  <2>1. PICK b \in Nat : b = Batch(r)
    BY <1>1
  <2> QED  BY <2>1
<1>3. PICK x \in Nat, y \in Nat : x = c * Batch(r) /\ y = (c + 1) * Batch(r)
  BY <1>2
<1>4. Slice(Share(r), x, y) \in Seq(Nat)
  BY <1>1, Sliced DEF SliceIs
<1> QED  BY <1>1, <1>3, <1>4 DEF CallOf, CallPrompts

\* The ranks start so.
LEMMA ControlInit == ASSUME Init PROVE Fixed /\ Control
<1>1. Fixed
  BY DEF Init, Fixed
<1>2. WorldIs
  BY <1>1, Worlds
<1>3. ASSUME NEW r \in World
      PROVE  RankOK(r, pc[r], call[r], latents[r], owners[r], images[r])
  <2>1. call[r] = 0 /\ latents[r] = <<>> /\ owners[r] = <<>> /\ images[r] = <<>>
    BY DEF Init
  <2>2. pc[r] = IF r \in VaeRanks THEN "receive" ELSE "split"
    BY DEF Init
  <2>3. r \in DitRanks => r \notin VaeRanks
    BY <1>2 DEF WorldIs
  <2>4. r \in VaeRanks => ~Refused
    BY <1>2, <1>3 DEF WorldIs
  <2> QED  BY <2>1, <2>2, <2>3, <2>4 DEF RankOK
<1>4. Control
  BY <1>3 DEF Init, Control, ControlIn
<1> QED  BY <1>1, <1>4

ControlNow == ControlIn(pc', call', latents', owners', images')

\* Split keeps the ranks where they can be.
LEMMA SplitControl ==
    ASSUME Fixed, Control, NEW r \in DitRanks, Split(r)
    PROVE  ControlNow
<1> USE DEF Control, ControlIn, ControlNow
<1>1. WorldIs
  BY Worlds
<1>2. /\ pc[r] = "split" /\ DOMAIN pc' = World
      /\ pc'[r] = IF Refused THEN "refused" ELSE "denoise"
      /\ \A q \in World \ {r} : pc'[q] = pc[q]
      /\ UNCHANGED <<call, latents, owners, images>>
  BY <1>1, Zenon DEF Split, At, Go, WorldIs
<1>3. ASSUME NEW q \in World
      PROVE  RankOK(q, pc'[q], call'[q], latents'[q], owners'[q], images'[q])
  <2>1. RankOK(q, pc[q], call[q], latents[q], owners[q], images[q])
    OBVIOUS
  <2>2. CASE q = r
    BY <1>1, <1>2, <2>1, <2>2 DEF RankOK, WorldIs
  <2>3. CASE q # r
    BY <1>2, <2>1, <2>3
  <2> QED  BY <2>2, <2>3
<1> QED  BY <1>2, <1>3

\* What a call returns changes the ranks that return from it.
Returned(ranks, made, q) ==
    /\ q \in ranks => /\ call'[q] = call[q] + 1 /\ pc'[q] = AfterCall(q)
                      /\ images'[q] = IF setup.caller = "ray" THEN made[q]
                                      ELSE images[q] \o made[q]
    /\ q \notin ranks => call'[q] = call[q] /\ pc'[q] = pc[q] /\ images'[q] = images[q]
    /\ DOMAIN pc' = World /\ DOMAIN call' = World /\ DOMAIN images' = World

\* Return does so.
LEMMA ReturnIs ==
    ASSUME NEW ranks, NEW made, Return(ranks, made)
    PROVE  \A q \in World : Returned(ranks, made, q)
<1> QED  BY DEF Return, Returned

\* Where a call can lead.
LEMMA AfterIs ==
    ASSUME NEW r
    PROVE  /\ AfterCall(r) \in {"returned", "denoise", "gather_outputs", "save"}
           /\ AfterCall(r) = "returned" <=> setup.caller = "ray"
           /\ AfterCall(r) = "gather_outputs" => GathersOutputs
           /\ AfterCall(r) = "save" => setup.caller # "ray"
<1> QED  BY DEF AfterCall

\* Denoise keeps the ranks where they can be.
LEMMA DenoiseControl ==
    ASSUME Fixed, Control, NEW r \in DitRanks, Denoise(r)
    PROVE  ControlNow
<1> USE DEF Control, ControlIn, ControlNow
<1>1. WorldIs
  BY Worlds
<1>2. r \in World /\ r \notin VaeRanks
  BY <1>1 DEF WorldIs
<1>3. pc[r] = "denoise" /\ owners' = owners
  BY DEF Denoise, At
<1>4. \A q \in World : RankOK(q, pc[q], call[q], latents[q], owners[q], images[q])
  OBVIOUS
<1>5. ~Refused /\ call[r] \in Nat
  BY <1>2, <1>3, <1>4 DEF RankOK
<1>6. CallPrompts(r) = CallOf(r, call[r]) /\ CallOf(r, call[r]) \in Seq(Nat)
  BY <1>5, CallOfType
<1>7. r \in Owners <=> IsOwner(r)
  BY DEF Owners
<1>8. latents' = [latents EXCEPT ![r] = IF IsOwner(r) THEN CallPrompts(r) ELSE <<>>]
  BY DEF Denoise
<1>9. /\ DOMAIN latents' = World /\ latents'[r] \in Seq(Nat)
      /\ latents'[r] = IF r \in Owners THEN CallOf(r, call[r]) ELSE <<>>
      /\ \A q \in World \ {r} : latents'[q] = latents[q]
  BY <1>2, <1>6, <1>7, <1>8
<1>10. CASE ParallelizesVae
  <2>1. /\ UNCHANGED <<call, images>> /\ DOMAIN pc' = World /\ pc'[r] = "announce"
        /\ \A q \in World \ {r} : pc'[q] = pc[q]
    BY <1>2, <1>10 DEF Denoise, Go
  <2>2. ASSUME NEW q \in World
        PROVE  RankOK(q, pc'[q], call'[q], latents'[q], owners'[q], images'[q])
    <3>1. CASE q = r
      BY <1>2, <1>3, <1>4, <1>5, <1>9, <1>10, <2>1, <3>1 DEF RankOK
    <3>2. CASE q # r
      BY <1>3, <1>4, <1>9, <2>1, <3>2
    <3> QED  BY <3>1, <3>2
  <2> QED  BY <1>3, <1>9, <2>1, <2>2
<1>11. CASE ~ParallelizesVae
  <2> DEFINE made == [q \in {r} |-> IF setup.caller = "native" \/ Returns(q)
                                      THEN CallPrompts(q) ELSE <<>>]
  <2>1. Return({r}, made)
    BY <1>11 DEF Denoise
  <2>2. made[r] \in Seq(Nat)
    BY <1>6
  <2> HIDE DEF made
  <2>7. \A q \in World : Returned({r}, made, q)
    BY <2>1, ReturnIs, Zenon
  <2>3. images[r] \in Seq(Nat) /\ images[r] \o made[r] \in Seq(Nat)
    <3>1. images[r] \in Seq(Nat)
      BY <1>2, <1>4 DEF RankOK
    <3> QED  BY <2>2, <3>1, ConcatProperties
  <2>4. ASSUME NEW q \in World
        PROVE  RankOK(q, pc'[q], call'[q], latents'[q], owners'[q], images'[q])
    <3>1. CASE q = r
      <4>1. call'[q] = call[q] + 1 /\ pc'[q] = AfterCall(q) /\ images'[q] \in Seq(Nat)
        BY <1>2, <2>2, <2>3, <2>7, <3>1 DEF Returned
      <4>2. RankOK(q, pc[q], call[q], latents[q], owners[q], images[q])
        BY <1>4
      <4>3. /\ AfterCall(q) \in {"returned", "denoise", "gather_outputs", "save"}
            /\ AfterCall(q) = "returned" <=> setup.caller = "ray"
            /\ AfterCall(q) = "gather_outputs" => GathersOutputs
            /\ AfterCall(q) = "save" => setup.caller # "ray"
        BY AfterIs
      <4>4. call'[q] \in Nat
        BY <1>5, <3>1, <4>1
      <4>5. latents'[q] \in Seq(Nat)
        BY <1>9, <3>1
      <4>6. owners'[q] \in {<<>>, OwnerList}
        BY <1>3, <4>2 DEF RankOK
      <4> QED  BY <1>2, <1>5, <3>1, <4>1, <4>3, <4>4, <4>5, <4>6 DEF RankOK
    <3>2. CASE q # r
      <4>1. call'[q] = call[q] /\ pc'[q] = pc[q] /\ images'[q] = images[q]
        BY <2>7, <3>2 DEF Returned
      <4> QED  BY <1>3, <1>4, <1>9, <3>2, <4>1
    <3> QED  BY <3>1, <3>2
  <2>5. DOMAIN pc' = World /\ DOMAIN call' = World /\ DOMAIN images' = World
    BY <1>2, <2>7 DEF Returned
  <2>6. ~Together
    BY <1>11 DEF Together
  <2> QED  BY <1>3, <1>9, <2>4, <2>5, <2>6
<1> QED  BY <1>10, <1>11

\* Every owner learns who the owners are.
AnnounceIs ==
    /\ Announcers \subseteq World /\ DitRanks \subseteq Announcers
    /\ \A q \in Announcers : pc[q] = "announce"
    /\ ParallelizesVae /\ ~Refused
    /\ UNCHANGED <<latents, images, saved>>
    /\ owners' = [r \in World |-> IF r \in Announcers THEN OwnerList ELSE owners[r]]
    /\ pc' = [r \in World |->
             IF r \notin Announcers THEN pc[r]
             ELSE IF r \in Owners /\ (Dedicated \/ Len(OwnerList) > 1) THEN "collect"
             ELSE IF Dedicated THEN "returned" ELSE "broadcast"]
    /\ call' = [r \in World |->
             IF Dedicated /\ r \in DitRanks \ Owners THEN call[r] + 1 ELSE call[r]]

\* Announce does so.
LEMMA Announces == ASSUME Fixed, Control, Announce PROVE AnnounceIs
<1>1. WorldIs
  BY Worlds
<1>2. \A q \in World : RankOK(q, pc[q], call[q], latents[q], owners[q], images[q])
  BY DEF Control, ControlIn
<1>3. Announcers \subseteq World /\ DitRanks \subseteq Announcers
  BY <1>1 DEF Announcers, WorldIs
<1>4. \A q \in Announcers : pc[q] = "announce"
  BY DEF Announce, At
<1>5. ToSet(OwnerList) = Owners
  BY OwnersExist DEF Lists
<1>6. ParallelizesVae /\ ~Refused
  <2>1. 0 \in World /\ pc[0] = "announce"
    BY <1>1, <1>3, <1>4 DEF WorldIs
  <2> QED  BY <1>2, <2>1 DEF RankOK
<1>7. InOrder({r \in DitRanks : IsOwner(r)}) = OwnerList
  BY DEF OwnerList, Owners
<1>8. /\ UNCHANGED <<latents, images, saved>>
      /\ owners' = [r \in World |-> IF r \in Announcers THEN OwnerList ELSE owners[r]]
      /\ pc' = [r \in World |->
               IF r \notin Announcers THEN pc[r]
               ELSE IF r \in Owners /\ (Dedicated \/ Len(OwnerList) > 1) THEN "collect"
               ELSE IF Dedicated THEN "returned" ELSE "broadcast"]
      /\ call' = [r \in World |->
               IF Dedicated /\ r \in DitRanks \ Owners THEN call[r] + 1 ELSE call[r]]
  BY <1>5, <1>7 DEF Announce
<1> QED  BY <1>3, <1>4, <1>6, <1>8, Zenon DEF AnnounceIs

\* Announce keeps the ranks where they can be.
LEMMA AnnounceControl == ASSUME Fixed, Control, Announce PROVE ControlNow
<1> USE DEF Control, ControlIn, ControlNow
<1>1. WorldIs /\ AnnounceIs
  BY Worlds, Announces
<1>2. \A q \in World : RankOK(q, pc[q], call[q], latents[q], owners[q], images[q])
  OBVIOUS
<1>3. Announcers \subseteq World /\ DitRanks \subseteq Announcers
  BY <1>1 DEF AnnounceIs
<1>4. \A q \in Announcers : pc[q] = "announce"
  BY <1>1 DEF AnnounceIs
<1>6. ParallelizesVae /\ ~Refused
  BY <1>1 DEF AnnounceIs
<1>8. /\ UNCHANGED <<latents, images>>
      /\ owners' = [r \in World |-> IF r \in Announcers THEN OwnerList ELSE owners[r]]
      /\ pc' = [r \in World |->
               IF r \notin Announcers THEN pc[r]
               ELSE IF r \in Owners /\ (Dedicated \/ Len(OwnerList) > 1) THEN "collect"
               ELSE IF Dedicated THEN "returned" ELSE "broadcast"]
      /\ call' = [r \in World |->
               IF Dedicated /\ r \in DitRanks \ Owners THEN call[r] + 1 ELSE call[r]]
  BY <1>1 DEF AnnounceIs
<1>9. ASSUME NEW q \in World
      PROVE  RankOK(q, pc'[q], call'[q], latents'[q], owners'[q], images'[q])
  <2>1. RankOK(q, pc[q], call[q], latents[q], owners[q], images[q])
    BY <1>2
  <2>2. /\ latents'[q] = latents[q] /\ images'[q] = images[q]
        /\ owners'[q] = IF q \in Announcers THEN OwnerList ELSE owners[q]
        /\ pc'[q] = IF q \notin Announcers THEN pc[q]
                    ELSE IF q \in Owners /\ (Dedicated \/ Len(OwnerList) > 1) THEN "collect"
                    ELSE IF Dedicated THEN "returned" ELSE "broadcast"
        /\ call'[q] = IF Dedicated /\ q \in DitRanks \ Owners THEN call[q] + 1 ELSE call[q]
    BY <1>8
  <2>3. CASE q \notin Announcers
    <3>1. q \notin DitRanks
      BY <1>3, <2>3
    <3> QED  BY <2>1, <2>2, <2>3, <3>1
  <2>4. CASE q \in Announcers
    <3>1. pc[q] = "announce" /\ q \notin VaeRanks
      BY <1>4, <2>1, <2>4 DEF RankOK
    <3>2. call'[q] \in Nat
      BY <2>1, <2>2 DEF RankOK
    <3>3. CASE pc'[q] = "collect"
      <4>1. q \in Owners /\ call'[q] = call[q]
        BY <2>2, <2>4, <3>3
      <4> QED  BY <1>6, <2>1, <2>2, <2>4, <3>1, <3>3, <4>1 DEF RankOK
    <3>4. CASE pc'[q] = "returned" /\ Dedicated
      BY <1>1, <1>6, <2>1, <2>2, <2>4, <3>1, <3>2, <3>4 DEF RankOK, WorldIs
    <3>5. CASE pc'[q] = "broadcast" /\ ~Dedicated
      BY <1>6, <2>1, <2>2, <2>4, <3>1, <3>2, <3>5 DEF RankOK, Together
    <3> QED  BY <2>2, <2>4, <3>3, <3>4, <3>5
  <2> QED  BY <2>3, <2>4
<1>10. Together => \A r, q \in World : call'[r] = call'[q]
  BY <1>8 DEF Together
<1> QED  BY <1>8, <1>9, <1>10

\* The latents of the owners, in the order of their ranks; who joins them.
OwnersLatents == [i \in DOMAIN OwnerList |-> latents[OwnerList[i]]]

LastOwner == OwnerList[Len(OwnerList)]

CollectIs ==
    /\ OwnerList # <<>> /\ \A q \in Owners : pc[q] = "collect"
    /\ LastOwner \in Owners
    /\ OwnersLatents \in [1 .. Len(OwnerList) -> Seq(Nat)] /\ Len(OwnerList) \in Nat \ {0}
    /\ FlattenSeq(OwnersLatents) \in Seq(Nat)
    /\ latents' = [latents EXCEPT ![LastOwner] = FlattenSeq(OwnersLatents)]
    /\ pc' = [r \in World |-> IF r \in Owners THEN (IF Dedicated THEN "send" ELSE "broadcast")
                                             ELSE pc[r]]
    /\ UNCHANGED <<setup, groups, call, owners, received, images, saved>>

\* Collect joins the owners' latents on the last owner.
LEMMA Collects == ASSUME Fixed, Control, Collect PROVE CollectIs
<1>1. WorldIs /\ Lists(OwnerList, Owners) /\ Owners # {} /\ Len(OwnerList) \in Nat \ {0}
  BY Worlds, OwnersExist
<1>2. 0 \in World /\ owners[0] # <<>>
  BY <1>1 DEF Collect, WorldIs
<1>3. owners[0] = OwnerList
  BY <1>2 DEF Control, ControlIn, RankOK
<1>4. ToSet(OwnerList) = Owners /\ DOMAIN OwnerList = 1 .. Len(OwnerList)
  BY <1>1 DEF Lists
<1>5. \A i \in 1 .. Len(OwnerList) : OwnerList[i] \in Owners
  BY <1>4 DEF ToSet
<1>6. LastOwner \in Owners
  BY <1>1, <1>5 DEF LastOwner
<1>7. \A q \in Owners : q \in World /\ latents[q] \in Seq(Nat)
  BY <1>1 DEF Control, ControlIn, RankOK, WorldIs
<1>8. OwnersLatents \in [1 .. Len(OwnerList) -> Seq(Nat)]
  BY <1>4, <1>5, <1>7 DEF OwnersLatents
<1>9. FlattenSeq(OwnersLatents) \in Seq(Nat)
  <2>1. PICK n \in Nat : n = Len(OwnerList)
    BY <1>1
  <2> QED  BY <1>8, <2>1, FlattenType
<1>10. /\ latents' = [latents EXCEPT ![LastOwner] = FlattenSeq(OwnersLatents)]
       /\ \A q \in Owners : pc[q] = "collect"
       /\ OwnerList # <<>>
       /\ pc' = [r \in World |-> IF r \in Owners THEN (IF Dedicated THEN "send" ELSE "broadcast")
                                                 ELSE pc[r]]
       /\ UNCHANGED <<setup, groups, call, owners, received, images, saved>>
  BY <1>3, <1>4 DEF Collect, At, Go, OwnersLatents, LastOwner
<1> QED  BY <1>1, <1>6, <1>8, <1>9, <1>10, Zenon DEF CollectIs

\* Collect keeps the ranks where they can be.
LEMMA CollectControl == ASSUME Fixed, Control, Collect PROVE ControlNow
<1> USE DEF Control, ControlIn, ControlNow
<1>1. WorldIs /\ CollectIs
  BY Worlds, Collects
<1>2. ASSUME NEW q \in World
      PROVE  RankOK(q, pc'[q], call'[q], latents'[q], owners'[q], images'[q])
  <2>1. RankOK(q, pc[q], call[q], latents[q], owners[q], images[q])
    OBVIOUS
  <2>2. /\ call'[q] = call[q] /\ owners'[q] = owners[q] /\ images'[q] = images[q]
        /\ latents'[q] = IF q = LastOwner THEN FlattenSeq(OwnersLatents) ELSE latents[q]
        /\ pc'[q] = IF q \in Owners THEN (IF Dedicated THEN "send" ELSE "broadcast") ELSE pc[q]
    BY <1>1, <1>2 DEF CollectIs
  <2>3. CASE q \notin Owners
    <3>1. q # LastOwner
      BY <1>1, <2>3 DEF CollectIs
    <3> QED  BY <2>1, <2>2, <2>3, <3>1
  <2>4. CASE q \in Owners
    <3>1. pc[q] = "collect" /\ q \in DitRanks /\ q \notin VaeRanks
      BY <1>1, <2>4 DEF CollectIs, WorldIs
    <3>2. latents'[q] \in Seq(Nat)
      BY <1>1, <2>1, <2>2 DEF CollectIs, RankOK
    <3>3. ParallelizesVae
      BY <2>1, <3>1 DEF RankOK
    <3> QED  BY <2>1, <2>2, <2>4, <3>1, <3>2, <3>3 DEF RankOK, Together
  <2> QED  BY <2>3, <2>4
<1> QED  BY <1>1, <1>2 DEF CollectIs


\* All ranks decode what the last owner has.
BroadcastIs ==
    /\ Together /\ World = DitRanks /\ \A q \in World : pc[q] = "broadcast"
    /\ LastOwner \in Owners /\ latents[LastOwner] \in Seq(Nat)
    /\ latents' = [r \in World |-> latents[LastOwner]]
    /\ Return(World, [r \in World |-> IF Returns(r) THEN latents[LastOwner] ELSE <<>>])
    /\ UNCHANGED <<setup, groups, owners, received, saved>>

\* Broadcast does so.
LEMMA Broadcasts == ASSUME Fixed, Control, Broadcast PROVE BroadcastIs
<1>1. WorldIs /\ Lists(OwnerList, Owners) /\ Owners # {} /\ Len(OwnerList) \in Nat \ {0}
  BY Worlds, OwnersExist
<1>2. ~Dedicated /\ \A q \in World : pc[q] = "broadcast"
  BY DEF Broadcast, At
<1>3. 0 \in World /\ pc[0] = "broadcast"
  BY <1>1, <1>2 DEF WorldIs
<1>4. RankOK(0, pc[0], call[0], latents[0], owners[0], images[0])
  BY <1>3 DEF Control, ControlIn
<1>5. owners[0] = OwnerList /\ Together
  BY <1>3, <1>4 DEF RankOK
<1>6. World = DitRanks
  BY <1>1, <1>5 DEF WorldIs, Together
<1>7. LastOwner \in Owners
  <2>1. ToSet(OwnerList) = Owners /\ DOMAIN OwnerList = 1 .. Len(OwnerList)
    BY <1>1 DEF Lists
  <2> QED  BY <1>1, <2>1 DEF ToSet, LastOwner
<1>8. LastOwner \in World
  BY <1>1, <1>7 DEF WorldIs
<1>9. latents[LastOwner] \in Seq(Nat)
  BY <1>8 DEF Control, ControlIn, RankOK
<1>10. /\ latents' = [r \in World |-> latents[LastOwner]]
       /\ Return(World, [r \in World |-> IF Returns(r) THEN latents[LastOwner] ELSE <<>>])
       /\ UNCHANGED <<setup, groups, owners, received, saved>>
  BY <1>5 DEF Broadcast, LastOwner
<1> QED  BY <1>2, <1>5, <1>6, <1>7, <1>9, <1>10, Zenon DEF BroadcastIs

\* A rank that returns from a call, whatever it made.
LEMMA ReturnControl ==
    ASSUME NEW q \in World, NEW ranks, NEW made, q \in ranks, Returned(ranks, made, q),
           call[q] \in Nat, images[q] \in Seq(Nat), made[q] \in Seq(Nat),
           latents'[q] \in Seq(Nat), owners'[q] \in {<<>>, OwnerList}, ~Refused,
           q \in VaeRanks => setup.caller = "ray"
    PROVE  RankOK(q, pc'[q], call'[q], latents'[q], owners'[q], images'[q])
<1>1. /\ call'[q] = call[q] + 1 /\ pc'[q] = AfterCall(q)
      /\ images'[q] = IF setup.caller = "ray" THEN made[q] ELSE images[q] \o made[q]
  BY DEF Returned
<1>2. images[q] \o made[q] \in Seq(Nat)
  BY ConcatProperties
<1>3. images'[q] \in Seq(Nat) /\ call'[q] \in Nat
  BY <1>1, <1>2
<1>4. /\ AfterCall(q) \in {"returned", "denoise", "gather_outputs", "save"}
      /\ AfterCall(q) = "returned" <=> setup.caller = "ray"
      /\ AfterCall(q) = "gather_outputs" => GathersOutputs
      /\ AfterCall(q) = "save" => setup.caller # "ray"
  BY AfterIs
<1> QED  BY <1>1, <1>3, <1>4 DEF RankOK

\* Broadcast keeps the ranks where they can be.
LEMMA BroadcastControl == ASSUME Fixed, Control, Broadcast PROVE ControlNow
<1> USE DEF Control, ControlIn, ControlNow
<1>1. WorldIs /\ BroadcastIs
  BY Worlds, Broadcasts
<1> DEFINE made == [r \in World |-> IF Returns(r) THEN latents[LastOwner] ELSE <<>>]
<1>2. Return(World, made)
  BY <1>1 DEF BroadcastIs
<1>3. \A q \in World : made[q] \in Seq(Nat)
  BY <1>1 DEF BroadcastIs
<1> HIDE DEF made
<1>4. \A q \in World : Returned(World, made, q)
  BY <1>2, ReturnIs, Zenon
<1>5. ASSUME NEW q \in World
      PROVE  RankOK(q, pc'[q], call'[q], latents'[q], owners'[q], images'[q])
  <2>1. RankOK(q, pc[q], call[q], latents[q], owners[q], images[q])
    OBVIOUS
  <2>2. /\ pc[q] = "broadcast" /\ latents'[q] \in Seq(Nat) /\ owners'[q] = owners[q]
        /\ q \notin VaeRanks
    BY <1>1 DEF BroadcastIs, WorldIs
  <2>3. /\ call[q] \in Nat /\ images[q] \in Seq(Nat) /\ ~Refused
        /\ owners'[q] \in {<<>>, OwnerList}
    BY <2>1, <2>2 DEF RankOK
  <2>4. Returned(World, made, q) /\ made[q] \in Seq(Nat)
    BY <1>3, <1>4
  <2> QED  BY <2>2, <2>3, <2>4, ReturnControl, Zenon
<1>6. \A q \in World : call'[q] = call[q] + 1 /\ DOMAIN pc' = World /\ DOMAIN call' = World
                       /\ DOMAIN images' = World
  BY <1>4 DEF Returned
<1>7. DOMAIN latents' = World /\ DOMAIN owners' = World /\ 0 \in World
  BY <1>1 DEF BroadcastIs, WorldIs
<1> QED  BY <1>5, <1>6, <1>7

TransferIs ==
    /\ Dedicated /\ pc[SourceRank] = "send" /\ pc[DitSize] = "receive"
    /\ SourceRank \in World /\ DitSize \in World /\ SourceRank # DitSize
    /\ SourceRank \notin VaeRanks /\ DitSize \in VaeRanks
    /\ \/ UNCHANGED <<pc, call, latents>>
       \/ /\ latents' = [latents EXCEPT ![DitSize] = latents[SourceRank]]
          /\ pc' = [pc EXCEPT ![SourceRank] = "returned", ![DitSize] = "vae_broadcast"]
          /\ call' = [call EXCEPT ![SourceRank] = @ + 1]
    /\ UNCHANGED <<setup, groups, owners, images, saved>>

\* Transfer goes from the last rank that denoises to the first that decodes.
LEMMA Transfers == ASSUME Fixed, Transfer PROVE TransferIs
<1>1. WorldIs
  BY Worlds
<1>2. SourceRank \in World /\ SourceRank \notin VaeRanks
  BY <1>1 DEF WorldIs
<1>3. Dedicated /\ DitSize \in World /\ DitSize \in VaeRanks
  BY <1>1 DEF WorldIs, Transfer
<1> QED  BY <1>2, <1>3, Zenon DEF Transfer, TransferIs, At

\* Transfer keeps the ranks where they can be.
LEMMA TransferControl == ASSUME Fixed, Control, Transfer PROVE ControlNow
<1> USE DEF Control, ControlIn, ControlNow
<1>1. WorldIs /\ TransferIs
  BY Worlds, Transfers
<1>2. CASE UNCHANGED <<pc, call, latents>>
  BY <1>1, <1>2 DEF TransferIs
<1>3. CASE /\ latents' = [latents EXCEPT ![DitSize] = latents[SourceRank]]
           /\ pc' = [pc EXCEPT ![SourceRank] = "returned", ![DitSize] = "vae_broadcast"]
           /\ call' = [call EXCEPT ![SourceRank] = @ + 1]
  <2>1. ASSUME NEW q \in World
        PROVE  RankOK(q, pc'[q], call'[q], latents'[q], owners'[q], images'[q])
    <3>1. /\ RankOK(q, pc[q], call[q], latents[q], owners[q], images[q])
          /\ RankOK(SourceRank, pc[SourceRank], call[SourceRank], latents[SourceRank],
                    owners[SourceRank], images[SourceRank])
      BY <1>1 DEF TransferIs
    <3>2. owners'[q] = owners[q] /\ images'[q] = images[q]
      BY <1>1 DEF TransferIs
    <3>3. CASE q = SourceRank
      <4>1. pc'[q] = "returned" /\ call'[q] = call[q] + 1 /\ latents'[q] = latents[q]
        BY <1>1, <1>3, <3>3 DEF TransferIs
      <4>2. setup.caller = "ray" /\ q \notin VaeRanks /\ pc[q] = "send"
        BY <1>1, <3>3 DEF TransferIs, WorldIs
      <4>3. call'[q] \in Nat
        BY <3>1, <4>1 DEF RankOK
      <4> QED  BY <3>1, <3>2, <4>1, <4>2, <4>3 DEF RankOK
    <3>4. CASE q = DitSize
      <4>1. pc'[q] = "vae_broadcast" /\ call'[q] = call[q] /\ latents'[q] = latents[SourceRank]
        BY <1>1, <1>3, <3>4 DEF TransferIs
      <4>2. q \in VaeRanks /\ q \notin DitRanks /\ pc[q] = "receive"
        BY <1>1, <3>4 DEF TransferIs, WorldIs
      <4> QED  BY <3>1, <3>2, <4>1, <4>2 DEF RankOK
    <3>5. CASE q # SourceRank /\ q # DitSize
      BY <1>3, <3>1, <3>2, <3>5
    <3> QED  BY <3>3, <3>4, <3>5
  <2>2. ~Together
    BY <1>1 DEF TransferIs, Together
  <2> QED  BY <1>1, <1>3, <2>1, <2>2 DEF TransferIs
<1> QED  BY <1>1, <1>2, <1>3 DEF TransferIs

VaeBroadcastIs ==
    /\ Dedicated /\ pc[DitSize] = "vae_broadcast" /\ DitSize \in VaeRanks
    /\ \A q \in VaeRanks : pc[q] \in {"receive", "vae_broadcast"} /\ q \in World /\ q \notin DitRanks
    /\ latents[DitSize] \in Seq(Nat)
    /\ latents' = [r \in World |-> IF r \in VaeRanks THEN latents[DitSize] ELSE latents[r]]
    /\ Return(VaeRanks, [r \in VaeRanks |-> latents[DitSize]])
    /\ UNCHANGED <<setup, groups, owners, received, saved>>

\* VaeBroadcast gives every dedicated rank the latents of the first.
LEMMA VaeBroadcasts == ASSUME Fixed, Control, VaeBroadcast PROVE VaeBroadcastIs
<1>1. WorldIs
  BY Worlds
<1>2. Dedicated /\ DitSize \in VaeRanks /\ \A q \in VaeRanks : q \in World /\ q \notin DitRanks
  BY <1>1 DEF WorldIs, VaeBroadcast
<1>3. pc[DitSize] = "vae_broadcast" /\ \A q \in VaeRanks : pc[q] \in {"receive", "vae_broadcast"}
  BY DEF VaeBroadcast, At
<1>4. latents[DitSize] \in Seq(Nat)
  BY <1>2 DEF Control, ControlIn, RankOK
<1> QED  BY <1>2, <1>3, <1>4, Zenon DEF VaeBroadcast, VaeBroadcastIs

\* VaeBroadcast keeps the ranks where they can be.
LEMMA VaeBroadcastControl == ASSUME Fixed, Control, VaeBroadcast PROVE ControlNow
<1> USE DEF Control, ControlIn, ControlNow
<1>1. WorldIs /\ VaeBroadcastIs
  BY Worlds, VaeBroadcasts
<1> DEFINE made == [r \in VaeRanks |-> latents[DitSize]]
<1>2. Return(VaeRanks, made)
  BY <1>1 DEF VaeBroadcastIs
<1>3. \A q \in VaeRanks : made[q] \in Seq(Nat)
  BY <1>1 DEF VaeBroadcastIs
<1> HIDE DEF made
<1>4. \A q \in World : Returned(VaeRanks, made, q)
  BY <1>2, ReturnIs, Zenon
<1>5. ASSUME NEW q \in World
      PROVE  RankOK(q, pc'[q], call'[q], latents'[q], owners'[q], images'[q])
  <2>1. RankOK(q, pc[q], call[q], latents[q], owners[q], images[q])
    OBVIOUS
  <2>2. latents'[q] \in Seq(Nat) /\ owners'[q] = owners[q]
    BY <1>1, <2>1 DEF VaeBroadcastIs, RankOK
  <2>3. CASE q \in VaeRanks
    <3>1. pc[q] \in {"receive", "vae_broadcast"} /\ setup.caller = "ray"
      BY <1>1, <2>3 DEF VaeBroadcastIs, WorldIs
    <3>2. /\ call[q] \in Nat /\ images[q] \in Seq(Nat) /\ ~Refused
          /\ owners'[q] \in {<<>>, OwnerList}
      BY <2>1, <2>2, <3>1 DEF RankOK
    <3>3. Returned(VaeRanks, made, q) /\ made[q] \in Seq(Nat)
      BY <1>3, <1>4, <2>3
    <3> QED  BY <2>2, <2>3, <3>1, <3>2, <3>3, ReturnControl, Zenon
  <2>4. CASE q \notin VaeRanks
    <3>1. call'[q] = call[q] /\ pc'[q] = pc[q] /\ images'[q] = images[q] /\ latents'[q] = latents[q]
      BY <1>1, <1>4, <2>4 DEF Returned, VaeBroadcastIs
    <3> QED  BY <2>1, <2>2, <3>1
  <2> QED  BY <2>3, <2>4
<1>6. DOMAIN pc' = World /\ DOMAIN call' = World /\ DOMAIN images' = World
  <2>1. DitSize \in World
    BY <1>1 DEF VaeBroadcastIs
  <2> QED  BY <1>4, <2>1 DEF Returned
<1>7. DOMAIN latents' = World /\ DOMAIN owners' = World /\ ~Together
  BY <1>1 DEF VaeBroadcastIs, Together
<1> QED  BY <1>5, <1>6, <1>7

\* DriverReturns keeps the ranks where they can be.
LEMMA DriverControl == ASSUME Fixed, Control, DriverReturns PROVE ControlNow
<1> USE DEF Control, ControlIn, ControlNow
<1>1. WorldIs
  BY Worlds
<1>2. /\ setup.caller = "ray" /\ \A q \in World : pc[q] = "returned"
      /\ UNCHANGED <<call, latents, images>>
  BY DEF DriverReturns, At
<1>3. /\ \/ owners' = [r \in World |-> <<>>]
         \/ owners' = owners
      /\ \/ pc' = [r \in World |-> IF r \in VaeRanks THEN "receive" ELSE "denoise"]
         \/ pc' = [r \in World |-> "end"]
  BY DEF DriverReturns, Go
<1>4. ASSUME NEW q \in World
      PROVE  RankOK(q, pc'[q], call'[q], latents'[q], owners'[q], images'[q])
  <2>1. RankOK(q, pc[q], call[q], latents[q], owners[q], images[q]) /\ ~Refused
    BY <1>1, <1>2 DEF WorldIs
  <2>2. owners'[q] \in {<<>>, OwnerList}
    BY <1>3, <2>1 DEF RankOK
  <2>3. q \in VaeRanks => q \notin DitRanks
    BY <1>1 DEF WorldIs
  <2>4. pc'[q] = (IF q \in VaeRanks THEN "receive" ELSE "denoise") \/ pc'[q] = "end"
    BY <1>3
  <2> QED  BY <1>2, <2>1, <2>2, <2>3, <2>4 DEF RankOK
<1>5. DOMAIN pc' = World /\ DOMAIN owners' = World
  BY <1>3
<1> QED  BY <1>2, <1>4, <1>5

\* Who sends in the final gather, and what arrives.
Senders == InOrder({r \in World : Representative(r)})

SendersImages == [i \in DOMAIN Senders |-> images[Senders[i]]]

GatherIs ==
    /\ \A q \in World : pc[q] = "gather_outputs"
    /\ Lists(Senders, {r \in World : Representative(r)})
    /\ Len(Senders) \in Nat /\ SendersImages \in [1 .. Len(Senders) -> Seq(Nat)]
    /\ FlattenSeq(SendersImages) \in Seq(Nat)
    /\ images' = [r \in World |-> IF r = DitSize - 1 THEN FlattenSeq(SendersImages) ELSE <<>>]
    /\ pc' = [r \in World |-> "save"]
    /\ UNCHANGED <<setup, groups, call, latents, owners, received, saved>>

\* GatherOutputs joins them on the last rank.
LEMMA Gathers == ASSUME Fixed, Control, GatherOutputs PROVE GatherIs
<1>1. WorldIs
  BY Worlds
<1> DEFINE R == {r \in World : Representative(r)}
<1>2. PICK b \in Nat : World = 0 .. b - 1
  BY <1>1 DEF WorldIs
<1>3. Lists(Senders, R)
  BY <1>2, InOrderLists DEF Senders
<1>4. PICK n \in Nat : n = Len(Senders) /\ DOMAIN Senders = 1 .. n
  BY <1>3 DEF Lists
<1>5. \A i \in 1 .. n : Senders[i] \in World
  BY <1>3, <1>4 DEF Lists
<1>6. \A q \in World : images[q] \in Seq(Nat)
  BY DEF Control, ControlIn, RankOK
<1>7. SendersImages \in [1 .. n -> Seq(Nat)]
  BY <1>4, <1>5, <1>6 DEF SendersImages
<1>8. FlattenSeq(SendersImages) \in Seq(Nat)
  BY <1>7, FlattenType
<1>9. /\ \A q \in World : pc[q] = "gather_outputs"
      /\ images' = [r \in World |-> IF r = DitSize - 1 THEN FlattenSeq(SendersImages) ELSE <<>>]
      /\ pc' = [r \in World |-> "save"]
      /\ UNCHANGED <<setup, groups, call, latents, owners, received, saved>>
  BY DEF GatherOutputs, At, Go, SendersImages, Senders
<1> QED  BY <1>3, <1>4, <1>7, <1>8, <1>9, Zenon DEF GatherIs

\* GatherOutputs keeps the ranks where they can be.
LEMMA GatherControl == ASSUME Fixed, Control, GatherOutputs PROVE ControlNow
<1> USE DEF Control, ControlIn, ControlNow
<1>1. WorldIs /\ GatherIs
  BY Worlds, Gathers
<1>2. ASSUME NEW q \in World
      PROVE  RankOK(q, pc'[q], call'[q], latents'[q], owners'[q], images'[q])
  <2>1. RankOK(q, pc[q], call[q], latents[q], owners[q], images[q]) /\ pc[q] = "gather_outputs"
    BY <1>1 DEF GatherIs
  <2>2. /\ call'[q] = call[q] /\ latents'[q] = latents[q] /\ owners'[q] = owners[q]
        /\ pc'[q] = "save" /\ images'[q] \in Seq(Nat)
    BY <1>1 DEF GatherIs
  <2>3. setup.caller # "ray" /\ q \notin VaeRanks /\ ~Refused
    BY <2>1 DEF RankOK, GathersOutputs
  <2> QED  BY <2>1, <2>2, <2>3 DEF RankOK
<1> QED  BY <1>1, <1>2 DEF GatherIs

\* Save keeps the ranks where they can be.
LEMMA SaveControl == ASSUME Fixed, Control, Save PROVE ControlNow
<1> USE DEF Control, ControlIn, ControlNow
<1>1. /\ \A q \in World : pc[q] = "save" /\ pc' = [r \in World |-> "end"]
      /\ UNCHANGED <<call, latents, owners, images>>
  BY DEF Save, At, Go
<1>2. ASSUME NEW q \in World
      PROVE  RankOK(q, pc'[q], call'[q], latents'[q], owners'[q], images'[q])
  <2>1. RankOK(q, pc[q], call[q], latents[q], owners[q], images[q]) /\ pc[q] = "save"
    BY <1>1
  <2> QED  BY <1>1, <2>1 DEF RankOK
<1>3. pc' = [r \in World |-> "end"]
  BY DEF Save, Go
<1> QED  BY <1>1, <1>2, <1>3

\* Every step keeps the ranks where they can be.
LEMMA ControlStep == ASSUME Fixed, Control, [Next]_vars PROVE Control'
<1>1. UNCHANGED <<setup, groups>>
  BY FixedStep
<1>2. ControlNow
  <2>1. ASSUME NEW r \in DitRanks, Split(r) \/ Denoise(r) PROVE ControlNow
    BY <2>1, SplitControl, DenoiseControl, Zenon
  <2>2. CASE UNCHANGED vars
    BY <2>2 DEF ControlNow, Control, vars
  <2> QED
    BY <2>1, <2>2, AnnounceControl, CollectControl, BroadcastControl, TransferControl,
       VaeBroadcastControl, DriverControl, GatherControl, SaveControl, Zenon
    DEF Next, Step, Stop
<1> QED  BY <1>1, <1>2, ControlNext DEF ControlNow

\* The ranks are always where they can be.
LEMMA ControlAlways == Spec => []Control
<1>1. Init => Control
  BY ControlInit
<1>2. Fixed /\ Control /\ [Next]_vars => Control'
  BY ControlStep
<1> QED  BY <1>1, <1>2, GroupsFixed, PTL DEF Spec

\* Owners of latents that are gathered hold equally many.
LEMMA EqualCalls ==
    ASSUME Fixed, Control, NEW q \in Owners, NEW t \in Owners, pc[q] = "collect", pc[t] = "collect"
    PROVE  Len(latents[q]) = Len(latents[t])
<1>1. WorldIs /\ q \in DitRanks /\ t \in DitRanks /\ q \in World /\ t \in World
  BY Worlds DEF WorldIs
<1>2. /\ RankOK(q, pc[q], call[q], latents[q], owners[q], images[q])
      /\ RankOK(t, pc[t], call[t], latents[t], owners[t], images[t])
  BY <1>1 DEF Control, ControlIn
<1>3. /\ latents[q] = CallOf(q, call[q]) /\ latents[t] = CallOf(t, call[t])
      /\ ParallelizesVae /\ ~Refused /\ call[q] \in Nat /\ call[t] \in Nat
  BY <1>2 DEF RankOK
<1>4. Len(Share(q)) = Len(Share(t))
  <2>1. PICK T, S, P, C, D : Degrees(T, S, P, C, D)
    BY SetupDegrees
  <2>2. PICK e \in 0 .. setup.dp - 1, g \in 0 .. setup.dp - 1 :
           e = Coord(q)[5] /\ g = Coord(t)[5]
    <3>1. Coord(q)[5] \in 0 .. D - 1 /\ Coord(t)[5] \in 0 .. D - 1 /\ D = setup.dp
      BY <1>1, <2>1, CoordinateRange DEF Degrees
    <3> QED  BY <3>1
  <2>3. Share(q) = ShareOf(e) /\ Share(t) = ShareOf(g)
    BY <1>1, <2>1, <2>2, ShareOfReplica
  <2>4. Len(ShareOf(e)) = Len(ShareOf(g))
    BY <1>3, SharesEqual
  <2> QED  BY <2>3, <2>4
<1>5. CASE setup.caller = "ray"
  BY <1>3, <1>4, <1>5 DEF CallOf
<1>6. CASE setup.caller # "ray"
  <2>1. Together
    BY <1>1, <1>3, <1>6 DEF WorldIs, Together
  <2>2. call[q] = call[t]
    BY <1>1, <2>1 DEF Control, ControlIn
  <2>3. Batch(q) = Batch(t) /\ Batch(q) \in Nat
    BY <1>1, <1>4, Shares DEF Batch, ShareFacts
  <2>4. call[q] * Batch(q) \in Nat /\ (call[q] + 1) * Batch(q) \in Nat
    <3>1. PICK b \in Nat, c \in Nat : b = Batch(q) /\ c = call[q]
      BY <1>3, <2>3
    <3> QED  BY <3>1
  <2>5. PICK x \in Nat, y \in Nat : x = call[q] * Batch(q) /\ y = (call[q] + 1) * Batch(q)
    BY <2>4
  <2>6. latents[q] = Slice(Share(q), x, y) /\ latents[t] = Slice(Share(t), x, y)
    BY <1>3, <1>6, <2>2, <2>3, <2>5 DEF CallOf
  <2>7. Share(q) \in Seq(Nat) /\ Share(t) \in Seq(Nat)
    BY <1>1, Shares DEF ShareFacts
  <2>8. SliceIs(latents[q], Share(q), x, y) /\ SliceIs(latents[t], Share(t), x, y)
    BY <2>6, <2>7, Sliced
  <2> QED  BY <1>4, <2>8 DEF SliceIs
<1> QED  BY <1>5, <1>6

\* The owners of latents that are gathered into equal buffers hold equally many
\* (gather_latents_for_vae), for every degree of every kind of parallelism.
THEOREM OwnersGatherEqually == Spec => []EqualGather
<1>1. Fixed /\ Control => EqualGather
  <2> SUFFICES ASSUME Fixed, Control, NEW r \in DitRanks, owners[r] # <<>>,
                      At(ToSet(owners[r]), "collect"), NEW q \in ToSet(owners[r])
               PROVE  Len(latents[q]) = Len(latents[owners[r][1]])
    BY DEF EqualGather
  <2>1. WorldIs /\ Lists(OwnerList, Owners) /\ Owners # {} /\ Len(OwnerList) \in Nat \ {0}
    BY Worlds, OwnersExist
  <2>2. r \in World
    BY <2>1 DEF WorldIs
  <2>3. owners[r] = OwnerList
    BY <2>2 DEF Control, ControlIn, RankOK
  <2>4. ToSet(OwnerList) = Owners /\ DOMAIN OwnerList = 1 .. Len(OwnerList)
    BY <2>1 DEF Lists
  <2>5. OwnerList[1] \in Owners
    BY <2>1, <2>4 DEF ToSet
  <2>6. \A t \in Owners : pc[t] = "collect"
    BY <2>3, <2>4 DEF At
  <2> QED  BY <2>3, <2>4, <2>5, <2>6, EqualCalls
<1> QED  BY <1>1, ControlAlways, GroupsFixed, PTL

----------------------------------------------------------------------------
(* What the ranks have on the way to the saved images.                      *)

\* The prompts of the first calls.
MadeBy(r, c) == Slice(Share(r), 0, c * Batch(r))

OwnersMade(e, c) == {o \in Owners : e \in ToSet(MadeBy(o, c))}

OwnersCall(e, c) == {o \in Owners : e \in ToSet(CallOf(o, c))}

OwnersShare(e) == {o \in Owners : e \in ToSet(Share(o))}

Final(s) == \A e \in 1 .. setup.prompts : Count(s, e) = Copies

\* Who has images when every rank decodes its own.
Makes(r) == setup.caller = "native" \/ r \in Owners

Ready(r, p, c) == p \in {"gather_outputs", "save"} => c >= Calls(r)

\* Every rank decodes its own.
OwnData(r, p, c, m) ==
    ~ParallelizesVae =>
        /\ setup.caller # "ray" /\ (p \in {"split", "denoise", "gather_outputs"}
                                    \/ (p = "save" /\ ~GathersOutputs)) =>
              m = IF Makes(r) THEN MadeBy(r, c) ELSE <<>>
        /\ p = "returned" => m = IF r \in Owners THEN Share(r) ELSE <<>>

\* All decode together, the first rank has the images.
JointData(r, p, c, l, m) ==
    Together =>
        /\ r # 0 /\ p \notin {"save", "end"} => m = <<>>
        /\ r = 0 /\ setup.caller # "ray" /\ p \notin {"save", "end"} =>
              \A e \in 1 .. setup.prompts : Count(m, e) = Cardinality(OwnersMade(e, c))
        /\ r = 0 /\ p = "returned" =>
              \A e \in 1 .. setup.prompts : Count(m, e) = Cardinality(OwnersShare(e))
        /\ r = LastOwner /\ p = "broadcast" =>
              \A e \in 1 .. setup.prompts : Count(l, e) = Cardinality(OwnersCall(e, c))

\* Dedicated ranks decode.
VaeData(r, p, l, m) ==
    Dedicated =>
        /\ r \in DitRanks => m = <<>>
        /\ p \in {"send", "vae_broadcast"} => l = AllPrompts
        /\ r \in VaeRanks /\ p = "returned" => m = AllPrompts

GatheredData(r, p, m) ==
    p = "save" /\ GathersOutputs => IF r = DitSize - 1 THEN Final(m) ELSE m = <<>>

SavedData(p, s) == p = "end" => Final(s)

RankData(r, p, c, l, m, s) ==
    /\ Ready(r, p, c) /\ OwnData(r, p, c, m) /\ JointData(r, p, c, l, m)
    /\ VaeData(r, p, l, m) /\ GatheredData(r, p, m) /\ SavedData(p, s)

DataIn(p, c, l, m, s) == \A r \in World : RankData(r, p[r], c[r], l[r], m[r], s)

Data == setup.tp = 1 => DataIn(pc, call, latents, images, saved)

DataNow == DataIn(pc', call', latents', images', saved')

\* What the ranks have may be shown of the next values.
LEMMA DataNext ==
    ASSUME UNCHANGED <<setup, groups>>, setup.tp = 1 => DataNow
    PROVE  Data'
<1>1. \A r, c : MadeBy(r, c)' = MadeBy(r, c)
  BY Unchanged DEF MadeBy
<1>2. \A e, c : OwnersMade(e, c)' = OwnersMade(e, c)
  BY <1>1, Unchanged DEF OwnersMade
<1>3. \A e, c : OwnersCall(e, c)' = OwnersCall(e, c)
  BY CallOfUnchanged, Unchanged DEF OwnersCall
<1>4. \A e : OwnersShare(e)' = OwnersShare(e)
  BY Unchanged DEF OwnersShare
<1>5. LastOwner' = LastOwner /\ AllPrompts' = AllPrompts
  BY Unchanged DEF LastOwner, AllPrompts
<1>6. \A s : Final(s)' = Final(s)
  BY Unchanged DEF Final
<1>7. \A r : Makes(r)' = Makes(r)
  BY Unchanged DEF Makes
<1>8. \A r, p, c : Ready(r, p, c)' = Ready(r, p, c)
  BY Unchanged DEF Ready
<1>9. \A r, p, c, m : OwnData(r, p, c, m)' = OwnData(r, p, c, m)
  BY <1>1, <1>7, Unchanged DEF OwnData
<1>10. \A r, p, c, l, m : JointData(r, p, c, l, m)' = JointData(r, p, c, l, m)
  BY <1>2, <1>3, <1>4, <1>5, Unchanged DEF JointData
<1>11. \A r, p, l, m : VaeData(r, p, l, m)' = VaeData(r, p, l, m)
  BY <1>5, Unchanged DEF VaeData
<1>12. \A r, p, m : GatheredData(r, p, m)' = GatheredData(r, p, m)
  BY <1>6, Unchanged DEF GatheredData
<1>13. \A p, s : SavedData(p, s)' = SavedData(p, s)
  BY <1>6, Unchanged DEF SavedData
<1>14. \A r, p, c, l, m, s : RankData(r, p, c, l, m, s)' = RankData(r, p, c, l, m, s)
  BY <1>8, <1>9, <1>10, <1>11, <1>12, <1>13 DEF RankData
<1> QED  BY <1>14, Unchanged DEF Data, DataNow, DataIn

----------------------------------------------------------------------------
(* What the calls of a rank make.                                           *)

\* Of the first calls of a rank and of its next one.
CallsMake(r, c) ==
    /\ MadeBy(r, c) \in Seq(Nat) /\ CallOf(r, c) \in Seq(Nat)
    /\ Distinct(MadeBy(r, c)) /\ Distinct(CallOf(r, c))
    /\ MadeBy(r, 0) = <<>>
    /\ setup.caller # "ray" =>
          /\ MadeBy(r, c) \o CallOf(r, c) = MadeBy(r, c + 1)
          /\ \A e : /\ e \in ToSet(MadeBy(r, c + 1)) <=>
                           e \in ToSet(MadeBy(r, c)) \/ e \in ToSet(CallOf(r, c))
                    /\ ~ (e \in ToSet(MadeBy(r, c)) /\ e \in ToSet(CallOf(r, c)))
          /\ ~Refused /\ c >= Calls(r) => MadeBy(r, c) = Share(r)

\* Every rank's calls do.
LEMMA CallsMakes == ASSUME Fixed, NEW r \in DitRanks, NEW c \in Nat PROVE CallsMake(r, c)
<1>1. PICK s \in Seq(Nat), b \in Nat : s = Share(r) /\ b = Batch(r)
  BY Shares DEF ShareFacts
<1>2. s \in Seq(Nat) /\ Distinct(s) /\ Len(s) \in Nat /\ (~Refused => Len(s) # 0 /\ b # 0)
  BY <1>1, Shares DEF ShareFacts
<1>3. c * b \in Nat /\ (c + 1) * b \in Nat /\ c * b <= (c + 1) * b /\ 0 * b = 0
  <2>1. c * b \in Nat /\ (c + 1) * b = c * b + b
    OBVIOUS
  <2>2. PICK x \in Nat : x = c * b
    BY <2>1
  <2> QED  BY <2>1, <2>2
<1>4. PICK x \in Nat, y \in Nat : x = c * b /\ y = (c + 1) * b /\ x <= y
  BY <1>3
<1>5. MadeBy(r, c) = Slice(s, 0, x) /\ MadeBy(r, c + 1) = Slice(s, 0, y) /\ MadeBy(r, 0) = Slice(s, 0, 0)
  BY <1>1, <1>3, <1>4 DEF MadeBy
<1>6. CallOf(r, c) = IF setup.caller = "ray" THEN s ELSE Slice(s, x, y)
  BY <1>1, <1>4 DEF CallOf
<1>7. Slice(s, 0, x) \in Seq(Nat) /\ Slice(s, x, y) \in Seq(Nat)
  BY <1>2, Sliced, 0 \in Nat DEF SliceIs
<1>8. Distinct(Slice(s, 0, x)) /\ Distinct(Slice(s, x, y))
  BY <1>2, SliceDistinct, 0 \in Nat
<1>9. Slice(s, 0, 0) = <<>>
  BY <1>2, Len(s) >= Len(s), SliceEnds
<1>10. Slice(s, 0, x) \o Slice(s, x, y) = Slice(s, 0, y)
  BY <1>2, <1>4, SliceJoin
<1>11. \A e : /\ e \in ToSet(Slice(s, 0, y)) <=>
                     e \in ToSet(Slice(s, 0, x)) \/ e \in ToSet(Slice(s, x, y))
              /\ ~ (e \in ToSet(Slice(s, 0, x)) /\ e \in ToSet(Slice(s, x, y)))
  BY <1>2, <1>4, SliceSplit
<1>12. ASSUME setup.caller # "ray", ~Refused, c >= Calls(r) PROVE MadeBy(r, c) = Share(r)
  <2>1. b \in Nat \ {0} /\ Len(s) \in Int /\ Len(s) + b - 1 >= 0
    BY <1>2, <1>12
  <2>2. PICK q \in Nat : q = CeilDiv(Len(s), b) /\ Len(s) <= q * b
    BY <2>1, CeilDivFacts
  <2>3. q = Calls(r)
    BY <1>1, <1>12, <2>2 DEF Calls
  <2>4. q * b <= c * b /\ q * b \in Nat
    BY <1>12, <2>1, <2>3, LessMultiples
  <2>5. x >= Len(s)
    <3>1. PICK z \in Nat : z = q * b
      BY <2>4
    <3> QED  BY <1>2, <1>4, <2>2, <2>4, <3>1
  <2> QED  BY <1>1, <1>2, <1>5, <2>5, SliceEnds
<1> QED  BY <1>5, <1>6, <1>7, <1>8, <1>9, <1>10, <1>11, <1>12, <1>2 DEF CallsMake

\* Without tensor parallelism, the representatives of the replicas have every
\* prompt as often as it has to come out of the decoder.
LEMMA RepresentativesHave ==
    ASSUME Fixed, setup.tp = 1, NEW e \in 1 .. setup.prompts
    PROVE  /\ Cardinality(OwnersShare(e)) = IF setup.prompts = 1 THEN setup.dp ELSE 1
           /\ setup.caller = "native" =>
                 Cardinality({r \in DitRanks : Representative(r) /\ e \in ToSet(Share(r))})
                     = IF setup.prompts = 1 THEN setup.dp ELSE 1
<1>1. PICK T, S, P, C, D : Degrees(T, S, P, C, D)
  BY SetupDegrees
<1>2. Degrees(1, S, P, C, D)
  BY <1>1 DEF Degrees
<1>3. OnePerReplica(Owners, D) /\ Owners \in SUBSET DitRanks
  BY <1>2, OwnersOnePer DEF Owners
<1>4. Cardinality(OwnersShare(e)) = IF setup.prompts = 1 THEN setup.dp ELSE 1
  BY <1>2, <1>3, HaversCount DEF OwnersShare
<1>5. ASSUME setup.caller = "native"
      PROVE  Cardinality({r \in DitRanks : Representative(r) /\ e \in ToSet(Share(r))})
                 = IF setup.prompts = 1 THEN setup.dp ELSE 1
  <2>1. P = 1 /\ S \in Nat \ {0} /\ C \in Nat \ {0}
    BY <1>2, <1>5, SetupFacts DEF Degrees, Bases4
  <2>2. PICK z : z = 0 /\ z \in 0 .. S - 1 /\ z \in 0 .. P - 1 /\ z \in 0 .. C - 1
    BY <2>1
  <2>3. OnePerReplica(At5(z, z, z), D) /\ At5(z, z, z) \in SUBSET DitRanks
    BY <1>2, <2>2, OnePer DEF At5
  <2>4. ASSUME NEW r \in DitRanks PROVE Representative(r) <=> r \in At5(z, z, z)
    <3>1. RankInGroup(r, "sp") = Coord(r)[2] /\ RankInGroup(r, "cfg") = Coord(r)[4]
      BY <1>2, Ownership DEF OwnerAt
    <3>2. Coord(r)[3] = 0
      BY <1>2, <2>1, CoordinateRange
    <3> QED  BY <1>5, <2>2, <3>1, <3>2 DEF Representative, At5
  <2>5. {r \in DitRanks : Representative(r) /\ e \in ToSet(Share(r))}
            = {r \in At5(z, z, z) : e \in ToSet(Share(r))}
    BY <2>3, <2>4
  <2>6. PICK U : U = At5(z, z, z)
    OBVIOUS
  <2>7. Cardinality({r \in U : e \in ToSet(Share(r))}) = IF setup.prompts = 1 THEN setup.dp ELSE 1
    BY <1>2, <2>3, <2>6, HaversCount
  <2> QED  BY <2>5, <2>6, <2>7
<1> QED  BY <1>4, <1>5

\* The images of a rank that has made nothing.
LEMMA NothingMade ==
    ASSUME Fixed, NEW e
    PROVE  Cardinality(OwnersMade(e, 0)) = 0 /\ Count(<<>>, e) = 0
<1>1. ASSUME NEW o \in Owners PROVE e \notin ToSet(MadeBy(o, 0))
  <2>1. o \in DitRanks
    BY DEF Owners
  <2>2. MadeBy(o, 0) = <<>>
    BY <2>1, CallsMakes, 0 \in Nat DEF CallsMake
  <2> QED  BY <2>2 DEF ToSet
<1>2. OwnersMade(e, 0) = {}
  BY <1>1 DEF OwnersMade
<1> QED  BY <1>2, FS_EmptySet, CountNone

\* At the start nobody has anything.
LEMMA DataInit == ASSUME Init PROVE Data
<1>1. Fixed /\ WorldIs
  BY ControlInit, Worlds
<1>2. ASSUME NEW r \in World
      PROVE  RankData(r, pc[r], call[r], latents[r], images[r], saved)
  <2>1. call[r] = 0 /\ images[r] = <<>> /\ pc[r] = IF r \in VaeRanks THEN "receive" ELSE "split"
    BY DEF Init
  <2>2. OwnData(r, pc[r], call[r], images[r])
    <3>1. ASSUME r \in DitRanks PROVE MadeBy(r, 0) = <<>>
      BY <1>1, <3>1, CallsMakes, 0 \in Nat DEF CallsMake
    <3>2. r \notin DitRanks => r \in VaeRanks
      BY <1>1 DEF WorldIs
    <3> QED  BY <2>1, <3>1, <3>2 DEF OwnData
  <2>3. JointData(r, pc[r], call[r], latents[r], images[r])
    BY <1>1, <2>1, NothingMade DEF JointData
  <2> QED  BY <2>1, <2>2, <2>3 DEF RankData, Ready, VaeData, GatheredData, SavedData
<1> QED  BY <1>2 DEF Data, DataIn

\* A rank nothing happens to keeps what it has.
LEMMA DataKept ==
    ASSUME NEW q, NEW s,
           RankData(q, pc[q], call[q], latents[q], images[q], saved),
           pc'[q] = pc[q], call'[q] = call[q], latents'[q] = latents[q], images'[q] = images[q],
           s = saved
    PROVE  RankData(q, pc'[q], call'[q], latents'[q], images'[q], s)
<1> QED  BY Zenon

\* Split keeps what the ranks have.
LEMMA SplitData ==
    ASSUME Fixed, Control, DataIn(pc, call, latents, images, saved), NEW r \in DitRanks, Split(r)
    PROVE  DataNow
<1>1. WorldIs
  BY Worlds
<1>2. /\ pc[r] = "split" /\ r \in World
      /\ pc'[r] = IF Refused THEN "refused" ELSE "denoise"
      /\ \A q \in World \ {r} : pc'[q] = pc[q]
      /\ UNCHANGED <<call, latents, images, saved>>
  BY <1>1, Zenon DEF Split, At, Go, WorldIs
<1>3. ASSUME NEW q \in World
      PROVE  RankData(q, pc'[q], call'[q], latents'[q], images'[q], saved')
  <2>1. RankData(q, pc[q], call[q], latents[q], images[q], saved)
    BY DEF DataIn
  <2>2. CASE q = r
    <3>1. pc[q] = "split" /\ pc'[q] \in {"refused", "denoise"}
      BY <1>2, <2>2
    <3>2. Ready(q, pc'[q], call[q]) /\ OwnData(q, pc'[q], call[q], images[q])
      BY <2>1, <3>1 DEF RankData, Ready, OwnData
    <3>3. JointData(q, pc'[q], call[q], latents[q], images[q])
      BY <2>1, <3>1 DEF RankData, JointData
    <3>4. /\ VaeData(q, pc'[q], latents[q], images[q]) /\ GatheredData(q, pc'[q], images[q])
          /\ SavedData(pc'[q], saved)
      BY <2>1, <3>1 DEF RankData, VaeData, GatheredData, SavedData
    <3> QED  BY <1>2, <3>2, <3>3, <3>4 DEF RankData
  <2>3. CASE q # r
    BY <1>2, <2>1, <2>3
  <2> QED  BY <2>2, <2>3
<1> QED  BY <1>3 DEF DataNow, DataIn

\* When a rank is through with its calls.
LEMMA AfterAll ==
    ASSUME Fixed, NEW r \in DitRanks, ~Refused, call[r] \in Nat
    PROVE  /\ AfterCall(r) \in {"gather_outputs", "save"} => call[r] + 1 >= Calls(r)
           /\ AfterCall(r) = "save" => ~GathersOutputs
<1>1. Calls(r) \in Int
  <2>1. Batch(r) \in Nat \ {0} /\ Len(Share(r)) \in Nat
    BY Shares DEF ShareFacts
  <2>2. PICK b \in Nat \ {0}, n \in Nat : b = Batch(r) /\ n = Len(Share(r))
    BY <2>1
  <2>3. n \in Int /\ n + b - 1 >= 0
    BY <2>2
  <2>4. CeilDiv(n, b) \in Nat
    BY <2>2, <2>3, CeilDivFacts
  <2> QED  BY <2>2, <2>4 DEF Calls
<1>2. PICK k \in Int : k = Calls(r)
  BY <1>1
<1>3. ~ (call[r] + 1 < k) => call[r] + 1 >= k
  BY <1>2
<1> QED  BY <1>2, <1>3, Zenon DEF AfterCall

\* A call of a rank that decodes its own.
LEMMA OwnCall ==
    ASSUME Fixed, Control, NEW r \in DitRanks, pc[r] = "denoise", ~ParallelizesVae,
           OwnData(r, pc[r], call[r], images[r]), NEW made,
           made = (IF setup.caller = "native" \/ Returns(r) THEN CallPrompts(r) ELSE <<>>)
    PROVE  IF setup.caller = "ray"
             THEN made = IF r \in Owners THEN Share(r) ELSE <<>>
             ELSE images[r] \o made = IF Makes(r) THEN MadeBy(r, call[r] + 1) ELSE <<>>
<1>1. WorldIs /\ r \in World
  BY Worlds DEF WorldIs
<1>2. call[r] \in Nat
  BY <1>1 DEF Control, ControlIn, RankOK
<1>3. CallPrompts(r) = CallOf(r, call[r]) /\ CallsMake(r, call[r])
  BY <1>2, CallOfType, CallsMakes
<1>4. Returns(r) <=> r \in Owners
  BY DEF Returns, Owners
<1>5. CASE setup.caller = "ray"
  BY <1>3, <1>4, <1>5 DEF CallOf
<1>6. CASE setup.caller # "ray"
  <2>1. images[r] = IF Makes(r) THEN MadeBy(r, call[r]) ELSE <<>>
    BY <1>6 DEF OwnData
  <2>2. MadeBy(r, call[r]) \o CallOf(r, call[r]) = MadeBy(r, call[r] + 1)
    BY <1>3, <1>6 DEF CallsMake
  <2>3. Makes(r) <=> setup.caller = "native" \/ Returns(r)
    BY <1>4 DEF Makes
  <2>4. <<>> \o <<>> = <<>>
    OBVIOUS
  <2> QED  BY <1>3, <1>6, <2>1, <2>2, <2>3, <2>4
<1> QED  BY <1>5, <1>6

\* Denoise: a rank that decodes its own has the next call's images.
LEMMA DenoiseData ==
    ASSUME Fixed, Control, DataIn(pc, call, latents, images, saved), NEW r \in DitRanks, Denoise(r)
    PROVE  DataNow
<1>1. WorldIs
  BY Worlds
<1>2. r \in World /\ pc[r] = "denoise" /\ saved' = saved
  BY <1>1 DEF WorldIs, Denoise, At
<1>3. /\ RankData(r, pc[r], call[r], latents[r], images[r], saved)
      /\ RankOK(r, pc[r], call[r], latents[r], owners[r], images[r])
  BY <1>2 DEF DataIn, Control, ControlIn
<1>4. ~Refused /\ call[r] \in Nat
  BY <1>2, <1>3 DEF RankOK
<1>5. \A q \in World \ {r} : latents'[q] = latents[q]
  BY DEF Denoise, Control, ControlIn
<1>6. CASE ParallelizesVae
  <2>1. /\ UNCHANGED <<call, images>> /\ pc'[r] = "announce"
        /\ \A q \in World \ {r} : pc'[q] = pc[q]
    BY <1>2, <1>6 DEF Denoise, Go
  <2>2. ASSUME NEW q \in World
        PROVE  RankData(q, pc'[q], call'[q], latents'[q], images'[q], saved')
    <3>1. RankData(q, pc[q], call[q], latents[q], images[q], saved)
      BY DEF DataIn
    <3>2. CASE q = r
      <4>1. pc'[q] = "announce" /\ pc[q] = "denoise"
        BY <1>2, <2>1, <3>2
      <4>2. Ready(q, pc'[q], call[q]) /\ OwnData(q, pc'[q], call[q], images[q])
        BY <1>6, <4>1 DEF Ready, OwnData
      <4>3. JointData(q, pc'[q], call[q], latents'[q], images[q])
        BY <3>1, <4>1 DEF RankData, JointData
      <4>4. /\ VaeData(q, pc'[q], latents'[q], images[q]) /\ GatheredData(q, pc'[q], images[q])
            /\ SavedData(pc'[q], saved)
        BY <3>1, <4>1 DEF RankData, VaeData, GatheredData, SavedData
      <4> QED  BY <1>2, <2>1, <4>2, <4>3, <4>4 DEF RankData
    <3>3. CASE q # r
      BY <1>2, <1>5, <2>1, <3>1, <3>3
    <3> QED  BY <3>2, <3>3
  <2> QED  BY <2>2 DEF DataNow, DataIn
<1>7. CASE ~ParallelizesVae
  <2> DEFINE made == [q \in {r} |-> IF setup.caller = "native" \/ Returns(q)
                                      THEN CallPrompts(q) ELSE <<>>]
  <2>1. Return({r}, made)
    BY <1>7 DEF Denoise
  <2>2. made[r] = IF setup.caller = "native" \/ Returns(r) THEN CallPrompts(r) ELSE <<>>
    OBVIOUS
  <2> HIDE DEF made
  <2>3. \A q \in World : Returned({r}, made, q)
    BY <2>1, ReturnIs, Zenon
  <2>4. ~Together /\ ~Dedicated /\ setup.vae = 0
    <3>1. ~Together
      BY <1>7 DEF Together
    <3>2. ~Dedicated
      BY <1>1, <1>7 DEF WorldIs
    <3>3. setup.vae = 0
      BY <1>1, <3>2, SetupFacts DEF Dedicated
    <3> QED  BY <3>1, <3>2, <3>3
  <2>5. ASSUME NEW q \in World
        PROVE  RankData(q, pc'[q], call'[q], latents'[q], images'[q], saved')
    <3>1. RankData(q, pc[q], call[q], latents[q], images[q], saved) /\ Returned({r}, made, q)
      BY <2>3 DEF DataIn
    <3>2. CASE q = r
      <4>1. /\ pc'[r] = AfterCall(r) /\ call'[r] = call[r] + 1
            /\ images'[r] = IF setup.caller = "ray" THEN made[r] ELSE images[r] \o made[r]
        BY <3>1, <3>2 DEF Returned
      <4>2. OwnData(r, pc[r], call[r], images[r])
        BY <1>3 DEF RankData
      <4>3. images'[r] = IF setup.caller = "ray" THEN (IF r \in Owners THEN Share(r) ELSE <<>>)
                         ELSE IF Makes(r) THEN MadeBy(r, call[r] + 1) ELSE <<>>
        BY <1>2, <1>7, <2>2, <4>1, <4>2, OwnCall
      <4>4. /\ AfterCall(r) \in {"returned", "denoise", "gather_outputs", "save"}
            /\ AfterCall(r) = "returned" <=> setup.caller = "ray"
        BY AfterIs
      <4>5. /\ AfterCall(r) \in {"gather_outputs", "save"} => call[r] + 1 >= Calls(r)
            /\ AfterCall(r) = "save" => ~GathersOutputs
        BY <1>4, AfterAll
      <4>6. Ready(r, pc'[r], call'[r])
        BY <4>1, <4>5 DEF Ready
      <4>7. OwnData(r, pc'[r], call'[r], images'[r])
        BY <4>1, <4>3, <4>4 DEF OwnData
      <4>8. JointData(r, pc'[r], call'[r], latents'[r], images'[r]) /\ VaeData(r, pc'[r], latents'[r], images'[r])
        BY <2>4 DEF JointData, VaeData
      <4>9. GatheredData(r, pc'[r], images'[r]) /\ SavedData(pc'[r], saved')
        BY <4>1, <4>4, <4>5 DEF GatheredData, SavedData
      <4> QED  BY <3>2, <4>6, <4>7, <4>8, <4>9 DEF RankData
    <3>3. CASE q # r
      <4>1. call'[q] = call[q] /\ pc'[q] = pc[q] /\ images'[q] = images[q]
        BY <3>1, <3>3 DEF Returned
      <4> QED  BY <1>2, <1>5, <3>1, <3>3, <4>1
    <3> QED  BY <3>2, <3>3
  <2> QED  BY <2>5 DEF DataNow, DataIn
<1> QED  BY <1>6, <1>7

\* Announce: an only owner needs no gather.
LEMMA AnnounceData ==
    ASSUME Fixed, Control, DataIn(pc, call, latents, images, saved), Announce
    PROVE  DataNow
<1>1. WorldIs /\ AnnounceIs
  BY Worlds, Announces
<1>2. Lists(OwnerList, Owners) /\ Owners # {} /\ Len(OwnerList) \in Nat \ {0}
  BY OwnersExist
<1>3. ASSUME NEW q \in World
      PROVE  RankData(q, pc'[q], call'[q], latents'[q], images'[q], saved')
  <2>1. /\ RankData(q, pc[q], call[q], latents[q], images[q], saved)
        /\ RankOK(q, pc[q], call[q], latents[q], owners[q], images[q])
    BY DEF DataIn, Control, ControlIn
  <2>2. /\ latents'[q] = latents[q] /\ images'[q] = images[q] /\ saved' = saved
        /\ pc'[q] = IF q \notin Announcers THEN pc[q]
                    ELSE IF q \in Owners /\ (Dedicated \/ Len(OwnerList) > 1) THEN "collect"
                    ELSE IF Dedicated THEN "returned" ELSE "broadcast"
        /\ call'[q] = IF Dedicated /\ q \in DitRanks \ Owners THEN call[q] + 1 ELSE call[q]
    BY <1>1 DEF AnnounceIs
  <2>3. CASE q \notin Announcers
    <3>1. q \notin DitRanks
      BY <1>1, <2>3 DEF AnnounceIs
    <3> QED  BY <2>1, <2>2, <2>3, <3>1
  <2>4. CASE q \in Announcers
    <3>1. pc[q] = "announce" /\ ParallelizesVae /\ q \notin VaeRanks
      BY <1>1, <2>1, <2>4 DEF AnnounceIs, RankOK
    <3>2. pc'[q] \in {"collect", "returned", "broadcast"} /\ (pc'[q] = "returned" => Dedicated)
      BY <2>2, <2>4
    <3>3. Ready(q, pc'[q], call'[q]) /\ OwnData(q, pc'[q], call'[q], images'[q])
      BY <3>1, <3>2 DEF Ready, OwnData
    <3>4. JointData(q, pc'[q], call'[q], latents'[q], images'[q])
      <4> SUFFICES ASSUME Together PROVE JointData(q, pc'[q], call[q], latents[q], images[q])
        BY <2>2 DEF JointData, Together
      <4>1. pc'[q] \in {"collect", "broadcast"}
        BY <3>2 DEF Together
      <4>2. ASSUME q = LastOwner, pc'[q] = "broadcast", NEW e
            PROVE  Count(latents[q], e) = Cardinality(OwnersCall(e, call[q]))
        <5>1. ToSet(OwnerList) = Owners /\ DOMAIN OwnerList = 1 .. Len(OwnerList)
          BY <1>2 DEF Lists
        <5>2. q \in Owners
          BY <1>2, <4>2, <5>1 DEF ToSet, LastOwner
        <5>3. Len(OwnerList) = 1
          <6>1. ~ (Len(OwnerList) > 1)
            BY <2>2, <2>4, <4>2, <5>2, Zenon
          <6> QED  BY <1>2, <6>1
        <5>4. Owners = {q}
          BY <4>2, <5>1, <5>3 DEF ToSet, LastOwner
        <5>5. latents[q] = CallOf(q, call[q]) /\ q \in DitRanks /\ call[q] \in Nat
          BY <2>1, <3>1, <5>2 DEF RankOK, Owners
        <5>6. CallOf(q, call[q]) \in Seq(Nat) /\ Distinct(CallOf(q, call[q]))
          BY <5>5, CallsMakes DEF CallsMake
        <5>7. PICK s \in Seq(Nat) : s = CallOf(q, call[q])
          BY <5>6
        <5>8. Count(s, e) = IF e \in ToSet(s) THEN 1 ELSE 0
          BY <5>6, <5>7, CountDistinct
        <5>9. OwnersCall(e, call[q]) = IF e \in ToSet(s) THEN {q} ELSE {}
          BY <5>4, <5>7 DEF OwnersCall
        <5> QED  BY <5>5, <5>7, <5>8, <5>9, FS_Singleton, FS_EmptySet
      <4> QED  BY <2>1, <3>1, <4>1, <4>2 DEF RankData, JointData
    <3>5. /\ VaeData(q, pc'[q], latents[q], images[q]) /\ GatheredData(q, pc'[q], images[q])
          /\ SavedData(pc'[q], saved)
      BY <2>1, <3>1, <3>2 DEF RankData, VaeData, GatheredData, SavedData
    <3> QED  BY <2>2, <3>3, <3>4, <3>5 DEF RankData
  <2> QED  BY <2>3, <2>4
<1> QED  BY <1>3 DEF DataNow, DataIn

\* Without tensor and data parallelism there is one owner.
LEMMA OneOwner ==
    ASSUME Fixed, setup.tp = 1, setup.dp = 1
    PROVE  Len(OwnerList) = 1 /\ \A r \in DitRanks : Share(r) = AllPrompts
<1>1. PICK T, S, P, C, D : Degrees(T, S, P, C, D)
  BY SetupDegrees
<1>2. Degrees(1, S, P, C, D) /\ D = 1
  BY <1>1 DEF Degrees
<1>3. OnePerReplica(Owners, D)
  BY <1>2, OwnersOnePer
<1>4. PICK f : f \in Bijection(0 .. D - 1, Owners)
  BY <1>3 DEF OnePerReplica
<1>5. 0 .. D - 1 = {0}
  BY <1>2
<1>6. Cardinality(Owners) = Cardinality({0}) /\ IsFiniteSet({0}) /\ Cardinality({0}) = 1
  BY <1>4, <1>5, FS_Singleton, FS_Bijection DEF ExistsBijection
<1>7. Len(OwnerList) = 1
  BY <1>6, OwnersExist DEF Lists
<1> QED  BY <1>7 DEF Share, AllPrompts

\* The owners' latents joined have a prompt as often as owners have it.
LEMMA OwnersJoined ==
    ASSUME Fixed, NEW c \in Nat, NEW ls, NEW e,
           ls = [i \in DOMAIN OwnerList |-> CallOf(OwnerList[i], c)]
    PROVE  Count(FlattenSeq(ls), e) = Cardinality(OwnersCall(e, c))
<1>1. Lists(OwnerList, Owners) /\ Len(OwnerList) \in Nat \ {0}
  BY OwnersExist
<1>2. PICK n \in Nat \ {0} : n = Len(OwnerList) /\ DOMAIN OwnerList = 1 .. n
  BY <1>1 DEF Lists
<1>3. ASSUME NEW i \in 1 .. n
      PROVE  /\ OwnerList[i] \in Owners /\ ls[i] = CallOf(OwnerList[i], c)
             /\ ls[i] \in Seq(Nat) /\ Count(ls[i], e) = IF e \in ToSet(ls[i]) THEN 1 ELSE 0
  <2>1. OwnerList[i] \in Owners /\ ls[i] = CallOf(OwnerList[i], c)
    BY <1>1, <1>2 DEF Lists
  <2>2. PICK o \in DitRanks : o = OwnerList[i]
    BY <2>1 DEF Owners
  <2>3. CallOf(o, c) \in Seq(Nat) /\ Distinct(CallOf(o, c))
    BY CallsMakes DEF CallsMake
  <2>4. ls[i] \in Seq(Nat) /\ Distinct(ls[i])
    BY <2>1, <2>2, <2>3
  <2> QED  BY <2>1, <2>4, CountDistinct
<1>4. ls \in [1 .. n -> Seq(Nat)]
  BY <1>2, <1>3
<1>5. Count(FlattenSeq(ls), e) = Cardinality(Having(ls, n, e))
  BY <1>3, <1>4, CountJoined
<1>6. Having(ls, n, e) = {i \in 1 .. Len(OwnerList) : OwnerList[i] \in OwnersCall(e, c)}
  BY <1>2, <1>3 DEF Having, OwnersCall
<1>7. OwnersCall(e, c) \in SUBSET Owners
  BY DEF OwnersCall
<1>8. Cardinality({i \in 1 .. Len(OwnerList) : OwnerList[i] \in OwnersCall(e, c)})
         = Cardinality(OwnersCall(e, c))
  <2>1. PICK U \in SUBSET Owners : U = OwnersCall(e, c)
    BY <1>7
  <2> QED  BY <1>1, <2>1, ListCount
<1> QED  BY <1>5, <1>6, <1>8

\* Collect: the last owner has the latents of all owners.
LEMMA CollectData ==
    ASSUME Fixed, Control, DataIn(pc, call, latents, images, saved), setup.tp = 1, Collect
    PROVE  DataNow
<1>1. WorldIs /\ CollectIs
  BY Worlds, Collects
<1>2. \A o \in Owners : /\ o \in World /\ o \in DitRanks /\ pc[o] = "collect" /\ call[o] \in Nat
                        /\ latents[o] = CallOf(o, call[o]) /\ ParallelizesVae
  BY <1>1 DEF CollectIs, WorldIs, Control, ControlIn, RankOK
<1>3. Lists(OwnerList, Owners) /\ Len(OwnerList) \in Nat \ {0}
  BY OwnersExist
<1>4. DOMAIN OwnerList = 1 .. Len(OwnerList) /\ \A i \in DOMAIN OwnerList : OwnerList[i] \in Owners
  BY <1>3 DEF Lists
<1>5. ASSUME NEW q \in World
      PROVE  RankData(q, pc'[q], call'[q], latents'[q], images'[q], saved')
  <2>1. RankData(q, pc[q], call[q], latents[q], images[q], saved)
    BY DEF DataIn
  <2>2. /\ call'[q] = call[q] /\ images'[q] = images[q] /\ saved' = saved
        /\ latents'[q] = IF q = LastOwner THEN FlattenSeq(OwnersLatents) ELSE latents[q]
        /\ pc'[q] = IF q \in Owners THEN (IF Dedicated THEN "send" ELSE "broadcast") ELSE pc[q]
    BY <1>1, <1>5 DEF CollectIs, Control, ControlIn
  <2>3. CASE q \notin Owners
    <3>1. q # LastOwner
      BY <1>1, <2>3 DEF CollectIs
    <3> QED  BY <2>1, <2>2, <2>3, <3>1
  <2>4. CASE q \in Owners
    <3>1. /\ pc[q] = "collect" /\ q \in DitRanks /\ q \notin VaeRanks /\ ParallelizesVae
          /\ pc'[q] = IF Dedicated THEN "send" ELSE "broadcast"
      BY <1>1, <1>2, <2>2, <2>4 DEF WorldIs
    <3>2. Ready(q, pc'[q], call[q]) /\ OwnData(q, pc'[q], call[q], images[q])
      BY <3>1 DEF Ready, OwnData
    <3>3. JointData(q, pc'[q], call[q], latents'[q], images[q])
      <4> SUFFICES ASSUME Together PROVE JointData(q, pc'[q], call[q], latents'[q], images[q])
        BY DEF JointData
      <4>1. pc'[q] = "broadcast"
        BY <3>1 DEF Together
      <4>2. ASSUME q = LastOwner, NEW e
            PROVE  Count(latents'[q], e) = Cardinality(OwnersCall(e, call[q]))
        <5>1. \A o \in Owners : call[o] = call[q]
          BY <1>2 DEF Control, ControlIn
        <5>2. PICK c \in Nat : c = call[q]
          BY <1>2, <2>4
        <5>3. OwnersLatents = [i \in DOMAIN OwnerList |-> CallOf(OwnerList[i], c)]
          BY <1>2, <1>4, <5>1, <5>2 DEF OwnersLatents
        <5>4. PICK ls : ls = OwnersLatents
          OBVIOUS
        <5>5. Count(FlattenSeq(ls), e) = Cardinality(OwnersCall(e, c))
          BY <5>3, <5>4, OwnersJoined
        <5> QED  BY <2>2, <4>2, <5>2, <5>4, <5>5
      <4> QED  BY <2>1, <3>1, <4>1, <4>2 DEF RankData, JointData
    <3>4. VaeData(q, pc'[q], latents'[q], images[q])
      <4> SUFFICES ASSUME Dedicated PROVE VaeData(q, pc'[q], latents'[q], images[q])
        BY DEF VaeData
      <4>1. setup.dp = 1 /\ setup.caller = "ray"
        BY <1>1 DEF WorldIs
      <4>2. Len(OwnerList) = 1 /\ Share(q) = AllPrompts
        BY <3>1, <4>1, OneOwner
      <4>3. Owners = {LastOwner} /\ OwnerList[1] = LastOwner /\ DOMAIN OwnerList = 1 .. 1
        BY <1>3, <1>4, <4>2 DEF LastOwner, Lists, ToSet
      <4>4. q = LastOwner /\ latents[q] = AllPrompts
        BY <1>2, <2>4, <4>1, <4>2, <4>3 DEF CallOf
      <4>5. OwnersLatents \in [1 .. 1 -> Seq(Nat)] /\ OwnersLatents[1] = AllPrompts
        BY <1>1, <4>2, <4>3, <4>4 DEF CollectIs, OwnersLatents
      <4>11. PICK n \in Nat \ {0} : n = 1
        BY 1 \in Nat \ {0}
      <4>6. PICK j \in 1 .. n : j = 1 /\ n = 1
        BY <4>11
      <4>7. PICK ss \in [1 .. n -> Seq(Nat)] : ss = OwnersLatents
        BY <4>5, <4>6
      <4>8. \A i \in 1 .. n : i # j => ss[i] = <<>>
        BY <4>6
      <4>9. FlattenSeq(ss) = ss[j]
        BY <4>8, FlattenAlone
      <4>10. latents'[q] = AllPrompts
        BY <2>2, <4>4, <4>5, <4>6, <4>7, <4>9
      <4> QED  BY <2>1, <3>1, <4>10 DEF RankData, VaeData
    <3>5. GatheredData(q, pc'[q], images[q]) /\ SavedData(pc'[q], saved)
      BY <3>1 DEF GatheredData, SavedData
    <3> QED  BY <2>2, <3>2, <3>3, <3>4, <3>5 DEF RankData
  <2> QED  BY <2>3, <2>4
<1> QED  BY <1>5 DEF DataNow, DataIn

\* The owners that have made a prompt after the next call of each.
LEMMA MadeMore ==
    ASSUME Fixed, setup.caller # "ray", NEW e, NEW c \in Nat
    PROVE  /\ Cardinality(OwnersMade(e, c)) \in Nat /\ Cardinality(OwnersCall(e, c)) \in Nat
           /\ Cardinality(OwnersMade(e, c + 1))
                = Cardinality(OwnersMade(e, c)) + Cardinality(OwnersCall(e, c))
<1>1. PICK A, B : A = OwnersMade(e, c) /\ B = OwnersCall(e, c)
  OBVIOUS
<1>2. IsFiniteSet(Owners)
  BY OwnersExist DEF Lists
<1>3. A \subseteq Owners /\ B \subseteq Owners /\ IsFiniteSet(A) /\ IsFiniteSet(B)
  BY <1>1, <1>2, FS_Subset DEF OwnersMade, OwnersCall
<1>4. ASSUME NEW o \in Owners
      PROVE  /\ e \in ToSet(MadeBy(o, c + 1)) <=>
                    e \in ToSet(MadeBy(o, c)) \/ e \in ToSet(CallOf(o, c))
             /\ ~ (e \in ToSet(MadeBy(o, c)) /\ e \in ToSet(CallOf(o, c)))
  <2>1. o \in DitRanks
    BY DEF Owners
  <2>2. CallsMake(o, c)
    BY <2>1, CallsMakes
  <2> QED  BY <2>2 DEF CallsMake
<1>5. OwnersMade(e, c + 1) = A \union B /\ A \intersect B = {}
  BY <1>1, <1>4 DEF OwnersMade, OwnersCall
<1>6. Cardinality(A) \in Nat /\ Cardinality(B) \in Nat
  BY <1>3, FS_CardinalityType
<1>7. Cardinality(A \union B) = Cardinality(A) + Cardinality(B) - Cardinality(A \intersect B)
  BY <1>3, FS_Union
<1>8. Cardinality(A \intersect B) = 0
  <2>1. PICK I : I = A \intersect B
    OBVIOUS
  <2>2. I = {}
    BY <1>5, <2>1
  <2>3. Cardinality(I) = 0
    BY <2>2, FS_EmptySet
  <2> QED  BY <2>1, <2>3, Zenon
<1>9. Cardinality(A \union B) = Cardinality(A) + Cardinality(B)
  BY <1>6, <1>7, <1>8
<1>10. Cardinality(OwnersMade(e, c + 1)) = Cardinality(A) + Cardinality(B)
  BY <1>5, <1>9, Zenon
<1> QED  BY <1>1, <1>6, <1>10

\* The images the first rank has after a call of all.
LEMMA JointCall ==
    ASSUME Fixed, Control, DataIn(pc, call, latents, images, saved), BroadcastIs,
           NEW e \in 1 .. setup.prompts, NEW m,
           m = IF setup.caller = "ray" THEN latents[LastOwner]
               ELSE images[0] \o latents[LastOwner]
    PROVE  Count(m, e) = IF setup.caller = "ray" THEN Cardinality(OwnersShare(e))
                         ELSE Cardinality(OwnersMade(e, call[0] + 1))
<1>1. 0 \in World /\ LastOwner \in World /\ Together /\ pc[0] = "broadcast" /\ pc[LastOwner] = "broadcast"
  BY Worlds DEF WorldIs, BroadcastIs
<1>2. /\ RankData(0, pc[0], call[0], latents[0], images[0], saved)
      /\ RankData(LastOwner, pc[LastOwner], call[LastOwner], latents[LastOwner],
                  images[LastOwner], saved)
  BY <1>1 DEF DataIn
<1>3. PICK c \in Nat : c = call[0] /\ c = call[LastOwner]
  BY <1>1 DEF Control, ControlIn, RankOK
<1>4. PICK t \in Seq(Nat), s \in Seq(Nat) : t = latents[LastOwner] /\ s = images[0]
  BY <1>1 DEF Control, ControlIn, RankOK
<1>5. Count(t, e) = Cardinality(OwnersCall(e, c))
  BY <1>1, <1>2, <1>3, <1>4 DEF RankData, JointData
<1>6. CASE setup.caller = "ray"
  <2>1. OwnersCall(e, c) = OwnersShare(e)
    BY <1>6 DEF OwnersCall, OwnersShare, CallOf
  <2> QED  BY <1>4, <1>5, <1>6, <2>1
<1>7. CASE setup.caller # "ray"
  <2>1. Count(s, e) = Cardinality(OwnersMade(e, c))
    BY <1>1, <1>2, <1>3, <1>4, <1>7 DEF RankData, JointData
  <2>2. Count(s \o t, e) = Count(s, e) + Count(t, e)
    BY CountConcat
  <2>3. Cardinality(OwnersMade(e, c + 1))
            = Cardinality(OwnersMade(e, c)) + Cardinality(OwnersCall(e, c))
    BY <1>7, MadeMore
  <2> QED  BY <1>3, <1>4, <1>5, <1>7, <2>1, <2>2, <2>3
<1> QED  BY <1>6, <1>7

\* Broadcast: the first rank has the images of all owners.
LEMMA BroadcastData ==
    ASSUME Fixed, Control, DataIn(pc, call, latents, images, saved), Broadcast
    PROVE  DataNow
<1>1. WorldIs /\ BroadcastIs
  BY Worlds, Broadcasts
<1> DEFINE made == [r \in World |-> IF Returns(r) THEN latents[LastOwner] ELSE <<>>]
<1>2. Return(World, made)
  BY <1>1 DEF BroadcastIs
<1>3. ParallelizesVae /\ ~Dedicated
  BY <1>1 DEF BroadcastIs, Together
<1>4. \A q \in World : made[q] = IF q = 0 THEN latents[LastOwner] ELSE <<>>
  BY <1>3 DEF Returns
<1> HIDE DEF made
<1>5. \A q \in World : Returned(World, made, q)
  BY <1>2, ReturnIs, Zenon
<1>6. ASSUME NEW q \in World
      PROVE  RankData(q, pc'[q], call'[q], latents'[q], images'[q], saved')
  <2>1. /\ RankData(q, pc[q], call[q], latents[q], images[q], saved)
        /\ RankOK(q, pc[q], call[q], latents[q], owners[q], images[q])
    BY DEF DataIn, Control, ControlIn
  <2>2. Together /\ q \in DitRanks /\ pc[q] = "broadcast" /\ saved' = saved
    BY <1>1 DEF BroadcastIs
  <2>3. /\ pc'[q] = AfterCall(q) /\ call'[q] = call[q] + 1
        /\ images'[q] = IF setup.caller = "ray" THEN made[q] ELSE images[q] \o made[q]
    BY <1>5 DEF Returned
  <2>4. ~Refused /\ call[q] \in Nat
    BY <2>1, <2>2 DEF RankOK
  <2>5. /\ AfterCall(q) \in {"gather_outputs", "save"} => call[q] + 1 >= Calls(q)
        /\ AfterCall(q) = "save" => ~GathersOutputs
    BY <2>2, <2>4, AfterAll
  <2>6. /\ AfterCall(q) \in {"returned", "denoise", "gather_outputs", "save"}
        /\ AfterCall(q) = "returned" <=> setup.caller = "ray"
    BY AfterIs
  <2>7. Ready(q, pc'[q], call'[q]) /\ OwnData(q, pc'[q], call'[q], images'[q])
    BY <1>3, <2>3, <2>5 DEF Ready, OwnData
  <2>8. JointData(q, pc'[q], call'[q], latents'[q], images'[q])
    <3>1. CASE q # 0
      <4>1. images[q] = <<>>
        BY <2>1, <2>2, <3>1 DEF RankData, JointData
      <4>2. <<>> \o <<>> = <<>>
        OBVIOUS
      <4>3. images'[q] = <<>>
        BY <1>4, <2>3, <3>1, <4>1, <4>2
      <4> QED  BY <2>3, <2>6, <3>1, <4>3 DEF JointData
    <3>2. CASE q = 0
      <4>1. PICK m : m = IF setup.caller = "ray" THEN latents[LastOwner]
                         ELSE images[0] \o latents[LastOwner]
        OBVIOUS
      <4>2. images'[q] = m
        BY <1>4, <2>3, <3>2, <4>1
      <4>3. \A e \in 1 .. setup.prompts :
               Count(m, e) = IF setup.caller = "ray" THEN Cardinality(OwnersShare(e))
                             ELSE Cardinality(OwnersMade(e, call[0] + 1))
        BY <1>1, <4>1, JointCall
      <4> QED  BY <2>3, <2>6, <3>2, <4>2, <4>3 DEF JointData
    <3> QED  BY <3>1, <3>2
  <2>9. VaeData(q, pc'[q], latents'[q], images'[q])
    BY <1>3 DEF VaeData
  <2>10. GatheredData(q, pc'[q], images'[q]) /\ SavedData(pc'[q], saved')
    BY <2>3, <2>5, <2>6 DEF GatheredData, SavedData
  <2> QED  BY <2>7, <2>8, <2>9, <2>10 DEF RankData
<1> QED  BY <1>6 DEF DataNow, DataIn

\* Transfer: the first dedicated rank has the latents.
LEMMA TransferData ==
    ASSUME Fixed, Control, DataIn(pc, call, latents, images, saved), Transfer
    PROVE  DataNow
<1>1. WorldIs /\ TransferIs
  BY Worlds, Transfers
<1>2. Dedicated /\ ParallelizesVae /\ ~Together
  BY <1>1 DEF WorldIs, TransferIs, Together
<1>3. CASE UNCHANGED <<pc, call, latents>>
  BY <1>1, <1>3 DEF TransferIs, DataNow
<1>4. CASE /\ latents' = [latents EXCEPT ![DitSize] = latents[SourceRank]]
           /\ pc' = [pc EXCEPT ![SourceRank] = "returned", ![DitSize] = "vae_broadcast"]
           /\ call' = [call EXCEPT ![SourceRank] = @ + 1]
  <2>1. ASSUME NEW q \in World
        PROVE  RankData(q, pc'[q], call'[q], latents'[q], images'[q], saved')
    <3>1. /\ RankData(q, pc[q], call[q], latents[q], images[q], saved)
          /\ RankData(SourceRank, pc[SourceRank], call[SourceRank], latents[SourceRank],
                      images[SourceRank], saved)
      BY <1>1 DEF TransferIs, DataIn
    <3>2. images'[q] = images[q] /\ saved' = saved
      BY <1>1 DEF TransferIs
    <3>3. OwnData(q, pc'[q], call'[q], images[q]) /\ JointData(q, pc'[q], call'[q], latents'[q], images[q])
      BY <1>2 DEF OwnData, JointData
    <3>4. DOMAIN pc = World /\ DOMAIN call = World /\ DOMAIN latents = World
      BY DEF Control, ControlIn
    <3>5. CASE q = SourceRank
      <4>1. pc'[q] = "returned" /\ latents'[q] = latents[q] /\ q \notin VaeRanks
        BY <1>1, <1>4, <3>4, <3>5 DEF TransferIs
      <4>2. VaeData(q, pc'[q], latents'[q], images[q])
        BY <3>1, <4>1 DEF RankData, VaeData
      <4> QED  BY <3>2, <3>3, <4>1, <4>2 DEF RankData, Ready, GatheredData, SavedData
    <3>6. CASE q = DitSize
      <4>1. pc'[q] = "vae_broadcast" /\ latents'[q] = latents[SourceRank] /\ q \notin DitRanks
        BY <1>1, <1>4, <3>4, <3>6 DEF TransferIs, WorldIs
      <4>2. latents[SourceRank] = AllPrompts
        BY <1>1, <3>1 DEF RankData, VaeData, TransferIs
      <4>3. VaeData(q, pc'[q], latents'[q], images[q])
        BY <4>1, <4>2 DEF VaeData
      <4> QED  BY <3>2, <3>3, <4>1, <4>3 DEF RankData, Ready, GatheredData, SavedData
    <3>7. CASE q # SourceRank /\ q # DitSize
      <4>1. pc'[q] = pc[q] /\ call'[q] = call[q] /\ latents'[q] = latents[q]
        BY <1>4, <3>4, <3>7
      <4> QED  BY <3>1, <3>2, <4>1
    <3> QED  BY <3>5, <3>6, <3>7
  <2> QED  BY <2>1 DEF DataNow, DataIn
<1> QED  BY <1>1, <1>3, <1>4 DEF TransferIs

\* VaeBroadcast: every dedicated rank has the images.
LEMMA VaeBroadcastData ==
    ASSUME Fixed, Control, DataIn(pc, call, latents, images, saved), VaeBroadcast
    PROVE  DataNow
<1>1. WorldIs /\ VaeBroadcastIs
  BY Worlds, VaeBroadcasts
<1>2. Dedicated /\ ParallelizesVae /\ ~Together /\ setup.caller = "ray"
  BY <1>1 DEF WorldIs, VaeBroadcastIs, Together
<1> DEFINE made == [r \in VaeRanks |-> latents[DitSize]]
<1>3. Return(VaeRanks, made)
  BY <1>1 DEF VaeBroadcastIs
<1>4. \A q \in VaeRanks : made[q] = latents[DitSize]
  OBVIOUS
<1> HIDE DEF made
<1>5. \A q \in World : Returned(VaeRanks, made, q)
  BY <1>3, ReturnIs, Zenon
<1>6. latents[DitSize] = AllPrompts
  <2>1. DitSize \in World /\ pc[DitSize] = "vae_broadcast"
    BY <1>1 DEF VaeBroadcastIs
  <2>2. RankData(DitSize, pc[DitSize], call[DitSize], latents[DitSize], images[DitSize], saved)
    BY <2>1 DEF DataIn
  <2> QED  BY <1>2, <2>1, <2>2 DEF RankData, VaeData
<1>7. ASSUME NEW q \in World
      PROVE  RankData(q, pc'[q], call'[q], latents'[q], images'[q], saved')
  <2>1. /\ RankData(q, pc[q], call[q], latents[q], images[q], saved) /\ saved' = saved
        /\ latents'[q] = IF q \in VaeRanks THEN latents[DitSize] ELSE latents[q]
    BY <1>1 DEF DataIn, VaeBroadcastIs
  <2>2. CASE q \in VaeRanks
    <3>1. pc'[q] = AfterCall(q) /\ images'[q] = made[q]
      BY <1>2, <1>5, <2>2 DEF Returned
    <3>2. pc'[q] = "returned"
      BY <1>2, <3>1, AfterIs
    <3>3. images'[q] = AllPrompts /\ q \notin DitRanks
      BY <1>1, <1>4, <1>6, <2>2, <3>1 DEF VaeBroadcastIs
    <3>4. VaeData(q, pc'[q], latents'[q], images'[q])
      BY <3>2, <3>3 DEF VaeData
    <3>5. OwnData(q, pc'[q], call'[q], images'[q])
      BY <1>2 DEF OwnData
    <3>6. JointData(q, pc'[q], call'[q], latents'[q], images'[q])
      BY <1>2 DEF JointData
    <3>7. Ready(q, pc'[q], call'[q]) /\ GatheredData(q, pc'[q], images'[q]) /\ SavedData(pc'[q], saved')
      BY <3>2 DEF Ready, GatheredData, SavedData
    <3> QED  BY <3>4, <3>5, <3>6, <3>7 DEF RankData
  <2>3. CASE q \notin VaeRanks
    <3>1. call'[q] = call[q] /\ pc'[q] = pc[q] /\ images'[q] = images[q] /\ latents'[q] = latents[q]
      BY <1>5, <2>1, <2>3 DEF Returned
    <3> QED  BY <2>1, <3>1
  <2> QED  BY <2>2, <2>3
<1> QED  BY <1>7 DEF DataNow, DataIn

\* The images of all ranks, in the order of the ranks.
AllImages == [i \in 1 .. Cardinality(World) |-> images[i - 1]]

\* They are one sequence for every rank.
LEMMA AllRanks ==
    ASSUME Fixed, Control
    PROVE  \E n \in Nat \ {0} :
              /\ n = Cardinality(World) /\ n = DitSize + setup.vae /\ World = 0 .. n - 1
              /\ AllImages \in [1 .. n -> Seq(Nat)] /\ DOMAIN AllImages = 1 .. n
              /\ \A i \in 1 .. n : i - 1 \in World /\ AllImages[i] = images[i - 1]
<1>1. WorldIs
  BY Worlds
<1>2. PICK n \in Nat \ {0} : n = DitSize + setup.vae /\ World = 0 .. n - 1
  BY <1>1 DEF WorldIs
<1>3. Cardinality(0 .. n - 1) = n
  BY <1>2, FS_Interval
<1>4. n = Cardinality(World)
  BY <1>2, <1>3
<1>5. \A i \in 1 .. n : i - 1 \in World
  BY <1>2
<1>6. \A q \in World : images[q] \in Seq(Nat)
  BY DEF Control, ControlIn, RankOK
<1>7. AllImages = [i \in 1 .. n |-> images[i - 1]]
  BY <1>4 DEF AllImages
<1> QED  BY <1>2, <1>4, <1>5, <1>6, <1>7

\* As many places of the sequence of all ranks are ranks of a set as it has.
LEMMA PlacesShift ==
    ASSUME NEW n \in Nat, NEW U \in SUBSET (0 .. n - 1)
    PROVE  Cardinality({i \in 1 .. n : i - 1 \in U}) = Cardinality(U)
<1> DEFINE I == {i \in 1 .. n : i - 1 \in U}
           f == [i \in I |-> i - 1]
<1>1. IsFiniteSet(I)
  <2>1. I \subseteq 1 .. n /\ IsFiniteSet(1 .. n)
    BY FS_Interval
  <2> QED  BY <2>1, FS_Subset
<1>2. f \in Bijection(I, U)
  <2>1. f \in [I -> U]
    OBVIOUS
  <2>2. \A i, j \in I : f[i] = f[j] => i = j
    OBVIOUS
  <2>3. ASSUME NEW u \in U PROVE \E i \in I : f[i] = u
    <3>1. u \in 0 .. n - 1
      OBVIOUS
    <3>2. u + 1 \in I /\ (u + 1) - 1 = u
      BY <3>1
    <3> QED  BY <3>2
  <2> QED  BY <2>1, <2>2, <2>3 DEF Bijection, Injection, Surjection, IsInjective
<1> HIDE DEF I, f
<1>3. Cardinality(U) = Cardinality(I)
  BY <1>1, <1>2, FS_Bijection DEF ExistsBijection
<1> QED  BY <1>3 DEF I

\* How often a prompt has to come out.
LEMMA CopiesAre ==
    ASSUME Fixed
    PROVE  /\ ~Dedicated => Copies = IF setup.prompts = 1 THEN setup.dp ELSE 1
           /\ Dedicated => Copies = setup.vae
<1>1. PICK D \in Nat, V \in Nat : D = setup.dp /\ V = setup.vae
  BY SetupFacts
<1>2. Dedicated => setup.dp = 1
  BY SetupFacts DEF Dedicated
<1>3. ~Dedicated => Copies = IF setup.prompts = 1 THEN setup.dp ELSE 1
  <2>1. D * 1 = D /\ 1 * 1 = 1
    OBVIOUS
  <2> QED  BY <1>1, <2>1 DEF Copies
<1>4. Dedicated => Copies = setup.vae
  <2>1. 1 * V = V
    OBVIOUS
  <2> QED  BY <1>1, <1>2, <2>1 DEF Copies
<1> QED  BY <1>3, <1>4

\* What the Ray driver has in the end.
LEMMA DriverHas ==
    ASSUME Fixed, Control, DataIn(pc, call, latents, images, saved), setup.tp = 1,
           setup.caller = "ray", At(World, "returned")
    PROVE  Final(FlattenSeq(AllImages))
<1>1. WorldIs
  BY Worlds
<1>2. PICK n \in Nat \ {0} :
         /\ n = DitSize + setup.vae /\ World = 0 .. n - 1
         /\ AllImages \in [1 .. n -> Seq(Nat)]
         /\ \A i \in 1 .. n : i - 1 \in World /\ AllImages[i] = images[i - 1]
  BY AllRanks
<1>3. \A q \in World : /\ RankData(q, pc[q], call[q], latents[q], images[q], saved)
                       /\ pc[q] = "returned"
  BY DEF DataIn, At
<1>4. PICK ss \in [1 .. n -> Seq(Nat)] : ss = AllImages
  BY <1>2
<1>5. ASSUME NEW e \in 1 .. setup.prompts PROVE Count(FlattenSeq(ss), e) = Copies
  <2>1. CASE Together
    <3>1. \A q \in World : q # 0 => images[q] = <<>>
      BY <1>3, <2>1 DEF RankData, JointData
    <3>2. PICK j \in 1 .. n : j = 1
      BY <1>2
    <3>3. \A i \in 1 .. n : i # j => ss[i] = <<>>
      <4> TAKE i \in 1 .. n
      <4>1. i # 1 => i - 1 # 0
        OBVIOUS
      <4> QED  BY <1>2, <1>4, <3>1, <3>2, <4>1
    <3>4. FlattenSeq(ss) = ss[j]
      BY <3>3, FlattenAlone
    <3>5. ss[j] = images[0] /\ 0 \in World
      BY <1>2, <1>4, <3>2
    <3>6. Count(images[0], e) = Cardinality(OwnersShare(e))
      BY <1>3, <2>1, <3>5 DEF RankData, JointData
    <3>7. ~Dedicated
      BY <2>1 DEF Together
    <3> QED  BY <3>4, <3>5, <3>6, <3>7, RepresentativesHave, CopiesAre
  <2>2. CASE Dedicated
    <3>1. PICK m \in Nat : m = DitSize
      BY <1>1 DEF WorldIs
    <3>2. VaeRanks = m .. n - 1 /\ DitRanks = 0 .. m - 1 /\ m + setup.vae = n /\ setup.vae \in Nat
      <4>1. PICK v \in Nat : v = setup.vae
        BY SetupFacts
      <4> QED  BY <1>2, <3>1, <4>1 DEF VaeRanks, DitRanks
    <3>3. ASSUME NEW i \in 1 .. n
          PROVE  /\ i - 1 \in VaeRanks => Count(ss[i], e) = 1
                 /\ i - 1 \notin VaeRanks => Count(ss[i], e) = 0
      <4>1. PICK q \in World : q = i - 1 /\ ss[i] = images[q]
        BY <1>2, <1>4
      <4>2. q \in VaeRanks => images[q] = AllPrompts
        BY <1>3, <2>2 DEF RankData, VaeData
      <4>3. q \notin VaeRanks => q \in DitRanks /\ images[q] = <<>>
        BY <1>1, <1>3, <2>2 DEF RankData, VaeData, WorldIs
      <4>4. Count(AllPrompts, e) = 1
        BY AllIs, CountDistinct
      <4> QED  BY <4>1, <4>2, <4>3, <4>4, CountNone
    <3>4. Count(FlattenSeq(ss), e) = Cardinality(Having(ss, n, e))
      BY <3>3, CountJoined
    <3>5. Having(ss, n, e) = {i \in 1 .. n : i - 1 \in VaeRanks}
      BY <3>3 DEF Having
    <3>6. PICK U \in SUBSET (0 .. n - 1) : U = VaeRanks
      BY <3>1, <3>2
    <3>7. Cardinality({i \in 1 .. n : i - 1 \in U}) = Cardinality(U)
      BY PlacesShift
    <3>8. Cardinality(m .. n - 1) = setup.vae
      <4>1. PICK k \in Int, v \in Nat : k = n - 1 /\ v = setup.vae
        BY <3>2
      <4>2. Cardinality(m .. k) = IF m > k THEN 0 ELSE k - m + 1
        BY FS_Interval
      <4>3. k - m + 1 = v /\ (m > k => v = 0)
        BY <3>2, <4>1
      <4> QED  BY <4>1, <4>2, <4>3
    <3> QED  BY <2>2, <3>2, <3>4, <3>5, <3>6, <3>7, <3>8, CopiesAre
  <2>3. CASE ~Together /\ ~Dedicated
    <3>1. ~ParallelizesVae
      BY <2>3 DEF Together
    <3>2. setup.vae = 0
      BY <2>3, SetupFacts DEF Dedicated
    <3>3. World = DitRanks
      BY <1>1, <3>2 DEF WorldIs, DitRanks
    <3>4. ASSUME NEW i \in 1 .. n
          PROVE  Count(ss[i], e) = IF i - 1 \in OwnersShare(e) THEN 1 ELSE 0
      <4>1. PICK q \in World : q = i - 1 /\ ss[i] = images[q]
        BY <1>2, <1>4
      <4>2. images[q] = IF q \in Owners THEN Share(q) ELSE <<>>
        BY <1>3, <3>1 DEF RankData, OwnData
      <4>3. Share(q) \in Seq(Nat) /\ Distinct(Share(q))
        BY <3>3, Shares DEF ShareFacts
      <4>4. Count(Share(q), e) = IF e \in ToSet(Share(q)) THEN 1 ELSE 0
        BY <4>3, CountDistinct
      <4> QED  BY <4>1, <4>2, <4>4, CountNone DEF OwnersShare
    <3>5. Count(FlattenSeq(ss), e) = Cardinality(Having(ss, n, e))
      BY <3>4, CountJoined
    <3>6. PICK U \in SUBSET (0 .. n - 1) : U = OwnersShare(e)
      BY <1>2, <3>3 DEF OwnersShare, Owners
    <3>7. Having(ss, n, e) = {i \in 1 .. n : i - 1 \in U}
      BY <3>4, <3>6 DEF Having
    <3>8. Cardinality({i \in 1 .. n : i - 1 \in U}) = Cardinality(U)
      BY PlacesShift
    <3> QED  BY <2>3, <3>5, <3>6, <3>7, <3>8, RepresentativesHave, CopiesAre
  <2> QED  BY <2>1, <2>2, <2>3
<1> QED  BY <1>4, <1>5 DEF Final

\* DriverReturns: the driver has the images, or calls again.
LEMMA DriverData ==
    ASSUME Fixed, Control, DataIn(pc, call, latents, images, saved), setup.tp = 1, DriverReturns
    PROVE  DataNow
<1>1. /\ setup.caller = "ray" /\ At(World, "returned")
      /\ \A q \in World : pc[q] = "returned"
      /\ UNCHANGED <<call, latents, images>>
  BY DEF DriverReturns, At
<1>2. \/ pc' = [r \in World |-> IF r \in VaeRanks THEN "receive" ELSE "denoise"] /\ saved' = saved
      \/ pc' = [r \in World |-> "end"] /\ saved' = FlattenSeq(AllImages)
  BY DEF DriverReturns, Go, AllImages
<1>3. ASSUME NEW q \in World
      PROVE  RankData(q, pc'[q], call'[q], latents'[q], images'[q], saved')
  <2>1. /\ RankData(q, pc[q], call[q], latents[q], images[q], saved)
        /\ pc[q] = "returned" /\ call'[q] = call[q] /\ images'[q] = images[q]
    BY <1>1 DEF DataIn
  <2>2. pc'[q] \in {"receive", "denoise", "end"}
    BY <1>2
  <2>3. Ready(q, pc'[q], call[q]) /\ OwnData(q, pc'[q], call[q], images[q])
    BY <1>1, <2>2 DEF Ready, OwnData
  <2>4. JointData(q, pc'[q], call[q], latents'[q], images[q])
    BY <1>1, <2>1, <2>2 DEF RankData, JointData
  <2>5. VaeData(q, pc'[q], latents'[q], images[q]) /\ GatheredData(q, pc'[q], images[q])
    BY <2>1, <2>2 DEF RankData, VaeData, GatheredData
  <2>6. SavedData(pc'[q], saved')
    <3>1. CASE pc'[q] = "end"
      <4>1. saved' = FlattenSeq(AllImages)
        BY <1>2, <3>1
      <4> QED  BY <1>1, <4>1, DriverHas DEF SavedData
    <3>2. CASE pc'[q] # "end"
      BY <3>2 DEF SavedData
    <3> QED  BY <3>1, <3>2
  <2> QED  BY <2>1, <2>3, <2>4, <2>5, <2>6 DEF RankData
<1> QED  BY <1>3 DEF DataNow, DataIn

\* Under the runner, when all calls are over and the images are gathered.
LEMMA GatheredAll ==
    ASSUME Fixed, Control, DataIn(pc, call, latents, images, saved), setup.tp = 1, GatherIs
    PROVE  Final(FlattenSeq(SendersImages))
<1>1. WorldIs /\ 0 \in World
  BY Worlds DEF WorldIs
<1>2. \A q \in World : /\ RankData(q, pc[q], call[q], latents[q], images[q], saved)
                       /\ RankOK(q, pc[q], call[q], latents[q], owners[q], images[q])
                       /\ pc[q] = "gather_outputs"
  BY DEF DataIn, GatherIs, Control, ControlIn
<1>3. setup.caller # "ray" /\ World = DitRanks /\ ~Dedicated /\ ~Refused
  <2>1. setup.caller # "ray" /\ ~Refused
    BY <1>1, <1>2 DEF RankOK, GathersOutputs
  <2> QED  BY <1>1, <2>1 DEF WorldIs
<1> DEFINE R == {r \in World : Representative(r)}
<1>4. Lists(Senders, R) /\ Len(Senders) \in Nat /\ SendersImages \in [1 .. Len(Senders) -> Seq(Nat)]
  BY DEF GatherIs
<1>5. PICK n \in Nat : n = Len(Senders) /\ DOMAIN Senders = 1 .. n
  BY <1>4 DEF Lists
<1>6. PICK ss \in [1 .. n -> Seq(Nat)] : ss = SendersImages
  BY <1>4, <1>5
<1>7. \A i \in 1 .. n : Senders[i] \in R /\ ss[i] = images[Senders[i]]
  BY <1>4, <1>5, <1>6 DEF Lists, SendersImages
<1>8. \A q \in World : CallsMake(q, call[q]) /\ MadeBy(q, call[q]) = Share(q)
  <2> TAKE q \in World
  <2>1. q \in DitRanks /\ call[q] \in Nat /\ call[q] >= Calls(q)
    BY <1>2, <1>3 DEF RankOK, RankData, Ready
  <2>2. CallsMake(q, call[q])
    BY <2>1, CallsMakes
  <2> QED  BY <1>3, <2>1, <2>2 DEF CallsMake
<1>9. ASSUME NEW e \in 1 .. setup.prompts PROVE Count(FlattenSeq(ss), e) = Copies
  <2>1. CASE ParallelizesVae
    <3>1. Together /\ setup.caller # "native"
      BY <1>3, <2>1 DEF Together, ParallelizesVae
    <3>2. \A r \in World : Representative(r) <=> r = 0
      BY <2>1, <3>1 DEF Representative, Returns
    <3>3. R = {0}
      BY <1>1, <3>2
    <3>4. n = 1
      BY <1>4, <1>5, <3>3, FS_Singleton DEF Lists
    <3>5. PICK j \in 1 .. n : j = 1
      BY <3>4
    <3>6. \A i \in 1 .. n : i # j => ss[i] = <<>>
      BY <3>4, <3>5
    <3>7. n \in Nat \ {0}
      BY <3>4
    <3>8. FlattenSeq(ss) = ss[j]
      BY <3>6, <3>7, FlattenAlone
    <3>9. ss[j] = images[0]
      BY <1>7, <3>3
    <3>10. Count(images[0], e) = Cardinality(OwnersMade(e, call[0]))
      BY <1>1, <1>2, <1>3, <3>1 DEF RankData, JointData
    <3>11. \A o \in Owners : MadeBy(o, call[0]) = Share(o)
      <4> TAKE o \in Owners
      <4>1. o \in World
        BY <1>3 DEF Owners
      <4>2. call[0] = call[o]
        BY <1>1, <3>1, <4>1 DEF Control, ControlIn
      <4> QED  BY <1>8, <4>1, <4>2
    <3>12. OwnersMade(e, call[0]) = OwnersShare(e)
      BY <3>11 DEF OwnersMade, OwnersShare
    <3> QED  BY <1>3, <3>8, <3>9, <3>10, <3>12, RepresentativesHave, CopiesAre
  <2>2. CASE ~ParallelizesVae
    <3>1. \A q \in World : images[q] = IF Makes(q) THEN Share(q) ELSE <<>>
      BY <1>2, <1>3, <1>8, <2>2 DEF RankData, OwnData
    <3>2. \A q \in World : Representative(q) => Makes(q)
      BY <1>3, <2>2 DEF Representative, Returns, Makes, Owners
    <3>3. \A q \in R : images[q] = Share(q)
      BY <3>1, <3>2
    <3> DEFINE U == {r \in R : e \in ToSet(Share(r))}
    <3>4. Cardinality(U) = IF setup.prompts = 1 THEN setup.dp ELSE 1
      <4>1. CASE setup.caller = "native"
        <5>1. U = {r \in DitRanks : Representative(r) /\ e \in ToSet(Share(r))}
          BY <1>3
        <5> QED  BY <4>1, <5>1, RepresentativesHave
      <4>2. CASE setup.caller # "native"
        <5>1. \A r \in DitRanks : Representative(r) <=> r \in Owners
          BY <2>2, <4>2 DEF Representative, Returns, Owners
        <5>2. U = OwnersShare(e)
          BY <1>3, <5>1 DEF OwnersShare, Owners
        <5> QED  BY <5>2, RepresentativesHave
      <4> QED  BY <4>1, <4>2
    <3>5. Cardinality(U) # 0
      <4>1. setup.dp \in Nat \ {0}
        BY SetupFacts
      <4> QED  BY <3>4, <4>1
    <3>6. ASSUME NEW i \in 1 .. n
          PROVE  Count(ss[i], e) = IF Senders[i] \in U THEN 1 ELSE 0
      <4>1. PICK q \in R : q = Senders[i] /\ ss[i] = Share(q)
        BY <1>7, <3>3
      <4>2. Share(q) \in Seq(Nat) /\ Distinct(Share(q))
        BY <1>3, Shares DEF ShareFacts
      <4>3. Count(Share(q), e) = IF e \in ToSet(Share(q)) THEN 1 ELSE 0
        BY <4>2, CountDistinct
      <4> QED  BY <4>1, <4>3
    <3>7. n \in Nat \ {0}
      <4>1. CASE n = 0
        <5>1. Cardinality(R) = 0 /\ IsFiniteSet(R)
          BY <1>4, <1>5, <4>1 DEF Lists
        <5>2. R = {}
          BY <5>1, FS_EmptySet
        <5>3. U = {}
          BY <5>2
        <5> QED  BY <3>5, <5>3, FS_EmptySet
      <4> QED  BY <4>1
    <3> HIDE DEF U
    <3>8. Count(FlattenSeq(ss), e) = Cardinality(Having(ss, n, e))
      BY <3>6, <3>7, CountJoined
    <3>9. Having(ss, n, e) = {i \in 1 .. Len(Senders) : Senders[i] \in U}
      BY <1>5, <3>6 DEF Having
    <3>10. U \in SUBSET R
      BY DEF U
    <3>11. Cardinality({i \in 1 .. Len(Senders) : Senders[i] \in U}) = Cardinality(U)
      <4>1. PICK V, Q : V = U /\ Q = R
        OBVIOUS
      <4>2. Lists(Senders, Q) /\ V \in SUBSET Q
        BY <1>4, <3>10, <4>1
      <4>3. Cardinality({i \in 1 .. Len(Senders) : Senders[i] \in V}) = Cardinality(V)
        BY <4>2, ListCount
      <4> QED  BY <4>1, <4>3
    <3> QED  BY <1>3, <3>4, <3>8, <3>9, <3>11, CopiesAre
  <2> QED  BY <2>1, <2>2
<1> QED  BY <1>6, <1>9 DEF Final

\* GatherOutputs: the last rank has all images.
LEMMA GatherData ==
    ASSUME Fixed, Control, DataIn(pc, call, latents, images, saved), setup.tp = 1, GatherOutputs
    PROVE  DataNow
<1>1. WorldIs /\ GatherIs
  BY Worlds, Gathers
<1>2. Final(FlattenSeq(SendersImages))
  BY <1>1, GatheredAll
<1>3. ASSUME NEW q \in World
      PROVE  RankData(q, pc'[q], call'[q], latents'[q], images'[q], saved')
  <2>1. /\ RankData(q, pc[q], call[q], latents[q], images[q], saved)
        /\ RankOK(q, pc[q], call[q], latents[q], owners[q], images[q])
        /\ pc[q] = "gather_outputs" /\ pc'[q] = "save" /\ call'[q] = call[q]
        /\ images'[q] = IF q = DitSize - 1 THEN FlattenSeq(SendersImages) ELSE <<>>
    BY <1>1 DEF DataIn, GatherIs, Control, ControlIn
  <2>2. GathersOutputs /\ ~Dedicated
    BY <1>1, <2>1 DEF RankOK, GathersOutputs, WorldIs
  <2>3. Ready(q, pc'[q], call'[q]) /\ OwnData(q, pc'[q], call'[q], images'[q])
    BY <2>1, <2>2 DEF RankData, Ready, OwnData
  <2>4. JointData(q, pc'[q], call'[q], latents'[q], images'[q])
    BY <2>1 DEF JointData
  <2>5. VaeData(q, pc'[q], latents'[q], images'[q])
    BY <2>2 DEF VaeData
  <2>6. GatheredData(q, pc'[q], images'[q]) /\ SavedData(pc'[q], saved')
    BY <1>2, <2>1 DEF GatheredData, SavedData
  <2> QED  BY <2>3, <2>4, <2>5, <2>6 DEF RankData
<1> QED  BY <1>3 DEF DataNow, DataIn

\* The rank that saves is one that has images, if one has.
LEMMA OwnerHas ==
    ASSUME Fixed, NEW t \in World, images[t] # <<>>
    PROVE  OutputOwner \in World /\ images[OutputOwner] # <<>>
<1> DEFINE R == {r \in World : images[r] # <<>>}
<1>1. PICK b \in Nat : World = 0 .. b - 1
  <2>1. WorldIs
    BY Worlds
  <2>2. PICK k \in Nat \ {0} : k = DitSize + setup.vae /\ World = 0 .. k - 1
    BY <2>1 DEF WorldIs
  <2> QED  BY <2>2
<1>2. R \in SUBSET (0 .. b - 1) /\ t \in R
  BY <1>1
<1>3. PICK s : Lists(s, R)
  BY <1>2, InOrderLists
<1>4. ToSet(s) = R /\ Increasing(s) /\ Len(s) \in Nat /\ DOMAIN s = 1 .. Len(s)
  BY <1>3 DEF Lists
<1>5. PICK n \in Nat \ {0} : n = Len(s) /\ DOMAIN s = 1 .. n
  <2>1. t \in ToSet(s)
    BY <1>2, <1>4
  <2>2. \E i \in DOMAIN s : s[i] = t
    BY <2>1 DEF ToSet
  <2>3. PICK k \in Nat : k = Len(s) /\ DOMAIN s = 1 .. k
    BY <1>4
  <2>4. k # 0
    BY <2>2, <2>3
  <2> QED  BY <2>3, <2>4
<1>6. s[n] \in R
  BY <1>4, <1>5 DEF ToSet
<1>7. \A y \in R : s[n] >= y
  <2> TAKE y \in R
  <2>1. PICK i \in 1 .. n : s[i] = y
    BY <1>4, <1>5 DEF ToSet
  <2>2. s[n] \in Int /\ y \in Int
    BY <1>2, <1>6
  <2>3. i < n => s[i] < s[n]
    BY <1>4, <1>5 DEF Increasing
  <2> QED  BY <2>1, <2>2, <2>3
<1>8. Max(R) \in R
  BY <1>6, <1>7 DEF Max
<1>9. OutputOwner = Max(R)
  BY <1>2 DEF OutputOwner
<1> QED  BY <1>8, <1>9

\* Save: the images of the rank that saves are all.
LEMMA SaveData ==
    ASSUME Fixed, Control, DataIn(pc, call, latents, images, saved), setup.tp = 1, Save
    PROVE  DataNow
<1>1. WorldIs
  BY Worlds
<1>2. /\ \A q \in World : pc[q] = "save" /\ pc' = [r \in World |-> "end"]
      /\ UNCHANGED <<call, latents, owners, images>> /\ saved' = images[OutputOwner]
  BY DEF Save, At, Go
<1>3. \A q \in World : /\ RankData(q, pc[q], call[q], latents[q], images[q], saved)
                       /\ RankOK(q, pc[q], call[q], latents[q], owners[q], images[q])
  BY DEF DataIn, Control, ControlIn
<1>4. setup.caller # "ray" /\ ~Refused /\ 0 \in World
  BY <1>1, <1>2, <1>3 DEF RankOK, WorldIs
<1>5. World = DitRanks /\ ~Dedicated
  BY <1>1, <1>4 DEF WorldIs
<1>6. Final(images[OutputOwner])
  <2>1. CASE GathersOutputs
    <3>1. PICK m \in World : m = DitSize - 1
      BY <1>5, DitSizeType
    <3>2. Final(images[m]) /\ \A q \in World : q # m => images[q] = <<>>
      BY <1>2, <1>3, <2>1, <3>1 DEF RankData, GatheredData
    <3>3. OutputOwner = m
      <4>1. CASE \E t \in World : images[t] # <<>>
        <5>1. OutputOwner \in World /\ images[OutputOwner] # <<>>
          BY <4>1, OwnerHas
        <5> QED  BY <3>2, <5>1
      <4>2. CASE ~ \E t \in World : images[t] # <<>>
        <5>1. {r \in World : images[r] # <<>>} = {}
          BY <4>2
        <5> QED  BY <3>1, <5>1 DEF OutputOwner
      <4> QED  BY <4>1, <4>2
    <3> QED  BY <3>2, <3>3
  <2>2. CASE ~GathersOutputs
    <3>1. setup.dp = 1 /\ ~ParallelizesVae
      <4>1. ~ (setup.dp > 1) /\ ~ParallelizesVae
        BY <1>4, <2>2 DEF GathersOutputs
      <4>2. setup.dp \in Nat \ {0}
        BY SetupFacts
      <4> QED  BY <4>1, <4>2
    <3>2. \A r \in DitRanks : Share(r) = AllPrompts
      BY <3>1, OneOwner
    <3>3. ASSUME NEW q \in World
          PROVE  images[q] = IF Makes(q) THEN AllPrompts ELSE <<>>
      <4>1. q \in DitRanks /\ call[q] \in Nat /\ call[q] >= Calls(q)
        BY <1>2, <1>3, <1>5 DEF RankOK, RankData, Ready
      <4>2. CallsMake(q, call[q])
        BY <4>1, CallsMakes
      <4>3. MadeBy(q, call[q]) = AllPrompts
        BY <1>4, <3>2, <4>1, <4>2 DEF CallsMake
      <4> QED  BY <1>2, <1>3, <1>4, <2>2, <3>1, <4>3 DEF RankData, OwnData
    <3>4. AllPrompts # <<>>
      <4>1. Len(AllPrompts) = setup.prompts /\ setup.prompts # 0
        BY AllIs, SetupFacts
      <4> QED  BY <4>1
    <3>5. PICK o \in World : images[o] # <<>>
      <4>1. PICK o \in Owners : TRUE
        BY OwnersExist
      <4>2. o \in World /\ Makes(o)
        BY <1>5 DEF Owners, Makes
      <4> QED  BY <3>3, <3>4, <4>2
    <3>6. OutputOwner \in World /\ images[OutputOwner] # <<>>
      BY <3>5, OwnerHas
    <3>7. images[OutputOwner] = AllPrompts
      BY <3>3, <3>6
    <3>8. ASSUME NEW e \in 1 .. setup.prompts PROVE Count(AllPrompts, e) = Copies
      <4>1. Count(AllPrompts, e) = 1
        BY AllIs, CountDistinct
      <4> QED  BY <1>5, <3>1, <4>1, CopiesAre
    <3> QED  BY <3>7, <3>8 DEF Final
  <2> QED  BY <2>1, <2>2
<1>7. ASSUME NEW q \in World
      PROVE  RankData(q, pc'[q], call'[q], latents'[q], images'[q], saved')
  <2>1. pc'[q] = "end" /\ saved' = images[OutputOwner]
    BY <1>2
  <2>2. SavedData(pc'[q], saved')
    BY <1>6, <2>1 DEF SavedData
  <2>3. Ready(q, pc'[q], call'[q]) /\ OwnData(q, pc'[q], call'[q], images'[q])
    BY <1>4, <2>1 DEF Ready, OwnData
  <2>4. JointData(q, pc'[q], call'[q], latents'[q], images'[q])
    BY <2>1 DEF JointData
  <2>5. VaeData(q, pc'[q], latents'[q], images'[q]) /\ GatheredData(q, pc'[q], images'[q])
    BY <1>5, <2>1 DEF VaeData, GatheredData
  <2> QED  BY <2>2, <2>3, <2>4, <2>5 DEF RankData
<1> QED  BY <1>7 DEF DataNow, DataIn

\* Every step keeps the ranks' images and latents right.
LEMMA DataStep ==
    ASSUME Fixed, Control, Data, [Next]_vars
    PROVE  Data'
<1>1. UNCHANGED <<setup, groups>>
  BY FixedStep
<1>2. ASSUME setup.tp = 1 PROVE DataNow
  <2>1. DataIn(pc, call, latents, images, saved) /\ setup.tp = 1
    BY <1>2 DEF Data
  <2>2. ASSUME NEW r \in DitRanks, Split(r) \/ Denoise(r) PROVE DataNow
    BY <2>1, <2>2, SplitData, DenoiseData, Zenon
  <2>3. CASE UNCHANGED vars
    BY <2>1, <2>3 DEF DataNow, vars
  <2> QED
    BY <2>1, <2>2, <2>3, AnnounceData, CollectData, BroadcastData, TransferData,
       VaeBroadcastData, DriverData, GatherData, SaveData, Zenon
    DEF Next, Step, Stop
<1> QED  BY <1>1, <1>2, DataNext

\* The ranks' images and latents are always right.
LEMMA DataAlways == Spec => []Data
<1>1. Init => Data
  BY DataInit
<1>2. Fixed /\ Control /\ Data /\ [Next]_vars => Data'
  BY DataStep
<1> QED  BY <1>1, <1>2, GroupsFixed, ControlAlways, PTL DEF Spec

\* Without tensor parallelism every prompt is saved as often as it has to come
\* out, once unless a single prompt is made by every replica or several dedicated
\* ranks decode: whatever the degrees, the caller, the number of prompts and the
\* batch, no replica's latents are lost, doubled or taken from a rank that does
\* not have them (_run_pipe_batched, gather_latents_for_vae, _gather_dp_outputs).
THEOREM PromptsAreSaved == Spec => []EveryPromptSaved
<1>1. Fixed /\ Data => EveryPromptSaved
  <2> SUFFICES ASSUME Fixed, Data, \A r \in World : pc[r] = "end", setup.tp = 1
               PROVE  \A p \in 1 .. setup.prompts : Count(saved, p) = Copies
    BY DEF EveryPromptSaved
  <2>1. 0 \in World
    BY Worlds DEF WorldIs
  <2>2. Final(saved)
    BY <2>1 DEF Data, DataIn, RankData, SavedData
  <2> QED  BY <2>2 DEF Final
<1> QED  BY <1>1, GroupsFixed, DataAlways, PTL
=============================================================================
