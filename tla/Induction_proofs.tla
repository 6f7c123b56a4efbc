-------------------------- MODULE Induction_proofs --------------------------
(* Induction over the natural numbers, stated of sets so that a lemma can be  *)
(* cited for it, and what a function defined by recursion over 1 .. n is: the *)
(* offsets in a layout are running sums.                                      *)
EXTENDS Naturals, WellFoundedInduction, TLAPS

LEMMA NatMin ==
  ASSUME NEW T, T \subseteq Nat, T # {}
  PROVE  \E m \in T : \A n \in T : m <= n
<1> DEFINE R == {ss \in Nat \X Nat : ss[1] < ss[2]}
<1>1. IsWellFoundedOn(R, Nat)
  BY NatLessThanWellFounded DEF OpToRel
<1> HIDE DEF R
<1>2. \E x \in T : \A y \in T : ~ (<<y, x>> \in R)
  BY <1>1, WFMin
<1>3. \A x \in Nat, y \in Nat : <<y, x>> \notin R => x <= y
  BY DEF R
<1> QED
  BY <1>2, <1>3

LEMMA Induct ==
  ASSUME NEW n \in Nat, NEW S, 1 <= n => 1 \in S,
         \A i \in 1 .. n : i + 1 <= n /\ i \in S => i + 1 \in S
  PROVE  1 .. n \subseteq S
<1> DEFINE T == (1 .. n) \ S
<1> SUFFICES ASSUME T # {} PROVE FALSE
  OBVIOUS
<1>1. T \subseteq Nat
  OBVIOUS
<1> HIDE DEF T
<1>2. PICK m \in T : \A k \in T : m <= k
  BY <1>1, NatMin
<1>3. m \in 1 .. n /\ m \notin S
  BY DEF T
<1>4. m # 1
  BY <1>3
<1>5. m - 1 \in 1 .. n /\ (m - 1) + 1 = m /\ ~(m <= m - 1)
  BY <1>3, <1>4
<1>6. m - 1 \in S
  BY <1>2, <1>5 DEF T
<1> QED
  BY <1>3, <1>5, <1>6

\* What a is turned into by the steps g[1], g[2], ... g[m], one after another.
AreIterates(at, a, g, n) ==
  \A i \in 1 .. n : at[i] = IF i = 1 THEN a ELSE g[i - 1][at[i - 1]]
Iterates(a, g, m, T) == CHOOSE at \in [1 .. m + 1 -> T] : AreIterates(at, a, g, m + 1)

LEMMA IteratesExist ==
  ASSUME NEW m \in Nat, NEW T, NEW a \in T, NEW g \in [1 .. m -> [T -> T]]
  PROVE  /\ Iterates(a, g, m, T) \in [1 .. m + 1 -> T]
         /\ AreIterates(Iterates(a, g, m, T), a, g, m + 1)
<1> DEFINE n == m + 1
           Is(at, k) == AreIterates(at, a, g, k)
           Has(k) == \E at \in [1 .. k -> T] : Is(at, k)
           S == {k \in 1 .. n : Has(k)}
<1>1. 1 \in S
  <2> DEFINE at == [i \in 1 .. 1 |-> a]
  <2>1. at \in [1 .. 1 -> T] /\ Is(at, 1)
    BY DEF AreIterates
  <2> HIDE DEF at, Is
  <2>2. Has(1)
    BY <2>1
  <2> QED
    BY <2>2
<1>2. ASSUME NEW k \in 1 .. n, k + 1 <= n, k \in S PROVE k + 1 \in S
  <2>1. PICK f \in [1 .. k -> T] : Is(f, k)
    BY <1>2
  <2> DEFINE h == [i \in 1 .. k + 1 |-> IF i <= k THEN f[i] ELSE g[k][f[k]]]
  <2>2. g[k] \in [T -> T] /\ f[k] \in T /\ g[k][f[k]] \in T
    BY <1>2
  <2>3. h \in [1 .. k + 1 -> T]
    BY <2>2
  <2>4. Is(h, k + 1)
    <3> SUFFICES ASSUME NEW i \in 1 .. k + 1
                 PROVE  h[i] = IF i = 1 THEN a ELSE g[i - 1][h[i - 1]]
      BY DEF AreIterates
    <3>1. CASE i <= k
      <4>1. f[i] = IF i = 1 THEN a ELSE g[i - 1][f[i - 1]]
        BY <2>1, <3>1 DEF AreIterates
      <4>2. h[i] = f[i] /\ (i # 1 => h[i - 1] = f[i - 1])
        BY <3>1
      <4> HIDE DEF h
      <4> QED
        BY <4>1, <4>2
    <3>2. CASE i = k + 1
      <4>1. h[i] = g[k][f[k]] /\ h[k] = f[k] /\ i # 1 /\ i - 1 = k
        BY <3>2
      <4> HIDE DEF h
      <4> QED
        BY <4>1
    <3> QED
      BY <3>1, <3>2
  <2>5. Has(k + 1)
    <3> HIDE DEF h, Is
    <3> QED
      BY <2>3, <2>4
  <2>6. k + 1 \in 1 .. n
    BY <1>2
  <2> HIDE DEF Has
  <2> QED
    BY <2>5, <2>6
<1>3. n \in Nat /\ n \in 1 .. n
  OBVIOUS
<1> HIDE DEF n, S
<1>4. 1 .. n \subseteq S
  BY <1>1, <1>2, <1>3, Induct
<1>5. n \in S
  BY <1>3, <1>4
<1>6. \E at \in [1 .. m + 1 -> T] : AreIterates(at, a, g, m + 1)
  BY <1>5 DEF S, n
<1> QED
  BY <1>6 DEF Iterates

\* The running sums of d, which has m entries, from a.
AreSums(at, a, d, n) ==
  \A i \in 1 .. n : at[i] = IF i = 1 THEN a ELSE at[i - 1] + d[i - 1]
Sums(a, d, m) == Iterates(a, [i \in 1 .. m |-> [x \in Nat |-> x + d[i]]], m, Nat)

LEMMA SumsExist ==
  ASSUME NEW m \in Nat, NEW a \in Nat, NEW d \in [1 .. m -> Nat]
  PROVE  /\ Sums(a, d, m) \in [1 .. m + 1 -> Nat]
         /\ AreSums(Sums(a, d, m), a, d, m + 1)
<1> DEFINE g == [i \in 1 .. m |-> [x \in Nat |-> x + d[i]]]
           at == Iterates(a, g, m, Nat)
<1>1. g \in [1 .. m -> [Nat -> Nat]]
  OBVIOUS
<1>2. at \in [1 .. m + 1 -> Nat] /\ AreIterates(at, a, g, m + 1)
  <2> HIDE DEF g
  <2> QED
    BY <1>1, IteratesExist
<1> HIDE DEF at
<1>3. AreSums(at, a, d, m + 1)
  <2> SUFFICES ASSUME NEW i \in 1 .. m + 1
               PROVE  at[i] = IF i = 1 THEN a ELSE at[i - 1] + d[i - 1]
    BY DEF AreSums
  <2>1. at[i] = IF i = 1 THEN a ELSE g[i - 1][at[i - 1]]
    <3> HIDE DEF g
    <3> QED
      BY <1>2 DEF AreIterates
  <2>2. CASE i # 1
    <3>1. i - 1 \in 1 .. m /\ i - 1 \in 1 .. m + 1
      BY <2>2
    <3>2. at[i - 1] \in Nat
      BY <1>2, <3>1
    <3> QED
      BY <2>1, <2>2, <3>1, <3>2
  <2> QED
    BY <2>1, <2>2
<1> QED
  BY <1>2, <1>3 DEF Sums, at
=============================================================================
