--------------------------- MODULE DataInduction ----------------------------
(***************************************************************************)
(* Induction on the naturals with sets in place of predicates, from the    *)
(* well-foundedness of < : a set of naturals has a least element, and one  *)
(* that holds 0 and the successors of its elements is all of Nat.  From it, *)
(* that a recursive definition over 0..N defines a function, and what type *)
(* its values have.                                                        *)
(***************************************************************************)
EXTENDS Integers, WellFoundedInduction, TLAPS

LEMMA LeastElement ==
  ASSUME NEW T \in SUBSET Nat, T # {}
  PROVE  \E m \in T : \A k \in T : m <= k
<1>1. PICK m \in T : \A k \in T : <<k, m>> \notin OpToRel(<, Nat)
  BY WFMin, NatLessThanWellFounded
<1>2. ASSUME NEW k \in T, k < m PROVE <<k, m>> \in OpToRel(<, Nat)
  <2>1. k \in Nat /\ m \in Nat
    OBVIOUS
  <2>. QED BY <1>2, <2>1 DEF OpToRel
<1>3. \A k \in T : ~(k < m)
  BY <1>1, <1>2, Zenon
<1>. QED BY <1>3

LEMMA SetInduction ==
  ASSUME NEW T, 0 \in T, \A n \in T \cap Nat : n + 1 \in T
  PROVE  Nat \subseteq T
<1>. SUFFICES ASSUME Nat \ T # {} PROVE FALSE
  OBVIOUS
<1>1. PICK m \in Nat \ T : \A k \in Nat \ T : m <= k
  BY LeastElement
<1>2. m # 0 /\ m - 1 \in T /\ m - 1 \in Nat /\ (m - 1) + 1 = m
  BY <1>1
<1>. QED BY <1>1, <1>2

\* The same up to a bound.
LEMMA BoundedInduction ==
  ASSUME NEW T, NEW N \in Nat, 0 \in T, \A n \in 1..N : n - 1 \in T => n \in T
  PROVE  0..N \subseteq T
<1>. DEFINE U == {n \in Nat : n <= N => n \in T}
<1>1. 0 \in U
  OBVIOUS
<1>2. ASSUME NEW n \in U \cap Nat PROVE n + 1 \in U
  <2>1. n + 1 <= N => n + 1 \in 1..N /\ (n + 1) - 1 = n /\ n <= N
    OBVIOUS
  <2>. QED BY <2>1
<1>3. Nat \subseteq U
  <2>. HIDE DEF U
  <2>. QED BY <1>1, <1>2, SetInduction
<1>. QED BY <1>3

\* What f[n \in 0..N] == IF n = 0 THEN base ELSE g[n][f[n - 1]] defines.
Recursive(f, base, g, N) == f[0] = base /\ \A n \in 1..N : f[n] = g[n][f[n - 1]]

\* There is such a function.
LEMMA Recursion ==
  ASSUME NEW T, NEW N \in Nat, NEW base \in T, NEW g \in [1..N -> [T -> T]]
  PROVE  \E f \in [0..N -> T] : Recursive(f, base, g, N)
<1>. DEFINE U == {k \in 0..N : \E f \in [0..k -> T] : Recursive(f, base, g, k)}
<1>1. 0 \in U
  <2>. DEFINE h == [n \in 0..0 |-> base]
  <2>1. h \in [0..0 -> T] /\ Recursive(h, base, g, 0) /\ 0 \in 0..N
    BY DEF Recursive
  <2>2. \E f \in [0..0 -> T] : Recursive(f, base, g, 0)
    <3>. HIDE DEF h
    <3>. QED BY <2>1
  <2>. QED BY <2>1, <2>2
<1>2. ASSUME NEW k \in 1..N, k - 1 \in U PROVE k \in U
  <2>1. PICK f \in [0..(k - 1) -> T] : Recursive(f, base, g, k - 1)
    BY <1>2
  <2>. DEFINE v == g[k][f[k - 1]]
              h == [n \in 0..k |-> IF n = k THEN v ELSE f[n]]
  <2>2. k - 1 \in 0..(k - 1) /\ f[k - 1] \in T
    OBVIOUS
  <2>3. v \in T
    BY <2>2
  <2>4. \A n \in 0..k : n # k => n \in 0..(k - 1) /\ f[n] \in T
    OBVIOUS
  <2>5. h \in [0..k -> T]
    <3>. HIDE DEF v
    <3>. QED BY <2>3, <2>4
  <2>6. ASSUME NEW n \in 1..k PROVE h[n] = g[n][h[n - 1]]
    <3>1. CASE n = k
      <4>1. h[n] = v /\ h[n - 1] = f[k - 1]
        BY <3>1
      <4>. QED BY <3>1, <4>1
    <3>2. CASE n # k
      <4>1. n \in 1..(k - 1) /\ h[n] = f[n] /\ h[n - 1] = f[n - 1]
        BY <3>2
      <4>2. f[n] = g[n][f[n - 1]]
        BY <2>1, <4>1 DEF Recursive
      <4>. QED BY <4>1, <4>2
    <3>. QED BY <3>1, <3>2
  <2>7. h[0] = base
    BY <2>1 DEF Recursive
  <2>8. \E f_1 \in [0..k -> T] : Recursive(f_1, base, g, k)
    <3>1. Recursive(h, base, g, k)
      <4>. HIDE DEF h
      <4>. QED BY <2>6, <2>7 DEF Recursive
    <3>. HIDE DEF h
    <3>. QED BY <2>5, <3>1
  <2>. QED BY <2>8
<1>3. 0..N \subseteq U
  <2>. HIDE DEF U
  <2>. QED BY <1>1, <1>2, BoundedInduction
<1>4. N \in U
  <2>. HIDE DEF U
  <2>. QED BY <1>3
<1>5. PICK f \in [0..N -> T] : Recursive(f, base, g, N)
  BY <1>4
<1>. QED BY <1>5

\* A value of such a definition has every property that each step keeps.
LEMMA RecursionTyped ==
  ASSUME NEW T, NEW N \in Nat, NEW f, f[0] \in T, \A n \in 1..N : f[n - 1] \in T => f[n] \in T
  PROVE  \A n \in 0..N : f[n] \in T
<1>. DEFINE U == {n \in 0..N : f[n] \in T}
<1>1. 0 \in U /\ \A n \in 1..N : n - 1 \in U => n \in U
  OBVIOUS
<1>2. 0..N \subseteq U
  <2>. HIDE DEF U
  <2>. QED BY <1>1, BoundedInduction
<1>. QED BY <1>2

\* Finitely many natural numbers have a greatest.
LEMMA GreatestElement ==
  ASSUME NEW N \in Nat, NEW f \in [1..N -> Nat]
  PROVE  \E m \in {0} \cup {f[n] : n \in 1..N} : \A k \in {0} \cup {f[n] : n \in 1..N} : m >= k
<1>. DEFINE V(k) == {0} \cup {f[n] : n \in 1..k}
            U == {k \in 0..N : \E m \in V(k) : \A v \in V(k) : m >= v}
<1>1. 0 \in U
  OBVIOUS
<1>2. ASSUME NEW k \in 1..N, k - 1 \in U PROVE k \in U
  <2>1. PICK m \in V(k - 1) : \A v \in V(k - 1) : m >= v
    BY <1>2
  <2>2. V(k) = V(k - 1) \cup {f[k]} /\ m \in Nat /\ f[k] \in Nat /\ V(k - 1) \subseteq Nat
    <3>1. 1..k = 1..(k - 1) \cup {k} /\ 1..(k - 1) \subseteq 1..N
      OBVIOUS
    <3>. QED BY <3>1
  <2>3. CASE f[k] >= m
    <3>1. f[k] \in V(k) /\ \A v \in V(k) : f[k] >= v
      <4>. HIDE DEF V
      <4>. QED BY <2>1, <2>2, <2>3
    <3>. HIDE DEF V
    <3>. QED BY <3>1
  <2>4. CASE ~(f[k] >= m)
    <3>1. m \in V(k) /\ \A v \in V(k) : m >= v
      <4>. HIDE DEF V
      <4>. QED BY <2>1, <2>2, <2>4
    <3>. HIDE DEF V
    <3>. QED BY <3>1
  <2>. QED BY <2>3, <2>4
<1>3. 0..N \subseteq U
  <2>. HIDE DEF U
  <2>. QED BY <1>1, <1>2, BoundedInduction
<1>4. N \in U
  <2>. HIDE DEF U
  <2>. QED BY <1>3
<1>5. \E m \in V(N) : \A v \in V(N) : m >= v
  <2>. HIDE DEF V
  <2>. QED BY <1>4
<1>. QED BY <1>5, Zenon
=============================================================================
