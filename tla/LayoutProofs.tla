---------------------------- MODULE LayoutProofs ----------------------------
(***************************************************************************)
(* What the operators of Layout return, for any font, text and width:      *)
(* lines are lines that say what their text says, that fit the width they  *)
(* were made for and whose cells start at their columns; pictures have     *)
(* sizes, and Build and Paint compute the same rows for a picture whose    *)
(* header and frame agree.                                                 *)
(***************************************************************************)
EXTENDS Layout, DataInduction, SequenceTheorems

\* Integer quotients are integers.
LEMMA Quotients ==
  /\ \A a \in Int, b \in Nat \ {0} : a \div b \in Int
  /\ \A a \in Nat, b \in Nat \ {0} : a \div b \in Nat
  OBVIOUS

-----------------------------------------------------------------------------
(***************************************************************************)
(* Sums and concatenations.                                                *)
(***************************************************************************)

\* The recursive function inside SumOf exists.
LEMMA SumDefined ==
  ASSUME NEW N \in Nat, NEW s \in [1..N -> Int]
  PROVE  \E f : f = [n \in 0..N |-> IF n = 0 THEN 0 ELSE f[n - 1] + s[n]]
<1>. DEFINE T == Int
            g == [n \in 1..N |-> [a \in T |-> a + s[n]]]
<1>1. g \in [1..N -> [T -> T]] /\ 0 \in T
  OBVIOUS
<1>2. PICK h \in [0..N -> T] : Recursive(h, 0, g, N)
  <2>. HIDE DEF g, T
  <2>. QED BY <1>1, Recursion
<1>3. ASSUME NEW n \in 0..N, n # 0 PROVE h[n] = h[n - 1] + s[n]
  <2>1. n \in 1..N /\ n - 1 \in 0..N /\ h[n - 1] \in Int
    BY <1>3
  <2>. QED BY <1>2, <2>1 DEF Recursive
<1>4. h = [n \in 0..N |-> IF n = 0 THEN 0 ELSE h[n - 1] + s[n]]
  <2>. HIDE DEF g
  <2>. QED BY <1>2, <1>3 DEF Recursive
<1>. QED BY <1>4

\* It is what its defining equation says, and adds integers to integers.
LEMMA SumValues ==
  ASSUME NEW N \in Nat, NEW s \in [1..N -> Int], NEW f,
         f = [n \in 0..N |-> IF n = 0 THEN 0 ELSE f[n - 1] + s[n]]
  PROVE  /\ f[0] = 0
         /\ \A n \in 1..N : f[n] = f[n - 1] + s[n]
         /\ \A n \in 0..N : f[n] \in Int
<1>1. f[0] = 0 /\ \A n \in 1..N : n \in 0..N /\ f[n] = f[n - 1] + s[n]
  OBVIOUS
<1>. DEFINE T == Int
<1>2. f[0] \in T /\ \A n \in 1..N : f[n - 1] \in T => f[n] \in T
  BY <1>1
<1>3. \A n \in 0..N : f[n] \in T
  <2>. HIDE DEF T
  <2>. QED BY <1>2, RecursionTyped
<1>. QED BY <1>1, <1>3

\* SumOf by its partial sums.
LEMMA SumUnfolds ==
  ASSUME NEW s \in Seq(Int)
  PROVE  \E f :
           /\ SumOf(s) = f[Len(s)]
           /\ f[0] = 0
           /\ \A n \in 1..Len(s) : f[n] = f[n - 1] + s[n]
           /\ \A n \in 0..Len(s) : f[n] \in Int
<1>. DEFINE Sums(f) == f = [n \in 0..Len(s) |-> IF n = 0 THEN 0 ELSE f[n - 1] + s[n]]
            F == CHOOSE f : Sums(f)
<1>1. Len(s) \in Nat /\ s \in [1..Len(s) -> Int]
  OBVIOUS
<1>2. \E f : Sums(f)
  BY <1>1, SumDefined
<1>3. Sums(F)
  <2>. HIDE DEF Sums
  <2>. QED BY <1>2, Zenon
<1>4. SumOf(s) = F[Len(s)]
  BY DEF SumOf
<1>5. PICK f : f = F
  OBVIOUS
<1>6. f = [n \in 0..Len(s) |-> IF n = 0 THEN 0 ELSE f[n - 1] + s[n]]
  <2>. HIDE DEF F
  <2>. QED BY <1>3, <1>5, Zenon
<1>. HIDE DEF F
<1>7. /\ f[0] = 0
      /\ \A n \in 1..Len(s) : f[n] = f[n - 1] + s[n]
      /\ \A n \in 0..Len(s) : f[n] \in Int
  BY <1>1, <1>6, SumValues, Zenon
<1>. QED BY <1>4, <1>5, <1>7, Zenon

\* A sum of integers is one, of natural numbers one, of positive numbers one.
LEMMA SumTyped ==
  /\ \A s \in Seq(Int) : SumOf(s) \in Int
  /\ \A s \in Seq(Nat) : SumOf(s) \in Nat
  /\ \A s \in Seq(Nat \ {0}) : s # <<>> => SumOf(s) \in Nat \ {0}
<1>1. ASSUME NEW s \in Seq(Int) PROVE SumOf(s) \in Int
  <2>1. Len(s) \in 0..Len(s)
    OBVIOUS
  <2>. QED BY <2>1, SumUnfolds
<1>2. ASSUME NEW s \in Seq(Nat)
      PROVE  /\ SumOf(s) \in Nat
             /\ s # <<>> /\ s[Len(s)] # 0 => SumOf(s) # 0
  <2>1. s \in Seq(Int) /\ Len(s) \in Nat /\ \A n \in 1..Len(s) : s[n] \in Nat
    OBVIOUS
  <2>2. PICK f : /\ SumOf(s) = f[Len(s)]
                 /\ f[0] = 0
                 /\ \A n \in 1..Len(s) : f[n] = f[n - 1] + s[n]
    BY <2>1, SumUnfolds, Zenon
  <2>. DEFINE T == Nat
              N == Len(s)
  <2>3. f[0] \in T /\ N \in Nat /\ \A n \in 1..N : f[n - 1] \in T => f[n] \in T
    BY <2>1, <2>2
  <2>4. \A n \in 0..N : f[n] \in T
    <3>. HIDE DEF T, N
    <3>. QED BY <2>3, RecursionTyped
  <2>5. Len(s) \in 0..Len(s) /\ (s # <<>> => Len(s) \in 1..Len(s) /\ Len(s) - 1 \in 0..Len(s))
    BY <2>1
  <2>6. f[N] \in Nat /\ (s # <<>> => f[N - 1] \in Nat /\ f[N] = f[N - 1] + s[N] /\ s[N] \in Nat)
    BY <2>1, <2>2, <2>4, <2>5
  <2>. QED BY <2>2, <2>6
<1>3. ASSUME NEW s \in Seq(Nat \ {0}), s # <<>> PROVE SumOf(s) \in Nat \ {0}
  <2>1. s \in Seq(Nat) /\ s[Len(s)] # 0
    BY <1>3
  <2>. QED BY <1>2, <1>3, <2>1
<1>. QED BY <1>1, <1>2, <1>3

\* FlattenSeq of sequences over S is one.
LEMMA FlattenDefined ==
  ASSUME NEW S, NEW N \in Nat, NEW seqs \in [1..N -> Seq(S)]
  PROVE  \E f : f = [n \in 1..N |-> IF n = 1 THEN seqs[n] ELSE f[n - 1] \o seqs[n]]
<1>. DEFINE T == Seq(S)
            g == [n \in 1..N |-> [a \in T |-> a \o seqs[n]]]
<1>1. g \in [1..N -> [T -> T]] /\ <<>> \in T
  BY ConcatProperties, EmptySeq
<1>2. PICK h \in [0..N -> T] : Recursive(h, <<>>, g, N)
  <2>. HIDE DEF g, T
  <2>. QED BY <1>1, Recursion
<1>. DEFINE f == [n \in 1..N |-> h[n]]
<1>3. ASSUME NEW n \in 1..N PROVE h[n] = h[n - 1] \o seqs[n]
  <2>1. n - 1 \in 0..N /\ h[n - 1] \in T
    OBVIOUS
  <2>. QED BY <1>2, <2>1 DEF Recursive
<1>4. ASSUME NEW n \in 1..N PROVE f[n] = IF n = 1 THEN seqs[n] ELSE f[n - 1] \o seqs[n]
  <2>1. CASE n = 1
    <3>1. h[0] = <<>> /\ n - 1 = 0 /\ seqs[n] \in Seq(S)
      BY <1>2, <2>1 DEF Recursive
    <3>2. h[n] = <<>> \o seqs[n]
      BY <1>3, <3>1
    <3>3. <<>> \o seqs[n] = seqs[n]
      BY <3>1, ConcatEmptySeq
    <3>. QED BY <2>1, <3>2, <3>3
  <2>2. CASE n # 1
    <3>1. n - 1 \in 1..N /\ f[n] = h[n] /\ f[n - 1] = h[n - 1]
      BY <2>2
    <3>. QED BY <1>3, <2>2, <3>1
  <2>. QED BY <2>1, <2>2
<1>5. f = [n \in 1..N |-> IF n = 1 THEN seqs[n] ELSE f[n - 1] \o seqs[n]]
  <2>1. f = [n \in 1..N |-> f[n]]
    OBVIOUS
  <2>. HIDE DEF f
  <2>. QED BY <1>4, <2>1
<1>. QED BY <1>5

\* FlattenSeq joins sequences over S to one.
LEMMA Flattened ==
  ASSUME NEW S, NEW seqs \in Seq(Seq(S))
  PROVE  FlattenSeq(seqs) \in Seq(S)
<1>. DEFINE N == Len(seqs)
            Flat(f) == f = [n \in 1..N |-> IF n = 1 THEN seqs[n] ELSE f[n - 1] \o seqs[n]]
            F == CHOOSE f : Flat(f)
<1>1. N \in Nat /\ seqs \in [1..N -> Seq(S)]
  OBVIOUS
<1>2. CASE N = 0
  <2>1. FlattenSeq(seqs) = seqs /\ seqs = <<>>
    BY <1>2 DEF FlattenSeq
  <2>. QED BY <2>1, EmptySeq
<1>3. CASE N # 0
  <2>1. \E f : Flat(f)
    <3>. HIDE DEF N
    <3>. QED BY <1>1, FlattenDefined
  <2>2. Flat(F)
    <3>. HIDE DEF Flat
    <3>. QED BY <2>1, Zenon
  <2>3. FlattenSeq(seqs) = F[N]
    BY <1>3 DEF FlattenSeq
  <2>4. PICK f : f = F
    OBVIOUS
  <2>5. Flat(f)
    <3>. HIDE DEF F, Flat
    <3>. QED BY <2>2, <2>4, Zenon
  <2>. DEFINE T == Seq(S)
              h == [n \in 0..N |-> IF n = 0 THEN <<>> ELSE f[n]]
  <2>6. h[0] \in T
    BY EmptySeq
  <2>7. ASSUME NEW n \in 1..N, h[n - 1] \in T PROVE h[n] \in T
    <3>. HIDE DEF F, N
    <3>1. f[n] = IF n = 1 THEN seqs[n] ELSE f[n - 1] \o seqs[n]
      <4>. HIDE DEF h
      <4>. QED BY <2>5
    <3>4. h[n] = f[n]
      BY <1>1
    <3>2. n # 1 => h[n - 1] = f[n - 1]
      BY <1>1
    <3>3. seqs[n] \in T
      BY <1>1
    <3>. HIDE DEF h
    <3>. QED BY <2>7, <3>1, <3>2, <3>3, <3>4, ConcatProperties
  <2>8. \A n \in 0..N : h[n] \in T
    <3>. HIDE DEF h, T, N
    <3>. QED BY <1>1, <2>6, <2>7, RecursionTyped
  <2>9. N \in 0..N /\ h[N] = f[N]
    BY <1>1, <1>3
  <2>. HIDE DEF h, F, N
  <2>. QED BY <2>3, <2>4, <2>8, <2>9
<1>. QED BY <1>2, <1>3

\* The first n of s, put together.
Upto(s, n) == FlattenSeq([k \in 1..n |-> s[k]])

\* f[n] is the first n of N sequences: one more adds its elements at the end.
Growing(S, N, s, f) ==
  /\ f[0] = <<>>
  /\ \A n \in 1..N : f[n] = f[n - 1] \o s[n]
  /\ \A n \in 0..N : f[n] \in Seq(S) /\ Upto(s, n) = f[n]

\* FlattenDefined, with the equation under a name.
Flattens(N, s, h) == h = [j \in 1..N |-> IF j = 1 THEN s[j] ELSE h[j - 1] \o s[j]]

LEMMA FlattenDefines ==
  \A S : \A N \in Nat : \A s \in [1..N -> Seq(S)] : \E h : Flattens(N, s, h)
BY FlattenDefined DEF Flattens

\* There is such an f.
LEMMA FlattenPrefixes ==
  ASSUME NEW S, NEW N \in Nat, NEW s \in [1..N -> Seq(S)]
  PROVE  \E f : Growing(S, N, s, f)
<1>. DEFINE T == Seq(S)
            g == [n \in 1..N |-> [a \in T |-> a \o s[n]]]
<1>1. g \in [1..N -> [T -> T]] /\ <<>> \in T
  BY ConcatProperties, EmptySeq
<1>2. PICK f \in [0..N -> T] : Recursive(f, <<>>, g, N)
  <2>. HIDE DEF g, T
  <2>. QED BY <1>1, Recursion
<1>3. f[0] = <<>> /\ \A n \in 1..N : f[n] = f[n - 1] \o s[n]
  <2>1. \A n \in 1..N : n - 1 \in 0..N /\ f[n - 1] \in T
    OBVIOUS
  <2>. QED BY <1>2, <2>1 DEF Recursive
<1>4. ASSUME NEW n \in 0..N PROVE FlattenSeq([k \in 1..n |-> s[k]]) = f[n]
  <2>. DEFINE p == [k \in 1..n |-> s[k]]
              Flat(h) == h = [j \in 1..n |-> IF j = 1 THEN p[j] ELSE h[j - 1] \o p[j]]
              F == CHOOSE h : Flat(h)
  <2>1. n \in Nat /\ p \in [1..n -> Seq(S)] /\ p \in Seq(Seq(S)) /\ Len(p) = n
    OBVIOUS
  <2>2. CASE n = 0
    <3>1. FlattenSeq(p) = p /\ p = <<>>
      BY <2>1, <2>2 DEF FlattenSeq
    <3>. QED BY <1>3, <2>2, <3>1
  <2>3. CASE n # 0
    <3>1. \E h : Flat(h)
      <4>. HIDE DEF p
      <4>0. PICK M \in Nat : M = n
        BY <2>1
      <4>1. PICK q \in [1..M -> Seq(S)] : q = p
        BY <2>1, <4>0
      <4>2. \E h : Flattens(M, q, h)
        BY <4>1, FlattenDefines, Zenon
      <4>3. PICK h : Flattens(M, q, h)
        BY <4>2, Zenon
      <4>4. h = [j \in 1..n |-> IF j = 1 THEN p[j] ELSE h[j - 1] \o p[j]]
        BY <4>0, <4>1, <4>3 DEF Flattens
      <4>. QED BY <4>4, Zenon
    <3>2. Flat(F)
      <4>. HIDE DEF Flat
      <4>. QED BY <3>1, Zenon
    <3>3. FlattenSeq(p) = F[Len(p)]
      <4>1. \A h : (h = [j \in 1..Len(p) |-> IF j = 1 THEN p[j] ELSE h[j - 1] \o p[j]]) = Flat(h)
        <5>. HIDE DEF p
        <5>. QED BY <2>1
      <4>2. FlattenSeq(p) = (CHOOSE h : h = [j \in 1..Len(p) |-> IF j = 1 THEN p[j] ELSE h[j - 1] \o p[j]])[Len(p)]
        <5>. HIDE DEF p
        <5>. QED BY <2>1, <2>3 DEF FlattenSeq
      <4>. QED BY <2>1, <4>2
    <3>4. PICK h : h = F
      OBVIOUS
    <3>5. h = [j \in 1..n |-> IF j = 1 THEN p[j] ELSE h[j - 1] \o p[j]]
      <4>. HIDE DEF F, p
      <4>. QED BY <3>2, <3>4, Zenon
    <3>. DEFINE U == {j \in 0..n : j # 0 => h[j] = f[j]}
    <3>6. ASSUME NEW j \in 1..n, j - 1 \in U PROVE j \in U
      <4>1. h[j] = (IF j = 1 THEN p[j] ELSE h[j - 1] \o p[j]) /\ p[j] = s[j] /\ s[j] \in Seq(S) /\ j \in 1..N
        <5>1. h[j] = (IF j = 1 THEN p[j] ELSE h[j - 1] \o p[j])
          <6>. HIDE DEF F, p
          <6>. QED BY <3>5
        <5>. QED BY <5>1
      <4>2. f[j] = f[j - 1] \o s[j]
        BY <1>3, <4>1
      <4>3. CASE j = 1
        <5>1. j - 1 = 0 /\ h[j] = s[j]
          BY <4>1, <4>3
        <5>2. f[j] = <<>> \o s[j]
          BY <1>3, <4>2, <5>1
        <5>. QED BY <4>1, <5>1, <5>2, ConcatEmptySeq
      <4>4. CASE j # 1
        <5>1. h[j - 1] = f[j - 1] /\ h[j] = h[j - 1] \o s[j]
          <6>1. h[j - 1] = f[j - 1]
            BY <3>6, <4>4
          <6>2. h[j] = h[j - 1] \o p[j] /\ p[j] = s[j]
            <7>. HIDE DEF p
            <7>. QED BY <4>1, <4>4
          <6>. QED BY <6>1, <6>2, Zenon
        <5>2. h[j] = f[j]
          BY <4>2, <5>1, Zenon
        <5>. QED BY <4>1, <5>2
      <4>. QED BY <4>3, <4>4
    <3>7. 0..n \subseteq U
      <4>1. 0 \in U
        OBVIOUS
      <4>. HIDE DEF U
      <4>. QED BY <2>1, <3>6, <4>1, BoundedInduction
    <3>8. n \in U
      <4>1. n \in 0..n
        BY <2>1
      <4>. HIDE DEF U
      <4>. QED BY <3>7, <4>1
    <3>9. h[n] = f[n]
      BY <2>3, <3>8
    <3>10. FlattenSeq(p) = f[n]
      <4>. HIDE DEF F, p
      <4>. QED BY <2>1, <3>3, <3>4, <3>9
    <3>. QED BY <3>10, Zenon
  <2>. QED BY <2>2, <2>3
<1>5. \A n \in 0..N : f[n] \in Seq(S)
  BY <1>2
<1>. QED BY <1>3, <1>4, <1>5, Zenon DEF Growing, Upto

\* So for the sums.
LEMMA SumPrefixes ==
  ASSUME NEW N \in Nat, NEW s \in [1..N -> Int]
  PROVE  \E f :
           /\ f[0] = 0
           /\ \A n \in 1..N : f[n] = f[n - 1] + s[n]
           /\ \A n \in 0..N : f[n] \in Int /\ SumOf([k \in 1..n |-> s[k]]) = f[n]
<1>1. PICK f : f = [n \in 0..N |-> IF n = 0 THEN 0 ELSE f[n - 1] + s[n]]
  BY SumDefined
<1>2. /\ f[0] = 0
      /\ \A n \in 1..N : f[n] = f[n - 1] + s[n]
      /\ \A n \in 0..N : f[n] \in Int
  BY <1>1, SumValues, Zenon
<1>3. ASSUME NEW n \in 0..N PROVE SumOf([k \in 1..n |-> s[k]]) = f[n]
  <2>. DEFINE p == [k \in 1..n |-> s[k]]
  <2>1. n \in Nat /\ p \in Seq(Int) /\ Len(p) = n /\ \A k \in 1..n : p[k] = s[k] /\ k \in 1..N
    OBVIOUS
  <2>. HIDE DEF p
  <2>2. PICK h : /\ SumOf(p) = h[n]
                 /\ h[0] = 0
                 /\ \A j \in 1..n : h[j] = h[j - 1] + p[j]
    BY <2>1, SumUnfolds, Zenon
  <2>. DEFINE U == {j \in 0..n : h[j] = f[j]}
  <2>3. 0 \in U /\ \A j \in 1..n : j - 1 \in U => j \in U
    BY <1>2, <2>1, <2>2
  <2>4. 0..n \subseteq U
    <3>. HIDE DEF U
    <3>. QED BY <2>1, <2>3, BoundedInduction
  <2>5. n \in U
    <3>1. n \in 0..n
      BY <2>1
    <3>. HIDE DEF U
    <3>. QED BY <2>4, <3>1
  <2>. USE DEF p
  <2>. QED BY <2>2, <2>5
<1>. QED BY <1>2, <1>3

\* The same of a whole sequence.
Unfolds(S, s, f) ==
  /\ FlattenSeq(s) = f[Len(s)]
  /\ f[0] = <<>>
  /\ \A n \in 1..Len(s) : f[n] = f[n - 1] \o s[n]
  /\ \A n \in 0..Len(s) : f[n] \in Seq(S)

\* There is one for every sequence of sequences.
LEMMA FlattenUnfolds ==
  ASSUME NEW S, NEW s \in Seq(Seq(S))
  PROVE  \E f : Unfolds(S, s, f)
<1>1. PICK N \in Nat : N = Len(s) /\ N \in 0..N
  OBVIOUS
<1>2. PICK q \in [1..N -> Seq(S)] : q = s
  BY <1>1
<1>3. PICK f : Growing(S, N, q, f)
  BY FlattenPrefixes
<1>4. FlattenSeq([k \in 1..N |-> q[k]]) = f[N]
  BY <1>1, <1>3, Zenon DEF Growing, Upto
<1>5. s = [k \in 1..N |-> q[k]]
  BY <1>2
<1>6. FlattenSeq(s) = f[N]
  BY <1>4, <1>5, Zenon
<1>. QED BY <1>1, <1>2, <1>3, <1>6, Zenon DEF Growing, Unfolds

\* One more sequence adds its elements at the end.
Steps(S, N, s) ==
  \A n \in 1..N :
    /\ Upto(s, n) = Upto(s, n - 1) \o s[n]
    /\ Upto(s, n) \in Seq(S) /\ Upto(s, n - 1) \in Seq(S)

\* Every sequence of sequences is put together that way.
LEMMA FlattenSteps ==
  ASSUME NEW S, NEW N \in Nat, NEW s \in [1..N -> Seq(S)]
  PROVE  Steps(S, N, s)
<1>1. PICK f : Growing(S, N, s, f)
  BY FlattenPrefixes
<1>2. \A n \in 1..N : n \in 0..N /\ n - 1 \in 0..N
  OBVIOUS
<1>. QED BY <1>1, <1>2, Zenon DEF Growing, Steps

\* A sequence is a function on its positions.
LEMMA SeqFunction ==
  ASSUME NEW T, NEW t \in Seq(T)
  PROVE  t \in [1..Len(t) -> T]
OBVIOUS

\* One sequence more at the end is put at the end of what they say.
LEMMA FlattenAppend ==
  ASSUME NEW S, NEW s \in Seq(Seq(S)), NEW x \in Seq(S)
  PROVE  FlattenSeq(Append(s, x)) = FlattenSeq(s) \o x
<1>. DEFINE T == Seq(S)
<1>1. PICK N \in Nat, t \in Seq(T) : N = Len(s) + 1 /\ t = Append(s, x)
  <2>. HIDE DEF T
  <2>1. s \in Seq(T) /\ x \in T
    BY DEF T
  <2>2. Len(s) + 1 \in Nat /\ Append(s, x) \in Seq(T)
    BY <2>1
  <2>. QED BY <2>2
<1>2. /\ Len(t) = N /\ t \in [1..N -> T] /\ t[N] = x /\ N \in 1..N
      /\ \A k \in 1..(N - 1) : t[k] = s[k]
      /\ s = [k \in 1..(N - 1) |-> s[k]]
  <2>. HIDE DEF T
  <2>1. s \in Seq(T) /\ x \in T
    BY DEF T
  <2>2. Len(s) \in Nat /\ N - 1 = Len(s) /\ N \in 1..N
    BY <1>1, <2>1
  <2>3. Len(t) = N /\ t[N] = x /\ \A k \in 1..(N - 1) : t[k] = s[k]
    BY <1>1, <2>1, <2>2, AppendProperties
  <2>4. s = [k \in 1..(N - 1) |-> s[k]]
    BY <2>1, <2>2
  <2>5. t \in [1..N -> T]
    <3>1. t \in [1..Len(t) -> T]
      BY SeqFunction, Zenon
    <3>. QED BY <2>3, <3>1
  <2>. QED BY <2>2, <2>3, <2>4, <2>5, Zenon
<1>3. t = [k \in 1..N |-> t[k]] /\ s = [k \in 1..(N - 1) |-> t[k]]
  <2>. HIDE DEF T
  <2>. QED BY <1>2
<1>4. FlattenSeq([k \in 1..N |-> t[k]]) = FlattenSeq([k \in 1..(N - 1) |-> t[k]]) \o t[N]
  <2>1. PICK q \in [1..N -> Seq(S)], n \in 1..N : q = t /\ n = N
    BY <1>2
  <2>2. FlattenSeq([k \in 1..n |-> q[k]]) = FlattenSeq([k \in 1..(n - 1) |-> q[k]]) \o q[n]
    BY FlattenSteps, ZenonT(40) DEF Upto, Steps
  <2>. QED BY <2>1, <2>2, Zenon
<1>. QED BY <1>1, <1>2, <1>3, <1>4, Zenon

\* \o is associative.
Associates(S) == \A x, z, w \in Seq(S) : (x \o z) \o w = x \o (z \o w)
\* Concatenation associates, for provers that do not see Seq(S).
LEMMA ConcatAssociates == \A S : Associates(S)
BY ConcatAssociative DEF Associates

\* No sequences put together are empty.
LEMMA FlattenNone == FlattenSeq(<<>>) = <<>>
<1>1. Len(<<>>) = 0
  OBVIOUS
<1>. QED BY <1>1 DEF FlattenSeq

\* What two lists of sequences say is said by one after the other.
LEMMA FlattenConcat ==
  ASSUME NEW S, NEW s \in Seq(Seq(S)), NEW t \in Seq(Seq(S))
  PROVE  /\ s \o t \in Seq(Seq(S))
         /\ FlattenSeq(s \o t) = FlattenSeq(s) \o FlattenSeq(t)
<1>. DEFINE T == Seq(S)
            u == s \o t
<1>1. s \in Seq(T) /\ t \in Seq(T)
  OBVIOUS
<1>2. PICK L \in Nat, M \in Nat : L = Len(s) /\ M = Len(t)
  BY <1>1
<1>3. /\ u \in Seq(T) /\ Len(u) = L + M
      /\ \A n \in 1..L : u[n] = s[n]
      /\ \A n \in 1..M : u[L + n] = t[n]
  <2>. HIDE DEF T
  <2>. QED BY <1>1, <1>2
<1>. HIDE DEF u
<1>10. PICK v \in Seq(Seq(S)) : v = u
  BY <1>3
<1>4. PICK f : FlattenSeq(u) = f[L + M] /\ f[0] = <<>> /\ (\A n \in 1..(L + M) : f[n] = f[n - 1] \o u[n])
               /\ \A n \in 0..(L + M) : f[n] \in Seq(S)
  <2>1. PICK f : Unfolds(S, v, f)
    BY FlattenUnfolds
  <2>. QED BY <1>3, <1>10, <2>1, Zenon DEF Unfolds
<1>5. PICK g : FlattenSeq(s) = g[L] /\ g[0] = <<>> /\ (\A n \in 1..L : g[n] = g[n - 1] \o s[n])
               /\ \A n \in 0..L : g[n] \in Seq(S)
  BY <1>2, FlattenUnfolds, Zenon DEF Unfolds
<1>6. PICK h : FlattenSeq(t) = h[M] /\ h[0] = <<>> /\ (\A n \in 1..M : h[n] = h[n - 1] \o t[n])
               /\ \A n \in 0..M : h[n] \in Seq(S)
  BY <1>2, FlattenUnfolds, Zenon DEF Unfolds
<1>7. f[L] = g[L]
  <2>. DEFINE U == {n \in 0..L : f[n] = g[n]}
  <2>1. 0 \in U
    BY <1>4, <1>5
  <2>2. ASSUME NEW n \in 1..L, n - 1 \in U PROVE n \in U
    <3>1. n \in 1..(L + M) /\ f[n - 1] = g[n - 1] /\ n \in 0..L
      BY <2>2
    <3>2. f[n] = g[n - 1] \o s[n] /\ g[n] = g[n - 1] \o s[n]
      BY <1>3, <1>4, <1>5, <3>1, Zenon
    <3>. QED BY <3>1, <3>2
  <2>3. 0..L \subseteq U
    <3>. HIDE DEF U
    <3>. QED BY <2>1, <2>2, BoundedInduction
  <2>. QED BY <2>3
<1>8. f[L + M] = g[L] \o h[M]
  <2>. DEFINE U == {n \in 0..M : f[L + n] = g[L] \o h[n]}
  <2>1. 0 \in U
    <3>1. L + 0 = L /\ g[L] \in Seq(S) /\ 0 \in 0..M
      BY <1>5
    <3>2. g[L] \o h[0] = g[L]
      BY <1>6, <3>1, ConcatEmptySeq
    <3>. QED BY <1>7, <3>1, <3>2
  <2>2. ASSUME NEW n \in 1..M, n - 1 \in U PROVE n \in U
    <3>0. L + n \in 1..(L + M) /\ (L + n) - 1 = L + (n - 1) /\ n \in 0..M /\ n - 1 \in 0..M /\ L \in 0..L
      OBVIOUS
    <3>1. f[L + (n - 1)] = g[L] \o h[n - 1]
      BY <2>2, Zenon
    <3>2. g[L] \in Seq(S) /\ h[n - 1] \in Seq(S) /\ t[n] \in Seq(S)
      <4>1. t[n] \in T
        <5>. HIDE DEF T
        <5>. QED BY <1>1, <1>2
      <4>. QED BY <1>5, <1>6, <3>0, <4>1, Zenon
    <3>3. f[L + n] = (g[L] \o h[n - 1]) \o t[n] /\ h[n] = h[n - 1] \o t[n]
      <4>1. f[L + n] = f[(L + n) - 1] \o u[L + n]
        BY <1>4, <3>0, Zenon
      <4>. QED BY <1>3, <1>6, <3>0, <3>1, <4>1, Zenon
    <3>4. f[L + n] = g[L] \o h[n]
      <4>1. Associates(S)
        BY ConcatAssociates, Zenon
      <4>2. (g[L] \o h[n - 1]) \o t[n] = g[L] \o (h[n - 1] \o t[n])
        BY <3>2, <4>1, Zenon DEF Associates
      <4>. QED BY <3>3, <4>2, Zenon
    <3>. QED BY <3>0, <3>4, Zenon
  <2>3. 0..M \subseteq U
    <3>. HIDE DEF U
    <3>. QED BY <2>1, <2>2, BoundedInduction
  <2>4. M \in 0..M
    OBVIOUS
  <2>. QED BY <2>3, <2>4, Zenon
<1>. QED BY <1>3, <1>4, <1>5, <1>6, <1>8, Zenon DEF u

\* Pieces of any kind are sequences over the set of what is in them.
LEMMA Pieces ==
  ASSUME NEW N \in Nat, NEW s, \A n \in 1..N : s[n] \in Seq(ToSet(s[n]))
  PROVE  \E S : /\ [n \in 1..N |-> s[n]] \in [1..N -> Seq(S)]
                /\ \A n \in 1..N : s[n] \in Seq(S)
<1>. DEFINE S == UNION {ToSet(s[n]) : n \in 1..N}
<1>1. \A n \in 1..N : s[n] \in Seq(S)
  <2>. SUFFICES ASSUME NEW n \in 1..N PROVE s[n] \in Seq(S)
    OBVIOUS
  <2>1. ToSet(s[n]) \subseteq S
    BY Zenon
  <2>. HIDE DEF S
  <2>. QED BY <2>1, SeqMonotonic
<1>. HIDE DEF S
<1>2. [n \in 1..N |-> s[n]] \in [1..N -> Seq(S)]
  BY <1>1, Zenon
<1>. QED BY <1>1, <1>2, Zenon

\* What the first n pieces say is a prefix of what all of them say.
LEMMA FlattenStart ==
  ASSUME NEW S, NEW N \in Nat, NEW s \in [1..N -> Seq(S)], NEW m \in 0..N
  PROVE  IsPrefix(Upto(s, m), Upto(s, N))
<1>1. PICK f : Growing(S, N, s, f)
  BY FlattenPrefixes
<1>2. /\ \A n \in 1..N : f[n] = f[n - 1] \o s[n]
      /\ \A n \in 0..N : f[n] \in Seq(S) /\ Upto(s, n) = f[n]
  BY <1>1, Zenon DEF Growing
<1>. DEFINE U == {n \in 0..N : n >= m => IsPrefix(f[m], f[n])}
<1>3. ASSUME NEW n \in 0..N, n = m PROVE IsPrefix(f[m], f[n])
  <2>1. f[m] = f[n] /\ f[n] \in Seq(S)
    BY <1>2, <1>3
  <2>2. Len(f[n]) <= Len(f[n])
    BY <2>1
  <2>. QED BY <2>1, <2>2 DEF IsPrefix
<1>4. 0 \in U
  BY <1>3
<1>5. ASSUME NEW n \in 1..N, n - 1 \in U PROVE n \in U
  <2>1. n \in 0..N /\ n - 1 \in 0..N /\ (n - 1 >= m => IsPrefix(f[m], f[n - 1])) /\ m \in Int
    BY <1>5
  <2>2. CASE n > m
    <3>1. PICK a \in Seq(S), b \in Seq(S), c \in Seq(S) : a = f[m] /\ b = f[n - 1] /\ c = s[n]
      BY <1>2, <2>1
    <3>2. f[n] = b \o c /\ IsPrefix(a, b)
      <4>1. n - 1 >= m
        BY <2>1, <2>2
      <4>. QED BY <1>2, <2>1, <3>1, <4>1, Zenon
    <3>3. IsPrefix(a, b \o c)
      <4>1. Len(a) <= Len(b) /\ SubSeq(a, 1, Len(a)) = SubSeq(b, 1, Len(a))
        BY <3>2 DEF IsPrefix
      <4>2. Len(a) \in Nat /\ Len(b) \in Nat /\ Len(c) \in Nat /\ Len(b \o c) = Len(b) + Len(c)
        OBVIOUS
      <4>3. SubSeq(b \o c, 1, Len(a)) = SubSeq(b, 1, Len(a))
        BY <4>1, <4>2
      <4>. QED BY <4>1, <4>2, <4>3 DEF IsPrefix
    <3>. QED BY <2>1, <3>1, <3>2, <3>3
  <2>3. CASE n = m
    BY <1>3, <2>1, <2>3
  <2>4. CASE n < m
    BY <2>1, <2>4
  <2>. QED BY <2>1, <2>2, <2>3, <2>4
<1>6. 0..N \subseteq U
  <2>. HIDE DEF U
  <2>. QED BY <1>4, <1>5, BoundedInduction
<1>7. N \in 0..N /\ N >= m
  OBVIOUS
<1>8. IsPrefix(f[m], f[N])
  BY <1>6, <1>7
<1>. QED BY <1>2, <1>7, <1>8, Zenon

\* The same of any pieces.
LEMMA UptoNext ==
  ASSUME NEW N \in Nat \ {0}, NEW s, \A n \in 1..N : s[n] \in Seq(ToSet(s[n]))
  PROVE  /\ Upto(s, N) = Upto(s, N - 1) \o s[N]
         /\ s[N] = <<>> => Upto(s, N) = Upto(s, N - 1)
<1>1. PICK M \in Nat : M = N /\ M \in 1..M
  OBVIOUS
<1>2. PICK S : [n \in 1..M |-> s[n]] \in [1..M -> Seq(S)]
  BY <1>1, Pieces
<1>3. PICK q \in [1..M -> Seq(S)], m \in 1..M : q = [n \in 1..M |-> s[n]] /\ m = M
  BY <1>1, <1>2, Zenon
<1>4. Upto(q, m) = Upto(q, m - 1) \o q[m] /\ Upto(q, m - 1) \in Seq(S)
  <2>1. Steps(S, M, q)
    BY FlattenSteps, Zenon
  <2>. QED BY <2>1, Zenon DEF Steps
<1>7. /\ [k \in 1..m |-> q[k]] = [k \in 1..N |-> s[k]]
      /\ [k \in 1..(m - 1) |-> q[k]] = [k \in 1..(N - 1) |-> s[k]]
      /\ q[m] = s[N]
  BY <1>1, <1>3
<1>5. Upto(s, N) = Upto(s, N - 1) \o s[N] /\ Upto(s, N - 1) \in Seq(S)
  BY <1>4, <1>7, Zenon DEF Upto
<1>6. Upto(s, N - 1) \o <<>> = Upto(s, N - 1)
  BY <1>5, ConcatEmptySeq
<1>. QED BY <1>5, <1>6, Zenon

\* Sequences over any sets are, put together, a sequence over one.
LEMMA UptoTyped ==
  ASSUME NEW N \in Nat, NEW s, \A n \in 1..N : s[n] \in Seq(ToSet(s[n]))
  PROVE  \E S : Upto(s, N) \in Seq(S)
<1>1. PICK S : [n \in 1..N |-> s[n]] \in [1..N -> Seq(S)]
  BY Pieces
<1>2. PICK q \in [1..N -> Seq(S)] : q = [n \in 1..N |-> s[n]]
  BY <1>1
<1>3. PICK f : Growing(S, N, q, f)
  BY FlattenPrefixes
<1>4. N \in 0..N
  OBVIOUS
<1>5. Upto(q, N) \in Seq(S)
  BY <1>3, <1>4, Zenon DEF Growing
<1>6. [k \in 1..N |-> q[k]] = [k \in 1..N |-> s[k]]
  BY <1>2
<1>. QED BY <1>5, <1>6, Zenon DEF Upto

\* What the first m say is where what all of them say begins.
LEMMA UptoStart ==
  ASSUME NEW N \in Nat, NEW s, \A n \in 1..N : s[n] \in Seq(ToSet(s[n])), NEW m \in 0..N
  PROVE  IsPrefix(Upto(s, m), Upto(s, N))
<1>1. PICK S : [n \in 1..N |-> s[n]] \in [1..N -> Seq(S)]
  BY Pieces
<1>2. PICK q \in [1..N -> Seq(S)] : q = [n \in 1..N |-> s[n]]
  BY <1>1
<1>3. IsPrefix(Upto(q, m), Upto(q, N))
  BY FlattenStart, Zenon
<1>4. /\ [k \in 1..m |-> q[k]] = [k \in 1..m |-> s[k]]
      /\ [k \in 1..N |-> q[k]] = [k \in 1..N |-> s[k]]
  BY <1>2
<1>. QED BY <1>3, <1>4, Zenon DEF Upto

\* What f reads off the elements of s, one after the other.
Readers(L, S) == [L -> Seq(S)]
Read(f, s) == [n \in DOMAIN s |-> f[s[n]]]
Gathered(f, s) == FlattenSeq(Read(f, s))

\* A sequence of what f says of each element.
LEMMA Gathering ==
  ASSUME NEW L, NEW S, NEW f \in Readers(L, S), NEW s \in Seq(L)
  PROVE  /\ Read(f, s) \in Seq(Seq(S))
         /\ Len(Read(f, s)) = Len(s)
         /\ Gathered(f, s) \in Seq(S)
<1>. DEFINE T == Seq(S)
            m == Read(f, s)
<1>1. DOMAIN s = 1..Len(s) /\ Len(s) \in Nat /\ \A n \in 1..Len(s) : f[s[n]] \in T
  BY DEF Readers
<1>2. m \in Seq(T) /\ Len(m) = Len(s)
  <2>. HIDE DEF T
  <2>. QED BY <1>1 DEF Read
<1>3. FlattenSeq(m) \in Seq(S)
  <2>. HIDE DEF m
  <2>. QED BY <1>2, Flattened
<1>. QED BY <1>2, <1>3 DEF Gathered

\* What lines say is said by the first of them, then by the rest.
LEMMA GatherConcat ==
  ASSUME NEW L, NEW S, NEW f \in Readers(L, S), NEW s \in Seq(L), NEW t \in Seq(L)
  PROVE  Gathered(f, s \o t) = Gathered(f, s) \o Gathered(f, t)
<1>. DEFINE T == Seq(S)
            a == Read(f, s)
            b == Read(f, t)
            c == Read(f, s \o t)
<1>1. a \in Seq(T) /\ b \in Seq(T) /\ Len(a) = Len(s) /\ Len(b) = Len(t)
  BY Gathering
<1>2. /\ Len(s) \in Nat /\ Len(t) \in Nat /\ s \o t \in Seq(L) /\ DOMAIN s = 1..Len(s) /\ DOMAIN t = 1..Len(t)
      /\ DOMAIN (s \o t) = 1..(Len(s) + Len(t)) /\ Len(s \o t) = Len(s) + Len(t)
      /\ \A n \in 1..Len(s) : (s \o t)[n] = s[n]
      /\ \A n \in 1..Len(t) : (s \o t)[Len(s) + n] = t[n]
  OBVIOUS
<1>3. c \in Seq(T) /\ Len(c) = Len(s) + Len(t)
  <2>1. PICK w \in Seq(L) : w = s \o t
    BY <1>2
  <2>2. Read(f, w) \in Seq(Seq(S)) /\ Len(Read(f, w)) = Len(w)
    BY Gathering
  <2>. QED BY <1>2, <2>1, <2>2, Zenon
<1>4. /\ \A n \in 1..Len(s) : a[n] = f[s[n]]
      /\ \A n \in 1..Len(t) : b[n] = f[t[n]]
      /\ \A n \in 1..(Len(s) + Len(t)) : c[n] = f[(s \o t)[n]]
  BY <1>2, Zenon DEF Read
<1>. HIDE DEF a, b, c, T
<1>5. a \o b \in Seq(T) /\ Len(a \o b) = Len(s) + Len(t)
  BY <1>1
<1>6. ASSUME NEW n \in 1..(Len(s) + Len(t)) PROVE c[n] = (a \o b)[n]
  <2>0. Len(s) \in Nat /\ Len(t) \in Nat /\ n \in Int
    BY <1>2
  <2>1. CASE n <= Len(s)
    <3>1. n \in 1..Len(s) /\ (a \o b)[n] = a[n]
      BY <1>1, <1>2, <2>1
    <3>. QED BY <1>2, <1>4, <3>1
  <2>2. CASE n > Len(s)
    <3>1. PICK k \in 1..Len(t) : n = Len(s) + k
      <4>1. n - Len(s) \in 1..Len(t) /\ n = Len(s) + (n - Len(s))
        BY <1>2, <2>2
      <4>. QED BY <4>1
    <3>2. (a \o b)[n] = b[k]
      BY <1>1, <1>2, <3>1
    <3>. QED BY <1>2, <1>4, <3>1, <3>2
  <2>3. n <= Len(s) \/ n > Len(s)
    BY <2>0
  <2>. QED BY <2>1, <2>2, <2>3, Zenon
<1>7. c = a \o b
  BY <1>3, <1>5, <1>6, SeqEqual
<1>8. FlattenSeq(a \o b) = FlattenSeq(a) \o FlattenSeq(b)
  BY <1>1, FlattenConcat DEF T
<1>. QED BY <1>7, <1>8 DEF Gathered, a, b, c

\* Reading off a concatenation is reading off its parts.
LEMMA GatherFlat ==
  ASSUME NEW L, NEW S, NEW f \in Readers(L, S), NEW ss \in Seq(Seq(L))
  PROVE  Gathered(f, FlattenSeq(ss)) = FlattenSeq([i \in DOMAIN ss |-> Gathered(f, ss[i])])
<1>. DEFINE T == Seq(S)
            N == Len(ss)
            m == [i \in DOMAIN ss |-> Gathered(f, ss[i])]
<1>1. N \in Nat /\ DOMAIN ss = 1..N /\ \A i \in 1..N : ss[i] \in Seq(L)
  <2>. DEFINE V == Seq(L)
  <2>1. ss \in Seq(V)
    OBVIOUS
  <2>2. N \in Nat /\ DOMAIN ss = 1..N /\ \A i \in 1..N : ss[i] \in V
    <3>. HIDE DEF V
    <3>. QED BY <2>1
  <2>. QED BY <2>2
<1>2. \A i \in 1..N : Gathered(f, ss[i]) \in T
  BY <1>1, Gathering
<1>3. m \in Seq(T) /\ Len(m) = N /\ \A i \in 1..N : m[i] = Gathered(f, ss[i])
  <2>. HIDE DEF T, N
  <2>. QED BY <1>1, <1>2, IsASeq
<1>. HIDE DEF m
<1>4. PICK a : FlattenSeq(ss) = a[N] /\ a[0] = <<>> /\ (\A n \in 1..N : a[n] = a[n - 1] \o ss[n])
               /\ \A n \in 0..N : a[n] \in Seq(L)
  BY FlattenUnfolds, Zenon DEF Unfolds
<1>5. PICK b : FlattenSeq(m) = b[N] /\ b[0] = <<>> /\ (\A n \in 1..N : b[n] = b[n - 1] \o m[n])
               /\ \A n \in 0..N : b[n] \in Seq(S)
  <2>1. PICK v \in Seq(Seq(S)) : v = m
    BY <1>3
  <2>2. PICK b : Unfolds(S, v, b)
    BY FlattenUnfolds
  <2>. QED BY <1>3, <2>1, <2>2, Zenon DEF Unfolds
<1>. DEFINE U == {n \in 0..N : Gathered(f, a[n]) = b[n]}
<1>. HIDE DEF N
<1>6. 0 \in U
  <2>1. Gathered(f, <<>>) = <<>>
    <3>1. [n \in DOMAIN <<>> |-> f[<<>>[n]]] = <<>>
      OBVIOUS
    <3>. QED BY <3>1, FlattenNone DEF Gathered, Read
  <2>. QED BY <1>1, <1>4, <1>5, <2>1
<1>7. ASSUME NEW n \in 1..N, n - 1 \in U PROVE n \in U
  <2>1. n \in 0..N /\ n - 1 \in 0..N /\ Gathered(f, a[n - 1]) = b[n - 1]
    BY <1>1, <1>7
  <2>2. a[n] = a[n - 1] \o ss[n] /\ a[n - 1] \in Seq(L) /\ ss[n] \in Seq(L)
    BY <1>1, <1>4, <2>1, Zenon
  <2>3. Gathered(f, a[n]) = Gathered(f, a[n - 1]) \o Gathered(f, ss[n])
    <3>1. PICK v \in Seq(L), w \in Seq(L) : v = a[n - 1] /\ w = ss[n]
      BY <2>2
    <3>2. Gathered(f, v \o w) = Gathered(f, v) \o Gathered(f, w)
      BY GatherConcat
    <3>. QED BY <2>2, <3>1, <3>2, Zenon
  <2>4. b[n] = b[n - 1] \o Gathered(f, ss[n])
    BY <1>3, <1>5, Zenon
  <2>5. Gathered(f, a[n]) = b[n]
    BY <2>1, <2>3, <2>4, Zenon
  <2>. QED BY <2>1, <2>5
<1>8. 0..N \subseteq U
  <2>. HIDE DEF U
  <2>. QED BY <1>1, <1>6, <1>7, BoundedInduction
<1>9. Gathered(f, a[N]) = b[N]
  BY <1>1, <1>8
<1>. QED BY <1>4, <1>5, <1>9, Zenon DEF m

\* Flattening twice.
LEMMA FlattenTwice ==
  ASSUME NEW S, NEW ss \in Seq(Seq(Seq(S)))
  PROVE  FlattenSeq(FlattenSeq(ss)) = FlattenSeq([i \in DOMAIN ss |-> FlattenSeq(ss[i])])
<1>. DEFINE T == Seq(S)
            id == [x \in T |-> x]
<1>1. id \in Readers(T, S) /\ ss \in Seq(Seq(T))
  BY DEF Readers
<1>2. ASSUME NEW s \in Seq(T) PROVE Gathered(id, s) = FlattenSeq(s)
  <2>1. [n \in DOMAIN s |-> id[s[n]]] = s
    <3>. HIDE DEF T
    <3>. QED BY <1>2
  <2>. QED BY <2>1 DEF Gathered, Read
<1>3. FlattenSeq(ss) \in Seq(T)
  BY <1>1, Flattened, Zenon
<1>4. \A i \in DOMAIN ss : ss[i] \in Seq(T)
  <2>. DEFINE V == Seq(T)
  <2>1. ss \in Seq(V)
    BY <1>1
  <2>2. \A i \in DOMAIN ss : ss[i] \in V
    <3>. HIDE DEF V
    <3>. QED BY <2>1
  <2>. QED BY <2>2
<1>5. Gathered(id, FlattenSeq(ss)) = FlattenSeq([i \in DOMAIN ss |-> Gathered(id, ss[i])])
  <2>. HIDE DEF id
  <2>1. PICK v \in Seq(Seq(T)), g \in Readers(T, S) : v = ss /\ g = id
    BY <1>1, Zenon
  <2>2. Gathered(g, FlattenSeq(v)) = FlattenSeq([i \in DOMAIN v |-> Gathered(g, v[i])])
    BY GatherFlat
  <2>. QED BY <2>1, <2>2, Zenon
<1>6. [i \in DOMAIN ss |-> Gathered(id, ss[i])] = [i \in DOMAIN ss |-> FlattenSeq(ss[i])]
  <2>. HIDE DEF id, T
  <2>. QED BY <1>2, <1>4
<1>. HIDE DEF id, T
<1>. QED BY <1>2, <1>3, <1>5, <1>6, Zenon

\* One sequence is what it says.
LEMMA FlattenOne == ASSUME NEW S, NEW x \in Seq(S) PROVE FlattenSeq(<<x>>) = x
<1>1. <<>> \in Seq(Seq(S)) /\ <<x>> = Append(<<>>, x)
  BY EmptySeq
<1>2. FlattenSeq(Append(<<>>, x)) = FlattenSeq(<<>>) \o x
  <2>1. PICK z \in Seq(Seq(S)) : z = <<>>
    BY <1>1
  <2>2. FlattenSeq(Append(z, x)) = FlattenSeq(z) \o x
    BY FlattenAppend
  <2>. QED BY <2>1, <2>2, Zenon
<1>3. <<>> \o x = x
  BY ConcatEmptySeq
<1>. QED BY <1>1, <1>2, <1>3, FlattenNone, Zenon

\* Pieces with nothing in them add nothing.
LEMMA UptoSettles ==
  ASSUME NEW S, NEW N \in Nat, NEW s \in [1..N -> Seq(S)], NEW m \in 0..N,
         \A n \in (m + 1)..N : s[n] = <<>>
  PROVE  Upto(s, N) = Upto(s, m)
<1>. DEFINE U == {n \in 0..N : n >= m => Upto(s, n) = Upto(s, m)}
<1>1. Steps(S, N, s)
  BY FlattenSteps
<1>2. 0 \in U
  <2>1. 0 >= m => m = 0
    OBVIOUS
  <2>. QED BY <2>1
<1>3. ASSUME NEW n \in 1..N, n - 1 \in U PROVE n \in U
  <2>1. CASE n > m
    <3>1. n \in (m + 1)..N /\ n - 1 >= m /\ n \in 0..N
      BY <2>1
    <3>2. Upto(s, n) = Upto(s, n - 1) \o s[n] /\ Upto(s, n - 1) \in Seq(S)
      BY <1>1, Zenon DEF Steps
    <3>3. Upto(s, n - 1) = Upto(s, m) /\ s[n] = <<>>
      BY <1>3, <3>1
    <3>4. Upto(s, n - 1) \o <<>> = Upto(s, n - 1)
      BY <3>2, ConcatEmptySeq
    <3>5. Upto(s, n) = Upto(s, m)
      BY <3>2, <3>3, <3>4, Zenon
    <3>. QED BY <3>1, <3>5
  <2>2. CASE ~(n > m)
    <3>1. n \in 0..N /\ (n >= m => n = m)
      BY <2>2
    <3>. QED BY <3>1
  <2>. QED BY <2>1, <2>2
<1>4. 0..N \subseteq U
  <2>. HIDE DEF U
  <2>. QED BY <1>2, <1>3, BoundedInduction
<1>5. N \in 0..N /\ N >= m
  OBVIOUS
<1>. QED BY <1>4, <1>5

\* What a sequence is indexed by.
LEMMA SeqIndex == \A T : \A t \in Seq(T) : Len(t) \in Nat /\ DOMAIN t = 1..Len(t)
OBVIOUS

\* A function on 1..N is a sequence of its values.
LEMMA Listed ==
  \A T, g : \A N \in Nat : g = [n \in 1..N |-> g[n]] /\ (\A n \in 1..N : g[n] \in T) => g \in Seq(T)
<1>1. ASSUME NEW T, NEW g, NEW N \in Nat, g = [n \in 1..N |-> g[n]], \A n \in 1..N : g[n] \in T PROVE g \in Seq(T)
  <2>1. [n \in 1..N |-> g[n]] \in Seq(T)
    BY <1>1, IsASeq
  <2>. QED BY <1>1, <2>1, Zenon
<1>. QED BY <1>1

\* A concatenation says what its parts say.
LEMMA ConcatSays ==
  ASSUME NEW S, NEW a \in Seq(S), NEW b \in Seq(S)
  PROVE  ToSet(a \o b) = ToSet(a) \cup ToSet(b)
<1>1. ASSUME NEW v \in ToSet(a) PROVE v \in ToSet(a \o b)
  <2>0. PICK k \in DOMAIN a : v = a[k]
    BY Zenon DEF ToSet
  <2>1. k \in DOMAIN (a \o b) /\ (a \o b)[k] = a[k]
    OBVIOUS
  <2>2. \A z : \A m \in DOMAIN z : z[m] \in ToSet(z)
    BY DEF ToSet
  <2>. QED BY <2>0, <2>1, <2>2, Zenon
<1>2. ASSUME NEW v \in ToSet(b) PROVE v \in ToSet(a \o b)
  <2>0. PICK k \in 1..Len(b) : v = b[k]
    <3>1. PICK k \in DOMAIN b : v = b[k]
      BY Zenon DEF ToSet
    <3>. QED BY <3>1
  <2>1. Len(a) + k \in DOMAIN (a \o b) /\ (a \o b)[Len(a) + k] = b[k]
    OBVIOUS
  <2>2. \A z : \A m \in DOMAIN z : z[m] \in ToSet(z)
    BY DEF ToSet
  <2>. QED BY <2>0, <2>1, <2>2, Zenon
<1>3. ASSUME NEW v \in ToSet(a \o b) PROVE v \in ToSet(a) \cup ToSet(b)
  <2>0. PICK k \in 1..(Len(a) + Len(b)) : v = (a \o b)[k]
    <3>1. PICK z \in Seq(S) : z = a \o b /\ Len(z) = Len(a) + Len(b)
      <4>1. a \o b \in Seq(S) /\ Len(a \o b) = Len(a) + Len(b)
        BY ConcatProperties
      <4>. QED BY <4>1, Zenon
    <3>2. PICK k \in DOMAIN z : v = z[k]
      BY <3>1, Zenon DEF ToSet
    <3>. QED BY <3>1, <3>2
  <2>1. CASE k <= Len(a)
    <3>1. k \in DOMAIN a /\ (a \o b)[k] = a[k]
      BY <2>1
    <3>. QED BY <2>0, <3>1 DEF ToSet
  <2>2. CASE ~(k <= Len(a))
    <3>1. k - Len(a) \in DOMAIN b /\ (a \o b)[k] = b[k - Len(a)]
      BY <2>2
    <3>. QED BY <2>0, <3>1 DEF ToSet
  <2>. QED BY <2>1, <2>2
<1>. QED BY <1>1, <1>2, <1>3

\* What a piece says is said.
LEMMA FlattenMember ==
  ASSUME NEW S, NEW s \in Seq(Seq(S)), NEW i \in DOMAIN s
  PROVE  ToSet(s[i]) \subseteq ToSet(FlattenSeq(s))
<1>1. PICK N \in Nat : N = Len(s) /\ DOMAIN s = 1..N /\ i \in 1..N
  BY SeqIndex, Zenon
<1>2. PICK f : Unfolds(S, s, f)
  BY FlattenUnfolds
<1>3. /\ FlattenSeq(s) = f[N]
      /\ \A n \in 1..N : f[n] = f[n - 1] \o s[n]
      /\ \A n \in 0..N : f[n] \in Seq(S)
  BY <1>1, <1>2, Zenon DEF Unfolds
<1>4. \A n \in 1..N : s[n] \in Seq(S)
  <2>1. PICK T : T = Seq(S)
    OBVIOUS
  <2>2. s \in Seq(T)
    BY <2>1, Zenon
  <2>3. \A n \in 1..N : s[n] \in T
    BY <1>1, <2>2
  <2>. QED BY <2>1, <2>3, Zenon
<1>5. \A n \in 1..N : /\ n \in 0..N /\ n - 1 \in 0..N
                      /\ ToSet(f[n]) = ToSet(f[n - 1]) \cup ToSet(s[n])
  <2>. SUFFICES ASSUME NEW n \in 1..N
                PROVE  n \in 0..N /\ n - 1 \in 0..N /\ ToSet(f[n]) = ToSet(f[n - 1]) \cup ToSet(s[n])
    BY Zenon
  <2>1. n \in 0..N /\ n - 1 \in 0..N
    OBVIOUS
  <2>2. PICK a \in Seq(S), b \in Seq(S) : a = f[n - 1] /\ b = s[n]
    BY <1>3, <1>4, <2>1, Zenon
  <2>3. ToSet(a \o b) = ToSet(a) \cup ToSet(b)
    BY ConcatSays
  <2>4. f[n] = a \o b
    BY <1>3, <2>2, Zenon
  <2>. QED BY <2>1, <2>2, <2>3, <2>4, Zenon
<1>. DEFINE U == {n \in 0..N : n >= i => ToSet(s[i]) \subseteq ToSet(f[n])}
<1>6. 0 \in U
  BY <1>1
<1>7. ASSUME NEW n \in 1..N, n - 1 \in U PROVE n \in U
  <2>0. i \in Int
    BY <1>1
  <2>1. CASE n = i
    BY <1>5, <2>1
  <2>2. CASE n > i
    <3>1. n - 1 >= i
      BY <2>0, <2>2
    <3>2. ToSet(s[i]) \subseteq ToSet(f[n - 1])
      BY <1>7, <3>1
    <3>. QED BY <1>5, <3>2
  <2>3. CASE n < i
    BY <2>0, <2>3
  <2>. QED BY <2>0, <2>1, <2>2, <2>3
<1>8. 0..N \subseteq U
  <2>. HIDE DEF U
  <2>. QED BY <1>6, <1>7, BoundedInduction
<1>9. N \in 0..N /\ N >= i
  BY <1>1
<1>10. ToSet(s[i]) \subseteq ToSet(f[N])
  BY <1>8, <1>9
<1>. QED BY <1>3, <1>10, Zenon

-----------------------------------------------------------------------------
(***************************************************************************)
(* Text.                                                                   *)
(***************************************************************************)

Words == Seq(Nat \ {0})

\* A line has a natural number of runes.
LEMMA CharsTyped == \A words \in Words : Chars(words) \in Nat
<1>. SUFFICES ASSUME NEW words \in Words PROVE Chars(words) \in Nat
  OBVIOUS
<1>1. SumOf(words) \in Nat
  BY SumTyped DEF Words
<1>2. words # <<>> => Len(words) \in Nat \ {0}
  BY EmptySeq DEF Words
<1>. QED BY <1>1, <1>2 DEF Chars

\* The blank text is a text of one paragraph.
LEMMA BlankTyped == Blank \in Content /\ Len(Blank) = 1
<1>1. <<>> \in Seq(Nat \ {0})
  BY EmptySeq
<1>. QED BY <1>1 DEF Blank, Content

\* A word is placed on the last line or starts one.
LEMMA Placing ==
  ASSUME NEW lines \in Content, NEW w \in Nat \ {0}
  PROVE  /\ Append(lines, <<w>>) \in Content
         /\ lines # <<>> => Append(Front(lines), Append(Last(lines), w)) \in Content
<1>1. Append(lines, <<w>>) \in Content
  BY DEF Content
<1>2. ASSUME lines # <<>> PROVE Append(Front(lines), Append(Last(lines), w)) \in Content
  <2>1. Len(lines) \in Nat \ {0} /\ Last(lines) \in Seq(Nat \ {0})
    BY <1>2, EmptySeq DEF Content, Last
  <2>2. Front(lines) \in Content
    BY <2>1, SubSeqProperties DEF Front, Content
  <2>. QED BY <2>1, <2>2 DEF Content
<1>. QED BY <1>1, <1>2

\* A word put behind lines.
Placed(lines, w, width, size) ==
  IF lines # <<>> /\ Chars(Append(Last(lines), w)) * Advance * size <= width
  THEN Append(Front(lines), Append(Last(lines), w))
  ELSE Append(lines, <<w>>)

\* f[n] is the lines of the first n words of a paragraph.
Wrapping(words, width, size, f) ==
  /\ f[0] = <<>>
  /\ \A n \in 1..Len(words) : f[n] = Placed(f[n - 1], words[n], width, size)
  /\ \A n \in 0..Len(words) : f[n] \in Content
  /\ words # <<>> => WrapParagraph(words, width, size) = f[Len(words)]

\* WrapParagraph takes one word after the other.
LEMMA ParagraphUnfolds ==
  ASSUME NEW words \in Words, NEW width \in Int, NEW size \in Nat \ {0}
  PROVE  \E f : Wrapping(words, width, size, f)
<1>. DEFINE Place(lines, w) ==
              IF lines # <<>> /\ Chars(Append(Last(lines), w)) * Advance * size <= width
              THEN Append(Front(lines), Append(Last(lines), w))
              ELSE Append(lines, <<w>>)
            N == Len(words)
            Wraps(f) == f = [n \in 0..N |-> IF n = 0 THEN <<>> ELSE Place(f[n - 1], words[n])]
            F == CHOOSE f : Wraps(f)
            T == Content
            g == [n \in 1..N |-> [lines \in T |-> Place(lines, words[n])]]
<1>1. N \in Nat /\ \A n \in 1..N : words[n] \in Nat \ {0}
  BY DEF Words
<1>2. \A lines \in T, w \in Nat \ {0} : Place(lines, w) \in T
  BY Placing
<1>3. <<>> \in T
  BY EmptySeq DEF Content
<1>4. g \in [1..N -> [T -> T]]
  <2>. HIDE DEF Place, T, N
  <2>. QED BY <1>1, <1>2
<1>5. PICK h \in [0..N -> T] : Recursive(h, <<>>, g, N)
  <2>. HIDE DEF g, T, N
  <2>. QED BY <1>1, <1>3, <1>4, Recursion
<1>6. Wraps(h)
  <2>. HIDE DEF Place, T, N
  <2>1. ASSUME NEW n \in 0..N, n # 0 PROVE h[n] = Place(h[n - 1], words[n])
    <3>1. n \in 1..N /\ n - 1 \in 0..N /\ h[n - 1] \in T
      BY <1>1, <2>1
    <3>. QED BY <1>5, <3>1 DEF Recursive
  <2>2. h[0] = <<>>
    BY <1>5 DEF Recursive
  <2>. HIDE DEF g
  <2>. QED BY <2>1, <2>2
<1>7. Wraps(F)
  <2>. HIDE DEF Wraps
  <2>. QED BY <1>6, Zenon
<1>8. words # <<>> => WrapParagraph(words, width, size) = F[N]
  BY DEF WrapParagraph
<1>9. PICK f : f = F
  OBVIOUS
<1>10. Wraps(f)
  <2>. HIDE DEF F, Wraps
  <2>. QED BY <1>7, <1>9, Zenon
<1>11. /\ \A n \in 0..N : f[n] \in T
       /\ f[0] = <<>>
       /\ \A n \in 1..N : f[n] = Place(f[n - 1], words[n])
  <2>. HIDE DEF F, N, Place, T
  <2>1. /\ f[0] \in T /\ \A n \in 1..N : f[n - 1] \in T => f[n] \in T
        /\ f[0] = <<>>
        /\ \A n \in 1..N : f[n] = Place(f[n - 1], words[n])
    BY <1>1, <1>2, <1>3, <1>10
  <2>2. \A n \in 0..N : f[n] \in T
    BY <1>1, <2>1, RecursionTyped
  <2>. QED BY <2>1, <2>2
<1>12. words # <<>> => WrapParagraph(words, width, size) = f[N]
  <2>. HIDE DEF F
  <2>. QED BY <1>8, <1>9
<1>13. \A lines, w : Place(lines, w) = Placed(lines, w, width, size)
  BY DEF Placed
<1>. HIDE DEF F, Place
<1>. QED BY <1>11, <1>12, <1>13, Zenon DEF Wrapping

\* Wrapping makes lines of words of words.
LEMMA ParagraphWrapped ==
  ASSUME NEW words \in Words, NEW width \in Int, NEW size \in Nat \ {0}
  PROVE  WrapParagraph(words, width, size) \in Content
<1>1. PICK f : Wrapping(words, width, size, f)
  BY ParagraphUnfolds
<1>2. Len(words) \in 0..Len(words)
  BY DEF Words
<1>3. words # <<>> => WrapParagraph(words, width, size) \in Content
  BY <1>1, <1>2, Zenon DEF Wrapping
<1>4. words = <<>> => WrapParagraph(words, width, size) \in Content
  BY BlankTyped DEF WrapParagraph
<1>. QED BY <1>3, <1>4

\* A word is placed at the end: nothing else moves.
LEMMA WordPlaced ==
  ASSUME NEW lines \in Content, NEW w \in Nat \ {0}, NEW width, NEW size
  PROVE  /\ Placed(lines, w, width, size) \in Content
         /\ FlattenSeq(lines) \in Words
         /\ FlattenSeq(Placed(lines, w, width, size)) = Append(FlattenSeq(lines), w)
<1>. DEFINE S == Nat \ {0}
<1>1. Placed(lines, w, width, size) \in Content
  BY Placing DEF Placed
<1>2. lines \in Seq(Seq(S)) /\ <<w>> \in Seq(S) /\ FlattenSeq(lines) \in Seq(S)
  BY Flattened DEF Content
<1>3. FlattenSeq(Append(lines, <<w>>)) = Append(FlattenSeq(lines), w)
  <2>1. FlattenSeq(Append(lines, <<w>>)) = FlattenSeq(lines) \o <<w>>
    BY <1>2, FlattenAppend
  <2>. QED BY <1>2, <2>1, AppendIsConcat
<1>4. ASSUME lines # <<>>
      PROVE  FlattenSeq(Append(Front(lines), Append(Last(lines), w))) = Append(FlattenSeq(lines), w)
  <2>1. /\ Len(lines) \in Nat \ {0} /\ Last(lines) \in Seq(S)
        /\ Append(Last(lines), w) \in Seq(S)
    BY <1>2, <1>4, EmptySeq DEF Last
  <2>2. Front(lines) \in Seq(Seq(S)) /\ lines = Append(Front(lines), Last(lines))
    <3>. DEFINE T == Seq(S)
    <3>1. lines \in Seq(T) /\ Last(lines) \in T
      BY <1>2, <2>1
    <3>. HIDE DEF T
    <3>2. /\ Front(lines) \in Seq(T) /\ Len(Front(lines)) = Len(lines) - 1
          /\ \A k \in 1..(Len(lines) - 1) : Front(lines)[k] = lines[k]
      <4>0. PICK n \in Nat \ {0} : n = Len(lines)
        BY <2>1, Zenon
      <4>1. PICK m \in Nat : m = Len(lines) - 1
        <5>1. n - 1 \in Nat
          OBVIOUS
        <5>. QED BY <4>0, <5>1
      <4>2. /\ SubSeq(lines, 1, m) \in Seq(T) /\ Len(SubSeq(lines, 1, m)) = m
            /\ \A k \in 1..m : SubSeq(lines, 1, m)[k] = lines[k]
        BY <2>1, <3>1, <4>1
      <4>. QED BY <4>1, <4>2 DEF Front
    <3>3. lines = Append(Front(lines), Last(lines))
      <4>. DEFINE z == Append(Front(lines), Last(lines))
      <4>1. z \in Seq(T) /\ Len(z) = Len(lines)
        BY <2>1, <3>1, <3>2, AppendProperties
      <4>2. \A k \in 1..Len(lines) : z[k] = lines[k]
        <5>1. ASSUME NEW k \in 1..Len(lines) PROVE z[k] = lines[k]
          <6>1. CASE k = Len(lines)
            BY <2>1, <3>1, <3>2, <6>1, AppendProperties DEF Last
          <6>2. CASE k # Len(lines)
            <7>1. k \in 1..(Len(lines) - 1)
              BY <2>1, <6>2
            <7>. QED BY <3>1, <3>2, <7>1, AppendProperties
          <6>. QED BY <6>1, <6>2
        <5>. QED BY <5>1
      <4>. HIDE DEF z
      <4>3. z = lines
        BY <3>1, <4>1, <4>2, SeqEqual
      <4>. QED BY <4>3 DEF z
    <3>. USE DEF T
    <3>. QED BY <3>2, <3>3
  <2>3. PICK a \in Seq(Seq(S)), b \in Seq(S), c \in Seq(S) :
          a = Front(lines) /\ b = Last(lines) /\ c = Append(Last(lines), w)
    BY <2>1, <2>2
  <2>4. FlattenSeq(Append(a, b)) = FlattenSeq(a) \o b /\ FlattenSeq(Append(a, c)) = FlattenSeq(a) \o c
    BY FlattenAppend
  <2>5. FlattenSeq(a) \in Seq(S)
    BY Flattened
  <2>6. FlattenSeq(a) \o Append(b, w) = Append(FlattenSeq(a) \o b, w)
    <3>1. PICK p \in Seq(S) : p = FlattenSeq(a)
      BY <2>5
    <3>2. p \o b \in Seq(S) /\ Associates(S)
      BY ConcatProperties, ConcatAssociates
    <3>3. (p \o b) \o <<w>> = p \o (b \o <<w>>)
      BY <1>2, <3>2, ZenonT(40) DEF Associates
    <3>4. Append(b, w) = b \o <<w>> /\ Append(p \o b, w) = (p \o b) \o <<w>>
      BY <3>2, AppendIsConcat
    <3>. QED BY <3>1, <3>3, <3>4, Zenon
  <2>. QED BY <2>2, <2>3, <2>4, <2>6, Zenon
<1>. QED BY <1>1, <1>2, <1>3, <1>4 DEF Placed, Words

\* Wrapping keeps the words of a paragraph and their order.
LEMMA ParagraphKept ==
  ASSUME NEW words \in Words, NEW width \in Int, NEW size \in Nat \ {0}
  PROVE  FlattenSeq(WrapParagraph(words, width, size)) = words
<1>. DEFINE S == Nat \ {0}
            N == Len(words)
<1>1. N \in Nat /\ words \in Seq(S) /\ \A n \in 1..N : words[n] \in S
  BY DEF Words
<1>2. PICK f : Wrapping(words, width, size, f)
  BY ParagraphUnfolds
<1>3. /\ f[0] = <<>>
      /\ \A n \in 1..N : f[n] = Placed(f[n - 1], words[n], width, size)
      /\ \A n \in 0..N : f[n] \in Content
      /\ words # <<>> => WrapParagraph(words, width, size) = f[N]
  BY <1>2, Zenon DEF Wrapping
<1>. DEFINE U == {n \in 0..N : FlattenSeq(f[n]) = [k \in 1..n |-> words[k]]}
<1>4. 0 \in U
  <2>1. [k \in 1..0 |-> words[k]] = <<>>
    OBVIOUS
  <2>. QED BY <1>1, <1>3, <2>1, FlattenNone
<1>5. ASSUME NEW n \in 1..N, n - 1 \in U PROVE n \in U
  <2>1. n \in 0..N /\ n - 1 \in 0..N /\ FlattenSeq(f[n - 1]) = [k \in 1..(n - 1) |-> words[k]]
    BY <1>1, <1>5
  <2>2. PICK lines \in Content, w \in S : lines = f[n - 1] /\ w = words[n]
    BY <1>1, <1>3, <2>1
  <2>3. FlattenSeq(Placed(lines, w, width, size)) = Append(FlattenSeq(lines), w)
    BY WordPlaced
  <2>4. Append([k \in 1..(n - 1) |-> words[k]], words[n]) = [k \in 1..n |-> words[k]]
    <3>1. \A k \in 1..n : words[k] \in S
      BY <1>1
    <3>. QED BY <3>1
  <2>5. FlattenSeq(f[n]) = [k \in 1..n |-> words[k]]
    BY <1>3, <2>1, <2>2, <2>3, <2>4, Zenon
  <2>. QED BY <2>1, <2>5
<1>6. 0..N \subseteq U
  <2>. HIDE DEF U
  <2>. QED BY <1>1, <1>4, <1>5, BoundedInduction
<1>7. FlattenSeq(f[N]) = [k \in 1..N |-> words[k]]
  BY <1>1, <1>6
<1>8. words = [k \in 1..N |-> words[k]]
  BY <1>1
<1>9. ASSUME words = <<>> PROVE FlattenSeq(WrapParagraph(words, width, size)) = words
  <2>1. WrapParagraph(words, width, size) = Append(<<>>, <<>>)
    BY <1>9 DEF WrapParagraph, Blank
  <2>2. <<>> \in Seq(Seq(S)) /\ <<>> \in Seq(S)
    BY EmptySeq
  <2>3. FlattenSeq(Append(<<>>, <<>>)) = FlattenSeq(<<>>) \o <<>>
    <3>1. PICK a \in Seq(Seq(S)), b \in Seq(S) : a = <<>> /\ b = <<>>
      BY <2>2
    <3>2. FlattenSeq(Append(a, b)) = FlattenSeq(a) \o b
      BY FlattenAppend
    <3>. QED BY <3>1, <3>2, Zenon
  <2>4. <<>> \o <<>> = <<>>
    OBVIOUS
  <2>. QED BY <1>9, <2>1, <2>3, <2>4, FlattenNone
<1>. QED BY <1>3, <1>7, <1>8, <1>9, Zenon

\* Wrapped or not, a text is paragraphs of words.
LEMMA TextWrapped ==
  ASSUME NEW content \in Content, NEW width \in Int, NEW size \in Nat \ {0}
  PROVE  WrapText(content, width, size) \in Content
<1>. DEFINE wrapped == [i \in DOMAIN content |-> WrapParagraph(content[i], width, size)]
<1>1. \A i \in DOMAIN content : content[i] \in Words
  BY DEF Content, Words
<1>2. wrapped \in Seq(Content)
  <2>1. \A i \in 1..Len(content) : wrapped[i] \in Content
    BY <1>1, ParagraphWrapped DEF Content
  <2>2. wrapped = [i \in 1..Len(content) |-> wrapped[i]] /\ Len(content) \in Nat
    BY DEF Content
  <2>. HIDE DEF wrapped
  <2>. QED BY <2>1, <2>2, IsASeq
<1>3. FlattenSeq(wrapped) \in Content
  <2>. HIDE DEF wrapped
  <2>. QED BY <1>2, Flattened DEF Content
<1>. QED BY <1>3 DEF WrapText

\* So does wrapping a text.
LEMMA TextKept ==
  ASSUME NEW content \in Content, NEW width \in Int, NEW size \in Nat \ {0}
  PROVE  FlattenSeq(WrapText(content, width, size)) = FlattenSeq(content)
<1>. DEFINE S == Nat \ {0}
            wrapped == [i \in DOMAIN content |-> WrapParagraph(content[i], width, size)]
<1>1. \A i \in DOMAIN content : content[i] \in Words
  BY DEF Content, Words
<1>2. wrapped \in Seq(Seq(Seq(S)))
  <2>1. \A i \in 1..Len(content) : wrapped[i] \in Content
    BY <1>1, ParagraphWrapped DEF Content
  <2>2. wrapped = [i \in 1..Len(content) |-> wrapped[i]] /\ Len(content) \in Nat
    BY DEF Content
  <2>. HIDE DEF wrapped
  <2>3. wrapped \in Seq(Content)
    BY <2>1, <2>2, IsASeq
  <2>. QED BY <2>3 DEF Content
<1>3. FlattenSeq(FlattenSeq(wrapped)) = FlattenSeq([i \in DOMAIN wrapped |-> FlattenSeq(wrapped[i])])
  <2>1. PICK v \in Seq(Seq(Seq(S))) : v = wrapped
    BY <1>2
  <2>2. FlattenSeq(FlattenSeq(v)) = FlattenSeq([i \in DOMAIN v |-> FlattenSeq(v[i])])
    BY FlattenTwice
  <2>. QED BY <2>1, <2>2, Zenon
<1>4. [i \in DOMAIN wrapped |-> FlattenSeq(wrapped[i])] = content
  <2>1. \A i \in DOMAIN content : FlattenSeq(wrapped[i]) = content[i]
    BY <1>1, ParagraphKept
  <2>2. content = [i \in DOMAIN content |-> content[i]] /\ DOMAIN wrapped = DOMAIN content
    BY DEF Content
  <2>. HIDE DEF wrapped
  <2>. QED BY <2>1, <2>2
<1>. QED BY <1>3, <1>4, Zenon DEF WrapText

-----------------------------------------------------------------------------
(***************************************************************************)
(* Lines.                                                                  *)
(***************************************************************************)

Line == [runs : Seq([at : Nat, words : Words]), chars : Nat]

\* The spaces in a natural number of dots.
LEMMA Spaced == \A dots \in Nat, size \in Nat \ {0} : Spaces(dots, size) \in Nat
<1>1. ASSUME NEW dots \in Nat, NEW size \in Nat \ {0} PROVE Spaces(dots, size) \in Nat
  <2>1. Advance * size \in Nat \ {0}
    BY FontAssumption
  <2>2. PICK d : d = Advance * size
    OBVIOUS
  <2>. QED BY <2>1, <2>2, Quotients DEF Spaces
<1>. QED BY <1>1

\* Padding is never negative.
LEMMA Padded ==
  ASSUME NEW chars \in Nat, NEW align, NEW width \in Int, NEW size \in Nat \ {0}
  PROVE  AlignPad(chars, align, width, size) \in Nat
<1>1. PICK room : room = width - chars * Advance * size
  OBVIOUS
<1>2. room \in Int
  BY <1>1, FontAssumption
<1>3. room \in Nat => room \div 2 \in Nat
  BY Quotients
<1>. QED BY <1>1, <1>2, <1>3, Spaced DEF AlignPad

\* A line of words behind a pad is a line.
LEMMA TextLineTyped == \A words \in Words, pad \in Nat : TextLine(words, pad) \in Line
  BY CharsTyped DEF TextLine, Line

\* A text is laid out as lines.
LEMMA TextLinesTyped ==
  ASSUME NEW e, e.content \in Content, e.size \in Int, NEW width \in Int
  PROVE  TextLines(e, width) \in Seq(Line)
<1>. DEFINE lines == WrapText(e.content, width, ResolveSize(e.size))
<1>1. ResolveSize(e.size) \in Nat \ {0}
  BY DEF ResolveSize
<1>2. lines \in Seq(Words)
  BY <1>1, TextWrapped DEF Content, Words
<1>. HIDE DEF lines
<1>3. ASSUME NEW i \in 1..Len(lines)
      PROVE  TextLine(lines[i], AlignPad(Chars(lines[i]), e.align, width, ResolveSize(e.size))) \in Line
  <2>1. lines[i] \in Words
    BY <1>2
  <2>. QED BY <1>1, <2>1, CharsTyped, Padded, TextLineTyped
<1>4. TextLines(e, width) = [i \in 1..Len(lines) |->
        TextLine(lines[i], AlignPad(Chars(lines[i]), e.align, width, ResolveSize(e.size)))]
  BY <1>2 DEF TextLines, lines
<1>. QED BY <1>2, <1>3, <1>4, IsASeq

\* So is a heading.
LEMMA HeadingLinesTyped ==
  ASSUME NEW e, e.content \in Content, NEW width \in Int
  PROVE  HeadingLines(e, width) \in Seq(Line)
<1>. DEFINE lines == WrapText(e.content, width, HeadingSize)
<1>1. lines \in Seq(Words)
  BY TextWrapped DEF Content, Words, HeadingSize
<1>. HIDE DEF lines
<1>2. \A i \in 1..Len(lines) : TextLine(lines[i], 0) \in Line
  BY <1>1, TextLineTyped
<1>3. HeadingLines(e, width) = [i \in 1..Len(lines) |-> TextLine(lines[i], 0)]
  BY <1>1 DEF HeadingLines, lines
<1>. QED BY <1>1, <1>2, <1>3, IsASeq

-----------------------------------------------------------------------------
(***************************************************************************)
(* Cells.                                                                  *)
(***************************************************************************)

\* A padded cell has a natural number of runes.
LEMMA CellPadded == \A chars \in Nat, width \in Int : PadToWidth(chars, width) \in Nat
<1>1. ASSUME NEW chars \in Nat, NEW width \in Int PROVE Spaces(width, 1) \in Int
  BY FontAssumption, Quotients DEF Spaces
<1>. QED BY <1>1 DEF PadToWidth, Greatest

\* Line j of a cell, and the lines of the tallest.
CellAt(cells, i, j) == IF j <= Len(cells[i]) THEN cells[i][j] ELSE <<>>
Tallest(cells) == Max({0} \cup {Len(cells[i]) : i \in 1..Len(cells)})

\* Line j of cell i put behind a line.
Added(cells, widths, line, i, j) ==
  [runs  |-> Append(line.runs, [at |-> line.chars, words |-> CellAt(cells, i, j)]),
   chars |-> line.chars +
             IF i = Len(cells) THEN Chars(CellAt(cells, i, j))
             ELSE PadToWidth(Chars(CellAt(cells, i, j)), widths[i]) + 1]

\* f[i] is line j of the first i cells.
Composing(cells, widths, j, f) ==
  /\ f[0] = [runs |-> <<>>, chars |-> 0]
  /\ \A i \in 1..Len(cells) : f[i] = Added(cells, widths, f[i - 1], i, j)
  /\ \A i \in 0..Len(cells) : f[i] \in Line

\* Composed cells are lines, each made cell by cell.
LEMMA CellsUnfold ==
  ASSUME NEW cells \in Seq(Seq(Words)), NEW widths \in [1..Len(cells) -> Int]
  PROVE  /\ Tallest(cells) \in Nat
         /\ \A i \in 1..Len(cells) : Len(cells[i]) <= Tallest(cells)
         /\ ComposeCells(cells, widths) \in Seq(Line)
         /\ Len(ComposeCells(cells, widths)) = Tallest(cells)
         /\ \A j \in 1..Tallest(cells) :
              /\ \A i \in 1..Len(cells) : CellAt(cells, i, j) \in Words
              /\ \E f : /\ Composing(cells, widths, j, f)
                        /\ ComposeCells(cells, widths)[j] = f[Len(cells)]
<1>. DEFINE n == Len(cells)
            height == Max({0} \cup {Len(cells[i]) : i \in 1..n})
            Cell(i, j) == IF j <= Len(cells[i]) THEN cells[i][j] ELSE <<>>
            Add(line, i, j) ==
              [runs  |-> Append(line.runs, [at |-> line.chars, words |-> Cell(i, j)]),
               chars |-> line.chars +
                         IF i = n THEN Chars(Cell(i, j))
                         ELSE PadToWidth(Chars(Cell(i, j)), widths[i]) + 1]
            None == [runs |-> <<>>, chars |-> 0]
            Composes(f, j) == f = [i \in 0..n |-> IF i = 0 THEN None ELSE Add(f[i - 1], i, j)]
            F(j) == CHOOSE f : Composes(f, j)
<1>1. n \in Nat /\ \A i \in 1..n : cells[i] \in Seq(Words) /\ Len(cells[i]) \in Nat
  OBVIOUS
<1>2. height \in Nat /\ \A i \in 1..n : Len(cells[i]) <= height
  <2>. DEFINE heights == [i \in 1..n |-> Len(cells[i])]
              H == {0} \cup {Len(cells[i]) : i \in 1..n}
  <2>1. heights \in [1..n -> Nat] /\ H = {0} \cup {heights[i] : i \in 1..n}
    BY <1>1
  <2>2. \E m \in H : \A k \in H : m >= k
    <3>. HIDE DEF heights, H, n
    <3>. QED BY <1>1, <2>1, GreatestElement
  <2>5. height = CHOOSE m \in H : \A k \in H : m >= k
    BY DEF Max
  <2>3. height \in H /\ \A k \in H : height >= k
    <3>. HIDE DEF H, height
    <3>. QED BY <2>2, <2>5, Zenon
  <2>4. H \subseteq Nat /\ \A i \in 1..n : Len(cells[i]) \in H
    BY <1>1
  <2>. HIDE DEF H, height
  <2>. QED BY <2>3, <2>4
<1>3. ASSUME NEW i \in 1..n, NEW j \in 1..height PROVE Cell(i, j) \in Words
  <2>. HIDE DEF height, n
  <2>1. j \in Nat \ {0} /\ <<>> \in Words
    BY <1>2, EmptySeq DEF Words
  <2>2. j <= Len(cells[i]) => cells[i][j] \in Words
    BY <1>1, <2>1
  <2>. QED BY <2>1, <2>2
<1>4. ASSUME NEW line \in Line, NEW i \in 1..n, NEW j \in 1..height PROVE Add(line, i, j) \in Line
  <2>1. line.chars \in Nat /\ line.runs \in Seq([at : Nat, words : Words])
    BY DEF Line
  <2>2. PICK cell \in Words : cell = Cell(i, j)
    BY <1>3
  <2>3. [at |-> line.chars, words |-> cell] \in [at : Nat, words : Words]
    BY <2>1
  <2>4. Append(line.runs, [at |-> line.chars, words |-> cell]) \in Seq([at : Nat, words : Words])
    BY <2>1, <2>3, AppendProperties
  <2>5. Chars(cell) \in Nat /\ widths[i] \in Int
    BY CharsTyped
  <2>6. PadToWidth(Chars(cell), widths[i]) \in Nat
    BY <2>5, CellPadded
  <2>7. line.chars + (IF i = n THEN Chars(cell) ELSE PadToWidth(Chars(cell), widths[i]) + 1) \in Nat
    BY <2>1, <2>5, <2>6
  <2>. HIDE DEF Cell, n
  <2>. QED BY <2>2, <2>4, <2>7 DEF Line
<1>5. None \in Line
  BY EmptySeq DEF Line
<1>8. /\ Tallest(cells) = height
      /\ \A i, j : CellAt(cells, i, j) = Cell(i, j)
      /\ \A line, i, j : Added(cells, widths, line, i, j) = Add(line, i, j)
  BY Zenon DEF Tallest, CellAt, Added
<1>6. ASSUME NEW j \in 1..height
      PROVE  \E f : Composing(cells, widths, j, f) /\ F(j)[n] = f[n] /\ f[n] \in Line
  <2>. DEFINE T == Line
              N == n
              g == [i \in 1..N |-> [line \in T |-> Add(line, i, j)]]
  <2>. HIDE DEF height
  <2>1. g \in [1..N -> [T -> T]] /\ N \in Nat /\ None \in T
    <3>. HIDE DEF Add, None, n
    <3>. QED BY <1>1, <1>4, <1>5
  <2>2. PICK h \in [0..N -> T] : Recursive(h, None, g, N)
    <3>. HIDE DEF g, T, N, None
    <3>. QED BY <2>1, Recursion
  <2>3. Composes(h, j)
    <3>. HIDE DEF Add, None, T, n
    <3>1. ASSUME NEW i \in 0..N, i # 0 PROVE h[i] = Add(h[i - 1], i, j)
      <4>1. i \in 1..N /\ i - 1 \in 0..N /\ h[i - 1] \in T
        BY <2>1, <3>1
      <4>. QED BY <2>2, <4>1 DEF Recursive
    <3>2. h[0] = None
      BY <2>2 DEF Recursive
    <3>. HIDE DEF g
    <3>. QED BY <3>1, <3>2
  <2>4. Composes(F(j), j)
    <3>. HIDE DEF Composes
    <3>. QED BY <2>3, Zenon
  <2>5. PICK f : f = F(j)
    OBVIOUS
  <2>6. Composes(f, j)
    <3>. HIDE DEF F, Composes
    <3>. QED BY <2>4, <2>5, Zenon
  <2>7. /\ f[0] \in T /\ \A i \in 1..N : f[i - 1] \in T => f[i] \in T
        /\ f[0] = None /\ \A i \in 1..N : f[i] = Add(f[i - 1], i, j)
    <3>. HIDE DEF Add, None, n, F
    <3>. QED BY <1>1, <1>4, <1>5, <2>6
  <2>8. \A i \in 0..N : f[i] \in T
    <3>. HIDE DEF F, T, N
    <3>. QED BY <2>1, <2>7, RecursionTyped
  <2>9. Composing(cells, widths, j, f)
    <3>. HIDE DEF F, Add
    <3>. QED BY <1>8, <2>7, <2>8, Zenon DEF Composing
  <2>10. n \in 0..n
    BY <1>1
  <2>. HIDE DEF F, n
  <2>. QED BY <2>5, <2>8, <2>9, <2>10, Zenon
<1>7. ComposeCells(cells, widths) = [j \in 1..height |-> F(j)[n]]
  BY DEF ComposeCells
<1>9. \A j \in 1..height : F(j)[n] \in Line
  <2>. HIDE DEF F, height, n
  <2>. QED BY <1>6
<1>10. /\ ComposeCells(cells, widths) \in Seq(Line)
       /\ Len(ComposeCells(cells, widths)) = height
       /\ \A j \in 1..height : ComposeCells(cells, widths)[j] = F(j)[n]
  <2>. HIDE DEF F, height, n
  <2>. QED BY <1>2, <1>7, <1>9, IsASeq
<1>. HIDE DEF F, height, Cell, Add
<1>. QED BY <1>2, <1>3, <1>6, <1>8, <1>10, Zenon

\* Cells of lines compose to lines.
LEMMA CellsComposed ==
  ASSUME NEW cells \in Seq(Seq(Words)), NEW widths \in [1..Len(cells) -> Int]
  PROVE  ComposeCells(cells, widths) \in Seq(Line)
BY CellsUnfold

\* The dots the columns share are a natural number.
LEMMA Shared == \A n \in Nat \ {0}, width \in Int : Budget(n, width) \in Nat
<1>1. ASSUME NEW n \in Nat \ {0}, NEW width \in Int PROVE width - (n - 1) * Advance \in Int
  BY FontAssumption
<1>. QED BY <1>1 DEF Budget, Greatest

\* A row of a table, whose cells are texts.
LEMMA RowTyped ==
  ASSUME NEW row \in Seq(Content), NEW width \in Int
  PROVE  TableRow(row, width) \in Seq(Line)
<1>1. Len(row) \in Nat /\ DOMAIN row = 1..Len(row) /\ \A i \in 1..Len(row) : row[i] \in Content
  OBVIOUS
<1>2. CASE width <= 0
  <2>. DEFINE cells == [i \in DOMAIN row |-> <<FlattenSeq(row[i])>>]
              widths == [i \in DOMAIN row |-> 0]
  <2>1. \A i \in 1..Len(row) : FlattenSeq(row[i]) \in Words
    BY <1>1, Flattened DEF Content, Words
  <2>2. \A i \in 1..Len(row) : <<FlattenSeq(row[i])>> \in Seq(Words)
    BY <2>1
  <2>3. cells \in Seq(Seq(Words)) /\ Len(cells) = Len(row)
    BY <1>1, <2>2, IsASeq
  <2>4. widths \in [1..Len(cells) -> Int]
    BY <1>1, <2>3
  <2>. HIDE DEF cells, widths
  <2>5. ComposeCells(cells, widths) \in Seq(Line)
    BY <2>3, <2>4, CellsComposed
  <2>. QED BY <1>2, <2>5 DEF TableRow, cells, widths
<1>3. CASE width > 0
  <2>. DEFINE n == Len(row)
              share == Budget(n, width) \div n
              widths == TableWidths(n, width)
              cells == [i \in DOMAIN row |-> WrapText(row[i], widths[i], 1)]
  <2>1. \A i \in 1..n : widths[i] \in Int
    <3>1. ASSUME NEW i \in 1..n PROVE widths[i] \in Int
      <4>3. n \in Nat \ {0}
        BY <1>1
      <4>1. n \in Nat \ {0} /\ Budget(n, width) \in Nat
        <5>. HIDE DEF n
        <5>. QED BY <4>3, Shared
      <4>2. share \in Int /\ Budget(n, width) % n \in Int
        BY <4>1, Quotients
      <4>. HIDE DEF n
      <4>. QED BY <4>2 DEF TableWidths
    <3>. QED BY <3>1
  <2>2. widths \in [1..n -> Int]
    BY <2>1 DEF TableWidths
  <2>. HIDE DEF widths
  <2>3. \A i \in 1..Len(row) : WrapText(row[i], widths[i], 1) \in Seq(Words)
    BY <1>1, <2>1, TextWrapped DEF Content, Words
  <2>4. cells \in Seq(Seq(Words)) /\ Len(cells) = Len(row)
    BY <1>1, <2>3, IsASeq
  <2>. HIDE DEF cells
  <2>5. ComposeCells(cells, widths) \in Seq(Line)
    BY <2>2, <2>4, CellsComposed
  <2>. QED BY <1>3, <2>5 DEF TableRow, cells, widths
<1>. QED BY <1>2, <1>3

\* A table is laid out as lines.
LEMMA TableLinesTyped ==
  ASSUME NEW e, e.headers \in Seq(Content), e.rows \in Seq(Seq(Content)), NEW width \in Int
  PROVE  TableLines(e, width) \in Seq(Line)
<1>. DEFINE rows == <<e.headers>> \o e.rows
            lines == [i \in DOMAIN rows |-> TableRow(rows[i], width)]
<1>1. rows \in Seq(Seq(Content))
  BY ConcatProperties
<1>. HIDE DEF rows
<1>2. Len(rows) \in Nat /\ DOMAIN rows = 1..Len(rows) /\ \A i \in 1..Len(rows) : rows[i] \in Seq(Content)
  <2>. DEFINE S == Seq(Content)
  <2>1. rows \in Seq(S)
    BY <1>1
  <2>. HIDE DEF S
  <2>2. Len(rows) \in Nat /\ DOMAIN rows = 1..Len(rows) /\ \A i \in 1..Len(rows) : rows[i] \in S
    BY <2>1
  <2>. QED BY <2>2 DEF S
<1>5. \A i \in 1..Len(rows) : TableRow(rows[i], width) \in Seq(Line)
  BY <1>2, RowTyped
<1>3. lines \in Seq(Seq(Line))
  BY <1>2, <1>5, IsASeq
<1>. HIDE DEF lines
<1>4. FlattenSeq(lines) \in Seq(Line)
  BY <1>3, Flattened
<1>. QED BY <1>4 DEF TableLines, lines, rows

\* Every column has an integral width.
LEMMA ColumnsWide ==
  ASSUME NEW S, NEW cols \in Seq(S), cols # <<>>, \A i \in DOMAIN cols : cols[i].weight \in Int,
         NEW width \in Int
  PROVE  ColumnWidths(cols, width) \in [1..Len(cols) -> Int]
<1>. DEFINE n       == Len(cols)
            weights == [i \in 1..n |-> ResolveSize(cols[i].weight)]
            share   == [i \in 1..n |-> (Budget(n, width) * weights[i]) \div SumOf(weights)]
<1>1. n \in Nat \ {0} /\ DOMAIN cols = 1..n
  BY EmptySeq
<1>2. Budget(n, width) \in Nat
  BY <1>1, Shared
<1>3. \A i \in 1..n : weights[i] \in Nat \ {0}
  BY <1>1 DEF ResolveSize
<1>4. weights \in Seq(Nat \ {0}) /\ weights # <<>>
  <2>1. weights \in Seq(Nat \ {0})
    BY <1>1, <1>3, IsASeq
  <2>2. Len(weights) = n /\ Len(<<>>) = 0
    BY <1>1, EmptySeq
  <2>. HIDE DEF weights, n
  <2>. QED BY <1>1, <2>1, <2>2
<1>5. SumOf(weights) \in Nat \ {0}
  <2>. HIDE DEF weights
  <2>. QED BY <1>4, SumTyped
<1>6. \A i \in 1..n : share[i] \in Int
  <2>1. ASSUME NEW i \in 1..n PROVE share[i] \in Int
    <3>1. PICK a \in Int : a = Budget(n, width) * weights[i]
      <4>. HIDE DEF weights, n
      <4>. QED BY <1>2, <1>3
    <3>2. share[i] = a \div SumOf(weights)
      BY <3>1
    <3>. HIDE DEF share, weights
    <3>. QED BY <1>5, <3>1, <3>2, Quotients
  <2>. QED BY <2>1
<1>7. share \in [1..n -> Int] /\ share \in Seq(Int)
  <2>1. share = [i \in 1..n |-> share[i]]
    OBVIOUS
  <2>. HIDE DEF share, n
  <2>2. share \in [1..n -> Int]
    BY <1>6, <2>1
  <2>3. [i \in 1..n |-> share[i]] \in Seq(Int)
    BY <1>1, <1>6, IsASeq
  <2>. QED BY <2>1, <2>2, <2>3
<1>8. SumOf(share) \in Int
  <2>. HIDE DEF share
  <2>. QED BY <1>7, SumTyped
<1>9. [share EXCEPT ![n] = @ + Budget(n, width) - SumOf(share)] \in [1..n -> Int]
  <2>. HIDE DEF share, n
  <2>. QED BY <1>1, <1>2, <1>7, <1>8
<1>10. ColumnWidths(cols, width) =
         IF width <= 0 THEN [i \in 1..n |-> 0]
         ELSE [share EXCEPT ![n] = @ + Budget(n, width) - SumOf(share)]
  BY DEF ColumnWidths
<1>. HIDE DEF share
<1>. QED BY <1>9, <1>10

\* Columns of texts are laid out as lines.
LEMMA ColumnsLinesTyped ==
  ASSUME NEW e, NEW width \in Int,
         e.columns \in Seq(ToSet(e.columns)), e.columns # <<>>,
         \A col \in ToSet(e.columns) : col.weight \in Int /\ col.elements \in Seq(ToSet(col.elements)),
         \A col \in ToSet(e.columns) : \A inner \in ToSet(col.elements) : inner.content \in Content
  PROVE  ColumnsLines(e, width) \in Seq(Line)
<1>. DEFINE cols == e.columns
            n == Len(cols)
            widths == ColumnWidths(cols, width)
            Laid(i) == [k \in DOMAIN cols[i].elements |-> WrapText(cols[i].elements[k].content, widths[i], 1)]
            cells == [i \in DOMAIN cols |-> FlattenSeq(Laid(i))]
<1>1. n \in Nat /\ DOMAIN cols = 1..n /\ \A i \in 1..n : cols[i] \in ToSet(cols)
  BY DEF ToSet
<1>2. widths \in [1..n -> Int]
  <2>1. \A i \in DOMAIN cols : cols[i].weight \in Int
    BY <1>1
  <2>. QED BY <2>1, ColumnsWide
<1>3. ASSUME NEW i \in 1..n PROVE FlattenSeq(Laid(i)) \in Seq(Words)
  <2>. DEFINE inner == cols[i].elements
  <2>1. inner \in Seq(ToSet(inner)) /\ widths[i] \in Int
    BY <1>1, <1>2
  <2>2. Len(inner) \in Nat /\ DOMAIN inner = 1..Len(inner)
    BY <2>1
  <2>3. \A k \in 1..Len(inner) : inner[k].content \in Content
    BY <1>1, <2>2 DEF ToSet
  <2>. HIDE DEF inner, widths
  <2>4. \A k \in 1..Len(inner) : WrapText(inner[k].content, widths[i], 1) \in Seq(Words)
    BY <2>1, <2>3, TextWrapped DEF Content, Words
  <2>5. [k \in DOMAIN inner |-> WrapText(inner[k].content, widths[i], 1)] \in Seq(Seq(Words))
    BY <2>2, <2>4, IsASeq
  <2>. USE DEF inner
  <2>. QED BY <2>5, Flattened
<1>4. cells \in Seq(Seq(Words)) /\ Len(cells) = n
  <2>. HIDE DEF Laid, n
  <2>. QED BY <1>1, <1>3, IsASeq
<1>. HIDE DEF cells, widths
<1>5. ComposeCells(cells, widths) \in Seq(Line)
  <2>. HIDE DEF n
  <2>. QED BY <1>2, <1>4, CellsComposed
<1>. QED BY <1>5 DEF ColumnsLines, cells, widths

\* An item of a list is laid out as lines.
LEMMA ItemTyped ==
  ASSUME NEW kind, NEW number \in Nat, NEW item, item.content \in Content, item.indent \in Nat,
         NEW width \in Int
  PROVE  ItemLines(kind, number, item, width) \in Seq(Line)
<1>. DEFINE marker == MarkerChars(kind, number)
            indent == item.indent * ListIndentSpaces
            hang   == indent + marker + 1
            lines  == WrapText(item.content,
                               IF width > 0 THEN Greatest(1, width - hang * Advance) ELSE 0, 1)
            Hung(words) == [at |-> hang, words |-> words]
            First(words) == <<[at |-> indent, words |-> <<marker>>], Hung(words)>>
            Result(j) == [runs  |-> IF j = 1 THEN First(lines[j]) ELSE <<Hung(lines[j])>>,
                          chars |-> hang + Chars(lines[j])]
<1>1. marker \in Nat \ {0} /\ indent \in Nat /\ hang \in Nat
  <2>1. marker \in Nat \ {0}
    BY DEF MarkerChars
  <2>2. indent \in Nat
    BY DEF ListIndentSpaces
  <2>. HIDE DEF marker, indent
  <2>. QED BY <2>1, <2>2
<1>2. (IF width > 0 THEN Greatest(1, width - hang * Advance) ELSE 0) \in Int
  <2>. HIDE DEF hang
  <2>. QED BY <1>1, FontAssumption DEF Greatest
<1>3. lines \in Seq(Words) /\ Len(lines) \in Nat /\ DOMAIN lines = 1..Len(lines)
  <2>1. lines \in Seq(Words)
    <3>. HIDE DEF hang
    <3>. QED BY <1>2, TextWrapped DEF Content, Words
  <2>. HIDE DEF lines
  <2>. QED BY <2>1
<1>4. ASSUME NEW words \in Words
      PROVE  <<Hung(words)>> \in Seq([at : Nat, words : Words]) /\ First(words) \in Seq([at : Nat, words : Words])
  <2>1. Hung(words) \in [at : Nat, words : Words]
    <3>. HIDE DEF hang
    <3>. QED BY <1>1
  <2>2. <<marker>> \in Words
    <3>. HIDE DEF marker
    <3>. QED BY <1>1 DEF Words
  <2>3. [at |-> indent, words |-> <<marker>>] \in [at : Nat, words : Words]
    <3>. HIDE DEF marker, indent
    <3>. QED BY <1>1, <2>2
  <2>. HIDE DEF Hung, indent, marker
  <2>. QED BY <2>1, <2>3
<1>5. ASSUME NEW j \in 1..Len(lines) PROVE Result(j) \in Line
  <2>. HIDE DEF lines, hang, First, Hung
  <2>1. lines[j] \in Words
    BY <1>3
  <2>2. Chars(lines[j]) \in Nat
    BY <2>1, CharsTyped
  <2>3. (IF j = 1 THEN First(lines[j]) ELSE <<Hung(lines[j])>>) \in Seq([at : Nat, words : Words])
    BY <1>4, <2>1
  <2>4. hang + Chars(lines[j]) \in Nat
    BY <1>1, <2>2
  <2>. QED BY <2>3, <2>4 DEF Line
<1>6. ItemLines(kind, number, item, width) = [j \in DOMAIN lines |-> Result(j)]
  BY DEF ItemLines
<1>. HIDE DEF lines, Result
<1>. QED BY <1>3, <1>5, <1>6, IsASeq

\* So is a list.
LEMMA ListLinesTyped ==
  ASSUME NEW e, e.items \in Seq(ToSet(e.items)), NEW width \in Int,
         \A item \in ToSet(e.items) : item.content \in Content /\ item.indent \in Nat
  PROVE  ListLines(e, width) \in Seq(Line)
<1>. DEFINE lines == [i \in DOMAIN e.items |-> ItemLines(e.kind, i, e.items[i], width)]
<1>1. Len(e.items) \in Nat /\ DOMAIN e.items = 1..Len(e.items)
  OBVIOUS
<1>2. \A i \in 1..Len(e.items) : e.items[i] \in ToSet(e.items)
  BY <1>1
<1>3. \A i \in 1..Len(e.items) : ItemLines(e.kind, i, e.items[i], width) \in Seq(Line)
  BY <1>2, ItemTyped
<1>4. lines \in Seq(Seq(Line))
  BY <1>1, <1>3, IsASeq
<1>. HIDE DEF lines
<1>. QED BY <1>4, Flattened DEF ListLines, lines

-----------------------------------------------------------------------------
(***************************************************************************)
(* The words of an element, read off its lines again.                      *)
(***************************************************************************)

\* Run k of such a line is line j of cell k, behind the cells before it.
LEMMA CellRuns ==
  ASSUME NEW cells \in Seq(Seq(Words)), NEW widths, NEW j, NEW f, Composing(cells, widths, j, f)
  PROVE  LET line == f[Len(cells)]
         IN  /\ Len(line.runs) = Len(cells)
             /\ \A k \in 1..Len(cells) :
                  line.runs[k] = [at |-> f[k - 1].chars, words |-> CellAt(cells, k, j)]
<1>1. PICK n \in Nat : n = Len(cells)
  OBVIOUS
<1>2. /\ f[0] = [runs |-> <<>>, chars |-> 0]
      /\ \A i \in 1..n : f[i] = Added(cells, widths, f[i - 1], i, j)
      /\ \A i \in 0..n : f[i] \in Line
  BY <1>1, Zenon DEF Composing
<1>. DEFINE Run(k) == [at |-> f[k - 1].chars, words |-> CellAt(cells, k, j)]
            U == {i \in 0..n : Len(f[i].runs) = i /\ \A k \in 1..i : f[i].runs[k] = Run(k)}
<1>3. 0 \in U
  <2>0. f[0] = [runs |-> <<>>, chars |-> 0]
    BY <1>2, Zenon
  <2>1. f[0].runs = <<>>
    BY <2>0
  <2>2. Len(f[0].runs) = 0
    BY <2>1, EmptySeq
  <2>. QED BY <2>2
<1>4. ASSUME NEW i \in 1..n, i - 1 \in U PROVE i \in U
  <2>1. /\ i \in 0..n /\ i - 1 \in 0..n /\ Len(f[i - 1].runs) = i - 1
        /\ \A k \in 1..(i - 1) : f[i - 1].runs[k] = Run(k)
    <3>1. i \in 0..n /\ i - 1 \in 0..n
      OBVIOUS
    <3>. HIDE DEF Run
    <3>. QED BY <1>4, <3>1
  <2>2. f[i].runs = Append(f[i - 1].runs, Run(i))
    <3>1. f[i] = Added(cells, widths, f[i - 1], i, j)
      BY <1>2
    <3>2. Added(cells, widths, f[i - 1], i, j).runs = Append(f[i - 1].runs, Run(i))
      BY DEF Added
    <3>. QED BY <3>1, <3>2, Zenon
  <2>. DEFINE R == [at : Nat, words : Words]
              S == R \cup {Run(i)}
  <2>3. PICK old \in Seq(S), new \in S : old = f[i - 1].runs /\ new = Run(i)
    <3>1. f[i - 1].runs \in Seq(R)
      BY <1>2, <2>1, Zenon DEF Line
    <3>2. R \subseteq S /\ Run(i) \in S
      BY Zenon
    <3>. HIDE DEF S, R
    <3>. QED BY <3>1, <3>2, SeqMonotonic, Zenon
  <2>4. /\ Len(Append(old, new)) = i /\ Append(old, new)[i] = new
        /\ \A k \in 1..(i - 1) : Append(old, new)[k] = old[k]
    <3>1. Len(old) = i - 1
      BY <2>1, <2>3, Zenon
    <3>. HIDE DEF Run, S
    <3>. QED BY <3>1, AppendProperties
  <2>5. \A k \in 1..i : f[i].runs[k] = Run(k)
    <3>. SUFFICES ASSUME NEW k \in 1..i PROVE f[i].runs[k] = Run(k)
      OBVIOUS
    <3>1. k = i \/ k \in 1..(i - 1)
      OBVIOUS
    <3>. HIDE DEF Run
    <3>. QED BY <2>1, <2>2, <2>3, <2>4, <3>1
  <2>6. Len(f[i].runs) = i
    BY <2>2, <2>3, <2>4, Zenon
  <2>. QED BY <2>1, <2>5, <2>6
<1>5. 0..n \subseteq U
  <2>. HIDE DEF U
  <2>. QED BY <1>3, <1>4, BoundedInduction
<1>6. n \in U
  <2>. HIDE DEF U
  <2>. QED BY <1>5
<1>. QED BY <1>1, <1>6

\* The lines of one cell, read down the composed lines, hold its words.
LEMMA CellKept ==
  ASSUME NEW cells \in Seq(Seq(Words)), NEW widths \in [1..Len(cells) -> Int], NEW k \in 1..Len(cells)
  PROVE  FlattenSeq([j \in DOMAIN ComposeCells(cells, widths) |-> ComposeCells(cells, widths)[j].runs[k].words])
           = FlattenSeq(cells[k])
<1>. DEFINE lines == ComposeCells(cells, widths)
<1>1. PICK H \in Nat : H = Tallest(cells)
  BY CellsUnfold
<1>2. /\ DOMAIN lines = 1..H /\ Len(cells[k]) <= H
      /\ \A j \in 1..H : CellAt(cells, k, j) \in Words
      /\ \A j \in 1..H : \E f : Composing(cells, widths, j, f) /\ lines[j] = f[Len(cells)]
  <2>1. lines \in Seq(Line) /\ Len(lines) = H
    BY <1>1, CellsUnfold
  <2>2. DOMAIN lines = 1..H
    <3>. HIDE DEF lines
    <3>. QED BY <2>1
  <2>. HIDE DEF lines
  <2>. QED BY <1>1, <2>2, CellsUnfold DEF lines
<1>. HIDE DEF lines
<1>3. ASSUME NEW j \in 1..H PROVE lines[j].runs[k].words = CellAt(cells, k, j)
  <2>1. PICK f : Composing(cells, widths, j, f) /\ lines[j] = f[Len(cells)]
    BY <1>2
  <2>2. f[Len(cells)].runs[k] = [at |-> f[k - 1].chars, words |-> CellAt(cells, k, j)]
    BY <2>1, CellRuns
  <2>. QED BY <2>1, <2>2
<1>4. PICK cell \in Seq(Words) : cell = cells[k]
  OBVIOUS
<1>5. PICK m \in 0..H : m = Len(cell)
  BY <1>2, <1>4
<1>6. PICK s \in [1..H -> Words] : s = [j \in 1..H |-> CellAt(cells, k, j)]
  BY <1>2
<1>7. /\ \A j \in 1..m : s[j] = cell[j]
      /\ \A j \in (m + 1)..H : s[j] = <<>>
  BY <1>4, <1>5, <1>6 DEF CellAt
<1>8. Upto(s, H) = Upto(s, m)
  <2>1. PICK z \in [1..H -> Seq(Nat \ {0})] : z = s
    BY DEF Words
  <2>2. Upto(z, H) = Upto(z, m)
    BY <1>7, <2>1, UptoSettles
  <2>. QED BY <2>1, <2>2, Zenon
<1>9. [j \in 1..H |-> s[j]] = [j \in DOMAIN lines |-> lines[j].runs[k].words]
  BY <1>2, <1>3, <1>6
<1>10. [j \in 1..m |-> s[j]] = cell
  <2>1. cell = [j \in 1..m |-> cell[j]]
    BY <1>5
  <2>. QED BY <1>7, <2>1
<1>. QED BY <1>4, <1>8, <1>9, <1>10, Zenon DEF lines, Upto

\* The words of a text, line by line.
LEMMA TextLinesKept ==
  ASSUME NEW e, e.content \in Content, e.size \in Int, NEW width \in Int
  PROVE  FlattenSeq([n \in DOMAIN TextLines(e, width) |-> TextLines(e, width)[n].runs[1].words])
           = FlattenSeq(e.content)
<1>. DEFINE wrapped == WrapText(e.content, width, ResolveSize(e.size))
            lines == TextLines(e, width)
<1>1. ResolveSize(e.size) \in Nat \ {0}
  BY DEF ResolveSize
<1>2. wrapped \in Content /\ FlattenSeq(wrapped) = FlattenSeq(e.content)
  BY <1>1, TextWrapped, TextKept
<1>3. lines = [i \in DOMAIN wrapped |->
                 TextLine(wrapped[i], AlignPad(Chars(wrapped[i]), e.align, width, ResolveSize(e.size)))]
  BY DEF TextLines
<1>4. \A i \in DOMAIN wrapped : lines[i].runs[1].words = wrapped[i]
  <2>1. \A words, pad : TextLine(words, pad).runs[1].words = words
    BY DEF TextLine
  <2>. HIDE DEF wrapped
  <2>. QED BY <1>3, <2>1
<1>5. [n \in DOMAIN lines |-> lines[n].runs[1].words] = wrapped
  <2>1. wrapped = [i \in DOMAIN wrapped |-> wrapped[i]] /\ DOMAIN lines = DOMAIN wrapped
    <3>. HIDE DEF wrapped, lines
    <3>. QED BY <1>2, <1>3 DEF Content
  <2>. HIDE DEF wrapped, lines
  <2>. QED BY <1>4, <2>1
<1>. QED BY <1>2, <1>5, Zenon

\* The lines of a heading say its content.
LEMMA HeadingLinesKept ==
  ASSUME NEW e, e.content \in Content, NEW width \in Int
  PROVE  FlattenSeq([n \in DOMAIN HeadingLines(e, width) |-> HeadingLines(e, width)[n].runs[1].words])
           = FlattenSeq(e.content)
<1>. DEFINE wrapped == WrapText(e.content, width, HeadingSize)
            lines == HeadingLines(e, width)
<1>1. HeadingSize \in Nat \ {0}
  BY DEF HeadingSize
<1>2. wrapped \in Content /\ FlattenSeq(wrapped) = FlattenSeq(e.content)
  BY <1>1, TextWrapped, TextKept
<1>3. lines = [i \in DOMAIN wrapped |-> TextLine(wrapped[i], 0)]
  BY DEF HeadingLines
<1>4. \A i \in DOMAIN wrapped : lines[i].runs[1].words = wrapped[i]
  <2>1. \A words, pad : TextLine(words, pad).runs[1].words = words
    BY DEF TextLine
  <2>. HIDE DEF wrapped
  <2>. QED BY <1>3, <2>1
<1>5. [n \in DOMAIN lines |-> lines[n].runs[1].words] = wrapped
  <2>1. wrapped = [i \in DOMAIN wrapped |-> wrapped[i]] /\ DOMAIN lines = DOMAIN wrapped
    <3>. HIDE DEF wrapped, lines
    <3>. QED BY <1>2, <1>3 DEF Content
  <2>. HIDE DEF wrapped, lines
  <2>. QED BY <1>4, <2>1
<1>. QED BY <1>2, <1>5, Zenon

\* The lines of n cells, and what run k of each says.
Across(n) == {line \in Line : Len(line.runs) = n}
Down(n, k) == [line \in Across(n) |-> line.runs[k].words]

\* What is read down a column is words.
LEMMA DownReads == ASSUME NEW n \in Nat, NEW k \in 1..n PROVE Down(n, k) \in Readers(Across(n), Nat \ {0})
<1>1. ASSUME NEW line \in Across(n) PROVE line.runs[k].words \in Words
  <2>. DEFINE R == [at : Nat, words : Words]
  <2>1. line.runs \in Seq(R) /\ Len(line.runs) = n
    BY DEF Across, Line
  <2>2. line.runs[k] \in R
    <3>. HIDE DEF R
    <3>. QED BY <2>1
  <2>. QED BY <2>2
<1>. QED BY <1>1, Zenon DEF Down, Readers, Words

\* Composed cells, read down.
LEMMA CellsRead ==
  ASSUME NEW cells \in Seq(Seq(Words)), NEW widths \in [1..Len(cells) -> Int], NEW n \in Nat, n = Len(cells)
  PROVE  /\ ComposeCells(cells, widths) \in Seq(Across(n))
         /\ \A k \in 1..n : Gathered(Down(n, k), ComposeCells(cells, widths)) = FlattenSeq(cells[k])
<1>. DEFINE lines == ComposeCells(cells, widths)
<1>1. lines \in Seq(Line) /\ \A j \in 1..Len(lines) : lines[j] \in Across(n)
  <2>1. /\ lines \in Seq(Line) /\ Len(lines) = Tallest(cells)
        /\ \A j \in 1..Len(lines) : \E f : Composing(cells, widths, j, f) /\ lines[j] = f[Len(cells)]
    <3>1. /\ lines \in Seq(Line) /\ Len(lines) = Tallest(cells)
          /\ \A j \in 1..Tallest(cells) : \E f : Composing(cells, widths, j, f) /\ lines[j] = f[Len(cells)]
      BY CellsUnfold
    <3>. QED BY <3>1, Zenon
  <2>. HIDE DEF lines
  <2>2. ASSUME NEW j \in 1..Len(lines) PROVE lines[j] \in Across(n)
    <3>1. PICK f : Composing(cells, widths, j, f) /\ lines[j] = f[Len(cells)]
      BY <2>1
    <3>2. Len(f[Len(cells)].runs) = Len(cells)
      BY <3>1, CellRuns
    <3>3. lines[j] \in Line
      BY <2>1
    <3>. QED BY <3>1, <3>2, <3>3 DEF Across
  <2>. QED BY <2>1, <2>2
<1>2. lines \in Seq(Across(n)) /\ DOMAIN lines = 1..Len(lines)
  <2>. HIDE DEF lines
  <2>1. lines = [j \in 1..Len(lines) |-> lines[j]] /\ Len(lines) \in Nat
    BY <1>1
  <2>2. [j \in 1..Len(lines) |-> lines[j]] \in Seq(Across(n))
    BY <1>1, <2>1, IsASeq
  <2>. QED BY <2>1, <2>2
<1>3. ASSUME NEW k \in 1..n PROVE Gathered(Down(n, k), lines) = FlattenSeq(cells[k])
  <2>1. FlattenSeq([j \in DOMAIN lines |-> lines[j].runs[k].words]) = FlattenSeq(cells[k])
    BY CellKept
  <2>. HIDE DEF lines
  <2>2. [j \in DOMAIN lines |-> Down(n, k)[lines[j]]] = [j \in DOMAIN lines |-> lines[j].runs[k].words]
    BY <1>1, <1>2 DEF Down
  <2>. QED BY <2>1, <2>2, Zenon DEF Gathered, Read
<1>. QED BY <1>2, <1>3

\* The lines of a row, read down.
LEMMA RowKept ==
  ASSUME NEW row \in Seq(Content), NEW width \in Int, NEW n \in Nat, n = Len(row)
  PROVE  /\ TableRow(row, width) \in Seq(Across(n))
         /\ \A k \in 1..n : Gathered(Down(n, k), TableRow(row, width)) = FlattenSeq(row[k])
<1>1. Len(row) \in Nat /\ DOMAIN row = 1..n /\ \A i \in 1..n : row[i] \in Content
  OBVIOUS
<1>2. CASE width <= 0
  <2>. DEFINE cells == [i \in DOMAIN row |-> <<FlattenSeq(row[i])>>]
              widths == [i \in DOMAIN row |-> 0]
  <2>1. \A i \in 1..n : FlattenSeq(row[i]) \in Words
    BY <1>1, Flattened DEF Content, Words
  <2>2. \A i \in 1..n : <<FlattenSeq(row[i])>> \in Seq(Words)
    BY <2>1
  <2>3. cells \in Seq(Seq(Words)) /\ Len(cells) = n
    BY <1>1, <2>2, IsASeq
  <2>4. widths \in [1..Len(cells) -> Int]
    BY <1>1, <2>3
  <2>5. \A i \in 1..n : FlattenSeq(cells[i]) = FlattenSeq(row[i])
    <3>1. \A i \in 1..n : FlattenSeq(<<FlattenSeq(row[i])>>) = FlattenSeq(row[i])
      BY <2>1, FlattenOne DEF Words
    <3>. QED BY <1>1, <3>1
  <2>. HIDE DEF cells, widths
  <2>6. /\ ComposeCells(cells, widths) \in Seq(Across(n))
        /\ \A k \in 1..n : Gathered(Down(n, k), ComposeCells(cells, widths)) = FlattenSeq(cells[k])
    BY <2>3, <2>4, CellsRead
  <2>7. TableRow(row, width) = ComposeCells(cells, widths)
    BY <1>2 DEF TableRow, cells, widths
  <2>. QED BY <2>5, <2>6, <2>7
<1>3. CASE width > 0
  <2>. DEFINE widths == TableWidths(Len(row), width)
              cells == [i \in DOMAIN row |-> WrapText(row[i], widths[i], 1)]
  <2>1. \A i \in 1..n : widths[i] \in Int
    <3>. DEFINE share == Budget(n, width) \div n
    <3>1. ASSUME NEW i \in 1..n PROVE widths[i] \in Int
      <4>3. n \in Nat \ {0}
        BY <1>1
      <4>1. n \in Nat \ {0} /\ Budget(n, width) \in Nat
        BY <4>3, Shared
      <4>2. share \in Int /\ Budget(n, width) % n \in Int
        BY <4>1, Quotients
      <4>. QED BY <4>2 DEF TableWidths
    <3>. QED BY <3>1
  <2>2. widths \in [1..n -> Int]
    BY <2>1 DEF TableWidths
  <2>. HIDE DEF widths
  <2>3. \A i \in 1..n : /\ WrapText(row[i], widths[i], 1) \in Seq(Words)
                        /\ FlattenSeq(WrapText(row[i], widths[i], 1)) = FlattenSeq(row[i])
    BY <1>1, <2>1, TextWrapped, TextKept DEF Content, Words
  <2>4. cells \in Seq(Seq(Words)) /\ Len(cells) = n
    BY <1>1, <2>3, IsASeq
  <2>5. \A i \in 1..n : FlattenSeq(cells[i]) = FlattenSeq(row[i])
    BY <1>1, <2>3
  <2>. HIDE DEF cells
  <2>6. /\ ComposeCells(cells, widths) \in Seq(Across(n))
        /\ \A k \in 1..n : Gathered(Down(n, k), ComposeCells(cells, widths)) = FlattenSeq(cells[k])
    BY <2>2, <2>4, CellsRead
  <2>7. TableRow(row, width) = ComposeCells(cells, widths)
    BY <1>3 DEF TableRow, cells, widths
  <2>. QED BY <2>5, <2>6, <2>7
<1>. QED BY <1>2, <1>3

\* The words of each column of a table, read down its lines.
LEMMA TableLinesKept ==
  ASSUME NEW e, e.headers \in Seq(Content), e.rows \in Seq(Seq(Content)), NEW width \in Int,
         \A r \in DOMAIN e.rows : Len(e.rows[r]) = Len(e.headers),
         NEW k \in DOMAIN e.headers
  PROVE  FlattenSeq([n \in DOMAIN TableLines(e, width) |-> TableLines(e, width)[n].runs[k].words])
           = FlattenSeq(e.headers[k]) \o FlattenSeq([r \in DOMAIN e.rows |-> FlattenSeq(e.rows[r][k])])
<1>. DEFINE S == Nat \ {0}
            n == Len(e.headers)
            D == Down(n, k)
            rows == <<e.headers>> \o e.rows
            ss == [i \in DOMAIN rows |-> TableRow(rows[i], width)]
            lines == TableLines(e, width)
            below == [r \in DOMAIN e.rows |-> FlattenSeq(e.rows[r][k])]
            head == FlattenSeq(e.headers[k])
<1>1. n \in Nat /\ k \in 1..n
  BY SeqIndex, Zenon
<1>2. D \in Readers(Across(n), S)
  BY <1>1, DownReads
<1>3. PICK M \in Nat : M = Len(e.rows) /\ DOMAIN e.rows = 1..M
  <2>. DEFINE T == Seq(Content)
  <2>1. e.rows \in Seq(T)
    OBVIOUS
  <2>. HIDE DEF T
  <2>. QED BY <2>1
<1>4. /\ DOMAIN rows = 1..(M + 1) /\ rows[1] = e.headers /\ \A r \in 1..M : rows[r + 1] = e.rows[r]
      /\ \A i \in 1..(M + 1) : rows[i] \in Seq(Content) /\ Len(rows[i]) = n
  <2>. DEFINE T == Seq(Content)
  <2>1. e.rows \in Seq(T) /\ e.headers \in T /\ Len(e.rows) = M
    BY <1>3
  <2>2. /\ DOMAIN rows = 1..(M + 1) /\ rows[1] = e.headers /\ \A r \in 1..M : rows[r + 1] = e.rows[r]
        /\ \A i \in 1..(M + 1) : rows[i] \in T
    <3>. HIDE DEF T
    <3>. QED BY <2>1
  <2>. HIDE DEF rows
  <2>3. ASSUME NEW i \in 1..(M + 1) PROVE Len(rows[i]) = n
    <3>1. CASE i = 1
      BY <2>2, <3>1
    <3>2. CASE i # 1
      <4>1. i - 1 \in 1..M /\ (i - 1) + 1 = i
        BY <3>2
      <4>2. rows[i] = e.rows[i - 1]
        BY <2>2, <4>1
      <4>3. i - 1 \in DOMAIN e.rows
        BY <1>3, <4>1, Zenon
      <4>4. Len(e.rows[i - 1]) = Len(e.headers)
        BY <4>3, Zenon
      <4>. QED BY <4>2, <4>4, Zenon
    <3>. QED BY <3>1, <3>2
  <2>. QED BY <2>2, <2>3
<1>. HIDE DEF rows
<1>5. \A i \in 1..(M + 1) : /\ ss[i] \in Seq(Across(n))
                            /\ Gathered(D, ss[i]) = FlattenSeq(rows[i][k])
  BY <1>1, <1>4, RowKept
<1>6. ss \in Seq(Seq(Across(n))) /\ DOMAIN ss = 1..(M + 1)
  <2>1. ss = [i \in 1..(M + 1) |-> ss[i]] /\ M + 1 \in Nat
    BY <1>4
  <2>. HIDE DEF ss
  <2>. QED BY <1>5, <2>1, IsASeq
<1>7. lines = FlattenSeq(ss)
  BY DEF TableLines, rows
<1>8. Gathered(D, FlattenSeq(ss)) = FlattenSeq([i \in DOMAIN ss |-> Gathered(D, ss[i])])
  <2>. HIDE DEF D, ss, S
  <2>1. PICK T : T = Across(n)
    OBVIOUS
  <2>2. PICK g \in Readers(T, S), z \in Seq(Seq(T)) : g = D /\ z = ss
    BY <1>2, <1>6, <2>1, Zenon
  <2>3. Gathered(g, FlattenSeq(z)) = FlattenSeq([i \in DOMAIN z |-> Gathered(g, z[i])])
    BY GatherFlat
  <2>. QED BY <2>2, <2>3, Zenon
<1>9. Gathered(D, lines) = FlattenSeq([i \in 1..(M + 1) |-> FlattenSeq(rows[i][k])])
  <2>. HIDE DEF D, ss, lines
  <2>1. [i \in DOMAIN ss |-> Gathered(D, ss[i])] = [i \in 1..(M + 1) |-> FlattenSeq(rows[i][k])]
    BY <1>5, <1>6
  <2>. QED BY <1>7, <1>8, <2>1, Zenon
<1>10. \A i \in 1..(M + 1) : FlattenSeq(rows[i][k]) \in Seq(S)
  <2>1. \A i \in 1..(M + 1) : rows[i][k] \in Content
    BY <1>1, <1>4
  <2>. QED BY <2>1, Flattened DEF Content
<1>11. head \in Seq(S) /\ below \in Seq(Seq(S))
  <2>1. head \in Seq(S)
    <3>1. 1 \in 1..(M + 1)
      OBVIOUS
    <3>. QED BY <1>4, <1>10, <3>1, Zenon
  <2>2. \A r \in 1..M : FlattenSeq(e.rows[r][k]) \in Seq(S)
    <3>1. \A r \in 1..M : r + 1 \in 1..(M + 1)
      OBVIOUS
    <3>. QED BY <1>4, <1>10, <3>1, Zenon
  <2>3. below \in Seq(Seq(S))
    <3>. DEFINE T == Seq(S)
    <3>1. \A r \in 1..M : below[r] \in T
      BY <1>3, <2>2
    <3>2. below = [r \in 1..M |-> below[r]]
      BY <1>3
    <3>. HIDE DEF T, below
    <3>3. below \in Seq(T)
      BY <3>1, <3>2, IsASeq
    <3>. QED BY <3>3 DEF T
  <2>. QED BY <2>1, <2>3
<1>12. [i \in 1..(M + 1) |-> FlattenSeq(rows[i][k])] = <<head>> \o below
  <2>. DEFINE T == Seq(S)
              lhs == [i \in 1..(M + 1) |-> FlattenSeq(rows[i][k])]
  <2>1. /\ head \in T /\ below \in Seq(T) /\ Len(below) = M /\ \A r \in 1..M : below[r] = FlattenSeq(rows[r + 1][k])
    <3>1. below \in Seq(T) /\ DOMAIN below = 1..M
      BY <1>3, <1>11
    <3>2. Len(below) = M
      <4>. HIDE DEF T, below
      <4>. QED BY <3>1
    <3>3. \A r \in 1..M : below[r] = FlattenSeq(rows[r + 1][k])
      BY <1>3, <1>4
    <3>. QED BY <1>11, <3>1, <3>2, <3>3
  <2>2. head = FlattenSeq(rows[1][k])
    BY <1>4
  <2>3. lhs \in Seq(T) /\ Len(lhs) = M + 1
    <3>. HIDE DEF T
    <3>1. \A i \in 1..(M + 1) : FlattenSeq(rows[i][k]) \in T
      BY <1>10 DEF T
    <3>. QED BY <3>1, IsASeq
  <2>. HIDE DEF T, below, head
  <2>4. <<head>> \o below \in Seq(T) /\ Len(<<head>> \o below) = M + 1
    BY <2>1
  <2>5. ASSUME NEW i \in 1..(M + 1) PROVE lhs[i] = (<<head>> \o below)[i]
    <3>1. CASE i = 1
      BY <2>1, <2>2, <3>1
    <3>2. CASE i # 1
      <4>1. PICK r \in 1..M : i = r + 1
        <5>1. i - 1 \in 1..M /\ i = (i - 1) + 1
          BY <3>2
        <5>. QED BY <5>1
      <4>2. (<<head>> \o below)[i] = below[r]
        BY <2>1, <4>1
      <4>. QED BY <2>1, <4>1, <4>2
    <3>. QED BY <3>1, <3>2
  <2>. HIDE DEF lhs
  <2>6. lhs = <<head>> \o below
    BY <2>3, <2>4, <2>5, SeqEqual
  <2>. QED BY <2>6 DEF lhs
<1>13. FlattenSeq(<<head>> \o below) = head \o FlattenSeq(below)
  <2>. HIDE DEF head, below
  <2>1. PICK x \in Seq(S), t \in Seq(Seq(S)) : x = head /\ t = below
    BY <1>11
  <2>2. PICK z \in Seq(Seq(S)) : z = <<x>>
    <3>1. \A T, v : v \in T => <<v>> \in Seq(T)
      OBVIOUS
    <3>. QED BY <3>1, Zenon
  <2>3. FlattenSeq(z \o t) = FlattenSeq(z) \o FlattenSeq(t)
    BY FlattenConcat
  <2>4. FlattenSeq(<<x>>) = x
    BY FlattenOne
  <2>. QED BY <2>1, <2>2, <2>3, <2>4, Zenon
<1>14. [j \in DOMAIN lines |-> D[lines[j]]] = [j \in DOMAIN lines |-> lines[j].runs[k].words]
  <2>1. lines \in Seq(Across(n))
    <3>1. PICK T : T = Across(n)
      OBVIOUS
    <3>2. FlattenSeq(ss) \in Seq(T)
      <4>. HIDE DEF ss
      <4>. QED BY <1>6, <3>1, Flattened
    <3>. QED BY <1>7, <3>1, <3>2, Zenon
  <2>. HIDE DEF lines
  <2>2. \A j \in DOMAIN lines : lines[j] \in Across(n)
    BY <2>1
  <2>. HIDE DEF n
  <2>. QED BY <2>2 DEF Down
<1>15. Gathered(D, lines) = FlattenSeq([j \in DOMAIN lines |-> lines[j].runs[k].words])
  <2>. HIDE DEF lines, D
  <2>. QED BY <1>14, Zenon DEF Gathered, Read
<1>. HIDE DEF D, rows
<1>. QED BY <1>9, <1>12, <1>13, <1>15, Zenon

\* The words of each column, read down the lines.
LEMMA ColumnsLinesKept ==
  ASSUME NEW e, NEW width \in Int,
         e.columns \in Seq(ToSet(e.columns)), e.columns # <<>>,
         \A col \in ToSet(e.columns) : col.weight \in Int /\ col.elements \in Seq(ToSet(col.elements)),
         \A col \in ToSet(e.columns) : \A inner \in ToSet(col.elements) : inner.content \in Content,
         NEW k \in DOMAIN e.columns
  PROVE  FlattenSeq([n \in DOMAIN ColumnsLines(e, width) |-> ColumnsLines(e, width)[n].runs[k].words])
           = FlattenSeq([m \in DOMAIN e.columns[k].elements |-> FlattenSeq(e.columns[k].elements[m].content)])
<1>. DEFINE cols == e.columns
            n == Len(cols)
            widths == ColumnWidths(cols, width)
            Laid(i) == [m \in DOMAIN cols[i].elements |-> WrapText(cols[i].elements[m].content, widths[i], 1)]
            cells == [i \in DOMAIN cols |-> FlattenSeq(Laid(i))]
<1>1. n \in Nat /\ DOMAIN cols = 1..n /\ \A i \in 1..n : cols[i] \in ToSet(cols)
  BY DEF ToSet
<1>2. widths \in [1..n -> Int]
  <2>1. \A i \in DOMAIN cols : cols[i].weight \in Int
    BY <1>1
  <2>. QED BY <2>1, ColumnsWide
<1>3. ASSUME NEW i \in 1..n
      PROVE  /\ Laid(i) \in Seq(Content)
             /\ \A m \in DOMAIN cols[i].elements : FlattenSeq(Laid(i)[m]) = FlattenSeq(cols[i].elements[m].content)
  <2>. DEFINE inner == cols[i].elements
  <2>1. inner \in Seq(ToSet(inner)) /\ widths[i] \in Int
    BY <1>1, <1>2
  <2>2. Len(inner) \in Nat /\ DOMAIN inner = 1..Len(inner)
    BY <2>1
  <2>3. \A m \in 1..Len(inner) : inner[m].content \in Content
    BY <1>1, <2>2 DEF ToSet
  <2>. HIDE DEF inner, widths
  <2>4. \A m \in 1..Len(inner) : /\ WrapText(inner[m].content, widths[i], 1) \in Content
                                 /\ FlattenSeq(WrapText(inner[m].content, widths[i], 1)) = FlattenSeq(inner[m].content)
    BY <2>1, <2>3, TextWrapped, TextKept
  <2>5. [m \in DOMAIN inner |-> WrapText(inner[m].content, widths[i], 1)] \in Seq(Content)
    BY <2>2, <2>4, IsASeq
  <2>6. \A m \in DOMAIN inner : FlattenSeq([q \in DOMAIN inner |-> WrapText(inner[q].content, widths[i], 1)][m])
                                  = FlattenSeq(inner[m].content)
    BY <2>2, <2>4
  <2>. QED BY <2>5, <2>6, Zenon DEF inner
<1>4. \A i \in 1..n : FlattenSeq(Laid(i)) \in Seq(Words)
  BY <1>3, Flattened DEF Content, Words
<1>5. cells \in Seq(Seq(Words)) /\ Len(cells) = n /\ \A i \in 1..n : cells[i] = FlattenSeq(Laid(i))
  <2>. HIDE DEF Laid, n
  <2>. QED BY <1>1, <1>4, IsASeq
<1>6. FlattenSeq(FlattenSeq(Laid(k))) = FlattenSeq([m \in DOMAIN cols[k].elements |-> FlattenSeq(cols[k].elements[m].content)])
  <2>. DEFINE S == Nat \ {0}
  <2>1. PICK v \in Seq(Seq(Seq(S))) : v = Laid(k)
    BY <1>1, <1>3 DEF Content
  <2>2. FlattenSeq(FlattenSeq(v)) = FlattenSeq([m \in DOMAIN v |-> FlattenSeq(v[m])])
    BY FlattenTwice
  <2>3. DOMAIN Laid(k) = DOMAIN cols[k].elements
    BY Zenon
  <2>4. [m \in DOMAIN Laid(k) |-> FlattenSeq(Laid(k)[m])]
          = [m \in DOMAIN cols[k].elements |-> FlattenSeq(cols[k].elements[m].content)]
    <3>1. \A m \in DOMAIN cols[k].elements : FlattenSeq(Laid(k)[m]) = FlattenSeq(cols[k].elements[m].content)
      BY <1>1, <1>3, Zenon
    <3>. HIDE DEF Laid, cols
    <3>. QED BY <2>3, <3>1
  <2>. QED BY <2>1, <2>2, <2>4, Zenon
<1>7. ColumnsLines(e, width) = ComposeCells(cells, widths)
  BY DEF ColumnsLines
<1>. HIDE DEF cells, widths, n
<1>8. FlattenSeq([j \in DOMAIN ComposeCells(cells, widths) |-> ComposeCells(cells, widths)[j].runs[k].words])
        = FlattenSeq(cells[k])
  <2>1. k \in 1..Len(cells) /\ widths \in [1..Len(cells) -> Int]
    BY <1>1, <1>2, <1>5, Zenon
  <2>. QED BY <1>5, <2>1, CellKept
<1>. QED BY <1>1, <1>5, <1>6, <1>7, <1>8, Zenon

\* The lines that have a run, and what the last of each says.
WithRuns == {line \in Line : line.runs # <<>>}
LastWords == [line \in WithRuns |-> Last(line.runs).words]

\* What is read at the end of a line is words.
LEMMA LastReads == LastWords \in Readers(WithRuns, Nat \ {0})
<1>1. ASSUME NEW line \in WithRuns PROVE Last(line.runs).words \in Words
  <2>. DEFINE R == [at : Nat, words : Words]
  <2>1. line.runs \in Seq(R) /\ line.runs # <<>>
    BY DEF WithRuns, Line
  <2>2. Last(line.runs) \in R
    <3>. HIDE DEF R
    <3>. QED BY <2>1, EmptySeq DEF Last
  <2>. QED BY <2>2
<1>. QED BY <1>1, Zenon DEF LastWords, Readers, Words

\* An item's lines are its text's, behind its marker.
LEMMA ItemKept ==
  ASSUME NEW kind, NEW number \in Nat, NEW item, item.content \in Content, item.indent \in Nat,
         NEW width \in Int
  PROVE  /\ ItemLines(kind, number, item, width) \in Seq(WithRuns)
         /\ Gathered(LastWords, ItemLines(kind, number, item, width)) = FlattenSeq(item.content)
<1>. DEFINE hang == item.indent * ListIndentSpaces + MarkerChars(kind, number) + 1
            room == IF width > 0 THEN Greatest(1, width - hang * Advance) ELSE 0
            wrapped == WrapText(item.content, room, 1)
            lines == ItemLines(kind, number, item, width)
<1>1. room \in Int
  <2>1. hang \in Nat
    <3>1. MarkerChars(kind, number) \in Nat
      BY DEF MarkerChars
    <3>. QED BY <3>1 DEF ListIndentSpaces
  <2>. HIDE DEF hang
  <2>. QED BY <2>1, FontAssumption DEF Greatest
<1>2. wrapped \in Content /\ FlattenSeq(wrapped) = FlattenSeq(item.content)
  <2>. HIDE DEF room
  <2>. QED BY <1>1, TextWrapped, TextKept
<1>3. lines \in Seq(Line)
  BY ItemTyped
<1>4. /\ DOMAIN lines = DOMAIN wrapped
      /\ \A j \in DOMAIN wrapped : lines[j].runs # <<>> /\ Last(lines[j].runs).words = wrapped[j]
  <2>. DEFINE Hanging(words) == [at |-> hang, words |-> words]
              First(words) == <<[at |-> item.indent * ListIndentSpaces, words |-> <<MarkerChars(kind, number)>>], Hanging(words)>>
  <2>1. lines = [j \in DOMAIN wrapped |-> [runs |-> IF j = 1 THEN First(wrapped[j]) ELSE <<Hanging(wrapped[j])>>,
                                            chars |-> hang + Chars(wrapped[j])]]
    BY DEF ItemLines
  <2>2. \A words : /\ First(words) # <<>> /\ Last(First(words)).words = words
                   /\ <<Hanging(words)>> # <<>> /\ Last(<<Hanging(words)>>).words = words
    <3>. HIDE DEF hang
    <3>. QED BY DEF Last
  <2>. HIDE DEF hang, wrapped, lines, First, Hanging
  <2>. QED BY <2>1, <2>2
<1>5. lines \in Seq(WithRuns) /\ \A j \in DOMAIN wrapped : lines[j] \in WithRuns
  <2>. HIDE DEF lines, wrapped
  <2>1. DOMAIN lines = 1..Len(lines) /\ Len(lines) \in Nat /\ lines = [j \in 1..Len(lines) |-> lines[j]]
    BY <1>3
  <2>2. \A j \in 1..Len(lines) : lines[j] \in WithRuns
    BY <1>3, <1>4, <2>1 DEF WithRuns
  <2>. QED BY <1>4, <2>1, <2>2, IsASeq
<1>6. Read(LastWords, lines) = wrapped
  <2>1. wrapped = [j \in DOMAIN wrapped |-> wrapped[j]]
    <3>. HIDE DEF wrapped
    <3>. QED BY <1>2 DEF Content
  <2>. HIDE DEF lines, wrapped
  <2>2. \A j \in DOMAIN wrapped : LastWords[lines[j]] = wrapped[j]
    BY <1>4, <1>5 DEF LastWords
  <2>3. [j \in DOMAIN lines |-> LastWords[lines[j]]] = wrapped
    BY <1>4, <2>1, <2>2
  <2>. QED BY <2>3, Zenon DEF Read
<1>. HIDE DEF lines, wrapped
<1>. QED BY <1>2, <1>5, <1>6, Zenon DEF Gathered, lines

\* The words of a list's items, item by item.
LEMMA ListLinesKept ==
  ASSUME NEW e, e.items \in Seq(ToSet(e.items)), NEW width \in Int,
         \A item \in ToSet(e.items) : item.content \in Content /\ item.indent \in Nat
  PROVE  FlattenSeq([n \in DOMAIN ListLines(e, width) |-> Last(ListLines(e, width)[n].runs).words])
           = FlattenSeq([n \in DOMAIN e.items |-> FlattenSeq(e.items[n].content)])
<1>. DEFINE S == Nat \ {0}
            ss == [i \in DOMAIN e.items |-> ItemLines(e.kind, i, e.items[i], width)]
            lines == ListLines(e, width)
<1>1. PICK M \in Nat : DOMAIN e.items = 1..M
  BY SeqIndex, Zenon
<1>2. \A i \in 1..M : e.items[i] \in ToSet(e.items)
  BY <1>1
<1>3. \A i \in 1..M : /\ ss[i] \in Seq(WithRuns)
                       /\ Gathered(LastWords, ss[i]) = FlattenSeq(e.items[i].content)
  BY <1>1, <1>2, ItemKept
<1>4. ss \in Seq(Seq(WithRuns)) /\ DOMAIN ss = 1..M
  <2>1. ss = [i \in 1..M |-> ss[i]]
    BY <1>1
  <2>. HIDE DEF ss
  <2>. QED BY <1>3, <2>1, IsASeq
<1>5. lines = FlattenSeq(ss)
  BY DEF ListLines
<1>6. Gathered(LastWords, FlattenSeq(ss)) = FlattenSeq([i \in DOMAIN ss |-> Gathered(LastWords, ss[i])])
  <2>. HIDE DEF ss, S
  <2>1. PICK T : T = WithRuns
    OBVIOUS
  <2>2. PICK g \in Readers(T, S), z \in Seq(Seq(T)) : g = LastWords /\ z = ss
    BY <1>4, <2>1, LastReads, Zenon DEF S
  <2>3. Gathered(g, FlattenSeq(z)) = FlattenSeq([i \in DOMAIN z |-> Gathered(g, z[i])])
    BY GatherFlat
  <2>. QED BY <2>2, <2>3, Zenon
<1>. HIDE DEF ss, lines
<1>7. [i \in DOMAIN ss |-> Gathered(LastWords, ss[i])] = [n \in DOMAIN e.items |-> FlattenSeq(e.items[n].content)]
  BY <1>1, <1>3, <1>4
<1>8. lines \in Seq(WithRuns)
  <2>1. PICK T : T = WithRuns
    OBVIOUS
  <2>2. FlattenSeq(ss) \in Seq(T)
    BY <1>4, <2>1, Flattened
  <2>. QED BY <1>5, <2>1, <2>2, Zenon
<1>9. Read(LastWords, lines) = [n \in DOMAIN lines |-> Last(lines[n].runs).words]
  <2>1. \A n \in DOMAIN lines : lines[n] \in WithRuns
    BY <1>8
  <2>2. [n \in DOMAIN lines |-> LastWords[lines[n]]] = [n \in DOMAIN lines |-> Last(lines[n].runs).words]
    BY <2>1 DEF LastWords
  <2>. QED BY <2>2, Zenon DEF Read
<1>. QED BY <1>5, <1>6, <1>7, <1>9, Zenon DEF Gathered, lines

-----------------------------------------------------------------------------
(***************************************************************************)
(* The width of the lines.                                                 *)
(***************************************************************************)

\* Wrapped lines fit, or hold one word.
Fits(words, width, size) == Chars(words) * Advance * size <= width \/ Len(words) <= 1
Fitting(width, size) == {words \in Words : Fits(words, width, size)}

\* A word put on lines that fit leaves lines that fit.
LEMMA PlacedFits ==
  ASSUME NEW width \in Int, NEW size \in Nat \ {0}, NEW lines \in Seq(Fitting(width, size)), NEW w \in Nat \ {0}
  PROVE  Placed(lines, w, width, size) \in Seq(Fitting(width, size))
<1>. DEFINE T == Fitting(width, size)
<1>1. T \subseteq Words /\ lines \in Seq(T)
  BY DEF Fitting
<1>2. <<w>> \in T
  <2>1. <<w>> \in Words /\ Len(<<w>>) = 1
    BY DEF Words
  <2>. QED BY <2>1 DEF Fitting, Fits
<1>3. CASE lines # <<>> /\ Chars(Append(Last(lines), w)) * Advance * size <= width
  <2>1. Len(lines) \in Nat \ {0} /\ Last(lines) \in T
    <3>. HIDE DEF T
    <3>. QED BY <1>1, <1>3, EmptySeq DEF Last
  <2>2. Append(Last(lines), w) \in Words
    BY <1>1, <2>1 DEF Words
  <2>3. Append(Last(lines), w) \in T
    BY <1>3, <2>2 DEF Fitting, Fits
  <2>4. Front(lines) \in Seq(T)
    <3>1. PICK m \in Nat : m = Len(lines) - 1
      <4>0. PICK n \in Nat \ {0} : n = Len(lines)
        BY <2>1, Zenon
      <4>1. n - 1 \in Nat
        OBVIOUS
      <4>. QED BY <4>0, <4>1
    <3>2. SubSeq(lines, 1, m) \in Seq(T)
      <4>. HIDE DEF T
      <4>. QED BY <1>1, <2>1, <3>1
    <3>. QED BY <3>1, <3>2 DEF Front
  <2>. HIDE DEF T
  <2>5. Append(Front(lines), Append(Last(lines), w)) \in Seq(T)
    BY <2>3, <2>4, AppendProperties
  <2>6. Placed(lines, w, width, size) = Append(Front(lines), Append(Last(lines), w))
    BY <1>3, Zenon DEF Placed
  <2>. QED BY <2>5, <2>6, Zenon DEF T
<1>4. CASE ~(lines # <<>> /\ Chars(Append(Last(lines), w)) * Advance * size <= width)
  <2>. HIDE DEF T
  <2>1. Append(lines, <<w>>) \in Seq(T)
    BY <1>1, <1>2, AppendProperties
  <2>2. Placed(lines, w, width, size) = Append(lines, <<w>>)
    BY <1>4, Zenon DEF Placed
  <2>. QED BY <2>1, <2>2, Zenon DEF T
<1>. QED BY <1>3, <1>4

\* The lines of a paragraph fit.
LEMMA ParagraphFits ==
  ASSUME NEW words \in Words, NEW width \in Int, NEW size \in Nat \ {0}
  PROVE  WrapParagraph(words, width, size) \in Seq(Fitting(width, size))
<1>. DEFINE T == Seq(Fitting(width, size))
            N == Len(words)
<1>1. N \in Nat /\ N \in 0..N /\ \A n \in 1..N : words[n] \in Nat \ {0}
  BY DEF Words
<1>2. PICK f : Wrapping(words, width, size, f)
  BY ParagraphUnfolds
<1>3. /\ f[0] = <<>>
      /\ \A n \in 1..N : f[n] = Placed(f[n - 1], words[n], width, size)
      /\ words # <<>> => WrapParagraph(words, width, size) = f[N]
  BY <1>2, Zenon DEF Wrapping
<1>4. f[0] \in T
  BY <1>3, EmptySeq
<1>5. \A n \in 1..N : f[n - 1] \in T => f[n] \in T
  BY <1>1, <1>3, PlacedFits, Zenon
<1>6. \A n \in 0..N : f[n] \in T
  <2>. HIDE DEF T, N
  <2>. QED BY <1>1, <1>4, <1>5, RecursionTyped
<1>7. words # <<>> => WrapParagraph(words, width, size) \in T
  BY <1>1, <1>3, <1>6, Zenon
<1>8. ASSUME words = <<>> PROVE WrapParagraph(words, width, size) \in T
  <2>1. <<>> \in Fitting(width, size)
    <3>1. <<>> \in Words /\ Len(<<>>) = 0
      BY EmptySeq DEF Words
    <3>. QED BY <3>1 DEF Fitting, Fits
  <2>2. \A S : <<>> \in S => << <<>> >> \in Seq(S)
    OBVIOUS
  <2>3. Blank \in T
    BY <2>1, <2>2, Zenon DEF Blank
  <2>. QED BY <1>8, <2>3 DEF WrapParagraph
<1>. QED BY <1>7, <1>8

\* The lines of a text of several paragraphs fit.
LEMMA TextFits ==
  ASSUME NEW content \in Content, NEW width \in Int, width > 0, NEW size \in Nat \ {0}
  PROVE  WrapText(content, width, size) \in Seq(Fitting(width, size))
<1>. DEFINE T == Fitting(width, size)
            wrapped == [i \in DOMAIN content |-> WrapParagraph(content[i], width, size)]
<1>1. \A i \in DOMAIN content : content[i] \in Words
  BY DEF Content, Words
<1>2. wrapped \in Seq(Seq(T))
  <2>. DEFINE U == Seq(T)
  <2>1. \A i \in 1..Len(content) : wrapped[i] \in U
    BY <1>1, ParagraphFits DEF Content
  <2>2. wrapped = [i \in 1..Len(content) |-> wrapped[i]] /\ Len(content) \in Nat
    BY DEF Content
  <2>. HIDE DEF wrapped, U
  <2>3. wrapped \in Seq(U)
    BY <2>1, <2>2, IsASeq
  <2>. QED BY <2>3 DEF U
<1>3. FlattenSeq(wrapped) \in Seq(T)
  <2>. HIDE DEF wrapped, T
  <2>. QED BY <1>2, Flattened
<1>4. WrapText(content, width, size) = FlattenSeq(wrapped)
  BY DEF WrapText
<1>. QED BY <1>3, <1>4, Zenon

\* Two words take two runes at least.
LEMMA FewChars == \A words \in Words : Chars(words) <= 1 => Len(words) <= 1
<1>. SUFFICES ASSUME NEW words \in Words, ~(Len(words) <= 1) PROVE ~(Chars(words) <= 1)
  OBVIOUS
<1>1. Len(words) \in Nat /\ words # <<>>
  BY EmptySeq DEF Words
<1>2. SumOf(words) \in Nat \ {0}
  BY <1>1, SumTyped DEF Words
<1>3. Chars(words) = SumOf(words) + Len(words) - 1
  BY <1>1 DEF Chars
<1>. QED BY <1>1, <1>2, <1>3

\* Padding fills the room there is, no more.
LEMMA PadFits ==
  ASSUME NEW chars \in Nat, NEW align, NEW width \in Int, NEW size \in Nat \ {0},
         chars * Advance * size <= width
  PROVE  (AlignPad(chars, align, width, size) + chars) * Advance * size <= width
<1>1. PICK u \in Nat \ {0} : u = Advance * size
  BY FontAssumption
<1>2. \A c \in Nat : c * Advance * size = c * u
  BY <1>1, FontAssumption
<1>3. PICK used \in Nat : used = chars * u
  OBVIOUS
<1>4. used <= width
  BY <1>2, <1>3
<1>5. \A d \in Nat : (d \div u) \in Nat /\ (d \div u) * u <= d
  <2>1. ASSUME NEW d \in Nat PROVE (d \div u) \in Nat /\ (d \div u) * u <= d
    <3>1. d \div u \in Nat
      BY Quotients
    <3>2. d = u * (d \div u) + (d % u) /\ d % u \in 0..(u - 1)
      OBVIOUS
    <3>3. PICK q \in Nat, r \in Nat : q = d \div u /\ r = d % u
      BY <3>1, <3>2
    <3>4. u * q = q * u /\ d = u * q + r
      BY <3>2, <3>3
    <3>5. q * u \in Nat
      OBVIOUS
    <3>. QED BY <3>1, <3>3, <3>4, <3>5
  <2>. QED BY <2>1
<1>6. PICK room \in Nat : room = width - used
  BY <1>4
<1>7. PICK pad \in Nat : pad = AlignPad(chars, align, width, size) /\ pad * u <= room
  <2>1. AlignPad(chars, align, width, size) =
          IF align \notin {"center", "right"} \/ width <= 0 \/ room <= 0 THEN 0
          ELSE (IF align = "center" THEN room \div 2 ELSE room) \div u
    BY <1>1, <1>2, <1>3, <1>6 DEF AlignPad, Spaces
  <2>2. room \div 2 \in Nat /\ room \div 2 <= room
    OBVIOUS
  <2>3. PICK half \in Nat : half = room \div 2 /\ half <= room
    BY <2>2
  <2>4. \/ AlignPad(chars, align, width, size) = 0
        \/ AlignPad(chars, align, width, size) = half \div u
        \/ AlignPad(chars, align, width, size) = room \div u
    BY <2>1, <2>3, Zenon
  <2>5. half \div u \in Nat /\ (half \div u) * u <= half
    BY <1>5
  <2>6. room \div u \in Nat /\ (room \div u) * u <= room
    BY <1>5
  <2>7. (half \div u) * u <= room
    <3>1. PICK a \in Nat : a = (half \div u) * u
      BY <2>5
    <3>. QED BY <2>3, <2>5, <3>1
  <2>8. 0 * u <= room /\ 0 \in Nat
    OBVIOUS
  <2>. QED BY <2>4, <2>5, <2>6, <2>7, <2>8, Zenon
<1>8. (pad + chars) * Advance * size = pad * u + used
  <2>1. (pad + chars) * Advance * size = (pad + chars) * u
    BY <1>2
  <2>2. (pad + chars) * u = pad * u + chars * u
    OBVIOUS
  <2>. QED BY <1>3, <2>1, <2>2
<1>9. PICK p \in Nat : p = pad * u
  OBVIOUS
<1>. QED BY <1>4, <1>6, <1>7, <1>8, <1>9

\* A line that fits the page, or has one word behind its marker.
Within(line, size, width) ==
  line.chars * Advance * size <= width \/ Len(Last(line.runs).words) <= 1

\* The lines of a text element fit the page, in its size.
LEMMA TextLinesFit ==
  ASSUME NEW e, e.content \in Content, e.size \in Int, NEW width \in Int, width > 0
  PROVE  \A n \in DOMAIN TextLines(e, width) : Within(TextLines(e, width)[n], ResolveSize(e.size), width)
<1>. DEFINE size == ResolveSize(e.size)
            wrapped == WrapText(e.content, width, size)
            lines == TextLines(e, width)
<1>1. size \in Nat \ {0}
  BY DEF ResolveSize
<1>2. wrapped \in Seq(Fitting(width, size))
  <2>. HIDE DEF size
  <2>. QED BY <1>1, TextFits
<1>3. lines = [i \in DOMAIN wrapped |-> TextLine(wrapped[i], AlignPad(Chars(wrapped[i]), e.align, width, size))]
  BY DEF TextLines
<1>. HIDE DEF size, wrapped, lines
<1>4. ASSUME NEW n \in DOMAIN wrapped PROVE Within(lines[n], size, width)
  <2>1. PICK words \in Fitting(width, size) : words = wrapped[n]
    BY <1>2
  <2>2. words \in Words /\ Fits(words, width, size) /\ Chars(words) \in Nat
    BY CharsTyped DEF Fitting
  <2>3. lines[n] = TextLine(words, AlignPad(Chars(words), e.align, width, size))
    BY <1>3, <2>1
  <2>4. /\ lines[n].chars = AlignPad(Chars(words), e.align, width, size) + Chars(words)
        /\ Last(lines[n].runs).words = words
    BY <2>3 DEF TextLine, Last
  <2>5. CASE Chars(words) * Advance * size <= width
    <3>1. (AlignPad(Chars(words), e.align, width, size) + Chars(words)) * Advance * size <= width
      BY <1>1, <2>2, <2>5, PadFits
    <3>. QED BY <2>4, <3>1, Zenon DEF Within
  <2>6. CASE Len(words) <= 1
    BY <2>4, <2>6, Zenon DEF Within
  <2>. QED BY <2>2, <2>5, <2>6 DEF Fits
<1>. QED BY <1>3, <1>4 DEF lines, size

\* The lines of a heading fit the page.
LEMMA HeadingLinesFit ==
  ASSUME NEW e, e.content \in Content, NEW width \in Int, width > 0
  PROVE  \A n \in DOMAIN HeadingLines(e, width) : Within(HeadingLines(e, width)[n], HeadingSize, width)
<1>. DEFINE wrapped == WrapText(e.content, width, HeadingSize)
            lines == HeadingLines(e, width)
<1>2. wrapped \in Seq(Fitting(width, HeadingSize))
  <2>1. HeadingSize \in Nat \ {0}
    BY DEF HeadingSize
  <2>. QED BY <2>1, TextFits
<1>3. lines = [i \in DOMAIN wrapped |-> TextLine(wrapped[i], 0)]
  BY DEF HeadingLines
<1>. HIDE DEF wrapped, lines
<1>4. ASSUME NEW n \in DOMAIN wrapped PROVE Within(lines[n], HeadingSize, width)
  <2>1. PICK words \in Fitting(width, HeadingSize) : words = wrapped[n]
    BY <1>2
  <2>2. words \in Words /\ Fits(words, width, HeadingSize) /\ Chars(words) \in Nat
    BY CharsTyped DEF Fitting
  <2>3. lines[n] = TextLine(words, 0)
    BY <1>3, <2>1
  <2>4. lines[n].chars = Chars(words) /\ Last(lines[n].runs).words = words
    BY <2>2, <2>3 DEF TextLine, Last
  <2>. QED BY <2>2, <2>4, Zenon DEF Within, Fits
<1>. QED BY <1>3, <1>4 DEF lines

\* The lines of a list fit the page, marker and indent included.
LEMMA ListLinesFit ==
  ASSUME NEW e, e.items \in Seq(ToSet(e.items)), NEW width \in Int, width > 0,
         \A item \in ToSet(e.items) : item.content \in Content /\ item.indent \in Nat
  PROVE  \A n \in DOMAIN ListLines(e, width) : Within(ListLines(e, width)[n], 1, width)
<1>. DEFINE T == {line \in Line : Within(line, 1, width)}
            Lined(i) == ItemLines(e.kind, i, e.items[i], width)
<1>1. PICK M \in Nat : DOMAIN e.items = 1..M
  BY SeqIndex, Zenon
<1>2. ASSUME NEW i \in 1..M PROVE Lined(i) \in Seq(T)
  <2>. DEFINE item == e.items[i]
              marker == MarkerChars(e.kind, i)
              hang == item.indent * ListIndentSpaces + marker + 1
              room == Greatest(1, width - hang * Advance)
              wrapped == WrapText(item.content, room, 1)
              lines == Lined(i)
  <2>1. item.content \in Content /\ item.indent \in Nat
    BY <1>1 DEF ToSet
  <2>2. hang \in Nat
    <3>1. MarkerChars(e.kind, i) \in Nat
      BY DEF MarkerChars
    <3>. HIDE DEF item
    <3>. QED BY <2>1, <3>1 DEF ListIndentSpaces
  <2>3. hang * Advance \in Nat
    <3>. HIDE DEF hang
    <3>. QED BY <2>2, FontAssumption
  <2>4. room \in Nat \ {0} /\ (room = 1 \/ room = width - hang * Advance)
    <3>1. PICK h \in Nat : h = hang * Advance
      BY <2>3
    <3>2. Greatest(1, width - h) \in Nat \ {0} /\ Greatest(1, width - h) \in {1, width - h}
      BY DEF Greatest
    <3>. HIDE DEF hang
    <3>. QED BY <3>1, <3>2
  <2>5. wrapped \in Seq(Fitting(room, 1))
    <3>1. room \in Int /\ room > 0
      <4>. HIDE DEF room
      <4>. QED BY <2>4
    <3>. HIDE DEF room, item
    <3>. QED BY <2>1, <3>1, TextFits
  <2>6. lines \in Seq(Line)
    BY <2>1, ItemTyped
  <2>7. /\ DOMAIN lines = DOMAIN wrapped
        /\ \A j \in DOMAIN wrapped : /\ lines[j].chars = hang + Chars(wrapped[j])
                                     /\ Last(lines[j].runs).words = wrapped[j]
    <3>. DEFINE Hanging(words) == [at |-> hang, words |-> words]
                First(words) == <<[at |-> item.indent * ListIndentSpaces, words |-> <<marker>>], Hanging(words)>>
    <3>1. lines = [j \in DOMAIN wrapped |-> [runs |-> IF j = 1 THEN First(wrapped[j]) ELSE <<Hanging(wrapped[j])>>,
                                              chars |-> hang + Chars(wrapped[j])]]
      BY DEF ItemLines
    <3>2. \A words : Last(First(words)).words = words /\ Last(<<Hanging(words)>>).words = words
      <4>. HIDE DEF hang, marker, item
      <4>. QED BY DEF Last
    <3>. HIDE DEF hang, wrapped, lines, First, Hanging
    <3>. QED BY <3>1, <3>2
  <2>. HIDE DEF hang, wrapped, lines, room
  <2>8. ASSUME NEW j \in DOMAIN wrapped PROVE Within(lines[j], 1, width)
    <3>1. PICK words \in Fitting(room, 1) : words = wrapped[j]
      BY <2>5
    <3>2. words \in Words /\ Fits(words, room, 1)
      BY DEF Fitting
    <3>3. PICK c \in Nat : c = Chars(words)
      BY <3>2, CharsTyped
    <3>4. lines[j].chars = hang + c /\ Last(lines[j].runs).words = words
      BY <2>7, <3>1, <3>3
    <3>5. CASE Len(words) <= 1
      BY <3>4, <3>5, Zenon DEF Within
    <3>6. CASE c * Advance * 1 <= room
      <4>1. c * Advance * 1 = c * Advance /\ (hang + c) * Advance * 1 = hang * Advance + c * Advance
        BY <2>2, FontAssumption
      <4>2. PICK a \in Nat, h \in Nat : a = c * Advance /\ h = hang * Advance
        BY <2>2, FontAssumption
      <4>3. CASE room = width - hang * Advance
        <5>1. (hang + c) * Advance * 1 <= width
          BY <3>6, <4>1, <4>2, <4>3
        <5>. QED BY <3>4, <5>1, Zenon DEF Within
      <4>4. CASE room = 1
        <5>1. c * Advance <= 1
          BY <3>6, <4>1, <4>4
        <5>2. c <= 1
          <6>1. PICK d \in Nat : Advance = d + 1
            <7>1. Advance - 1 \in Nat /\ Advance = (Advance - 1) + 1
              BY FontAssumption
            <7>. QED BY <7>1
          <6>2. c * Advance = c * d + c /\ c * d \in Nat
            BY <6>1
          <6>. QED BY <5>1, <6>2
        <5>3. Len(words) <= 1
          BY <3>2, <3>3, <5>2, FewChars
        <5>. QED BY <3>5, <5>3
      <4>. QED BY <2>4, <4>3, <4>4
    <3>. QED BY <3>2, <3>3, <3>5, <3>6 DEF Fits
  <2>9. lines \in Seq(T)
    <3>1. DOMAIN lines = 1..Len(lines) /\ Len(lines) \in Nat /\ lines = [j \in 1..Len(lines) |-> lines[j]]
          /\ \A j \in 1..Len(lines) : lines[j] \in Line
      BY <2>6
    <3>2. \A j \in 1..Len(lines) : lines[j] \in T
      BY <2>7, <2>8, <3>1
    <3>. HIDE DEF T
    <3>. QED BY <3>1, <3>2, IsASeq
  <2>. QED BY <2>9 DEF lines
<1>3. ListLines(e, width) \in Seq(T)
  <2>. DEFINE ss == [i \in DOMAIN e.items |-> Lined(i)]
              U == Seq(T)
  <2>1. ss = [i \in 1..M |-> ss[i]] /\ \A i \in 1..M : ss[i] \in U
    <3>. HIDE DEF Lined, T
    <3>. QED BY <1>1, <1>2
  <2>2. ss \in Seq(U)
    <3>. HIDE DEF ss, U
    <3>. QED BY <2>1, IsASeq
  <2>3. FlattenSeq(ss) \in Seq(T)
    <3>. HIDE DEF ss, T
    <3>. QED BY <2>2, Flattened
  <2>4. ListLines(e, width) = FlattenSeq(ss)
    BY DEF ListLines
  <2>. QED BY <2>3, <2>4, Zenon
<1>4. \A n \in DOMAIN ListLines(e, width) : ListLines(e, width)[n] \in T
  <2>. HIDE DEF T
  <2>. QED BY <1>3
<1>. QED BY <1>4

-----------------------------------------------------------------------------
(***************************************************************************)
(* Cells that fit their columns.                                           *)
(***************************************************************************)

\* The lines that fit a column.
Snug(width) == {words \in Words : Chars(words) * Advance <= width}

\* A sequence of length one has one element.
LEMMA SeqOne == \A T : \A t \in Seq(T) : Len(t) = 1 => t[1] \in T /\ 1 \in DOMAIN t
OBVIOUS

\* Widths are integers that can be summed.
LEMMA Widened == \A m \in Nat : \A s \in [1..m -> Nat] : s \in Seq(Int) /\ Len(s) = m
<1>1. ASSUME NEW m \in Nat, NEW s \in [1..m -> Nat] PROVE s \in Seq(Int) /\ Len(s) = m
  <2>1. s = [k \in 1..m |-> s[k]] /\ \A k \in 1..m : s[k] \in Int
    OBVIOUS
  <2>2. [k \in 1..m |-> s[k]] \in Seq(Int) /\ Len([k \in 1..m |-> s[k]]) = m
    BY <2>1, IsASeq
  <2>. QED BY <2>1, <2>2, Zenon
<1>. QED BY <1>1

\* A quotient is at least what goes into the dividend.
LEMMA Dividing ==
  ASSUME NEW m \in Nat, NEW d \in Nat, NEW b \in Nat \ {0}, m * b <= d
  PROVE  m <= d \div b
<1>1. PICK q \in Nat, r \in 0..(b - 1) : q = d \div b /\ r = d % b /\ d = b * q + r
  <2>1. d \div b \in Nat /\ d % b \in 0..(b - 1) /\ d = b * (d \div b) + (d % b)
    OBVIOUS
  <2>. QED BY <2>1
<1>2. SUFFICES ASSUME ~(m <= q) PROVE FALSE
  BY <1>1
<1>3. PICK e \in Nat : m = (q + 1) + e
  <2>1. m - (q + 1) \in Nat /\ m = (q + 1) + (m - (q + 1))
    BY <1>2
  <2>. QED BY <2>1
<1>4. m * b = b * q + b + e * b /\ e * b \in Nat /\ b * q \in Nat
  BY <1>3
<1>. QED BY <1>1, <1>4

\* A text whose words fit is wrapped to lines that do.
LEMMA TextSnug ==
  ASSUME NEW content \in Content, NEW width \in Nat \ {0}, NEW longest \in Nat, longest * Advance <= width,
         \A w \in ToSet(FlattenSeq(content)) : w <= longest
  PROVE  WrapText(content, width, 1) \in Seq(Snug(width))
<1>. DEFINE wrapped == WrapText(content, width, 1)
<1>1. /\ wrapped \in Seq(Fitting(width, 1))
      /\ wrapped \in Content /\ FlattenSeq(wrapped) = FlattenSeq(content)
  BY TextFits, TextWrapped, TextKept
<1>. HIDE DEF wrapped
<1>2. ASSUME NEW i \in DOMAIN wrapped PROVE wrapped[i] \in Snug(width)
  <2>1. PICK words \in Fitting(width, 1) : words = wrapped[i]
    BY <1>1
  <2>2. words \in Words /\ Fits(words, width, 1) /\ Chars(words) \in Nat
    BY CharsTyped DEF Fitting
  <2>3. PICK c \in Nat : c = Chars(words)
    BY <2>2
  <2>4. CASE c * Advance * 1 <= width
    <3>1. c * Advance * 1 = c * Advance
      BY FontAssumption
    <3>. QED BY <2>1, <2>2, <2>3, <2>4, <3>1 DEF Snug
  <2>5. CASE Len(words) <= 1
    <3>1. c <= longest
      <4>1. CASE words = <<>>
        BY <2>3, <4>1 DEF Chars
      <4>2. CASE words # <<>>
        <5>1. PICK z \in Seq(Nat \ {0}) : z = words
          BY <2>2 DEF Words
        <5>2. Len(words) = 1
          <6>1. Len(z) \in Nat /\ Len(z) # 0
            BY <4>2, <5>1, EmptySeq
          <6>2. PICK m \in Nat : m = Len(z) /\ m # 0
            BY <6>1, Zenon
          <6>3. m <= 1
            BY <2>5, <5>1, <6>2, Zenon
          <6>4. m = 1
            BY <6>2, <6>3
          <6>. QED BY <5>1, <6>2, <6>4, Zenon
        <5>3. words[1] \in Nat /\ 1 \in DOMAIN words
          <6>1. Len(z) = 1
            BY <5>1, <5>2, Zenon
          <6>2. z[1] \in Nat /\ 1 \in DOMAIN z
            <7>1. z[1] \in Nat \ {0} /\ 1 \in DOMAIN z
              BY <6>1, SeqOne, Zenon
            <7>. QED BY <7>1
          <6>. QED BY <5>1, <6>2, Zenon
        <5>4. SumOf(words) = words[1]
          <6>1. words \in Seq(Int)
            BY <2>2 DEF Words
          <6>2. PICK f : SumOf(words) = f[1] /\ f[0] = 0 /\ \A n \in 1..1 : f[n] = f[n - 1] + words[n]
            BY <5>2, <6>1, SumUnfolds, SMTT(30)
          <6>. QED BY <5>3, <6>2
        <5>5. c = words[1]
          BY <2>3, <4>2, <5>2, <5>3, <5>4 DEF Chars
        <5>6. words[1] \in ToSet(words)
          BY <5>3 DEF ToSet
        <5>7. ToSet(wrapped[i]) \subseteq ToSet(FlattenSeq(wrapped))
          BY <1>1, FlattenMember DEF Content
        <5>. QED BY <1>1, <2>1, <5>5, <5>6, <5>7
      <4>. QED BY <4>1, <4>2
    <3>2. c * Advance <= longest * Advance
      <4>1. PICK d \in Nat : longest = c + d
        <5>1. longest - c \in Nat /\ longest = c + (longest - c)
          BY <3>1
        <5>. QED BY <5>1
      <4>2. longest * Advance = c * Advance + d * Advance /\ d * Advance \in Nat /\ c * Advance \in Nat
        BY <4>1, FontAssumption
      <4>. QED BY <4>2
    <3>3. c * Advance \in Nat /\ longest * Advance \in Nat
      BY FontAssumption
    <3>4. c * Advance <= width
      BY <3>2, <3>3
    <3>. QED BY <2>1, <2>2, <2>3, <3>4 DEF Snug
  <2>. QED BY <2>2, <2>3, <2>4, <2>5, Zenon DEF Fits
<1>3. wrapped \in Seq(Snug(width))
  <2>1. wrapped = [i \in 1..Len(wrapped) |-> wrapped[i]] /\ Len(wrapped) \in Nat
        /\ \A i \in 1..Len(wrapped) : wrapped[i] \in Snug(width)
    BY <1>1, <1>2
  <2>. QED BY <2>1, IsASeq
<1>. QED BY <1>3 DEF wrapped

\* Where column k + 1 starts when the cells before it fit, and lines whose cells
\* start there and that are no wider than the page.
Before(widths, k) == SumOf([i \in 1..k |-> Spaces(widths[i], 1) + 1])

Standing(n, widths, width) ==
  {line \in Across(n) : /\ line.chars * Advance <= width
                        /\ \A k \in 1..n : line.runs[k].at = Before(widths, k - 1)}

\* A column starts one gap after the end of the one before it.
LEMMA ColumnsStart ==
  ASSUME NEW n \in Nat, NEW widths \in [1..n -> Nat]
  PROVE  /\ Before(widths, 0) = 0
         /\ \A k \in 1..n : Before(widths, k) = Before(widths, k - 1) + Spaces(widths[k], 1) + 1
         /\ \A k \in 0..n : Before(widths, k) \in Nat
<1>. DEFINE s == [i \in 1..n |-> Spaces(widths[i], 1) + 1]
<1>1. \A i \in 1..n : Spaces(widths[i], 1) \in Nat
  BY Spaced, SMTT(30)
<1>2. s \in [1..n -> Int]
  BY <1>1
<1>3. PICK f : /\ f[0] = 0
               /\ \A k \in 1..n : f[k] = f[k - 1] + s[k]
               /\ \A k \in 0..n : f[k] \in Int /\ SumOf([i \in 1..k |-> s[i]]) = f[k]
  <2>. HIDE DEF s
  <2>. QED BY <1>2, SumPrefixes
<1>4. ASSUME NEW k \in 0..n PROVE Before(widths, k) = f[k]
  <2>1. [i \in 1..k |-> s[i]] = [i \in 1..k |-> Spaces(widths[i], 1) + 1]
    <3>1. \A i \in 1..k : i \in 1..n
      OBVIOUS
    <3>. QED BY <3>1
  <2>2. SumOf([i \in 1..k |-> s[i]]) = f[k]
    <3>. HIDE DEF s
    <3>. QED BY <1>3
  <2>. QED BY <2>1, <2>2, Zenon DEF Before
<1>5. \A k \in 1..n : k \in 0..n /\ k - 1 \in 0..n
  OBVIOUS
<1>6. \A k \in 1..n : f[k - 1] \in Int /\ f[k] = f[k - 1] + Spaces(widths[k], 1) + 1
  <2>1. \A k \in 1..n : s[k] = Spaces(widths[k], 1) + 1
    OBVIOUS
  <2>. HIDE DEF s
  <2>2. ASSUME NEW k \in 1..n PROVE f[k - 1] \in Int /\ f[k] = f[k - 1] + Spaces(widths[k], 1) + 1
    <3>1. PICK a \in Nat : a = Spaces(widths[k], 1)
      BY <1>1
    <3>2. PICK b \in Int : b = f[k - 1]
      BY <1>3, <1>5
    <3>3. f[k] = b + (a + 1)
      BY <1>3, <2>1, <3>1, <3>2, Zenon
    <3>4. b + (a + 1) = b + a + 1
      OBVIOUS
    <3>. QED BY <3>1, <3>2, <3>3, <3>4, Zenon
  <2>. QED BY <2>2
<1>. DEFINE T == Nat
<1>7. f[0] \in T /\ \A k \in 1..n : f[k - 1] \in T => f[k] \in T
  BY <1>1, <1>3, <1>6
<1>8. \A k \in 0..n : f[k] \in T
  <2>. HIDE DEF T
  <2>. QED BY <1>7, RecursionTyped
<1>9. 0 \in 0..n
  OBVIOUS
<1>. QED BY <1>3, <1>4, <1>5, <1>6, <1>8, <1>9

\* Cells whose lines fit their columns stand at the columns' starts.
LEMMA CellsStand ==
  ASSUME NEW n \in Nat \ {0}, NEW cells \in Seq(Seq(Words)), n = Len(cells),
         NEW widths \in [1..n -> Nat], NEW width \in Int,
         \A i \in 1..n : cells[i] \in Seq(Snug(widths[i])),
         SumOf(widths) + (n - 1) * Advance <= width
  PROVE  ComposeCells(cells, widths) \in Seq(Standing(n, widths, width))
<1>. DEFINE lines == ComposeCells(cells, widths)
<1>1. /\ lines \in Seq(Across(n)) /\ Len(lines) = Tallest(cells) /\ Tallest(cells) \in Nat
      /\ \A j \in 1..Tallest(cells) : \E f : Composing(cells, widths, j, f) /\ lines[j] = f[n]
  <2>1. widths \in [1..Len(cells) -> Int] /\ n \in Nat
    OBVIOUS
  <2>2. lines \in Seq(Across(n))
    BY <2>1, CellsRead
  <2>. QED BY <2>1, <2>2, CellsUnfold
<1>2. PICK H \in Nat : H = Tallest(cells)
  BY <1>1
<1>3. PICK g : /\ SumOf(widths) = g[n]
               /\ g[0] = 0
               /\ \A k \in 1..n : g[k] = g[k - 1] + widths[k]
               /\ \A k \in 0..n : g[k] \in Int
  <2>1. n \in Nat
    OBVIOUS
  <2>2. widths \in Seq(Int) /\ Len(widths) = n
    BY <2>1, Widened, Zenon
  <2>. QED BY <2>2, SumUnfolds, Zenon
<1>4. \A k \in 1..n : /\ k \in 0..n /\ k - 1 \in 0..n
                      /\ Spaces(widths[k], 1) \in Nat
                      /\ Spaces(widths[k], 1) * Advance <= widths[k]
  <2>. SUFFICES ASSUME NEW k \in 1..n
                PROVE  /\ k \in 0..n /\ k - 1 \in 0..n
                       /\ Spaces(widths[k], 1) \in Nat
                       /\ Spaces(widths[k], 1) * Advance <= widths[k]
    OBVIOUS
  <2>1. PICK d \in Nat : d = widths[k]
    OBVIOUS
  <2>2. Spaces(d, 1) = d \div Advance /\ d \div Advance \in Nat
    <3>1. Advance * 1 = Advance
      BY FontAssumption
    <3>. QED BY <3>1, FontAssumption, Quotients, Zenon DEF Spaces
  <2>3. d = Advance * (d \div Advance) + (d % Advance) /\ d % Advance \in 0..(Advance - 1)
    BY FontAssumption
  <2>4. PICK q \in Nat, r \in Nat : q = d \div Advance /\ r = d % Advance
    BY <2>2, <2>3, FontAssumption
  <2>5. Advance * q = q * Advance /\ q * Advance \in Nat /\ d = Advance * q + r
    BY <2>3, <2>4, FontAssumption
  <2>6. q * Advance <= d
    BY <2>5
  <2>7. k \in 0..n /\ k - 1 \in 0..n
    OBVIOUS
  <2>. QED BY <2>1, <2>2, <2>4, <2>6, <2>7
<1>5. ASSUME NEW k \in 1..n, NEW j \in 1..H
      PROVE  CellAt(cells, k, j) \in Words /\ Chars(CellAt(cells, k, j)) * Advance <= widths[k]
  <2>1. PICK T : T = Snug(widths[k])
    OBVIOUS
  <2>2. cells[k] \in Seq(T)
    BY <2>1
  <2>3. PICK cell \in Seq(T) : cell = cells[k]
    BY <2>2
  <2>4. j <= Len(cell) => cell[j] \in T
    OBVIOUS
  <2>5. <<>> \in Words /\ Chars(<<>>) * Advance <= widths[k]
    <3>1. Chars(<<>>) = 0 /\ <<>> \in Words
      BY EmptySeq DEF Chars, Words
    <3>2. 0 * Advance <= widths[k]
      BY FontAssumption
    <3>. QED BY <3>1, <3>2, Zenon
  <2>6. \A words \in T : words \in Words /\ Chars(words) * Advance <= widths[k]
    BY <2>1 DEF Snug
  <2>. QED BY <2>3, <2>4, <2>5, <2>6, Zenon DEF CellAt
<1>. HIDE DEF lines
<1>6. ASSUME NEW j \in 1..H PROVE lines[j] \in Standing(n, widths, width)
  <2>1. PICK f : Composing(cells, widths, j, f) /\ lines[j] = f[n]
    BY <1>1, <1>2
  <2>. DEFINE c(k) == Chars(CellAt(cells, k, j))
  <2>2. /\ f[0].chars = 0
        /\ \A k \in 1..n : f[k] = Added(cells, widths, f[k - 1], k, j)
    <3>1. f[0] = [runs |-> <<>>, chars |-> 0] /\ \A k \in 1..n : f[k] = Added(cells, widths, f[k - 1], k, j)
      BY <2>1, Zenon DEF Composing
    <3>. QED BY <3>1
  <2>3. \A k \in 1..n : c(k) \in Nat /\ c(k) * Advance <= widths[k]
    BY <1>5, CharsTyped
  <2>4. ASSUME NEW k \in 1..n, k # n PROVE f[k].chars = f[k - 1].chars + (Spaces(widths[k], 1) + 1)
    <3>1. Added(cells, widths, f[k - 1], k, j).chars = f[k - 1].chars + (PadToWidth(c(k), widths[k]) + 1)
      BY <2>4 DEF Added
    <3>2. PadToWidth(c(k), widths[k]) = Spaces(widths[k], 1)
      <4>1. PICK m \in Nat, d \in Nat : m = c(k) /\ d = widths[k] /\ m * Advance <= d
        BY <2>3
      <4>2. m <= d \div Advance
        BY <4>1, FontAssumption, Dividing
      <4>3. Spaces(d, 1) = d \div Advance
        BY FontAssumption DEF Spaces
      <4>4. PadToWidth(m, d) = Greatest(m, d \div Advance)
        BY <4>3, Zenon DEF PadToWidth
      <4>5. d \div Advance \in Nat
        BY FontAssumption, Quotients
      <4>6. Greatest(m, d \div Advance) = d \div Advance
        BY <4>2, <4>5 DEF Greatest
      <4>. QED BY <4>1, <4>3, <4>4, <4>6, Zenon
    <3>. QED BY <2>2, <3>1, <3>2, Zenon
  <2>. DEFINE U == {k \in 0..n : /\ k < n => f[k].chars = Before(widths, k)
                                 /\ Before(widths, k) * Advance <= g[k] + k * Advance}
  <2>5. 0 \in U
    <3>1. Before(widths, 0) = 0
      BY ColumnsStart
    <3>2. 0 * Advance <= 0 + 0 * Advance
      BY FontAssumption
    <3>. QED BY <1>3, <2>2, <3>1, <3>2
  <2>6. ASSUME NEW k \in 1..n, k - 1 \in U PROVE k \in U
    <3>1. Before(widths, k) = Before(widths, k - 1) + Spaces(widths[k], 1) + 1
      BY ColumnsStart
    <3>2. PICK a \in Nat, s \in Nat, b \in Int, w \in Nat :
            a = Before(widths, k - 1) /\ s = Spaces(widths[k], 1) /\ b = g[k - 1] /\ w = widths[k]
      BY <1>3, <1>4, ColumnsStart
    <3>3. Before(widths, k) = a + s + 1 /\ g[k] = b + w /\ a * Advance <= b + (k - 1) * Advance /\ s * Advance <= w
      BY <1>3, <1>4, <2>6, <3>1, <3>2
    <3>4. (a + s + 1) * Advance <= (b + w) + k * Advance
      <4>1. /\ (a + s + 1) * Advance = a * Advance + s * Advance + Advance
            /\ k * Advance = (k - 1) * Advance + Advance
            /\ {a * Advance, s * Advance, (k - 1) * Advance, k * Advance} \subseteq Int
        BY FontAssumption
      <4>. QED BY <3>3, <4>1, FontAssumption
    <3>5. k < n => f[k].chars = Before(widths, k)
      <4>1. ASSUME k < n PROVE f[k].chars = Before(widths, k)
        <5>1. k - 1 < n /\ k # n
          BY <4>1
        <5>2. f[k - 1].chars = a
          BY <2>6, <3>2, <5>1
        <5>3. f[k].chars = a + (s + 1)
          BY <2>4, <3>2, <5>1, <5>2
        <5>. QED BY <3>3, <5>3
      <4>. QED BY <4>1
    <3>. QED BY <1>4, <3>3, <3>4, <3>5
  <2>7. 0..n \subseteq U
    <3>. HIDE DEF U
    <3>. QED BY <2>5, <2>6, BoundedInduction
  <2>8. ASSUME NEW k \in 1..n PROVE lines[j].runs[k].at = Before(widths, k - 1)
    <3>1. f[Len(cells)].runs[k] = [at |-> f[k - 1].chars, words |-> CellAt(cells, k, j)]
      BY <2>1, CellRuns
    <3>2. k - 1 \in U /\ k - 1 < n
      <4>1. k - 1 \in 0..n /\ k - 1 < n
        OBVIOUS
      <4>. HIDE DEF U
      <4>. QED BY <2>7, <4>1
    <3>. QED BY <2>1, <3>1, <3>2
  <2>9. lines[j].chars * Advance <= width
    <3>1. n - 1 \in U /\ n - 1 < n /\ n \in 1..n /\ n - 1 \in 0..n
      <4>1. n - 1 \in 0..n /\ n - 1 < n /\ n \in 1..n
        OBVIOUS
      <4>. HIDE DEF U
      <4>. QED BY <2>7, <4>1
    <3>2. PICK a \in Nat, m \in Nat, b \in Int, w \in Nat :
            a = Before(widths, n - 1) /\ m = c(n) /\ b = g[n - 1] /\ w = widths[n]
      BY <1>3, <2>3, <3>1, ColumnsStart
    <3>3. a * Advance <= b + (n - 1) * Advance /\ m * Advance <= w /\ b + w + (n - 1) * Advance <= width
      BY <1>3, <2>3, <3>1, <3>2
    <3>4. lines[j].chars = a + m
      <4>1. Added(cells, widths, f[n - 1], n, j).chars = f[n - 1].chars + c(n)
        BY DEF Added
      <4>2. f[n - 1].chars = a
        BY <3>1, <3>2
      <4>. QED BY <2>1, <2>2, <3>1, <3>2, <4>1, <4>2, Zenon
    <3>5. /\ (a + m) * Advance = a * Advance + m * Advance
          /\ {a * Advance, m * Advance, (n - 1) * Advance} \subseteq Int
      BY FontAssumption
    <3>6. (a + m) * Advance <= width
      BY <3>3, <3>5
    <3>. QED BY <3>4, <3>6, Zenon
  <2>10. lines[j] \in Across(n)
    BY <1>1, <1>2
  <2>. QED BY <2>8, <2>9, <2>10, Zenon DEF Standing
<1>7. lines = [j \in 1..H |-> lines[j]]
  BY <1>1, <1>2
<1>8. PICK T : T = Standing(n, widths, width)
  OBVIOUS
<1>9. [j \in 1..H |-> lines[j]] \in Seq(T)
  BY <1>6, <1>8, IsASeq
<1>. QED BY <1>7, <1>8, <1>9, Zenon DEF lines

\* The columns of a table share the page out, each with its part of it at least.
LEMMA TableWidthsFit ==
  ASSUME NEW n \in Nat \ {0}, NEW width \in Int, NEW m \in Nat \ {0}, m * n <= width - (n - 1) * Advance
  PROVE  /\ TableWidths(n, width) \in [1..n -> Nat]
         /\ \A k \in 1..n : m <= TableWidths(n, width)[k]
         /\ SumOf(TableWidths(n, width)) + (n - 1) * Advance = width
<1>. DEFINE widths == TableWidths(n, width)
<1>1. PICK left \in Nat : left = width - (n - 1) * Advance /\ m * n <= left /\ n <= left
  <2>1. PICK d \in Nat : m = d + 1
    <3>1. m - 1 \in Nat /\ m = (m - 1) + 1
      OBVIOUS
    <3>. QED BY <3>1
  <2>2. m * n = d * n + n /\ d * n \in Nat
    BY <2>1
  <2>3. PICK gaps \in Nat : gaps = (n - 1) * Advance
    BY FontAssumption
  <2>. QED BY <2>2, <2>3
<1>2. Budget(n, width) = left
  BY <1>1, FontAssumption DEF Budget, Greatest
<1>3. PICK share \in Nat, rest \in Nat : share = left \div n /\ rest = left % n /\ left = n * share + rest
  <2>1. left \div n \in Nat /\ left % n \in Nat /\ left = n * (left \div n) + (left % n)
    OBVIOUS
  <2>. QED BY <2>1
<1>4. m <= share
  BY <1>1, <1>3, Dividing
<1>5. widths = [i \in 1..n |-> IF i = n THEN share + rest ELSE share]
  BY <1>2, <1>3 DEF TableWidths
<1>. HIDE DEF widths
<1>6. widths \in [1..n -> Nat] /\ \A k \in 1..n : m <= widths[k]
  BY <1>4, <1>5
<1>7. PICK g : /\ SumOf(widths) = g[n]
               /\ g[0] = 0
               /\ \A k \in 1..n : g[k] = g[k - 1] + widths[k]
               /\ \A k \in 0..n : g[k] \in Int
  <2>1. n \in Nat
    OBVIOUS
  <2>2. widths \in Seq(Int) /\ Len(widths) = n
    BY <1>6, <2>1, Widened, Zenon
  <2>. QED BY <2>2, SumUnfolds, Zenon
<1>. DEFINE U == {k \in 0..n : k < n => g[k] = k * share}
<1>8. 0 \in U
  BY <1>7
<1>9. ASSUME NEW k \in 1..n, k - 1 \in U PROVE k \in U
  <2>1. ASSUME k < n PROVE g[k] = k * share
    <3>1. k - 1 < n /\ k # n
      BY <2>1
    <3>2. g[k - 1] = (k - 1) * share /\ g[k] = g[k - 1] + share
      BY <1>5, <1>7, <1>9, <3>1
    <3>3. (k - 1) * share + share = k * share
      OBVIOUS
    <3>. QED BY <3>2, <3>3
  <2>. QED BY <2>1
<1>10. 0..n \subseteq U
  <2>. HIDE DEF U
  <2>. QED BY <1>8, <1>9, BoundedInduction
<1>11. g[n] = left
  <2>1. n - 1 \in U /\ n - 1 < n /\ n \in 1..n
    <3>1. n - 1 \in 0..n /\ n - 1 < n /\ n \in 1..n
      OBVIOUS
    <3>. HIDE DEF U
    <3>. QED BY <1>10, <3>1
  <2>2. g[n] = (n - 1) * share + (share + rest)
    BY <1>5, <1>7, <2>1
  <2>3. (n - 1) * share + (share + rest) = n * share + rest
    OBVIOUS
  <2>. QED BY <1>3, <2>2, <2>3
<1>12. SumOf(widths) + (n - 1) * Advance = width
  <2>1. PICK gaps \in Int : gaps = (n - 1) * Advance
    BY FontAssumption
  <2>. QED BY <1>1, <1>7, <1>11, <2>1
<1>. QED BY <1>6, <1>12 DEF widths

\* The dots a column of words no longer than longest needs.
Need(longest) == Greatest(1, longest * Advance)

\* What a word needs is a positive width, and wide enough for it.
LEMMA Needed == \A longest \in Nat : Need(longest) \in Nat \ {0} /\ longest * Advance <= Need(longest)
<1>1. ASSUME NEW longest \in Nat PROVE Need(longest) \in Nat \ {0} /\ longest * Advance <= Need(longest)
  <2>1. PICK a \in Nat : a = longest * Advance
    BY FontAssumption
  <2>. QED BY <2>1 DEF Need, Greatest
<1>. QED BY <1>1

\* A row whose words fit their columns.
LEMMA RowStands ==
  ASSUME NEW row \in Seq(Content), NEW width \in Int, NEW n \in Nat \ {0}, n = Len(row), NEW longest \in Nat,
         width > 0, Need(longest) * n <= width - (n - 1) * Advance,
         \A k \in 1..n : \A w \in ToSet(FlattenSeq(row[k])) : w <= longest
  PROVE  TableRow(row, width) \in Seq(Standing(n, TableWidths(n, width), width))
<1>. DEFINE widths == TableWidths(n, width)
            cells == [i \in DOMAIN row |-> WrapText(row[i], widths[i], 1)]
<1>1. DOMAIN row = 1..n /\ \A i \in 1..n : row[i] \in Content
  OBVIOUS
<1>2. Need(longest) \in Nat \ {0} /\ longest * Advance <= Need(longest) /\ longest * Advance \in Nat
  BY Needed, FontAssumption
<1>3. /\ widths \in [1..n -> Nat]
      /\ \A k \in 1..n : Need(longest) <= widths[k]
      /\ SumOf(widths) + (n - 1) * Advance = width
  BY <1>2, TableWidthsFit
<1>. HIDE DEF widths
<1>4. ASSUME NEW i \in 1..n PROVE cells[i] \in Seq(Snug(widths[i]))
  <2>1. PICK d \in Nat : d = widths[i] /\ Need(longest) <= d
    BY <1>3
  <2>2. d \in Nat \ {0} /\ longest * Advance <= d
    BY <1>2, <2>1
  <2>3. WrapText(row[i], d, 1) \in Seq(Snug(d))
    BY <1>1, <2>2, TextSnug
  <2>. QED BY <1>1, <2>1, <2>3
<1>5. cells \in Seq(Seq(Words)) /\ Len(cells) = n
  <2>1. cells = [i \in 1..n |-> cells[i]] /\ n \in Nat
    BY <1>1
  <2>2. \A d : Seq(Snug(d)) \subseteq Seq(Words)
    BY SeqMonotonic, Zenon DEF Snug
  <2>3. \A i \in 1..n : cells[i] \in Seq(Words)
    BY <1>4, <2>2
  <2>. HIDE DEF cells
  <2>. QED BY <2>1, <2>3, IsASeq
<1>6. SumOf(widths) + (n - 1) * Advance <= width
  BY <1>3
<1>. HIDE DEF cells
<1>7. ComposeCells(cells, widths) \in Seq(Standing(n, widths, width))
  BY <1>3, <1>4, <1>5, <1>6, CellsStand
<1>8. TableRow(row, width) = ComposeCells(cells, widths)
  BY DEF TableRow, cells, widths
<1>. QED BY <1>7, <1>8 DEF widths

\* A sequence with one element put in front.
LEMMA HeadFirst ==
  ASSUME NEW V, NEW x \in V, NEW t \in Seq(V), NEW M \in Nat, M = Len(t)
  PROVE  /\ DOMAIN (<<x>> \o t) = 1..(M + 1) /\ (<<x>> \o t)[1] = x
         /\ \A r \in 1..M : (<<x>> \o t)[r + 1] = t[r]
         /\ \A i \in 1..(M + 1) : (<<x>> \o t)[i] \in V
OBVIOUS

\* A table whose words fit their columns.
LEMMA TableStands ==
  ASSUME NEW e, e.headers \in Seq(Content), e.rows \in Seq(Seq(Content)),
         \A r \in DOMAIN e.rows : Len(e.rows[r]) = Len(e.headers),
         NEW n \in Nat \ {0}, n = Len(e.headers), NEW width \in Int, width > 0, NEW longest \in Nat,
         Need(longest) * n <= width - (n - 1) * Advance,
         \A k \in 1..n :
           \A w \in ToSet(FlattenSeq(e.headers[k]) \o FlattenSeq([r \in DOMAIN e.rows |-> FlattenSeq(e.rows[r][k])])) :
             w <= longest
  PROVE  TableLines(e, width) \in Seq(Standing(n, TableWidths(n, width), width))
<1>. DEFINE S == Nat \ {0}
            rows == <<e.headers>> \o e.rows
            ss == [i \in DOMAIN rows |-> TableRow(rows[i], width)]
            T == Standing(n, TableWidths(n, width), width)
            below(k) == [r \in DOMAIN e.rows |-> FlattenSeq(e.rows[r][k])]
<1>1. PICK M \in Nat : M = Len(e.rows) /\ DOMAIN e.rows = 1..M
  BY SeqIndex, Zenon
<1>2. /\ DOMAIN rows = 1..(M + 1) /\ rows[1] = e.headers /\ \A r \in 1..M : rows[r + 1] = e.rows[r]
      /\ \A i \in 1..(M + 1) : rows[i] \in Seq(Content)
  <2>1. PICK V : V = Seq(Content)
    OBVIOUS
  <2>2. PICK x \in V, t \in Seq(V) : x = e.headers /\ t = e.rows
    BY <2>1, Zenon
  <2>3. M = Len(t)
    BY <1>1, <2>2, Zenon
  <2>4. /\ DOMAIN (<<x>> \o t) = 1..(M + 1) /\ (<<x>> \o t)[1] = x
        /\ \A r \in 1..M : (<<x>> \o t)[r + 1] = t[r]
        /\ \A i \in 1..(M + 1) : (<<x>> \o t)[i] \in V
    BY <2>3, HeadFirst
  <2>. QED BY <2>1, <2>2, <2>4, Zenon
<1>. HIDE DEF rows
<1>3. \A i \in 1..(M + 1) : i = 1 \/ \E r \in 1..M : i = r + 1
  <2>1. ASSUME NEW i \in 1..(M + 1), i # 1 PROVE \E r \in 1..M : i = r + 1
    <3>1. i - 1 \in 1..M /\ i = (i - 1) + 1
      BY <2>1
    <3>. QED BY <3>1
  <2>. QED BY <2>1
<1>4. \A i \in 1..(M + 1) : Len(rows[i]) = n
  <2>1. \A r \in 1..M : Len(e.rows[r]) = n
    BY <1>1, Zenon
  <2>2. ASSUME NEW i \in 1..(M + 1) PROVE Len(rows[i]) = n
    <3>1. CASE i = 1
      BY <1>2, <3>1
    <3>2. CASE i # 1
      <4>1. PICK r \in 1..M : i = r + 1
        BY <1>3, <3>2
      <4>2. rows[i] = e.rows[r]
        BY <1>2, <4>1, Zenon
      <4>. QED BY <2>1, <4>2, Zenon
    <3>. QED BY <3>1, <3>2
  <2>. QED BY <2>2
<1>5. ASSUME NEW k \in 1..n
      PROVE  /\ \A w \in ToSet(FlattenSeq(e.headers[k])) : w <= longest
             /\ \A r \in 1..M : \A w \in ToSet(FlattenSeq(e.rows[r][k])) : w <= longest
  <2>1. \A i \in 1..(M + 1) : FlattenSeq(rows[i][k]) \in Seq(S)
    <3>1. ASSUME NEW i \in 1..(M + 1) PROVE rows[i][k] \in Content
      <4>1. PICK row \in Seq(Content) : row = rows[i]
        BY <1>2
      <4>2. Len(row) = n
        BY <1>4, <4>1
      <4>3. row[k] \in Content
        BY <4>2, SeqFunction
      <4>. QED BY <4>1, <4>3
    <3>2. PICK V : V = Seq(S)
      OBVIOUS
    <3>3. \A c \in Content : FlattenSeq(c) \in Seq(S)
      BY Flattened DEF Content
    <3>. QED BY <3>1, <3>3, Zenon
  <2>2. PICK head \in Seq(S) : head = FlattenSeq(e.headers[k])
    <3>1. 1 \in 1..(M + 1)
      OBVIOUS
    <3>. QED BY <1>2, <2>1, <3>1, Zenon
  <2>3. \A r \in 1..M : FlattenSeq(e.rows[r][k]) \in Seq(S)
    <3>1. \A r \in 1..M : r + 1 \in 1..(M + 1)
      OBVIOUS
    <3>. QED BY <1>2, <2>1, <3>1, Zenon
  <2>4. PICK b \in Seq(Seq(S)) : b = below(k)
    <3>1. PICK V : V = Seq(S)
      OBVIOUS
    <3>2. below(k) = [r \in 1..M |-> FlattenSeq(e.rows[r][k])]
      BY <1>1
    <3>3. PICK g : g = [r \in 1..M |-> FlattenSeq(e.rows[r][k])]
      OBVIOUS
    <3>4. g = [r \in 1..M |-> g[r]] /\ \A r \in 1..M : g[r] \in V
      BY <2>3, <3>1, <3>3
    <3>5. g \in Seq(V)
      BY <3>4, Listed, Zenon
    <3>. QED BY <3>1, <3>2, <3>3, <3>5, Zenon
  <2>5. PICK tail \in Seq(S) : tail = FlattenSeq(b)
    BY Flattened
  <2>6. ToSet(head \o tail) = ToSet(head) \cup ToSet(tail)
    BY ConcatSays
  <2>7. \A w \in ToSet(head \o tail) : w <= longest
    BY <2>2, <2>4, <2>5, Zenon
  <2>8. \A r \in DOMAIN b : ToSet(b[r]) \subseteq ToSet(tail)
    BY <2>5, FlattenMember
  <2>9. DOMAIN b = 1..M /\ \A r \in 1..M : b[r] = FlattenSeq(e.rows[r][k])
    BY <1>1, <2>4
  <2>. QED BY <2>2, <2>6, <2>7, <2>8, <2>9, Zenon
<1>6. ASSUME NEW i \in 1..(M + 1) PROVE TableRow(rows[i], width) \in Seq(T)
  <2>1. \A k \in 1..n : \A w \in ToSet(FlattenSeq(rows[i][k])) : w <= longest
    <3>1. CASE i = 1
      BY <1>2, <1>5, <3>1, Zenon
    <3>2. CASE \E r \in 1..M : i = r + 1
      <4>1. PICK r \in 1..M : i = r + 1
        BY <3>2
      <4>2. rows[i] = e.rows[r]
        BY <1>2, <4>1, Zenon
      <4>. QED BY <1>5, <4>2, Zenon
    <3>. QED BY <1>3, <3>1, <3>2, Zenon
  <2>. HIDE DEF T
  <2>2. rows[i] \in Seq(Content) /\ Len(rows[i]) = n
    BY <1>2, <1>4
  <2>. QED BY <2>1, <2>2, RowStands DEF T
<1>7. ss \in Seq(Seq(T))
  <2>1. ss = [i \in 1..(M + 1) |-> ss[i]] /\ M + 1 \in Nat /\ \A i \in 1..(M + 1) : ss[i] = TableRow(rows[i], width)
    BY <1>2
  <2>. HIDE DEF ss, T
  <2>2. PICK V : V = Seq(T)
    OBVIOUS
  <2>3. \A i \in 1..(M + 1) : ss[i] \in V
    BY <1>6, <2>1, <2>2, Zenon
  <2>4. [i \in 1..(M + 1) |-> ss[i]] \in Seq(V)
    BY <2>1, <2>3, IsASeq
  <2>. QED BY <2>1, <2>2, <2>4, Zenon
<1>8. FlattenSeq(ss) \in Seq(T)
  <2>. HIDE DEF ss, T
  <2>. QED BY <1>7, Flattened
<1>9. TableLines(e, width) = FlattenSeq(ss)
  BY DEF TableLines, rows
<1>. QED BY <1>8, <1>9, Zenon

\* What integer division leaves.
LEMMA Division ==
  \A a \in Nat, b \in Nat \ {0} :
    a \div b \in Nat /\ a % b \in Nat /\ a = b * (a \div b) + (a % b)
OBVIOUS

\* Weighted columns share the page out, each with its part of it at least.
LEMMA ColumnWidthsFit ==
  ASSUME NEW cols, NEW n \in Nat \ {0}, n = Len(cols),
         \A i \in 1..n : cols[i].weight \in Int, NEW width \in Int, width > 0, NEW m \in Nat \ {0},
         n <= width - (n - 1) * Advance,
         \A i \in 1..n : m * SumOf([k \in 1..n |-> ResolveSize(cols[k].weight)])
                           <= (width - (n - 1) * Advance) * ResolveSize(cols[i].weight)
  PROVE  /\ ColumnWidths(cols, width) \in [1..n -> Nat]
         /\ \A i \in 1..n : m <= ColumnWidths(cols, width)[i]
         /\ SumOf(ColumnWidths(cols, width)) + (n - 1) * Advance = width
<1>. DEFINE weights == [i \in 1..n |-> ResolveSize(cols[i].weight)]
            share == [i \in 1..n |-> (Budget(n, width) * weights[i]) \div SumOf(weights)]
            widths == ColumnWidths(cols, width)
<1>1. PICK left \in Nat : left = width - (n - 1) * Advance /\ n <= left
  <2>1. PICK gaps \in Nat : gaps = (n - 1) * Advance
    BY FontAssumption
  <2>. QED BY <2>1
<1>2. Budget(n, width) = left
  <2>1. Budget(n, width) = Greatest(n, left)
    BY <1>1, Zenon DEF Budget
  <2>2. Greatest(n, left) = left
    BY <1>1 DEF Greatest
  <2>. QED BY <2>1, <2>2, Zenon
<1>3. PICK u \in [1..n -> Nat \ {0}] : u = weights
  <2>1. \A w \in Int : ResolveSize(w) \in Nat \ {0}
    BY DEF ResolveSize
  <2>2. \A i \in 1..n : ResolveSize(cols[i].weight) \in Nat \ {0}
    BY <2>1, Zenon
  <2>. QED BY <2>2
<1>4. u \in Seq(Int) /\ Len(u) = n /\ u \in Seq(Nat \ {0}) /\ u # <<>>
  <2>1. n \in Nat /\ u \in [1..n -> Nat]
    OBVIOUS
  <2>2. u \in Seq(Int) /\ Len(u) = n
    BY <2>1, Widened, Zenon
  <2>3. u = [i \in 1..n |-> u[i]] /\ \A i \in 1..n : u[i] \in Nat \ {0}
    OBVIOUS
  <2>4. u \in Seq(Nat \ {0})
    BY <2>3, IsASeq
  <2>5. Len(<<>>) = 0
    BY EmptySeq
  <2>. QED BY <2>2, <2>4, <2>5
<1>5. PICK sum \in Nat \ {0} : sum = SumOf(u)
  BY <1>4, SumTyped
<1>6. share = [i \in 1..n |-> (left * u[i]) \div sum] /\ \A i \in 1..n : m * sum <= left * u[i]
  <2>1. share = [i \in 1..n |-> (left * u[i]) \div sum]
    BY <1>2, <1>3, <1>5, Zenon
  <2>2. \A i \in 1..n : m * SumOf(weights) <= left * u[i]
    BY <1>1, <1>3
  <2>. QED BY <1>3, <1>5, <2>1, <2>2
<1>7. widths = [share EXCEPT ![n] = share[n] + left - SumOf(share)]
  BY <1>2 DEF ColumnWidths
<1>. HIDE DEF weights, share, widths
<1>8. ASSUME NEW i \in 1..n PROVE share[i] \in Nat /\ m <= share[i] /\ sum * share[i] <= left * u[i]
  <2>1. PICK a \in Nat : a = left * u[i] /\ m * sum <= a
    BY <1>6
  <2>2. share[i] = a \div sum
    BY <1>6, <2>1
  <2>3. m <= a \div sum
    BY <2>1, Dividing
  <2>4. PICK q \in Nat, r \in Nat : q = a \div sum /\ r = a % sum /\ a = sum * q + r
    <3>1. a \in Nat /\ sum \in Nat \ {0}
      BY <1>5, <2>1, Zenon
    <3>2. a \div sum \in Nat /\ a % sum \in Nat /\ a = sum * (a \div sum) + (a % sum)
      BY <3>1, Division
    <3>. QED BY <3>2, Zenon
  <2>5. sum * q <= a
    BY <2>4
  <2>. QED BY <2>1, <2>2, <2>3, <2>4, <2>5
<1>9. share \in [1..n -> Nat]
  BY <1>6, <1>8
<1>10. PICK f : /\ sum = f[n]
                /\ f[0] = 0
                /\ \A k \in 1..n : f[k] = f[k - 1] + u[k]
                /\ \A k \in 0..n : f[k] \in Int
  BY <1>4, <1>5, SumUnfolds, Zenon
<1>11. PICK g : /\ SumOf(share) = g[n]
                /\ g[0] = 0
                /\ \A k \in 1..n : g[k] = g[k - 1] + share[k]
                /\ \A k \in 0..n : g[k] \in Int
  <2>1. n \in Nat
    OBVIOUS
  <2>2. share \in Seq(Int) /\ Len(share) = n
    BY <1>9, <2>1, Widened, Zenon
  <2>. QED BY <2>2, SumUnfolds, Zenon
<1>12. SumOf(share) \in Int /\ SumOf(share) <= left
  <2>. DEFINE U == {k \in 0..n : sum * g[k] <= left * f[k]}
  <2>1. 0 \in U
    BY <1>10, <1>11
  <2>2. ASSUME NEW k \in 1..n, k - 1 \in U PROVE k \in U
    <3>1. k - 1 \in 0..n /\ k \in 0..n
      OBVIOUS
    <3>2. PICK a \in Int, b \in Int, s \in Nat, w \in Nat : a = g[k - 1] /\ b = f[k - 1] /\ s = share[k] /\ w = u[k]
      BY <1>9, <1>10, <1>11, <3>1
    <3>3. g[k] = a + s /\ f[k] = b + w /\ sum * a <= left * b /\ sum * s <= left * w
      BY <1>8, <1>10, <1>11, <2>2, <3>2
    <3>4. /\ sum * (a + s) = sum * a + sum * s
          /\ left * (b + w) = left * b + left * w
          /\ {sum * a, sum * s, left * b, left * w} \subseteq Int
      OBVIOUS
    <3>5. sum * (a + s) <= left * (b + w)
      BY <3>3, <3>4
    <3>. QED BY <3>1, <3>3, <3>5
  <2>3. 0..n \subseteq U
    <3>. HIDE DEF U
    <3>. QED BY <2>1, <2>2, BoundedInduction
  <2>4. n \in U /\ n \in 0..n
    <3>1. n \in 0..n
      OBVIOUS
    <3>. HIDE DEF U
    <3>. QED BY <2>3, <3>1
  <2>5. PICK all \in Int : all = g[n] /\ sum * all <= left * sum
    BY <1>10, <1>11, <2>4
  <2>6. ~(all > left)
    <3>. SUFFICES ASSUME all > left PROVE FALSE
      OBVIOUS
    <3>1. PICK d \in Nat : all = (left + 1) + d
      <4>1. all - (left + 1) \in Nat /\ all = (left + 1) + (all - (left + 1))
        OBVIOUS
      <4>. QED BY <4>1
    <3>2. sum * all = left * sum + sum + sum * d /\ sum * d \in Nat /\ left * sum \in Nat
      BY <3>1
    <3>. QED BY <2>5, <3>2
  <2>. QED BY <1>11, <2>5, <2>6
<1>13. PICK rest \in Nat : rest = left - SumOf(share)
  BY <1>12
<1>14. /\ widths \in [1..n -> Nat]
       /\ \A i \in 1..n : widths[i] = IF i = n THEN share[i] + rest ELSE share[i]
  <2>1. share[n] + left - SumOf(share) = share[n] + rest /\ share[n] + rest \in Nat
    BY <1>9, <1>12, <1>13
  <2>2. widths = [share EXCEPT ![n] = share[n] + rest]
    BY <1>7, <2>1
  <2>. QED BY <1>9, <2>1, <2>2
<1>15. \A i \in 1..n : m <= widths[i]
  BY <1>8, <1>14
<1>16. PICK h : /\ SumOf(widths) = h[n]
                /\ h[0] = 0
                /\ \A k \in 1..n : h[k] = h[k - 1] + widths[k]
                /\ \A k \in 0..n : h[k] \in Int
  <2>1. n \in Nat
    OBVIOUS
  <2>2. widths \in Seq(Int) /\ Len(widths) = n
    BY <1>14, <2>1, Widened, Zenon
  <2>. QED BY <2>2, SumUnfolds, Zenon
<1>17. h[n] = left
  <2>. DEFINE U == {k \in 0..n : k < n => h[k] = g[k]}
  <2>1. 0 \in U
    BY <1>11, <1>16
  <2>2. ASSUME NEW k \in 1..n, k - 1 \in U PROVE k \in U
    <3>1. ASSUME k < n PROVE h[k] = g[k]
      <4>1. k - 1 < n /\ k # n
        BY <3>1
      <4>. QED BY <1>11, <1>14, <1>16, <2>2, <4>1
    <3>. QED BY <3>1
  <2>3. 0..n \subseteq U
    <3>. HIDE DEF U
    <3>. QED BY <2>1, <2>2, BoundedInduction
  <2>4. n - 1 \in U /\ n - 1 < n /\ n - 1 \in 0..n /\ n \in 1..n
    <3>1. n - 1 \in 0..n /\ n - 1 < n /\ n \in 1..n
      OBVIOUS
    <3>. HIDE DEF U
    <3>. QED BY <2>3, <3>1
  <2>5. PICK a \in Int, s \in Nat : a = g[n - 1] /\ s = share[n]
    BY <1>9, <1>11, <2>4
  <2>6. h[n] = a + (s + rest) /\ SumOf(share) = a + s
    BY <1>11, <1>14, <1>16, <2>4, <2>5
  <2>7. rest = left - (a + s)
    BY <1>13, <2>6, Zenon
  <2>. QED BY <2>5, <2>6, <2>7, SMTT(30)
<1>18. SumOf(widths) + (n - 1) * Advance = width
  <2>1. PICK gaps \in Int : gaps = (n - 1) * Advance
    BY FontAssumption
  <2>. QED BY <1>1, <1>16, <1>17, <2>1
<1>. QED BY <1>14, <1>15, <1>18 DEF widths

\* Columns whose words fit them.
LEMMA ColumnsStand ==
  ASSUME NEW e, NEW width \in Int, width > 0,
         e.columns \in Seq(ToSet(e.columns)),
         \A col \in ToSet(e.columns) : col.elements \in Seq(ToSet(col.elements)),
         \A col \in ToSet(e.columns) : \A inner \in ToSet(col.elements) : inner.content \in Content,
         NEW n \in Nat \ {0}, n = Len(e.columns), NEW longest \in Nat,
         ColumnWidths(e.columns, width) \in [1..n -> Nat],
         \A i \in 1..n : Need(longest) <= ColumnWidths(e.columns, width)[i],
         SumOf(ColumnWidths(e.columns, width)) + (n - 1) * Advance = width,
         \A i \in 1..n :
           \A w \in ToSet(FlattenSeq([m \in DOMAIN e.columns[i].elements |-> FlattenSeq(e.columns[i].elements[m].content)])) :
             w <= longest
  PROVE  ColumnsLines(e, width) \in Seq(Standing(n, ColumnWidths(e.columns, width), width))
<1>. DEFINE S == Nat \ {0}
            cols == e.columns
            Laid(i) == [m \in DOMAIN cols[i].elements |->
                          WrapText(cols[i].elements[m].content, ColumnWidths(cols, width)[i], 1)]
            Said(i) == [m \in DOMAIN cols[i].elements |-> FlattenSeq(cols[i].elements[m].content)]
            cells == [i \in DOMAIN cols |-> FlattenSeq(Laid(i))]
<1>1. PICK widths \in [1..n -> Nat] : widths = ColumnWidths(e.columns, width)
  OBVIOUS
<1>2. /\ \A i \in 1..n : Need(longest) <= widths[i]
      /\ SumOf(widths) + (n - 1) * Advance = width
  BY <1>1, Zenon
<1>3. DOMAIN cols = 1..n /\ \A i \in 1..n : cols[i] \in ToSet(cols)
  BY DEF ToSet
<1>4. Need(longest) \in Nat \ {0} /\ longest * Advance <= Need(longest) /\ longest * Advance \in Nat
  <2>1. longest * Advance \in Nat
    BY FontAssumption
  <2>. QED BY <2>1, Needed, Zenon
<1>5. ASSUME NEW i \in 1..n PROVE FlattenSeq(Laid(i)) \in Seq(Snug(widths[i]))
  <2>1. PICK inner : inner = cols[i].elements /\ inner \in Seq(ToSet(inner)) /\ \A x \in ToSet(inner) : x.content \in Content
    BY <1>3, Zenon
  <2>2. PICK M \in Nat : DOMAIN inner = 1..M
    BY <2>1, SeqIndex, Zenon
  <2>3. \A m \in 1..M : inner[m].content \in Content
    BY <2>1, <2>2, Zenon DEF ToSet
  <2>4. PICK d \in Nat \ {0} : d = widths[i] /\ longest * Advance <= d
    <3>1. PICK d \in Nat : d = widths[i] /\ Need(longest) <= d
      BY <1>2
    <3>2. d \in Nat \ {0} /\ longest * Advance <= d
      BY <1>4, <3>1
    <3>. QED BY <3>1, <3>2, Zenon
  <2>5. PICK b \in Seq(Seq(S)) : b = [m \in 1..M |-> FlattenSeq(inner[m].content)]
    <3>1. \A c \in Content : FlattenSeq(c) \in Seq(S)
      BY Flattened DEF Content
    <3>2. PICK T : T = Seq(S)
      OBVIOUS
    <3>3. \A m \in 1..M : FlattenSeq(inner[m].content) \in T
      BY <2>3, <3>1, <3>2, Zenon
    <3>4. [m \in 1..M |-> FlattenSeq(inner[m].content)] \in Seq(T)
      BY <3>3, IsASeq
    <3>. QED BY <3>2, <3>4, Zenon
  <2>6. b = [m \in DOMAIN cols[i].elements |-> FlattenSeq(cols[i].elements[m].content)]
    BY <2>1, <2>2, <2>5, Zenon
  <2>7. \A w \in ToSet(FlattenSeq(b)) : w <= longest
    BY <2>6, Zenon
  <2>8. ASSUME NEW m \in 1..M PROVE WrapText(inner[m].content, d, 1) \in Seq(Snug(d))
    <3>1. m \in DOMAIN b /\ b[m] = FlattenSeq(inner[m].content)
      BY <2>5, Zenon
    <3>2. ToSet(b[m]) \subseteq ToSet(FlattenSeq(b))
      BY <3>1, FlattenMember
    <3>3. \A w \in ToSet(FlattenSeq(inner[m].content)) : w <= longest
      BY <2>7, <3>1, <3>2, Zenon
    <3>4. PICK c \in Content : c = inner[m].content
      BY <2>3
    <3>5. WrapText(c, d, 1) \in Seq(Snug(d))
      BY <2>4, <3>3, <3>4, TextSnug
    <3>. QED BY <3>4, <3>5, Zenon
  <2>9. PICK T : T = Snug(d)
    OBVIOUS
  <2>10. PICK z \in Seq(Seq(T)) : z = [m \in 1..M |-> WrapText(inner[m].content, d, 1)]
    <3>1. PICK V : V = Seq(T)
      OBVIOUS
    <3>2. \A m \in 1..M : WrapText(inner[m].content, d, 1) \in V
      BY <2>8, <2>9, <3>1, Zenon
    <3>3. PICK g : g = [m \in 1..M |-> WrapText(inner[m].content, d, 1)]
      OBVIOUS
    <3>4. g = [m \in 1..M |-> g[m]] /\ \A m \in 1..M : g[m] \in V
      BY <3>2, <3>3
    <3>5. g \in Seq(V)
      BY <3>4, Listed, Zenon
    <3>. QED BY <3>1, <3>3, <3>5, Zenon
  <2>11. FlattenSeq(z) \in Seq(T)
    BY Flattened
  <2>12. Laid(i) = z
    BY <1>1, <2>1, <2>2, <2>4, <2>10, Zenon
  <2>. QED BY <2>4, <2>9, <2>11, <2>12, Zenon
<1>. HIDE DEF Laid
<1>6. /\ cells \in Seq(Seq(Words)) /\ Len(cells) = n
      /\ \A i \in 1..n : cells[i] \in Seq(Snug(widths[i]))
  <2>1. cells = [i \in 1..n |-> FlattenSeq(Laid(i))] /\ n \in Nat
    BY <1>3
  <2>2. \A d : Seq(Snug(d)) \subseteq Seq(Words)
    BY SeqMonotonic, Zenon DEF Snug
  <2>3. \A i \in 1..n : cells[i] \in Seq(Snug(widths[i]))
    BY <1>5, <2>1
  <2>4. PICK T : T = Seq(Words)
    OBVIOUS
  <2>5. \A i \in 1..n : FlattenSeq(Laid(i)) \in T
    BY <1>5, <2>2, <2>4, Zenon
  <2>6. [i \in 1..n |-> FlattenSeq(Laid(i))] \in Seq(T) /\ Len([i \in 1..n |-> FlattenSeq(Laid(i))]) = n
    BY <2>1, <2>5, IsASeq
  <2>. QED BY <2>1, <2>3, <2>4, <2>6, Zenon
<1>7. SumOf(widths) + (n - 1) * Advance <= width
  BY <1>2
<1>. HIDE DEF cells
<1>8. ComposeCells(cells, widths) \in Seq(Standing(n, widths, width))
  BY <1>6, <1>7, CellsStand
<1>9. ColumnsLines(e, width) = ComposeCells(cells, widths)
  <2>1. ColumnsLines(e, width) = ComposeCells(cells, ColumnWidths(e.columns, width))
    BY DEF ColumnsLines, cells, Laid
  <2>. QED BY <1>1, <2>1, Zenon
<1>. QED BY <1>1, <1>8, <1>9, Zenon

\* A bounded set has a maximum.
LEMMA Topmost ==
  ASSUME NEW A \in SUBSET Nat, NEW bound \in Nat, \A a \in A : a <= bound
  PROVE  Max({0} \cup A) \in Nat /\ \A a \in A : a <= Max({0} \cup A)
<1>. DEFINE T == {m \in Nat : \A a \in A : a <= m}
            B == {0} \cup A
<1>1. PICK m \in T : \A k \in T : m <= k
  <2>1. bound \in T
    OBVIOUS
  <2>2. T \subseteq Nat /\ T # {}
    BY <2>1
  <2>. HIDE DEF T
  <2>. QED BY <2>2, LeastElement
<1>2. m \in Nat /\ \A a \in A : a <= m
  BY <1>1
<1>3. m \in B
  <2>. SUFFICES ASSUME m \notin B PROVE FALSE
    OBVIOUS
  <2>1. m - 1 \in Nat /\ m # 0 /\ m \notin A
    BY <1>2
  <2>2. \A a \in A : a <= m - 1
    BY <1>2, <2>1
  <2>3. m - 1 \in T
    BY <2>1, <2>2
  <2>4. m <= m - 1
    BY <1>1, <2>3
  <2>. QED BY <1>2, <2>4
<1>4. \A a \in B : m >= a
  BY <1>2
<1>5. Max(B) = CHOOSE x \in B : \A k \in B : x >= k
  BY DEF Max
<1>. HIDE DEF B
<1>6. Max(B) \in B /\ \A k \in B : Max(B) >= k
  <2>1. \E x \in B : \A k \in B : x >= k
    BY <1>3, <1>4, Zenon
  <2>. QED BY <1>5, <2>1, Zenon
<1>7. B \subseteq Nat /\ A \subseteq B
  BY DEF B
<1>8. Max(B) \in Nat /\ \A a \in A : a <= Max(B)
  BY <1>6, <1>7
<1>. QED BY <1>8 DEF B

\* The longest of the words of n texts is at least as long as each.
LEMMA LongestBounds ==
  ASSUME NEW n \in Nat, NEW t \in [1..n -> Seq(Nat)]
  PROVE  /\ Max({0} \cup UNION {ToSet(t[k]) : k \in 1..n}) \in Nat
         /\ \A k \in 1..n : \A w \in ToSet(t[k]) : w <= Max({0} \cup UNION {ToSet(t[k1]) : k1 \in 1..n})
<1>. DEFINE A == UNION {ToSet(t[k]) : k \in 1..n}
            Bounds(k, b) == \A w \in ToSet(t[k]) : w <= b
            top == [k \in 1..n |-> CHOOSE b \in Nat : Bounds(k, b)]
<1>1. ASSUME NEW k \in 1..n PROVE ToSet(t[k]) \subseteq Nat /\ \E b \in Nat : Bounds(k, b)
  <2>1. PICK s \in Seq(Nat) : s = t[k]
    OBVIOUS
  <2>2. PICK m \in Nat : m = Len(s) /\ s \in [1..m -> Nat]
    BY SMTT(30)
  <2>3. PICK b \in {0} \cup {s[i] : i \in 1..m} : \A v \in {0} \cup {s[i] : i \in 1..m} : b >= v
    BY <2>2, GreatestElement
  <2>4. b \in Nat /\ \A i \in 1..m : s[i] <= b
    BY <2>2, <2>3
  <2>5. \A w \in ToSet(s) : \E i \in 1..m : w = s[i]
    BY <2>2 DEF ToSet
  <2>. QED BY <2>1, <2>2, <2>4, <2>5
<1>2. \A k \in 1..n : top[k] \in Nat /\ Bounds(k, top[k])
  <2>. HIDE DEF Bounds
  <2>. QED BY <1>1
<1>3. top \in [1..n -> Nat]
  <2>1. top = [k \in 1..n |-> top[k]]
    OBVIOUS
  <2>. HIDE DEF top, Bounds
  <2>. QED BY <1>2, <2>1
<1>. HIDE DEF top
<1>4. PICK b \in {0} \cup {top[k] : k \in 1..n} : \A v \in {0} \cup {top[k] : k \in 1..n} : b >= v
  BY <1>3, GreatestElement
<1>5. b \in Nat /\ \A k \in 1..n : top[k] <= b
  BY <1>3, <1>4
<1>6. A \subseteq Nat /\ \A a \in A : a <= b
  <2>1. ASSUME NEW k \in 1..n, NEW a \in ToSet(t[k]) PROVE a \in Nat /\ a <= b
    <3>1. a \in Nat /\ a <= top[k]
      BY <1>1, <1>2
    <3>. QED BY <1>3, <1>5, <3>1
  <2>. QED BY <2>1
<1>7. \A k \in 1..n : ToSet(t[k]) \subseteq A
  OBVIOUS
<1>. HIDE DEF A
<1>8. Max({0} \cup A) \in Nat /\ \A a \in A : a <= Max({0} \cup A)
  BY <1>5, <1>6, Topmost
<1>9. Max({0} \cup A) \in Nat /\ \A k \in 1..n : \A w \in ToSet(t[k]) : w <= Max({0} \cup A)
  BY <1>7, <1>8, Zenon
<1>. QED BY <1>9 DEF A

\* n ones make n.
LEMMA Ones == \A n \in Nat : SumOf([k \in 1..n |-> 1]) = n
<1>1. ASSUME NEW n \in Nat PROVE SumOf([k \in 1..n |-> 1]) = n
  <2>. DEFINE s == [k \in 1..n |-> 1]
  <2>1. s \in [1..n -> Nat] /\ \A k \in 1..n : s[k] = 1
    OBVIOUS
  <2>. HIDE DEF s
  <2>2. s \in Seq(Int) /\ Len(s) = n
    BY <2>1, Widened, Zenon
  <2>3. PICK f : SumOf(s) = f[n] /\ f[0] = 0 /\ \A k \in 1..n : f[k] = f[k - 1] + s[k]
    BY <2>2, SumUnfolds, Zenon
  <2>. DEFINE U == {k \in 0..n : f[k] = k}
  <2>4. 0 \in U /\ \A k \in 1..n : k - 1 \in U => k \in U
    BY <2>1, <2>3
  <2>5. 0..n \subseteq U
    <3>. HIDE DEF U
    <3>. QED BY <2>4, BoundedInduction
  <2>6. n \in 0..n
    OBVIOUS
  <2>7. f[n] = n
    BY <2>5, <2>6
  <2>. QED BY <2>3, <2>7 DEF s
<1>. QED BY <1>1

\* The words of a table's column are natural numbers.
LEMMA TableText ==
  ASSUME NEW e, e.headers \in Seq(Content), e.rows \in Seq(Seq(Content)),
         \A r \in DOMAIN e.rows : Len(e.rows[r]) = Len(e.headers),
         NEW k \in 1..Len(e.headers)
  PROVE  FlattenSeq(e.headers[k]) \o FlattenSeq([r \in DOMAIN e.rows |-> FlattenSeq(e.rows[r][k])]) \in Seq(Nat)
<1>. DEFINE S == Nat \ {0}
<1>1. PICK M \in Nat : M = Len(e.rows) /\ DOMAIN e.rows = 1..M
  BY SeqIndex, Zenon
<1>2. \A c \in Content : FlattenSeq(c) \in Seq(S)
  BY Flattened DEF Content
<1>3. \A row \in Seq(Content) : Len(row) = Len(e.headers) => row[k] \in Content
  <2>1. ASSUME NEW row \in Seq(Content), Len(row) = Len(e.headers) PROVE row[k] \in Content
    <3>1. k \in 1..Len(row)
      BY <2>1, Zenon
    <3>. QED BY <3>1, SeqFunction
  <2>. QED BY <2>1
<1>4. PICK head \in Seq(S) : head = FlattenSeq(e.headers[k])
  BY <1>2, <1>3, Zenon
<1>5. \A r \in 1..M : e.rows[r] \in Seq(Content)
  <2>1. PICK V : V = Seq(Content)
    OBVIOUS
  <2>2. PICK t \in Seq(V) : t = e.rows
    BY <2>1, Zenon
  <2>3. t \in [1..Len(t) -> V]
    BY SeqFunction
  <2>4. \A r \in 1..M : t[r] \in V
    BY <1>1, <2>2, <2>3
  <2>. QED BY <2>1, <2>2, <2>4, Zenon
<1>6. PICK T : T = Seq(S)
  OBVIOUS
<1>7. \A r \in 1..M : FlattenSeq(e.rows[r][k]) \in T
  BY <1>1, <1>2, <1>3, <1>5, <1>6, Zenon
<1>8. PICK b : b = [r \in 1..M |-> FlattenSeq(e.rows[r][k])]
  OBVIOUS
<1>9. b = [r \in 1..M |-> b[r]] /\ \A r \in 1..M : b[r] \in T
  BY <1>7, <1>8
<1>10. b \in Seq(Seq(S))
  BY <1>6, <1>9, Listed, Zenon
<1>11. FlattenSeq(b) \in Seq(S)
  BY <1>10, Flattened
<1>12. head \o FlattenSeq(b) \in Seq(S)
  <2>1. PICK tail \in Seq(S) : tail = FlattenSeq(b)
    BY <1>11
  <2>2. head \o tail \in Seq(S)
    BY ConcatProperties
  <2>. QED BY <2>1, <2>2
<1>13. Seq(S) \subseteq Seq(Nat)
  BY SeqMonotonic
<1>. QED BY <1>1, <1>4, <1>8, <1>12, <1>13, Zenon

\* So are those of columns.
LEMMA ColumnsText ==
  ASSUME NEW elements, elements \in Seq(ToSet(elements)), \A inner \in ToSet(elements) : inner.content \in Content
  PROVE  FlattenSeq([m \in DOMAIN elements |-> FlattenSeq(elements[m].content)]) \in Seq(Nat)
<1>. DEFINE S == Nat \ {0}
<1>1. PICK M \in Nat : DOMAIN elements = 1..M
  BY SeqIndex, Zenon
<1>2. \A m \in 1..M : elements[m].content \in Content
  BY <1>1, Zenon DEF ToSet
<1>3. \A c \in Content : FlattenSeq(c) \in Seq(S)
  BY Flattened DEF Content
<1>4. PICK T : T = Seq(S)
  OBVIOUS
<1>5. \A m \in 1..M : FlattenSeq(elements[m].content) \in T
  BY <1>2, <1>3, <1>4, Zenon
<1>6. PICK b : b = [m \in 1..M |-> FlattenSeq(elements[m].content)]
  OBVIOUS
<1>7. b = [m \in 1..M |-> b[m]] /\ \A m \in 1..M : b[m] \in T
  BY <1>5, <1>6
<1>8. b \in Seq(Seq(S))
  BY <1>4, <1>7, Listed, Zenon
<1>9. FlattenSeq(b) \in Seq(S)
  BY <1>8, Flattened
<1>10. Seq(S) \subseteq Seq(Nat)
  BY SeqMonotonic
<1>. QED BY <1>1, <1>6, <1>9, <1>10, Zenon

-----------------------------------------------------------------------------
(***************************************************************************)
(* Pictures.                                                               *)
(***************************************************************************)

\* What a block with a picture or a code holds.
IsDrawn(e) ==
  /\ e.type \in {"image", "alignedAsset", "qrcode", "barcode"}
  /\ e.type \in {"image", "alignedAsset"} => IsPicture(e.data)
  /\ e.type = "alignedAsset" => e.width \in Int
  /\ e.type = "qrcode" => e.size \in Int
  /\ e.type = "barcode" => e.height \in Int /\ e.modules \in Nat

Agrees(e) == e.type \in {"image", "alignedAsset"} => e.data.w = e.data.fw /\ e.data.h = e.data.fh

\* Scaling by a positive width stays in the natural numbers.
LEMMA Scaled ==
  ASSUME NEW w \in Nat \ {0}, NEW h \in Nat, NEW to \in Nat
  PROVE  (h * to) \div w \in Nat
<1>1. PICK a \in Nat : a = h * to
  OBVIOUS
<1>. QED BY <1>1, Quotients

\* The size of a picture is natural, scaled or not.
LEMMA SizesScaled ==
  ASSUME NEW w \in Nat, NEW h \in Nat, NEW width \in Nat
  PROVE  /\ ScaledSize(w, h, width).w \in Nat /\ ScaledSize(w, h, width).h \in Nat
         /\ \A asked \in Int : /\ TargetSize(w, h, asked, width).w \in Nat
                               /\ TargetSize(w, h, asked, width).h \in Nat
<1>1. ScaledSize(w, h, width).w \in Nat /\ ScaledSize(w, h, width).h \in Nat
  <2>1. CASE width <= 0 \/ w <= width
    BY <2>1 DEF ScaledSize
  <2>2. CASE w > width
    BY <2>2, Scaled DEF ScaledSize
  <2>. QED BY <2>1, <2>2
<1>2. ASSUME NEW asked \in Int
      PROVE  TargetSize(w, h, asked, width).w \in Nat /\ TargetSize(w, h, asked, width).h \in Nat
  <2>1. CASE asked <= 0 \/ w = 0
    BY <1>1, <2>1 DEF TargetSize, Panics
  <2>2. CASE asked > 0 /\ w # 0
    <3>1. PICK target \in Nat : target = IF width > 0 THEN Least(asked, width) ELSE asked
      BY <2>2 DEF Least
    <3>2. TargetSize(w, h, asked, width) = [w |-> target, h |-> (h * target) \div w]
      BY <2>2, <3>1 DEF TargetSize, Panics
    <3>. QED BY <2>2, <3>1, <3>2, Scaled
  <2>. QED BY <2>1, <2>2
<1>. QED BY <1>1, <1>2

\* Build's reading of a picture and Paint's.
LEMMA PicturesMeasured ==
  ASSUME NEW e, IsDrawn(e), NEW width \in Nat
  PROVE  /\ HeaderSize(e, width).h \in Nat
         /\ BitmapSize(e, width).w \in Nat /\ BitmapSize(e, width).h \in Nat
         /\ Agrees(e) => BitmapSize(e, width).h = HeaderSize(e, width).h
<1>1. CASE e.type = "image"
  <2>1. e.data.w \in Nat /\ e.data.fw \in Nat /\ e.data.h \in Nat /\ e.data.fh \in Nat
    BY <1>1 DEF IsDrawn, IsPicture
  <2>2. HeaderSize(e, width) = ScaledSize(e.data.w, e.data.h, width)
    BY <1>1 DEF HeaderSize
  <2>3. BitmapSize(e, width) = ScaledSize(e.data.fw, e.data.fh, width)
    BY <1>1 DEF BitmapSize, TargetSize
  <2>. QED BY <1>1, <2>1, <2>2, <2>3, SizesScaled DEF Agrees
<1>2. CASE e.type = "alignedAsset"
  <2>1. /\ e.data.w \in Nat /\ e.data.fw \in Nat /\ e.data.h \in Nat /\ e.data.fh \in Nat
        /\ e.width \in Int
    BY <1>2 DEF IsDrawn, IsPicture
  <2>2. HeaderSize(e, width) = TargetSize(e.data.w, e.data.h, e.width, width)
    BY <1>2 DEF HeaderSize
  <2>3. PICK size : size = TargetSize(e.data.fw, e.data.fh, e.width, width)
    OBVIOUS
  <2>4. size.w \in Nat /\ size.h \in Nat
    BY <2>1, <2>3, SizesScaled
  <2>5. size = [w |-> size.w, h |-> size.h]
    BY <2>3 DEF TargetSize, ScaledSize
  <2>6. \/ BitmapSize(e, width) = size
        \/ BitmapSize(e, width) = [size EXCEPT !.w = width]
    BY <1>2, <2>3 DEF BitmapSize
  <2>7. BitmapSize(e, width).w \in Nat /\ BitmapSize(e, width).h = size.h
    BY <2>4, <2>5, <2>6
  <2>8. HeaderSize(e, width).h \in Nat
    BY <2>1, <2>2, SizesScaled
  <2>9. Agrees(e) => size = HeaderSize(e, width)
    BY <1>2, <2>2, <2>3 DEF Agrees
  <2>. QED BY <2>4, <2>7, <2>8, <2>9
<1>3. CASE e.type = "qrcode"
  <2>1. PICK side \in Nat \ {0} : side = IF e.size <= 0 THEN DefaultQRCodeSize ELSE e.size
    BY <1>3 DEF IsDrawn, DefaultQRCodeSize
  <2>2. QRCodeSize(e, width) = ScaledSize(side, side, width)
    BY <2>1 DEF QRCodeSize
  <2>. QED BY <1>3, <2>1, <2>2, SizesScaled DEF HeaderSize, BitmapSize
<1>4. CASE e.type = "barcode"
  <2>1. e.height \in Int /\ e.modules \in Nat
    BY <1>4 DEF IsDrawn
  <2>2. BarcodeSize(e, width).w \in Nat /\ BarcodeSize(e, width).h \in Nat
    BY <2>1 DEF BarcodeSize, BarcodeModuleWidth, DefaultBarcodeHeight, Least
  <2>. QED BY <1>4, <2>2 DEF HeaderSize, BitmapSize
<1>. QED BY <1>1, <1>2, <1>3, <1>4 DEF IsDrawn

\* A barcode's caption is a line.
LEMMA CaptionTyped ==
  ASSUME NEW e, e.type = "barcode", IsDrawn(e), e.content \in Content, NEW width \in Nat
  PROVE  CaptionLine(e, width) \in Line
<1>1. BarcodeSize(e, width).w \in Int
  BY PicturesMeasured DEF BitmapSize
<1>2. FlattenSeq(e.content) \in Words
  BY Flattened DEF Content, Words
<1>3. AlignPad(Chars(FlattenSeq(e.content)), "center", BarcodeSize(e, width).w, 1) \in Nat
  BY <1>1, <1>2, CharsTyped, Padded
<1>. QED BY <1>2, <1>3, TextLineTyped DEF CaptionLine
=============================================================================
