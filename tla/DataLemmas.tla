------------------------------ MODULE DataLemmas ------------------------------
(***************************************************************************)
(* What the proofs about several programs need of data: induction over     *)
(* numbers and finite sets, stated with sets in the place of predicates,   *)
(* greatest and least elements, sums over finite sets, and functions that  *)
(* a recursion defines.                                                    *)
(***************************************************************************)
EXTENDS Integers, FiniteSets, FiniteSetTheorems, WellFoundedInduction, TLAPS

-----------------------------------------------------------------------------
\* Every set of naturals that is not empty has a least element.
LEMMA LeastNat ==
    ASSUME NEW S \in SUBSET Nat, S # {}
    PROVE  \E x \in S : \A y \in S : x <= y
<1>1. PICK x \in S : \A y \in S : ~ (<<y, x>> \in OpToRel(<, Nat))
  BY NatLessThanWellFounded, WFMin
<1>2. \A y \in S : ~ (y < x)
  BY <1>1 DEF OpToRel
<1> QED BY <1>2

\* What holds of 0 and with a number also of the next up to n holds up to n.
LEMMA UpTo ==
    ASSUME NEW n \in Nat, NEW G, 0 \in G, \A i \in 0..n - 1 : i \in G => i + 1 \in G
    PROVE  \A i \in 0..n : i \in G
<1> SUFFICES ASSUME NEW k \in 0..n, k \notin G PROVE FALSE
  OBVIOUS
<1> DEFINE Bad == {i \in 0..n : i \notin G}
<1>1. Bad \in SUBSET Nat /\ Bad # {}
  OBVIOUS
<1> HIDE DEF Bad
<1>2. PICK x \in Bad : \A y \in Bad : x <= y
  BY <1>1, LeastNat
<1> USE DEF Bad
<1>3. x # 0 /\ x - 1 \in 0..n - 1
  BY <1>2
<1>4. x - 1 \in G
  BY <1>2, <1>3
<1> QED BY <1>2, <1>3, <1>4

\* A set of numbers between a and b has a least and a greatest element.
LEMMA Extremes ==
    ASSUME NEW a \in Int, NEW b \in Int, NEW S \in SUBSET a..b, S # {}
    PROVE  /\ \E x \in S : \A y \in S : x <= y
           /\ \E x \in S : \A y \in S : x >= y
<1>1. \E x \in S : \A y \in S : x <= y
  <2> DEFINE R == {y - a : y \in S}
  <2>1. R \in SUBSET Nat /\ R # {}
    OBVIOUS
  <2>2. PICK r \in R : \A q \in R : r <= q
    BY <2>1, LeastNat
  <2>3. PICK x \in S : r = x - a
    BY <2>2
  <2>4. \A y \in S : x - a <= y - a
    BY <2>2, <2>3
  <2> QED BY <2>3, <2>4
<1>2. \E x \in S : \A y \in S : x >= y
  <2> DEFINE R == {b - y : y \in S}
  <2>1. R \in SUBSET Nat /\ R # {}
    OBVIOUS
  <2>2. PICK r \in R : \A q \in R : r <= q
    BY <2>1, LeastNat
  <2>3. PICK x \in S : r = b - x
    BY <2>2
  <2>4. \A y \in S : b - x <= b - y
    BY <2>2, <2>3
  <2> QED BY <2>3, <2>4
<1> QED BY <1>1, <1>2

\* What holds of a set whenever it holds of its strict subsets holds of every finite set.
LEMMA Descent ==
    ASSUME NEW S, IsFiniteSet(S), NEW G,
           \A A \in SUBSET S : (\A B \in SUBSET A : B # A => B \in G) => A \in G
    PROVE  S \in G
<1> SUFFICES ASSUME S \notin G PROVE FALSE
  OBVIOUS
<1> DEFINE Bad == {A \in SUBSET S : A \notin G}
<1>1. Bad \subseteq SUBSET S /\ Bad # {}
  OBVIOUS
<1>2. IsWellFoundedOn(StrictSubsetOrdering(S), SUBSET S)
  <2>1. FiniteSubsetsOf(S) = SUBSET S
    BY FS_FiniteSubsetsOfFinite
  <2>2. IsWellFoundedOn(StrictSubsetOrdering(S), FiniteSubsetsOf(S))
    BY FS_StrictSubsetOrderingWellFounded
  <2> QED BY <2>1, <2>2
<1> HIDE DEF Bad
<1>3. PICK A \in Bad : \A B \in Bad : ~ (<<B, A>> \in StrictSubsetOrdering(S))
  BY <1>1, <1>2, WFMin
<1> USE DEF Bad
<1>4. \A B \in SUBSET A : B # A => B \in G
  BY <1>3 DEF StrictSubsetOrdering
<1> QED BY <1>3, <1>4

\* The element that the folds of the community modules take next.
One(s) == CHOOSE x \in s : TRUE

\* It is one of the set.
LEMMA OneIn == ASSUME NEW s, s # {} PROVE One(s) \in s
BY DEF One

(***************************************************************************)
(* F sums the values of g over the subsets of S, one element at a time,    *)
(* and SumOn(g, S) is the sum over S: what MapThenSumSet and SumFunction   *)
(* say, with a function in the place of their operator.                    *)
(***************************************************************************)
IsSum(F, g, S) ==
    F = [s \in SUBSET S |-> IF s = {} THEN 0 ELSE g[One(s)] + F[s \ {One(s)}]]
SumOn(g, S) == (CHOOSE F : IsSum(F, g, S))[S]

\* The equation of a sum at one set.
LEMMA SumElement ==
    ASSUME NEW S, NEW g, NEW F, IsSum(F, g, S), NEW s \in SUBSET S
    PROVE  F[s] = IF s = {} THEN 0 ELSE g[One(s)] + F[s \ {One(s)}]
<1> DEFINE E(x) == IF x = {} THEN 0 ELSE g[One(x)] + F[x \ {One(x)}]
<1>1. F = [x \in SUBSET S |-> E(x)]
  BY DEF IsSum
<1> HIDE DEF E
<1>2. F[s] = E(s)
  BY <1>1
<1> QED BY <1>2 DEF E

\* Two sums agree, also when one is over the subsets of a larger set.
LEMMA SumUnique ==
    ASSUME NEW S, IsFiniteSet(S), NEW g, NEW F, IsSum(F, g, S),
           NEW R, S \subseteq R, NEW H, IsSum(H, g, R)
    PROVE  F[S] = H[S]
<1> DEFINE G == {A \in SUBSET S : F[A] = H[A]}
<1>1. ASSUME NEW A \in SUBSET S, \A B \in SUBSET A : B # A => B \in G PROVE A \in G
  <2>1. /\ F[A] = IF A = {} THEN 0 ELSE g[One(A)] + F[A \ {One(A)}]
        /\ H[A] = IF A = {} THEN 0 ELSE g[One(A)] + H[A \ {One(A)}]
    <3>1. A \in SUBSET S /\ A \in SUBSET R
      OBVIOUS
    <3>2. F[A] = IF A = {} THEN 0 ELSE g[One(A)] + F[A \ {One(A)}]
      BY <3>1, SumElement
    <3>3. H[A] = IF A = {} THEN 0 ELSE g[One(A)] + H[A \ {One(A)}]
      BY ONLY <3>1, IsSum(H, g, R), SumElement
    <3> QED BY <3>2, <3>3
  <2>2. A # {} => F[A \ {One(A)}] = H[A \ {One(A)}]
    BY <1>1, OneIn
  <2> QED BY <2>1, <2>2
<1> HIDE DEF G
<1>2. S \in G
  BY <1>1, Descent
<1> QED BY <1>2 DEF G

\* Every finite set has a sum.
LEMMA SumExists ==
    ASSUME NEW S, IsFiniteSet(S), NEW g
    PROVE  \E F : IsSum(F, g, S)
<1> DEFINE G == {A \in SUBSET S : \E F : IsSum(F, g, A)}
<1>1. ASSUME NEW A \in SUBSET S, \A B \in SUBSET A : B # A => B \in G PROVE A \in G
  <2> DEFINE v(s) == IF s = {} THEN 0 ELSE g[One(s)] + SumOn(g, s \ {One(s)})
             F == [s \in SUBSET A |-> v(s)]
  <2>1. ASSUME NEW s \in SUBSET A, s # A PROVE v(s) = SumOn(g, s)
    <3>1. PICK H : IsSum(H, g, s) /\ SumOn(g, s) = H[s]
      <4>1. \E H : IsSum(H, g, s)
        BY <1>1, <2>1
      <4> QED BY <4>1 DEF SumOn
    <3>2. CASE s = {}
      BY <3>1, <3>2, SumElement
    <3>3. CASE s # {}
      <4> DEFINE r == s \ {One(s)}
      <4>1. r \in SUBSET A /\ r # A /\ r \subseteq s /\ s \in SUBSET s
        BY <2>1, <3>3, OneIn
      <4>2. PICK K : IsSum(K, g, r) /\ SumOn(g, r) = K[r]
        <5>1. \E K : IsSum(K, g, r)
          BY <1>1, <4>1
        <5> QED BY <5>1 DEF SumOn
      <4>3. IsFiniteSet(r)
        BY <4>1, FS_Subset
      <4>4. K[r] = H[r]
        BY <3>1, <4>1, <4>2, <4>3, SumUnique
      <4>5. H[s] = g[One(s)] + H[r]
        BY <3>1, <3>3, <4>1, SumElement
      <4> QED BY <3>1, <3>3, <4>2, <4>4, <4>5
    <3> QED BY <3>2, <3>3
  <2>2. ASSUME NEW s \in SUBSET A, s # {} PROVE F[s \ {One(s)}] = SumOn(g, s \ {One(s)})
    <3>1. s \ {One(s)} \in SUBSET A /\ s \ {One(s)} # A
      BY <2>2, OneIn
    <3> QED BY <2>1, <3>1
  <2>3. IsSum(F, g, A)
    <3>1. \A s \in SUBSET A : v(s) = IF s = {} THEN 0 ELSE g[One(s)] + F[s \ {One(s)}]
      BY <2>2
    <3> QED BY <3>1 DEF IsSum
  <2> QED BY <2>3
<1> HIDE DEF G
<1>2. S \in G
  BY <1>1, Descent
<1> QED BY <1>2 DEF G

\* The sums of nothing, and with one element taken out.
LEMMA SumStep ==
    ASSUME NEW S, IsFiniteSet(S), NEW g
    PROVE  SumOn(g, S) = IF S = {} THEN 0 ELSE g[One(S)] + SumOn(g, S \ {One(S)})
<1>1. PICK F : IsSum(F, g, S) /\ SumOn(g, S) = F[S]
  BY SumExists DEF SumOn
<1>2. F[S] = IF S = {} THEN 0 ELSE g[One(S)] + F[S \ {One(S)}]
  BY <1>1, SumElement
<1>3. IsFiniteSet(S \ {One(S)})
  BY FS_RemoveElement
<1>4. PICK H : IsSum(H, g, S \ {One(S)}) /\ SumOn(g, S \ {One(S)}) = H[S \ {One(S)}]
  BY <1>3, SumExists DEF SumOn
<1>5. H[S \ {One(S)}] = F[S \ {One(S)}]
  BY <1>1, <1>3, <1>4, SumUnique
<1> QED BY <1>1, <1>2, <1>4, <1>5

\* Sums of naturals are naturals.
LEMMA SumType ==
    ASSUME NEW S, IsFiniteSet(S), NEW g, \A x \in S : g[x] \in Nat
    PROVE  SumOn(g, S) \in Nat
<1> DEFINE G == {A \in SUBSET S : SumOn(g, A) \in Nat}
<1>1. ASSUME NEW A \in SUBSET S, \A B \in SUBSET A : B # A => B \in G PROVE A \in G
  <2>1. SumOn(g, A) = IF A = {} THEN 0 ELSE g[One(A)] + SumOn(g, A \ {One(A)})
    BY FS_Subset, SumStep
  <2>2. A # {} => g[One(A)] \in Nat /\ SumOn(g, A \ {One(A)}) \in Nat
    BY <1>1, OneIn
  <2> QED BY <2>1, <2>2
<1> HIDE DEF G
<1>2. S \in G
  BY <1>1, Descent
<1> QED BY <1>2 DEF G

\* Sums of integers are integers.
LEMMA SumInt ==
    ASSUME NEW S, IsFiniteSet(S), NEW g, \A x \in S : g[x] \in Int
    PROVE  SumOn(g, S) \in Int
<1> DEFINE G == {A \in SUBSET S : SumOn(g, A) \in Int}
<1>1. ASSUME NEW A \in SUBSET S, \A B \in SUBSET A : B # A => B \in G PROVE A \in G
  <2>1. SumOn(g, A) = IF A = {} THEN 0 ELSE g[One(A)] + SumOn(g, A \ {One(A)})
    BY FS_Subset, SumStep
  <2>2. A # {} => g[One(A)] \in Int /\ SumOn(g, A \ {One(A)}) \in Int
    BY <1>1, OneIn
  <2> QED BY <2>1, <2>2
<1> HIDE DEF G
<1>2. S \in G
  BY <1>1, Descent
<1> QED BY <1>2 DEF G

\* The order does not matter: any element can be taken out first.
LEMMA SumRemove ==
    ASSUME NEW S, IsFiniteSet(S), NEW g, \A x \in S : g[x] \in Int
    PROVE  \A x \in S : SumOn(g, S) = g[x] + SumOn(g, S \ {x})
<1> DEFINE G == {A \in SUBSET S : \A x \in A : SumOn(g, A) = g[x] + SumOn(g, A \ {x})}
<1>1. ASSUME NEW A \in SUBSET S, \A B \in SUBSET A : B # A => B \in G PROVE A \in G
  <2> SUFFICES ASSUME NEW x \in A PROVE SumOn(g, A) = g[x] + SumOn(g, A \ {x})
    OBVIOUS
  <2> DEFINE y == One(A)
             C == A \ {x, y}
  <2>1. y \in A /\ g[x] \in Int /\ g[y] \in Int
    BY OneIn
  <2>2. IsFiniteSet(A) /\ IsFiniteSet(C)
    BY FS_Subset
  <2>3. SumOn(g, A) = g[y] + SumOn(g, A \ {y})
    BY <2>1, <2>2, SumStep
  <2> HIDE DEF y
  <2>4. SumOn(g, C) \in Int
    BY <2>2, SumInt
  <2>5. CASE x # y
    <3>1. (A \ {y}) \ {x} = C /\ (A \ {x}) \ {y} = C
      OBVIOUS
    <3>2. SumOn(g, A \ {y}) = g[x] + SumOn(g, C)
      BY <1>1, <2>1, <2>5, <3>1
    <3>3. SumOn(g, A \ {x}) = g[y] + SumOn(g, C)
      BY <1>1, <2>1, <2>5, <3>1
    <3> QED BY <2>1, <2>3, <2>4, <3>2, <3>3
  <2> QED BY <2>3, <2>5
<1> HIDE DEF G
<1>2. S \in G
  BY <1>1, Descent
<1> QED BY <1>2 DEF G

\* A new element adds its value.
LEMMA SumAdd ==
    ASSUME NEW S, IsFiniteSet(S), NEW x, x \notin S, NEW g, \A y \in S \cup {x} : g[y] \in Int
    PROVE  SumOn(g, S \cup {x}) = SumOn(g, S) + g[x]
<1>1. IsFiniteSet(S \cup {x}) /\ (S \cup {x}) \ {x} = S
  BY FS_AddElement
<1>2. SumOn(g, S \cup {x}) = g[x] + SumOn(g, (S \cup {x}) \ {x})
  BY <1>1, SumRemove
<1>3. SumOn(g, S) \in Int /\ g[x] \in Int
  BY SumInt
<1>4. SumOn(g, S \cup {x}) = g[x] + SumOn(g, S)
  BY ONLY <1>1, <1>2
<1> QED BY ONLY <1>3, <1>4

-----------------------------------------------------------------------------
(***************************************************************************)
(* Functions by recursion over 1..n, where step[i] makes the next value of *)
(* the one before.                                                         *)
(***************************************************************************)
IsIterated(f, n, a, step) == f = [i \in 0..n |-> IF i = 0 THEN a ELSE step[i][f[i - 1]]]

\* They exist.
LEMMA IteratedExists ==
    ASSUME NEW n \in Nat, NEW a, NEW step
    PROVE  \E f : IsIterated(f, n, a, step)
<1> DEFINE G == {k \in 0..n : \E f : IsIterated(f, k, a, step)}
<1>1. 0 \in G
  <2>1. IsIterated([i \in 0..0 |-> a], 0, a, step)
    BY DEF IsIterated
  <2> QED BY <2>1
<1>2. ASSUME NEW k \in 0..n - 1, k \in G PROVE k + 1 \in G
  <2>1. PICK f : IsIterated(f, k, a, step)
    BY <1>2
  <2> DEFINE g == [i \in 0..k + 1 |-> IF i = k + 1 THEN step[k + 1][f[k]] ELSE f[i]]
  <2>2. \A i \in 0..k : f[i] = IF i = 0 THEN a ELSE step[i][f[i - 1]]
    BY <2>1 DEF IsIterated
  <2>3. ASSUME NEW i \in 0..k + 1
        PROVE  g[i] = IF i = 0 THEN a ELSE step[i][g[i - 1]]
    <3>1. CASE i = k + 1
      <4>1. g[i] = step[k + 1][f[k]] /\ g[k] = f[k] /\ i - 1 = k /\ i # 0
        BY <3>1
      <4> QED BY <3>1, <4>1
    <3>2. CASE i # k + 1
      <4>1. g[i] = f[i] /\ i \in 0..k
        BY <3>2
      <4>2. i # 0 => i - 1 \in 0..k + 1 /\ i - 1 # k + 1
        OBVIOUS
      <4>3. i # 0 => g[i - 1] = f[i - 1]
        BY <4>2
      <4> HIDE DEF g
      <4> QED BY <2>2, <4>1, <4>3
    <3> QED BY <3>1, <3>2
  <2>4. IsIterated(g, k + 1, a, step)
    BY <2>3 DEF IsIterated
  <2> QED BY <2>4
<1> HIDE DEF G
<1>3. n \in G
  BY <1>1, <1>2, UpTo
<1> QED BY <1>3 DEF G

\* Their values, step by step.
LEMMA IteratedSteps ==
    ASSUME NEW n \in Nat, NEW a, NEW step, NEW f, IsIterated(f, n, a, step)
    PROVE  /\ f[0] = a
           /\ \A i \in 0..n - 1 : f[i + 1] = step[i + 1][f[i]]
<1>1. \A i \in 0..n : f[i] = IF i = 0 THEN a ELSE step[i][f[i - 1]]
  BY DEF IsIterated
<1>2. ASSUME NEW i \in 0..n - 1 PROVE f[i + 1] = step[i + 1][f[i]]
  <2>1. i + 1 \in 0..n /\ i + 1 # 0 /\ (i + 1) - 1 = i
    OBVIOUS
  <2> QED BY <1>1, <2>1
<1> QED BY <1>1, <1>2

-----------------------------------------------------------------------------
\* A remainder is the only one.
LEMMA Remainder ==
    ASSUME NEW n \in Nat \ {0}, NEW q \in Nat, NEW s \in 0..n - 1
    PROVE  (n * q + s) % n = s
<1> DEFINE a == n * q + s
           p == a \div n
           r == a % n
<1>1. a \in Nat /\ p \in Nat /\ r \in 0..n - 1 /\ a = n * p + r
  OBVIOUS
<1>2. n * q + s = n * p + r
  BY <1>1 DEF a
<1> HIDE DEF p, r, a
<1>3. ~ p >= q + 1
  <2>1. p >= q + 1 => n * p >= n * (q + 1)
    BY <1>1
  <2> QED BY <1>1, <1>2, <2>1
<1>4. ~ q >= p + 1
  <2>1. q >= p + 1 => n * q >= n * (p + 1)
    BY <1>1
  <2> QED BY <1>1, <1>2, <2>1
<1>5. p = q
  BY <1>1, <1>3, <1>4
<1>6. r = s
  BY <1>1, <1>2, <1>5
<1> QED BY <1>6 DEF r, a

\* What d steps on from h is, in a ring of n.
LEMMA RingStep ==
    ASSUME NEW n \in Nat \ {0}, NEW h \in Nat, NEW d \in 0..n
    PROVE  /\ h % n \in 0..n - 1
           /\ (h + d) % n = IF (h % n) + d < n THEN (h % n) + d ELSE (h % n) + d - n
<1> DEFINE q == h \div n
           r == h % n
<1>1. q \in Nat /\ r \in 0..n - 1 /\ h = n * q + r
  OBVIOUS
<1> HIDE DEF q, r
<1>2. CASE r + d < n
  <2>1. h + d = n * q + (r + d) /\ r + d \in 0..n - 1
    BY <1>1, <1>2
  <2>2. (h + d) % n = r + d
    BY <1>1, <2>1, Remainder
  <2> QED BY <1>1, <1>2, <2>2
<1>3. CASE r + d >= n
  <2>1. h + d = n * (q + 1) + (r + d - n) /\ r + d - n \in 0..n - 1
    BY <1>1, <1>3
  <2>2. q + 1 \in Nat
    BY <1>1
  <2>3. (h + d) % n = r + d - n
    BY <2>1, <2>2, Remainder
  <2> QED BY <1>1, <1>3, <2>3 DEF r
<1> QED BY <1>1, <1>2, <1>3 DEF r
==============================================================================
