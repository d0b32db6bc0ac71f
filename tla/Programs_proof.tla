----------------------------- MODULE Programs_proof -----------------------------
(***************************************************************************)
(* Theorems about Programs, whatever the words, archives, tables, data and *)
(* arguments: the invariants of the five programs, each with a part of its *)
(* own, in the order wordFreq, zipjpeg, dbstat, the linked list, figlet,   *)
(* and what they say of the program that runs, at the end.                 *)
(***************************************************************************)
EXTENDS Programs, DataLemmas, SequenceTheorems

-----------------------------------------------------------------------------
(***************************************************************************)
(* Maps of n buckets.  At(k, d, n) is the bucket probed for k after d      *)
(* steps.  In a good map size counts the entries, no two of them have the  *)
(* same key, and no free bucket stands in the way of one.                  *)
(***************************************************************************)
At(k, d, n) == (hash[k] + d) % n

MapSet(n) == [data : [0..n - 1 -> Entry \cup {Null}], size : Nat, limit : {n \div 2}]

UniqueKeys(m) == \A i, j \in Used(m) : m.data[i].key = m.data[j].key => i = j
Reached(m, n) ==
    \A i \in Used(m), d \in 0..n - 1 : At(m.data[i].key, d, n) = i =>
        \A e \in 0..d - 1 : m.data[At(m.data[i].key, e, n)] # Null

MapOk(m, n) ==
    m \in MapSet(n) /\ m.size = Cardinality(Used(m)) /\ UniqueKeys(m) /\ Reached(m, n)

Content(m) == {m.data[i] : i \in Used(m)}

\* The hash code of a word is a natural.
LEMMA HashNat == ASSUME hash \in Hash, NEW k \in Word PROVE hash[k] \in Nat
BY WordAssumption DEF WordAssumption

\* Every bucket is probed once.
LEMMA Ring ==
    ASSUME NEW n \in Nat \ {0}, hash \in Hash, NEW k \in Word
    PROVE  /\ \A d \in 0..n - 1 : At(k, d, n) \in 0..n - 1
           /\ \A d, e \in 0..n - 1 : At(k, d, n) = At(k, e, n) => d = e
           /\ \A i \in 0..n - 1 : \E d \in 0..n - 1 : At(k, d, n) = i
<1> DEFINE r == hash[k] % n
<1>1. r \in 0..n - 1
  <2>1. 0 \in 0..n /\ hash[k] \in Nat
    BY HashNat
  <2> QED BY <2>1, RingStep
<1>2. ASSUME NEW d \in 0..n - 1 PROVE At(k, d, n) = IF r + d < n THEN r + d ELSE r + d - n
  <2>1. d \in 0..n /\ hash[k] \in Nat
    BY HashNat
  <2> QED BY <2>1, RingStep DEF At
<1> HIDE DEF r
<1>3. \A d \in 0..n - 1 : At(k, d, n) \in 0..n - 1
  BY <1>1, <1>2
<1>4. \A d, e \in 0..n - 1 : At(k, d, n) = At(k, e, n) => d = e
  BY <1>1, <1>2
<1>5. ASSUME NEW i \in 0..n - 1 PROVE \E d \in 0..n - 1 : At(k, d, n) = i
  <2>1. CASE i >= r
    <3>1. i - r \in 0..n - 1 /\ r + (i - r) < n /\ r + (i - r) = i
      BY <1>1, <2>1
    <3> QED BY <1>2, <3>1
  <2>2. CASE i < r
    <3>1. i + n - r \in 0..n - 1 /\ ~ r + (i + n - r) < n /\ r + (i + n - r) - n = i
      BY <1>1, <2>2
    <3> QED BY <1>2, <3>1
  <2> QED BY <1>1, <2>1, <2>2
<1> QED BY <1>3, <1>4, <1>5

\* What the operators say of a map of n buckets.
LEMMA Buckets ==
    ASSUME NEW n \in Nat, NEW m \in MapSet(n)
    PROVE  /\ DOMAIN m.data = 0..n - 1 /\ ArrSize(m) = n
           /\ Used(m) \subseteq 0..n - 1 /\ IsFiniteSet(Used(m))
           /\ \A k : \A d \in 0..n - 1 : Probe(m, k)[d] = At(k, d, n)
           /\ \A i \in 0..n - 1 : m.data[i] \in Entry \cup {Null}
           /\ \A i \in Used(m) : m.data[i] \in Entry /\ m.data[i].key \in Word
<1>1. m.data \in [0..n - 1 -> Entry \cup {Null}]
  BY DEF MapSet
<1>2. DOMAIN m.data = 0..n - 1 /\ \A i \in 0..n - 1 : m.data[i] \in Entry \cup {Null}
  BY <1>1
<1>3. ArrSize(m) = n
  BY <1>2, FS_Interval DEF ArrSize
<1>4. Used(m) \subseteq 0..n - 1 /\ IsFiniteSet(Used(m))
  <2>1. Used(m) \subseteq 0..n - 1
    BY <1>2 DEF Used
  <2>2. IsFiniteSet(0..n - 1)
    BY FS_Interval
  <2> QED BY <2>1, <2>2, FS_Subset
<1>5. \A k : \A d \in 0..n - 1 : Probe(m, k)[d] = At(k, d, n)
  BY <1>3 DEF Probe, At
<1>6. \A i \in Used(m) : m.data[i] \in Entry /\ m.data[i].key \in Word
  BY <1>2 DEF Used, Entry
<1> QED BY <1>2, <1>3, <1>4, <1>5, <1>6

\* The least element of a set of naturals.
LEMMA MinNat ==
    ASSUME NEW S \in SUBSET Nat, S # {}
    PROVE  Min(S) \in S /\ \A y \in S : Min(S) <= y
BY LeastNat DEF Min

\* An entry is not Null.
LEMMA EntryNotNull == Null \notin Entry
BY WordAssumption DEF WordAssumption, Null, Entry

\* A new entry takes a free bucket, and the map stays good.
LEMMA PlaceOk ==
    ASSUME NEW n \in Nat \ {0}, hash \in Hash, NEW m, MapOk(m, n), m.size < n,
           NEW e \in Entry, \A i \in Used(m) : m.data[i].key # e.key
    PROVE  /\ MapOk(Place(m, e), n) /\ Place(m, e).size = m.size + 1
           /\ Content(Place(m, e)) = Content(m) \cup {e}
<1> DEFINE k == e.key
           free == {d \in 0..n - 1 : m.data[At(k, d, n)] = Null}
           f == Min(free)
           b == At(k, f, n)
           p == Place(m, e)
<1>1. m \in MapSet(n) /\ m.size = Cardinality(Used(m)) /\ UniqueKeys(m) /\ Reached(m, n)
  BY DEF MapOk
<1>2. /\ DOMAIN m.data = 0..n - 1 /\ ArrSize(m) = n
      /\ Used(m) \subseteq 0..n - 1 /\ IsFiniteSet(Used(m))
      /\ \A d \in 0..n - 1 : Probe(m, k)[d] = At(k, d, n)
      /\ \A i \in 0..n - 1 : m.data[i] \in Entry \cup {Null}
  BY <1>1, Buckets
<1>3. k \in Word
  BY DEF Entry
<1>4. free \in SUBSET Nat /\ free # {}
  <2>1. PICK i \in 0..n - 1 : i \notin Used(m)
    <3>1. Cardinality(0..n - 1) = n
      <4>1. PICK top \in Int : top = n - 1 /\ ~ 0 > top /\ top - 0 + 1 = n
        <5>1. n - 1 \in Int /\ ~ 0 > n - 1 /\ (n - 1) - 0 + 1 = n
          OBVIOUS
        <5> QED BY <5>1
      <4>2. Cardinality(0..top) = IF 0 > top THEN 0 ELSE top - 0 + 1
        BY FS_Interval
      <4> QED BY <4>1, <4>2
    <3>2. Used(m) # 0..n - 1
      BY <1>1, <3>1
    <3> QED BY <1>2, <3>2
  <2>2. m.data[i] = Null
    BY <1>2, <2>1 DEF Used
  <2>3. PICK d \in 0..n - 1 : At(k, d, n) = i
    BY <1>3, Ring
  <2> QED BY <2>2, <2>3
<1>5. f \in free /\ \A d \in free : f <= d
  BY <1>4, MinNat
<1>6. f \in 0..n - 1 /\ m.data[b] = Null /\ b \in 0..n - 1
  BY <1>3, <1>5, Ring
<1>7. p = [m EXCEPT !.data[b] = e, !.size = @ + 1]
  <2>1. {d \in 0..ArrSize(m) - 1 : m.data[Probe(m, k)[d]] = Null} = free
    BY <1>2
  <2>2. FirstOf(m, k, free) = b
    BY <1>2, <1>6 DEF FirstOf
  <2> HIDE DEF free, b
  <2> QED BY <2>1, <2>2 DEF Place
<1> HIDE DEF free, f, p
<1>8. /\ p.data = [m.data EXCEPT ![b] = e] /\ p.size = m.size + 1 /\ p.limit = m.limit
      /\ p \in MapSet(n)
  <2>1. /\ m \in [data : [0..n - 1 -> Entry \cup {Null}], size : Nat, limit : {n \div 2}]
        /\ m.data \in [0..n - 1 -> Entry \cup {Null}]
    BY <1>1 DEF MapSet
  <2> HIDE DEF b
  <2>2. p.data = [m.data EXCEPT ![b] = e] /\ p.size = m.size + 1 /\ p.limit = m.limit
    BY <1>7, <2>1
  <2>3. [m.data EXCEPT ![b] = e] \in [0..n - 1 -> Entry \cup {Null}]
    BY <2>1
  <2>4. m.size + 1 \in Nat
    BY <2>1
  <2>5. p \in [data : [0..n - 1 -> Entry \cup {Null}], size : Nat, limit : {n \div 2}]
    BY <1>7, <2>1, <2>3, <2>4
  <2> QED BY <2>2, <2>5 DEF MapSet
<1> HIDE DEF b
<1>9. p.data[b] = e /\ \A i \in 0..n - 1 : i # b => p.data[i] = m.data[i]
  BY <1>2, <1>6, <1>8
<1>10. DOMAIN p.data = 0..n - 1
  BY <1>2, <1>8
<1>11. Used(p) = Used(m) \cup {b} /\ b \notin Used(m)
  BY <1>2, <1>6, <1>9, <1>10, EntryNotNull DEF Used
<1>12. p.size = Cardinality(Used(p))
  <2>1. Cardinality(Used(m) \cup {b}) = Cardinality(Used(m)) + 1
    BY <1>2, <1>11, FS_AddElement
  <2> QED BY <1>1, <1>8, <1>11, <2>1
<1>13. UniqueKeys(p)
  <2> SUFFICES ASSUME NEW i \in Used(p), NEW j \in Used(p), p.data[i].key = p.data[j].key
               PROVE  i = j
    BY DEF UniqueKeys
  <2>1. CASE i = b \/ j = b
    BY <1>2, <1>9, <1>11, <2>1
  <2>2. CASE i # b /\ j # b
    BY <1>1, <1>2, <1>9, <1>11, <2>2 DEF UniqueKeys
  <2> QED BY <2>1, <2>2
<1>14. Reached(p, n)
  <2> SUFFICES ASSUME NEW i \in Used(p), NEW d \in 0..n - 1, At(p.data[i].key, d, n) = i,
                      NEW c \in 0..d - 1
               PROVE  p.data[At(p.data[i].key, c, n)] # Null
    BY DEF Reached
  <2>1. c \in 0..n - 1
    OBVIOUS
  <2>2. m.data[At(p.data[i].key, c, n)] # Null
    <3>1. CASE i = b
      <4>1. d = f
        BY <1>3, <1>6, <1>9, <3>1, Ring DEF b
      <4>2. c \notin free
        BY <1>5, <2>1, <4>1
      <4> QED BY <1>9, <2>1, <3>1, <4>2 DEF free
    <3>2. CASE i # b
      BY <1>1, <1>2, <1>9, <1>11, <3>2 DEF Reached
    <3> QED BY <3>1, <3>2
  <2>3. At(p.data[i].key, c, n) \in 0..n - 1
    <3>1. p.data[i].key \in Word
      BY <1>8, Buckets
    <3> QED BY <2>1, <3>1, Ring
  <2> QED BY <1>6, <1>9, <2>2, <2>3
<1>15. Content(p) = Content(m) \cup {e}
  BY <1>2, <1>9, <1>11 DEF Content
<1> QED BY <1>8, <1>12, <1>13, <1>14, <1>15 DEF MapOk, p

\* A new map has no entries.
LEMMA CreateOk ==
    ASSUME NEW n \in Nat \ {0}
    PROVE  MapOk(CreateHashmap(n), n) /\ CreateHashmap(n).size = 0 /\ Used(CreateHashmap(n)) = {}
<1> DEFINE m == CreateHashmap(n)
<1>1. m \in MapSet(n)
  BY DEF MapSet, CreateHashmap
<1>2. m.size = 0 /\ Used(m) = {}
  BY DEF CreateHashmap, Used
<1> HIDE DEF m
<1>3. m.size = Cardinality(Used(m))
  BY <1>2, FS_EmptySet
<1> QED BY <1>1, <1>2, <1>3 DEF MapOk, UniqueKeys, Reached, m

\* Whatever bucket an entry takes, a map of n buckets results.
LEMMA PlaceTyped ==
    ASSUME NEW n \in Nat, NEW m \in MapSet(n), NEW e \in Entry
    PROVE  Place(m, e) \in MapSet(n)
<1>1. PICK b : Place(m, e) = [m EXCEPT !.data[b] = e, !.size = @ + 1]
  BY DEF Place
<1>2. /\ m \in [data : [0..n - 1 -> Entry \cup {Null}], size : Nat, limit : {n \div 2}]
      /\ m.data \in [0..n - 1 -> Entry \cup {Null}]
  BY DEF MapSet
<1>3. [m.data EXCEPT ![b] = e] \in [0..n - 1 -> Entry \cup {Null}]
  BY <1>2
<1>4. m.size + 1 \in Nat
  BY <1>2
<1>5. Place(m, e) \in [data : [0..n - 1 -> Entry \cup {Null}], size : Nat, limit : {n \div 2}]
  BY <1>1, <1>2, <1>3, <1>4
<1> QED BY <1>5 DEF MapSet

\* The map the entries of m move to, bucket by bucket.
IsMoved(f, m, n) ==
    f = [i \in 0..n |->
            IF i = 0 THEN CreateHashmap(n * MULTIPLIER)
            ELSE IF m.data[i - 1] = Null THEN f[i - 1] ELSE Place(f[i - 1], m.data[i - 1])]

\* rehashUp is defined by it.
LEMMA Moves ==
    ASSUME NEW n \in Nat \ {0}, NEW m \in MapSet(n)
    PROVE  \E f : IsMoved(f, m, n) /\ RehashUp(m) = f[n]
<1> DEFINE N == n * MULTIPLIER
           step == [i \in 1..n |-> [x \in MapSet(N) |->
                       IF m.data[i - 1] = Null THEN x ELSE Place(x, m.data[i - 1])]]
<1>1. N \in Nat \ {0}
  BY WordAssumption DEF WordAssumption
<1>2. PICK f : IsIterated(f, n, CreateHashmap(N), step)
  BY IteratedExists
<1>3. /\ f[0] = CreateHashmap(N)
      /\ \A i \in 0..n - 1 : f[i + 1] = step[i + 1][f[i]]
  <2> HIDE DEF N, step
  <2> QED BY <1>2, IteratedSteps
<1>4. \A i \in 0..n - 1 : m.data[i] \in Entry \cup {Null}
  BY Buckets
<1>5. \A i \in 0..n - 1 : \A x \in MapSet(N) :
          /\ step[i + 1][x] = IF m.data[i] = Null THEN x ELSE Place(x, m.data[i])
          /\ step[i + 1][x] \in MapSet(N)
  <2> SUFFICES ASSUME NEW i \in 0..n - 1, NEW x \in MapSet(N)
               PROVE  /\ step[i + 1][x] = IF m.data[i] = Null THEN x ELSE Place(x, m.data[i])
                      /\ step[i + 1][x] \in MapSet(N)
    OBVIOUS
  <2> HIDE DEF N
  <2>1. i + 1 \in 1..n /\ (i + 1) - 1 = i
    OBVIOUS
  <2>2. step[i + 1][x] = IF m.data[i] = Null THEN x ELSE Place(x, m.data[i])
    BY <2>1
  <2> HIDE DEF step
  <2> QED BY <1>1, <1>4, <2>2, PlaceTyped
<1> HIDE DEF N, step
<1> DEFINE G == {i \in 0..n : f[i] \in MapSet(N)}
<1>6. \A i \in 0..n : i \in G
  <2>1. 0 \in G
    BY <1>1, <1>3, CreateOk DEF MapOk
  <2>2. \A i \in 0..n - 1 : i \in G => i + 1 \in G
    BY <1>3, <1>5
  <2> HIDE DEF G
  <2> QED BY <2>1, <2>2, UpTo
<1>7. \A i \in 1..n : f[i] = IF m.data[i - 1] = Null THEN f[i - 1] ELSE Place(f[i - 1], m.data[i - 1])
  <2> TAKE i \in 1..n
  <2>1. i - 1 \in 0..n - 1 /\ (i - 1) + 1 = i /\ i - 1 \in 0..n
    OBVIOUS
  <2>2. f[i - 1] \in MapSet(N)
    BY <1>6, <2>1
  <2> QED BY <1>3, <1>5, <2>1, <2>2
<1>8. IsMoved(f, m, n)
  <2>1. DOMAIN f = 0..n /\ f = [i \in 0..n |-> f[i]]
    BY <1>2 DEF IsIterated
  <2>2. \A i \in 0..n : f[i] = IF i = 0 THEN CreateHashmap(N)
            ELSE IF m.data[i - 1] = Null THEN f[i - 1] ELSE Place(f[i - 1], m.data[i - 1])
    BY <1>3, <1>7
  <2> QED BY <2>1, <2>2 DEF IsMoved, N
<1>9. RehashUp(m) = (CHOOSE g : IsMoved(g, m, n))[n]
  <2>1. ArrSize(m) = n
    BY Buckets
  <2> QED BY <2>1 DEF RehashUp, IsMoved
<1>10. IsMoved(CHOOSE g : IsMoved(g, m, n), m, n)
  BY <1>8
<1> QED BY <1>9, <1>10

\* Moving to a larger map keeps the entries.
LEMMA RehashOk ==
    ASSUME NEW n \in Nat \ {0}, hash \in Hash, NEW m, MapOk(m, n)
    PROVE  /\ MapOk(RehashUp(m), n * MULTIPLIER) /\ RehashUp(m).size = m.size
           /\ Content(RehashUp(m)) = Content(m)
<1> DEFINE N == n * MULTIPLIER
           before(i) == Used(m) \cap 0..i - 1
<1>1. N \in Nat \ {0} /\ n < N
  <2>1. n \in Nat /\ MULTIPLIER \in Nat /\ MULTIPLIER >= 2 /\ n >= 1
    BY WordAssumption DEF WordAssumption
  <2>2. n * MULTIPLIER >= n * 2
    BY <2>1
  <2> QED BY <2>1, <2>2
<1>2. m \in MapSet(n) /\ m.size = Cardinality(Used(m)) /\ UniqueKeys(m)
  BY DEF MapOk
<1>3. PICK f : IsMoved(f, m, n) /\ RehashUp(m) = f[n]
  BY <1>2, Moves
<1>4. /\ f[0] = CreateHashmap(N)
      /\ \A i \in 1..n : f[i] = IF m.data[i - 1] = Null THEN f[i - 1]
                                ELSE Place(f[i - 1], m.data[i - 1])
  BY <1>3 DEF IsMoved
<1>5. /\ DOMAIN m.data = 0..n - 1 /\ Used(m) \subseteq 0..n - 1 /\ IsFiniteSet(Used(m))
      /\ \A i \in 0..n - 1 : m.data[i] \in Entry \cup {Null}
  BY <1>2, Buckets
<1>6. m.size \in Nat /\ m.size <= n
  <2>1. Cardinality(0..n - 1) = n /\ IsFiniteSet(0..n - 1)
    BY FS_Interval
  <2> QED BY <1>2, <1>5, <2>1, FS_Subset, FS_CardinalityType
<1> HIDE DEF N
<1> DEFINE G == {i \in 0..n : /\ MapOk(f[i], N) /\ f[i].size = Cardinality(before(i))
                              /\ Content(f[i]) = {m.data[j] : j \in before(i)}}
<1>7. 0 \in G
  <2>1. before(0) = {}
    OBVIOUS
  <2>2. MapOk(f[0], N) /\ f[0].size = 0 /\ Used(f[0]) = {}
    BY <1>1, <1>4, CreateOk
  <2> QED BY <2>1, <2>2, FS_EmptySet DEF Content
<1>8. ASSUME NEW i \in 0..n - 1, i \in G PROVE i + 1 \in G
  <2> DEFINE x == f[i]
             e == m.data[i]
  <2>1. f[i + 1] = IF e = Null THEN x ELSE Place(x, e)
    <3>1. i + 1 \in 1..n /\ (i + 1) - 1 = i
      OBVIOUS
    <3> QED BY <1>4, <3>1
  <2>2. MapOk(x, N) /\ x.size = Cardinality(before(i)) /\ Content(x) = {m.data[j] : j \in before(i)}
    BY <1>8
  <2>3. i + 1 \in 0..n
    OBVIOUS
  <2>4. CASE e = Null
    <3>1. before(i + 1) = before(i)
      BY <2>4 DEF Used
    <3> QED BY <2>1, <2>2, <2>3, <2>4, <3>1
  <2>5. CASE e # Null
    <3>1. before(i + 1) = before(i) \cup {i} /\ i \notin before(i) /\ i \in Used(m)
      BY <1>5, <2>5 DEF Used
    <3>2. IsFiniteSet(before(i)) /\ Cardinality(before(i)) <= m.size
      BY <1>2, <1>5, FS_Subset
    <3>3. Cardinality(before(i + 1)) = Cardinality(before(i)) + 1
      BY <3>1, <3>2, FS_AddElement
    <3>4. x.size < N
      <4>1. Cardinality(before(i)) \in Nat
        BY <3>2, FS_CardinalityType
      <4> QED BY <1>1, <1>6, <2>2, <3>2, <4>1
    <3>5. e \in Entry
      BY <1>5, <2>5
    <3>6. \A b \in Used(x) : x.data[b].key # e.key
      <4> SUFFICES ASSUME NEW b \in Used(x), x.data[b].key = e.key PROVE FALSE
        OBVIOUS
      <4>1. PICK j \in before(i) : x.data[b] = m.data[j]
        BY <2>2 DEF Content
      <4>2. j \in Used(m) /\ j # i
        BY <3>1
      <4> QED BY <1>2, <3>1, <4>1, <4>2 DEF UniqueKeys
    <3> HIDE DEF x, e
    <3>7. /\ MapOk(Place(x, e), N) /\ Place(x, e).size = x.size + 1
          /\ Content(Place(x, e)) = Content(x) \cup {e}
      BY <1>1, <2>2, <3>4, <3>5, <3>6, PlaceOk
    <3>8. Content(Place(x, e)) = {m.data[j] : j \in before(i + 1)}
      BY <2>2, <3>1, <3>7 DEF e
    <3> HIDE DEF before
    <3> QED BY <2>1, <2>2, <2>3, <2>5, <3>3, <3>7, <3>8
  <2> QED BY <2>4, <2>5
<1>9. n \in G
  <2> HIDE DEF G
  <2> QED BY <1>7, <1>8, UpTo
<1>10. before(n) = Used(m)
  BY <1>5
<1> QED BY <1>2, <1>3, <1>9, <1>10 DEF Content, N

-----------------------------------------------------------------------------
\* A probe for a key finds its entry, and get the value in it.
LEMMA Lookup ==
    ASSUME NEW n \in Nat \ {0}, hash \in Hash, NEW m, MapOk(m, n), NEW k \in Word
    PROVE  /\ (\A i \in Used(m) : m.data[i].key # k) => Found(m, k) = {} /\ Get(m, k) = 0
           /\ \A i \in Used(m) : m.data[i].key = k =>
                 /\ \E d \in 0..n - 1 : At(k, d, n) = i /\ Found(m, k) = {d}
                 /\ FirstOf(m, k, Found(m, k)) = i /\ Get(m, k) = m.data[i].value
<1>1. m \in MapSet(n) /\ UniqueKeys(m) /\ Reached(m, n)
  BY DEF MapOk
<1>2. /\ DOMAIN m.data = 0..n - 1 /\ ArrSize(m) = n /\ Used(m) \subseteq 0..n - 1
      /\ \A d \in 0..n - 1 : Probe(m, k)[d] = At(k, d, n)
      /\ \A i \in 0..n - 1 : m.data[i] \in Entry \cup {Null}
  BY <1>1, Buckets
<1>3. Found(m, k) = {d \in 0..n - 1 : m.data[At(k, d, n)].key = k}
  BY <1>2 DEF Found
<1>4. Null.key # k /\ 0 \in 0..n - 1
  BY WordAssumption DEF WordAssumption, Null
<1>5. \A d \in 0..n - 1 : At(k, d, n) \in 0..n - 1
  BY Ring
<1>6. \A d \in Found(m, k) : At(k, d, n) \in Used(m) /\ m.data[At(k, d, n)].key = k
  <2> TAKE d \in Found(m, k)
  <2>1. d \in 0..n - 1 /\ m.data[At(k, d, n)].key = k
    BY <1>3
  <2>2. At(k, d, n) \in 0..n - 1 /\ m.data[At(k, d, n)] # Null
    BY <1>4, <1>5, <2>1
  <2> QED BY <1>2, <2>1, <2>2 DEF Used
<1>7. (\A i \in Used(m) : m.data[i].key # k) => Found(m, k) = {} /\ Get(m, k) = 0
  BY <1>6 DEF Get
<1>8. ASSUME NEW i \in Used(m), m.data[i].key = k
      PROVE  /\ \E d \in 0..n - 1 : At(k, d, n) = i /\ Found(m, k) = {d}
             /\ FirstOf(m, k, Found(m, k)) = i /\ Get(m, k) = m.data[i].value
  <2>1. PICK d \in 0..n - 1 : At(k, d, n) = i
    BY <1>2, Ring
  <2>2. Found(m, k) = {d}
    <3>1. d \in Found(m, k)
      BY <1>3, <1>8, <2>1
    <3>2. ASSUME NEW e \in Found(m, k) PROVE e = d
      <4>1. e \in 0..n - 1 /\ At(k, e, n) = i
        BY <1>1, <1>3, <1>6, <1>8 DEF UniqueKeys
      <4> QED BY <2>1, <4>1, Ring
    <3> QED BY <3>1, <3>2
  <2>3. Min({d}) = d
    <3>1. {d} \in SUBSET Nat /\ {d} # {}
      OBVIOUS
    <3> QED BY <3>1, MinNat
  <2>4. FirstOf(m, k, Found(m, k)) = i
    BY <1>2, <2>1, <2>2, <2>3 DEF FirstOf
  <2>5. m.data[Probe(m, k)[0]] # Null
    <3>1. Probe(m, k)[0] = At(k, 0, n)
      BY <1>2, <1>4
    <3>2. CASE d = 0
      <4>1. At(k, 0, n) = i
        BY <2>1, <3>2
      <4> QED BY <3>1, <4>1 DEF Used
    <3>3. CASE d # 0
      <4>1. 0 \in 0..d - 1
        BY <3>3
      <4>2. m.data[At(k, 0, n)] # Null
        BY <1>1, <1>8, <2>1, <4>1 DEF Reached
      <4> QED BY <3>1, <4>2
    <3> QED BY <3>2, <3>3
  <2> QED BY <2>1, <2>2, <2>4, <2>5 DEF Get
<1> QED BY <1>7, <1>8

\* xremove frees the bucket of the entry.
LEMMA Removed ==
    ASSUME NEW n \in Nat \ {0}, hash \in Hash, NEW m, MapOk(m, n),
           NEW k, NEW i \in Used(m), m.data[i].key = k
    PROVE  /\ XRemove(m, k) \in MapSet(n) /\ XRemove(m, k).data = [m.data EXCEPT ![i] = Null]
           /\ XRemove(m, k).size = m.size - 1 /\ Used(XRemove(m, k)) = Used(m) \ {i}
           /\ XRemove(m, k).size = Cardinality(Used(XRemove(m, k)))
<1> DEFINE r == XRemove(m, k)
<1>1. m \in MapSet(n) /\ m.size = Cardinality(Used(m))
  BY DEF MapOk
<1>2. /\ DOMAIN m.data = 0..n - 1 /\ Used(m) \subseteq 0..n - 1 /\ IsFiniteSet(Used(m)) /\ k \in Word
  BY <1>1, Buckets
<1>3. Found(m, k) # {} /\ FirstOf(m, k, Found(m, k)) = i
  BY <1>2, Lookup
<1>4. r = [m EXCEPT !.data[i] = Null, !.size = @ - 1]
  BY <1>3 DEF XRemove
<1> HIDE DEF r
<1>5. /\ m \in [data : [0..n - 1 -> Entry \cup {Null}], size : Nat, limit : {n \div 2}]
      /\ m.data \in [0..n - 1 -> Entry \cup {Null}]
  BY <1>1 DEF MapSet
<1>6. r.data = [m.data EXCEPT ![i] = Null] /\ r.size = m.size - 1 /\ r.limit = m.limit
  BY <1>4, <1>5
<1>7. Used(r) = Used(m) \ {i}
  BY <1>2, <1>6 DEF Used
<1>8. Cardinality(Used(r)) = m.size - 1
  BY <1>1, <1>2, <1>7, FS_RemoveElement
<1>9. r.size \in Nat
  <2>1. IsFiniteSet(Used(r))
    BY <1>2, <1>7, FS_RemoveElement
  <2> QED BY <1>6, <1>8, <2>1, FS_CardinalityType
<1>10. r \in MapSet(n)
  <2>1. r.data \in [0..n - 1 -> Entry \cup {Null}]
    BY <1>5, <1>6
  <2>2. r \in [data : [0..n - 1 -> Entry \cup {Null}], size : Nat, limit : {n \div 2}]
    BY <1>4, <1>5, <1>6, <1>9, <2>1
  <2> QED BY <2>2 DEF MapSet
<1> QED BY <1>4, <1>6, <1>7, <1>8, <1>10 DEF r

\* An entry that replaces one of the same key takes its bucket: between xremove
\* and put the map does not grow, and no other bucket before it is free.
LEMMA Replaced ==
    ASSUME NEW n \in Nat \ {0}, hash \in Hash, NEW m, MapOk(m, n), m.size <= n \div 2 + 1,
           NEW i \in Used(m), NEW v \in Nat \ {0}
    PROVE  LET k == m.data[i].key IN
           Put(XRemove(m, k), k, v) = [m EXCEPT !.data[i] = [key |-> k, value |-> v]]
<1> DEFINE k == m.data[i].key
           r == XRemove(m, k)
           e == [key |-> k, value |-> v]
           free == {d \in 0..n - 1 : r.data[At(k, d, n)] = Null}
<1>1. m \in MapSet(n) /\ UniqueKeys(m) /\ Reached(m, n)
  BY DEF MapOk
<1>2. /\ r \in MapSet(n) /\ r.data = [m.data EXCEPT ![i] = Null] /\ r.size = m.size - 1
  BY SMTT(30), Removed
<1> HIDE DEF r
<1>3. /\ ArrSize(r) = n /\ \A d \in 0..n - 1 : Probe(r, k)[d] = At(k, d, n)
      /\ DOMAIN m.data = 0..n - 1 /\ i \in 0..n - 1 /\ k \in Word
  BY <1>1, <1>2, Buckets
<1>4. m.limit = n \div 2 /\ r.limit = n \div 2 /\ m.size \in Nat /\ n \div 2 \in Nat
  BY <1>1, <1>2 DEF MapSet
<1>5. Put(r, k, v) = Place(r, e)
  BY <1>2, <1>4 DEF Put, HasRoom
<1>15. /\ \A d \in 0..n - 1 : At(k, d, n) \in 0..n - 1
       /\ \A c, d \in 0..n - 1 : At(k, c, n) = At(k, d, n) => c = d
       /\ \E d \in 0..n - 1 : At(k, d, n) = i
  <2> HIDE DEF k, e, free
  <2> QED BY <1>3, Ring
<1>6. PICK d \in 0..n - 1 : At(k, d, n) = i
  BY <1>15
<1>7. d \in free
  BY <1>2, <1>3, <1>6
<1>8. ASSUME NEW c \in free PROVE d <= c
  <2>1. CASE c < d
    <3>1. c \in 0..d - 1 /\ c \in 0..n - 1
      BY <2>1
    <3>2. m.data[At(k, c, n)] # Null
      BY <1>1, <1>6, <3>1 DEF Reached
    <3>3. At(k, c, n) \in 0..n - 1 /\ At(k, c, n) # i
      BY <1>6, <1>15, <2>1, <3>1
    <3>4. r.data[At(k, c, n)] # Null
      BY <1>2, <1>3, <3>2, <3>3
    <3> QED BY <1>8, <3>4
  <2> QED BY <2>1
<1>9. free \in SUBSET Nat /\ free # {}
  BY <1>7
<1>10. {b \in 0..ArrSize(r) - 1 : r.data[Probe(r, e.key)[b]] = Null} = free /\ e.key = k
  BY <1>3
<1> HIDE DEF free, e, k
<1>11. Min(free) = d
  <2>1. Min(free) \in free /\ \A y \in free : Min(free) <= y
    BY <1>9, MinNat
  <2>2. Min(free) \in Nat
    BY <1>9, <2>1
  <2> QED BY <1>7, <1>8, <2>1, <2>2
<1>12. FirstOf(r, k, free) = i
  BY <1>3, <1>6, <1>11 DEF FirstOf
<1>13. Place(r, e) = [r EXCEPT !.data[i] = e, !.size = @ + 1]
  BY <1>10, <1>12 DEF Place
<1>14. [r EXCEPT !.data[i] = e, !.size = @ + 1] = [m EXCEPT !.data[i] = e]
  <2>1. /\ m \in [data : [0..n - 1 -> Entry \cup {Null}], size : Nat, limit : {n \div 2}]
        /\ m.data \in [0..n - 1 -> Entry \cup {Null}]
    BY <1>1 DEF MapSet
  <2>2. [r.data EXCEPT ![i] = e] = [m.data EXCEPT ![i] = e]
    BY <1>2, <2>1
  <2>3. r.size + 1 = m.size
    BY <1>2, <1>4
  <2>4. r \in [data : [0..n - 1 -> Entry \cup {Null}], size : Nat, limit : {n \div 2}]
    BY <1>2 DEF MapSet
  <2>5. r.limit = m.limit
    BY <1>4
  <2> QED BY <2>1, <2>2, <2>3, <2>4, <2>5
<1> QED BY <1>5, <1>13, <1>14 DEF r, k, e

\* ... and the map stays good.
LEMMA ReplacedOk ==
    ASSUME NEW n \in Nat \ {0}, hash \in Hash, NEW m, MapOk(m, n),
           NEW i \in Used(m), NEW e \in Entry, e.key = m.data[i].key,
           NEW p, p = [m EXCEPT !.data[i] = e]
    PROVE  MapOk(p, n) /\ p.size = m.size /\ Content(p) = (Content(m) \ {m.data[i]}) \cup {e}
<1>1. m \in MapSet(n) /\ m.size = Cardinality(Used(m)) /\ UniqueKeys(m) /\ Reached(m, n)
  BY DEF MapOk
<1>2. /\ DOMAIN m.data = 0..n - 1 /\ Used(m) \subseteq 0..n - 1 /\ i \in 0..n - 1
      /\ \A j \in Used(m) : m.data[j].key \in Word
  BY <1>1, Buckets
<1>3. /\ m \in [data : [0..n - 1 -> Entry \cup {Null}], size : Nat, limit : {n \div 2}]
      /\ m.data \in [0..n - 1 -> Entry \cup {Null}]
  BY <1>1 DEF MapSet
<1>4. p.data = [m.data EXCEPT ![i] = e] /\ p.size = m.size /\ p \in MapSet(n)
  <2>1. p.data = [m.data EXCEPT ![i] = e] /\ p.size = m.size /\ p.limit = m.limit
    BY <1>3
  <2>2. [m.data EXCEPT ![i] = e] \in [0..n - 1 -> Entry \cup {Null}]
    BY <1>3
  <2>3. p \in [data : [0..n - 1 -> Entry \cup {Null}], size : Nat, limit : {n \div 2}]
    BY <1>3, <2>2
  <2> QED BY <2>1, <2>3 DEF MapSet
<1>5. /\ DOMAIN p.data = 0..n - 1 /\ p.data[i] = e
      /\ \A j \in 0..n - 1 : j # i => p.data[j] = m.data[j]
  BY <1>2, <1>4
<1>6. Used(p) = Used(m)
  BY <1>2, <1>5, EntryNotNull DEF Used
<1>7. \A j \in Used(m) : p.data[j].key = m.data[j].key
  BY <1>2, <1>5
<1>8. UniqueKeys(p)
  BY <1>1, <1>6, <1>7 DEF UniqueKeys
<1>9. Reached(p, n)
  <2> SUFFICES ASSUME NEW j \in Used(m), NEW d \in 0..n - 1, At(m.data[j].key, d, n) = j,
                      NEW c \in 0..d - 1
               PROVE  p.data[At(m.data[j].key, c, n)] # Null
    BY <1>6, <1>7 DEF Reached
  <2>1. c \in 0..n - 1
    OBVIOUS
  <2>2. m.data[At(m.data[j].key, c, n)] # Null
    BY <1>1 DEF Reached
  <2>3. At(m.data[j].key, c, n) \in 0..n - 1
    BY <1>2, <2>1, Ring
  <2> QED BY <1>5, <2>2, <2>3, EntryNotNull
<1>10. Content(p) = (Content(m) \ {m.data[i]}) \cup {e}
  <2>1. \A j \in Used(m) : j # i => m.data[j] # m.data[i]
    BY <1>1 DEF UniqueKeys
  <2> QED BY <1>2, <1>5, <1>6, <2>1 DEF Content
<1> QED BY <1>1, <1>4, <1>6, <1>8, <1>9, <1>10 DEF MapOk

-----------------------------------------------------------------------------
\* The end of a word makes a good map of a good one, which counts it.
LEMMA CountedOk ==
    ASSUME NEW n \in Nat \ 0..2, hash \in Hash, NEW m, MapOk(m, n), m.size <= n \div 2 + 1,
           NEW k \in Word
    PROVE  /\ \E N \in Nat \ 0..2 : /\ N >= n /\ MapOk(Counted(m, k), N)
                                    /\ Counted(m, k).size <= N \div 2 + 1
           /\ \/ /\ \A i \in Used(m) : m.data[i].key # k
                 /\ Counted(m, k).size = m.size + 1
                 /\ Content(Counted(m, k)) = Content(m) \cup {[key |-> k, value |-> 1]}
              \/ \E i \in Used(m) :
                 /\ m.data[i].key = k /\ Counted(m, k).size = m.size
                 /\ Content(Counted(m, k)) = (Content(m) \ {m.data[i]})
                                             \cup {[key |-> k, value |-> m.data[i].value + 1]}
<1> DEFINE one == [key |-> k, value |-> 1]
           p == Counted(m, k)
<1>1. m \in MapSet(n) /\ m.limit = n \div 2 /\ m.size \in Nat /\ n \div 2 \in Nat
  BY DEF MapOk, MapSet
<1>2. \A i \in Used(m) : m.data[i] \in Entry
  BY <1>1, Buckets
<1>3. one \in Entry /\ one.key = k
  BY DEF Entry
<1>4. CASE \A i \in Used(m) : m.data[i].key # k
  <2>1. p = Put(m, k, 1)
    BY <1>4, Lookup DEF Counted
  <2>2. CASE HasRoom(m)
    <3>1. p = Place(m, one)
      BY <2>1, <2>2 DEF Put
    <3>2. m.size < n /\ m.size <= n \div 2
      BY <1>1, <2>2 DEF HasRoom
    <3> HIDE DEF one, p
    <3>3. /\ MapOk(p, n) /\ p.size = m.size + 1
          /\ Content(p) = Content(m) \cup {one}
      BY <1>3, <1>4, <3>1, <3>2, PlaceOk
    <3>4. p.size <= n \div 2 + 1
      BY <1>1, <3>2, <3>3
    <3> QED BY <1>4, <3>3, <3>4 DEF one, p
  <2>3. CASE ~ HasRoom(m)
    <3> DEFINE r == RehashUp(m)
               N == n * MULTIPLIER
    <3>1. p = Place(r, one)
      BY <2>1, <2>3 DEF Put
    <3>2. MapOk(r, N) /\ r.size = m.size /\ Content(r) = Content(m)
      BY RehashOk
    <3>3. N \in Nat \ 0..2 /\ N >= n /\ m.size < N /\ m.size + 1 <= N \div 2 + 1
      <4>1. n \in Nat /\ MULTIPLIER \in Nat /\ MULTIPLIER >= 2 /\ n >= 3
        BY WordAssumption DEF WordAssumption
      <4>2. N \in Nat /\ N >= n * 2
        BY <4>1
      <4> HIDE DEF N
      <4>3. N \div 2 >= n
        BY <4>1, <4>2
      <4> QED BY <1>1, <4>1, <4>2, <4>3
    <3>4. \A i \in Used(r) : r.data[i].key # k
      <4> SUFFICES ASSUME NEW i \in Used(r), r.data[i].key = k PROVE FALSE
        OBVIOUS
      <4>1. PICK j \in Used(m) : m.data[j] = r.data[i]
        BY <3>2 DEF Content
      <4> QED BY <1>4, <4>1
    <3> HIDE DEF one, p, r, N
    <3>5. MapOk(p, N) /\ p.size = r.size + 1 /\ Content(p) = Content(r) \cup {one}
      BY <1>3, <3>1, <3>2, <3>3, <3>4, PlaceOk
    <3> QED BY <1>4, <3>2, <3>3, <3>5 DEF one, p
  <2> QED BY <2>2, <2>3
<1>5. ASSUME NEW i \in Used(m), m.data[i].key = k
      PROVE  /\ MapOk(p, n) /\ p.size = m.size
             /\ Content(p) = (Content(m) \ {m.data[i]})
                             \cup {[key |-> k, value |-> m.data[i].value + 1]}
  <2> DEFINE v == m.data[i].value + 1
             e == [key |-> k, value |-> v]
  <2>1. m.data[i].value \in Nat \ {0}
    BY <1>2 DEF Entry
  <2>2. Get(m, k) = m.data[i].value
    BY <1>5, Lookup
  <2>3. p = Put(XRemove(m, k), k, v)
    BY <2>1, <2>2 DEF Counted
  <2>4. v \in Nat \ {0} /\ e \in Entry /\ e.key = k
    BY <2>1 DEF Entry
  <2> HIDE DEF v, p
  <2>5. p = [m EXCEPT !.data[i] = e]
    <3>1. n \in Nat \ {0}
      OBVIOUS
    <3>2. Put(XRemove(m, m.data[i].key), m.data[i].key, v)
          = [m EXCEPT !.data[i] = [key |-> m.data[i].key, value |-> v]]
      BY <2>4, <3>1, Replaced
    <3> QED BY <1>5, <2>3, <3>2
  <2> HIDE DEF e
  <2>6. MapOk(p, n) /\ p.size = m.size /\ Content(p) = (Content(m) \ {m.data[i]}) \cup {e}
    BY <1>5, <2>4, <2>5, ReplacedOk
  <2> QED BY <2>6 DEF e, v
<1>6. CASE \E i \in Used(m) : m.data[i].key = k
  <2>1. PICK i \in Used(m) : m.data[i].key = k
    BY <1>6
  <2> HIDE DEF p
  <2>2. /\ MapOk(p, n) /\ p.size = m.size
        /\ Content(p) = (Content(m) \ {m.data[i]})
                        \cup {[key |-> k, value |-> m.data[i].value + 1]}
    BY <1>5, <2>1
  <2>3. n \in Nat \ 0..2 /\ n >= n
    OBVIOUS
  <2> QED BY <2>1, <2>2, <2>3 DEF p
<1> QED BY <1>4, <1>6

-----------------------------------------------------------------------------
(***************************************************************************)
(* The inductive invariant of wordFreq: the map is good and has the        *)
(* entries of the frequency table, and those are what is allocated.        *)
(***************************************************************************)
Table == {[key |-> w, value |-> freq[w]] : w \in {x \in Word : freq[x] > 0}}

Sized(m, n) == MapOk(m, n) /\ n >= INITIAL_SIZE /\ m.size <= n \div 2 + 1

WInv ==
    /\ hash \in Hash /\ word \in Word \cup {NoWord} /\ heap \in Nat
    /\ phase \in {"read", "count", "print", "exit", "crash"}
    /\ nread \in 0..MaxRead /\ freq \in [Word -> Nat]
    /\ \E n \in Nat \ 0..2 : Sized(map, n)
    /\ Content(map) = Table
    /\ phase \in {"read", "count", "print"} => heap = map.size
    /\ phase = "exit" => heap = 0

\* It holds at the start.
LEMMA WInvInit == Init => WInv
<1> SUFFICES ASSUME Init PROVE WInv
  OBVIOUS
<1>1. INITIAL_SIZE \in Nat \ 0..2 /\ INITIAL_SIZE \in Nat \ {0} /\ MaxRead \in Nat
  BY WordAssumption DEF WordAssumption
<1>2. MapOk(map, INITIAL_SIZE) /\ map.size = 0 /\ Used(map) = {}
  BY <1>1, CreateOk DEF Init
<1>3. Sized(map, INITIAL_SIZE)
  <2>1. INITIAL_SIZE \div 2 \in Nat
    BY <1>1
  <2> QED BY <1>1, <1>2, <2>1 DEF Sized
<1>4. Content(map) = {} /\ Table = {}
  BY <1>2 DEF Content, Table, Init
<1> QED BY <1>1, <1>2, <1>3, <1>4 DEF WInv, Init

\* The end of the program frees the entries of the map.
LEMMA ExitFrees ==
    ASSUME WInv, NEW m, NEW live, live = Cardinality(Used(m)), live \in Nat, Exit(m, live)
    PROVE  heap' = 0 /\ phase' = "exit"
BY DEF Exit, Entries

\* Get tells whether a word was counted.
LEMMA GetRight ==
    ASSUME WInv, NEW k \in Word
    PROVE  /\ Get(map, k) = freq[k]
           /\ freq[k] > 0 => \E i \in Used(map) : map.data[i] = [key |-> k, value |-> freq[k]]
           /\ freq[k] = 0 => \A i \in Used(map) : map.data[i].key # k
<1>1. PICK n \in Nat \ 0..2 : MapOk(map, n)
  BY DEF WInv, Sized
<1>2. freq[k] \in Nat /\ hash \in Hash /\ n \in Nat \ {0}
  BY DEF WInv
<1>3. CASE freq[k] > 0
  <2>1. [key |-> k, value |-> freq[k]] \in Content(map)
    BY <1>3 DEF WInv, Table
  <2>2. PICK i \in Used(map) : map.data[i] = [key |-> k, value |-> freq[k]]
    BY <2>1 DEF Content
  <2>3. map.data[i].key = k /\ map.data[i].value = freq[k]
    BY <2>2
  <2> QED BY <1>1, <1>2, <1>3, <2>2, <2>3, Lookup
<1>4. CASE freq[k] = 0
  <2>1. ASSUME NEW i \in Used(map), map.data[i].key = k PROVE FALSE
    <3>1. map.data[i] \in Table
      BY DEF WInv, Content
    <3>2. PICK w \in Word : freq[w] > 0 /\ map.data[i] = [key |-> w, value |-> freq[w]]
      BY <3>1 DEF Table
    <3> QED BY <1>4, <2>1, <3>2
  <2> QED BY <1>1, <1>2, <1>4, <2>1, Lookup
<1> QED BY <1>2, <1>3, <1>4

\* A step that leaves the map and the table alone, and what is allocated.
LEMMA WUnmoved ==
    ASSUME WInv, UNCHANGED <<hash, map, freq>>, word' \in Word \cup {NoWord},
           nread' \in 0..MaxRead, phase' \in {"read", "count", "print", "exit", "crash"},
           heap' \in Nat, phase' \in {"read", "count", "print"} => heap' = map.size,
           phase' = "exit" => heap' = 0
    PROVE  WInv'
<1>1. Content(map)' = Content(map) /\ Table' = Table
  BY DEF Content, Used, Table
<1>2. PICK n \in Nat \ 0..2 : Sized(map, n)
  BY DEF WInv
<1>3. Sized(map, n)'
  BY <1>2 DEF Sized, MapOk, UniqueKeys, Reached, At, Used, MapSet
<1> QED BY <1>1, <1>3 DEF WInv

\* Every step keeps it.
LEMMA WInvStep == WInv /\ [Next]_vars => WInv'
<1> SUFFICES ASSUME WInv, [Next]_vars PROVE WInv'
  OBVIOUS
<1>1. PICK n \in Nat \ 0..2 : Sized(map, n)
  BY DEF WInv
<1>2. map.size = Cardinality(Used(map)) /\ MapOk(map, n) /\ map.size <= n \div 2 + 1 /\ n >= INITIAL_SIZE
  BY <1>1 DEF Sized, MapOk
<1>3. n \in Nat \ {0} /\ hash \in Hash /\ INITIAL_SIZE \in Nat
  BY WordAssumption DEF WInv, WordAssumption
<1>4. map.size \in Nat
  BY <1>2 DEF MapOk, MapSet
<1>5. CASE UNCHANGED vars
  BY <1>5, WUnmoved DEF vars, WInv
<1>6. CASE ReadFile
  <2>1. phase = "read" /\ heap = Cardinality(Used(map)) /\ UNCHANGED <<hash, map, word, nread, freq>>
    BY <1>2, <1>6 DEF ReadFile, WInv
  <2>2. CASE phase' = "count" /\ UNCHANGED heap
    BY <2>1, <2>2, WUnmoved DEF WInv
  <2>3. CASE Exit(map, heap)
    <3>1. heap' = 0 /\ phase' = "exit"
      BY <2>1, <2>3, ExitFrees DEF WInv
    <3> QED BY <2>1, <3>1, WUnmoved DEF WInv
  <2> QED BY <1>6, <2>2, <2>3 DEF ReadFile
<1>7. ASSUME NEW w \in Word, BeginWord(w) PROVE WInv'
  <2>1. nread + 1 \in 0..MaxRead
    BY <1>7, WordAssumption DEF BeginWord, WInv, WordAssumption
  <2> QED BY <1>7, <2>1, WUnmoved DEF BeginWord, WInv
<1>8. CASE EndWord
  <2> DEFINE p == Counted(map, word)
  <2>1. /\ word \in Word /\ heap = map.size /\ phase = "count"
        /\ map' = p /\ word' = NoWord /\ heap' = Released(word) + 1
        /\ freq' = [freq EXCEPT ![word] = @ + 1] /\ UNCHANGED <<hash, phase, nread>>
    BY <1>8 DEF EndWord, WInv
  <2>2. /\ \E N \in Nat \ 0..2 : N >= n /\ MapOk(p, N) /\ p.size <= N \div 2 + 1
        /\ \/ /\ \A i \in Used(map) : map.data[i].key # word
              /\ p.size = map.size + 1
              /\ Content(p) = Content(map) \cup {[key |-> word, value |-> 1]}
           \/ \E i \in Used(map) :
              /\ map.data[i].key = word /\ p.size = map.size
              /\ Content(p) = (Content(map) \ {map.data[i]})
                              \cup {[key |-> word, value |-> map.data[i].value + 1]}
    BY <1>2, <1>3, <2>1, CountedOk
  <2> HIDE DEF p
  <2>3. PICK N \in Nat \ 0..2 : N >= n /\ MapOk(p, N) /\ p.size <= N \div 2 + 1
    BY <2>2
  <2>4. Sized(map, N)'
    <3>1. Sized(p, N)
      BY <1>2, <1>3, <2>3 DEF Sized
    <3> QED BY <2>1, <3>1 DEF Sized, MapOk, UniqueKeys, Reached, At, Used, MapSet
  <2>5. /\ freq \in [Word -> Nat] /\ freq' \in [Word -> Nat] /\ freq'[word] = freq[word] + 1
        /\ \A w \in Word : w # word => freq'[w] = freq[w]
    BY <2>1 DEF WInv
  <2>6. Content(map)' = Content(p)
    BY <2>1 DEF Content, Used
  <2>7. Content(map) = Table /\ Get(map, word) = freq[word]
    BY <2>1, GetRight DEF WInv
  <2>8. CASE freq[word] = 0
    <3>1. \A i \in Used(map) : map.data[i].key # word
      BY <2>1, <2>8, GetRight
    <3>2. p.size = map.size + 1 /\ Content(p) = Table \cup {[key |-> word, value |-> 1]}
      BY <2>2, <2>7, <3>1
    <3>3. Table' = Table \cup {[key |-> word, value |-> 1]}
      BY <2>1, <2>5, <2>8 DEF Table
    <3>4. heap' = map.size + 1
      BY <2>1, <2>7, <2>8 DEF Released
    <3> QED BY <1>4, <2>1, <2>3, <2>4, <2>5, <2>6, <3>2, <3>3, <3>4 DEF WInv
  <2>9. CASE freq[word] > 0
    <3> DEFINE old == [key |-> word, value |-> freq[word]]
               new == [key |-> word, value |-> freq[word] + 1]
    <3>1. PICK j \in Used(map) : map.data[j] = old
      BY <2>1, <2>9, GetRight
    <3>2. PICK i \in Used(map) :
              /\ map.data[i].key = word /\ p.size = map.size
              /\ Content(p) = (Content(map) \ {map.data[i]})
                              \cup {[key |-> word, value |-> map.data[i].value + 1]}
      BY <2>2, <3>1
    <3>3. i = j
      BY <1>2, <3>1, <3>2 DEF MapOk, UniqueKeys
    <3>4. Content(p) = (Table \ {old}) \cup {new}
      BY <2>7, <3>1, <3>2, <3>3
    <3>5. Table' = (Table \ {old}) \cup {new}
      <4> DEFINE e(w) == [key |-> w, value |-> freq[w]]
                 f(w) == [key |-> w, value |-> freq'[w]]
      <4>1. \A w \in Word : w # word => f(w) = e(w) /\ e(w) # old /\ (freq'[w] > 0 <=> freq[w] > 0)
        BY <2>5
      <4>2. f(word) = new /\ freq'[word] > 0 /\ e(word) = old
        BY <2>1, <2>5
      <4>3. Table = {e(w) : w \in {x \in Word : freq[x] > 0}}
        BY DEF Table
      <4>4. Table' = {f(w) : w \in {x \in Word : freq'[x] > 0}}
        BY DEF Table
      <4> HIDE DEF e, f, old, new
      <4>5. ASSUME NEW x \in Table' PROVE x \in (Table \ {old}) \cup {new}
        <5>1. PICK w \in Word : freq'[w] > 0 /\ x = f(w)
          BY <4>4
        <5> QED BY <4>1, <4>2, <4>3, <5>1
      <4>6. ASSUME NEW x \in (Table \ {old}) \cup {new} PROVE x \in Table'
        <5>1. CASE x = new
          BY <2>1, <4>2, <4>4, <5>1
        <5>2. CASE x # new
          <6>1. PICK w \in Word : freq[w] > 0 /\ x = e(w)
            BY <4>3, <5>2
          <6>2. w # word
            BY <4>2, <4>6, <5>2, <6>1
          <6> QED BY <4>1, <4>4, <6>1, <6>2
        <5> QED BY <5>1, <5>2
      <4> QED BY <4>5, <4>6
    <3>6. heap' = map.size
      BY <1>4, <2>1, <2>7, <2>9 DEF Released
    <3> QED BY <1>4, <2>1, <2>3, <2>4, <2>5, <2>6, <3>2, <3>4, <3>5, <3>6 DEF WInv
  <2> QED BY <2>1, <2>5, <2>8, <2>9
<1>9. CASE NoEntry
  <2>1. /\ word \in Word /\ heap = Cardinality(Used(map)) /\ UNCHANGED <<hash, map, word, nread, freq>>
    BY <1>2, <1>9 DEF NoEntry, WInv
  <2>2. heap' = 0 /\ phase' = "exit"
    <3>1. CASE Exit(map, heap)
      BY <2>1, <3>1, ExitFrees DEF WInv
    <3>2. CASE Get(map, word) # 0 /\ Exit(XRemove(map, word), Released(word))
      <4>1. freq[word] > 0
        <5>1. Get(map, word) = freq[word]
          BY <2>1, GetRight
        <5>2. freq[word] \in Nat
          BY <2>1 DEF WInv
        <5> QED BY <3>2, <5>1, <5>2
      <4>2. PICK i \in Used(map) : map.data[i].key = word
        <5>1. PICK i \in Used(map) : map.data[i] = [key |-> word, value |-> freq[word]]
          BY <2>1, <4>1, GetRight
        <5> QED BY <5>1
      <4>3. /\ Used(XRemove(map, word)) = Used(map) \ {i}
            /\ XRemove(map, word).size = Cardinality(Used(XRemove(map, word)))
            /\ XRemove(map, word).size = map.size - 1
        <5>1. MapOk(map, n) /\ map.data[i].key = word
          BY <1>2, <4>2
        <5>2. XRemove(map, word).size = map.size - 1
          BY ONLY <1>3, <5>1, Removed
        <5>3. Used(XRemove(map, word)) = Used(map) \ {i}
          BY ONLY <1>3, <5>1, Removed
        <5>4. XRemove(map, word).size = Cardinality(Used(XRemove(map, word)))
          <6>1. IsFiniteSet(Used(map))
            BY <1>3, <5>1, Buckets DEF MapOk
          <6>2. Cardinality(Used(map) \ {i}) = Cardinality(Used(map)) - 1
            BY <6>1, FS_RemoveElement
          <6> QED BY <1>2, <5>2, <5>3, <6>2
        <5> QED BY <5>2, <5>3, <5>4
      <4>4. Released(word) = Cardinality(Used(XRemove(map, word)))
        BY <1>2, <2>1, <3>2, <4>3 DEF Released
      <4>5. Cardinality(Used(XRemove(map, word))) \in Nat
        <5>1. IsFiniteSet(Used(map))
          BY <1>2, <1>3, Buckets DEF MapOk
        <5> QED BY <4>3, <5>1, FS_RemoveElement, FS_CardinalityType
      <4> QED BY <3>2, <4>4, <4>5, ExitFrees
    <3> QED BY <1>9, <3>1, <3>2 DEF NoEntry
  <2> QED BY <2>1, <2>2, WUnmoved DEF WInv
<1>10. CASE NoMap
  BY <1>10, WUnmoved DEF NoMap, WInv
<1>11. CASE EndOfFile
  BY <1>11, WUnmoved DEF EndOfFile, WInv
<1>12. CASE Finish
  <2>1. /\ heap = Cardinality(Used(map)) /\ UNCHANGED <<hash, map, word, nread, freq>>
    BY <1>2, <1>12 DEF Finish, WInv
  <2>2. heap' = 0 /\ phase' = "exit"
    BY <1>12, <2>1, ExitFrees DEF Finish, WInv
  <2> QED BY <2>1, <2>2, WUnmoved DEF WInv
<1> QED BY <1>5, <1>6, <1>7, <1>8, <1>9, <1>10, <1>11, <1>12 DEF Next

-----------------------------------------------------------------------------
(***************************************************************************)
(* printDescending: a round finds one of the most frequent entries that    *)
(* were not printed yet.                                                   *)
(***************************************************************************)
Unprinted(m, printed) == {e \in Content(m) : \A k \in DOMAIN printed : printed[k].key # e.key}

IsBest(f, m, n, printed) ==
    f = [j \in 0..n |-> IF j = 0 THEN Null ELSE Better(m.data[j - 1], f[j - 1], printed)]

\* The round is defined by it.
LEMMA RoundDefined ==
    ASSUME NEW n \in Nat, NEW m \in MapSet(n), NEW printed
    PROVE  \E f : IsBest(f, m, n, printed) /\ NextPrinted(m, printed) = f[n]
                  /\ \A j \in 0..n : f[j] \in Entry \cup {Null}
<1> DEFINE R == Entry \cup {Null}
           step == [j \in 1..n |-> [x \in R |-> Better(m.data[j - 1], x, printed)]]
<1>1. PICK f : IsIterated(f, n, Null, step)
  BY IteratedExists
<1>2. f[0] = Null /\ \A j \in 0..n - 1 : f[j + 1] = step[j + 1][f[j]]
  <2> HIDE DEF step
  <2> QED BY <1>1, IteratedSteps
<1>3. \A j \in 0..n - 1 : m.data[j] \in R
  BY Buckets
<1>4. ASSUME NEW j \in 0..n - 1, NEW x \in R
      PROVE  step[j + 1][x] = Better(m.data[j], x, printed) /\ step[j + 1][x] \in R
  <2>1. j + 1 \in 1..n /\ (j + 1) - 1 = j
    OBVIOUS
  <2>2. step[j + 1][x] = Better(m.data[j], x, printed)
    BY <2>1
  <2> HIDE DEF step
  <2> QED BY <1>3, <2>2 DEF Better
<1> HIDE DEF step, R
<1> DEFINE G == {j \in 0..n : f[j] \in R}
<1>5. \A j \in 0..n : j \in G
  <2>1. 0 \in G
    BY <1>2 DEF R
  <2>2. \A j \in 0..n - 1 : j \in G => j + 1 \in G
    BY <1>2, <1>4
  <2> HIDE DEF G
  <2> QED BY <2>1, <2>2, UpTo
<1>6. \A j \in 1..n : f[j] = Better(m.data[j - 1], f[j - 1], printed)
  <2> TAKE j \in 1..n
  <2>1. j - 1 \in 0..n - 1 /\ (j - 1) + 1 = j /\ j - 1 \in 0..n
    OBVIOUS
  <2>2. f[j - 1] \in R
    BY <1>5, <2>1
  <2> QED BY <1>2, <1>4, <2>1, <2>2
<1>7. IsBest(f, m, n, printed)
  <2>1. f = [j \in 0..n |-> f[j]]
    BY <1>1 DEF IsIterated
  <2>2. \A j \in 0..n : f[j] = IF j = 0 THEN Null ELSE Better(m.data[j - 1], f[j - 1], printed)
    BY <1>2, <1>6
  <2> QED BY <2>1, <2>2 DEF IsBest
<1> DEFINE g == CHOOSE h : IsBest(h, m, n, printed)
<1>8. NextPrinted(m, printed) = g[n]
  <2>1. ArrSize(m) = n
    BY Buckets
  <2> QED BY <2>1 DEF NextPrinted, IsBest
<1>9. IsBest(g, m, n, printed)
  BY <1>7
<1> HIDE DEF g
<1>10. \A j \in 0..n : g[j] = IF j = 0 THEN Null ELSE Better(m.data[j - 1], g[j - 1], printed)
  BY <1>9 DEF IsBest
<1> DEFINE H == {j \in 0..n : g[j] \in R}
<1>11. \A j \in 0..n : j \in H
  <2>1. 0 \in H
    BY <1>10 DEF R
  <2>2. ASSUME NEW j \in 0..n - 1, j \in H PROVE j + 1 \in H
    <3>1. j + 1 \in 0..n /\ j + 1 # 0 /\ (j + 1) - 1 = j
      OBVIOUS
    <3>2. g[j + 1] = Better(m.data[j], g[j], printed)
      BY <1>10, <3>1
    <3> QED BY <1>3, <2>2, <3>1, <3>2 DEF Better
  <2> HIDE DEF H
  <2> QED BY <2>1, <2>2, UpTo
<1> QED BY <1>8, <1>9, <1>11 DEF R

\* What the round finds.
LEMMA RoundRight ==
    ASSUME NEW n \in Nat, NEW m \in MapSet(n), NEW printed, Unprinted(m, printed) # {}
    PROVE  /\ NextPrinted(m, printed) \in Unprinted(m, printed)
           /\ \A e \in Unprinted(m, printed) : e.value <= NextPrinted(m, printed).value
<1> DEFINE U == Unprinted(m, printed)
<1>1. PICK f : IsBest(f, m, n, printed) /\ NextPrinted(m, printed) = f[n]
  BY RoundDefined
<1>2. /\ Used(m) \subseteq 0..n - 1 /\ DOMAIN m.data = 0..n - 1
      /\ \A i \in 0..n - 1 : m.data[i] \in Entry \cup {Null}
  BY Buckets
<1>3. \A i \in 0..n - 1 : m.data[i] \in U <=>
          m.data[i] # Null /\ \A k \in DOMAIN printed : printed[k].key # m.data[i].key
  <2> TAKE i \in 0..n - 1
  <2>1. m.data[i] \in Content(m) => m.data[i] # Null
    BY DEF Content, Used
  <2>2. m.data[i] # Null => m.data[i] \in Content(m)
    BY <1>2 DEF Content, Used
  <2> QED BY <2>1, <2>2 DEF Unprinted
<1>4. \A e \in U : e.value \in Nat \ {0} /\ \E i \in 0..n - 1 : e = m.data[i]
  <2> TAKE e \in U
  <2>1. PICK i \in Used(m) : e = m.data[i]
    BY DEF Unprinted, Content
  <2>2. m.data[i] \in Entry
    BY Buckets
  <2> QED BY <1>2, <2>1, <2>2 DEF Entry
<1>5. f[0] = Null
  BY <1>1 DEF IsBest
<1>6. ASSUME NEW j \in 0..n - 1 PROVE f[j + 1] = Better(m.data[j], f[j], printed)
  <2>1. j + 1 \in 0..n /\ j + 1 # 0 /\ (j + 1) - 1 = j
    OBVIOUS
  <2> QED BY <1>1, <2>1 DEF IsBest
<1>7. Null.value = 0 /\ Null \notin U
  BY EntryNotNull, Buckets DEF Null, Unprinted, Content, Used
<1> HIDE DEF U
<1> DEFINE G == {j \in 0..n :
                    \/ f[j] = Null /\ \A i \in 0..j - 1 : m.data[i] \notin U
                    \/ f[j] \in U /\ \A i \in 0..j - 1 : m.data[i] \in U => m.data[i].value <= f[j].value}
<1>8. 0 \in G
  BY <1>5
<1>9. ASSUME NEW j \in 0..n - 1, j \in G PROVE j + 1 \in G
  <2> DEFINE e == m.data[j]
             x == f[j]
  <2>1. j + 1 \in 0..n /\ \A i \in 0..(j + 1) - 1 : i \in 0..j - 1 \/ i = j
    OBVIOUS
  <2>2. e \in U <=> e # Null /\ \A k \in DOMAIN printed : printed[k].key # e.key
    BY <1>3
  <2>3. f[j + 1] = IF e \in U /\ e.value >= x.value THEN e ELSE x
    BY <1>6, <2>2 DEF Better
  <2>4. CASE x = Null /\ \A i \in 0..j - 1 : m.data[i] \notin U
    <3>1. CASE e \in U
      <4>1. f[j + 1] = e
        BY <1>4, <1>7, <2>3, <2>4, <3>1
      <4>2. e.value <= e.value
        BY <1>4, <3>1
      <4> QED BY <2>1, <2>4, <3>1, <4>1, <4>2
    <3>2. CASE e \notin U
      <4>1. f[j + 1] = Null
        BY <2>3, <2>4, <3>2
      <4> QED BY <2>1, <2>4, <3>2, <4>1
    <3> QED BY <3>1, <3>2
  <2>5. CASE x \in U /\ \A i \in 0..j - 1 : m.data[i] \in U => m.data[i].value <= x.value
    <3>1. x.value \in Nat
      BY <1>4, <2>5
    <3>2. CASE e \in U /\ e.value >= x.value
      <4>1. f[j + 1] = e /\ e.value \in Nat
        BY <1>4, <2>3, <3>2
      <4>2. \A i \in 0..(j + 1) - 1 : m.data[i] \in U => m.data[i].value <= e.value
        <5> TAKE i \in 0..(j + 1) - 1
        <5> SUFFICES ASSUME m.data[i] \in U PROVE m.data[i].value <= e.value
          OBVIOUS
        <5>1. m.data[i].value \in Nat
          BY <1>4
        <5>2. CASE i = j
          BY <4>1, <5>2
        <5>3. CASE i \in 0..j - 1
          <6>1. m.data[i].value <= x.value
            BY <2>5, <5>3
          <6> QED BY <3>1, <3>2, <4>1, <5>1, <6>1
        <5> QED BY <2>1, <5>2, <5>3
      <4> QED BY <2>1, <3>2, <4>1, <4>2
    <3>3. CASE ~ (e \in U /\ e.value >= x.value)
      <4>1. f[j + 1] = x
        BY <2>3, <3>3
      <4>2. e \in U => e.value <= x.value
        BY <1>4, <3>1, <3>3
      <4> QED BY <2>1, <2>5, <4>1, <4>2
    <3> QED BY <3>2, <3>3
  <2> QED BY <1>9, <2>4, <2>5
<1>10. n \in G
  <2> HIDE DEF G
  <2> QED BY <1>8, <1>9, UpTo
<1>11. PICK i \in 0..n - 1 : m.data[i] \in U
  BY <1>4 DEF U
<1>12. f[n] \in U /\ \A k \in 0..n - 1 : m.data[k] \in U => m.data[k].value <= f[n].value
  BY <1>10, <1>11
<1>13. \A e \in U : e.value <= f[n].value
  BY <1>4, <1>12
<1> QED BY <1>1, <1>12, <1>13 DEF U

\* A round prints an entry, or nothing.
LEMMA RoundTyped ==
    ASSUME NEW n \in Nat, NEW m \in MapSet(n), NEW printed
    PROVE  NextPrinted(m, printed) \in Entry \cup {Null}
<1>1. PICK f : /\ NextPrinted(m, printed) = f[n]
               /\ \A j \in 0..n : f[j] \in Entry \cup {Null}
  BY RoundDefined
<1>2. n \in 0..n
  OBVIOUS
<1> QED BY <1>1, <1>2

IsReport(f, m) ==
    f = [i \in 0..m.size |-> IF i = 0 THEN <<>> ELSE Append(f[i - 1], NextPrinted(m, f[i - 1]))]

\* The report is defined by it.
LEMMA ReportDefined ==
    ASSUME NEW n \in Nat, NEW m \in MapSet(n)
    PROVE  \E f : IsReport(f, m) /\ Printed(m) = f[m.size]
<1> DEFINE R == Seq(Entry \cup {Null})
           step == [i \in 1..m.size |-> [x \in R |-> Append(x, NextPrinted(m, x))]]
<1>1. m.size \in Nat
  BY DEF MapSet
<1>2. PICK f : IsIterated(f, m.size, <<>>, step)
  BY <1>1, IteratedExists
<1>3. f[0] = <<>> /\ \A i \in 0..m.size - 1 : f[i + 1] = step[i + 1][f[i]]
  <2> HIDE DEF step
  <2> QED BY <1>1, <1>2, IteratedSteps
<1>4. ASSUME NEW i \in 0..m.size - 1, NEW x \in R
      PROVE  step[i + 1][x] = Append(x, NextPrinted(m, x)) /\ step[i + 1][x] \in R
  <2>1. i + 1 \in 1..m.size
    BY <1>1
  <2>2. step[i + 1][x] = Append(x, NextPrinted(m, x))
    BY <2>1
  <2>3. NextPrinted(m, x) \in Entry \cup {Null}
    BY RoundTyped
  <2> HIDE DEF step
  <2> QED BY <2>2, <2>3
<1> HIDE DEF step, R
<1> DEFINE G == {i \in 0..m.size : f[i] \in R}
<1>5. \A i \in 0..m.size : i \in G
  <2>1. 0 \in G
    <3>1. <<>> \in R /\ 0 \in 0..m.size
      BY <1>1 DEF R
    <3> QED BY <1>3, <3>1
  <2>2. \A i \in 0..m.size - 1 : i \in G => i + 1 \in G
    BY <1>1, <1>3, <1>4
  <2> HIDE DEF G
  <2> QED BY <1>1, <2>1, <2>2, UpTo
<1>6. \A i \in 1..m.size : f[i] = Append(f[i - 1], NextPrinted(m, f[i - 1]))
  <2> TAKE i \in 1..m.size
  <2>1. i - 1 \in 0..m.size - 1 /\ (i - 1) + 1 = i /\ i - 1 \in 0..m.size
    BY <1>1
  <2>2. f[i - 1] \in R
    BY <1>5, <2>1
  <2> QED BY <1>3, <1>4, <2>1, <2>2
<1>7. IsReport(f, m)
  <2>1. f = [i \in 0..m.size |-> f[i]]
    BY <1>2 DEF IsIterated
  <2>2. \A i \in 0..m.size : f[i] = IF i = 0 THEN <<>> ELSE Append(f[i - 1], NextPrinted(m, f[i - 1]))
    <3> TAKE i \in 0..m.size
    <3>1. CASE i = 0
      BY <1>3, <3>1
    <3>2. CASE i # 0
      <4>1. i \in 1..m.size
        BY <1>1, <3>2
      <4> QED BY <1>6, <3>2, <4>1
    <3> QED BY <3>1, <3>2
  <2> QED BY <2>1, <2>2 DEF IsReport
<1>8. Printed(m) = (CHOOSE g : IsReport(g, m))[m.size]
  BY DEF Printed, IsReport
<1>9. IsReport(CHOOSE g : IsReport(g, m), m)
  BY <1>7
<1> QED BY <1>8, <1>9

\* Different entries of a good map are as many as there are buckets used.
LEMMA ContentCount ==
    ASSUME NEW n \in Nat, NEW m, MapOk(m, n)
    PROVE  IsFiniteSet(Content(m)) /\ Cardinality(Content(m)) = m.size
<1> DEFINE f == [i \in Used(m) |-> m.data[i]]
<1>1. /\ m \in MapSet(n) /\ m.size = Cardinality(Used(m)) /\ UniqueKeys(m)
  BY DEF MapOk
<1>2. f \in Bijection(Used(m), Content(m))
  <2>1. f \in [Used(m) -> Content(m)] /\ \A e \in Content(m) : \E i \in Used(m) : f[i] = e
    BY DEF Content
  <2>2. \A i, j \in Used(m) : f[i] = f[j] => i = j
    BY <1>1 DEF UniqueKeys
  <2> HIDE DEF f
  <2> QED BY <2>1, <2>2 DEF Bijection, Injection, Surjection, IsInjective
<1>3. IsFiniteSet(Used(m)) /\ ExistsBijection(Used(m), Content(m))
  BY <1>1, <1>2, Buckets DEF ExistsBijection
<1> QED BY <1>1, <1>3, FS_Bijection

\* What was printed after a number of rounds.
Ordered(p, m) ==
    /\ p \in Seq(Entry)
    /\ \A a \in 1..Len(p) : p[a] \in Content(m)
    /\ \A a, b \in 1..Len(p) : p[a].key = p[b].key => a = b
    /\ \A a \in 1..Len(p) - 1 : p[a].value >= p[a + 1].value
    /\ \A a \in 1..Len(p) : \A e \in Unprinted(m, p) : e.value <= p[a].value

\* There is something to print as long as there were fewer rounds than entries.
LEMMA SomethingLeft ==
    ASSUME NEW n \in Nat, NEW m, MapOk(m, n), NEW p, Ordered(p, m), Len(p) < m.size
    PROVE  Unprinted(m, p) # {}
<1> SUFFICES ASSUME Unprinted(m, p) = {} PROVE FALSE
  OBVIOUS
<1>1. p \in Seq(Entry) /\ Len(p) \in Nat /\ DOMAIN p = 1..Len(p) /\ UniqueKeys(m)
  BY DEF Ordered, MapOk
<1>2. \A e, g \in Content(m) : e.key = g.key => e = g
  BY <1>1 DEF UniqueKeys, Content
<1>3. \A e \in Content(m) : \E a \in 1..Len(p) : p[a] = e
  BY <1>1, <1>2 DEF Unprinted, Ordered
<1>4. p \in Surjection(1..Len(p), Content(m))
  <2>1. p \in [1..Len(p) -> Content(m)]
    BY <1>1 DEF Ordered
  <2> QED BY <1>3, <2>1 DEF Surjection
<1>5. Cardinality(Content(m)) <= Len(p)
  BY <1>1, <1>4, FS_SurjCardinalityBound DEF ExistsSurjection
<1>6. m.size \in Nat
  BY DEF MapOk, MapSet
<1> QED BY <1>1, <1>5, <1>6, ContentCount

\* A round adds to what was printed.
LEMMA RoundAdds ==
    ASSUME NEW n \in Nat, NEW m, MapOk(m, n), NEW p, Ordered(p, m), Len(p) < m.size,
           NEW q, q = Append(p, NextPrinted(m, p))
    PROVE  Ordered(q, m) /\ Len(q) = Len(p) + 1
<1> DEFINE x == NextPrinted(m, p)
<1>1. m \in MapSet(n)
  BY DEF MapOk
<1>2. x \in Unprinted(m, p) /\ \A e \in Unprinted(m, p) : e.value <= x.value
  BY <1>1, SomethingLeft, RoundRight
<1>3. \A e \in Content(m) : e \in Entry
  BY <1>1, Buckets DEF Content
<1>4. x \in Content(m) /\ x \in Entry /\ \A a \in DOMAIN p : p[a].key # x.key
  BY <1>2, <1>3 DEF Unprinted
<1> HIDE DEF x
<1>5. p \in Seq(Entry) /\ Len(p) \in Nat /\ DOMAIN p = 1..Len(p)
  BY DEF Ordered
<1>6. /\ q \in Seq(Entry) /\ Len(q) = Len(p) + 1 /\ q[Len(p) + 1] = x
      /\ \A a \in 1..Len(p) : q[a] = p[a]
      /\ DOMAIN q = 1..Len(p) + 1
  BY <1>4, <1>5 DEF x
<1>7. \A a \in 1..Len(q) : a \in 1..Len(p) \/ a = Len(p) + 1
  BY <1>5, <1>6
<1>8. \A a \in 1..Len(q) : q[a] \in Content(m)
  BY <1>4, <1>6, <1>7 DEF Ordered
<1>9. \A a, b \in 1..Len(q) : q[a].key = q[b].key => a = b
  BY <1>4, <1>5, <1>6, <1>7 DEF Ordered
<1>10. \A a \in 1..Len(q) - 1 : q[a].value >= q[a + 1].value
  <2> TAKE a \in 1..Len(q) - 1
  <2>4. PICK l \in Nat : l = Len(p)
    BY <1>5
  <2>5. a \in 1..(l + 1) - 1
    BY <1>6, <2>4
  <2>6. a \in 1..l /\ (a + 1 \in 1..l \/ a = l) /\ (a # l => a \in 1..l - 1)
    BY ONLY <2>5, l \in Nat
  <2>1. a \in 1..Len(p) /\ (a + 1 \in 1..Len(p) \/ a = Len(p))
    BY <2>4, <2>6
  <2>2. CASE a = Len(p)
    <3>1. q[a] = p[a] /\ q[a + 1] = x /\ p[a] \in Entry
      BY <1>5, <1>6, <2>1, <2>2
    <3>2. x.value <= p[a].value
      BY <1>2, <2>1 DEF Ordered
    <3>3. x.value \in Nat /\ p[a].value \in Nat
      BY <1>4, <3>1 DEF Entry
    <3> QED BY <3>1, <3>2, <3>3
  <2>3. CASE a # Len(p)
    <3>1. a + 1 \in 1..Len(p) /\ a \in 1..Len(p) - 1
      BY <2>3, <2>4, <2>6
    <3> QED BY <1>6, <2>1, <3>1 DEF Ordered
  <2> QED BY <2>2, <2>3
<1>11. ASSUME NEW a \in 1..Len(q), NEW e \in Unprinted(m, q) PROVE e.value <= q[a].value
  <2>1. e \in Unprinted(m, p)
    BY <1>5, <1>6 DEF Unprinted
  <2> QED BY <1>2, <1>6, <1>7, <2>1 DEF Ordered
<1> QED BY <1>6, <1>8, <1>9, <1>10, <1>11 DEF Ordered

\* The report of a good map.
LEMMA ReportRight ==
    ASSUME NEW n \in Nat, NEW m, MapOk(m, n)
    PROVE  /\ Ordered(Printed(m), m) /\ Len(Printed(m)) = m.size
           /\ IsInjective(Printed(m)) /\ Range(Printed(m)) = Content(m)
<1>1. m \in MapSet(n) /\ m.size \in Nat
  BY DEF MapOk, MapSet
<1>2. PICK f : IsReport(f, m) /\ Printed(m) = f[m.size]
  BY <1>1, ReportDefined
<1>3. f[0] = <<>>
  BY <1>1, <1>2 DEF IsReport
<1>4. ASSUME NEW i \in 0..m.size - 1 PROVE f[i + 1] = Append(f[i], NextPrinted(m, f[i]))
  <2>1. i + 1 \in 0..m.size /\ i + 1 # 0 /\ (i + 1) - 1 = i
    BY <1>1
  <2> QED BY <1>2, <2>1 DEF IsReport
<1> DEFINE G == {i \in 0..m.size : Ordered(f[i], m) /\ Len(f[i]) = i}
<1>5. 0 \in G
  <2>1. <<>> \in Seq(Entry) /\ Len(<<>>) = 0
    OBVIOUS
  <2>2. Ordered(<<>>, m)
    BY <2>1 DEF Ordered
  <2>3. 0 \in 0..m.size
    BY <1>1
  <2> QED BY <1>3, <2>1, <2>2, <2>3
<1>6. ASSUME NEW i \in 0..m.size - 1, i \in G PROVE i + 1 \in G
  <2>1. Ordered(f[i], m) /\ Len(f[i]) = i /\ i < m.size /\ i + 1 \in 0..m.size
    BY <1>1, <1>6
  <2>2. Ordered(f[i + 1], m) /\ Len(f[i + 1]) = i + 1
    BY <1>4, <2>1, RoundAdds
  <2> QED BY <2>1, <2>2
<1>7. m.size \in G
  <2> HIDE DEF G
  <2> QED BY <1>1, <1>5, <1>6, UpTo
<1> DEFINE p == Printed(m)
<1>8. Ordered(p, m) /\ Len(p) = m.size
  BY <1>2, <1>7
<1> HIDE DEF p
<1>9. p \in Seq(Entry) /\ DOMAIN p = 1..m.size /\ p \in [1..m.size -> Content(m)]
  BY <1>8 DEF Ordered
<1>10. IsInjective(p)
  BY <1>8, <1>9 DEF Ordered, IsInjective
<1>11. p \in Injection(1..m.size, Content(m))
  BY <1>9, <1>10 DEF Injection
<1>12. Cardinality(1..m.size) = m.size
  BY <1>1, FS_Interval
<1>13. p \in Surjection(1..m.size, Content(m))
  <2>1. IsFiniteSet(Content(m)) /\ Cardinality(Content(m)) = m.size
    BY ContentCount
  <2> QED BY <1>11, <1>12, <2>1, FS_Injection
<1>14. Range(p) = Content(m)
  BY <1>9, <1>13 DEF Range, Surjection
<1> QED BY <1>8, <1>10, <1>14 DEF p

-----------------------------------------------------------------------------
\* The invariant says what the properties say.
LEMMA WInvWords ==
    ASSUME WInv
    PROVE  TypeOK /\ MapIsFrequency /\ NoHoles /\ FreeBucket /\ PrintedDescending /\ EntriesOwned
<1>1. PICK n \in Nat \ 0..2 : Sized(map, n)
  BY DEF WInv
<1>2. /\ MapOk(map, n) /\ map \in MapSet(n) /\ map.size = Cardinality(Used(map)) /\ UniqueKeys(map)
      /\ Reached(map, n) /\ n \in Nat \ {0} /\ n >= INITIAL_SIZE /\ map.size <= n \div 2 + 1
      /\ hash \in Hash
  BY <1>1 DEF Sized, MapOk, WInv
<1>3. /\ DOMAIN map.data = 0..n - 1 /\ ArrSize(map) = n
      /\ Used(map) \subseteq 0..n - 1 /\ IsFiniteSet(Used(map))
      /\ \A k : \A d \in 0..n - 1 : Probe(map, k)[d] = At(k, d, n)
      /\ \A i \in Used(map) : map.data[i] \in Entry /\ map.data[i].key \in Word
  BY <1>2, Buckets
<1>4. map.data \in [0..n - 1 -> Entry \cup {Null}] /\ map.limit = n \div 2 /\ map.size \in Nat
  BY <1>2 DEF MapSet
<1>5. TypeOK
  <2>1. map.size \in 0..map.limit + 1
    BY <1>2, <1>4
  <2> QED BY <1>2, <1>3, <1>4, <2>1 DEF TypeOK, WInv
<1>6. MapIsFrequency
  <2>1. ASSUME NEW w \in Word
        PROVE  /\ Get(map, w) = freq[w]
               /\ Cardinality({i \in Used(map) : map.data[i].key = w}) = IF freq[w] > 0 THEN 1 ELSE 0
    <3>1. freq[w] \in Nat
      BY DEF WInv
    <3>2. Get(map, w) = freq[w]
      BY GetRight
    <3>3. CASE freq[w] > 0
      <4>1. PICK i \in Used(map) : map.data[i] = [key |-> w, value |-> freq[w]]
        BY <3>3, GetRight
      <4>2. {j \in Used(map) : map.data[j].key = w} = {i}
        BY <1>2, <4>1 DEF UniqueKeys
      <4> QED BY <3>2, <3>3, <4>2, FS_Singleton
    <3>4. CASE freq[w] = 0
      <4>1. {j \in Used(map) : map.data[j].key = w} = {}
        BY <3>4, GetRight
      <4>2. Cardinality({j \in Used(map) : map.data[j].key = w}) = 0
        BY <4>1, FS_EmptySet
      <4> QED BY <3>2, <3>4, <4>2
    <3> QED BY <3>1, <3>3, <3>4
  <2> QED BY <1>2, <2>1 DEF MapIsFrequency
<1>7. NoHoles
  <2> SUFFICES ASSUME NEW i \in Used(map), NEW d \in 0..n - 1, d < Min(Found(map, map.data[i].key))
               PROVE  map.data[Probe(map, map.data[i].key)[d]] # Null
    BY <1>3 DEF NoHoles
  <2> DEFINE k == map.data[i].key
  <2>1. PICK c \in 0..n - 1 : At(k, c, n) = i /\ Found(map, k) = {c}
    BY <1>2, <1>3, Lookup
  <2>2. Min({c}) = c
    <3>1. {c} \in SUBSET Nat /\ {c} # {}
      OBVIOUS
    <3> QED BY <3>1, MinNat
  <2>3. d \in 0..c - 1
    BY <2>1, <2>2
  <2>4. map.data[At(k, d, n)] # Null
    BY <1>2, <2>1, <2>3 DEF Reached
  <2> QED BY <1>3, <2>4
<1>8. FreeBucket
  <2>1. Cardinality(0..n - 1) = n
    BY FS_Interval
  <2>2. n \div 2 + 1 < n
    OBVIOUS
  <2>3. Used(map) # 0..n - 1
    BY <1>2, <1>4, <2>1, <2>2
  <2> QED BY <1>3, <2>3 DEF FreeBucket, Used
<1>9. PrintedDescending
  <2> DEFINE p == Printed(map)
  <2>1. Ordered(p, map) /\ IsInjective(p) /\ Range(p) = Content(map)
    BY <1>2, ReportRight
  <2> HIDE DEF p
  <2> QED BY <2>1 DEF PrintedDescending, Ordered, Content, p
<1>10. EntriesOwned
  BY <1>2 DEF EntriesOwned, WInv
<1> QED BY <1>5, <1>6, <1>7, <1>8, <1>9, <1>10

-----------------------------------------------------------------------------
(***************************************************************************)
(* Sums along a sequence of numbers.                                       *)
(***************************************************************************)
IsRunning(to, n, s) == to = [i \in 1..n + 1 |-> IF i = 1 THEN 0 ELSE to[i - 1] + s[i - 1]]

\* They exist.
LEMMA RunningExists ==
    ASSUME NEW n \in Nat, NEW s
    PROVE  \E to : IsRunning(to, n, s)
<1> DEFINE G == {k \in 0..n : \E to : IsRunning(to, k, s)}
<1>1. 0 \in G
  <2>1. IsRunning([i \in 1..0 + 1 |-> 0], 0, s)
    BY DEF IsRunning
  <2> QED BY <2>1
<1>2. ASSUME NEW k \in 0..n - 1, k \in G PROVE k + 1 \in G
  <2>1. PICK f : IsRunning(f, k, s)
    BY <1>2
  <2> DEFINE g == [i \in 1..(k + 1) + 1 |-> IF i = k + 2 THEN f[k + 1] + s[k + 1] ELSE f[i]]
  <2>2. \A i \in 1..k + 1 : f[i] = IF i = 1 THEN 0 ELSE f[i - 1] + s[i - 1]
    BY <2>1 DEF IsRunning
  <2>3. ASSUME NEW i \in 1..(k + 1) + 1
        PROVE  g[i] = IF i = 1 THEN 0 ELSE g[i - 1] + s[i - 1]
    <3>1. CASE i = k + 2
      <4>1. g[i] = f[k + 1] + s[k + 1] /\ g[k + 1] = f[k + 1] /\ i - 1 = k + 1 /\ i # 1
        BY <3>1
      <4> QED BY <4>1
    <3>2. CASE i # k + 2
      <4>1. g[i] = f[i] /\ i \in 1..k + 1
        BY <3>2
      <4>2. i # 1 => i - 1 \in 1..(k + 1) + 1 /\ i - 1 # k + 2
        OBVIOUS
      <4>3. i # 1 => g[i - 1] = f[i - 1]
        BY <4>2
      <4> HIDE DEF g
      <4> QED BY <2>2, <4>1, <4>3
    <3> QED BY <3>1, <3>2
  <2>4. IsRunning(g, k + 1, s)
    BY <2>3 DEF IsRunning
  <2> QED BY <2>4
<1> HIDE DEF G
<1>3. n \in G
  BY <1>1, <1>2, UpTo
<1> QED BY <1>3 DEF G

\* What they are.
LEMMA RunningSums ==
    ASSUME NEW n \in Nat, NEW s \in [1..n -> Nat], NEW to, IsRunning(to, n, s)
    PROVE  /\ to \in [1..n + 1 -> Nat] /\ to[1] = 0
           /\ \A i \in 1..n : to[i + 1] = to[i] + s[i]
<1>1. \A i \in 1..n + 1 : to[i] = IF i = 1 THEN 0 ELSE to[i - 1] + s[i - 1]
  BY DEF IsRunning
<1>2. to[1] = 0
  BY <1>1
<1>3. ASSUME NEW i \in 1..n PROVE to[i + 1] = to[i] + s[i]
  <2>1. i + 1 \in 1..n + 1 /\ i + 1 # 1 /\ (i + 1) - 1 = i
    OBVIOUS
  <2> QED BY <1>1, <2>1
<1> DEFINE G == {k \in 0..n : to[k + 1] \in Nat}
<1>4. 0 \in G
  BY <1>2
<1>5. ASSUME NEW k \in 0..n - 1, k \in G PROVE k + 1 \in G
  <2>1. k + 1 \in 1..n
    OBVIOUS
  <2>2. to[(k + 1) + 1] = to[k + 1] + s[k + 1]
    BY <1>3, <2>1
  <2> QED BY <1>5, <2>1, <2>2
<1>6. \A k \in 0..n : k \in G
  <2> HIDE DEF G
  <2> QED BY <1>4, <1>5, UpTo
<1>7. ASSUME NEW i \in 1..n + 1 PROVE to[i] \in Nat
  <2>1. i - 1 \in 0..n /\ (i - 1) + 1 = i
    OBVIOUS
  <2> QED BY <1>6, <2>1
<1>8. to \in [1..n + 1 -> Nat]
  <2>1. to = [i \in 1..n + 1 |-> to[i]]
    BY <1>1 DEF IsRunning
  <2> QED BY <1>7, <2>1
<1> QED BY <1>2, <1>3, <1>8

\* They never fall: what comes later begins where what is earlier has ended.
LEMMA RunningGrows ==
    ASSUME NEW n \in Nat, NEW s \in [1..n -> Nat], NEW to, IsRunning(to, n, s),
           NEW i \in 1..n, NEW j \in 1..n + 1, i < j
    PROVE  to[i] + s[i] <= to[j]
<1>1. /\ to \in [1..n + 1 -> Nat] /\ \A k \in 1..n : to[k + 1] = to[k] + s[k]
  BY RunningSums
<1> DEFINE G == {k \in 0..n : k >= i => to[i] + s[i] <= to[k + 1]}
<1>2. 0 \in G
  OBVIOUS
<1>3. ASSUME NEW k \in 0..n - 1, k \in G PROVE k + 1 \in G
  <2>1. k + 1 \in 1..n /\ k + 1 \in 0..n
    OBVIOUS
  <2>2. to[(k + 1) + 1] = to[k + 1] + s[k + 1] /\ to[k + 1] \in Nat /\ s[k + 1] \in Nat
    BY <1>1, <2>1
  <2>3. to[i] \in Nat /\ s[i] \in Nat
    BY <1>1
  <2>4. CASE k >= i
    BY <1>3, <2>1, <2>2, <2>3, <2>4
  <2>5. CASE k + 1 = i
    BY <2>1, <2>2, <2>3, <2>5
  <2> QED BY <2>1, <2>4, <2>5
<1>4. \A k \in 0..n : k \in G
  <2> HIDE DEF G
  <2> QED BY <1>2, <1>3, UpTo
<1>5. j - 1 \in 0..n /\ j - 1 >= i /\ (j - 1) + 1 = j
  OBVIOUS
<1> QED BY <1>4, <1>5

-----------------------------------------------------------------------------
\* Where the local parts of the members begin are the sums of their lengths.
LEMMA LfhBegins ==
    ASSUME NEW ms, Len(ms) \in Nat
    PROVE  IsRunning(Z!Begins(Z!LfhLen, ms), Len(ms), [i \in 1..Len(ms) |-> Z!LfhLen(ms[i])])
<1> DEFINE n == Len(ms)
           s == [i \in 1..n |-> Z!LfhLen(ms[i])]
           V(f) == f = [i \in 1..n + 1 |-> IF i = 1 THEN 0 ELSE f[i - 1] + Z!LfhLen(ms[i - 1])]
<1>1. \A f : V(f) <=> IsRunning(f, n, s)
  <2> TAKE f
  <2>1. \A i \in 1..n + 1 : i # 1 => s[i - 1] = Z!LfhLen(ms[i - 1])
    OBVIOUS
  <2> HIDE DEF s
  <2>2. [i \in 1..n + 1 |-> IF i = 1 THEN 0 ELSE f[i - 1] + Z!LfhLen(ms[i - 1])]
        = [i \in 1..n + 1 |-> IF i = 1 THEN 0 ELSE f[i - 1] + s[i - 1]]
    BY <2>1
  <2> QED BY <2>2 DEF IsRunning
<1>2. Z!Begins(Z!LfhLen, ms) = CHOOSE f : V(f)
  BY DEF Z!Begins
<1>3. \E f : V(f)
  BY <1>1, RunningExists
<1> HIDE DEF V
<1>4. V(CHOOSE f : V(f))
  BY <1>3
<1> QED BY <1>1, <1>2, <1>4

\* Where the central headers of the members begin are the sums of their lengths.
LEMMA CfhBegins ==
    ASSUME NEW ms, Len(ms) \in Nat
    PROVE  IsRunning(Z!Begins(Z!CfhLen, ms), Len(ms), [i \in 1..Len(ms) |-> Z!CfhLen(ms[i])])
<1> DEFINE n == Len(ms)
           s == [i \in 1..n |-> Z!CfhLen(ms[i])]
           V(f) == f = [i \in 1..n + 1 |-> IF i = 1 THEN 0 ELSE f[i - 1] + Z!CfhLen(ms[i - 1])]
<1>1. \A f : V(f) <=> IsRunning(f, n, s)
  <2> TAKE f
  <2>1. \A i \in 1..n + 1 : i # 1 => s[i - 1] = Z!CfhLen(ms[i - 1])
    OBVIOUS
  <2> HIDE DEF s
  <2>2. [i \in 1..n + 1 |-> IF i = 1 THEN 0 ELSE f[i - 1] + Z!CfhLen(ms[i - 1])]
        = [i \in 1..n + 1 |-> IF i = 1 THEN 0 ELSE f[i - 1] + s[i - 1]]
    BY <2>1
  <2> QED BY <2>2 DEF IsRunning
<1>2. Z!Begins(Z!CfhLen, ms) = CHOOSE f : V(f)
  BY DEF Z!Begins
<1>3. \E f : V(f)
  BY <1>1, RunningExists
<1> HIDE DEF V
<1>4. V(CHOOSE f : V(f))
  BY <1>3
<1> QED BY <1>1, <1>2, <1>4

-----------------------------------------------------------------------------
(***************************************************************************)
(* Files: all numbers in their headers are naturals.                       *)
(***************************************************************************)
LfhFields   == {"name_len", "extra_len"}
CfhFields   == {"name_len", "extra_len", "comment_len", "comp_size", "uncomp_size", "method",
                "gp_flag", "disk", "nul", "lfh_offset"}
EocdrFields == {"disk", "entries", "cd_size", "cd_offset", "comment_len"}

HeaderOk(h) ==
    /\ \A k \in DOMAIN h \ {"type", "name"} : h[k] \in Nat
    /\ h.type = "lfh" => LfhFields \subseteq DOMAIN h
    /\ h.type = "cfh" => CfhFields \subseteq DOMAIN h
    /\ h.type = "eocdr" => EocdrFields \subseteq DOMAIN h

FileOk(f) == f.len \in Nat /\ \A x \in DOMAIN f.at : HeaderOk(f.at[x])

\* The constants of zipjpeg.
LEMMA ZipConstants ==
    /\ EOCDR_SZ \in Nat \ {0} /\ CFH_SZ \in Nat \ {0} /\ LFH_SZ \in Nat \ {0} /\ W \in Nat \ {0}
    /\ MAX_COMMENT \in Nat /\ Members \in Nat /\ Prefix \subseteq Nat /\ Value \subseteq Nat
    /\ Member \subseteq [name : STRING, name_len : Nat, extra_len : Nat, comment_len : Nat,
                         comp_size : Nat, uncomp_size : Nat, method : Nat, gp_flag : Nat,
                         disk : Nat, nul : Nat]
    /\ Comment \subseteq [len : 0..MAX_COMMENT, false : Nat]
BY ProgramsAssumption DEF ProgramsAssumption, Z!ZipAssumption

\* The sequences that SeqOf gives.
LEMMA InSeqOf ==
    ASSUME NEW S, NEW n \in Nat, NEW s \in Z!SeqOf(S, n) \cup D!SeqOf(S, n)
    PROVE  s \in Seq(S) /\ Len(s) \in 0..n /\ s \in [1..Len(s) -> S]
<1>1. PICK m \in 0..n : s \in [1..m -> S]
  BY DEF Z!SeqOf, D!SeqOf
<1> QED BY <1>1

\* The local headers of an archive.
LEMMA LfhTyped ==
    ASSUME NEW m \in Member
    PROVE  HeaderOk(Z!Lfh(m)) /\ Z!Lfh(m).type = "lfh"
BY ZipConstants DEF Z!Lfh, HeaderOk, LfhFields

\* The central headers of an archive.
LEMMA CfhTyped ==
    ASSUME NEW m \in Member, NEW o \in Nat
    PROVE  HeaderOk(Z!Cfh(m, o)) /\ Z!Cfh(m, o).type = "cfh"
<1>1. \A k \in CfhFields \ {"lfh_offset"} : m[k] \in Nat
  BY ZipConstants DEF CfhFields
<1>2. DOMAIN Z!Cfh(m, o) = CfhFields \cup {"type", "name"} /\ Z!Cfh(m, o).type = "cfh"
  BY DEF Z!Cfh, CfhFields
<1>3. \A k \in CfhFields : Z!Cfh(m, o)[k] \in Nat
  BY <1>1 DEF Z!Cfh, CfhFields
<1> QED BY <1>2, <1>3 DEF HeaderOk

\* The parts of an archive: its members, behind a prefix, then their central
\* headers, the end record, and a false one in the comment.
LfhAt(ms)   == Z!Begins(Z!LfhLen, ms)
CfhAt(ms)   == Z!Begins(Z!CfhLen, ms)
Cd(p, ms)   == p + LfhAt(ms)[Len(ms) + 1]
CdEnd(p, ms) == Cd(p, ms) + CfhAt(ms)[Len(ms) + 1]
Lfhs(p, ms) == {p + LfhAt(ms)[i] : i \in 1..Len(ms)}
Cfhs(p, ms) == {Cd(p, ms) + CfhAt(ms)[i] : i \in 1..Len(ms)}
Ends(p, ms, c) ==
    {CdEnd(p, ms)} \cup IF c.false = 0 THEN {} ELSE {CdEnd(p, ms) + EOCDR_SZ + c.false - 1}
Eocdr(ms, c) == [type |-> "eocdr", disk |-> 0, entries |-> Len(ms),
                 cd_size |-> CfhAt(ms)[Len(ms) + 1], cd_offset |-> LfhAt(ms)[Len(ms) + 1],
                 comment_len |-> c.len]

\* Where they are.
LEMMA Positions ==
    ASSUME NEW p \in Prefix, NEW ms \in Z!SeqOf(Member, Members)
    PROVE  /\ p \in Nat /\ Len(ms) \in Nat /\ ms \in [1..Len(ms) -> Member]
           /\ LfhAt(ms) \in [1..Len(ms) + 1 -> Nat] /\ LfhAt(ms)[1] = 0
           /\ \A i \in 1..Len(ms) : LfhAt(ms)[i + 1] = LfhAt(ms)[i] + Z!LfhLen(ms[i])
           /\ \A i \in 1..Len(ms), j \in 1..Len(ms) + 1 :
                 i < j => LfhAt(ms)[i] + Z!LfhLen(ms[i]) <= LfhAt(ms)[j]
           /\ CfhAt(ms) \in [1..Len(ms) + 1 -> Nat] /\ CfhAt(ms)[1] = 0
           /\ \A i \in 1..Len(ms) : CfhAt(ms)[i + 1] = CfhAt(ms)[i] + Z!CfhLen(ms[i])
           /\ \A i \in 1..Len(ms), j \in 1..Len(ms) + 1 :
                 i < j => CfhAt(ms)[i] + Z!CfhLen(ms[i]) <= CfhAt(ms)[j]
           /\ \A i \in 1..Len(ms) : Z!LfhLen(ms[i]) \in Nat \ {0} /\ Z!CfhLen(ms[i]) \in Nat \ {0}
           /\ Cd(p, ms) \in Nat /\ CdEnd(p, ms) \in Nat
<1> DEFINE n == Len(ms)
           l == [i \in 1..n |-> Z!LfhLen(ms[i])]
           d == [i \in 1..n |-> Z!CfhLen(ms[i])]
<1>1. p \in Nat /\ Members \in Nat /\ LFH_SZ \in Nat \ {0} /\ CFH_SZ \in Nat \ {0}
  BY ZipConstants
<1>2. n \in Nat /\ ms \in [1..n -> Member]
  BY <1>1, InSeqOf
<1>3. \A m \in Member : m.name_len \in Nat /\ m.extra_len \in Nat /\ m.comment_len \in Nat
                        /\ m.comp_size \in Nat
  BY ZipConstants
<1>4. \A m \in Member : Z!LfhLen(m) \in Nat \ {0} /\ Z!CfhLen(m) \in Nat \ {0}
  BY ONLY <1>1, <1>3 DEF Z!LfhLen, Z!CfhLen
<1>5. \A i \in 1..n : ms[i] \in Member
  BY <1>2
<1>6. l \in [1..n -> Nat] /\ d \in [1..n -> Nat]
  BY <1>4, <1>5
<1>7. IsRunning(LfhAt(ms), n, l) /\ IsRunning(CfhAt(ms), n, d)
  BY <1>2, LfhBegins, CfhBegins DEF LfhAt, CfhAt
<1>8. \A i \in 1..n : l[i] = Z!LfhLen(ms[i]) /\ d[i] = Z!CfhLen(ms[i])
  OBVIOUS
<1> HIDE DEF l, d
<1>9. /\ LfhAt(ms) \in [1..n + 1 -> Nat] /\ LfhAt(ms)[1] = 0
      /\ \A i \in 1..n : LfhAt(ms)[i + 1] = LfhAt(ms)[i] + l[i]
  BY <1>2, <1>6, <1>7, RunningSums
<1>10. /\ CfhAt(ms) \in [1..n + 1 -> Nat] /\ CfhAt(ms)[1] = 0
       /\ \A i \in 1..n : CfhAt(ms)[i + 1] = CfhAt(ms)[i] + d[i]
  BY <1>2, <1>6, <1>7, RunningSums
<1>11. \A i \in 1..n, j \in 1..n + 1 : i < j => LfhAt(ms)[i] + l[i] <= LfhAt(ms)[j]
  BY <1>2, <1>6, <1>7, RunningGrows
<1>12. \A i \in 1..n, j \in 1..n + 1 : i < j => CfhAt(ms)[i] + d[i] <= CfhAt(ms)[j]
  BY <1>2, <1>6, <1>7, RunningGrows
<1>13. n + 1 \in 1..n + 1
  BY <1>2
<1>14. Cd(p, ms) \in Nat /\ CdEnd(p, ms) \in Nat
  BY <1>1, <1>9, <1>10, <1>13 DEF Cd, CdEnd
<1> QED BY <1>1, <1>2, <1>4, <1>5, <1>8, <1>9, <1>10, <1>11, <1>12, <1>14

\* What is there.
LEMMA Layout ==
    ASSUME NEW p \in Prefix, NEW ms \in Z!SeqOf(Member, Members),
           NEW c \in Comment
    PROVE  LET f == Z!Archive(p, ms, c) IN
           /\ f.len = CdEnd(p, ms) + EOCDR_SZ + c.len
           /\ DOMAIN f.at = Lfhs(p, ms) \cup Cfhs(p, ms) \cup Ends(p, ms, c)
           /\ \A i \in 1..Len(ms) : f.at[p + LfhAt(ms)[i]] = Z!Lfh(ms[i])
           /\ \A i \in 1..Len(ms) : f.at[Cd(p, ms) + CfhAt(ms)[i]] = Z!Cfh(ms[i], LfhAt(ms)[i])
           /\ \A x \in Ends(p, ms, c) : f.at[x] = Eocdr(ms, c)
<1> DEFINE n == Len(ms)
           f == Z!Archive(p, ms, c)
           lat == LfhAt(ms)
           cat == CfhAt(ms)
           cd == Cd(p, ms)
           end == CdEnd(p, ms)
           h(x) == IF x \in Lfhs(p, ms) THEN Z!Lfh(ms[CHOOSE i \in 1..n : p + lat[i] = x])
                   ELSE IF x \in Cfhs(p, ms)
                   THEN Z!Cfh(ms[CHOOSE j \in 1..n : cd + cat[j] = x],
                              lat[CHOOSE j \in 1..n : cd + cat[j] = x])
                   ELSE Eocdr(ms, c)
<1>1. f = [len |-> end + EOCDR_SZ + c.len,
           at |-> [x \in Lfhs(p, ms) \cup Cfhs(p, ms) \cup Ends(p, ms, c) |-> h(x)]]
  BY DEF Z!Archive, LfhAt, CfhAt, Cd, CdEnd, Lfhs, Cfhs, Ends, Eocdr
<1> HIDE DEF f, h
<1>2. /\ f.len = end + EOCDR_SZ + c.len
      /\ DOMAIN f.at = Lfhs(p, ms) \cup Cfhs(p, ms) \cup Ends(p, ms, c)
      /\ \A x \in DOMAIN f.at : f.at[x] = h(x)
  BY <1>1
<1>3. /\ p \in Nat /\ n \in Nat /\ lat \in [1..n + 1 -> Nat] /\ cat \in [1..n + 1 -> Nat]
      /\ cd \in Nat /\ end \in Nat
      /\ \A i \in 1..n : Z!LfhLen(ms[i]) \in Nat \ {0} /\ Z!CfhLen(ms[i]) \in Nat \ {0}
  BY Positions
<1>4. \A i \in 1..n, j \in 1..n + 1 :
         i < j => lat[i] + Z!LfhLen(ms[i]) <= lat[j] /\ cat[i] + Z!CfhLen(ms[i]) <= cat[j]
  BY Positions
<1>5. cd = p + lat[n + 1] /\ end = cd + cat[n + 1]
  BY DEF Cd, CdEnd
<1>6. /\ \A x : x \in Lfhs(p, ms) <=> \E i \in 1..n : x = p + lat[i]
      /\ \A x : x \in Cfhs(p, ms) <=> \E i \in 1..n : x = cd + cat[i]
  BY DEF Lfhs, Cfhs
<1>7. EOCDR_SZ \in Nat /\ c.false \in Nat
  BY ZipConstants
<1>8. \A x \in Ends(p, ms, c) : x \in Nat /\ x >= end
  BY <1>3, <1>7 DEF Ends
<1> HIDE DEF lat, cat, cd, end, n
<1>9. \A i, j \in 1..n : (lat[i] = lat[j] => i = j) /\ (cat[i] = cat[j] => i = j)
  <2> TAKE i, j \in 1..n
  <2>1. lat[i] \in Nat /\ lat[j] \in Nat /\ cat[i] \in Nat /\ cat[j] \in Nat
        /\ Z!LfhLen(ms[i]) \in Nat \ {0} /\ Z!LfhLen(ms[j]) \in Nat \ {0}
        /\ Z!CfhLen(ms[i]) \in Nat \ {0} /\ Z!CfhLen(ms[j]) \in Nat \ {0}
    BY <1>3
  <2>2. i < j => lat[i] + Z!LfhLen(ms[i]) <= lat[j] /\ cat[i] + Z!CfhLen(ms[i]) <= cat[j]
    BY <1>3, <1>4
  <2>3. j < i => lat[j] + Z!LfhLen(ms[j]) <= lat[i] /\ cat[j] + Z!CfhLen(ms[j]) <= cat[i]
    BY <1>3, <1>4
  <2>4. i < j \/ j < i \/ i = j
    BY <1>3
  <2> QED BY <2>1, <2>2, <2>3, <2>4
<1>10. \A i \in 1..n : lat[i] < lat[n + 1] /\ cat[i] < cat[n + 1]
  <2> TAKE i \in 1..n
  <2>1. n + 1 \in 1..n + 1 /\ i < n + 1 /\ i \in 1..n + 1
    BY <1>3
  <2>2. lat[i] + Z!LfhLen(ms[i]) <= lat[n + 1] /\ cat[i] + Z!CfhLen(ms[i]) <= cat[n + 1]
    BY <1>4, <2>1
  <2>3. lat[i] \in Nat /\ cat[i] \in Nat /\ lat[n + 1] \in Nat /\ cat[n + 1] \in Nat
        /\ Z!LfhLen(ms[i]) \in Nat \ {0} /\ Z!CfhLen(ms[i]) \in Nat \ {0}
    BY <1>3, <2>1
  <2> QED BY <2>2, <2>3
<1>11. \A x \in Lfhs(p, ms) : x \in Nat /\ x < cd
  <2> SUFFICES ASSUME NEW i \in 1..n PROVE p + lat[i] \in Nat /\ p + lat[i] < cd
    BY <1>6
  <2>1. lat[i] \in Nat /\ lat[n + 1] \in Nat /\ lat[i] < lat[n + 1]
    BY <1>3, <1>10
  <2> QED BY SMTT(30), <1>3, <1>5, <2>1
<1>12. \A x \in Cfhs(p, ms) : x \in Nat /\ cd <= x /\ x < end
  <2> SUFFICES ASSUME NEW i \in 1..n PROVE cd + cat[i] \in Nat /\ cd <= cd + cat[i] /\ cd + cat[i] < end
    BY <1>6
  <2>1. cat[i] \in Nat /\ cat[n + 1] \in Nat /\ cat[i] < cat[n + 1]
    BY <1>3, <1>10
  <2> QED BY SMTT(30), <1>3, <1>5, <2>1
<1>13. ASSUME NEW i \in 1..n PROVE f.at[p + lat[i]] = Z!Lfh(ms[i])
  <2>1. p + lat[i] \in Lfhs(p, ms)
    BY <1>6
  <2>2. \A j \in 1..n : p + lat[j] = p + lat[i] => j = i
    <3> TAKE j \in 1..n
    <3>1. lat[i] \in Nat /\ lat[j] \in Nat
      BY <1>3
    <3> QED BY <1>3, <1>9, <3>1
  <2>3. (CHOOSE j \in 1..n : p + lat[j] = p + lat[i]) = i
    BY <2>2
  <2>4. h(p + lat[i]) = Z!Lfh(ms[i])
    BY <2>1, <2>3 DEF h
  <2> QED BY <1>2, <2>1, <2>4
<1>14. ASSUME NEW i \in 1..n PROVE f.at[cd + cat[i]] = Z!Cfh(ms[i], lat[i])
  <2>1. cd + cat[i] \in Cfhs(p, ms)
    BY <1>6
  <2>2. cd + cat[i] \notin Lfhs(p, ms)
    BY <1>3, <1>11, <1>12, <2>1
  <2>3. \A j \in 1..n : cd + cat[j] = cd + cat[i] => j = i
    <3> TAKE j \in 1..n
    <3>1. cat[i] \in Nat /\ cat[j] \in Nat
      BY <1>3
    <3> QED BY SMTT(30), <1>3, <1>9, <3>1
  <2>4. (CHOOSE j \in 1..n : cd + cat[j] = cd + cat[i]) = i
    BY <2>3
  <2>5. h(cd + cat[i]) = Z!Cfh(ms[i], lat[i])
    BY <2>1, <2>2, <2>4 DEF h
  <2> QED BY <1>2, <2>1, <2>5
<1>15. ASSUME NEW x \in Ends(p, ms, c) PROVE f.at[x] = Eocdr(ms, c)
  <2>1. x \notin Lfhs(p, ms) /\ x \notin Cfhs(p, ms)
    <3>1. cd <= end
      <4>1. cat[n + 1] \in Nat
        BY <1>3
      <4> QED BY <1>3, <1>5, <4>1
    <3> QED BY <1>3, <1>8, <1>11, <1>12, <3>1
  <2>2. h(x) = Eocdr(ms, c)
    BY <2>1 DEF h
  <2> QED BY <1>2, <2>2
<1> QED BY <1>2, <1>13, <1>14, <1>15 DEF n, f, lat, cat, cd, end

\* An archive is a file.
LEMMA ArchiveOk ==
    ASSUME NEW p \in Prefix, NEW ms \in Z!SeqOf(Member, Members), NEW c \in Comment
    PROVE  FileOk(Z!Archive(p, ms, c))
<1> DEFINE f == Z!Archive(p, ms, c)
<1>1. /\ f.len = CdEnd(p, ms) + EOCDR_SZ + c.len
      /\ DOMAIN f.at = Lfhs(p, ms) \cup Cfhs(p, ms) \cup Ends(p, ms, c)
      /\ \A i \in 1..Len(ms) : f.at[p + LfhAt(ms)[i]] = Z!Lfh(ms[i])
      /\ \A i \in 1..Len(ms) : f.at[Cd(p, ms) + CfhAt(ms)[i]] = Z!Cfh(ms[i], LfhAt(ms)[i])
      /\ \A x \in Ends(p, ms, c) : f.at[x] = Eocdr(ms, c)
  BY Layout
<1> HIDE DEF f
<1>2. EOCDR_SZ \in Nat /\ c.len \in Nat
  BY ZipConstants
<1>3. /\ Len(ms) \in Nat /\ ms \in [1..Len(ms) -> Member]
      /\ LfhAt(ms) \in [1..Len(ms) + 1 -> Nat] /\ CfhAt(ms) \in [1..Len(ms) + 1 -> Nat]
      /\ CdEnd(p, ms) \in Nat
  BY Positions
<1>4. ASSUME NEW x \in Lfhs(p, ms) PROVE HeaderOk(f.at[x])
  <2>1. PICK i \in 1..Len(ms) : x = p + LfhAt(ms)[i]
    BY DEF Lfhs
  <2> QED BY <1>1, <1>3, <2>1, LfhTyped
<1>5. ASSUME NEW x \in Cfhs(p, ms) PROVE HeaderOk(f.at[x])
  <2>1. PICK i \in 1..Len(ms) : x = Cd(p, ms) + CfhAt(ms)[i]
    BY DEF Cfhs
  <2>2. LfhAt(ms)[i] \in Nat /\ ms[i] \in Member
    BY <1>3
  <2> QED BY <1>1, <2>1, <2>2, CfhTyped
<1>6. HeaderOk(Eocdr(ms, c))
  <2>1. LfhAt(ms)[Len(ms) + 1] \in Nat /\ CfhAt(ms)[Len(ms) + 1] \in Nat
    BY <1>3
  <2> QED BY <1>2, <1>3, <2>1 DEF HeaderOk, Eocdr, EocdrFields
<1>7. \A x \in DOMAIN f.at : HeaderOk(f.at[x])
  BY <1>1, <1>4, <1>5, <1>6
<1>8. f.len \in Nat
  BY <1>1, <1>2, <1>3
<1> QED BY <1>7, <1>8 DEF FileOk, f

\* So is one with a change.
LEMMA ChangedOk ==
    ASSUME NEW f, FileOk(f), f = [len |-> f.len, at |-> f.at], NEW g \in Z!Changed(f)
    PROVE  FileOk(g)
<1>1. CASE \E x \in DOMAIN f.at : g = [f EXCEPT !.at[x] = [type |-> "none"]]
  <2>1. PICK x \in DOMAIN f.at : g = [f EXCEPT !.at[x] = [type |-> "none"]]
    BY <1>1
  <2>2. g.len = f.len /\ g.at = [f.at EXCEPT ![x] = [type |-> "none"]]
    BY <2>1
  <2>3. HeaderOk([type |-> "none"])
    BY DEF HeaderOk
  <2>4. \A y \in DOMAIN g.at : y \in DOMAIN f.at /\ g.at[y] \in {f.at[y], [type |-> "none"]}
    BY <2>2
  <2> QED BY <2>2, <2>3, <2>4 DEF FileOk
<1>2. CASE \E n \in 0..f.len - 1 : g = [f EXCEPT !.len = n]
  <2>1. PICK n \in 0..f.len - 1 : g = [f EXCEPT !.len = n]
    BY <1>2
  <2>2. g.len = n /\ g.at = f.at
    BY <2>1
  <2> QED BY <2>2 DEF FileOk
<1>3. CASE \E x \in DOMAIN f.at : \E k, v :
              /\ k \in DOMAIN f.at[x] \ {"type", "name"} /\ v \in Value
              /\ g = [f EXCEPT !.at[x][k] = v]
  <2>0. PICK x \in DOMAIN f.at :
              \E k, v : /\ k \in DOMAIN f.at[x] \ {"type", "name"} /\ v \in Value
                        /\ g = [f EXCEPT !.at[x][k] = v]
    BY <1>3
  <2>1. PICK k, v : /\ k \in DOMAIN f.at[x] \ {"type", "name"} /\ v \in Value
                    /\ g = [f EXCEPT !.at[x][k] = v]
    BY <2>0
  <2> DEFINE h == [f.at[x] EXCEPT ![k] = v]
  <2>2. g.len = f.len /\ g.at = [f.at EXCEPT ![x] = h]
    BY <2>1
  <2>3. HeaderOk(h)
    <3>1. v \in Nat
      BY <2>1, ZipConstants
    <3>2. DOMAIN h = DOMAIN f.at[x] /\ h["type"] = f.at[x]["type"]
      BY <2>1
    <3>3. \A i \in DOMAIN h : h[i] \in {v, f.at[x][i]}
      BY <2>1
    <3> HIDE DEF h
    <3>4. HeaderOk(f.at[x])
      BY <2>1 DEF FileOk
    <3> QED BY <3>1, <3>2, <3>3, <3>4 DEF HeaderOk
  <2> HIDE DEF h
  <2>4. \A y \in DOMAIN g.at : y \in DOMAIN f.at /\ g.at[y] \in {f.at[y], h}
    BY <2>2
  <2> QED BY <2>2, <2>3, <2>4 DEF FileOk
<1> QED BY <1>1, <1>2, <1>3 DEF Z!Changed

-----------------------------------------------------------------------------
(***************************************************************************)
(* The inductive strengthening of StaysInFile: the headers V that zip_read *)
(* has checked are in the file, and each leads to one of them or to where  *)
(* zip_read is; the listing is at one of them, or at their end.            *)
(***************************************************************************)
Walked(V) ==
    /\ it \in V \cup {offset}
    /\ \A x \in V : /\ Z!CfhOk(x) /\ Z!LfhOk(Z!LfhOffset(Z!At(x))) /\ x < offset
                    /\ Z!NextMember(x) \in V \cup {offset}

ZInv ==
    /\ Z!TypeOK /\ FileOk(file) /\ reach <= file.len /\ phase # "abort"
    /\ phase \in {"check", "list"} => \E V \in SUBSET Nat : Walked(V)

\* What is at a position is a header, or none.
LEMMA AtTyped == ASSUME FileOk(file), NEW x PROVE HeaderOk(Z!At(x))
BY DEF FileOk, Z!At, HeaderOk

\* The length of a central header that was read.
LEMMA CfhLenTyped ==
    ASSUME FileOk(file), NEW x \in Nat, Z!CfhOk(x)
    PROVE  /\ Z!At(x).name_len \in Nat /\ Z!At(x).lfh_offset \in Nat
           /\ Z!CfhLen(Z!At(x)) \in Nat /\ Z!CfhLen(Z!At(x)) > Z!At(x).name_len
           /\ CFH_SZ + Z!At(x).name_len <= Z!CfhLen(Z!At(x))
           /\ x < Z!NextMember(x) /\ Z!NextMember(x) \in Nat
<1> DEFINE h == Z!At(x)
<1>1. HeaderOk(h) /\ h.type = "cfh"
  BY AtTyped DEF Z!CfhOk
<1> HIDE DEF h
<1>2. h.name_len \in Nat /\ h.extra_len \in Nat /\ h.comment_len \in Nat /\ h.lfh_offset \in Nat
  BY <1>1 DEF HeaderOk, CfhFields
<1>3. Z!CfhLen(h) = CFH_SZ + h.name_len + h.extra_len + h.comment_len
  BY DEF Z!CfhLen
<1>4. CFH_SZ \in Nat \ {0}
  BY ZipConstants
<1>5. Z!CfhLen(h) \in Nat /\ Z!CfhLen(h) > h.name_len /\ CFH_SZ + h.name_len <= Z!CfhLen(h)
  BY ONLY <1>2, <1>3, <1>4
<1>6. Z!NextMember(x) = x + Z!CfhLen(h)
  BY DEF Z!NextMember, h
<1> QED BY <1>2, <1>5, <1>6 DEF h

\* What is looked at stays in the file.
LEMMA LookStays ==
    ASSUME FileOk(file), reach \in Nat, reach <= file.len,
           NEW S, S \subseteq 0..file.len, Z!Look(S)
    PROVE  reach' \in Nat /\ reach' <= file.len
<1>1. S \cup {reach} \in SUBSET (0..file.len) /\ S \cup {reach} # {}
  BY DEF FileOk
<1>2. \E x \in S \cup {reach} : \A y \in S \cup {reach} : x >= y
  <2>1. 0 \in Int /\ file.len \in Int
    BY DEF FileOk
  <2> QED BY <1>1, <2>1, Extremes
<1>3. reach' \in S \cup {reach}
  BY <1>2 DEF Z!Look, Z!Max
<1> QED BY <1>1, <1>3

\* What zip_read and the listing look at for one member is in the file.
LEMMA LookAtStays ==
    ASSUME FileOk(file), NEW x \in Nat, zip_file_offset \in Nat
    PROVE  Z!LookAt(x) \subseteq 0..file.len
<1>1. file.len \in Nat /\ CFH_SZ \in Nat /\ LFH_SZ \in Nat /\ W \in Nat \ {0}
  BY ZipConstants DEF FileOk
<1>2. Z!Fits(x, CFH_SZ) => x + CFH_SZ \in 0..file.len
  BY <1>1 DEF Z!Fits
<1>3. ASSUME Z!CfhOk(x)
      PROVE  /\ x + CFH_SZ + Z!At(x).name_len \in 0..file.len
             /\ Z!Fits(Z!LfhOffset(Z!At(x)), LFH_SZ)
                => Z!LfhOffset(Z!At(x)) + LFH_SZ \in 0..file.len
  <2>1. /\ Z!At(x).name_len \in Nat /\ Z!At(x).lfh_offset \in Nat
        /\ Z!CfhLen(Z!At(x)) \in Nat /\ CFH_SZ + Z!At(x).name_len <= Z!CfhLen(Z!At(x))
    BY <1>3, CfhLenTyped
  <2>2. x <= file.len /\ file.len - x >= Z!CfhLen(Z!At(x))
    BY <1>3 DEF Z!CfhOk, Z!Fits
  <2>3. x + CFH_SZ + Z!At(x).name_len \in 0..file.len
    BY <1>1, <2>1, <2>2
  <2>4. Z!LfhOffset(Z!At(x)) \in Nat
    BY <1>1, <2>1 DEF Z!LfhOffset
  <2>5. Z!Fits(Z!LfhOffset(Z!At(x)), LFH_SZ) => Z!LfhOffset(Z!At(x)) + LFH_SZ \in 0..file.len
    BY <1>1, <2>4 DEF Z!Fits
  <2> QED BY <2>3, <2>5
<1> QED BY <1>2, <1>3 DEF Z!LookAt

\* It holds at the start.
LEMMA ZInvInit == Z!Init => ZInv
<1> SUFFICES ASSUME Z!Init PROVE ZInv
  OBVIOUS
<1>1. PICK p \in Prefix, ms \in Z!SeqOf(Member, Members), c \in Comment :
          \/ file = Z!Archive(p, ms, c)
          \/ file \in Z!Changed(Z!Archive(p, ms, c))
  BY DEF Z!Init
<1>2. FileOk(file)
  <2> DEFINE f == Z!Archive(p, ms, c)
  <2>1. FileOk(f)
    BY ArchiveOk
  <2>2. f = [len |-> f.len, at |-> f.at]
    BY DEF Z!Archive
  <2> HIDE DEF f
  <2>3. file \in Z!Changed(f) => FileOk(file)
    BY <2>1, <2>2, ChangedOk
  <2> QED BY <1>1, <2>1, <2>3 DEF f
<1>3. Z!TypeOK
  BY ZipConstants DEF Z!Init, Z!TypeOK
<1>4. reach <= file.len
  BY <1>2 DEF Z!Init, FileOk
<1> QED BY <1>2, <1>3, <1>4 DEF ZInv, Z!Init

\* A step that only looks.
LEMMA Unmoved ==
    ASSUME NEW V, Walked(V), UNCHANGED <<file, zip_file_offset, it, offset>>
    PROVE  Walked(V)'
BY DEF Walked, Z!CfhOk, Z!LfhOk, Z!LfhOffset, Z!NextMember, Z!At, Z!Fits

\* Every step keeps it.
LEMMA ZInvStep == ZInv /\ [Z!Next]_(Z!vars) => ZInv'
<1> SUFFICES ASSUME ZInv, [Z!Next]_(Z!vars) PROVE ZInv'
  OBVIOUS
<1>1. /\ FileOk(file) /\ file.len \in Nat /\ reach \in Nat /\ reach <= file.len /\ offset \in Nat
      /\ it \in Nat /\ todo \in Nat /\ comment_len \in 0..MAX_COMMENT + 1
      /\ zip_file_offset \in 0..W - 1 /\ zip_file_offset \in Nat
  BY ZipConstants DEF ZInv, Z!TypeOK, FileOk
<1>2. /\ EOCDR_SZ \in Nat /\ W \in Nat \ {0} /\ MAX_COMMENT \in Nat
  BY ZipConstants
<1>3. CASE UNCHANGED Z!vars
  <2>1. \A V : Walked(V) => Walked(V)'
    BY <1>3, Unmoved DEF Z!vars, Z!zip
  <2> QED BY <1>3, <2>1 DEF Z!vars, Z!zip, ZInv, Z!TypeOK, FileOk
<1>4. CASE Z!ReadFile
  BY <1>4 DEF Z!ReadFile, Z!End, Z!zip, ZInv, Z!TypeOK, FileOk
<1>5. CASE Z!FindEocdr
  <2> DEFINE x == file.len - EOCDR_SZ - comment_len
  <2>1. file' = file /\ FileOk(file')
    BY <1>1, <1>5 DEF Z!FindEocdr
  <2>2. CASE comment_len > MAX_COMMENT \/ x < 0
    BY <1>5, <2>1, <2>2 DEF Z!FindEocdr, Z!End, Z!zip, ZInv, Z!TypeOK
  <2>3. CASE ~ (comment_len > MAX_COMMENT \/ x < 0)
    <3>1. Z!Look({x + EOCDR_SZ}) /\ x \in Nat
      BY <1>1, <1>2, <1>5, <2>3 DEF Z!FindEocdr
    <3>2. {x + EOCDR_SZ} \subseteq 0..file.len
      BY <1>1, <1>2, <3>1
    <3>3. reach' \in Nat /\ reach' <= file.len
      BY <1>1, <3>1, <3>2, LookStays
    <3>4. CASE Z!IsEocdr(Z!At(x)) /\ Z!BeginRead(Z!At(x))
      <4> DEFINE e == Z!At(x)
      <4>1. HeaderOk(e) /\ e.type = "eocdr"
        BY <1>1, <3>4, AtTyped DEF Z!IsEocdr
      <4> HIDE DEF e
      <4>2. e.entries \in Nat /\ e.cd_size \in Nat /\ e.cd_offset \in Nat /\ e.comment_len \in Nat
        BY <4>1 DEF HeaderOk, EocdrFields
      <4>3. /\ zip_file_offset' = Z!Shift(e) /\ todo' = e.entries
            /\ offset' = (file.len - e.cd_size - EOCDR_SZ - comment_len) % W /\ it' = offset'
            /\ comment_len' = comment_len
            /\ \/ phase' = "check" /\ status' = status
               \/ phase' = "end" /\ status' = "failed"
        BY <3>4 DEF Z!BeginRead, Z!End, e
      <4>4. offset' \in Nat
        BY <1>1, <1>2, <4>2, <4>3
      <4>5. zip_file_offset' \in 0..W - 1
        BY <1>1, <1>2, <4>2, <4>3 DEF Z!Shift
      <4>6. Walked({})'
        BY <4>3 DEF Walked
      <4>7. phase = "find"
        BY <1>5 DEF Z!FindEocdr
      <4>8. Z!TypeOK'
        BY <1>1, <3>3, <4>2, <4>3, <4>4, <4>5, <4>7 DEF ZInv, Z!TypeOK
      <4> QED BY <2>1, <3>3, <4>3, <4>6, <4>8 DEF ZInv
    <3>5. CASE ~ Z!IsEocdr(Z!At(x)) /\ comment_len' = comment_len + 1
              /\ UNCHANGED <<phase, status, zip_file_offset, todo, offset, it>>
      <4>1. comment_len' \in 0..MAX_COMMENT + 1
        BY <1>1, <1>2, <2>3, <3>5
      <4> QED BY <1>5, <2>1, <3>3, <3>5, <4>1 DEF ZInv, Z!TypeOK, Z!FindEocdr
    <3> QED BY <1>5, <2>3, <3>4, <3>5 DEF Z!FindEocdr
  <2> QED BY <2>2, <2>3
<1>6. CASE Z!CheckMember
  <2>1. /\ phase = "check" /\ todo > 0 /\ Z!Look(Z!LookAt(offset))
        /\ UNCHANGED <<file, intact, comment_len, zip_file_offset, it, listed>>
    BY <1>6 DEF Z!CheckMember
  <2>2. reach' \in Nat /\ reach' <= file.len
    BY <1>1, <2>1, LookAtStays, LookStays
  <2>3. FileOk(file')
    BY <1>1, <2>1
  <2>4. CASE Z!CfhOk(offset) /\ Z!MemberOk(Z!At(offset))
    <3>1. /\ offset' = Z!NextMember(offset) /\ todo' = todo - 1 /\ UNCHANGED <<phase, status>>
      BY <1>6, <2>4 DEF Z!CheckMember, Z!NextMember
    <3>2. offset < offset' /\ offset' \in Nat
      BY <1>1, <2>4, <3>1, CfhLenTyped
    <3>3. PICK V \in SUBSET Nat : Walked(V)
      BY <2>1 DEF ZInv
    <3>4. PICK U \in SUBSET Nat : U = V \cup {offset}
      BY <1>1, <3>3
    <3>5. Walked(U)'
      <4>1. Z!LfhOk(Z!LfhOffset(Z!At(offset)))
        BY <2>4 DEF Z!MemberOk
      <4>2. it' \in U
        BY <2>1, <3>3, <3>4 DEF Walked
      <4>3. ASSUME NEW x \in U
            PROVE  /\ Z!CfhOk(x) /\ Z!LfhOk(Z!LfhOffset(Z!At(x))) /\ x < offset'
                   /\ Z!NextMember(x) \in U \cup {offset'}
        <5>1. CASE x \in V
          <6>1. /\ Z!CfhOk(x) /\ Z!LfhOk(Z!LfhOffset(Z!At(x))) /\ x < offset
                /\ Z!NextMember(x) \in V \cup {offset}
            BY <3>3, <5>1 DEF Walked
          <6> QED BY <1>1, <3>2, <3>4, <6>1
        <5>2. CASE x = offset
          BY <2>4, <3>1, <3>2, <4>1, <5>2
        <5> QED BY <3>4, <5>1, <5>2
      <4>4. \A x : /\ (Z!CfhOk(x))' = Z!CfhOk(x)
                   /\ (Z!LfhOk(Z!LfhOffset(Z!At(x))))' = Z!LfhOk(Z!LfhOffset(Z!At(x)))
                   /\ (Z!NextMember(x))' = Z!NextMember(x)
        BY <2>1 DEF Z!CfhOk, Z!LfhOk, Z!LfhOffset, Z!NextMember, Z!At, Z!Fits
      <4> QED BY <4>2, <4>3, <4>4 DEF Walked
    <3>6. todo' \in Nat
      BY <1>1, <2>1, <3>1
    <3> QED BY <2>1, <2>2, <2>3, <3>1, <3>2, <3>5, <3>6 DEF ZInv, Z!TypeOK
  <2>5. CASE ~ (Z!CfhOk(offset) /\ Z!MemberOk(Z!At(offset)))
    BY <1>6, <2>1, <2>2, <2>3, <2>5 DEF Z!CheckMember, Z!End, ZInv, Z!TypeOK
  <2> QED BY <2>4, <2>5
<1>7. CASE Z!Checked
  <2>1. /\ phase = "check" /\ phase' = "list" /\ Z!Look({file.len})
        /\ UNCHANGED <<file, intact, status, Z!zip, listed>>
    BY <1>7 DEF Z!Checked
  <2>2. {file.len} \subseteq 0..file.len
    BY <1>1
  <2>3. reach' \in Nat /\ reach' <= file.len
    BY <1>1, <2>1, <2>2, LookStays
  <2>4. PICK V \in SUBSET Nat : Walked(V)
    BY <2>1 DEF ZInv
  <2>5. Walked(V)'
    BY <2>1, <2>4, Unmoved DEF Z!zip
  <2> QED BY <2>1, <2>3, <2>5 DEF ZInv, Z!TypeOK, Z!zip
<1>8. CASE Z!ListMember
  <2>1. /\ phase = "list" /\ it # offset /\ Z!Look(Z!LookAt(it))
        /\ UNCHANGED <<file, intact, status, comment_len, zip_file_offset, todo, offset>>
    BY <1>8 DEF Z!ListMember
  <2>2. reach' \in Nat /\ reach' <= file.len
    BY <1>1, <2>1, LookAtStays, LookStays
  <2>3. PICK V \in SUBSET Nat : Walked(V)
    BY <2>1 DEF ZInv
  <2>4. /\ it \in V /\ Z!CfhOk(it) /\ Z!LfhOk(Z!LfhOffset(Z!At(it))) /\ it < offset
        /\ Z!NextMember(it) \in V \cup {offset}
    BY <2>1, <2>3 DEF Walked
  <2>5. Z!NextMember(it) <= offset /\ Z!NextMember(it) \in Nat
    <3>1. \A x \in V : x \in Nat /\ x < offset
      BY <2>3 DEF Walked
    <3>2. \A x \in V \cup {offset} : x \in Nat /\ x <= offset
      BY <1>1, <3>1
    <3> QED BY <2>4, <3>2
  <2>6. it' = Z!NextMember(it) /\ UNCHANGED phase
    BY <1>8, <2>4, <2>5 DEF Z!ListMember
  <2>7. Walked(V)'
    <3>1. \A x : /\ (Z!CfhOk(x))' = Z!CfhOk(x)
                 /\ (Z!LfhOk(Z!LfhOffset(Z!At(x))))' = Z!LfhOk(Z!LfhOffset(Z!At(x)))
                 /\ (Z!NextMember(x))' = Z!NextMember(x)
      BY <2>1 DEF Z!CfhOk, Z!LfhOk, Z!LfhOffset, Z!NextMember, Z!At, Z!Fits
    <3> QED BY <2>1, <2>3, <2>4, <2>6, <3>1 DEF Walked
  <2> QED BY <2>1, <2>2, <2>5, <2>6, <2>7 DEF ZInv, Z!TypeOK, FileOk
<1>9. CASE Z!Finish
  BY <1>9 DEF Z!Finish, Z!End, Z!zip, ZInv, Z!TypeOK, FileOk
<1> QED BY <1>3, <1>4, <1>5, <1>6, <1>7, <1>8, <1>9 DEF Z!Next

-----------------------------------------------------------------------------
(***************************************************************************)
(* The inductive strengthening of IntactIsListed: in an archive of members *)
(* ms behind a prefix of p bytes with comment c, the search is not past    *)
(* the end record, the check is at the central header of member k, all     *)
(* behind it were accepted, and the listing has printed those before it.   *)
(***************************************************************************)
Names(ms, k) == [i \in 1..k - 1 |-> ms[i].name]

Going(p, ms, c) ==
    /\ file = Z!Archive(p, ms, c) /\ intact = <<ms>>
    /\ phase \in {"read", "find", "check"} => listed = <<>>
    /\ phase \in {"read", "find"} => comment_len <= c.len
    /\ phase = "read" => reach = 0
    /\ phase \in {"check", "list"} => zip_file_offset = p
    /\ phase = "check" => \E k \in 1..Len(ms) + 1 :
          offset = Cd(p, ms) + CfhAt(ms)[k] /\ todo = Len(ms) + 1 - k /\ it = Cd(p, ms)
    /\ phase = "list" => \E k \in 1..Len(ms) + 1 :
          offset = CdEnd(p, ms) /\ it = Cd(p, ms) + CfhAt(ms)[k] /\ listed = Names(ms, k)
    /\ phase = "end" /\ reach > 0 =>
          status = "listed" /\ listed = [i \in DOMAIN ms |-> ms[i].name]

Intact(p, ms, c) ==
    p \in Prefix /\ ms \in Z!SeqOf(Member, Members) /\ c \in Comment /\ Going(p, ms, c)
GInv == intact # <<>> => \E p, ms, c : Intact(p, ms, c)

\* An archive has less bytes than an offset can count.
LEMMA ArchiveSmall ==
    ASSUME NEW p \in Prefix, NEW ms \in Z!SeqOf(Member, Members), NEW c \in Comment
    PROVE  /\ Z!Archive(p, ms, c).len < W /\ Z!Archive(p, ms, c).len = CdEnd(p, ms) + EOCDR_SZ + c.len
           /\ p <= Cd(p, ms) /\ Cd(p, ms) <= CdEnd(p, ms) /\ c.len \in 0..MAX_COMMENT
           /\ CdEnd(p, ms) = Cd(p, ms) + CfhAt(ms)[Len(ms) + 1]
           /\ CfhAt(ms)[Len(ms) + 1] \in Nat /\ LfhAt(ms)[Len(ms) + 1] \in Nat
           /\ p \in Nat /\ Cd(p, ms) \in Nat /\ CdEnd(p, ms) \in Nat
           /\ Cd(p, ms) = p + LfhAt(ms)[Len(ms) + 1]
<1>1. Z!Archive(p, ms, c).len < W
  BY ProgramsAssumption DEF ProgramsAssumption, Z!ZipAssumption
<1>2. Z!Archive(p, ms, c).len = CdEnd(p, ms) + EOCDR_SZ + c.len
  BY Layout
<1>3. /\ p \in Nat /\ Len(ms) + 1 \in 1..Len(ms) + 1 /\ Cd(p, ms) \in Nat /\ CdEnd(p, ms) \in Nat
      /\ LfhAt(ms) \in [1..Len(ms) + 1 -> Nat] /\ CfhAt(ms) \in [1..Len(ms) + 1 -> Nat]
  BY Positions
<1>4. LfhAt(ms)[Len(ms) + 1] \in Nat /\ CfhAt(ms)[Len(ms) + 1] \in Nat
  BY <1>3
<1>5. c.len \in 0..MAX_COMMENT
  BY ZipConstants
<1> QED BY <1>1, <1>2, <1>3, <1>4, <1>5 DEF Cd, CdEnd

\* Each member of it is accepted by the check.
LEMMA MemberAccepted ==
    ASSUME NEW p, NEW ms, NEW c, Intact(p, ms, c), zip_file_offset = p,
           NEW k \in 1..Len(ms), NEW x, x = Cd(p, ms) + CfhAt(ms)[k]
    PROVE  /\ Z!CfhOk(x) /\ Z!MemberOk(Z!At(x)) /\ Z!At(x).name = ms[k].name
           /\ Z!NextMember(x) = Cd(p, ms) + CfhAt(ms)[k + 1]
<1> DEFINE n == Len(ms)
           m == ms[k]
           h == Z!At(x)
           y == p + LfhAt(ms)[k]
<1>1. p \in Prefix /\ ms \in Z!SeqOf(Member, Members) /\ c \in Comment /\ file = Z!Archive(p, ms, c)
  BY DEF Intact, Going
<1>2. /\ n \in Nat /\ m \in Member
      /\ LfhAt(ms)[k] \in Nat /\ CfhAt(ms)[k] \in Nat
      /\ CfhAt(ms)[k + 1] = CfhAt(ms)[k] + Z!CfhLen(m)
      /\ LfhAt(ms)[k] + Z!LfhLen(m) <= LfhAt(ms)[n + 1]
      /\ CfhAt(ms)[k] + Z!CfhLen(m) <= CfhAt(ms)[n + 1]
      /\ Z!LfhLen(m) \in Nat /\ Z!CfhLen(m) \in Nat
  <2>1. k \in 1..n + 1 /\ n + 1 \in 1..n + 1 /\ k < n + 1 /\ n \in Nat
    BY <1>1, Positions
  <2>2. LfhAt(ms)[k] \in Nat /\ CfhAt(ms)[k] \in Nat
    BY <1>1, <2>1, Positions
  <2>3. m \in Member
    BY <1>1, Positions
  <2>4. CfhAt(ms)[k + 1] = CfhAt(ms)[k] + Z!CfhLen(m)
    BY <1>1, Positions
  <2>5. LfhAt(ms)[k] + Z!LfhLen(m) <= LfhAt(ms)[n + 1] /\ CfhAt(ms)[k] + Z!CfhLen(m) <= CfhAt(ms)[n + 1]
    BY <1>1, <2>1, Positions
  <2>6. Z!LfhLen(m) \in Nat /\ Z!CfhLen(m) \in Nat
    BY <1>1, Positions
  <2> QED BY <2>1, <2>2, <2>3, <2>4, <2>5, <2>6
<1>3. /\ file.len < W /\ file.len = CdEnd(p, ms) + EOCDR_SZ + c.len
      /\ p <= Cd(p, ms) /\ Cd(p, ms) <= CdEnd(p, ms) /\ c.len \in Nat
      /\ CdEnd(p, ms) = Cd(p, ms) + CfhAt(ms)[n + 1]
      /\ CfhAt(ms)[n + 1] \in Nat /\ LfhAt(ms)[n + 1] \in Nat
      /\ p \in Nat /\ Cd(p, ms) \in Nat /\ CdEnd(p, ms) \in Nat
      /\ Cd(p, ms) = p + LfhAt(ms)[n + 1]
  <2>1. c.len \in Nat
    BY <1>1, ArchiveSmall, ZipConstants
  <2> QED BY <1>1, <2>1, ArchiveSmall
<1>4. /\ EOCDR_SZ \in Nat /\ W \in Nat \ {0} /\ CFH_SZ \in Nat /\ LFH_SZ \in Nat
      /\ m.name_len \in Nat /\ m.extra_len \in Nat /\ m.comment_len \in Nat /\ m.comp_size \in Nat
  BY <1>2, ZipConstants
<1>5. h = Z!Cfh(m, LfhAt(ms)[k]) /\ Z!At(y) = Z!Lfh(m)
  <2>1. /\ DOMAIN file.at = Lfhs(p, ms) \cup Cfhs(p, ms) \cup Ends(p, ms, c)
        /\ file.at[y] = Z!Lfh(m) /\ file.at[x] = Z!Cfh(m, LfhAt(ms)[k])
    BY <1>1, Layout
  <2>2. y \in Lfhs(p, ms) /\ x \in Cfhs(p, ms)
    BY DEF Lfhs, Cfhs
  <2> QED BY <2>1, <2>2 DEF Z!At
<1>6. Z!CfhLen(h) = Z!CfhLen(m) /\ h.type = "cfh" /\ h.name = m.name
  BY <1>5 DEF Z!CfhLen, Z!Cfh
<1>7. h.lfh_offset = LfhAt(ms)[k] /\ h.comp_size = m.comp_size
  BY <1>5 DEF Z!Cfh
<1>8. Z!Usual(h)
  <2>1. Z!Usual(m)
    BY <1>2, ProgramsAssumption DEF ProgramsAssumption, Z!ZipAssumption
  <2> QED BY <1>5, <2>1 DEF Z!Usual, Z!Cfh
<1> HIDE DEF h, m, y, n
<1>9. /\ Z!CfhLen(m) = CFH_SZ + m.name_len + m.extra_len + m.comment_len
      /\ Z!LfhLen(m) = LFH_SZ + m.name_len + m.extra_len + m.comp_size
  BY DEF Z!CfhLen, Z!LfhLen
<1>20. /\ \E i \in Nat : i = file.len
       /\ \E i \in Nat : i = CfhAt(ms)[k]
       /\ \E i \in Nat : i = CfhAt(ms)[n + 1]
       /\ \E i \in Nat : i = LfhAt(ms)[k]
       /\ \E i \in Nat : i = LfhAt(ms)[n + 1]
       /\ \E i \in Nat : i = Z!CfhLen(m)
       /\ \E i \in Nat : i = Z!LfhLen(m)
  <2>1. CdEnd(p, ms) + EOCDR_SZ + c.len \in Nat
    <3>1. CdEnd(p, ms) \in Nat /\ c.len \in Nat /\ EOCDR_SZ \in Nat
      BY <1>3, <1>4
    <3> QED BY ONLY <3>1
  <2>2. file.len \in Nat
    BY ONLY <2>1, <1>3
  <2> QED BY <2>2, <1>2, <1>3
<1>a. PICK fl \in Nat : fl = file.len
  BY <1>20
<1>b. PICK ck \in Nat : ck = CfhAt(ms)[k]
  BY <1>20
<1>c. PICK cn \in Nat : cn = CfhAt(ms)[n + 1]
  BY <1>20
<1>d. PICK lk \in Nat : lk = LfhAt(ms)[k]
  BY <1>20
<1>e. PICK ln \in Nat : ln = LfhAt(ms)[n + 1]
  BY <1>20
<1>f. PICK cm \in Nat : cm = Z!CfhLen(m)
  BY <1>20
<1>g. PICK lm \in Nat : lm = Z!LfhLen(m)
  BY <1>20
<1>h. /\ x = p + ln + ck /\ fl = p + ln + cn + EOCDR_SZ + c.len /\ ck + cm <= cn
      /\ lk + lm <= ln /\ y = p + lk /\ fl < W
  BY <1>2, <1>3, <1>a, <1>b, <1>c, <1>d, <1>e, <1>f, <1>g DEF y
<1>i. /\ p \in Nat /\ EOCDR_SZ \in Nat /\ c.len \in Nat /\ W \in Nat
  BY <1>3, <1>4
<1>10. Z!Fits(x, CFH_SZ) /\ Z!Fits(x, Z!CfhLen(m))
  <2>1. x \in Nat /\ x + cm <= fl
    BY ONLY <1>h, <1>i, fl \in Nat, ck \in Nat, cn \in Nat, ln \in Nat, cm \in Nat
  <2>2. CFH_SZ <= cm
    BY SMTT(30), <1>4, <1>9, <1>f
  <2>3. x <= fl /\ fl - x >= cm /\ fl - x >= CFH_SZ
    BY ONLY <2>1, <2>2, <1>4, fl \in Nat, cm \in Nat
  <2> QED BY <2>3, <1>a, <1>f DEF Z!Fits
<1>11. Z!CfhOk(x)
  BY <1>6, <1>10 DEF Z!CfhOk, h
<1>12. y \in Nat /\ y + Z!LfhLen(m) <= file.len /\ y < W
  <2>1. y \in Nat /\ y + lm <= fl /\ y < W
    BY ONLY <1>h, <1>i, fl \in Nat, lk \in Nat, lm \in Nat, ln \in Nat, cn \in Nat
  <2> QED BY <2>1, <1>a, <1>g
<1>13. Z!LfhOffset(h) = y
  <2>1. Z!LfhOffset(h) = y % W
    BY <1>2, <1>3, <1>7 DEF Z!LfhOffset, y
  <2> QED BY ONLY <1>4, <1>12, <2>1
<1>14. Z!At(y).type = "lfh" /\ Z!At(y).name_len = m.name_len /\ Z!At(y).extra_len = m.extra_len
  BY <1>5 DEF Z!Lfh, y
<1>15. file.len \in Nat
  BY <1>a
<1>16. /\ Z!Fits(y, LFH_SZ) /\ Z!Fits(y, LFH_SZ + m.name_len + m.extra_len)
       /\ Z!Fits(y + LFH_SZ + m.name_len + m.extra_len, m.comp_size)
  <2>1. /\ y <= fl /\ fl - y >= LFH_SZ /\ fl - y >= LFH_SZ + m.name_len + m.extra_len
        /\ y + LFH_SZ + m.name_len + m.extra_len <= fl
        /\ fl - (y + LFH_SZ + m.name_len + m.extra_len) >= m.comp_size
    <3>1. y \in Nat /\ y + (LFH_SZ + m.name_len + m.extra_len + m.comp_size) <= fl
      BY <1>9, <1>12, <1>a
    <3>2. /\ LFH_SZ \in Nat /\ m.name_len \in Nat /\ m.extra_len \in Nat /\ m.comp_size \in Nat
      BY <1>4
    <3> QED BY ONLY SMTT(30), <3>1, <3>2, fl \in Nat
  <2> QED BY <1>a, <2>1 DEF Z!Fits
<1>17. Z!LfhOk(y)
  BY <1>14, <1>16 DEF Z!LfhOk
<1>18. Z!MemberOk(h)
  BY <1>7, <1>8, <1>13, <1>14, <1>16, <1>17 DEF Z!MemberOk
<1>19. Z!NextMember(x) = Cd(p, ms) + CfhAt(ms)[k + 1]
  <2>1. Z!NextMember(x) = x + Z!CfhLen(m)
    BY <1>6 DEF Z!NextMember, h
  <2>2. Cd(p, ms) \in Nat /\ CfhAt(ms)[k + 1] = ck + cm
    BY <1>2, <1>3, <1>b, <1>f
  <2> QED BY <2>1, <2>2, <1>b, <1>f
<1> QED BY <1>6, <1>11, <1>18, <1>19 DEF h, m

\* It holds at the start.
LEMMA GInvInit == Z!Init => GInv
<1> SUFFICES ASSUME Z!Init, intact # <<>> PROVE \E p, ms, c : Intact(p, ms, c)
  BY DEF GInv
<1>1. PICK p \in Prefix, ms \in Z!SeqOf(Member, Members), c \in Comment :
          file = Z!Archive(p, ms, c) /\ intact = <<ms>>
  BY DEF Z!Init
<1>2. c.len \in Nat
  BY ZipConstants
<1>3. Intact(p, ms, c)
  BY <1>1, <1>2 DEF Z!Init, Intact, Going
<1> QED BY <1>3

\* Every step keeps it.
LEMMA GInvStep == ZInv /\ GInv /\ ZInv' /\ [Z!Next]_(Z!vars) => GInv'
<1> SUFFICES ASSUME ZInv, GInv, ZInv', [Z!Next]_(Z!vars), intact' # <<>>
             PROVE  \E p, ms, c : Intact(p, ms, c)'
  BY DEF GInv
<1>1. UNCHANGED <<file, intact>>
  BY DEF Z!vars, Z!Next, Z!ReadFile, Z!FindEocdr, Z!CheckMember, Z!Checked, Z!ListMember, Z!Finish
<1>2. PICK p, ms, c : Intact(p, ms, c)
  BY <1>1 DEF GInv
<1>3. p \in Prefix /\ ms \in Z!SeqOf(Member, Members) /\ c \in Comment /\ file = Z!Archive(p, ms, c)
      /\ intact = <<ms>>
  BY <1>2 DEF Intact, Going
<1> DEFINE n == Len(ms)
<1>4. /\ file.len < W /\ file.len = CdEnd(p, ms) + EOCDR_SZ + c.len
      /\ p <= Cd(p, ms) /\ Cd(p, ms) <= CdEnd(p, ms) /\ c.len \in Nat /\ c.len <= MAX_COMMENT
      /\ CdEnd(p, ms) = Cd(p, ms) + CfhAt(ms)[n + 1]
      /\ CfhAt(ms)[n + 1] \in Nat /\ LfhAt(ms)[n + 1] \in Nat
      /\ p \in Nat /\ Cd(p, ms) \in Nat /\ CdEnd(p, ms) \in Nat
      /\ Cd(p, ms) = p + LfhAt(ms)[n + 1]
  BY SMTT(30), <1>3, ArchiveSmall, ZipConstants
<1>5. n \in Nat /\ DOMAIN ms = 1..n /\ CfhAt(ms)[1] = 0 /\ CfhAt(ms) \in [1..n + 1 -> Nat]
  BY <1>3, Positions
<1>6. EOCDR_SZ \in Nat /\ W \in Nat \ {0} /\ MAX_COMMENT \in Nat /\ comment_len \in Nat
  BY ZipConstants DEF ZInv, Z!TypeOK
<1>7. SUFFICES Going(p, ms, c)'
  BY <1>3 DEF Intact
<1>8. Going(p, ms, c)
  BY <1>2 DEF Intact
<1> HIDE DEF n
<1>20. /\ CdEnd(p, ms) \in Nat /\ c.len \in Nat /\ EOCDR_SZ \in Nat /\ comment_len \in Nat
       /\ Cd(p, ms) \in Nat /\ p \in Nat /\ CfhAt(ms)[n + 1] \in Nat /\ LfhAt(ms)[n + 1] \in Nat
       /\ MAX_COMMENT \in Nat /\ W \in Nat \ {0}
  BY <1>4, <1>6
<1>21. /\ file.len = CdEnd(p, ms) + EOCDR_SZ + c.len /\ CdEnd(p, ms) = Cd(p, ms) + CfhAt(ms)[n + 1]
       /\ Cd(p, ms) = p + LfhAt(ms)[n + 1] /\ c.len <= MAX_COMMENT
  BY <1>4
<1>22. file.len \in Nat
  BY ONLY <1>20, <1>21
<1>23. p < W /\ Cd(p, ms) < W
  <2>1. file.len < W /\ Cd(p, ms) <= CdEnd(p, ms) /\ p <= Cd(p, ms) /\ CdEnd(p, ms) <= file.len
    BY <1>4, <1>20, <1>21
  <2> QED BY ONLY <2>1, <1>20, <1>22
<1>9. CASE UNCHANGED Z!vars
  BY <1>8, <1>9 DEF Going, Z!vars, Z!zip
<1>10. CASE Z!ReadFile
  BY <1>8, <1>10 DEF Going, Z!ReadFile, Z!zip, Z!End
<1>11. CASE Z!FindEocdr
  <2> DEFINE x == file.len - EOCDR_SZ - comment_len
  <2>1. /\ phase = "find" /\ comment_len <= c.len /\ listed = <<>> /\ listed' = listed
    BY <1>8, <1>11 DEF Going, Z!FindEocdr
  <2>2. x \in Nat /\ x = CdEnd(p, ms) + (c.len - comment_len)
    <3>1. comment_len <= c.len
      BY <2>1
    <3>2. c.len - comment_len \in Nat
      BY ONLY <1>20, <3>1
    <3>3. x = CdEnd(p, ms) + (c.len - comment_len)
      BY ONLY <1>20, <1>21 DEF x
    <3> HIDE DEF x
    <3> QED BY ONLY <1>20, <3>2, <3>3
  <2>3. ~ (comment_len > MAX_COMMENT \/ x < 0)
    <3>1. comment_len <= MAX_COMMENT
      BY ONLY <1>20, <1>21, <2>1
    <3> QED BY ONLY <1>20, <2>2, <3>1
  <2>4. /\ DOMAIN file.at = Lfhs(p, ms) \cup Cfhs(p, ms) \cup Ends(p, ms, c)
        /\ \A z \in Ends(p, ms, c) : file.at[z] = Eocdr(ms, c)
    BY <1>3, Layout
  <2>5. CdEnd(p, ms) \in Ends(p, ms, c)
    BY DEF Ends
  <2>6. comment_len = c.len => Z!At(x) = Eocdr(ms, c)
    <3> HIDE DEF x
    <3>1. comment_len = c.len => x = CdEnd(p, ms)
      BY <1>4, <2>2
    <3> QED BY <2>4, <2>5, <3>1 DEF Z!At
  <2>7. Z!IsEocdr(Z!At(x)) => comment_len = c.len
    <3>1. SUFFICES ASSUME Z!IsEocdr(Z!At(x)) PROVE comment_len = c.len
      OBVIOUS
    <3> HIDE DEF x
    <3>2. x \in DOMAIN file.at /\ file.at[x].type = "eocdr" /\ file.at[x].comment_len = comment_len
      BY <3>1 DEF Z!IsEocdr, Z!At
    <3>3. x \notin Lfhs(p, ms)
      <4> SUFFICES ASSUME NEW i \in 1..Len(ms), x = p + LfhAt(ms)[i] PROVE FALSE
        BY DEF Lfhs
      <4>1. file.at[x] = Z!Lfh(ms[i])
        BY <1>3, Layout
      <4> QED BY <3>2, <4>1 DEF Z!Lfh
    <3>4. x \notin Cfhs(p, ms)
      <4> SUFFICES ASSUME NEW i \in 1..Len(ms), x = Cd(p, ms) + CfhAt(ms)[i] PROVE FALSE
        BY DEF Cfhs
      <4>1. file.at[x] = Z!Cfh(ms[i], LfhAt(ms)[i])
        BY <1>3, Layout
      <4> QED BY <3>2, <4>1 DEF Z!Cfh
    <3> QED BY <2>4, <3>2, <3>3, <3>4 DEF Eocdr
  <2>8. CASE Z!IsEocdr(Z!At(x)) /\ Z!BeginRead(Z!At(x))
    <3>1. comment_len = c.len /\ Z!At(x) = Eocdr(ms, c)
      BY <2>6, <2>7, <2>8
    <3> DEFINE e == Eocdr(ms, c)
    <3>2. /\ e.disk = 0 /\ e.entries = n /\ e.cd_size = CfhAt(ms)[n + 1]
          /\ e.cd_offset = LfhAt(ms)[n + 1] /\ e.comment_len = c.len
      BY DEF Eocdr, n
    <3>3. Z!BeginRead(e)
      BY <2>8, <3>1
    <3> HIDE DEF e, x
    <3>4. /\ zip_file_offset' = Z!Shift(e) /\ todo' = n
          /\ offset' = (file.len - e.cd_size - EOCDR_SZ - comment_len) % W /\ it' = offset'
          /\ phase' = "check"
      BY <3>2, <3>3 DEF Z!BeginRead
    <3>5. file.len - (e.cd_offset + e.cd_size + EOCDR_SZ + e.comment_len) = p
      BY ONLY <1>20, <1>21, <3>2
    <3>6. zip_file_offset' = p
      <4>1. zip_file_offset' = p % W
        BY <3>4, <3>5 DEF Z!Shift
      <4>2. p < W
        BY <1>23
      <4> QED BY ONLY <1>20, <4>1, <4>2
    <3>7. file.len - e.cd_size - EOCDR_SZ - comment_len = Cd(p, ms)
      BY ONLY <1>20, <1>21, <3>1, <3>2
    <3>8. offset' = Cd(p, ms)
      <4>1. offset' = Cd(p, ms) % W
        BY <3>4, <3>7
      <4>2. Cd(p, ms) < W
        BY <1>23
      <4> QED BY ONLY <1>20, <4>1, <4>2
    <3>9. /\ 1 \in 1..n + 1 /\ offset' = Cd(p, ms) + CfhAt(ms)[1] /\ todo' = n + 1 - 1
          /\ it' = Cd(p, ms)
      BY <1>4, <1>5, <3>4, <3>8
    <3> QED BY <1>1, <1>3, <2>1, <3>4, <3>6, <3>9 DEF Going, n
  <2>9. CASE ~ Z!IsEocdr(Z!At(x)) /\ comment_len' = comment_len + 1
            /\ UNCHANGED <<phase, status, zip_file_offset, todo, offset, it>>
    <3>1. comment_len # c.len
      BY <2>6, <2>9 DEF Eocdr, Z!IsEocdr
    <3>2. comment_len' <= c.len
      BY ONLY <1>20, <2>1, <2>9, <3>1
    <3> QED BY <1>1, <1>3, <2>1, <2>9, <3>2 DEF Going
  <2> QED BY <1>11, <2>3, <2>8, <2>9 DEF Z!FindEocdr
<1>12. CASE Z!CheckMember
  <2>1. /\ phase = "check" /\ todo > 0 /\ listed = <<>> /\ zip_file_offset = p
        /\ UNCHANGED <<comment_len, zip_file_offset, it, listed>>
    BY <1>8, <1>12 DEF Z!CheckMember, Going
  <2>2. PICK k \in 1..n + 1 : offset = Cd(p, ms) + CfhAt(ms)[k] /\ todo = n + 1 - k
                              /\ it = Cd(p, ms)
    BY <1>8, <2>1 DEF Going, n
  <2>3. k \in 1..n /\ k + 1 \in 1..n + 1 /\ todo - 1 = n + 1 - (k + 1)
    BY <1>5, <2>1, <2>2
  <2>4. /\ Z!CfhOk(offset) /\ Z!MemberOk(Z!At(offset))
        /\ Z!NextMember(offset) = Cd(p, ms) + CfhAt(ms)[k + 1]
    BY <1>2, <2>1, <2>2, <2>3, MemberAccepted DEF n
  <2>5. /\ offset' = Cd(p, ms) + CfhAt(ms)[k + 1] /\ todo' = n + 1 - (k + 1) /\ phase' = phase
    BY <1>12, <2>3, <2>4 DEF Z!CheckMember, Z!NextMember
  <2> QED BY <1>1, <1>3, <2>1, <2>2, <2>3, <2>5 DEF Going, n
<1>13. CASE Z!Checked
  <2>1. /\ phase = "check" /\ phase' = "list" /\ todo = 0 /\ listed = <<>> /\ zip_file_offset = p
        /\ UNCHANGED <<zip_file_offset, it, offset, listed>>
    BY <1>8, <1>13 DEF Z!Checked, Z!zip, Going
  <2>2. PICK k \in 1..n + 1 : offset = Cd(p, ms) + CfhAt(ms)[k] /\ todo = n + 1 - k
                              /\ it = Cd(p, ms)
    BY <1>8, <2>1 DEF Going, n
  <2>3. k = n + 1 /\ 1 \in 1..n + 1
    BY <1>5, <2>1, <2>2
  <2>4. offset = CdEnd(p, ms) /\ it = Cd(p, ms) + CfhAt(ms)[1]
    BY <1>4, <1>5, <2>2, <2>3
  <2>5. Names(ms, 1) = <<>>
    BY DEF Names
  <2> QED BY <1>1, <1>3, <2>1, <2>3, <2>4, <2>5 DEF Going, n
<1>14. CASE Z!ListMember
  <2>1. /\ phase = "list" /\ it # offset /\ zip_file_offset = p
        /\ UNCHANGED <<status, comment_len, zip_file_offset, todo, offset>>
    BY <1>8, <1>14 DEF Z!ListMember, Going
  <2>2. PICK k \in 1..n + 1 : /\ offset = CdEnd(p, ms) /\ it = Cd(p, ms) + CfhAt(ms)[k]
                              /\ listed = Names(ms, k)
    BY <1>8, <2>1 DEF Going, n
  <2>3. k # n + 1
    BY <1>4, <2>1, <2>2
  <2>4. k \in 1..n /\ k + 1 \in 1..n + 1
    BY <1>5, <2>3
  <2>5. Z!At(it).name = ms[k].name /\ Z!NextMember(it) = Cd(p, ms) + CfhAt(ms)[k + 1]
    BY <1>2, <2>1, <2>2, <2>4, MemberAccepted DEF n
  <2>6. /\ it' = Z!NextMember(it) /\ listed' = Append(listed, Z!At(it).name) /\ phase' = phase
    BY <1>14 DEF Z!ListMember, ZInv
  <2>7. Append(Names(ms, k), ms[k].name) = Names(ms, k + 1)
    BY <2>4 DEF Names
  <2> QED BY <1>1, <1>3, <2>1, <2>2, <2>4, <2>5, <2>6, <2>7 DEF Going, n
<1>15. CASE Z!Finish
  <2>1. phase = "list" /\ it = offset /\ phase' = "end" /\ status' = "listed" /\ listed' = listed
    BY <1>15 DEF Z!Finish, Z!End
  <2>2. PICK k \in 1..n + 1 : /\ offset = CdEnd(p, ms) /\ it = Cd(p, ms) + CfhAt(ms)[k]
                              /\ listed = Names(ms, k)
    BY <1>8, <2>1 DEF Going, n
  <2>3. k = n + 1
    <3>1. SUFFICES ASSUME k \in 1..n PROVE FALSE
      BY <1>5
    <3>2. CfhAt(ms)[k] + Z!CfhLen(ms[k]) <= CfhAt(ms)[n + 1] /\ Z!CfhLen(ms[k]) \in Nat \ {0}
      BY <1>3, <3>1, Positions DEF n
    <3>3. CfhAt(ms)[k] \in Nat
      BY <1>5
    <3>4. CfhAt(ms)[k] = CfhAt(ms)[n + 1]
      BY <1>4, <2>1, <2>2, <3>3
    <3> QED BY <1>4, <3>2, <3>3, <3>4
  <2>4. Names(ms, n + 1) = [i \in DOMAIN ms |-> ms[i].name]
    BY <1>5 DEF Names
  <2> QED BY <1>1, <1>3, <2>1, <2>2, <2>3, <2>4 DEF Going
<1> QED BY <1>9, <1>10, <1>11, <1>12, <1>13, <1>14, <1>15 DEF Z!Next

\* It says what the property says.
LEMMA GInvListed == GInv => Z!IntactIsListed
BY DEF GInv, Intact, Going, Z!IntactIsListed

-----------------------------------------------------------------------------
(***************************************************************************)
(* dbstat: each handle that is out is known to a pointer, and the pointers *)
(* are NULL until the call that sets them, and at the end.                 *)
(***************************************************************************)
PointersByPhase ==
    /\ phase \in {"args", "init", "end"} => ~ conn
    /\ phase \in {"args", "init", "connect", "query", "end"} => ~ result

Count(b) == IF b THEN 1 ELSE 0

HInv ==
    /\ conn \in BOOLEAN /\ result \in BOOLEAN
    /\ handles = [conn |-> Count(conn), result |-> Count(result)]
    /\ PointersByPhase

\* The end of the program gives back whatever the pointers have.
LEMMA ExitStep ==
    ASSUME HInv, phase' = "end", handles' = D!GivenBack, conn' = FALSE, result' = FALSE
    PROVE  HInv'
<1>1. /\ handles.conn = Count(conn) /\ handles.result = Count(result)
  BY DEF HInv
<1>2. D!GivenBack = [conn |-> 0, result |-> 0]
  BY <1>1 DEF D!GivenBack, Count, HInv
<1> QED
  BY <1>2 DEF HInv, PointersByPhase, Count

\* A step that takes no handle and gives none back.
LEMMA OtherStep ==
    ASSUME HInv, UNCHANGED <<conn, result, handles>>, PointersByPhase'
    PROVE  HInv'
BY DEF HInv, Count

\* It holds at the start.
LEMMA HInvInit == D!Init => HInv
BY DEF D!Init, HInv, PointersByPhase, Count

\* Every step keeps it.
LEMMA HInvStep == HInv /\ [D!Next]_(D!vars) => HInv'
<1> SUFFICES ASSUME HInv, [D!Next]_(D!vars) PROVE HInv'
  OBVIOUS
<1> USE DEF PointersByPhase
<1>1. CASE D!ParseArguments
  <2>1. CASE D!Exit("failure")
    BY <2>1, ExitStep DEF D!Exit
  <2>2. CASE phase' = "init" /\ UNCHANGED <<status, conn, result, handles>>
    BY <1>1, <2>2, OtherStep DEF D!ParseArguments, HInv
  <2> QED
    BY <1>1, <2>1, <2>2 DEF D!ParseArguments
<1>2. CASE D!DbInit
  <2>1. CASE D!Exit("failure")
    BY <2>1, ExitStep DEF D!Exit
  <2>2. CASE phase' = "connect" /\ conn' = TRUE
              /\ handles' = [handles EXCEPT !.conn = @ + 1] /\ UNCHANGED <<status, result>>
    <3>1. ~ conn /\ ~ result
      BY <1>2 DEF D!DbInit, HInv
    <3>2. handles' = [conn |-> 1, result |-> 0]
      BY <2>2, <3>1 DEF HInv, Count
    <3> QED
      BY <2>2, <3>1, <3>2 DEF HInv, Count
  <2> QED
    BY <1>2, <2>1, <2>2 DEF D!DbInit
<1>3. CASE D!DbConnect
  <2>1. CASE D!Exit("failure")
    BY <2>1, ExitStep DEF D!Exit
  <2>2. CASE phase' = "query" /\ UNCHANGED <<status, conn, result, handles>>
    BY <1>3, <2>2, OtherStep DEF D!DbConnect, HInv
  <2> QED
    BY <1>3, <2>1, <2>2 DEF D!DbConnect
<1>4. CASE D!ExecuteQuery
  <2>1. CASE D!Exit("failure")
    BY <2>1, ExitStep DEF D!Exit
  <2>2. CASE phase' = "rows" /\ result' = TRUE
              /\ handles' = [handles EXCEPT !.result = @ + 1] /\ UNCHANGED <<status, conn>>
    <3>1. ~ result
      BY <1>4 DEF D!ExecuteQuery, HInv
    <3>2. handles' = [conn |-> Count(conn), result |-> 1]
      BY <2>2, <3>1 DEF HInv, Count
    <3> QED
      BY <2>2, <3>1, <3>2 DEF HInv, Count
  <2> QED
    BY <1>4, <2>1, <2>2 DEF D!ExecuteQuery
<1>5. CASE D!OtherFields
  BY <1>5, ExitStep DEF D!OtherFields, D!Exit
<1>6. CASE D!FetchRow
  BY <1>6, OtherStep DEF D!FetchRow, HInv
<1>7. CASE D!RowsEnd
  <2>1. CASE stats.count = 0
    BY <1>7, <2>1, ExitStep DEF D!RowsEnd, D!Exit
  <2>2. CASE stats.count # 0
    BY <1>7, <2>2, OtherStep DEF D!RowsEnd, HInv
  <2> QED
    BY <2>1, <2>2
<1>8. CASE D!Finish
  BY <1>8, ExitStep DEF D!Finish
<1>9. CASE UNCHANGED D!vars
  BY <1>9, OtherStep DEF D!vars, HInv
<1> QED
  BY <1>1, <1>2, <1>3, <1>4, <1>5, <1>6, <1>7, <1>8, <1>9 DEF D!Next

\* It says what the property says.
LEMMA HInvGivesBack == HInv => D!HandlesGivenBack
BY DEF HInv, PointersByPhase, Count, D!HandlesGivenBack

-----------------------------------------------------------------------------
(***************************************************************************)
(* The statistics are, after each row, those of the rows read: counted and *)
(* skipped are as many as were read, and unless there was a NaN, the sums  *)
(* and extremes are those of the numbers among them.                       *)
(***************************************************************************)
DbNumber == Int \cup {NaN}
Stats == [count : Nat, skipped : Nat, sum : DbNumber, sum_sq : DbNumber,
          min : DbNumber, max : DbNumber]

Numbers(k) == {i \in 1..k : rows[i] # Skipped}
Squares    == [i \in DOMAIN rows |-> rows[i] * rows[i]]
SumsOf(k) ==
    IF \E i \in Numbers(k) : rows[i] = NaN
    THEN stats.sum = NaN /\ stats.sum_sq = NaN
    ELSE /\ stats.sum = SumOn(rows, Numbers(k)) /\ stats.sum_sq = SumOn(Squares, Numbers(k))
         /\ Numbers(k) # {} => /\ \E i \in Numbers(k) : stats.min = rows[i]
                               /\ \E i \in Numbers(k) : stats.max = rows[i]
                               /\ \A i \in Numbers(k) : stats.min <= rows[i] /\ rows[i] <= stats.max

DInv ==
    /\ HInv /\ D!TypeOK
    /\ rows \in Seq(Number \cup {NaN, Skipped}) /\ stats \in Stats
    /\ (first <=> Numbers(fetched) = {})
    /\ stats.count = Cardinality(Numbers(fetched)) /\ stats.count + stats.skipped = fetched
    /\ SumsOf(fetched)
    /\ phase = "print" => fetched = Len(rows) /\ first = FALSE

\* What the assumptions say of the constants.
LEMMA DbConstants == Number \subseteq Int /\ {NaN, Skipped} \cap Int = {} /\ NaN # Skipped /\ MaxRows \in Nat
BY ProgramsAssumption DEF ProgramsAssumption, D!DbAssumption

\* It holds at the start.
LEMMA DInvInit == D!Init => DInv
<1> SUFFICES ASSUME D!Init PROVE DInv
  OBVIOUS
<1>1. PICK m \in 0..MaxRows : rows \in [1..m -> Number \cup {NaN, Skipped}]
  BY DEF D!Init, D!SeqOf
<1>2. MaxRows \in Nat
  BY DbConstants
<1>3. rows \in Seq(Number \cup {NaN, Skipped}) /\ Len(rows) \in Nat
  BY <1>1, <1>2
<1>4. Numbers(0) = {} /\ fetched = 0 /\ first = TRUE
  BY DEF Numbers, D!Init
<1>5. stats \in Stats /\ stats.count = 0 /\ stats.skipped = 0 /\ stats.sum = 0 /\ stats.sum_sq = 0
  BY DEF D!Init, D!NoStats, Stats, DbNumber
<1>6. Cardinality({}) = 0 /\ IsFiniteSet({})
  BY FS_EmptySet
<1>7. SumOn(rows, {}) = 0 /\ SumOn(Squares, {}) = 0
  BY <1>6, SumStep
<1>8. SumsOf(0)
  BY <1>4, <1>5, <1>7 DEF SumsOf
<1>9. HInv
  BY HInvInit
<1>10. D!TypeOK
  <2>1. /\ phase = "args" /\ status = "running" /\ conn = FALSE /\ result = FALSE /\ first = TRUE
        /\ fetched = 0
    BY DEF D!Init
  <2>2. 0 \in 0..Len(rows)
    BY <1>3
  <2> QED BY <2>1, <2>2 DEF D!TypeOK
<1>11. phase # "print"
  BY DEF D!Init
<1>12. /\ (first <=> Numbers(fetched) = {}) /\ stats.count = Cardinality(Numbers(fetched))
       /\ stats.count + stats.skipped = fetched /\ SumsOf(fetched)
  BY <1>4, <1>5, <1>6, <1>8
<1> HIDE DEF Numbers, SumsOf
<1> QED BY <1>3, <1>5, <1>9, <1>10, <1>11, <1>12 DEF DInv

\* A step that reads no row.
LEMMA NoRow ==
    ASSUME DInv, HInv', UNCHANGED <<rows, fetched, first, stats>>,
           phase' \in {"args", "init", "connect", "query", "rows", "print", "end"},
           status' \in {"running", "success", "failure"}, status' = "running" <=> phase' # "end",
           phase' = "print" => fetched = Len(rows) /\ first = FALSE
    PROVE  DInv'
BY DEF DInv, HInv, D!TypeOK, Numbers, SumsOf, Squares

\* A row that is read.
LEMMA RowStep ==
    ASSUME DInv, HInv', D!FetchRow
    PROVE  DInv'
<1> DEFINE k == fetched
           d == rows[k + 1]
           N == Numbers(k)
<1>1. /\ rows \in Seq(Number \cup {NaN, Skipped}) /\ Len(rows) \in Nat /\ k \in Nat /\ k < Len(rows)
      /\ fetched' = k + 1 /\ phase = "rows" /\ UNCHANGED <<rows, phase, status>>
      /\ stats \in Stats /\ first \in BOOLEAN
  BY DEF DInv, D!FetchRow, D!TypeOK
<1>2. k + 1 \in 1..Len(rows) /\ DOMAIN rows = 1..Len(rows) /\ k + 1 \notin 1..k
  BY <1>1
<1>3. /\ d \in Number \cup {NaN, Skipped} /\ N \subseteq 1..Len(rows)
      /\ \A i \in N : rows[i] \in Number \cup {NaN}
  BY <1>1, <1>2 DEF Numbers
<1>4. /\ Number \subseteq Int /\ NaN \notin Int /\ Skipped \notin Int /\ NaN # Skipped
  BY DbConstants
<1>5. IsFiniteSet(N) /\ k + 1 \notin N /\ Cardinality(N) \in Nat
  <2>1. IsFiniteSet(1..k) /\ N \subseteq 1..k
    BY <1>1, FS_Interval DEF Numbers
  <2> QED BY <1>2, <2>1, FS_Subset, FS_CardinalityType
<1>6. /\ (first <=> N = {}) /\ stats.count = Cardinality(N) /\ stats.count + stats.skipped = k
      /\ SumsOf(k)
  BY DEF DInv
<1>7. stats.count \in Nat /\ stats.skipped \in Nat /\ stats.sum \in DbNumber /\ stats.sum_sq \in DbNumber
      /\ stats.min \in DbNumber /\ stats.max \in DbNumber
  BY <1>1 DEF Stats
<1>8. Numbers(k + 1) = IF d = Skipped THEN N ELSE N \cup {k + 1}
  BY <1>1, <1>2 DEF Numbers
<1>9. Numbers(fetched)' = Numbers(k + 1) /\ Squares' = Squares
  BY <1>1 DEF Numbers, Squares
<1>10. SUFFICES /\ stats' \in Stats /\ first' \in BOOLEAN /\ (first' <=> Numbers(k + 1) = {})
                /\ stats'.count = Cardinality(Numbers(k + 1))
                /\ stats'.count + stats'.skipped = k + 1
                /\ IF \E i \in Numbers(k + 1) : rows[i] = NaN
                   THEN stats'.sum = NaN /\ stats'.sum_sq = NaN
                   ELSE /\ stats'.sum = SumOn(rows, Numbers(k + 1))
                        /\ stats'.sum_sq = SumOn(Squares, Numbers(k + 1))
                        /\ Numbers(k + 1) # {} =>
                              /\ \E i \in Numbers(k + 1) : stats'.min = rows[i]
                              /\ \E i \in Numbers(k + 1) : stats'.max = rows[i]
                              /\ \A i \in Numbers(k + 1) : stats'.min <= rows[i] /\ rows[i] <= stats'.max
  <2>1. SumsOf(fetched)'
    BY <1>1, <1>9, <1>10 DEF SumsOf
  <2>2. fetched' \in 0..Len(rows')
    BY <1>1
  <2>3. D!TypeOK'
    BY <1>1, <1>10, <2>2 DEF D!TypeOK, DInv, HInv
  <2> QED BY <1>1, <1>9, <1>10, <2>1, <2>3 DEF DInv
<1>11. CASE d = Skipped
  <2>1. stats' = [stats EXCEPT !.skipped = @ + 1] /\ first' = first
    BY <1>1, <1>11 DEF D!FetchRow
  <2>2. /\ stats'.skipped = stats.skipped + 1 /\ stats'.count = stats.count /\ stats'.sum = stats.sum
        /\ stats'.sum_sq = stats.sum_sq /\ stats'.min = stats.min /\ stats'.max = stats.max
        /\ stats' \in Stats
    BY <1>1, <2>1 DEF Stats
  <2>3. Numbers(k + 1) = N
    BY <1>8, <1>11
  <2>4. stats'.count + stats'.skipped = k + 1
    <3>1. PICK a \in Nat, b \in Nat : a = stats.count /\ b = stats.skipped
      BY <1>7
    <3>2. PICK c \in Nat : c = k
      BY <1>1
    <3>3. a + b = c
      BY <1>6, <3>1, <3>2
    <3>4. a + (b + 1) = c + 1
      BY ONLY <3>3, a \in Nat, b \in Nat, c \in Nat
    <3> QED BY <2>2, <3>1, <3>2, <3>4
  <2>5. SumsOf(k)
    BY <1>6
  <2> HIDE DEF N, d, k
  <2>6. IF \E i \in Numbers(k + 1) : rows[i] = NaN
        THEN stats'.sum = NaN /\ stats'.sum_sq = NaN
        ELSE /\ stats'.sum = SumOn(rows, Numbers(k + 1))
             /\ stats'.sum_sq = SumOn(Squares, Numbers(k + 1))
             /\ Numbers(k + 1) # {} =>
                   /\ \E i \in Numbers(k + 1) : stats'.min = rows[i]
                   /\ \E i \in Numbers(k + 1) : stats'.max = rows[i]
                   /\ \A i \in Numbers(k + 1) : stats'.min <= rows[i] /\ rows[i] <= stats'.max
    BY <2>2, <2>3, <2>5 DEF SumsOf, N
  <2>7. /\ stats' \in Stats /\ first' \in BOOLEAN /\ (first' <=> Numbers(k + 1) = {})
        /\ stats'.count = Cardinality(Numbers(k + 1))
    BY <1>1, <1>6, <2>1, <2>2, <2>3
  <2> QED BY <2>4, <2>6, <2>7
<1>12. CASE d # Skipped
  <2>1. stats' = D!Counted(d) /\ first' = FALSE
    BY <1>1, <1>12 DEF D!FetchRow
  <2>2. d \in Number \cup {NaN} /\ d \in DbNumber /\ Numbers(k + 1) = N \cup {k + 1}
    BY <1>3, <1>4, <1>8, <1>12 DEF DbNumber
  <2> HIDE DEF N, d, k
  <2>3. /\ stats'.count = stats.count + 1 /\ stats'.skipped = stats.skipped
        /\ stats'.sum = D!Plus(stats.sum, d) /\ stats'.sum_sq = D!Plus(stats.sum_sq, D!Square(d))
        /\ stats'.min = (IF first \/ D!Below(d, stats.min) THEN d ELSE stats.min)
        /\ stats'.max = (IF first \/ D!Below(stats.max, d) THEN d ELSE stats.max)
        /\ DOMAIN stats' = {"count", "skipped", "sum", "sum_sq", "min", "max"}
        /\ stats' = [count |-> stats'.count, skipped |-> stats'.skipped, sum |-> stats'.sum,
                     sum_sq |-> stats'.sum_sq, min |-> stats'.min, max |-> stats'.max]
    BY <1>1, <2>1 DEF D!Counted, Stats
  <2>4. D!Square(d) \in DbNumber /\ (d # NaN => D!Square(d) = d * d /\ d \in Int)
    BY <1>4, <2>2 DEF D!Square, DbNumber
  <2>5. \A a, b \in DbNumber : D!Plus(a, b) \in DbNumber
    BY DEF D!Plus, DbNumber
  <2>6. stats' \in Stats
    BY <1>7, <2>2, <2>3, <2>4, <2>5 DEF Stats
  <2>7. Cardinality(N \cup {k + 1}) = Cardinality(N) + 1
    BY <1>5, FS_AddElement
  <2>8. stats'.count = Cardinality(Numbers(k + 1)) /\ stats'.count + stats'.skipped = k + 1
    <3>1. PICK a \in Nat, b \in Nat : a = stats.count /\ b = stats.skipped
      BY <1>7
    <3>2. PICK c \in Nat : c = k
      BY <1>1
    <3>3. a + b = c
      BY <1>6, <3>1, <3>2
    <3>4. (a + 1) + b = c + 1
      BY ONLY <3>3, a \in Nat, b \in Nat, c \in Nat
    <3> QED BY <1>6, <2>2, <2>3, <2>7, <3>1, <3>2, <3>4
  <2>9. CASE \E i \in N \cup {k + 1} : rows[i] = NaN
    <3>1. D!Plus(stats.sum, d) = NaN /\ D!Plus(stats.sum_sq, D!Square(d)) = NaN
      <4>1. CASE d = NaN
        BY <4>1 DEF D!Plus, D!Square
      <4>2. CASE d # NaN
        <5>1. \E i \in N : rows[i] = NaN
          BY <2>9, <4>2 DEF d
        <5> QED BY <1>6, <5>1 DEF SumsOf, D!Plus, N
      <4> QED BY <4>1, <4>2
    <3> QED BY <2>1, <2>2, <2>3, <2>6, <2>8, <2>9, <3>1
  <2>10. CASE ~ \E i \in N \cup {k + 1} : rows[i] = NaN
    <3>1. d \in Int /\ d \in Number /\ d = rows[k + 1] /\ \A i \in N : rows[i] \in Int
      BY <1>3, <1>4, <2>2, <2>10 DEF d
    <3>2. ~ \E i \in N : rows[i] = NaN
      BY <2>10
    <3>3. stats.sum = SumOn(rows, N) /\ stats.sum_sq = SumOn(Squares, N)
      BY <1>6, <3>2 DEF SumsOf, N
    <3>4. /\ \A i \in N \cup {k + 1} : rows[i] \in Int /\ i \in DOMAIN rows
      BY <1>1, <1>2, <1>3, <3>1
    <3>5. \A i \in N \cup {k + 1} : Squares[i] \in Int /\ Squares[i] = rows[i] * rows[i]
      BY <3>4 DEF Squares
    <3>6. SumOn(rows, N) \in Int /\ SumOn(Squares, N) \in Int
      BY <1>5, <3>4, <3>5, SumInt
    <3>7. /\ SumOn(rows, N \cup {k + 1}) = SumOn(rows, N) + d
          /\ SumOn(Squares, N \cup {k + 1}) = SumOn(Squares, N) + d * d
      <4>1. SumOn(rows, N \cup {k + 1}) = SumOn(rows, N) + rows[k + 1]
        BY <1>5, <3>4, SumAdd
      <4>2. SumOn(Squares, N \cup {k + 1}) = SumOn(Squares, N) + Squares[k + 1]
        BY <1>5, <3>5, SumAdd
      <4> QED BY <3>1, <3>5, <4>1, <4>2
    <3>8. d # NaN /\ D!Square(d) = d * d /\ d * d \in Int
      BY <1>4, <2>4, <3>1
    <3>9. D!Plus(stats.sum, d) = SumOn(rows, N) + d
      BY <1>4, <3>3, <3>6, <3>8 DEF D!Plus
    <3>10. D!Plus(stats.sum_sq, D!Square(d)) = SumOn(Squares, N) + d * d
      BY <1>4, <3>3, <3>6, <3>8 DEF D!Plus
    <3>11. /\ \E i \in N \cup {k + 1} : stats'.min = rows[i]
           /\ \E i \in N \cup {k + 1} : stats'.max = rows[i]
           /\ \A i \in N \cup {k + 1} : stats'.min <= rows[i] /\ rows[i] <= stats'.max
      <4>1. CASE first
        <5>1. N = {} /\ stats'.min = d /\ stats'.max = d
          BY <1>6, <2>3, <4>1 DEF N
        <5> QED BY <3>1, <5>1
      <4>2. CASE ~ first
        <5>1. N # {}
          BY <1>6, <4>2 DEF N
        <5>2. /\ \E i \in N : stats.min = rows[i]
              /\ \E i \in N : stats.max = rows[i]
              /\ \A i \in N : stats.min <= rows[i] /\ rows[i] <= stats.max
          BY <1>6, <3>2, <5>1 DEF SumsOf, N
        <5>3. stats.min \in Int /\ stats.max \in Int
          BY <3>1, <5>2
        <5>4. /\ stats'.min = (IF d < stats.min THEN d ELSE stats.min)
              /\ stats'.max = (IF stats.max < d THEN d ELSE stats.max)
          BY <1>4, <2>3, <3>1, <4>2, <5>3 DEF D!Below
        <5> HIDE DEF N
        <5> QED BY <3>1, <5>2, <5>3, <5>4
      <4> QED BY <1>1, <4>1, <4>2
    <3> QED BY <2>1, <2>2, <2>3, <2>6, <2>8, <2>10, <3>7, <3>9, <3>10, <3>11
  <2> QED BY <2>9, <2>10
<1> QED BY <1>11, <1>12

\* Every step keeps it.
LEMMA DInvStep == DInv /\ [D!Next]_(D!vars) => DInv'
<1> SUFFICES ASSUME DInv, [D!Next]_(D!vars) PROVE DInv'
  OBVIOUS
<1>1. HInv'
  BY HInvStep DEF DInv
<1>2. CASE UNCHANGED D!vars
  BY <1>1, <1>2, NoRow DEF D!vars, DInv, D!TypeOK
<1>3. CASE D!ParseArguments
  BY <1>1, <1>3, NoRow DEF D!ParseArguments, D!Exit, DInv, D!TypeOK
<1>4. CASE D!DbInit
  BY <1>1, <1>4, NoRow DEF D!DbInit, D!Exit, DInv, D!TypeOK
<1>5. CASE D!DbConnect
  BY <1>1, <1>5, NoRow DEF D!DbConnect, D!Exit, DInv, D!TypeOK
<1>6. CASE D!ExecuteQuery
  BY <1>1, <1>6, NoRow DEF D!ExecuteQuery, D!Exit, DInv, D!TypeOK
<1>7. CASE D!OtherFields
  BY <1>1, <1>7, NoRow DEF D!OtherFields, D!Exit, DInv, D!TypeOK
<1>8. CASE D!FetchRow
  BY <1>1, <1>8, RowStep
<1>9. CASE D!RowsEnd
  <2>1. stats.count # 0 => first = FALSE
    BY FS_EmptySet DEF DInv, D!TypeOK
  <2> QED BY <1>1, <1>9, <2>1, NoRow DEF D!RowsEnd, D!Exit, DInv, D!TypeOK
<1>10. CASE D!Finish
  BY <1>1, <1>10, NoRow DEF D!Finish, DInv, D!TypeOK
<1> QED BY <1>2, <1>3, <1>4, <1>5, <1>6, <1>7, <1>8, <1>9, <1>10 DEF D!Next

\* The sum that the property names is the one of the invariant, for the numbers
\* of the column and for their squares.
LEMMA DbSums ==
    ASSUME NEW S, IsFiniteSet(S), S \subseteq DOMAIN rows
    PROVE  /\ D!MapThenSumSet(LAMBDA i : rows[i], S) = SumOn(rows, S)
           /\ D!MapThenSumSet(LAMBDA i : rows[i] * rows[i], S) = SumOn(Squares, S)
<1>1. D!MapThenSumSet(LAMBDA i : rows[i], S) = SumOn(rows, S)
  BY DEF D!MapThenSumSet, D!MapThenFoldSet, SumOn, IsSum, One
<1> DEFINE v(G, s) == IF s = {} THEN 0 ELSE rows[One(s)] * rows[One(s)] + G[s \ {One(s)}]
           b(G, s) == IF s = {} THEN 0 ELSE Squares[One(s)] + G[s \ {One(s)}]
           V(G) == G = [s \in SUBSET S |-> v(G, s)]
<1>2. \A G : \A s \in SUBSET S : v(G, s) = b(G, s)
  <2>1. \A s \in SUBSET S : s # {} => One(s) \in DOMAIN rows
    BY OneIn
  <2>2. \A i \in DOMAIN rows : Squares[i] = rows[i] * rows[i]
    BY DEF Squares
  <2> QED BY <2>1, <2>2
<1>3. D!MapThenSumSet(LAMBDA i : rows[i] * rows[i], S) = (CHOOSE G : V(G))[S]
  BY DEF D!MapThenSumSet, D!MapThenFoldSet, One
<1>4. \A G : IsSum(G, Squares, S) <=> G = [s \in SUBSET S |-> b(G, s)]
  BY DEF IsSum
<1> HIDE DEF v, b
<1>5. \A G : IsSum(G, Squares, S) <=> V(G)
  <2> TAKE G
  <2>1. [s \in SUBSET S |-> v(G, s)] = [s \in SUBSET S |-> b(G, s)]
    BY <1>2
  <2> QED BY <1>4, <2>1
<1>6. PICK H : IsSum(H, Squares, S)
  BY SumExists
<1>7. V(CHOOSE G : V(G))
  <2>1. \E G : V(G)
    BY <1>5, <1>6
  <2> HIDE DEF V
  <2> QED BY <2>1
<1> HIDE DEF V
<1>8. (CHOOSE G : V(G))[S] = H[S]
  BY <1>5, <1>6, <1>7, SumUnique
<1>9. SumOn(Squares, S) = H[S]
  <2>1. IsSum(CHOOSE G : IsSum(G, Squares, S), Squares, S)
    BY <1>6
  <2> QED BY <1>6, <2>1, SumUnique DEF SumOn
<1> QED BY <1>1, <1>3, <1>8, <1>9

\* The invariant says of what is printed that it is right.
LEMMA DInvStats == DInv => D!StatsRight
<1> SUFFICES ASSUME DInv, phase = "print" PROVE D!StatsRight
  BY DEF D!StatsRight
<1> DEFINE numbers == {i \in DOMAIN rows : rows[i] # Skipped}
           S == {rows[i] : i \in numbers}
<1>1. /\ rows \in Seq(Number \cup {NaN, Skipped}) /\ Len(rows) \in Nat /\ fetched = Len(rows)
      /\ first = FALSE /\ stats \in Stats
  BY DEF DInv
<1>2. DOMAIN rows = 1..Len(rows) /\ numbers = Numbers(Len(rows)) /\ numbers \subseteq 1..Len(rows)
  BY <1>1 DEF Numbers
<1>3. IsFiniteSet(numbers)
  <2>1. IsFiniteSet(1..Len(rows))
    BY <1>1, FS_Interval
  <2> HIDE DEF numbers
  <2> QED BY <1>2, <2>1, FS_Subset
<1>4. /\ numbers # {} /\ stats.count = Cardinality(numbers)
      /\ stats.count + stats.skipped = Len(rows)
  BY <1>1, <1>2 DEF DInv
<1>5. SumsOf(Len(rows))
  BY <1>1 DEF DInv
<1>6. IF NaN \in S
      THEN stats.sum = NaN /\ stats.sum_sq = NaN
      ELSE /\ stats.sum = SumOn(rows, numbers) /\ stats.sum_sq = SumOn(Squares, numbers)
           /\ \E i \in numbers : stats.min = rows[i]
           /\ \E i \in numbers : stats.max = rows[i]
           /\ \A i \in numbers : stats.min <= rows[i] /\ rows[i] <= stats.max
  <2>1. NaN \in S <=> \E i \in numbers : rows[i] = NaN
    OBVIOUS
  <2> HIDE DEF numbers, S
  <2> QED BY <1>2, <1>4, <1>5, <2>1 DEF SumsOf
<1>7. /\ D!MapThenSumSet(LAMBDA i : rows[i], numbers) = SumOn(rows, numbers)
      /\ D!MapThenSumSet(LAMBDA i : rows[i] * rows[i], numbers) = SumOn(Squares, numbers)
  BY <1>2, <1>3, DbSums
<1>8. ASSUME NaN \notin S PROVE stats.min = D!Min(S) /\ stats.max = D!Max(S)
  <2>1. S \subseteq Int
    <3>1. \A i \in DOMAIN rows : rows[i] \in Number \cup {NaN, Skipped}
      BY <1>1
    <3>2. \A x \in S : x \in Number
      BY <1>8, <3>1
    <3> QED BY <3>2, DbConstants
  <2>2. /\ stats.min \in S /\ stats.max \in S
        /\ \A x \in S : stats.min <= x /\ x <= stats.max
    BY <1>6, <1>8
  <2> HIDE DEF S
  <2>3. D!Min(S) \in S /\ \A x \in S : D!Min(S) <= x
    BY <2>2 DEF D!Min
  <2>4. D!Max(S) \in S /\ \A x \in S : D!Max(S) >= x
    <3>1. \E m \in S : \A x \in S : m >= x
      BY <2>1, <2>2
    <3> QED BY <3>1 DEF D!Max
  <2>5. \A a, b \in Int : a <= b /\ b <= a => a = b
    OBVIOUS
  <2>6. D!Max(S) <= stats.max /\ stats.max <= D!Max(S)
    BY <2>1, <2>2, <2>4
  <2> QED BY <2>1, <2>2, <2>3, <2>4, <2>5, <2>6
<1> HIDE DEF numbers, S
<1>9. /\ stats.count = Cardinality(numbers) /\ stats.count + stats.skipped = Len(rows)
      /\ IF NaN \in S
         THEN stats.sum = NaN /\ stats.sum_sq = NaN
         ELSE /\ stats.sum = D!MapThenSumSet(LAMBDA i : rows[i], numbers)
              /\ stats.sum_sq = D!MapThenSumSet(LAMBDA i : rows[i] * rows[i], numbers)
              /\ stats.min = D!Min(S) /\ stats.max = D!Max(S)
  BY <1>4, <1>6, <1>7, <1>8
<1>10. D!Cardinality(numbers) = Cardinality(numbers)
  BY DEF D!Cardinality, Cardinality
<1> QED BY <1>9, <1>10 DEF D!StatsRight, numbers, S

-----------------------------------------------------------------------------
(***************************************************************************)
(* The lists: until something is freed, the addresses 1..head hold the     *)
(* first list and those above it the second one, each element next to the  *)
(* one that was allocated before it.                                       *)
(***************************************************************************)
Printing == {"build", "map", "filter", "mapNew"}

Allocated ==
    IF phase \in Printing THEN 1..fresh - 1
    ELSE IF phase = "delete" THEN (1..at) \cup (head + 1..fresh - 1)
    ELSE IF phase = "deleteNew" THEN head + 1..at
    ELSE IF language = "C" THEN {} ELSE 1..fresh - 1

\* The elements and where the program is among them.
LShape ==
    /\ fresh \in Nat \ {0} /\ head \in 0..fresh - 1
    /\ newList = (IF head = fresh - 1 THEN 0 ELSE fresh - 1)
    /\ phase \in {"build", "map"} => head = fresh - 1
    /\ DOMAIN cell = Allocated
    /\ \A x \in DOMAIN cell : cell[x].next = IF x \in {1, head + 1} THEN 0 ELSE x - 1
LPlace ==
    /\ language \in {"C", "asm"} /\ failed \in BOOLEAN /\ data_length \in 0..Len(Data)
    /\ phase \in Printing \cup {"delete", "deleteNew", "end"}
    /\ status \in {"running", "done", "abort", "crash"}
    /\ phase # "build" => data_length = 0
    /\ phase \in {"build", "end"} => at = 0
    /\ phase \in {"map", "filter", "delete"} => at \in 0..head
    /\ phase \in {"mapNew", "deleteNew"} => at \in {0} \cup (head + 1..fresh - 1)
    /\ phase = "delete" => (at = 0 <=> head = 0)
    /\ phase = "deleteNew" => (at = 0 <=> newList = 0)
    /\ phase \in {"delete", "deleteNew"} => language = "C"
    /\ status = "done" <=> phase = "end"
    /\ status = "crash" => failed /\ 0 \in {head, newList}

(***************************************************************************)
(* The first list has data in their order, all that were looked at unless  *)
(* malloc failed, and out those of it that were printed.                   *)
(***************************************************************************)
IsData(v, I) == \E i \in I : v = Data[i]
InOrder(v, w, I) == \E i, j \in I : i < j /\ v = Data[i] /\ w = Data[j]
HeadRight ==
    /\ \A x \in 1..head : IsData(cell[x].value, data_length + 1..Len(Data))
    /\ \A x, y \in 1..head : x < y =>
          InOrder(cell[y].value, cell[x].value, data_length + 1..Len(Data))
    /\ ~ failed => /\ head = Len(Data) - data_length
                   /\ \A x \in 1..head : cell[x].value = Data[Len(Data) + 1 - x]

OutLen == IF phase = "build" THEN 0 ELSE IF phase = "map" THEN head - at ELSE head
OutRight == Len(out) = OutLen /\ \A i \in 1..OutLen : out[i] = cell[head + 1 - i].value

\* The second list has the odd ones of those that f has looked at.
Filtered == IF phase \in {"build", "map"} THEN 0 ELSE IF phase = "filter" THEN head - at ELSE head
NewRight ==
    /\ \A x \in head + 1..fresh - 1 :
          L!IsOdd(cell[x].value) /\ \E i \in 1..Filtered : cell[x].value = out[i]
    /\ \A x, y \in head + 1..fresh - 1 : x < y =>
          \E i, j \in 1..Filtered : i < j /\ cell[x].value = out[i] /\ cell[y].value = out[j]
    /\ ~ failed => \A i \in 1..Filtered : L!IsOdd(out[i]) =>
          \E x \in head + 1..fresh - 1 : cell[x].value = out[i]

NewLen == IF phase # "mapNew" THEN 0 ELSE IF at = 0 THEN fresh - 1 - head ELSE fresh - 1 - at
OutNewRight == Len(outNew) = NewLen /\ \A i \in 1..NewLen : outNew[i] = cell[fresh - i].value

\* What is true of the output once both lists were printed.
Printed2 ==
    /\ L!Among(out, Data) /\ L!Among(L!Reverse(outNew), out)
    /\ \A x \in L!Range(outNew) : L!IsOdd(x)
    /\ ~ failed => out = Data /\ {x \in L!Range(Data) : L!IsOdd(x)} \subseteq L!Range(outNew)
    /\ Len(outNew) = fresh - 1 - head /\ (~ failed => head = Len(Data))

LInv ==
    /\ LShape /\ LPlace
    /\ out \in Seq(Int) /\ outNew \in Seq(Int)
    /\ phase \in Printing => HeadRight /\ OutRight /\ NewRight /\ OutNewRight
    /\ phase \notin Printing => Printed2

\* What the assumptions say of the data.
LEMMA DataFacts ==
    /\ Data \in Seq(Int) /\ Len(Data) \in Nat /\ DOMAIN Data = 1..Len(Data)
    /\ \A i \in 1..Len(Data) : Data[i] \in Int
    /\ \E i \in 1..Len(Data) : L!IsOdd(Data[i])
<1>1. Data \in Seq(Int) /\ \E i \in DOMAIN Data : L!IsOdd(Data[i])
  BY ProgramsAssumption DEF ProgramsAssumption, L!DataAssumption
<1> QED BY <1>1

\* It holds at the start.
LEMMA LInvInit == L!Init => LInv
<1> SUFFICES ASSUME L!Init PROVE LInv
  OBVIOUS
<1>1. /\ language \in {"C", "asm"} /\ cell = <<>> /\ fresh = 1 /\ data_length = Len(Data)
      /\ head = 0 /\ newList = 0 /\ at = 0 /\ phase = "build" /\ status = "running"
      /\ out = <<>> /\ outNew = <<>> /\ failed = FALSE
  BY DEF L!Init, L!NULL
<1>2. Len(Data) \in Nat
  BY DataFacts
<1>3. DOMAIN cell = 1..fresh - 1 /\ 1..0 = {}
  BY <1>1
<1>4. LShape
  BY <1>1, <1>3 DEF LShape, Allocated, Printing
<1>5. LPlace
  <2>1. data_length \in 0..Len(Data) /\ failed \in BOOLEAN
    <3>1. \A n \in Nat : n \in 0..n
      OBVIOUS
    <3> QED BY <1>1, <1>2, <3>1
  <2>2. phase \in Printing
    BY <1>1 DEF Printing
  <2> QED BY <1>1, <2>1, <2>2 DEF LPlace
<1>6. out \in Seq(Int) /\ outNew \in Seq(Int) /\ Len(out) = 0 /\ Len(outNew) = 0
  BY <1>1
<1>7. HeadRight
  BY <1>1, <1>2 DEF HeadRight, IsData, InOrder
<1>8. OutRight /\ OutNewRight /\ NewRight
  BY <1>1, <1>6 DEF OutRight, OutLen, OutNewRight, NewLen, NewRight, Filtered
<1> QED BY <1>1, <1>4, <1>5, <1>6, <1>7, <1>8 DEF LInv, Printing

\* The invariant implies the properties.
LEMMA LInvLists == LInv => L!TypeOK /\ L!ListsRight /\ L!ElementsFreed
<1> SUFFICES ASSUME LInv PROVE L!TypeOK /\ L!ListsRight /\ L!ElementsFreed
  OBVIOUS
<1>1. LShape /\ LPlace
  BY DEF LInv
<1>2. L!TypeOK
  <2>1. DOMAIN cell \subseteq 1..fresh - 1 /\ at \in 0..fresh - 1
    BY <1>1 DEF LShape, LPlace, Allocated, Printing
  <2> QED BY <1>1, <2>1 DEF LPlace, L!TypeOK, Printing
<1>3. L!ListsRight
  <2>1. at # L!NULL /\ status = "running" => at \in DOMAIN cell
    BY <1>1 DEF LShape, LPlace, Allocated, Printing, L!NULL
  <2>2. status = "done" => Printed2
    BY <1>1 DEF LInv, LPlace, Printing
  <2>3. status = "crash" => failed /\ L!NULL \in {head, newList}
    BY <1>1 DEF LPlace, L!NULL
  <2> QED BY <2>1, <2>2, <2>3 DEF Printed2, L!ListsRight
<1>4. L!ElementsFreed
  BY <1>1 DEF LShape, LPlace, Allocated, Printing, L!ElementsFreed
<1> QED BY <1>2, <1>3, <1>4

\* A step that leaves the elements and the output as they are.
LEMMA LUnmoved ==
    ASSUME LInv, LPlace', UNCHANGED <<language, cell, fresh, data_length, head, newList>>,
           UNCHANGED <<out, outNew, failed>>, Allocated' = Allocated,
           phase' \in {"build", "map"} => head = fresh - 1,
           phase' \in Printing => /\ phase \in Printing /\ OutLen' = OutLen
                                  /\ Filtered' = Filtered /\ NewLen' = NewLen,
           phase' \notin Printing => phase \notin Printing \/ Printed2
    PROVE  LInv'
<1>1. LShape'
  BY DEF LInv, LShape
<1>2. phase' \in Printing => HeadRight' /\ OutRight' /\ NewRight' /\ OutNewRight'
  BY DEF LInv, HeadRight, OutRight, NewRight, OutNewRight
<1>3. phase' \notin Printing => Printed2'
  BY DEF LInv, Printed2
<1> QED BY <1>1, <1>2, <1>3 DEF LInv, Printing

\* The rounds of the loop that builds the first list.
LEMMA BuildStep == ASSUME LInv, L!Build PROVE LInv'
<1> DEFINE d == data_length
           n == Len(Data)
<1>1. /\ phase = "build" /\ phase' = "build" /\ status = "running" /\ d > 0 /\ data_length' = d - 1
      /\ UNCHANGED <<language, newList, at, out, outNew>>
      /\ L!AddElement(Data[d], head)
  BY DEF L!Build, L!output
<1>2. LShape /\ LPlace /\ HeadRight /\ OutRight /\ NewRight /\ OutNewRight
      /\ out \in Seq(Int) /\ outNew \in Seq(Int)
  BY <1>1 DEF LInv, Printing
<1>3. /\ fresh \in Nat \ {0} /\ head = fresh - 1 /\ newList = 0 /\ DOMAIN cell = 1..fresh - 1
      /\ d \in 0..n /\ at = 0 /\ n \in Nat /\ d \in 1..n
  BY <1>1, <1>2, DataFacts DEF LShape, LPlace, Allocated, Printing
<1>4. OutLen = 0 /\ OutLen' = 0 /\ NewLen = 0 /\ NewLen' = 0 /\ Filtered = 0 /\ Filtered' = 0
  BY <1>1 DEF OutLen, NewLen, Filtered
<1>5. OutRight' /\ OutNewRight'
  BY <1>1, <1>2, <1>4 DEF OutRight, OutNewRight
<1>6. CASE L!Push(Data[d], head) /\ head' = fresh /\ fresh' = fresh + 1 /\ UNCHANGED <<status, failed>>
  <2>1. cell' = [x \in DOMAIN cell \cup {fresh} |->
                    IF x = fresh THEN [value |-> Data[d], next |-> head] ELSE cell[x]]
    BY <1>6 DEF L!Push, L!NewCell
  <2>2. /\ DOMAIN cell' = 1..fresh /\ fresh \notin 1..fresh - 1
        /\ \A x \in 1..fresh - 1 : cell'[x] = cell[x]
        /\ cell'[fresh].value = Data[d] /\ cell'[fresh].next = head
    BY <1>3, <2>1
  <2>3. LShape'
    <3>1. \A x \in DOMAIN cell' : cell'[x].next = IF x \in {1, head' + 1} THEN 0 ELSE x - 1
      <4>1. ASSUME NEW x \in 1..fresh - 1 PROVE cell'[x].next = IF x \in {1, head' + 1} THEN 0 ELSE x - 1
        BY <1>2, <1>3, <1>6, <2>2 DEF LShape
      <4>2. head = IF fresh \in {1, head' + 1} THEN 0 ELSE fresh - 1
        BY <1>3, <1>6
      <4> QED BY <1>3, <2>2, <4>1, <4>2
    <3>2. Allocated' = 1..fresh
      BY <1>1, <1>3, <1>6 DEF Allocated, Printing
    <3> QED BY <1>1, <1>3, <1>6, <2>2, <3>1, <3>2 DEF LShape
  <2>4. LPlace'
    BY <1>1, <1>2, <1>3, <1>6 DEF LPlace, Printing
  <2>5. HeadRight'
    <3>1. \A x \in 1..head' : x = fresh \/ x \in 1..head
      BY <1>3, <1>6
    <3>2. d \in data_length' + 1..n /\ \A i \in d + 1..n : i \in data_length' + 1..n /\ d < i
      BY <1>1, <1>3
    <3>3. \A x \in 1..head' : \E i \in data_length' + 1..n : cell'[x].value = Data[i]
      BY <1>2, <1>3, <2>2, <3>1, <3>2 DEF HeadRight, IsData, InOrder
    <3>4. ASSUME NEW x \in 1..head', NEW y \in 1..head', x < y
          PROVE  \E i, j \in data_length' + 1..n :
                    i < j /\ cell'[y].value = Data[i] /\ cell'[x].value = Data[j]
      <4>1. x \in 1..head /\ cell'[x] = cell[x]
        BY <1>3, <1>6, <2>2, <3>4
      <4>2. CASE y = fresh
        <5>1. PICK j \in d + 1..n : cell[x].value = Data[j]
          BY <1>2, <4>1 DEF HeadRight, IsData, InOrder
        <5> QED BY <2>2, <3>2, <4>1, <4>2, <5>1
      <4>3. CASE y \in 1..head
        <5>1. PICK i \in d + 1..n, j \in d + 1..n :
                 i < j /\ cell[y].value = Data[i] /\ cell[x].value = Data[j]
          BY <1>2, <3>4, <4>1, <4>3 DEF HeadRight, IsData, InOrder
        <5> QED BY <1>3, <2>2, <3>2, <4>1, <4>3, <5>1
      <4> QED BY <3>1, <4>2, <4>3
    <3>5. ASSUME ~ failed'
          PROVE  /\ head' = n - data_length'
                 /\ \A x \in 1..head' : cell'[x].value = Data[n + 1 - x]
      <4>1. head = n - d /\ \A x \in 1..head : cell[x].value = Data[n + 1 - x]
        BY <1>2, <1>6, <3>5 DEF HeadRight, IsData, InOrder
      <4>2. n + 1 - fresh = d /\ head' = n - data_length'
        BY <1>1, <1>3, <1>6, <4>1
      <4> QED BY <1>3, <2>2, <3>1, <4>1, <4>2
    <3> QED BY <3>3, <3>4, <3>5 DEF HeadRight, IsData, InOrder
  <2>6. NewRight'
    BY <1>3, <1>4, <1>6 DEF NewRight
  <2> QED BY <1>1, <1>2, <1>5, <2>3, <2>4, <2>5, <2>6 DEF LInv, Printing
<1>7. CASE /\ failed' = TRUE /\ UNCHANGED <<cell, fresh, head>>
           /\ status' = IF language = "C" THEN "running" ELSE "abort"
  <2>1. LShape'
    BY <1>1, <1>2, <1>7 DEF LShape, Allocated
  <2>2. LPlace'
    BY <1>1, <1>2, <1>3, <1>7 DEF LPlace, Printing
  <2>3. HeadRight'
    <3>1. \A i \in d + 1..n : i \in data_length' + 1..n
      BY <1>1, <1>3
    <3>2. \A x \in 1..head : \E i \in data_length' + 1..n : cell[x].value = Data[i]
      BY <1>2, <3>1 DEF HeadRight, IsData, InOrder
    <3>3. ASSUME NEW x \in 1..head, NEW y \in 1..head, x < y
          PROVE  \E i, j \in data_length' + 1..n :
                    i < j /\ cell[y].value = Data[i] /\ cell[x].value = Data[j]
      <4>1. PICK i \in d + 1..n, j \in d + 1..n :
                 i < j /\ cell[y].value = Data[i] /\ cell[x].value = Data[j]
        BY <1>2, <3>3 DEF HeadRight, IsData, InOrder
      <4> QED BY <3>1, <4>1
    <3> QED BY <1>7, <3>2, <3>3 DEF HeadRight, IsData, InOrder
  <2>4. NewRight'
    BY <1>1, <1>2, <1>4, <1>7 DEF NewRight
  <2> QED BY <1>1, <1>2, <1>5, <2>1, <2>2, <2>3, <2>4 DEF LInv, Printing
<1> QED BY <1>1, <1>6, <1>7 DEF L!AddElement, L!memory

\* The steps from one phase to the next.
LEMMA BeginSteps ==
    ASSUME LInv, L!BeginMap \/ L!BeginFilter \/ L!BeginMapNew
    PROVE  LInv'
<1>1. /\ LShape /\ LPlace /\ UNCHANGED <<language, cell, fresh, data_length, head, newList>>
      /\ UNCHANGED <<out, outNew, failed, status>> /\ status = "running"
  BY DEF LInv, L!BeginMap, L!BeginFilter, L!BeginMapNew, L!Begin, L!memory, L!lists, L!output
<1>2. /\ fresh \in Nat \ {0} /\ head \in 0..fresh - 1 /\ head \in Nat /\ data_length \in 0..Len(Data)
      /\ newList = (IF head = fresh - 1 THEN 0 ELSE fresh - 1)
  BY <1>1 DEF LShape, LPlace
<1>3. CASE L!BeginMap
  <2>1. phase = "build" /\ phase' = "map" /\ at' = head /\ data_length = 0 /\ head = fresh - 1
    BY <1>1, <1>3 DEF L!BeginMap, L!Begin, LShape
  <2>2. LPlace'
    BY <1>1, <1>2, <2>1 DEF LPlace, Printing
  <2>3. OutLen' = OutLen /\ Filtered' = Filtered /\ NewLen' = NewLen /\ Allocated' = Allocated
    BY <1>1, <1>2, <2>1 DEF OutLen, Filtered, NewLen, Allocated, Printing
  <2> QED BY <1>1, <2>1, <2>2, <2>3, LUnmoved DEF Printing
<1>4. CASE L!BeginFilter
  <2>1. phase = "map" /\ phase' = "filter" /\ at = 0 /\ at' = head
    BY <1>1, <1>4 DEF L!BeginFilter, L!Begin, L!NULL
  <2>2. LPlace'
    BY <1>1, <1>2, <2>1 DEF LPlace, Printing
  <2>3. OutLen' = OutLen /\ Filtered' = Filtered /\ NewLen' = NewLen /\ Allocated' = Allocated
    BY <1>1, <1>2, <2>1 DEF OutLen, Filtered, NewLen, Allocated, Printing
  <2> QED BY <1>1, <2>1, <2>2, <2>3, LUnmoved DEF Printing
<1>5. CASE L!BeginMapNew
  <2>1. phase = "filter" /\ phase' = "mapNew" /\ at = 0 /\ at' = newList
    BY <1>1, <1>5 DEF L!BeginMapNew, L!Begin, L!NULL
  <2>2. LPlace'
    BY <1>1, <1>2, <2>1 DEF LPlace, Printing
  <2>3. OutLen' = OutLen /\ Filtered' = Filtered /\ NewLen' = NewLen /\ Allocated' = Allocated
    BY <1>1, <1>2, <2>1 DEF OutLen, Filtered, NewLen, Allocated, Printing
  <2> QED BY <1>1, <2>1, <2>2, <2>3, LUnmoved DEF Printing
<1> QED BY <1>3, <1>4, <1>5

\* A call of m.
LEMMA MapStep == ASSUME LInv, L!Map PROVE LInv'
<1>1. /\ status = "running" /\ at # 0 /\ at' = cell[at].next
      /\ UNCHANGED <<language, cell, fresh, data_length, head, newList, phase, status, failed>>
      /\ \/ phase = "map" /\ out' = Append(out, cell[at].value) /\ UNCHANGED outNew
         \/ phase = "mapNew" /\ outNew' = Append(outNew, cell[at].value) /\ UNCHANGED out
  BY DEF L!Map, L!NULL, L!memory, L!lists
<1>2. LShape /\ LPlace /\ HeadRight /\ OutRight /\ NewRight /\ OutNewRight
      /\ out \in Seq(Int) /\ outNew \in Seq(Int) /\ phase \in Printing
  BY <1>1 DEF LInv, Printing
<1>3. /\ fresh \in Nat \ {0} /\ head \in 0..fresh - 1 /\ head \in Nat /\ data_length \in 0..Len(Data)
      /\ newList = (IF head = fresh - 1 THEN 0 ELSE fresh - 1)
      /\ DOMAIN cell = 1..fresh - 1 /\ data_length \in Nat
  BY <1>1, <1>2, DataFacts DEF LShape, LPlace, Allocated
<1>4. CASE phase = "map"
  <2>1. at \in 1..head /\ head = fresh - 1 /\ at' = at - 1
    <3>1. at \in 1..head /\ head = fresh - 1
      BY <1>1, <1>2, <1>3, <1>4 DEF LShape, LPlace
    <3>2. cell[at].next = IF at \in {1, head + 1} THEN 0 ELSE at - 1
      BY <1>2, <1>3, <3>1 DEF LShape
    <3> QED BY <1>1, <1>3, <3>1, <3>2
  <2>2. cell[at].value \in Int
    BY <1>2, <1>3, <2>1, DataFacts DEF HeadRight, IsData, InOrder
  <2>3. /\ out' = Append(out, cell[at].value) /\ outNew' = outNew /\ out' \in Seq(Int)
        /\ Len(out) \in Nat /\ Len(out') = Len(out) + 1 /\ out'[Len(out) + 1] = cell[at].value
        /\ \A i \in 1..Len(out) : out'[i] = out[i]
    <3>1. out' = Append(out, cell[at].value) /\ outNew' = outNew
      BY <1>1, <1>4
    <3> QED BY <1>2, <2>2, <3>1, AppendProperties, LenProperties
  <2>4. OutLen = head - at /\ OutLen' = head - at + 1 /\ Filtered = 0 /\ Filtered' = 0 /\ NewLen = 0 /\ NewLen' = 0
    BY <1>1, <1>3, <1>4, <2>1 DEF OutLen, Filtered, NewLen
  <2>5. LPlace' /\ LShape'
    BY <1>1, <1>2, <1>3, <1>4, <2>1 DEF LPlace, LShape, Allocated, Printing
  <2>6. OutRight'
    <3>1. Len(out) = head - at /\ \A i \in 1..head - at : out[i] = cell[head + 1 - i].value
      BY <1>2, <2>4 DEF OutRight
    <3>2. \A i \in 1..head - at + 1 : i \in 1..head - at \/ i = head - at + 1
      BY <1>3, <2>1
    <3>3. head + 1 - (head - at + 1) = at
      BY <1>3, <2>1
    <3>4. \A i \in 1..head - at + 1 : out'[i] = cell[head + 1 - i].value
      BY <2>3, <3>1, <3>2, <3>3
    <3> QED BY <1>1, <2>3, <2>4, <3>1, <3>4 DEF OutRight
  <2>7. HeadRight' /\ NewRight' /\ OutNewRight'
    BY <1>1, <1>2, <1>3, <2>1, <2>3, <2>4 DEF HeadRight, NewRight, OutNewRight
  <2> QED BY <1>1, <1>2, <2>3, <2>5, <2>6, <2>7 DEF LInv
<1>5. CASE phase = "mapNew"
  <2>1. /\ at \in head + 1..fresh - 1 /\ at \in Nat
        /\ at' = (IF at = head + 1 THEN 0 ELSE at - 1)
    <3>1. at \in head + 1..fresh - 1
      BY <1>1, <1>2, <1>3, <1>5 DEF LPlace
    <3>2. at \in DOMAIN cell
      BY <1>3, <3>1
    <3>3. cell[at].next = IF at \in {1, head + 1} THEN 0 ELSE at - 1
      BY <1>2, <3>2 DEF LShape
    <3> QED BY <1>1, <1>3, <3>1, <3>3
  <2>2. cell[at].value \in Int
    <3>1. PICK i \in 1..Filtered : cell[at].value = out[i]
      BY <1>2, <2>1 DEF NewRight
    <3>2. Filtered = Len(out) /\ Len(out) \in Nat
      BY <1>2, <1>5 DEF Filtered, OutRight, OutLen
    <3> QED BY <1>2, <3>1, <3>2
  <2>3. /\ outNew' = Append(outNew, cell[at].value) /\ out' = out /\ outNew' \in Seq(Int)
        /\ Len(outNew) \in Nat /\ Len(outNew') = Len(outNew) + 1
        /\ outNew'[Len(outNew) + 1] = cell[at].value
        /\ \A i \in 1..Len(outNew) : outNew'[i] = outNew[i]
    <3>1. outNew' = Append(outNew, cell[at].value) /\ out' = out
      BY <1>1, <1>5
    <3> QED BY <1>2, <2>2, <3>1, AppendProperties, LenProperties
  <2>4. NewLen = fresh - 1 - at /\ NewLen' = fresh - at /\ Filtered' = Filtered /\ OutLen' = OutLen
    BY <1>1, <1>3, <1>5, <2>1 DEF OutLen, Filtered, NewLen
  <2>5. LPlace' /\ LShape'
    BY <1>1, <1>2, <1>3, <1>5, <2>1 DEF LPlace, LShape, Allocated, Printing
  <2>6. OutNewRight'
    <3>1. Len(outNew) = fresh - 1 - at /\ \A i \in 1..fresh - 1 - at : outNew[i] = cell[fresh - i].value
      BY <1>2, <2>4 DEF OutNewRight
    <3>2. \A i \in 1..fresh - at : i \in 1..fresh - 1 - at \/ i = fresh - 1 - at + 1
      BY <1>3, <2>1
    <3>3. fresh - (fresh - 1 - at + 1) = at /\ fresh - 1 - at + 1 = fresh - at
      BY <1>3, <2>1
    <3>4. \A i \in 1..fresh - at : outNew'[i] = cell[fresh - i].value
      BY <2>3, <3>1, <3>2, <3>3
    <3> QED BY <1>1, <2>3, <2>4, <3>1, <3>3, <3>4 DEF OutNewRight
  <2>7. HeadRight' /\ NewRight' /\ OutRight'
    BY <1>1, <1>2, <2>3, <2>4 DEF HeadRight, NewRight, OutRight
  <2> QED BY <1>1, <1>2, <2>3, <2>5, <2>6, <2>7 DEF LInv
<1> QED BY <1>1, <1>4, <1>5

\* A call of f.
LEMMA FilterStep == ASSUME LInv, L!Filter PROVE LInv'
<1> DEFINE k == head - at
<1>1. /\ phase = "filter" /\ status = "running" /\ at # 0 /\ at' = cell[at].next
      /\ UNCHANGED <<language, data_length, head, phase, out, outNew>>
      /\ IF L!IsOdd(cell[at].value) THEN L!AddElement(cell[at].value, newList)
         ELSE UNCHANGED <<cell, fresh, newList, status, failed>>
  BY DEF L!Filter, L!NULL, L!memory, L!output
<1>2. LShape /\ LPlace /\ HeadRight /\ OutRight /\ NewRight /\ OutNewRight
      /\ out \in Seq(Int) /\ outNew \in Seq(Int) /\ phase \in Printing
  BY <1>1 DEF LInv, Printing
<1>3. /\ fresh \in Nat \ {0} /\ head \in 0..fresh - 1 /\ head \in Nat /\ data_length \in 0..Len(Data)
      /\ newList = (IF head = fresh - 1 THEN 0 ELSE fresh - 1)
      /\ DOMAIN cell = 1..fresh - 1 /\ data_length \in Nat /\ at \in 1..head
  BY <1>1, <1>2, DataFacts DEF LShape, LPlace, Allocated
<1>4. at' = at - 1
  <2>1. at \in DOMAIN cell
    BY <1>3
  <2>2. cell[at].next = IF at \in {1, head + 1} THEN 0 ELSE at - 1
    BY <1>2, <2>1 DEF LShape
  <2> QED BY <1>1, <1>3, <2>2
<1>5. /\ k \in Nat /\ Filtered = k /\ Filtered' = k + 1 /\ OutLen = head /\ OutLen' = head
      /\ NewLen = 0 /\ NewLen' = 0 /\ k + 1 \in 1..head
  BY <1>1, <1>3, <1>4 DEF Filtered, OutLen, NewLen
<1>6. out[k + 1] = cell[at].value
  <2>1. out[k + 1] = cell[head + 1 - (k + 1)].value
    BY <1>2, <1>5 DEF OutRight
  <2>2. head + 1 - (k + 1) = at
    BY <1>3
  <2> QED BY <2>1, <2>2
<1> HIDE DEF k
<1>7. \A i \in 1..k + 1 : i \in 1..k \/ i = k + 1
  BY <1>5
<1>8. \A i \in 1..k : i \in 1..k + 1 /\ i < k + 1
  BY <1>5
<1>9. CASE L!IsOdd(cell[at].value) /\ L!Push(cell[at].value, newList) /\ newList' = fresh
           /\ fresh' = fresh + 1 /\ UNCHANGED <<status, failed>>
  <2>1. cell' = [x \in DOMAIN cell \cup {fresh} |->
                    IF x = fresh THEN [value |-> cell[at].value, next |-> newList] ELSE cell[x]]
    BY <1>9 DEF L!Push, L!NewCell
  <2>2. /\ DOMAIN cell' = 1..fresh /\ fresh \notin 1..fresh - 1
        /\ \A x \in 1..fresh - 1 : cell'[x] = cell[x]
        /\ cell'[fresh].value = cell[at].value /\ cell'[fresh].next = newList
    BY <1>3, <2>1
  <2>3. /\ \A x \in 1..head : cell'[x] = cell[x]
        /\ \A x \in head + 1..fresh - 1 : cell'[x] = cell[x]
        /\ \A x \in head + 1..fresh : x \in head + 1..fresh - 1 \/ x = fresh
        /\ fresh' - 1 = fresh /\ fresh \in head + 1..fresh
    BY <1>3, <1>9, <2>2
  <2>4. LShape'
    <3>1. \A x \in DOMAIN cell' : cell'[x].next = IF x \in {1, head + 1} THEN 0 ELSE x - 1
      <4>1. ASSUME NEW x \in 1..fresh - 1
            PROVE  cell'[x].next = IF x \in {1, head + 1} THEN 0 ELSE x - 1
        BY <1>2, <1>3, <2>2 DEF LShape
      <4>2. newList = IF fresh \in {1, head + 1} THEN 0 ELSE fresh - 1
        BY <1>3
      <4>3. \A x \in 1..fresh : x \in 1..fresh - 1 \/ x = fresh
        BY <1>3
      <4> QED BY <2>2, <4>1, <4>2, <4>3
    <3>2. Allocated' = 1..fresh
      BY <1>1, <1>3, <1>9 DEF Allocated, Printing
    <3> QED BY <1>1, <1>3, <1>9, <2>2, <3>1, <3>2 DEF LShape
  <2>5. LPlace'
    BY <1>1, <1>2, <1>3, <1>4, <1>9 DEF LPlace, Printing
  <2>6. HeadRight'
    <3>1. \A x \in 1..head : cell'[x].value = cell[x].value
      BY <2>3
    <3> QED BY <1>1, <1>2, <1>9, <3>1 DEF HeadRight
  <2>7. OutRight' /\ OutNewRight'
    <3>1. \A i \in 1..head : head + 1 - i \in 1..head
      BY <1>3
    <3>2. OutRight'
      BY <1>1, <1>2, <1>5, <2>3, <3>1 DEF OutRight
    <3> QED BY <1>1, <1>2, <1>5, <3>2 DEF OutNewRight
  <2>8. NewRight'
    <3>1. /\ \A x \in head + 1..fresh - 1 :
               L!IsOdd(cell[x].value) /\ \E i \in 1..k : cell[x].value = out[i]
          /\ \A x, y \in head + 1..fresh - 1 : x < y =>
               \E i, j \in 1..k : i < j /\ cell[x].value = out[i] /\ cell[y].value = out[j]
          /\ ~ failed => \A i \in 1..k : L!IsOdd(out[i]) =>
               \E x \in head + 1..fresh - 1 : cell[x].value = out[i]
      <4>1. \A x \in head + 1..fresh - 1 :
               L!IsOdd(cell[x].value) /\ \E i \in 1..k : cell[x].value = out[i]
        BY SMTT(20), <1>2, <1>5 DEF NewRight
      <4>2. \A x, y \in head + 1..fresh - 1 : x < y =>
               \E i, j \in 1..k : i < j /\ cell[x].value = out[i] /\ cell[y].value = out[j]
        BY SMTT(20), <1>2, <1>5 DEF NewRight
      <4>3. ~ failed => \A i \in 1..k : L!IsOdd(out[i]) =>
               \E x \in head + 1..fresh - 1 : cell[x].value = out[i]
        BY SMTT(20), <1>2, <1>5 DEF NewRight
      <4> QED BY <4>1, <4>2, <4>3
    <3>2. \A x \in head + 1..fresh :
             L!IsOdd(cell'[x].value) /\ \E i \in 1..k + 1 : cell'[x].value = out[i]
      <4>1. k + 1 \in 1..k + 1
        BY <1>5
      <4> QED BY <1>6, <1>8, <1>9, <2>2, <2>3, <3>1, <4>1
    <3>3. ASSUME NEW x \in head + 1..fresh, NEW y \in head + 1..fresh, x < y
          PROVE  \E i, j \in 1..k + 1 : i < j /\ cell'[x].value = out[i] /\ cell'[y].value = out[j]
      <4>1. x \in head + 1..fresh - 1 /\ cell'[x] = cell[x]
        BY <1>3, <2>3, <3>3
      <4>2. CASE y = fresh
        <5>1. PICK i \in 1..k : cell[x].value = out[i]
          BY <3>1, <4>1
        <5>2. k + 1 \in 1..k + 1
          BY <1>5
        <5> QED BY <1>6, <1>8, <2>2, <4>1, <4>2, <5>1, <5>2
      <4>3. CASE y \in head + 1..fresh - 1
        <5>1. PICK i \in 1..k, j \in 1..k : i < j /\ cell[x].value = out[i] /\ cell[y].value = out[j]
          BY <3>1, <3>3, <4>1, <4>3
        <5> QED BY <1>8, <2>3, <4>1, <4>3, <5>1
      <4> QED BY <2>3, <4>2, <4>3
    <3>4. ASSUME ~ failed, NEW i \in 1..k + 1, L!IsOdd(out[i])
          PROVE  \E x \in head + 1..fresh : cell'[x].value = out[i]
      <4>1. CASE i = k + 1
        BY <1>6, <2>2, <2>3, <4>1
      <4>2. CASE i \in 1..k
        <5>1. PICK x \in head + 1..fresh - 1 : cell[x].value = out[i]
          BY <3>1, <3>4, <4>2
        <5>2. x \in head + 1..fresh
          BY <1>3
        <5> QED BY <2>3, <5>1, <5>2
      <4> QED BY <1>7, <4>1, <4>2
    <3> QED BY <1>1, <1>5, <1>9, <2>3, <3>2, <3>3, <3>4 DEF NewRight
  <2> QED BY <1>1, <1>2, <2>4, <2>5, <2>6, <2>7, <2>8 DEF LInv
<1>10. CASE /\ UNCHANGED <<cell, fresh, newList>> /\ failed' \in BOOLEAN /\ (failed => failed')
            /\ status' \in {"running", "abort"}
            /\ ~ failed' => ~ L!IsOdd(cell[at].value)
  <2>1. LShape'
    BY <1>1, <1>2, <1>10 DEF LShape, Allocated, Printing
  <2>2. LPlace'
    BY <1>1, <1>2, <1>3, <1>4, <1>10 DEF LPlace, Printing
  <2>3. HeadRight' /\ OutRight' /\ OutNewRight'
    <3>1. HeadRight'
      BY <1>1, <1>2, <1>10 DEF HeadRight
    <3>2. OutRight'
      BY <1>1, <1>2, <1>5, <1>10 DEF OutRight
    <3>3. OutNewRight'
      BY <1>1, <1>2, <1>5 DEF OutNewRight
    <3> QED BY <3>1, <3>2, <3>3
  <2>4. NewRight'
    <3>1. /\ \A x \in head + 1..fresh - 1 :
               L!IsOdd(cell[x].value) /\ \E i \in 1..k : cell[x].value = out[i]
          /\ \A x, y \in head + 1..fresh - 1 : x < y =>
               \E i, j \in 1..k : i < j /\ cell[x].value = out[i] /\ cell[y].value = out[j]
          /\ ~ failed => \A i \in 1..k : L!IsOdd(out[i]) =>
               \E x \in head + 1..fresh - 1 : cell[x].value = out[i]
      <4>1. \A x \in head + 1..fresh - 1 :
               L!IsOdd(cell[x].value) /\ \E i \in 1..k : cell[x].value = out[i]
        BY SMTT(20), <1>2, <1>5 DEF NewRight
      <4>2. \A x, y \in head + 1..fresh - 1 : x < y =>
               \E i, j \in 1..k : i < j /\ cell[x].value = out[i] /\ cell[y].value = out[j]
        BY SMTT(20), <1>2, <1>5 DEF NewRight
      <4>3. ~ failed => \A i \in 1..k : L!IsOdd(out[i]) =>
               \E x \in head + 1..fresh - 1 : cell[x].value = out[i]
        BY SMTT(20), <1>2, <1>5 DEF NewRight
      <4> QED BY <4>1, <4>2, <4>3
    <3>2. /\ \A x \in head + 1..fresh - 1 :
               L!IsOdd(cell[x].value) /\ \E i \in 1..k + 1 : cell[x].value = out[i]
          /\ \A x, y \in head + 1..fresh - 1 : x < y =>
               \E i, j \in 1..k + 1 : i < j /\ cell[x].value = out[i] /\ cell[y].value = out[j]
      BY <1>8, <3>1
    <3>3. ~ failed' => \A i \in 1..k + 1 : L!IsOdd(out[i]) =>
               \E x \in head + 1..fresh - 1 : cell[x].value = out[i]
      BY <1>6, <1>7, <1>10, <3>1
    <3> QED BY <1>1, <1>5, <1>10, <3>2, <3>3 DEF NewRight
  <2> QED BY <1>1, <1>2, <2>1, <2>2, <2>3, <2>4 DEF LInv
<1>11. failed \in BOOLEAN
  BY <1>2 DEF LPlace
<1> QED BY <1>1, <1>9, <1>10, <1>11 DEF L!AddElement, L!memory

\* When the second list was printed, everything was.
LEMMA PrintedRight ==
    ASSUME LInv, phase = "mapNew", at = 0
    PROVE  Printed2
<1> DEFINE n == fresh - 1 - head
<1>1. HeadRight /\ OutRight /\ NewRight /\ OutNewRight /\ LShape /\ LPlace
      /\ out \in Seq(Int) /\ outNew \in Seq(Int)
  BY DEF LInv, Printing
<1>2. /\ fresh \in Nat \ {0} /\ head \in 0..fresh - 1 /\ head \in Nat /\ n \in Nat /\ data_length = 0
      /\ Filtered = head
  BY <1>1 DEF LShape, LPlace, Filtered
<1>3. /\ Len(out) = head /\ DOMAIN out = 1..head /\ \A i \in 1..head : out[i] = cell[head + 1 - i].value
  <2>1. Len(out) = head /\ \A i \in 1..head : out[i] = cell[head + 1 - i].value
    BY <1>1 DEF OutRight, OutLen
  <2> QED BY <1>1, <2>1
<1>4. /\ Len(outNew) = n /\ DOMAIN outNew = 1..n /\ \A i \in 1..n : outNew[i] = cell[fresh - i].value
  <2>1. Len(outNew) = n /\ \A i \in 1..n : outNew[i] = cell[fresh - i].value
    BY <1>1 DEF OutNewRight, NewLen
  <2> QED BY <1>1, <2>1
<1>5. \A i \in 1..head : head + 1 - i \in 1..head
  BY <1>2
<1>6. \A i \in 1..n : fresh - i \in head + 1..fresh - 1 /\ head + i \in head + 1..fresh - 1
  BY <1>2
<1>7. DOMAIN Data = 1..Len(Data) /\ Len(Data) \in Nat /\ data_length + 1 = 1
  BY <1>2, DataFacts
<1> DEFINE I == 1..Len(Data)
<1>b. /\ \A x \in 1..head : IsData(cell[x].value, I)
      /\ \A x, y \in 1..head : x < y => InOrder(cell[y].value, cell[x].value, I)
  BY <1>1, <1>7 DEF HeadRight
<1>8. L!Among(out, Data)
  <2>1. L!Range(out) \subseteq L!Range(Data)
    <3>1. \A i \in 1..head : \E j \in 1..Len(Data) : out[i] = Data[j]
      <4>1. ASSUME NEW i \in 1..head PROVE \E j \in 1..Len(Data) : out[i] = Data[j]
        <5>1. IsData(out[i], I)
          BY <1>3, <1>5, <1>b
        <5> QED BY <5>1 DEF IsData
      <4> QED BY <4>1
    <3> QED BY <1>3, <1>7, <3>1 DEF L!Range
  <2>2. ASSUME NEW i \in 1..head, NEW j \in 1..head, i < j
        PROVE  \E k, l \in 1..Len(Data) : k < l /\ out[i] = Data[k] /\ out[j] = Data[l]
    <3>1. head + 1 - j < head + 1 - i
      BY <1>2, <2>2
    <3>2. InOrder(out[i], out[j], I)
      BY <1>3, <1>5, <1>b, <2>2, <3>1
    <3> QED BY <3>2 DEF InOrder
  <2>3. \A i, j \in DOMAIN out : i < j =>
           \E k, l \in DOMAIN Data : k < l /\ out[i] = Data[k] /\ out[j] = Data[l]
    <3>1. SUFFICES ASSUME NEW i \in DOMAIN out, NEW j \in DOMAIN out, i < j
                   PROVE  \E k, l \in DOMAIN Data : k < l /\ out[i] = Data[k] /\ out[j] = Data[l]
      OBVIOUS
    <3>2. PICK k \in 1..Len(Data), l \in 1..Len(Data) : k < l /\ out[i] = Data[k] /\ out[j] = Data[l]
      <4>1. i \in 1..head /\ j \in 1..head /\ i < j
        BY <1>3, <3>1
      <4> QED BY <2>2, <4>1
    <3> QED BY <1>7, <3>2
  <2> QED BY <2>1, <2>3 DEF L!Among
<1>9. /\ \A x \in head + 1..fresh - 1 :
             L!IsOdd(cell[x].value) /\ \E i \in 1..head : cell[x].value = out[i]
      /\ \A x, y \in head + 1..fresh - 1 : x < y =>
             \E i, j \in 1..head : i < j /\ cell[x].value = out[i] /\ cell[y].value = out[j]
      /\ ~ failed => \A i \in 1..head : L!IsOdd(out[i]) =>
             \E x \in head + 1..fresh - 1 : cell[x].value = out[i]
  BY <1>1, <1>2 DEF NewRight
<1>10. L!Among(L!Reverse(outNew), out)
  <2> DEFINE r == L!Reverse(outNew)
  <2>1. r = [i \in 1..n |-> outNew[(n - i) + 1]]
    BY <1>4 DEF L!Reverse
  <2>2. DOMAIN r = 1..n /\ \A i \in 1..n : r[i] = cell[head + i].value
    <3>1. \A i \in 1..n : (n - i) + 1 \in 1..n /\ fresh - ((n - i) + 1) = head + i
      BY <1>2
    <3> HIDE DEF n
    <3> QED BY <1>4, <2>1, <3>1
  <2> HIDE DEF r
  <2>3. L!Range(r) \subseteq L!Range(out)
    <3>1. \A i \in 1..n : \E j \in 1..head : r[i] = out[j]
      BY <1>6, <1>9, <2>2
    <3> QED BY <1>3, <2>2, <3>1 DEF L!Range
  <2>4. ASSUME NEW i \in 1..n, NEW j \in 1..n, i < j
        PROVE  \E k, l \in 1..head : k < l /\ r[i] = out[k] /\ r[j] = out[l]
    <3>1. head + i < head + j
      BY <1>2, <2>4
    <3> QED BY <1>6, <1>9, <2>2, <3>1
  <2>5. \A i, j \in DOMAIN r : i < j =>
           \E k, l \in DOMAIN out : k < l /\ r[i] = out[k] /\ r[j] = out[l]
    <3>1. SUFFICES ASSUME NEW i \in DOMAIN r, NEW j \in DOMAIN r, i < j
                   PROVE  \E k, l \in DOMAIN out : k < l /\ r[i] = out[k] /\ r[j] = out[l]
      OBVIOUS
    <3>2. PICK k \in 1..head, l \in 1..head : k < l /\ r[i] = out[k] /\ r[j] = out[l]
      BY <2>2, <2>4, <3>1
    <3> QED BY <1>3, <3>2
  <2>6. L!Among(r, out)
    BY <2>3, <2>5 DEF L!Among
  <2> QED BY <2>6 DEF r
<1>11. \A x \in L!Range(outNew) : L!IsOdd(x)
  <2>1. \A i \in 1..n : L!IsOdd(outNew[i])
    BY <1>4, <1>6, <1>9
  <2> QED BY <1>4, <2>1 DEF L!Range
<1>12. ASSUME ~ failed
       PROVE  /\ out = Data /\ head = Len(Data)
              /\ {x \in L!Range(Data) : L!IsOdd(x)} \subseteq L!Range(outNew)
  <2>1. head = Len(Data) /\ \A x \in 1..head : cell[x].value = Data[Len(Data) + 1 - x]
    BY <1>1, <1>2, <1>7, <1>12 DEF HeadRight, IsData, InOrder
  <2>2. \A i \in 1..head : out[i] = Data[i]
    <3>1. \A i \in 1..head : Len(Data) + 1 - (head + 1 - i) = i
      BY <1>2, <2>1
    <3> QED BY <1>3, <1>5, <2>1, <3>1
  <2>3. out = Data
    BY <1>1, <1>3, <2>1, <2>2, DataFacts, SeqEqual
  <2>4. ASSUME NEW i \in 1..head, L!IsOdd(out[i]) PROVE \E j \in 1..n : outNew[j] = out[i]
    <3>1. PICK x \in head + 1..fresh - 1 : cell[x].value = out[i]
      BY <1>9, <1>12, <2>4
    <3>2. fresh - x \in 1..n /\ fresh - (fresh - x) = x
      BY <1>2
    <3> QED BY <1>4, <3>1, <3>2
  <2> QED BY <1>3, <1>4, <2>1, <2>3, <2>4 DEF L!Range
<1> QED BY <1>4, <1>8, <1>10, <1>11, <1>12 DEF Printed2

\* The steps that leave the second map, with both lists printed.
LEMMA AfterMaps ==
    ASSUME LInv, L!BeginDelete \/ L!Return
    PROVE  LInv'
<1>1. /\ LShape /\ LPlace /\ UNCHANGED <<language, cell, fresh, data_length, head, newList>>
      /\ UNCHANGED <<out, outNew, failed>> /\ status = "running" /\ phase = "mapNew" /\ at = 0
  BY DEF LInv, L!BeginDelete, L!Return, L!Begin, L!NULL, L!memory, L!lists, L!output
<1>2. /\ fresh \in Nat \ {0} /\ head \in 0..fresh - 1 /\ head \in Nat /\ data_length \in 0..Len(Data)
      /\ newList = (IF head = fresh - 1 THEN 0 ELSE fresh - 1)
  BY <1>1 DEF LShape, LPlace
<1>3. Printed2
  BY <1>1, PrintedRight
<1>4. CASE L!BeginDelete
  <2>1. phase' = "delete" /\ at' = head /\ language = "C" /\ status' = status
    BY <1>4 DEF L!BeginDelete, L!Begin
  <2>2. LPlace'
    BY <1>1, <1>2, <2>1 DEF LPlace, Printing
  <2>3. Allocated' = Allocated
    <3>1. (1..head) \cup (head + 1..fresh - 1) = 1..fresh - 1
      BY <1>2
    <3> QED BY <1>1, <2>1, <3>1 DEF Allocated, Printing
  <2> QED BY <1>1, <1>3, <2>1, <2>2, <2>3, LUnmoved DEF Printing
<1>5. CASE L!Return
  <2>1. phase' = "end" /\ at' = at /\ language = "asm" /\ status' = "done"
    BY <1>5 DEF L!Return
  <2>2. LPlace'
    BY <1>1, <1>2, <2>1 DEF LPlace, Printing
  <2>3. Allocated' = Allocated
    BY <1>1, <2>1 DEF Allocated, Printing
  <2> QED BY <1>1, <1>3, <2>1, <2>2, <2>3, LUnmoved DEF Printing
<1> QED BY <1>4, <1>5

\* A round of deleteList.
LEMMA DeleteStep == ASSUME LInv, L!Delete PROVE LInv'
<1>1. /\ phase \in {"delete", "deleteNew"} /\ status = "running"
      /\ UNCHANGED <<language, fresh, data_length, head, newList, out, outNew, failed>>
      /\ IF at = 0
         THEN status' = "crash" /\ UNCHANGED <<cell, at, phase>>
         ELSE /\ cell' = L!Freed(at)
              /\ IF cell[at].next # 0
                 THEN at' = cell[at].next /\ UNCHANGED <<phase, status>>
                 ELSE IF phase = "delete"
                      THEN at' = newList /\ phase' = "deleteNew" /\ UNCHANGED status
                      ELSE at' = 0 /\ phase' = "end" /\ status' = "done"
  BY DEF L!Delete, L!NULL, L!lists, L!output
<1>2. /\ LShape /\ LPlace /\ Printed2 /\ out \in Seq(Int) /\ outNew \in Seq(Int)
      /\ phase \notin Printing
  BY <1>1 DEF LInv, Printing
<1>3. /\ fresh \in Nat \ {0} /\ head \in 0..fresh - 1 /\ head \in Nat /\ data_length = 0
      /\ newList = (IF head = fresh - 1 THEN 0 ELSE fresh - 1) /\ language = "C"
  BY <1>1, <1>2 DEF LShape, LPlace
<1>4. Printed2'
  BY <1>1, <1>2 DEF Printed2
<1>5. CASE at = 0
  <2>1. status' = "crash" /\ UNCHANGED <<cell, at, phase>>
    BY <1>1, <1>5
  <2>2. phase = "delete" => head = 0
    BY <1>2, <1>5 DEF LPlace
  <2>3. phase = "deleteNew" => newList = 0
    BY <1>2, <1>5 DEF LPlace
  <2>4. 0 \in {head, newList}
    BY <1>1, <2>2, <2>3
  <2>5. failed
    <3> SUFFICES ASSUME ~ failed PROVE FALSE
      BY <1>2 DEF LPlace
    <3>1. /\ head = Len(Data) /\ out = Data /\ Len(outNew) = fresh - 1 - head
          /\ {x \in L!Range(Data) : L!IsOdd(x)} \subseteq L!Range(outNew)
      BY <1>2 DEF Printed2
    <3>2. PICK i \in 1..Len(Data) : L!IsOdd(Data[i])
      BY DataFacts
    <3>3. Data[i] \in L!Range(outNew)
      BY <3>1, <3>2, DataFacts DEF L!Range
    <3>4. DOMAIN outNew # {} /\ DOMAIN outNew = 1..Len(outNew)
      BY <1>2, <3>3 DEF L!Range
    <3>5. head # 0 /\ fresh - 1 # head
      BY <1>3, <3>1, <3>2, <3>4, DataFacts
    <3> QED BY <1>3, <2>4, <3>5
  <2>6. LPlace'
    BY <1>1, <1>2, <1>3, <2>1, <2>4, <2>5 DEF LPlace, Printing
  <2>7. LShape'
    BY <1>1, <1>2, <2>1 DEF LShape, Allocated
  <2> QED BY <1>1, <1>2, <1>4, <2>1, <2>6, <2>7 DEF LInv
<1>6. CASE at # 0
  <2>1. at \in DOMAIN cell /\ at \in 1..fresh - 1
    BY <1>1, <1>2, <1>3, <1>6 DEF LShape, LPlace, Allocated, Printing
  <2>2. cell[at].next = IF at \in {1, head + 1} THEN 0 ELSE at - 1
    BY <1>2, <2>1 DEF LShape
  <2>3. cell' = [x \in DOMAIN cell \ {at} |-> cell[x]]
    BY <1>1, <1>6 DEF L!Freed, L!Restrict
  <2>4. DOMAIN cell' = DOMAIN cell \ {at} /\ \A x \in DOMAIN cell' : cell'[x] = cell[x]
    BY <2>3
  <2>5. \A x \in DOMAIN cell' : cell'[x].next = IF x \in {1, head' + 1} THEN 0 ELSE x - 1
    BY <1>1, <1>2, <2>4 DEF LShape
  <2>6. CASE phase = "delete"
    <3>1. at \in 1..head /\ DOMAIN cell = (1..at) \cup (head + 1..fresh - 1)
      BY <1>2, <1>3, <1>6, <2>6 DEF LShape, LPlace, Allocated, Printing
    <3>2. DOMAIN cell' = (1..at - 1) \cup (head + 1..fresh - 1)
      BY <1>3, <2>4, <3>1
    <3>3. CASE at # 1
      <4>1. at' = at - 1 /\ phase' = phase /\ status' = status /\ at - 1 \in 1..head
        BY <1>1, <1>3, <1>6, <2>2, <3>1, <3>3
      <4>2. LPlace'
        BY <1>1, <1>2, <1>3, <2>6, <3>1, <4>1 DEF LPlace, Printing
      <4>3. Allocated' = DOMAIN cell'
        BY <1>1, <2>6, <3>2, <4>1 DEF Allocated, Printing
      <4>4. LShape'
        BY <1>1, <1>2, <2>5, <2>6, <4>1, <4>3 DEF LShape
      <4> QED BY <1>1, <1>2, <1>4, <4>1, <4>2, <4>4 DEF LInv
    <3>4. CASE at = 1
      <4>1. at' = newList /\ phase' = "deleteNew" /\ status' = status
        BY <1>1, <1>6, <2>2, <2>6, <3>4
      <4>2. LPlace'
        BY <1>1, <1>2, <1>3, <2>6, <4>1 DEF LPlace, Printing
      <4>3. Allocated' = DOMAIN cell'
        <5>1. Allocated' = head + 1..newList
          BY <1>1, <4>1 DEF Allocated, Printing
        <5>2. 1..at - 1 = {} /\ head + 1..newList = head + 1..fresh - 1
          BY <1>3, <3>4
        <5> QED BY <3>2, <5>1, <5>2
      <4>4. LShape'
        BY <1>1, <1>2, <2>5, <4>1, <4>3 DEF LShape
      <4> QED BY <1>1, <1>2, <1>4, <4>1, <4>2, <4>4 DEF LInv, Printing
    <3> QED BY <3>3, <3>4
  <2>7. CASE phase = "deleteNew"
    <3>1. at \in head + 1..fresh - 1 /\ DOMAIN cell = head + 1..at /\ newList # 0
      BY <1>2, <1>3, <1>6, <2>7 DEF LShape, LPlace, Allocated, Printing
    <3>2. DOMAIN cell' = head + 1..at - 1
      BY <1>3, <2>4, <3>1
    <3>3. CASE at # head + 1
      <4>1. at' = at - 1 /\ phase' = phase /\ status' = status /\ at - 1 \in head + 1..fresh - 1
        BY <1>1, <1>3, <1>6, <2>2, <3>1, <3>3
      <4>2. LPlace'
        BY <1>1, <1>2, <1>3, <2>7, <3>1, <4>1 DEF LPlace, Printing
      <4>3. Allocated' = DOMAIN cell'
        BY <1>1, <2>7, <3>2, <4>1 DEF Allocated, Printing
      <4>4. LShape'
        BY <1>1, <1>2, <2>5, <2>7, <4>1, <4>3 DEF LShape
      <4> QED BY <1>1, <1>2, <1>4, <4>1, <4>2, <4>4 DEF LInv
    <3>4. CASE at = head + 1
      <4>1. at' = 0 /\ phase' = "end" /\ status' = "done"
        BY <1>1, <1>6, <2>2, <2>7, <3>4
      <4>2. LPlace'
        BY <1>1, <1>2, <1>3, <2>7, <4>1 DEF LPlace, Printing
      <4>3. Allocated' = DOMAIN cell'
        <5>1. Allocated' = {}
          BY <1>1, <1>3, <4>1 DEF Allocated, Printing
        <5>2. head + 1..at - 1 = {}
          BY <1>3, <3>4
        <5> QED BY <3>2, <5>1, <5>2
      <4>4. LShape'
        BY <1>1, <1>2, <2>5, <4>1, <4>3 DEF LShape
      <4> QED BY <1>1, <1>2, <1>4, <4>1, <4>2, <4>4 DEF LInv, Printing
    <3> QED BY <3>3, <3>4
  <2> QED BY <1>1, <2>6, <2>7
<1> QED BY <1>5, <1>6

\* Every step keeps it.
LEMMA LInvStep == LInv /\ [L!Next]_(L!vars) => LInv'
<1> SUFFICES ASSUME LInv, [L!Next]_(L!vars) PROVE LInv'
  OBVIOUS
<1>1. CASE UNCHANGED L!vars
  <2>1. /\ UNCHANGED <<language, cell, fresh, data_length, head, newList>>
        /\ UNCHANGED <<out, outNew, failed, at, phase, status>>
    BY <1>1 DEF L!vars, L!memory, L!lists, L!output
  <2>2. LPlace'
    BY <2>1 DEF LInv, LPlace
  <2>3. Allocated' = Allocated /\ OutLen' = OutLen /\ Filtered' = Filtered /\ NewLen' = NewLen
    BY <2>1 DEF Allocated, OutLen, Filtered, NewLen
  <2>4. phase \in {"build", "map"} => head = fresh - 1
    BY DEF LInv, LShape
  <2> QED BY <2>1, <2>2, <2>3, <2>4, LUnmoved
<1> QED BY <1>1, BuildStep, BeginSteps, MapStep, FilterStep, AfterMaps, DeleteStep DEF L!Next

-----------------------------------------------------------------------------
(***************************************************************************)
(* figlet, the command: the text after each argument is a beginning of the *)
(* arguments joined, and all of them unless it is full but for one.        *)
(***************************************************************************)
\* What the assumptions say of the constants.
LEMMA FigletConstants ==
    /\ TEXT_SIZE \in Nat \ {0, 1} /\ CMD_SIZE \in Nat /\ Addresses \in Nat \ {0}
    /\ {" ", ".", "CR", "LF"} \subseteq Char /\ Argv \subseteq Seq(Seq(Char)) /\ Font \subseteq Nat
    /\ Banner \subseteq Seq(Char) /\ Art \subseteq Seq(Char) \ {<<>>}
BY ProgramsAssumption DEF ProgramsAssumption, F!FigletAssumption

\* The size of a text.
LEMMA TextSize == TEXT_SIZE \in Nat /\ TEXT_SIZE >= 2
<1>1. TEXT_SIZE \in Nat \ {0, 1}
  BY FigletConstants
<1>2. \A n \in Nat \ {0, 1} : n \in Nat /\ n >= 2
  OBVIOUS
<1> QED BY <1>1, <1>2

Blank(t, i) == IF i > 1 THEN Append(t, " ") ELSE t
Room(s, i)  == IF Len(s) + Len(argv[i]) >= TEXT_SIZE THEN TEXT_SIZE - Len(s) - 1 ELSE Len(argv[i])
IsText(f)   == f = [i \in 0..Len(argv) |-> IF i = 0 THEN <<>> ELSE F!WithArg(f[i - 1], i)]
IsJoin(f)   == f = [i \in 0..Len(argv) |-> IF i = 0 THEN <<>> ELSE Blank(f[i - 1], i) \o argv[i]]

\* Texts and what is added to them are sequences of characters.
LEMMA BlankTyped ==
    ASSUME NEW t \in Seq(Char), NEW i
    PROVE  /\ Blank(t, i) \in Seq(Char) /\ Len(Blank(t, i)) \in Nat /\ Len(t) \in Nat
           /\ Len(t) <= Len(Blank(t, i)) /\ Len(Blank(t, i)) <= Len(t) + 1
           /\ \A j \in 1..Len(t) : Blank(t, i)[j] = t[j]
<1>1. " " \in Char
  BY FigletConstants
<1>2. /\ Append(t, " ") \in Seq(Char) /\ Len(Append(t, " ")) = Len(t) + 1
      /\ \A j \in 1..Len(t) : Append(t, " ")[j] = t[j]
  <2>1. \A b \in Char : /\ Append(t, b) \in Seq(Char) /\ Len(Append(t, b)) = Len(t) + 1
                        /\ \A j \in 1..Len(t) : Append(t, b)[j] = t[j]
    BY AppendProperties
  <2> QED BY <1>1, <2>1
<1>3. Len(t) \in Nat
  BY LenProperties
<1>4. CASE Blank(t, i) = t
  BY <1>3, <1>4
<1>5. CASE Blank(t, i) = Append(t, " ")
  <2> DEFINE b == Append(t, " ")
  <2>1. Blank(t, i) = b /\ b \in Seq(Char) /\ Len(b) = Len(t) + 1 /\ \A j \in 1..Len(t) : b[j] = t[j]
    BY <1>2, <1>5
  <2> HIDE DEF b
  <2> QED BY <1>3, <2>1
<1> QED BY <1>4, <1>5 DEF Blank

\* The beginning of a text.
LEMMA SubTyped ==
    ASSUME NEW a \in Seq(Char), NEW n \in 0..Len(a)
    PROVE  /\ SubSeq(a, 1, n) \in Seq(Char) /\ Len(SubSeq(a, 1, n)) = n
           /\ \A j \in 1..n : SubSeq(a, 1, n)[j] = a[j]
<1>1. Len(a) \in Nat /\ n \in Int /\ 1 \in Int
  BY LenProperties
<1>2. \A j \in 1..n : a[j] \in Char
  BY <1>1, ElementOfSeq
<1>3. /\ SubSeq(a, 1, n) \in Seq(Char) /\ Len(SubSeq(a, 1, n)) = IF 1 <= n THEN n - 1 + 1 ELSE 0
      /\ \A j \in 1..n - 1 + 1 : SubSeq(a, 1, n)[j] = a[1 + j - 1]
  BY <1>1, <1>2, SubSeqProperties
<1>4. n - 1 + 1 = n /\ \A j \in 1..n : 1 + j - 1 = j
  BY <1>1
<1> QED BY <1>1, <1>3, <1>4

\* A round that adds to the text.
LEMMA WithArgAdds ==
    ASSUME argv \in Argv, NEW i \in 1..Len(argv), NEW t \in Seq(Char), Len(t) < TEXT_SIZE - 2
    PROVE  /\ argv[i] \in Seq(Char)
           /\ F!WithArg(t, i) = Blank(t, i) \o SubSeq(argv[i], 1, Room(Blank(t, i), i))
           /\ Room(Blank(t, i), i) \in 0..Len(argv[i])
           /\ Len(F!WithArg(t, i)) = Len(Blank(t, i)) + Room(Blank(t, i), i)
           /\ Len(F!WithArg(t, i)) < TEXT_SIZE /\ F!WithArg(t, i) \in Seq(Char)
<1> DEFINE s == Blank(t, i)
           a == argv[i]
<1>1. a \in Seq(Char) /\ Len(a) \in Nat
  <2>1. argv \in Seq(Seq(Char))
    BY FigletConstants
  <2> QED BY <2>1, ElementOfSeq, LenProperties
<1>2. s \in Seq(Char) /\ Len(s) \in Nat /\ Len(t) \in Nat /\ Len(s) <= Len(t) + 1 /\ TEXT_SIZE \in Nat
  BY BlankTyped, FigletConstants
<1>3. Room(s, i) \in 0..Len(a) /\ Len(s) + Room(s, i) < TEXT_SIZE
  <2> HIDE DEF s, a
  <2>1. Room(s, i) = IF Len(s) + Len(a) >= TEXT_SIZE THEN TEXT_SIZE - Len(s) - 1 ELSE Len(a)
    BY DEF Room, a
  <2> QED BY <1>1, <1>2, <2>1
<1>4. F!WithArg(t, i) = s \o SubSeq(a, 1, Room(s, i))
  BY DEF F!WithArg, Blank, Room
<1>5. SubSeq(a, 1, Room(s, i)) \in Seq(Char) /\ Len(SubSeq(a, 1, Room(s, i))) = Room(s, i)
  <2> HIDE DEF s, a
  <2> QED BY <1>1, <1>3, SubTyped
<1> HIDE DEF s, a
<1>6. /\ s \o SubSeq(a, 1, Room(s, i)) \in Seq(Char)
      /\ Len(s \o SubSeq(a, 1, Room(s, i))) = Len(s) + Room(s, i)
  BY <1>2, <1>5, ConcatProperties
<1> QED BY <1>1, <1>3, <1>4, <1>6 DEF s, a

\* Any round.
LEMMA WithArgTyped ==
    ASSUME argv \in Argv, NEW i \in 1..Len(argv), NEW t \in Seq(Char)
    PROVE  F!WithArg(t, i) \in Seq(Char)
<1>1. ~ Len(t) < TEXT_SIZE - 2 => F!WithArg(t, i) = t
  BY DEF F!WithArg
<1> QED BY <1>1, WithArgAdds

\* The texts that the loop makes.
LEMMA Texts ==
    ASSUME argv \in Argv
    PROVE  \E f : /\ F!Text = f[Len(argv)] /\ f[0] = <<>>
                  /\ \A i \in 0..Len(argv) : f[i] \in Seq(Char)
                  /\ \A i \in 0..Len(argv) - 1 : f[i + 1] = F!WithArg(f[i], i + 1)
<1> DEFINE n == Len(argv)
           step == [i \in 1..n |-> [x \in Seq(Char) |-> F!WithArg(x, i)]]
<1>1. n \in Nat
  BY FigletConstants, LenProperties
<1>2. PICK f : IsIterated(f, n, <<>>, step)
  BY <1>1, IteratedExists
<1>3. f[0] = <<>> /\ \A i \in 0..n - 1 : f[i + 1] = step[i + 1][f[i]]
  <2> HIDE DEF n, step
  <2> QED BY <1>1, <1>2, IteratedSteps
<1> HIDE DEF n
<1>4. \A i \in 0..n - 1 : \A x \in Seq(Char) :
          step[i + 1][x] = F!WithArg(x, i + 1) /\ step[i + 1][x] \in Seq(Char)
  <2> SUFFICES ASSUME NEW i \in 0..n - 1, NEW x \in Seq(Char)
               PROVE  step[i + 1][x] = F!WithArg(x, i + 1) /\ step[i + 1][x] \in Seq(Char)
    OBVIOUS
  <2>1. i + 1 \in 1..n
    BY <1>1
  <2>2. F!WithArg(x, i + 1) \in Seq(Char)
    BY <2>1, WithArgTyped DEF n
  <2> QED BY <2>1, <2>2
<1> HIDE DEF step
<1>5. \A i \in 0..n : f[i] \in Seq(Char)
  <2> DEFINE G == {i \in 0..n : f[i] \in Seq(Char)}
  <2>1. 0 \in G
    <3>1. <<>> \in Seq(Char) /\ 0 \in 0..n
      BY <1>1, EmptySeq
    <3> QED BY <1>3, <3>1
  <2>2. ASSUME NEW i \in 0..n - 1, i \in G PROVE i + 1 \in G
    <3>1. i + 1 \in 0..n
      BY <1>1
    <3> QED BY <1>3, <1>4, <2>2, <3>1
  <2> HIDE DEF G
  <2>3. \A i \in 0..n : i \in G
    BY <1>1, <2>1, <2>2, UpTo
  <2> QED BY <2>3 DEF G
<1>6. \A i \in 0..n - 1 : f[i + 1] = F!WithArg(f[i], i + 1)
  <2> TAKE i \in 0..n - 1
  <2>1. i \in 0..n
    BY <1>1
  <2> QED BY <1>3, <1>4, <1>5, <2>1
<1>7. IsText(f)
  <2>1. DOMAIN f = 0..n /\ f = [i \in 0..n |-> f[i]]
    BY <1>2 DEF IsIterated
  <2>2. \A i \in 0..n : f[i] = IF i = 0 THEN <<>> ELSE F!WithArg(f[i - 1], i)
    <3> TAKE i \in 0..n
    <3>1. i # 0 => i - 1 \in 0..n - 1 /\ (i - 1) + 1 = i
      BY <1>1
    <3> QED BY <1>3, <1>6, <3>1
  <2> QED BY <2>1, <2>2 DEF IsText, n
<1>8. ASSUME NEW g, IsText(g)
      PROVE  g[0] = <<>> /\ \A i \in 0..n - 1 : g[i + 1] = F!WithArg(g[i], i + 1)
  <2>1. \A i \in 0..n : g[i] = IF i = 0 THEN <<>> ELSE F!WithArg(g[i - 1], i)
    BY <1>8 DEF IsText, n
  <2>2. ASSUME NEW i \in 0..n - 1 PROVE g[i + 1] = F!WithArg(g[i], i + 1)
    <3>1. i + 1 \in 0..n /\ i + 1 # 0 /\ (i + 1) - 1 = i
      BY <1>1
    <3> QED BY <2>1, <3>1
  <2> QED BY <1>1, <2>1, <2>2
<1>9. IsText(CHOOSE g : IsText(g))
  BY <1>7
<1>10. F!Text = (CHOOSE g : IsText(g))[n]
  BY DEF F!Text, IsText, n
<1> DEFINE h == CHOOSE g : IsText(g)
<1>11. h[0] = <<>> /\ \A i \in 0..n - 1 : h[i + 1] = F!WithArg(h[i], i + 1)
  BY <1>8, <1>9
<1> HIDE DEF h
<1>12. \A i \in 0..n : h[i] \in Seq(Char)
  <2> DEFINE G == {i \in 0..n : h[i] \in Seq(Char)}
  <2>1. 0 \in G
    <3>1. <<>> \in Seq(Char) /\ 0 \in 0..n
      BY <1>1, EmptySeq
    <3> QED BY <1>11, <3>1
  <2>2. ASSUME NEW i \in 0..n - 1, i \in G PROVE i + 1 \in G
    <3>1. i + 1 \in 1..n /\ i + 1 \in 0..n
      BY <1>1
    <3>2. F!WithArg(h[i], i + 1) \in Seq(Char)
      BY <2>2, <3>1, WithArgTyped DEF n
    <3> QED BY <1>11, <3>1, <3>2
  <2> HIDE DEF G
  <2>3. \A i \in 0..n : i \in G
    BY <1>1, <2>1, <2>2, UpTo
  <2> QED BY <2>3 DEF G
<1> QED BY <1>10, <1>11, <1>12 DEF h, n

\* The arguments joined, as the property joins them.
LEMMA Joins ==
    ASSUME argv \in Argv
    PROVE  \E f : /\ F!Joined = f[Len(argv)] /\ f[0] = <<>>
                  /\ \A i \in 0..Len(argv) : f[i] \in Seq(Char)
                  /\ \A i \in 0..Len(argv) - 1 : f[i + 1] = Blank(f[i], i + 1) \o argv[i + 1]
<1> DEFINE n == Len(argv)
           step == [i \in 1..n |-> [x \in Seq(Char) |-> Blank(x, i) \o argv[i]]]
<1>1. n \in Nat /\ \A i \in 1..n : argv[i] \in Seq(Char)
  <2>1. argv \in Seq(Seq(Char))
    BY FigletConstants
  <2> QED BY <2>1, LenProperties, ElementOfSeq
<1>2. PICK f : IsIterated(f, n, <<>>, step)
  BY <1>1, IteratedExists
<1>3. f[0] = <<>> /\ \A i \in 0..n - 1 : f[i + 1] = step[i + 1][f[i]]
  <2> HIDE DEF n, step
  <2> QED BY <1>1, <1>2, IteratedSteps
<1> HIDE DEF n
<1>a. ASSUME NEW i \in 1..n, NEW x \in Seq(Char) PROVE Blank(x, i) \o argv[i] \in Seq(Char)
  <2> DEFINE b == Blank(x, i)
             a == argv[i]
  <2>1. b \in Seq(Char) /\ a \in Seq(Char)
    BY <1>1, BlankTyped
  <2> HIDE DEF a, b
  <2>2. b \o a \in Seq(Char)
    BY <2>1, ConcatProperties
  <2> QED BY <2>2 DEF a, b
<1>4. \A i \in 0..n - 1 : \A x \in Seq(Char) :
          step[i + 1][x] = Blank(x, i + 1) \o argv[i + 1] /\ step[i + 1][x] \in Seq(Char)
  <2> SUFFICES ASSUME NEW i \in 0..n - 1, NEW x \in Seq(Char)
               PROVE  step[i + 1][x] = Blank(x, i + 1) \o argv[i + 1] /\ step[i + 1][x] \in Seq(Char)
    OBVIOUS
  <2>1. i + 1 \in 1..n
    BY <1>1
  <2>2. step[i + 1][x] = Blank(x, i + 1) \o argv[i + 1]
    BY <2>1
  <2> HIDE DEF step
  <2> QED BY <1>a, <2>1, <2>2
<1> HIDE DEF step
<1>5. \A i \in 0..n : f[i] \in Seq(Char)
  <2> DEFINE G == {i \in 0..n : f[i] \in Seq(Char)}
  <2>1. 0 \in G
    <3>1. <<>> \in Seq(Char) /\ 0 \in 0..n
      BY <1>1, EmptySeq
    <3> QED BY <1>3, <3>1
  <2>2. ASSUME NEW i \in 0..n - 1, i \in G PROVE i + 1 \in G
    <3>1. i + 1 \in 0..n
      BY <1>1
    <3> QED BY <1>3, <1>4, <2>2, <3>1
  <2> HIDE DEF G
  <2>3. \A i \in 0..n : i \in G
    BY <1>1, <2>1, <2>2, UpTo
  <2> QED BY <2>3 DEF G
<1>6. \A i \in 0..n - 1 : f[i + 1] = Blank(f[i], i + 1) \o argv[i + 1]
  <2> TAKE i \in 0..n - 1
  <2>1. i \in 0..n
    BY <1>1
  <2> QED BY <1>3, <1>4, <1>5, <2>1
<1>7. IsJoin(f)
  <2>1. DOMAIN f = 0..n /\ f = [i \in 0..n |-> f[i]]
    BY <1>2 DEF IsIterated
  <2>2. \A i \in 0..n : f[i] = IF i = 0 THEN <<>> ELSE Blank(f[i - 1], i) \o argv[i]
    <3> TAKE i \in 0..n
    <3>1. i # 0 => i - 1 \in 0..n - 1 /\ (i - 1) + 1 = i
      BY <1>1
    <3> QED BY <1>3, <1>6, <3>1
  <2> QED BY <2>1, <2>2 DEF IsJoin, n
<1>8. ASSUME NEW g, IsJoin(g)
      PROVE  g[0] = <<>> /\ \A i \in 0..n - 1 : g[i + 1] = Blank(g[i], i + 1) \o argv[i + 1]
  <2>1. \A i \in 0..n : g[i] = IF i = 0 THEN <<>> ELSE Blank(g[i - 1], i) \o argv[i]
    BY <1>8 DEF IsJoin, n
  <2>2. ASSUME NEW i \in 0..n - 1 PROVE g[i + 1] = Blank(g[i], i + 1) \o argv[i + 1]
    <3>1. i + 1 \in 0..n /\ i + 1 # 0 /\ (i + 1) - 1 = i
      BY <1>1
    <3> QED BY <2>1, <3>1
  <2>3. g[0] = <<>>
    BY <1>1, <2>1
  <2> QED BY <2>2, <2>3
<1>9. IsJoin(CHOOSE g : IsJoin(g))
  BY <1>7
<1>10. F!Joined = (CHOOSE g : IsJoin(g))[n]
  BY DEF F!Joined, IsJoin, Blank, n
<1> DEFINE h == CHOOSE g : IsJoin(g)
<1>11. h[0] = <<>> /\ \A i \in 0..n - 1 : h[i + 1] = Blank(h[i], i + 1) \o argv[i + 1]
  BY <1>8, <1>9
<1> HIDE DEF h
<1>12. \A i \in 0..n : h[i] \in Seq(Char)
  <2> DEFINE G == {i \in 0..n : h[i] \in Seq(Char)}
  <2>1. 0 \in G
    <3>1. <<>> \in Seq(Char) /\ 0 \in 0..n
      BY <1>1, EmptySeq
    <3> QED BY <1>11, <3>1
  <2>2. ASSUME NEW i \in 0..n - 1, i \in G PROVE i + 1 \in G
    <3>1. i + 1 \in 1..n /\ i + 1 \in 0..n
      BY <1>1
    <3>2. Blank(h[i], i + 1) \o argv[i + 1] \in Seq(Char)
      BY <1>a, <2>2, <3>1
    <3> QED BY <1>11, <3>1, <3>2
  <2> HIDE DEF G
  <2>3. \A i \in 0..n : i \in G
    BY <1>1, <2>1, <2>2, UpTo
  <2> QED BY <2>3 DEF G
<1> QED BY <1>10, <1>11, <1>12 DEF h, n

\* s is a beginning of r, and the whole of it unless it is full but for one.
Begins(s, r) ==
    /\ Len(s) < TEXT_SIZE /\ Len(s) <= Len(r) /\ \A k \in 1..Len(s) : s[k] = r[k]
    /\ Len(s) >= TEXT_SIZE - 2 \/ s = r

\* Each round keeps that.
LEMMA RoundBegins ==
    ASSUME argv \in Argv, NEW i \in 1..Len(argv), NEW s \in Seq(Char), NEW r \in Seq(Char),
           Begins(s, r)
    PROVE  Begins(F!WithArg(s, i), Blank(r, i) \o argv[i])
<1> DEFINE a == argv[i]
           b == Blank(r, i)
           q == b \o a
<1>1. a \in Seq(Char) /\ Len(a) \in Nat /\ Len(s) \in Nat /\ Len(r) \in Nat
  <2>1. argv \in Seq(Seq(Char))
    BY FigletConstants
  <2> QED BY <2>1, ElementOfSeq, LenProperties
<1>2. /\ b \in Seq(Char) /\ Len(b) \in Nat /\ Len(r) <= Len(b) /\ \A j \in 1..Len(r) : b[j] = r[j]
      /\ Len(b) <= Len(r) + 1
  BY BlankTyped
<1> HIDE DEF a, b
<1>3. /\ q \in Seq(Char) /\ Len(q) = Len(b) + Len(a)
      /\ \A k \in 1..Len(b) + Len(a) : q[k] = IF k <= Len(b) THEN b[k] ELSE a[k - Len(b)]
  BY <1>1, <1>2, ConcatProperties
<1> HIDE DEF q
<1>4. CASE ~ Len(s) < TEXT_SIZE - 2
  <2>1. F!WithArg(s, i) = s
    BY <1>4 DEF F!WithArg
  <2>2. Len(s) <= Len(q) /\ \A k \in 1..Len(s) : s[k] = q[k]
    BY <1>1, <1>2, <1>3 DEF Begins
  <2>3. Len(s) >= TEXT_SIZE - 2
    BY <1>1, <1>4, TextSize
  <2>4. Begins(s, q)
    BY <2>2, <2>3 DEF Begins
  <2> QED BY <2>1, <2>4 DEF q, a, b
<1>5. CASE Len(s) < TEXT_SIZE - 2
  <2>1. s = r
    <3>1. ~ Len(s) >= TEXT_SIZE - 2
      BY <1>1, <1>5, TextSize
    <3> QED BY <3>1 DEF Begins
  <2> DEFINE m == Room(b, i)
             c == SubSeq(a, 1, m)
             w == F!WithArg(s, i)
  <2>2. /\ w = b \o c /\ m \in 0..Len(a) /\ Len(w) = Len(b) + m /\ Len(w) < TEXT_SIZE
        /\ w \in Seq(Char)
    BY <1>5, <2>1, WithArgAdds DEF a, b
  <2>3. c \in Seq(Char) /\ Len(c) = m /\ \A j \in 1..m : c[j] = a[j]
    BY <1>1, <2>2, SubTyped
  <2>4. m = IF Len(b) + Len(a) >= TEXT_SIZE THEN TEXT_SIZE - Len(b) - 1 ELSE Len(a)
    BY DEF Room, a
  <2>5. m = Len(a) => c = a
    BY <1>1, SubSeqFull
  <2> HIDE DEF m, c, w
  <2>6. \A k \in 1..Len(b) + m : w[k] = IF k <= Len(b) THEN b[k] ELSE c[k - Len(b)]
    BY <1>2, <2>2, <2>3, ConcatProperties
  <2>7. \A k \in 1..Len(w) : w[k] = q[k]
    <3> TAKE k \in 1..Len(w)
    <3>1. k \in 1..Len(b) + m /\ k \in 1..Len(b) + Len(a) /\ (~ k <= Len(b) => k - Len(b) \in 1..m)
      BY <1>1, <1>2, <2>2
    <3> QED BY <1>3, <2>3, <2>6, <3>1
  <2>8. Len(w) >= TEXT_SIZE - 2 \/ w = q
    <3>1. CASE Len(b) + Len(a) >= TEXT_SIZE
      <4>1. m = TEXT_SIZE - Len(b) - 1 /\ Len(w) = Len(b) + m
        BY <2>2, <2>4, <3>1
      <4>2. \A x, y, z \in Nat : y = z - x - 1 => x + y >= z - 2
        OBVIOUS
      <4>3. m \in Nat
        BY <1>1, <2>2
      <4> QED BY <1>2, <4>1, <4>2, <4>3, TextSize
    <3>2. CASE ~ Len(b) + Len(a) >= TEXT_SIZE
      <4>1. w = b \o a
        BY <2>2, <2>4, <2>5, <3>2
      <4> QED BY <4>1 DEF q
    <3> QED BY <3>1, <3>2
  <2>9. Len(w) <= Len(q)
    BY <1>1, <1>2, <1>3, <2>2
  <2>10. Begins(w, q)
    BY <2>2, <2>7, <2>8, <2>9 DEF Begins
  <2> QED BY <2>10 DEF w, q, a, b
<1> QED BY <1>4, <1>5

\* What the loop makes of the arguments.
LEMMA TextRight ==
    ASSUME argv \in Argv
    PROVE  /\ F!Text \in Seq(Char) /\ Len(F!Text) < TEXT_SIZE /\ F!IsPrefix(F!Text, F!Joined)
           /\ Len(F!Text) >= (IF Len(F!Joined) < TEXT_SIZE - 1 THEN Len(F!Joined) ELSE TEXT_SIZE - 2)
<1> DEFINE n == Len(argv)
           T == F!Text
           J == F!Joined
<1>1. PICK t : /\ T = t[n] /\ t[0] = <<>>
               /\ \A i \in 0..n : t[i] \in Seq(Char)
               /\ \A i \in 0..n - 1 : t[i + 1] = F!WithArg(t[i], i + 1)
  BY Texts
<1>2. PICK j : /\ J = j[n] /\ j[0] = <<>>
               /\ \A i \in 0..n : j[i] \in Seq(Char)
               /\ \A i \in 0..n - 1 : j[i + 1] = Blank(j[i], i + 1) \o argv[i + 1]
  BY Joins
<1>3. n \in Nat
  BY FigletConstants, LenProperties
<1> DEFINE G == {i \in 0..n : Begins(t[i], j[i])}
<1>4. 0 \in G
  <2>1. Begins(<<>>, <<>>)
    BY TextSize, EmptySeq DEF Begins
  <2> QED BY <1>1, <1>2, <1>3, <2>1
<1>5. ASSUME NEW i \in 0..n - 1, i \in G PROVE i + 1 \in G
  <2>1. i + 1 \in 1..Len(argv) /\ i + 1 \in 0..n /\ i \in 0..n
    BY <1>3
  <2>2. Begins(F!WithArg(t[i], i + 1), Blank(j[i], i + 1) \o argv[i + 1])
    BY <1>1, <1>2, <1>5, <2>1, RoundBegins
  <2> QED BY <1>1, <1>2, <2>1, <2>2
<1> HIDE DEF G
<1>6. n \in G
  <2> HIDE DEF n
  <2>1. \A i \in 0..n : i \in G
    BY <1>3, <1>4, <1>5, UpTo
  <2> QED BY <1>3, <2>1
<1>7. Begins(T, J) /\ T \in Seq(Char) /\ J \in Seq(Char)
  BY <1>1, <1>2, <1>3, <1>6 DEF G
<1> HIDE DEF T, J
<1>8. Len(T) \in Nat /\ Len(J) \in Nat
  BY <1>7, LenProperties
<1>9. F!IsPrefix(T, J)
  <2>1. /\ SubSeq(T, 1, Len(T)) \in Seq(Char) /\ Len(SubSeq(T, 1, Len(T))) = Len(T)
        /\ \A k \in 1..Len(T) : SubSeq(T, 1, Len(T))[k] = T[k]
    BY <1>7, <1>8, SubTyped
  <2>2. /\ SubSeq(J, 1, Len(T)) \in Seq(Char) /\ Len(SubSeq(J, 1, Len(T))) = Len(T)
        /\ \A k \in 1..Len(T) : SubSeq(J, 1, Len(T))[k] = J[k]
    BY <1>7, <1>8, SubTyped DEF Begins
  <2>3. SubSeq(T, 1, Len(T)) = SubSeq(J, 1, Len(T))
    BY <1>7, <2>1, <2>2, SeqEqual DEF Begins
  <2> QED BY <1>7, <2>3 DEF Begins, F!IsPrefix
<1>10. Len(T) >= (IF Len(J) < TEXT_SIZE - 1 THEN Len(J) ELSE TEXT_SIZE - 2)
  <2>1. Len(T) < TEXT_SIZE /\ Len(T) <= Len(J) /\ (Len(T) >= TEXT_SIZE - 2 \/ Len(T) = Len(J))
    BY <1>7 DEF Begins
  <2>2. \A x, y, z \in Nat : x < z /\ x <= y /\ (x >= z - 2 \/ x = y)
                            => x >= (IF y < z - 1 THEN y ELSE z - 2)
    OBVIOUS
  <2> QED BY <1>8, <2>1, <2>2, TextSize
<1> QED BY <1>7, <1>9, <1>10 DEF T, J, Begins

-----------------------------------------------------------------------------
(***************************************************************************)
(* figlet, the answer: the server has sent nothing, its greeting, also the *)
(* answer to the empty line, or also the answer to the command, and what   *)
(* the client prints is what it reads from some place on.                  *)
(***************************************************************************)
Greeting  == banner \o <<".">>
LineEnded == Greeting \o F!EOL \o <<>> \o <<".">>
Answered  == LineEnded \o F!EOL \o art \o <<".">>

StreamOk ==
    /\ \/ stream = <<>> /\ lines = <<>>
       \/ stream = Greeting /\ lines \in {<<>>, <<"empty">>, <<"empty", "figlet">>}
       \/ stream = LineEnded /\ lines \in {<<>>, <<"figlet">>}
       \/ stream = Answered /\ lines = <<>>
    /\ phase \in {"start", "resolve", "connect"} => stream = <<>> /\ lines = <<>> /\ pos = 0
    /\ phase = "hello" => stream = Greeting /\ lines = <<>>
    /\ phase \in {"prompt", "command"} => \/ stream = Greeting /\ lines = <<"empty">>
                                          \/ stream = LineEnded /\ lines = <<>>
    /\ phase = "answer" => \/ stream = Greeting /\ lines = <<"empty", "figlet">>
                           \/ stream = LineEnded /\ lines = <<"figlet">>
                           \/ stream = Answered /\ lines = <<>>

\* The first n characters of o are those of s behind position i, up to p.
ShownIn(o, s, p, i, n) == n <= p - i /\ \A k \in 1..n : o[k] = s[i + k]
Shown(i, n) == ShownIn(out, stream, pos, i, n)

OutOk ==
    /\ phase \notin {"answer", "end"} => out = <<>>
    /\ phase = "answer" => \E i \in 0..pos : Len(out) = pos - i /\ Shown(i, pos - i)
    /\ phase = "end" /\ out # <<>> => \E i \in 0..pos : Shown(i, Len(out) - 1)

\* Nothing but a prompt looks like one.
Plain == F!Find(banner, F!Prompt) = {} /\ F!Find(F!EOL \o art, F!NewPrompt) = {}
Exact ==
    /\ phase = "command" => stream = LineEnded /\ pos \in {Len(banner) + 3, Len(banner) + 4}
    /\ phase = "answer" =>
          /\ stream \in {LineEnded, Answered}
          /\ \E i \in {Len(banner) + 3, Len(banner) + 4} :
                i <= pos /\ Len(out) = pos - i /\ Shown(i, pos - i)
    /\ status = "success" /\ ~ closed => out \in {F!Whole, <<".">> \o F!Whole}

FTyped ==
    /\ argv \in Argv /\ font \in Font /\ banner \in Banner /\ art \in Art
    /\ phase \in {"start", "resolve", "connect", "hello", "prompt", "command", "answer", "end"}
    /\ status \in {"running", "success", "failure"} /\ (status = "running" <=> phase # "end")
    /\ text \in Seq(Char) /\ Len(text) < TEXT_SIZE /\ left \in 0..Addresses
    /\ stream \in Seq(Char) /\ pos \in 0..Len(stream) /\ out \in Seq(Char)
    /\ last \in Seq(Char) /\ Len(last) \in 0..2 /\ closed \in BOOLEAN /\ missed \in BOOLEAN

FInv ==
    /\ FTyped /\ StreamOk /\ OutOk /\ (Plain => Exact)
    /\ phase \notin {"start", "end"} => text = F!Text
    /\ phase = "answer" => F!CmdLen < CMD_SIZE

-----------------------------------------------------------------------------
\* The characters that matter.
LEMMA Chars == "." \in Char /\ "CR" \in Char /\ "LF" \in Char
BY FigletConstants

\* A sequence of one or two of them.
LEMMA Short ==
    /\ <<".">> \in Seq(Char) /\ Len(<<".">>) = 1 /\ <<".">>[1] = "."
    /\ <<"LF">> \in Seq(Char) /\ Len(<<"LF">>) = 1 /\ <<"LF">>[1] = "LF"
    /\ F!EOL \in Seq(Char) /\ Len(F!EOL) = 2 /\ F!EOL[1] = "CR" /\ F!EOL[2] = "LF"
BY Chars DEF F!EOL

\* Where three characters are found.
LEMMA FindIs ==
    ASSUME NEW s \in Seq(Char), NEW p \in Seq(Char), Len(p) = 3, NEW i
    PROVE  i \in F!Find(s, p) <=>
              i \in 1..Len(s) - 2 /\ s[i] = p[1] /\ s[i + 1] = p[2] /\ s[i + 2] = p[3]
<1>1. Len(s) \in Nat /\ Len(s) - Len(p) + 1 = Len(s) - 2
  BY LenProperties
<1>2. i \in F!Find(s, p) <=> i \in 1..Len(s) - 2 /\ SubSeq(s, i, i + 3 - 1) = p
  BY <1>1 DEF F!Find
<1>3. ASSUME i \in 1..Len(s) - 2
      PROVE  SubSeq(s, i, i + 3 - 1) = p <=> s[i] = p[1] /\ s[i + 1] = p[2] /\ s[i + 2] = p[3]
  <2> DEFINE q == SubSeq(s, i, i + 2)
  <2>1. /\ i \in Int /\ i + 2 \in Int /\ i <= i + 2 /\ (i + 2) - i + 1 = 3
        /\ i + 1 - 1 = i /\ i + 2 - 1 = i + 1 /\ i + 3 - 1 = i + 2
        /\ \A k \in i..i + 2 : k \in 1..Len(s)
    BY <1>1, <1>3
  <2>2. \A k \in i..i + 2 : s[k] \in Char
    BY <2>1, ElementOfSeq
  <2>3. q \in Seq(Char) /\ Len(q) = 3 /\ \A k \in 1..3 : q[k] = s[i + k - 1]
    <3>1. /\ q \in Seq(Char) /\ Len(q) = IF i <= i + 2 THEN (i + 2) - i + 1 ELSE 0
          /\ \A k \in 1..(i + 2) - i + 1 : q[k] = s[i + k - 1]
      BY <2>1, <2>2, SubSeqProperties
    <3> HIDE DEF q
    <3> QED BY <2>1, <3>1
  <2> HIDE DEF q
  <2>4. q[1] = s[i] /\ q[2] = s[i + 1] /\ q[3] = s[i + 2]
    BY <2>1, <2>3
  <2>5. (\A k \in 1..3 : q[k] = p[k]) <=> q[1] = p[1] /\ q[2] = p[2] /\ q[3] = p[3]
    OBVIOUS
  <2>6. q = p <=> \A k \in 1..3 : q[k] = p[k]
    BY <2>3, SeqEqual
  <2>7. SubSeq(s, i, i + 3 - 1) = q
    BY <2>1 DEF q
  <2> QED BY <2>4, <2>5, <2>6, <2>7
<1> QED BY <1>2, <1>3

\* The prompts.
LEMMA Prompts ==
    /\ F!Prompt \in Seq(Char) /\ Len(F!Prompt) = 3
    /\ F!Prompt[1] = "." /\ F!Prompt[2] = "CR" /\ F!Prompt[3] = "LF"
    /\ F!NewPrompt \in Seq(Char) /\ Len(F!NewPrompt) = 3
    /\ F!NewPrompt[1] = "CR" /\ F!NewPrompt[2] = "LF" /\ F!NewPrompt[3] = "."
<1> DEFINE d == <<".">>
           e == F!EOL
<1>1. /\ d \in Seq(Char) /\ Len(d) = 1 /\ d[1] = "."
      /\ e \in Seq(Char) /\ Len(e) = 2 /\ e[1] = "CR" /\ e[2] = "LF"
  BY Short
<1>2. F!Prompt = d \o e /\ F!NewPrompt = e \o d
  BY DEF F!Prompt, F!NewPrompt
<1> HIDE DEF d, e
<1>3. /\ d \o e \in Seq(Char) /\ Len(d \o e) = Len(d) + Len(e)
      /\ \A i \in 1..Len(d) + Len(e) : (d \o e)[i] = IF i <= Len(d) THEN d[i] ELSE e[i - Len(d)]
  BY <1>1, ConcatProperties
<1>4. /\ e \o d \in Seq(Char) /\ Len(e \o d) = Len(e) + Len(d)
      /\ \A i \in 1..Len(e) + Len(d) : (e \o d)[i] = IF i <= Len(e) THEN e[i] ELSE d[i - Len(e)]
  BY <1>1, ConcatProperties
<1>5. d \o e \in Seq(Char) /\ Len(d \o e) = 3 /\ (d \o e)[1] = "." /\ (d \o e)[2] = "CR" /\ (d \o e)[3] = "LF"
  BY <1>1, <1>3
<1>6. e \o d \in Seq(Char) /\ Len(e \o d) = 3 /\ (e \o d)[1] = "CR" /\ (e \o d)[2] = "LF" /\ (e \o d)[3] = "."
  BY <1>1, <1>4
<1> QED BY <1>2, <1>5, <1>6

\* Two sequences in a row, of m and of n characters.
IsCat(r, s, t, m, n) ==
    /\ r \in Seq(Char) /\ Len(r) = m + n
    /\ \A i \in 1..m : r[i] = s[i]
    /\ \A j \in 1..n : r[m + j] = t[j]

\* That is what \o makes of them.
LEMMA Cat ==
    ASSUME NEW s \in Seq(Char), NEW t \in Seq(Char), NEW m \in Nat, NEW n \in Nat,
           Len(s) = m, Len(t) = n
    PROVE  IsCat(s \o t, s, t, m, n)
<1> DEFINE r == s \o t
<1>1. /\ r \in Seq(Char) /\ Len(r) = m + n
      /\ \A i \in 1..m + n : r[i] = IF i <= m THEN s[i] ELSE t[i - m]
  BY ConcatProperties
<1> HIDE DEF r
<1>2. ASSUME NEW i \in 1..m PROVE r[i] = s[i]
  <2>1. i \in 1..m + n /\ i <= m
    OBVIOUS
  <2> QED BY <1>1, <2>1
<1>3. ASSUME NEW j \in 1..n PROVE r[m + j] = t[j]
  <2>1. m + j \in 1..m + n /\ ~ m + j <= m /\ m + j - m = j
    OBVIOUS
  <2> QED BY <1>1, <2>1
<1>4. IsCat(r, s, t, m, n)
  BY <1>1, <1>2, <1>3 DEF IsCat
<1> QED BY <1>4 DEF r

\* r is the m characters of s, a line's end, the n characters of a and a dot.
IsReplied(r, s, a, m, n) ==
    /\ r \in Seq(Char) /\ Len(r) = m + n + 3
    /\ \A i \in 1..m : r[i] = s[i]
    /\ r[m + 1] = "CR" /\ r[m + 2] = "LF"
    /\ \A j \in 1..n : r[m + 2 + j] = a[j]
    /\ r[m + n + 3] = "."

\* What the server adds to what it has sent.
LEMMA Replied ==
    ASSUME NEW s \in Seq(Char), NEW a \in Seq(Char), NEW m \in Nat, NEW n \in Nat,
           Len(s) = m, Len(a) = n
    PROVE  IsReplied(s \o F!EOL \o a \o <<".">>, s, a, m, n)
<1> DEFINE d == <<".">>
           e == F!EOL
           t == s \o e
           u == t \o a
           r == u \o d
<1>1. /\ d \in Seq(Char) /\ Len(d) = 1 /\ d[1] = "."
      /\ e \in Seq(Char) /\ Len(e) = 2 /\ e[1] = "CR" /\ e[2] = "LF"
  BY Short
<1> HIDE DEF d, e
<1>3. IsCat(t, s, e, m, 2)
  BY <1>1, Cat
<1> HIDE DEF t
<1>t. t \in Seq(Char) /\ Len(t) = m + 2
  BY <1>3 DEF IsCat
<1>4. m + 2 \in Nat /\ m + 2 + n \in Nat /\ m + 2 + n + 1 = m + n + 3
  OBVIOUS
<1>5. IsCat(u, t, a, m + 2, n)
  <2> DEFINE k == m + 2
  <2>1. k \in Nat /\ Len(t) = k
    BY <1>t
  <2> HIDE DEF k
  <2>2. IsCat(u, t, a, k, n)
    BY <1>t, <2>1, Cat
  <2> QED BY <2>2 DEF k
<1> HIDE DEF u
<1>u. u \in Seq(Char) /\ Len(u) = m + 2 + n
  BY <1>5 DEF IsCat
<1>6. IsCat(r, u, d, m + 2 + n, 1)
  <2> DEFINE k == m + 2 + n
  <2>1. k \in Nat /\ Len(u) = k
    BY <1>u
  <2> HIDE DEF k
  <2>2. IsCat(r, u, d, k, 1)
    BY <1>1, <1>u, <2>1, Cat
  <2> QED BY <2>2 DEF k
<1> HIDE DEF r
<1>r. r \in Seq(Char) /\ Len(r) = m + n + 3
  BY <1>4, <1>6 DEF IsCat
<1>7. r[m + n + 3] = "."
  <2>1. 1 \in 1..1
    OBVIOUS
  <2>2. r[m + 2 + n + 1] = d[1]
    BY <1>6, <2>1 DEF IsCat
  <2> QED BY <1>1, <1>4, <2>2
<1>8. ASSUME NEW i \in 1..m PROVE r[i] = s[i]
  <2>1. i \in 1..m + 2 /\ i \in 1..m + 2 + n
    OBVIOUS
  <2> QED BY <1>3, <1>5, <1>6, <2>1 DEF IsCat
<1>9. ASSUME NEW j \in 1..n PROVE r[m + 2 + j] = a[j]
  <2>1. m + 2 + j \in 1..m + 2 + n
    OBVIOUS
  <2>2. r[m + 2 + j] = u[m + 2 + j]
    BY <1>6, <2>1 DEF IsCat
  <2>3. u[m + 2 + j] = a[j]
    BY <1>5 DEF IsCat
  <2> QED BY <2>2, <2>3
<1>10. ASSUME NEW j \in 1..2 PROVE r[m + j] = e[j]
  <2>1. m + j \in 1..m + 2 /\ m + j \in 1..m + 2 + n
    OBVIOUS
  <2>2. t[m + j] = e[j]
    BY <1>3 DEF IsCat
  <2>3. r[m + j] = u[m + j] /\ u[m + j] = t[m + j]
    BY <1>5, <1>6, <2>1 DEF IsCat
  <2> QED BY <2>2, <2>3
<1>11. r[m + 1] = "CR" /\ r[m + 2] = "LF"
  <2>1. 1 \in 1..2 /\ 2 \in 1..2
    OBVIOUS
  <2>2. r[m + 1] = e[1] /\ r[m + 2] = e[2]
    BY <1>10, <2>1
  <2> QED BY <1>1, <2>2
<1>12. IsReplied(r, s, a, m, n)
  BY <1>r, <1>7, <1>8, <1>9, <1>11 DEF IsReplied
<1> QED BY <1>12 DEF r, u, t, d, e

\* The three streams, with a banner of b and an answer of a characters.
Streams(b, a) ==
    /\ b \in Nat /\ a \in Nat \ {0} /\ Len(banner) = b /\ Len(art) = a
    /\ Greeting \in Seq(Char) /\ Len(Greeting) = b + 1
    /\ \A i \in 1..b : Greeting[i] = banner[i]
    /\ Greeting[b + 1] = "."
    /\ LineEnded \in Seq(Char) /\ Len(LineEnded) = b + 4
    /\ \A i \in 1..b + 1 : LineEnded[i] = Greeting[i]
    /\ LineEnded[b + 2] = "CR" /\ LineEnded[b + 3] = "LF" /\ LineEnded[b + 4] = "."
    /\ Answered \in Seq(Char) /\ Len(Answered) = b + a + 7
    /\ \A i \in 1..b + 4 : Answered[i] = LineEnded[i]
    /\ Answered[b + 5] = "CR" /\ Answered[b + 6] = "LF"
    /\ \A j \in 1..a : Answered[b + 6 + j] = art[j]
    /\ Answered[b + a + 7] = "."

\* That is what they are.
LEMMA Sent ==
    ASSUME banner \in Banner, art \in Art
    PROVE  banner \in Seq(Char) /\ art \in Seq(Char) /\ Streams(Len(banner), Len(art))
<1>1. banner \in Seq(Char) /\ art \in Seq(Char) /\ art # <<>>
  BY FigletConstants
<1>2. PICK b \in Nat, a \in Nat : b = Len(banner) /\ a = Len(art)
  BY <1>1, LenProperties
<1>3. a # 0
  BY <1>1, <1>2, EmptySeq
<1> DEFINE d == <<".">>
<1>4. d \in Seq(Char) /\ Len(d) = 1 /\ d[1] = "."
  BY Short
<1>5. IsCat(Greeting, banner, d, b, 1)
  <2> HIDE DEF d
  <2>1. IsCat(banner \o d, banner, d, b, 1)
    BY <1>1, <1>2, <1>4, Cat
  <2> QED BY <2>1 DEF Greeting, d
<1> HIDE DEF d
<1>6. Greeting \in Seq(Char) /\ Len(Greeting) = b + 1 /\ Greeting[b + 1] = "."
  <2>1. 1 \in 1..1
    OBVIOUS
  <2> QED BY <1>4, <1>5, <2>1 DEF IsCat
<1>7. IsReplied(LineEnded, Greeting, <<>>, b + 1, 0)
  <2> DEFINE z == <<>>
             k == b + 1
             n == 0
  <2>1. z \in Seq(Char) /\ Len(z) = n /\ n \in Nat /\ k \in Nat /\ Len(Greeting) = k
    BY <1>6, EmptySeq
  <2> HIDE DEF z, k, n
  <2>2. IsReplied(Greeting \o F!EOL \o z \o <<".">>, Greeting, z, k, n)
    BY <1>6, <2>1, Replied
  <2> QED BY <2>2 DEF LineEnded, z, k, n
<1>8. /\ LineEnded \in Seq(Char) /\ Len(LineEnded) = b + 4
      /\ LineEnded[b + 2] = "CR" /\ LineEnded[b + 3] = "LF" /\ LineEnded[b + 4] = "."
  <2>1. b + 1 + 1 = b + 2 /\ b + 1 + 2 = b + 3 /\ b + 1 + 0 + 3 = b + 4
    OBVIOUS
  <2> QED BY <1>7, <2>1 DEF IsReplied
<1>9. IsReplied(Answered, LineEnded, art, b + 4, a)
  <2> DEFINE k == b + 4
  <2>1. k \in Nat /\ Len(LineEnded) = k
    BY <1>8
  <2> HIDE DEF k
  <2>2. IsReplied(LineEnded \o F!EOL \o art \o <<".">>, LineEnded, art, k, a)
    BY <1>1, <1>2, <1>8, <2>1, Replied
  <2> QED BY <2>2 DEF Answered, k
<1>10. /\ Answered \in Seq(Char) /\ Len(Answered) = b + a + 7
       /\ Answered[b + 5] = "CR" /\ Answered[b + 6] = "LF" /\ Answered[b + a + 7] = "."
  <2>1. b + 4 + 1 = b + 5 /\ b + 4 + 2 = b + 6 /\ b + 4 + a + 3 = b + a + 7
    OBVIOUS
  <2> QED BY <1>9, <2>1 DEF IsReplied
<1>11. \A j \in 1..a : Answered[b + 6 + j] = art[j]
  <2> TAKE j \in 1..a
  <2>1. b + 4 + 2 + j = b + 6 + j
    OBVIOUS
  <2>2. Answered[b + 4 + 2 + j] = art[j]
    BY <1>9 DEF IsReplied
  <2> QED BY <2>1, <2>2
<1>12. \A i \in 1..b : Greeting[i] = banner[i]
  BY <1>5 DEF IsCat
<1>13. /\ \A i \in 1..b + 1 : LineEnded[i] = Greeting[i]
       /\ \A i \in 1..b + 4 : Answered[i] = LineEnded[i]
  BY <1>7, <1>9 DEF IsReplied
<1>14. Streams(b, a)
  BY <1>2, <1>3, <1>6, <1>8, <1>10, <1>11, <1>12, <1>13 DEF Streams
<1> QED BY <1>1, <1>2, <1>14

\* Three characters in a row of s, from position q on.
ThreeAt(s, q, x, y, z) == q + 2 <= Len(s) /\ s[q] = x /\ s[q + 1] = y /\ s[q + 2] = z

\* With a plain banner the only prompt that the empty line gets is the first.
LEMMA FirstPrompt ==
    ASSUME banner \in Banner, art \in Art, F!Find(banner, F!Prompt) = {},
           NEW s \in {Greeting, LineEnded}, NEW q \in Nat \ {0}, ThreeAt(s, q, ".", "CR", "LF")
    PROVE  s = LineEnded /\ q = Len(banner) + 1
<1>1. PICK b, a : Streams(b, a)
  BY Sent
<1>2. b \in Nat /\ banner \in Seq(Char) /\ Len(banner) = b
  BY <1>1, Sent DEF Streams
<1>3. /\ Len(s) \in {b + 1, b + 4} /\ (Len(s) = b + 4 => s = LineEnded)
      /\ \A i \in 1..b : s[i] = banner[i]
  <2>1. /\ Len(Greeting) = b + 1 /\ Len(LineEnded) = b + 4
        /\ \A i \in 1..b : Greeting[i] = banner[i]
        /\ \A i \in 1..b + 1 : LineEnded[i] = Greeting[i]
    BY <1>1 DEF Streams
  <2>2. \A i \in 1..b : i \in 1..b + 1
    BY <1>2
  <2>3. b + 1 # b + 4
    BY <1>2
  <2> QED BY <2>1, <2>2, <2>3
<1>4. ~ q + 2 <= b
  <2> SUFFICES ASSUME q + 2 <= b PROVE FALSE
    OBVIOUS
  <2>1. q \in 1..b /\ q + 1 \in 1..b /\ q + 2 \in 1..b /\ q \in 1..b - 2
    BY <1>2
  <2>2. banner[q] = "." /\ banner[q + 1] = "CR" /\ banner[q + 2] = "LF"
    BY <1>3, <2>1 DEF ThreeAt
  <2>3. q \in F!Find(banner, F!Prompt)
    <3> DEFINE p == F!Prompt
    <3>1. p \in Seq(Char) /\ Len(p) = 3 /\ p[1] = "." /\ p[2] = "CR" /\ p[3] = "LF"
      BY Prompts
    <3> HIDE DEF p
    <3>2. q \in F!Find(banner, p) <=>
             q \in 1..Len(banner) - 2 /\ banner[q] = p[1] /\ banner[q + 1] = p[2] /\ banner[q + 2] = p[3]
      BY <1>2, <3>1, FindIs
    <3>3. q \in F!Find(banner, p)
      BY <1>2, <2>1, <2>2, <3>1, <3>2
    <3> QED BY <3>3 DEF p
  <2> QED BY <2>3
<1>5. s[b + 1] = "." /\ (s = LineEnded => s[b + 2] = "CR" /\ s[b + 4] = ".")
  <2>1. b + 1 \in 1..b + 1
    BY <1>2
  <2> QED BY <1>1, <2>1 DEF Streams
<1>6. q + 2 # b + 1 /\ (s = LineEnded => q + 2 # b + 2 /\ q + 2 # b + 4)
  <2>1. s[q + 2] = "LF"
    BY DEF ThreeAt
  <2> QED BY <1>5, <2>1
<1>7. q + 2 <= Len(s)
  BY DEF ThreeAt
<1>8. Len(s) = b + 4
  <2>1. q + 2 # b + 1 /\ ~ q + 2 <= b
    BY <1>4, <1>6
  <2>2. \A x, y \in Nat : x + 2 <= y + 1 /\ x + 2 # y + 1 => x + 2 <= y
    OBVIOUS
  <2> QED BY <1>2, <1>3, <1>7, <2>1, <2>2
<1>9. s = LineEnded
  BY <1>3, <1>8
<1>10. q = b + 1
  <2>1. q + 2 # b + 1 /\ q + 2 # b + 2 /\ q + 2 # b + 4 /\ ~ q + 2 <= b /\ q + 2 <= b + 4
    BY <1>4, <1>6, <1>7, <1>8, <1>9
  <2>2. \A x, y \in Nat : x + 2 # y + 1 /\ x + 2 # y + 2 /\ x + 2 # y + 4 /\ ~ x + 2 <= y /\ x + 2 <= y + 4
                          => x = y + 1
    OBVIOUS
  <2> QED BY <1>2, <2>1, <2>2
<1> QED BY <1>2, <1>9, <1>10

\* With a plain answer the only prompt behind the first is the last.
LEMMA LastPrompt ==
    ASSUME banner \in Banner, art \in Art, F!Find(F!EOL \o art, F!NewPrompt) = {},
           NEW s \in {LineEnded, Answered}, NEW q \in Nat, q >= Len(banner) + 4,
           ThreeAt(s, q, "CR", "LF", ".")
    PROVE  s = Answered /\ q = Len(banner) + Len(art) + 5 /\ Len(art) >= 2
<1>1. PICK b, a : Streams(b, a)
  BY Sent
<1>2. b \in Nat /\ a \in Nat \ {0} /\ Len(banner) = b /\ Len(art) = a /\ art \in Seq(Char)
  BY <1>1, Sent DEF Streams
<1>3. s = Answered
  <2>1. Len(LineEnded) = b + 4 /\ q + 2 <= Len(s)
    BY <1>1 DEF Streams, ThreeAt
  <2> QED BY <1>2, <2>1
<1>4. /\ s[b + 4] = "." /\ s[b + 5] = "CR" /\ s[b + 6] = "LF"
      /\ (\A j \in 1..a : s[b + 6 + j] = art[j]) /\ Len(s) = b + a + 7
  <2>1. b + 4 \in 1..b + 4
    BY <1>2
  <2> QED BY <1>1, <1>3, <2>1 DEF Streams
<1>5. q # b + 4 /\ q # b + 6
  BY <1>4 DEF ThreeAt
<1>6. PICK j \in Nat \ {0} : q = b + 4 + j
  <2>1. q - b - 4 \in Nat \ {0} /\ q = b + 4 + (q - b - 4)
    BY <1>2, <1>5
  <2> QED BY <2>1
<1> DEFINE e == F!EOL \o art
<1>7. IsCat(e, F!EOL, art, 2, a)
  BY <1>2, Short, Cat
<1> HIDE DEF e
<1>8. \A k \in 1..a + 2 : e[k] = s[b + 4 + k]
  <2>1. e[1] = "CR" /\ e[2] = "LF"
    <3>1. 1 \in 1..2 /\ 2 \in 1..2
      OBVIOUS
    <3> QED BY <1>7, <3>1, Short DEF IsCat
  <2>2. ASSUME NEW i \in 1..a PROVE e[2 + i] = s[b + 4 + (2 + i)]
    <3>1. b + 6 + i = b + 4 + (2 + i)
      BY <1>2
    <3>2. e[2 + i] = art[i]
      BY <1>7 DEF IsCat
    <3>3. s[b + 6 + i] = art[i]
      BY <1>4
    <3> QED BY <3>1, <3>2, <3>3
  <2> TAKE k \in 1..a + 2
  <2>3. CASE k = 1
    <3>1. b + 4 + 1 = b + 5
      BY <1>2
    <3> QED BY <1>4, <2>1, <2>3, <3>1
  <2>4. CASE k = 2
    <3>1. b + 4 + 2 = b + 6
      BY <1>2
    <3> QED BY <1>4, <2>1, <2>4, <3>1
  <2>5. CASE k > 2
    <3>1. PICK i \in 1..a : k = 2 + i
      <4>1. k - 2 \in 1..a /\ k = 2 + (k - 2)
        BY <1>2, <2>5
      <4> QED BY <4>1
    <3> QED BY <2>2, <3>1
  <2> QED BY <1>2, <2>3, <2>4, <2>5
<1>9. ~ j <= a
  <2> SUFFICES ASSUME j <= a PROVE FALSE
    OBVIOUS
  <2>1. /\ j \in 1..a + 2 /\ j + 1 \in 1..a + 2 /\ j + 2 \in 1..a + 2 /\ j \in 1..a + 2 - 2
        /\ b + 4 + (j + 1) = q + 1 /\ b + 4 + (j + 2) = q + 2
    BY <1>2, <1>6
  <2>2. e[j] = "CR" /\ e[j + 1] = "LF" /\ e[j + 2] = "."
    BY <1>6, <1>8, <2>1 DEF ThreeAt
  <2>3. e \in Seq(Char) /\ Len(e) = a + 2
    <3>1. e \in Seq(Char) /\ Len(e) = 2 + a
      BY <1>7 DEF IsCat
    <3> QED BY <1>2, <3>1
  <2>4. j \in F!Find(e, F!NewPrompt)
    <3> DEFINE p == F!NewPrompt
    <3>1. p \in Seq(Char) /\ Len(p) = 3 /\ p[1] = "CR" /\ p[2] = "LF" /\ p[3] = "."
      BY Prompts
    <3> HIDE DEF p
    <3>2. j \in F!Find(e, p) <=> j \in 1..Len(e) - 2 /\ e[j] = p[1] /\ e[j + 1] = p[2] /\ e[j + 2] = p[3]
      BY <2>3, <3>1, FindIs
    <3>3. j \in F!Find(e, p)
      BY <2>1, <2>2, <2>3, <3>1, <3>2
    <3> QED BY <3>3 DEF p
  <2> QED BY <2>4 DEF e
<1>10. q + 2 <= b + a + 7
  BY <1>4 DEF ThreeAt
<1>11. q = b + a + 5 /\ a >= 2
  BY <1>2, <1>5, <1>6, <1>9, <1>10
<1> QED BY <1>2, <1>3, <1>11

\* The answer as it should be printed.
LEMMA WholeIs ==
    ASSUME art \in Seq(Char), NEW a \in Nat, Len(art) = a, a >= 2
    PROVE  /\ F!Whole \in Seq(Char) /\ Len(F!Whole) = a + 1
           /\ F!Whole[1] = "CR" /\ F!Whole[2] = "LF" /\ F!Whole[a + 1] = "LF"
           /\ \A j \in 1..a - 2 : F!Whole[2 + j] = art[j]
<1> DEFINE e == F!EOL
           f == <<"LF">>
           c == a - 2
           d == SubSeq(art, 1, c)
           t == e \o d
           w == t \o f
<1>1. /\ f \in Seq(Char) /\ Len(f) = 1 /\ f[1] = "LF"
      /\ e \in Seq(Char) /\ Len(e) = 2 /\ e[1] = "CR" /\ e[2] = "LF"
  BY Short
<1>2. c \in Nat /\ c \in 0..Len(art) /\ 2 + c \in Nat /\ 2 + c + 1 = a + 1
  OBVIOUS
<1>3. F!Whole = w
  BY DEF F!Whole
<1>c. 1..a - 2 = 1..c
  OBVIOUS
<1> HIDE DEF c, e, f
<1>4. d \in Seq(Char) /\ Len(d) = c /\ \A j \in 1..c : d[j] = art[j]
  BY <1>2, SubTyped
<1> HIDE DEF d
<1>5. IsCat(t, e, d, 2, c)
  BY <1>1, <1>2, <1>4, Cat
<1> HIDE DEF t
<1>6. t \in Seq(Char) /\ Len(t) = 2 + c
  BY <1>5 DEF IsCat
<1>7. IsCat(w, t, f, 2 + c, 1)
  <2> DEFINE k == 2 + c
  <2>1. k \in Nat /\ Len(t) = k
    BY <1>2, <1>6
  <2> HIDE DEF k
  <2>2. IsCat(w, t, f, k, 1)
    BY <1>1, <1>6, <2>1, Cat
  <2> QED BY <2>2 DEF k
<1> HIDE DEF w
<1>8. w \in Seq(Char) /\ Len(w) = a + 1
  BY <1>2, <1>7 DEF IsCat
<1>9. w[a + 1] = "LF"
  <2>1. 1 \in 1..1
    OBVIOUS
  <2>2. w[2 + c + 1] = f[1]
    BY <1>7, <2>1 DEF IsCat
  <2> QED BY <1>1, <1>2, <2>2
<1>10. w[1] = "CR" /\ w[2] = "LF"
  <2>1. 1 \in 1..2 /\ 2 \in 1..2 /\ 1 \in 1..2 + c /\ 2 \in 1..2 + c
    BY <1>2
  <2>2. w[1] = t[1] /\ w[2] = t[2]
    BY <1>7, <2>1 DEF IsCat
  <2>3. t[1] = e[1] /\ t[2] = e[2]
    BY <1>5, <2>1 DEF IsCat
  <2> QED BY <1>1, <2>2, <2>3
<1>11. ASSUME NEW j \in 1..c PROVE w[2 + j] = art[j]
  <2>1. 2 + j \in 1..2 + c
    BY <1>2
  <2>2. w[2 + j] = t[2 + j]
    BY <1>7, <2>1 DEF IsCat
  <2>3. t[2 + j] = d[j]
    BY <1>5 DEF IsCat
  <2> QED BY <1>4, <2>2, <2>3
<1> QED BY <1>3, <1>8, <1>9, <1>10, <1>11, <1>c

\* What is printed from position i on, when the prompt is found.
LEMMA PrintedWhole ==
    ASSUME banner \in Banner, art \in Art, NEW b, NEW a, Streams(b, a), a >= 2,
           NEW o \in Seq(Char), NEW i \in {b + 3, b + 4}, Len(o) = b + a + 5 - i,
           \A x \in 1..b + a + 4 - i : o[x] = Answered[i + x],
           o[b + a + 5 - i] = "LF"
    PROVE  o \in {F!Whole, <<".">> \o F!Whole}
<1> DEFINE w == F!Whole
<1>1. b \in Nat /\ a \in Nat /\ Len(art) = a /\ art \in Seq(Char)
  BY Sent DEF Streams
<1>2. /\ w \in Seq(Char) /\ Len(w) = a + 1
      /\ w[1] = "CR" /\ w[2] = "LF" /\ w[a + 1] = "LF"
      /\ \A j \in 1..a - 2 : w[2 + j] = art[j]
  BY <1>1, WholeIs
<1> HIDE DEF w
<1>3. \A x \in 1..a : w[x] = Answered[b + 4 + x]
  <2> TAKE x \in 1..a
  <2>1. CASE x = 1
    <3>1. b + 4 + 1 = b + 5
      BY <1>1
    <3> QED BY <1>2, <2>1, <3>1 DEF Streams
  <2>2. CASE x = 2
    <3>1. b + 4 + 2 = b + 6
      BY <1>1
    <3> QED BY <1>2, <2>2, <3>1 DEF Streams
  <2>3. CASE x > 2
    <3>1. PICK j \in 1..a - 2 : x = 2 + j
      <4>1. x - 2 \in 1..a - 2 /\ x = 2 + (x - 2)
        BY <1>1, <2>3
      <4> QED BY <4>1
    <3>2. b + 4 + (2 + j) = b + 6 + j /\ j \in 1..a
      BY <1>1
    <3>3. w[2 + j] = art[j] /\ Answered[b + 6 + j] = art[j]
      BY <1>2, <3>2 DEF Streams
    <3> QED BY <3>1, <3>2, <3>3
  <2> QED BY <1>1, <2>1, <2>2, <2>3
<1>4. CASE i = b + 4
  <2>1. b + a + 5 - i = a + 1 /\ b + a + 4 - i = a
    BY <1>1, <1>4
  <2>2. \A x \in 1..a + 1 : o[x] = w[x]
    <3> TAKE x \in 1..a + 1
    <3>1. CASE x = a + 1
      BY <1>2, <2>1, <3>1
    <3>2. CASE x \in 1..a
      <4>1. o[x] = Answered[i + x]
        BY <2>1, <3>2
      <4> QED BY <1>3, <1>4, <3>2, <4>1
    <3> QED BY <1>1, <3>1, <3>2
  <2>3. o = w
    BY <1>1, <1>2, <2>1, <2>2, SeqEqual
  <2> QED BY <2>3 DEF w
<1>5. CASE i = b + 3
  <2> DEFINE d == <<".">>
             v == d \o w
  <2>1. b + a + 5 - i = a + 2 /\ b + a + 4 - i = a + 1
    BY <1>1, <1>5
  <2>2. d \in Seq(Char) /\ Len(d) = 1 /\ d[1] = "."
    BY Short
  <2> HIDE DEF d
  <2>3. IsCat(v, d, w, 1, a + 1)
    <3> DEFINE k == a + 1
    <3>1. k \in Nat /\ Len(w) = k
      BY <1>1, <1>2
    <3> HIDE DEF k
    <3>2. IsCat(v, d, w, 1, k)
      BY <1>2, <2>2, <3>1, Cat
    <3> QED BY <3>2 DEF k
  <2> HIDE DEF v
  <2>4. v \in Seq(Char) /\ Len(v) = a + 2 /\ v[1] = "." /\ \A j \in 1..a + 1 : v[1 + j] = w[j]
    <3>1. 1 \in 1..1 /\ 1 + (a + 1) = a + 2
      BY <1>1
    <3> QED BY <2>2, <2>3, <3>1 DEF IsCat
  <2>5. \A x \in 1..a + 2 : o[x] = v[x]
    <3> TAKE x \in 1..a + 2
    <3>1. CASE x = 1
      <4>1. 1 \in 1..a + 1 /\ i + 1 = b + 4 /\ b + 4 \in 1..b + 4
        BY <1>1, <1>5
      <4>2. o[1] = Answered[b + 4]
        BY <2>1, <4>1
      <4>3. Answered[b + 4] = "."
        BY <4>1 DEF Streams
      <4> QED BY <2>4, <3>1, <4>2, <4>3
    <3>2. CASE x # 1
      <4>1. PICK j \in 1..a + 1 : x = 1 + j
        <5>1. x - 1 \in 1..a + 1 /\ x = 1 + (x - 1)
          BY <1>1, <3>2
        <5> QED BY <5>1
      <4>2. CASE j = a + 1
        <5>1. x = a + 2
          BY <1>1, <4>1, <4>2
        <5> QED BY <1>2, <2>1, <2>4, <4>1, <4>2, <5>1
      <4>3. CASE j \in 1..a
        <5>1. x \in 1..a + 1 /\ i + x = b + 4 + j
          BY <1>1, <1>5, <4>1, <4>3
        <5>2. o[x] = Answered[b + 4 + j]
          BY <2>1, <5>1
        <5> QED BY <1>3, <2>4, <4>1, <4>3, <5>2
      <4> QED BY <1>1, <4>2, <4>3
    <3> QED BY <3>1, <3>2
  <2>6. o = v
    BY <1>1, <2>1, <2>4, <2>5, SeqEqual
  <2> QED BY <2>6 DEF v, d, w
<1> QED BY <1>4, <1>5

\* What read returns.
LEMMA PieceIs ==
    ASSUME stream \in Seq(Char), pos \in 0..Len(stream), NEW n \in 1..Len(stream) - pos
    PROVE  /\ F!Piece(n) \in Seq(Char) /\ Len(F!Piece(n)) = n
           /\ \A k \in 1..n : F!Piece(n)[k] = stream[pos + k]
<1> DEFINE q == SubSeq(stream, pos + 1, pos + n)
<1>1. Len(stream) \in Nat
  BY LenProperties
<1>2. /\ pos + 1 \in Int /\ pos + n \in Int /\ pos + 1 <= pos + n /\ (pos + n) - (pos + 1) + 1 = n
      /\ \A k \in pos + 1..pos + n : k \in 1..Len(stream)
  BY <1>1
<1>3. \A k \in pos + 1..pos + n : stream[k] \in Char
  BY <1>2, ElementOfSeq
<1>4. /\ q \in Seq(Char) /\ Len(q) = IF pos + 1 <= pos + n THEN (pos + n) - (pos + 1) + 1 ELSE 0
      /\ \A k \in 1..(pos + n) - (pos + 1) + 1 : q[k] = stream[pos + 1 + k - 1]
  BY <1>2, <1>3, SubSeqProperties
<1>5. F!Piece(n) = q
  BY DEF F!Piece
<1> HIDE DEF q
<1>6. \A k \in 1..n : q[k] = stream[pos + k]
  <2> TAKE k \in 1..n
  <2>1. pos + 1 + k - 1 = pos + k
    BY <1>1
  <2> QED BY <1>2, <1>4, <2>1
<1> QED BY <1>2, <1>4, <1>5, <1>6

\* Where a prompt is found in it.
LEMMA FoundAt ==
    ASSUME stream \in Seq(Char), pos \in 0..Len(stream), NEW n \in 1..Len(stream) - pos,
           NEW p \in Seq(Char), Len(p) = 3, NEW k \in F!Find(F!Piece(n), p)
    PROVE  /\ k \in 1..n - 2 /\ pos + k \in Nat \ {0} /\ pos + k + 2 <= pos + n
           /\ ThreeAt(stream, pos + k, p[1], p[2], p[3])
<1> DEFINE q == F!Piece(n)
<1>1. q \in Seq(Char) /\ Len(q) = n /\ \A j \in 1..n : q[j] = stream[pos + j]
  BY PieceIs
<1>2. Len(stream) \in Nat
  BY LenProperties
<1>3. k \in F!Find(q, p)
  OBVIOUS
<1> HIDE DEF q
<1>4. k \in 1..Len(q) - 2 /\ q[k] = p[1] /\ q[k + 1] = p[2] /\ q[k + 2] = p[3]
  BY <1>1, <1>3, FindIs
<1>5. /\ k \in 1..n - 2 /\ k \in 1..n /\ k + 1 \in 1..n /\ k + 2 \in 1..n
      /\ pos + (k + 1) = pos + k + 1 /\ pos + (k + 2) = pos + k + 2
      /\ pos + k + 2 <= Len(stream) /\ pos + k + 2 <= pos + n /\ pos + k \in Nat \ {0}
  BY <1>1, <1>2, <1>4
<1>6. stream[pos + k] = p[1] /\ stream[pos + k + 1] = p[2] /\ stream[pos + k + 2] = p[3]
  BY <1>1, <1>4, <1>5
<1> QED BY <1>5, <1>6 DEF ThreeAt

\* A read leaves the reader in order.
LEMMA ReadTyped ==
    ASSUME FTyped, NEW n, NEW p, F!Read(n, p)
    PROVE  /\ n \in 1..Len(stream) - pos /\ pos' = pos + n /\ pos' \in 0..Len(stream)
           /\ last' \in Seq(Char) /\ Len(last') \in 0..2 /\ missed' \in BOOLEAN
           /\ argv' = argv /\ font' = font /\ banner' = banner /\ art' = art
           /\ text' = text /\ left' = left /\ stream' = stream /\ lines' = lines /\ closed' = closed
<1> DEFINE q == F!Piece(n)
<1>1. n \in 1..Len(stream) - pos /\ pos' = pos + n
  BY DEF F!Read
<1>2. Len(stream) \in Nat /\ stream \in Seq(Char) /\ pos \in 0..Len(stream)
  BY LenProperties DEF FTyped
<1>3. pos' \in 0..Len(stream)
  BY <1>1, <1>2
<1>4. missed' \in BOOLEAN
  BY DEF F!Read
<1>5. q \in Seq(Char) /\ Len(q) = n
  BY <1>1, <1>2, PieceIs
<1>6. last' = IF Len(q) > 1 THEN SubSeq(q, n - 1, n)
              ELSE IF Len(last) > 1 THEN <<last[2]>> \o q ELSE last \o q
  BY DEF F!Read, F!Piece
<1> HIDE DEF q
<1>7. n \in Nat \ {0} /\ last \in Seq(Char) /\ Len(last) \in 0..2
  BY <1>1, <1>2 DEF FTyped
<1>u. /\ argv' = argv /\ font' = font /\ banner' = banner /\ art' = art
      /\ text' = text /\ left' = left /\ stream' = stream /\ lines' = lines /\ closed' = closed
  BY DEF F!Read, F!inputs, F!server
<1>8. CASE Len(q) > 1
  <2> DEFINE r == SubSeq(q, n - 1, n)
  <2>1. n - 1 \in Int /\ n \in Int /\ n - 1 <= n /\ n - (n - 1) + 1 = 2
        /\ \A k \in n - 1..n : k \in 1..Len(q)
    BY <1>5, <1>7, <1>8
  <2>2. \A k \in n - 1..n : q[k] \in Char
    BY <1>5, <2>1, ElementOfSeq
  <2>3. r \in Seq(Char) /\ Len(r) = IF n - 1 <= n THEN n - (n - 1) + 1 ELSE 0
    BY <2>1, <2>2, SubSeqProperties
  <2>4. last' = r
    BY <1>6, <1>8
  <2> HIDE DEF r
  <2>5. r \in Seq(Char) /\ Len(r) \in 0..2
    BY <2>1, <2>3
  <2> QED BY <1>1, <1>3, <1>4, <1>u, <2>4, <2>5
<1>9. CASE ~ Len(q) > 1
  <2>1. Len(q) = 1
    BY <1>5, <1>7, <1>9
  <2>2. CASE Len(last) > 1
    <3> DEFINE c == <<last[2]>>
               r == c \o q
    <3>1. last[2] \in Char
      BY <1>7, <2>2, ElementOfSeq
    <3>2. c \in Seq(Char) /\ Len(c) = 1
      BY <3>1
    <3> HIDE DEF c
    <3>3. IsCat(r, c, q, 1, 1)
      BY <1>5, <2>1, <3>2, Cat
    <3>4. last' = r
      BY <1>6, <1>9, <2>2 DEF c
    <3> HIDE DEF r
    <3>5. r \in Seq(Char) /\ Len(r) = 2
      BY <3>3 DEF IsCat
    <3>6. Len(r) \in 0..2
      BY <3>5
    <3> QED BY <1>1, <1>3, <1>4, <1>u, <3>4, <3>5, <3>6
  <2>3. CASE ~ Len(last) > 1
    <3> DEFINE r == last \o q
    <3>1. PICK m \in Nat : m = Len(last) /\ m <= 1
      BY <1>7, <2>3
    <3>2. IsCat(r, last, q, m, 1)
      BY <1>5, <1>7, <2>1, <3>1, Cat
    <3>3. last' = r
      BY <1>6, <1>9, <2>3
    <3> HIDE DEF r
    <3>4. r \in Seq(Char) /\ Len(r) = m + 1
      BY <3>2 DEF IsCat
    <3>5. Len(r) \in 0..2
      BY <3>1, <3>4
    <3> QED BY <1>1, <1>3, <1>4, <1>u, <3>3, <3>4, <3>5
  <2> QED BY <2>2, <2>3
<1> QED BY <1>8, <1>9

-----------------------------------------------------------------------------
\* The text of the arguments v, as a function of them.
TextOf(v) ==
    LET add(t, i) ==
            LET s == IF i > 1 THEN Append(t, " ") ELSE t
                n == IF Len(s) + Len(v[i]) >= TEXT_SIZE THEN TEXT_SIZE - Len(s) - 1 ELSE Len(v[i])
            IN  IF Len(t) < TEXT_SIZE - 2 THEN s \o SubSeq(v[i], 1, n) ELSE t
        t[i \in 0..Len(v)] == IF i = 0 THEN <<>> ELSE add(t[i - 1], i)
    IN  t[Len(v)]

\* What the inputs determine stays, as they do.
LEMMA Fixed ==
    ASSUME F!inputs' = F!inputs
    PROVE  /\ argv' = argv /\ font' = font /\ banner' = banner /\ art' = art
           /\ Greeting' = Greeting /\ LineEnded' = LineEnded /\ Answered' = Answered
           /\ F!Whole' = F!Whole /\ F!Text' = F!Text /\ Plain' = Plain
<1>1. argv' = argv /\ font' = font /\ banner' = banner /\ art' = art
  BY DEF F!inputs
<1>2. Greeting' = Greeting
  BY <1>1 DEF Greeting
<1>3. LineEnded' = LineEnded
  BY <1>1, <1>2 DEF LineEnded
<1>4. Answered' = Answered
  BY <1>1, <1>3 DEF Answered
<1>5. F!Whole' = F!Whole
  BY <1>1 DEF F!Whole
<1>6. F!Text' = F!Text
  <2>1. F!Text = TextOf(argv) /\ F!Text' = TextOf(argv')
    BY DEF F!Text, F!WithArg, TextOf
  <2> QED BY <1>1, <2>1
<1>7. Plain' = Plain
  BY <1>1 DEF Plain
<1> QED BY <1>1, <1>2, <1>3, <1>4, <1>5, <1>6, <1>7

\* Before anything.
LEMMA FInvInit == F!Init => FInv
<1> SUFFICES ASSUME F!Init PROVE FInv
  OBVIOUS
<1>1. FTyped
  <2> DEFINE z == <<>>
  <2>0. Addresses \in Nat
    BY FigletConstants
  <2>1. z \in Seq(Char) /\ Len(z) = 0 /\ 0 < TEXT_SIZE /\ 0 \in 0..Addresses /\ 0 \in 0..0 /\ 0 \in 0..2
    BY <2>0, TextSize, EmptySeq
  <2>2. /\ argv \in Argv /\ font \in Font /\ banner \in Banner /\ art \in Art
        /\ phase = "start" /\ status = "running" /\ text = z /\ left = 0
        /\ stream = z /\ pos = 0 /\ out = z /\ last = z /\ closed = FALSE /\ missed = FALSE
    BY DEF F!Init
  <2> HIDE DEF z
  <2>3. /\ text \in Seq(Char) /\ stream \in Seq(Char) /\ out \in Seq(Char) /\ last \in Seq(Char)
        /\ Len(text) < TEXT_SIZE /\ Len(last) \in 0..2 /\ pos \in 0..Len(stream) /\ left \in 0..Addresses
    BY <2>1, <2>2
  <2>4. /\ phase \in {"start", "resolve", "connect", "hello", "prompt", "command", "answer", "end"}
        /\ status \in {"running", "success", "failure"} /\ (status = "running" <=> phase # "end")
        /\ closed \in BOOLEAN /\ missed \in BOOLEAN
    BY <2>2
  <2> QED BY <2>2, <2>3, <2>4 DEF FTyped
<1>2. StreamOk /\ OutOk /\ Exact
  BY DEF F!Init, StreamOk, OutOk, Exact
<1> QED BY <1>1, <1>2 DEF FInv, F!Init

\* The server sends, or closes.
LEMMA ServerStep ==
    ASSUME FInv, F!Reply \/ F!Close
    PROVE  FInv'
<1>1. F!inputs' = F!inputs
  BY DEF F!Reply, F!Close
<1>2. /\ argv' = argv /\ font' = font /\ banner' = banner /\ art' = art
      /\ Greeting' = Greeting /\ LineEnded' = LineEnded /\ Answered' = Answered
      /\ F!Whole' = F!Whole /\ F!Text' = F!Text /\ Plain' = Plain
  BY <1>1, Fixed
<1>3. FTyped /\ StreamOk /\ OutOk /\ (Plain => Exact)
  BY DEF FInv
<1>4. /\ phase' = phase /\ status' = status /\ text' = text /\ left' = left
      /\ pos' = pos /\ out' = out /\ last' = last /\ missed' = missed
  BY DEF F!Reply, F!Close
<1>5. F!CmdLen' = F!CmdLen
  BY <1>2, <1>4 DEF F!CmdLen
<1>6. PICK b, a : Streams(b, a)
  BY <1>3, Sent DEF FTyped
<1>7. CASE F!Close
  <2>1. stream' = stream /\ lines' = lines /\ closed' = TRUE /\ phase # "end"
    BY <1>7 DEF F!Close
  <2>2. FTyped'
    BY <1>2, <1>3, <1>4, <2>1 DEF FTyped
  <2>3. StreamOk'
    BY <1>2, <1>3, <1>4, <2>1 DEF StreamOk
  <2>4. OutOk'
    BY <1>3, <1>4, <2>1 DEF OutOk, Shown
  <2>5. Exact => Exact'
    BY <1>2, <1>4, <2>1 DEF Exact, Shown
  <2> QED BY <1>2, <1>3, <1>4, <1>5, <2>2, <2>3, <2>4, <2>5 DEF FInv
<1>8. CASE F!Reply
  <2>1. /\ lines # <<>> /\ lines' = Tail(lines) /\ closed' = closed
        /\ stream' = stream \o F!EOL \o (IF Head(lines) = "figlet" THEN art ELSE <<>>) \o <<".">>
    BY <1>8 DEF F!Reply
  <2>2. \/ /\ stream = Greeting /\ lines \in {<<"empty">>, <<"empty", "figlet">>}
           /\ stream' = LineEnded
           /\ lines' = IF lines = <<"empty">> THEN <<>> ELSE <<"figlet">>
        \/ stream = LineEnded /\ lines = <<"figlet">> /\ stream' = Answered /\ lines' = <<>>
    <3>1. \/ stream = Greeting /\ lines \in {<<"empty">>, <<"empty", "figlet">>}
          \/ stream = LineEnded /\ lines = <<"figlet">>
      BY <1>3, <2>1 DEF StreamOk
    <3>2. CASE stream = Greeting /\ lines = <<"empty">>
      <4>1. Head(lines) = "empty" /\ Tail(lines) = <<>>
        BY <3>2
      <4>2. stream' = LineEnded
        BY <2>1, <3>2, <4>1 DEF LineEnded
      <4> QED BY <2>1, <3>2, <4>1, <4>2
    <3>3. CASE stream = Greeting /\ lines = <<"empty", "figlet">>
      <4>1. Head(lines) = "empty" /\ Tail(lines) = <<"figlet">> /\ lines # <<"empty">>
        BY <3>3
      <4>2. stream' = LineEnded
        BY <2>1, <3>3, <4>1 DEF LineEnded
      <4> QED BY <2>1, <3>3, <4>1, <4>2
    <3>4. CASE stream = LineEnded /\ lines = <<"figlet">>
      <4>1. Head(lines) = "figlet" /\ Tail(lines) = <<>>
        BY <3>4
      <4>2. stream' = Answered
        BY <2>1, <3>4, <4>1 DEF Answered
      <4> QED BY <2>1, <3>4, <4>1, <4>2
    <3> QED BY <3>1, <3>2, <3>3, <3>4
  <2>3. /\ b \in Nat /\ a \in Nat
        /\ Len(Greeting) = b + 1 /\ Len(LineEnded) = b + 4 /\ Len(Answered) = b + a + 7
        /\ LineEnded \in Seq(Char) /\ Answered \in Seq(Char)
    BY <1>6 DEF Streams
  <2>4. /\ Len(stream) \in Nat /\ Len(stream') \in Nat /\ Len(stream) <= Len(stream')
        /\ stream' \in Seq(Char) /\ \A i \in 1..Len(stream) : stream'[i] = stream[i]
    <3>1. /\ \A i \in 1..b + 1 : LineEnded[i] = Greeting[i]
          /\ \A i \in 1..b + 4 : Answered[i] = LineEnded[i]
      BY <1>6 DEF Streams
    <3> QED BY <2>2, <2>3, <3>1
  <2>5. pos \in 0..Len(stream) /\ pos' \in 0..Len(stream')
    <3>1. pos \in 0..Len(stream)
      BY <1>3 DEF FTyped
    <3> QED BY <1>4, <2>4, <3>1
  <2>6. FTyped'
    BY <1>2, <1>3, <1>4, <2>1, <2>4, <2>5 DEF FTyped
  <2>7. phase \notin {"start", "resolve", "connect", "hello"}
    BY <1>3, <2>1 DEF StreamOk
  <2>8. Greeting # LineEnded /\ Greeting # Answered /\ LineEnded # Answered
    BY <2>3
  <2>9. StreamOk'
    <3>1. \/ stream' = LineEnded /\ lines' \in {<<>>, <<"figlet">>}
          \/ stream' = Answered /\ lines' = <<>>
      BY <2>2
    <3>2. phase \in {"prompt", "command"} => stream' = LineEnded /\ lines' = <<>>
      <4>1. phase \in {"prompt", "command"} => stream = Greeting /\ lines = <<"empty">>
        BY <1>3, <2>1 DEF StreamOk
      <4> QED BY <2>2, <2>8, <4>1
    <3>3. phase = "answer" => \/ stream' = LineEnded /\ lines' = <<"figlet">>
                              \/ stream' = Answered /\ lines' = <<>>
      <4>1. phase = "answer" => \/ stream = Greeting /\ lines = <<"empty", "figlet">>
                                \/ stream = LineEnded /\ lines = <<"figlet">>
        BY <1>3, <2>1 DEF StreamOk
      <4>2. <<"empty", "figlet">> # <<"empty">>
        OBVIOUS
      <4> QED BY <2>2, <2>8, <4>1, <4>2
    <3> QED BY <1>2, <1>4, <2>7, <3>1, <3>2, <3>3 DEF StreamOk
  <2>10. ASSUME NEW i \in Nat, NEW n \in Int, ShownIn(out, stream, pos, i, n)
         PROVE  ShownIn(out, stream', pos, i, n)
    <3>1. n <= pos - i /\ \A k \in 1..n : out[k] = stream[i + k]
      BY <2>10 DEF ShownIn
    <3>2. ASSUME NEW k \in 1..n PROVE out[k] = stream'[i + k]
      <4>1. i + k \in 1..Len(stream)
        BY <2>4, <2>5, <3>1
      <4> QED BY <2>4, <3>1, <4>1
    <3> QED BY <3>1, <3>2 DEF ShownIn
  <2>11. pos \in Nat /\ Len(out) \in Nat /\ \A i \in 0..pos : i \in Nat /\ pos - i \in Int
    <3>1. out \in Seq(Char)
      BY <1>3 DEF FTyped
    <3> QED BY <2>4, <2>5, <3>1, LenProperties
  <2>12. OutOk'
    <3>1. phase = "answer" => \E i \in 0..pos : Len(out) = pos - i /\ ShownIn(out, stream', pos, i, pos - i)
      BY <1>3, <2>10, <2>11 DEF OutOk, Shown
    <3>2. phase = "end" /\ out # <<>> => \E i \in 0..pos : ShownIn(out, stream', pos, i, Len(out) - 1)
      <4>1. Len(out) - 1 \in Int
        BY <2>11
      <4> QED BY <1>3, <2>10, <2>11, <4>1 DEF OutOk, Shown
    <3> QED BY <1>3, <1>4, <3>1, <3>2 DEF OutOk, Shown
  <2>13. ASSUME Exact PROVE Exact'
    <3>1. phase # "command"
      <4>1. phase = "command" => stream = LineEnded
        BY <2>13 DEF Exact
      <4> QED BY <1>3, <2>1, <2>8, <4>1 DEF StreamOk
    <3>2. phase = "answer" =>
             /\ stream' \in {LineEnded, Answered}
             /\ \E i \in {Len(banner) + 3, Len(banner) + 4} :
                   i <= pos /\ Len(out) = pos - i /\ ShownIn(out, stream', pos, i, pos - i)
      <4> SUFFICES ASSUME phase = "answer"
                   PROVE  /\ stream' \in {LineEnded, Answered}
                          /\ \E i \in {Len(banner) + 3, Len(banner) + 4} :
                                i <= pos /\ Len(out) = pos - i /\ ShownIn(out, stream', pos, i, pos - i)
        OBVIOUS
      <4>1. PICK i \in {Len(banner) + 3, Len(banner) + 4} :
                   i <= pos /\ Len(out) = pos - i /\ ShownIn(out, stream, pos, i, pos - i)
        BY <2>13 DEF Exact, Shown
      <4>2. Len(banner) \in Nat
        BY <1>6 DEF Streams
      <4>3. i \in Nat /\ pos - i \in Int
        BY <2>11, <4>1, <4>2
      <4>4. ShownIn(out, stream', pos, i, pos - i)
        BY <2>10, <4>1, <4>3
      <4> QED BY <2>2, <4>1, <4>4
    <3>3. status = "success" /\ ~ closed => out \in {F!Whole, <<".">> \o F!Whole}
      BY <2>13 DEF Exact
    <3> QED BY <1>2, <1>4, <2>1, <3>1, <3>2, <3>3 DEF Exact, Shown
  <2> QED BY <1>2, <1>3, <1>4, <1>5, <2>6, <2>9, <2>12, <2>13 DEF FInv
<1> QED BY <1>7, <1>8

\* A line behind another, or alone.
LEMMA Pair ==
    ASSUME NEW x, NEW y
    PROVE  Append(<<x>>, y) = <<x, y>> /\ Append(<<>>, y) = <<y>>
<1> DEFINE S == {x, y}
           s == <<x>>
           t == <<x, y>>
           r == Append(s, y)
<1>1. s \in Seq(S) /\ Len(s) = 1 /\ s[1] = x /\ t \in Seq(S) /\ Len(t) = 2 /\ t[1] = x /\ t[2] = y
  OBVIOUS
<1>2. y \in S
  OBVIOUS
<1> HIDE DEF S, s, t
<1>3. r \in Seq(S) /\ Len(r) = Len(s) + 1
  BY <1>1, <1>2, AppendProperties
<1>a. r[Len(s) + 1] = y
  BY <1>1, <1>2, AppendProperties
<1>b. \A i \in 1..Len(s) : r[i] = s[i]
  BY <1>1, <1>2, AppendProperties
<1> HIDE DEF r
<1>4. \A i \in 1..2 : r[i] = t[i]
  <2>1. 1 \in 1..1 /\ \A i \in 1..2 : i = 1 \/ i = 2
    OBVIOUS
  <2> QED BY <1>1, <1>3, <1>a, <1>b, <2>1
<1>5. r = t
  BY <1>1, <1>3, <1>4, SeqEqual
<1> QED BY <1>5 DEF r, s, t

\* The client, except for what it reads.
LEMMA ClientStep ==
    ASSUME FInv,
           \/ F!Start \/ F!Resolve \/ F!Connect \/ F!NoAddress \/ F!SendHello \/ F!SendCommand
           \/ F!ReadEnds \/ F!ReadFails
    PROVE  FInv'
<1>1. F!inputs' = F!inputs /\ pos' = pos /\ out' = out /\ missed' = missed /\ closed' = closed
  BY DEF F!Start, F!Resolve, F!Connect, F!NoAddress, F!SendHello, F!SendCommand, F!ReadEnds,
         F!ReadFails, F!Send, F!End, F!server
<1>2. /\ argv' = argv /\ font' = font /\ banner' = banner /\ art' = art
      /\ Greeting' = Greeting /\ LineEnded' = LineEnded /\ Answered' = Answered
      /\ F!Whole' = F!Whole /\ F!Text' = F!Text /\ Plain' = Plain
  BY <1>1, Fixed
<1>3. FTyped /\ StreamOk /\ OutOk /\ (Plain => Exact)
  BY DEF FInv
<1>4. /\ argv \in Argv /\ font \in Font /\ banner \in Banner /\ art \in Art
      /\ text \in Seq(Char) /\ Len(text) < TEXT_SIZE /\ left \in 0..Addresses
      /\ stream \in Seq(Char) /\ pos \in 0..Len(stream) /\ out \in Seq(Char)
      /\ last \in Seq(Char) /\ Len(last) \in 0..2 /\ closed \in BOOLEAN /\ missed \in BOOLEAN
      /\ (status = "running" <=> phase # "end")
  BY <1>3 DEF FTyped
<1>5. ASSUME NEW s, phase \notin {"prompt", "answer"}, F!End(s), s \in {"failure"},
             text' = text, left' = left, stream' = stream, lines' = lines, last' = last,
             phase # "end"
      PROVE  FInv'
  <2>1. phase' = "end" /\ status' = "failure"
    BY <1>5 DEF F!End
  <2>2. FTyped'
    BY <1>1, <1>2, <1>4, <1>5, <2>1 DEF FTyped
  <2>3. out = <<>>
    BY <1>3, <1>5 DEF OutOk
  <2>4. StreamOk' /\ OutOk' /\ Exact'
    BY <1>1, <1>2, <1>3, <1>5, <2>1, <2>3 DEF StreamOk, OutOk, Exact
  <2> QED BY <2>1, <2>2, <2>4 DEF FInv
<1>6. CASE F!Start
  <2>1. /\ phase = "start" /\ left' = left /\ stream' = stream /\ lines' = lines /\ last' = last
    BY <1>6 DEF F!Start, F!server
  <2>2. CASE argv = <<>>
    BY <1>5, <1>6, <2>1, <2>2 DEF F!Start
  <2>3. CASE argv # <<>>
    <3>1. phase' = "resolve" /\ text' = F!Text /\ status' = status
      BY <1>6, <2>3 DEF F!Start
    <3>2. F!Text \in Seq(Char) /\ Len(F!Text) < TEXT_SIZE
      BY <1>4, TextRight
    <3>3. FTyped'
      BY <1>1, <1>2, <1>3, <1>4, <2>1, <3>1, <3>2 DEF FTyped
    <3>4. StreamOk' /\ OutOk' /\ Exact'
      BY <1>1, <1>2, <1>3, <1>4, <2>1, <3>1 DEF StreamOk, OutOk, Exact
    <3> QED BY <1>2, <3>1, <3>3, <3>4 DEF FInv
  <2> QED BY <2>2, <2>3
<1>7. CASE F!Resolve
  <2>1. /\ phase = "resolve" /\ text' = text /\ stream' = stream /\ lines' = lines /\ last' = last
    BY <1>7 DEF F!Resolve, F!server
  <2>2. CASE F!End("failure") /\ left' = left
    BY <1>5, <2>1, <2>2
  <2>3. CASE phase' = "connect" /\ left' \in 1..Addresses /\ status' = status
    <3>1. left' \in 0..Addresses
      <4>1. Addresses \in Nat
        BY FigletConstants
      <4> QED BY <2>3, <4>1
    <3>2. FTyped'
      BY <1>1, <1>2, <1>3, <1>4, <2>1, <2>3, <3>1 DEF FTyped
    <3>3. StreamOk' /\ OutOk' /\ Exact'
      BY <1>1, <1>2, <1>3, <1>4, <2>1, <2>3 DEF StreamOk, OutOk, Exact
    <3>4. text = F!Text
      BY <2>1 DEF FInv
    <3> QED BY <1>2, <2>1, <2>3, <3>2, <3>3, <3>4 DEF FInv
  <2> QED BY <1>7, <2>2, <2>3 DEF F!Resolve
<1>8. CASE F!NoAddress
  <2>1. /\ phase = "connect" /\ F!End("failure") /\ text' = text /\ left' = left
        /\ stream' = stream /\ lines' = lines /\ last' = last
    BY <1>8 DEF F!NoAddress, F!server
  <2> QED BY <1>5, <2>1
<1>9. CASE F!Connect
  <2>1. /\ phase = "connect" /\ left > 0 /\ left' = left - 1 /\ text' = text /\ status' = status
        /\ lines' = lines /\ last' = last
        /\ \/ phase' = "hello" /\ stream' = Greeting
           \/ phase' = phase /\ stream' = stream
    BY <1>9 DEF F!Connect, Greeting
  <2>2. left' \in 0..Addresses
    <3>1. Addresses \in Nat
      BY FigletConstants
    <3> QED BY <1>4, <2>1, <3>1
  <2>3. stream = <<>> /\ lines = <<>> /\ pos = 0 /\ out = <<>> /\ text = F!Text /\ status = "running"
    BY <1>3, <1>4, <2>1 DEF StreamOk, OutOk, FInv
  <2>4. stream' \in Seq(Char) /\ pos' \in 0..Len(stream')
    <3>1. Greeting \in Seq(Char)
      BY <1>4, Sent DEF Streams
    <3>2. stream' \in Seq(Char)
      BY <1>4, <2>1, <3>1
    <3>3. Len(stream') \in Nat
      BY <3>2, LenProperties
    <3>4. pos' = 0
      BY <1>1, <2>3
    <3> QED BY <3>2, <3>3, <3>4
  <2>5. FTyped'
    BY <1>1, <1>2, <1>4, <2>1, <2>2, <2>3, <2>4 DEF FTyped
  <2>6. StreamOk' /\ OutOk' /\ Exact'
    BY <1>1, <1>2, <2>1, <2>3 DEF StreamOk, OutOk, Exact
  <2> QED BY <1>2, <2>1, <2>3, <2>5, <2>6 DEF FInv
<1>10. CASE F!SendHello
  <2>1. /\ phase = "hello" /\ F!Send("empty", "prompt")
        /\ text' = text /\ left' = left /\ last' = last
    BY <1>10 DEF F!SendHello
  <2>2. stream' = stream
    BY <2>1 DEF F!Send
  <2>3. CASE F!End("failure") /\ lines' = lines
    BY <1>5, <2>1, <2>2, <2>3
  <2>4. CASE phase' = "prompt" /\ lines' = Append(lines, "empty") /\ status' = status
    <3>1. stream = Greeting /\ lines = <<>> /\ out = <<>> /\ text = F!Text /\ status = "running"
      BY <1>3, <1>4, <2>1 DEF StreamOk, OutOk, FInv
    <3>2. lines' = <<"empty">>
      BY <2>4, <3>1
    <3>3. FTyped'
      BY <1>1, <1>2, <1>3, <1>4, <2>1, <2>2, <2>4 DEF FTyped
    <3>4. StreamOk' /\ OutOk' /\ Exact'
      BY <1>1, <1>2, <2>2, <2>4, <3>1, <3>2 DEF StreamOk, OutOk, Exact
    <3> QED BY <1>2, <2>1, <2>4, <3>1, <3>3, <3>4 DEF FInv
  <2> QED BY <2>1, <2>3, <2>4 DEF F!Send
<1>11. CASE F!SendCommand
  <2>1. /\ phase = "command" /\ last' = <<>> /\ text' = text /\ left' = left
    BY <1>11 DEF F!SendCommand
  <2>2. out = <<>> /\ status = "running" /\ text = F!Text /\ stream \in {Greeting, LineEnded}
    BY <1>3, <1>4, <2>1 DEF StreamOk, OutOk, FInv
  <2>3. <<>> \in Seq(Char) /\ Len(<<>>) \in 0..2
    BY EmptySeq
  <2>4. CASE F!End("failure") /\ stream' = stream /\ lines' = lines
    <3>1. phase' = "end" /\ status' = "failure"
      BY <2>4 DEF F!End
    <3>2. FTyped'
      BY <1>1, <1>2, <1>4, <2>1, <2>3, <2>4, <3>1 DEF FTyped
    <3>3. StreamOk' /\ OutOk' /\ Exact'
      BY <1>1, <1>2, <1>3, <2>1, <2>2, <2>4, <3>1 DEF StreamOk, OutOk, Exact
    <3> QED BY <3>1, <3>2, <3>3 DEF FInv
  <2>5. CASE /\ phase' = "answer" /\ lines' = Append(lines, "figlet") /\ status' = status
             /\ stream' = stream /\ ~ F!TooLong
    <3>1. FTyped'
      BY <1>1, <1>2, <1>3, <1>4, <2>1, <2>3, <2>5 DEF FTyped
    <3>2. StreamOk'
      <4>1. \/ stream = Greeting /\ lines = <<"empty">>
            \/ stream = LineEnded /\ lines = <<>>
        BY <1>3, <2>1 DEF StreamOk
      <4>2. \/ stream = Greeting /\ lines' = <<"empty", "figlet">>
            \/ stream = LineEnded /\ lines' = <<"figlet">>
        <5>1. Append(<<"empty">>, "figlet") = <<"empty", "figlet">> /\ Append(<<>>, "figlet") = <<"figlet">>
          BY Pair
        <5> QED BY <2>5, <4>1, <5>1
      <4> QED BY <1>1, <1>2, <2>5, <4>2 DEF StreamOk
    <3>3. Len(out) = 0 /\ pos - pos = 0 /\ ShownIn(out, stream, pos, pos, 0) /\ pos \in Nat /\ pos <= pos
      <4>1. Len(stream) \in Nat
        BY <1>4, LenProperties
      <4>2. pos \in Nat
        BY <1>4, <4>1
      <4>3. \A k \in 1..0 : FALSE
        OBVIOUS
      <4> QED BY <2>2, <4>2, <4>3, EmptySeq DEF ShownIn
    <3>4. OutOk'
      <4>1. pos \in 0..pos
        BY <3>3
      <4>2. \E i \in 0..pos : Len(out) = pos - i /\ ShownIn(out, stream, pos, i, pos - i)
        BY <3>3, <4>1
      <4> QED BY <1>1, <2>5, <4>2 DEF OutOk, Shown
    <3>5. ASSUME Exact PROVE Exact'
      <4>1. stream = LineEnded /\ pos \in {Len(banner) + 3, Len(banner) + 4}
        BY <2>1, <3>5 DEF Exact
      <4>2. \E i \in {Len(banner) + 3, Len(banner) + 4} :
               i <= pos /\ Len(out) = pos - i /\ ShownIn(out, stream, pos, i, pos - i)
        BY <3>3, <4>1
      <4> QED BY <1>1, <1>2, <2>2, <2>5, <4>1, <4>2 DEF Exact, Shown
    <3>6. F!CmdLen' < CMD_SIZE
      <4>1. F!CmdLen' = F!CmdLen
        BY <1>2, <2>1 DEF F!CmdLen
      <4>2. F!CmdLen \in Int /\ CMD_SIZE \in Int
        <5>1. Len(text) \in Nat /\ font \in Nat /\ CMD_SIZE \in Nat
          BY <1>4, LenProperties, FigletConstants
        <5> QED BY <5>1 DEF F!CmdLen
      <4> QED BY <2>5, <4>1, <4>2 DEF F!TooLong
    <3> QED BY <1>2, <1>3, <2>1, <2>2, <2>5, <3>1, <3>2, <3>4, <3>5, <3>6 DEF FInv
  <2>6. \/ F!End("failure") /\ stream' = stream /\ lines' = lines
        \/ /\ phase' = "answer" /\ lines' = Append(lines, "figlet") /\ status' = status
           /\ stream' = stream /\ ~ F!TooLong
    BY <1>11 DEF F!SendCommand, F!Send, F!server
  <2> QED BY <2>4, <2>5, <2>6
<1>12. CASE F!ReadEnds \/ F!ReadFails
  <2>1. /\ phase \in {"prompt", "answer"} /\ phase' = "end" /\ status' \in {"success", "failure"}
        /\ (status' = "success" => closed) /\ text' = text /\ left' = left
        /\ stream' = stream /\ lines' = lines /\ last' = last
    BY <1>12 DEF F!ReadEnds, F!ReadFails, F!End, F!server
  <2>2. FTyped'
    BY <1>1, <1>2, <1>4, <2>1 DEF FTyped
  <2>3. StreamOk'
    BY <1>1, <1>2, <1>3, <2>1 DEF StreamOk
  <2>4. OutOk'
    <3>1. ASSUME out # <<>> PROVE \E i \in 0..pos : ShownIn(out, stream, pos, i, Len(out) - 1)
      <4>1. phase = "answer"
        BY <1>3, <2>1, <3>1 DEF OutOk
      <4>2. PICK i \in 0..pos : Len(out) = pos - i /\ ShownIn(out, stream, pos, i, pos - i)
        BY <1>3, <4>1 DEF OutOk, Shown
      <4>3. Len(out) \in Nat /\ Len(stream) \in Nat
        BY <1>4, LenProperties
      <4>4. ShownIn(out, stream, pos, i, Len(out) - 1)
        <5>1. Len(out) - 1 <= pos - i /\ \A k \in 1..Len(out) - 1 : k \in 1..pos - i
          BY <1>4, <4>2, <4>3
        <5> QED BY <4>2, <5>1 DEF ShownIn
      <4> QED BY <4>4
    <3> QED BY <1>1, <2>1, <3>1 DEF OutOk, Shown
  <2>5. Exact'
    BY <1>1, <2>1 DEF Exact
  <2> QED BY <2>1, <2>2, <2>3, <2>4, <2>5 DEF FInv
<1> QED BY <1>6, <1>7, <1>8, <1>9, <1>10, <1>11, <1>12

\* The reader before a read: the characters of the piece that are in the stream.
LEMMA ReadPromptStep ==
    ASSUME FInv, NEW n, F!ReadPrompt(n)
    PROVE  FInv'
<1>1. phase = "prompt" /\ F!Read(n, F!Prompt) /\ status' = status /\ out' = out
  BY DEF F!ReadPrompt
<1>2. F!inputs' = F!inputs
  BY <1>1 DEF F!Read
<1>3. /\ argv' = argv /\ font' = font /\ banner' = banner /\ art' = art
      /\ Greeting' = Greeting /\ LineEnded' = LineEnded /\ Answered' = Answered
      /\ F!Whole' = F!Whole /\ F!Text' = F!Text /\ Plain' = Plain
  BY <1>2, Fixed
<1>4. FTyped /\ StreamOk /\ OutOk /\ (Plain => Exact)
  BY DEF FInv
<1>5. /\ n \in 1..Len(stream) - pos /\ pos' = pos + n /\ pos' \in 0..Len(stream)
      /\ last' \in Seq(Char) /\ Len(last') \in 0..2 /\ missed' \in BOOLEAN
      /\ text' = text /\ left' = left /\ stream' = stream /\ lines' = lines /\ closed' = closed
  BY <1>1, <1>4, ReadTyped
<1>6. phase' = IF F!Find(F!Piece(n), F!Prompt) = {} THEN "prompt" ELSE "command"
  BY DEF F!ReadPrompt
<1>7. FTyped'
  BY <1>1, <1>3, <1>4, <1>5, <1>6 DEF FTyped
<1>8. StreamOk'
  BY <1>1, <1>3, <1>4, <1>5, <1>6 DEF StreamOk
<1>9. out = <<>> /\ status = "running" /\ text = F!Text
  BY <1>1, <1>4 DEF OutOk, FTyped, FInv
<1>10. OutOk'
  BY <1>1, <1>6, <1>9 DEF OutOk
<1>11. ASSUME Plain PROVE Exact'
  <2>1. CASE F!Find(F!Piece(n), F!Prompt) = {}
    BY <1>1, <1>6, <1>9, <2>1 DEF Exact
  <2>2. CASE F!Find(F!Piece(n), F!Prompt) # {}
    <3>1. phase' = "command"
      BY <1>6, <2>2
    <3>2. PICK k \in F!Find(F!Piece(n), F!Prompt) : TRUE
      BY <2>2
    <3> DEFINE p == F!Prompt
               q == pos + k
    <3>3. p \in Seq(Char) /\ Len(p) = 3 /\ p[1] = "." /\ p[2] = "CR" /\ p[3] = "LF"
      BY Prompts
    <3>4. stream \in Seq(Char) /\ pos \in 0..Len(stream) /\ banner \in Banner /\ art \in Art
      BY <1>4 DEF FTyped
    <3>5. /\ pos + k \in Nat \ {0} /\ pos + k + 2 <= pos + n
          /\ ThreeAt(stream, pos + k, p[1], p[2], p[3])
      <4> HIDE DEF p
      <4>1. k \in F!Find(F!Piece(n), p)
        BY <3>2 DEF p
      <4> QED BY <1>5, <3>3, <3>4, <4>1, FoundAt
    <3>6. ThreeAt(stream, q, ".", "CR", "LF") /\ q \in Nat \ {0} /\ q + 2 <= pos'
      BY <1>5, <3>3, <3>5
    <3>7. stream \in {Greeting, LineEnded}
      BY <1>1, <1>4 DEF StreamOk
    <3> HIDE DEF q
    <3>8. stream = LineEnded /\ q = Len(banner) + 1
      BY <1>11, <3>4, <3>6, <3>7, FirstPrompt DEF Plain
    <3>9. Len(stream) = Len(banner) + 4 /\ Len(banner) \in Nat
      BY <3>4, <3>8, Sent DEF Streams
    <3>10. pos' \in {Len(banner) + 3, Len(banner) + 4}
      BY <1>5, <3>6, <3>8, <3>9
    <3> QED BY <1>1, <1>3, <1>5, <1>9, <3>1, <3>8, <3>10 DEF Exact
  <2> QED BY <2>1, <2>2
<1> QED BY <1>3, <1>5, <1>6, <1>7, <1>8, <1>9, <1>10, <1>11 DEF FInv

\* What is printed goes on where it ended.
LEMMA ShownMore ==
    ASSUME FTyped, NEW n \in 1..Len(stream) - pos, NEW i \in 0..pos, Len(out) = pos - i,
           ShownIn(out, stream, pos, i, pos - i), NEW m \in 0..n,
           NEW e \in Seq(Char), Len(e) = m, \A k \in 1..m : e[k] = F!Piece(n)[k]
    PROVE  /\ out \o e \in Seq(Char) /\ Len(out \o e) = pos + m - i
           /\ ShownIn(out \o e, stream, pos + n, i, pos + m - i)
<1>1. /\ stream \in Seq(Char) /\ pos \in 0..Len(stream) /\ out \in Seq(Char)
      /\ Len(stream) \in Nat
  BY LenProperties DEF FTyped
<1>2. \A k \in 1..n : F!Piece(n)[k] = stream[pos + k]
  BY <1>1, PieceIs
<1>3. PICK c \in Nat : c = pos - i /\ pos = c + i
  BY <1>1
<1>4. m \in Nat /\ i \in Nat /\ pos \in Nat /\ n \in Nat
  BY <1>1
<1>5. IsCat(out \o e, out, e, c, m)
  BY <1>1, <1>3, <1>4, Cat
<1> DEFINE r == out \o e
<1>6. r \in Seq(Char) /\ Len(r) = c + m
  BY <1>5 DEF IsCat
<1>7. /\ \A k \in 1..c : r[k] = out[k]
      /\ \A j \in 1..m : r[c + j] = e[j]
  BY <1>5 DEF IsCat
<1> HIDE DEF r
<1>8. \A k \in 1..c : out[k] = stream[i + k]
  BY <1>3 DEF ShownIn
<1>9. \A k \in 1..c + m : r[k] = stream[i + k]
  <2> TAKE k \in 1..c + m
  <2>1. CASE k \in 1..c
    BY <1>7, <1>8, <2>1
  <2>2. CASE k \notin 1..c
    <3>1. PICK j \in 1..m : k = c + j
      <4>1. k - c \in 1..m /\ k = c + (k - c)
        BY <1>4, <2>2
      <4> QED BY <4>1
    <3>2. j \in 1..n /\ pos + j = i + (c + j)
      BY <1>3, <1>4
    <3>3. e[j] = stream[pos + j]
      BY <1>2, <3>2
    <3> QED BY <1>7, <3>1, <3>2, <3>3
  <2> QED BY <2>1, <2>2
<1>10. pos + m - i = c + m /\ pos + m - i <= pos + n - i
  BY <1>3, <1>4
<1>11. Len(r) = pos + m - i /\ ShownIn(r, stream, pos + n, i, pos + m - i)
  <2>1. PICK y \in Nat : y = c + m
    BY <1>4
  <2>2. y = pos + m - i /\ y <= pos + n - i
    BY <1>10, <2>1
  <2>3. Len(r) = y /\ \A k \in 1..y : r[k] = stream[i + k]
    BY <1>6, <1>9, <2>1
  <2>4. ShownIn(r, stream, pos + n, i, y)
    BY <1>4, <2>2, <2>3 DEF ShownIn
  <2> QED BY <2>2, <2>3, <2>4
<1> QED BY <1>6, <1>11 DEF r

\* What is printed when a prompt is found at character k of the piece.
LEMMA ShownLast ==
    ASSUME FTyped, NEW n \in 1..Len(stream) - pos, NEW i \in 0..pos, Len(out) = pos - i,
           ShownIn(out, stream, pos, i, pos - i), NEW k \in 1..n - 2,
           NEW o, o = out \o SubSeq(F!Piece(n), 1, k - 1) \o <<"LF">>
    PROVE  /\ o \in Seq(Char) /\ Len(o) = pos + k - i /\ o[pos + k - i] = "LF"
           /\ ShownIn(o, stream, pos + n, i, pos + k - 1 - i)
<1>1. /\ stream \in Seq(Char) /\ pos \in 0..Len(stream) /\ Len(stream) \in Nat
  BY LenProperties DEF FTyped
<1>2. PICK m \in Nat : m = k - 1 /\ k = m + 1 /\ m \in 0..n
  <2>1. k - 1 \in Nat /\ k = (k - 1) + 1 /\ k - 1 \in 0..n
    BY <1>1
  <2> QED BY <2>1
<1>3. F!Piece(n) \in Seq(Char) /\ Len(F!Piece(n)) = n
  BY <1>1, PieceIs
<1> DEFINE e == SubSeq(F!Piece(n), 1, m)
           d == <<"LF">>
           r == out \o e
<1>4. e \in Seq(Char) /\ Len(e) = m /\ \A j \in 1..m : e[j] = F!Piece(n)[j]
  BY <1>2, <1>3, SubTyped
<1>5. d \in Seq(Char) /\ Len(d) = 1 /\ d[1] = "LF"
  BY Short
<1>6. o = r \o d
  BY <1>2
<1> HIDE DEF e, d
<1>7. /\ r \in Seq(Char) /\ Len(r) = pos + m - i
      /\ ShownIn(r, stream, pos + n, i, pos + m - i)
  BY <1>2, <1>4, ShownMore
<1> HIDE DEF r
<1>8. PICK c \in Nat : c = pos + m - i /\ c + 1 = pos + k - i /\ c = pos + k - 1 - i
  <2>1. /\ pos + m - i \in Nat /\ (pos + m - i) + 1 = pos + k - i
        /\ pos + m - i = pos + k - 1 - i
    BY <1>1, <1>2
  <2> QED BY <2>1
<1>9. IsCat(o, r, d, c, 1)
  <2>1. Len(r) = c
    BY <1>7, <1>8
  <2> QED BY <1>5, <1>6, <1>7, <2>1, Cat
<1>10. o \in Seq(Char) /\ Len(o) = c + 1 /\ o[c + 1] = "LF"
  <2>1. 1 \in 1..1
    OBVIOUS
  <2> QED BY <1>5, <1>9, <2>1 DEF IsCat
<1>11. ShownIn(o, stream, pos + n, i, c)
  <2>1. ShownIn(r, stream, pos + n, i, c)
    BY <1>7, <1>8
  <2> QED BY <1>9, <2>1 DEF IsCat, ShownIn
<1> QED BY <1>8, <1>10, <1>11

\* The reader after the command.
LEMMA ReadAnswerStep ==
    ASSUME FInv, NEW n, F!ReadAnswer(n)
    PROVE  FInv'
<1> DEFINE found == F!Find(F!Piece(n), F!NewPrompt)
<1>1. phase = "answer" /\ F!Read(n, F!NewPrompt)
  BY DEF F!ReadAnswer
<1>2. F!inputs' = F!inputs
  BY <1>1 DEF F!Read
<1>3. /\ argv' = argv /\ font' = font /\ banner' = banner /\ art' = art
      /\ Greeting' = Greeting /\ LineEnded' = LineEnded /\ Answered' = Answered
      /\ F!Whole' = F!Whole /\ F!Text' = F!Text /\ Plain' = Plain
  BY <1>2, Fixed
<1>4. FTyped /\ StreamOk /\ OutOk /\ (Plain => Exact)
  BY DEF FInv
<1>5. /\ n \in 1..Len(stream) - pos /\ pos' = pos + n /\ pos' \in 0..Len(stream)
      /\ last' \in Seq(Char) /\ Len(last') \in 0..2 /\ missed' \in BOOLEAN
      /\ text' = text /\ left' = left /\ stream' = stream /\ lines' = lines /\ closed' = closed
  BY <1>1, <1>4, ReadTyped
<1>6. /\ stream \in Seq(Char) /\ pos \in 0..Len(stream) /\ Len(stream) \in Nat
      /\ banner \in Banner /\ art \in Art /\ status = "running" /\ text = F!Text
      /\ F!CmdLen < CMD_SIZE
  BY <1>1, <1>4, LenProperties DEF FTyped, FInv
<1>7. PICK i \in 0..pos : Len(out) = pos - i /\ ShownIn(out, stream, pos, i, pos - i)
  BY <1>1, <1>4 DEF OutOk, Shown
<1>8. F!CmdLen' = F!CmdLen
  BY <1>3, <1>5 DEF F!CmdLen
<1>9. CASE found = {}
  <2> DEFINE e == F!Piece(n)
  <2>1. out' = out \o e /\ phase' = phase /\ status' = status
    BY <1>9 DEF F!ReadAnswer
  <2>2. e \in Seq(Char) /\ Len(e) = n /\ n \in 0..n
    <3>1. n \in 0..n
      BY <1>5, <1>6
    <3> QED BY <1>5, <1>6, <3>1, PieceIs
  <2>3. ASSUME NEW j \in 0..pos, Len(out) = pos - j, ShownIn(out, stream, pos, j, pos - j)
        PROVE  /\ out' \in Seq(Char) /\ Len(out') = pos' - j
               /\ ShownIn(out', stream, pos', j, pos' - j)
    <3>1. /\ out \o e \in Seq(Char) /\ Len(out \o e) = pos + n - j
          /\ ShownIn(out \o e, stream, pos + n, j, pos + n - j)
      BY <1>4, <1>5, <2>2, <2>3, ShownMore
    <3> HIDE DEF e
    <3>2. out \o e = out' /\ pos + n = pos'
      BY <1>5, <2>1
    <3> QED BY <1>5, <1>6, <3>1, <3>2
  <2> HIDE DEF e
  <2>4. i \in 0..pos'
    BY <1>5, <1>6
  <2>5. FTyped'
    BY <1>3, <1>4, <1>5, <1>7, <2>1, <2>3 DEF FTyped
  <2>6. StreamOk'
    BY <1>1, <1>3, <1>4, <1>5, <2>1 DEF StreamOk
  <2>7. OutOk'
    <3>1. Len(out') = pos' - i /\ ShownIn(out', stream, pos', i, pos' - i)
      BY <1>7, <2>3
    <3> QED BY <1>1, <1>5, <2>1, <2>4, <3>1 DEF OutOk, Shown
  <2>8. ASSUME Plain PROVE Exact'
    <3>1. /\ stream \in {LineEnded, Answered}
          /\ \E j \in {Len(banner) + 3, Len(banner) + 4} :
                j <= pos /\ Len(out) = pos - j /\ ShownIn(out, stream, pos, j, pos - j)
      BY <1>1, <1>4, <2>8 DEF Exact, Shown
    <3>2. PICK j \in {Len(banner) + 3, Len(banner) + 4} :
                j <= pos /\ Len(out) = pos - j /\ ShownIn(out, stream, pos, j, pos - j)
      BY <3>1
    <3>3. Len(banner) \in Nat
      BY <1>6, Sent DEF Streams
    <3>4. j \in 0..pos /\ j <= pos'
      BY <1>5, <1>6, <3>2, <3>3
    <3>5. Len(out') = pos' - j /\ ShownIn(out', stream, pos', j, pos' - j)
      BY <2>3, <3>2, <3>4
    <3> QED BY <1>1, <1>3, <1>5, <1>6, <2>1, <3>1, <3>4, <3>5 DEF Exact, Shown
  <2> QED BY <1>1, <1>3, <1>5, <1>6, <1>8, <2>1, <2>5, <2>6, <2>7, <2>8 DEF FInv
<1>10. CASE found # {}
  <2> DEFINE k == F!Min(found)
             p == F!NewPrompt
             o == out \o SubSeq(F!Piece(n), 1, k - 1) \o <<"LF">>
  <2>1. out' = o /\ phase' = "end" /\ status' = "success"
    BY <1>10 DEF F!ReadAnswer, F!End
  <2>2. p \in Seq(Char) /\ Len(p) = 3 /\ p[1] = "CR" /\ p[2] = "LF" /\ p[3] = "."
    BY Prompts
  <2>3. k \in found
    <3>1. found \subseteq Nat
      BY DEF F!Find
    <3>2. k = CHOOSE x \in found : \A y \in found : x <= y
      BY DEF F!Min
    <3> HIDE DEF found, k
    <3>3. \E x \in found : \A y \in found : x <= y
      BY <1>10, <3>1, LeastNat
    <3> QED BY <3>2, <3>3
  <2> HIDE DEF k
  <2>4. /\ k \in 1..n - 2 /\ pos + k \in Nat \ {0} /\ ThreeAt(stream, pos + k, "CR", "LF", ".")
    <3> HIDE DEF p
    <3>1. k \in F!Find(F!Piece(n), p)
      BY <2>3 DEF p
    <3>2. /\ k \in 1..n - 2 /\ pos + k \in Nat \ {0}
          /\ ThreeAt(stream, pos + k, p[1], p[2], p[3])
      BY <1>5, <1>6, <2>2, <3>1, FoundAt
    <3> QED BY <2>2, <3>2
  <2> HIDE DEF p, found
  <2>5. ASSUME NEW j \in 0..pos, Len(out) = pos - j, ShownIn(out, stream, pos, j, pos - j)
        PROVE  /\ out' \in Seq(Char) /\ Len(out') = pos + k - j /\ out'[pos + k - j] = "LF"
               /\ ShownIn(out', stream, pos', j, pos + k - 1 - j)
    BY <1>4, <1>5, <2>1, <2>4, <2>5, ShownLast
  <2> HIDE DEF o
  <2>6. FTyped'
    BY <1>3, <1>4, <1>5, <1>7, <2>1, <2>5 DEF FTyped
  <2>7. StreamOk'
    BY <1>1, <1>3, <1>4, <1>5, <2>1 DEF StreamOk
  <2>8. OutOk'
    <3>1. Len(out') = pos + k - i /\ ShownIn(out', stream, pos', i, pos + k - 1 - i)
      BY <1>7, <2>5
    <3>2. pos + k - 1 - i = (pos + k - i) - 1 /\ i \in 0..pos'
      BY <1>5, <1>6, <2>4
    <3>3. ShownIn(out', stream, pos', i, Len(out') - 1)
      BY <3>1, <3>2
    <3> QED BY <1>5, <2>1, <3>2, <3>3 DEF OutOk, Shown
  <2>9. ASSUME Plain PROVE Exact'
    <3>1. /\ stream \in {LineEnded, Answered}
          /\ \E j \in {Len(banner) + 3, Len(banner) + 4} :
                j <= pos /\ Len(out) = pos - j /\ ShownIn(out, stream, pos, j, pos - j)
      BY <1>1, <1>4, <2>9 DEF Exact, Shown
    <3>2. PICK j \in {Len(banner) + 3, Len(banner) + 4} :
                j <= pos /\ Len(out) = pos - j /\ ShownIn(out, stream, pos, j, pos - j)
      BY <3>1
    <3>3. PICK b, a : Streams(b, a) /\ b = Len(banner) /\ a = Len(art) /\ b \in Nat /\ a \in Nat
      BY <1>6, Sent DEF Streams
    <3>4. j \in 0..pos /\ pos + k >= b + 4
      BY <1>6, <2>4, <3>2, <3>3
    <3> DEFINE q == pos + k
    <3>5. q \in Nat /\ q >= Len(banner) + 4 /\ ThreeAt(stream, q, "CR", "LF", ".")
      BY <2>4, <3>3, <3>4
    <3> HIDE DEF q
    <3>6. stream = Answered /\ q = b + a + 5 /\ a >= 2
      BY <1>6, <2>9, <3>1, <3>3, <3>5, LastPrompt DEF Plain
    <3>7. /\ out' \in Seq(Char) /\ Len(out') = pos + k - j /\ out'[pos + k - j] = "LF"
          /\ ShownIn(out', stream, pos', j, pos + k - 1 - j)
      BY <2>5, <3>2, <3>4
    <3>8. pos + k - j = b + a + 5 - j /\ pos + k - 1 - j = b + a + 4 - j /\ j \in {b + 3, b + 4}
      <4>1. pos + k = b + a + 5
        BY <3>6 DEF q
      <4> QED BY <1>6, <2>4, <3>2, <3>3, <3>4, <4>1
    <3>9. /\ Len(out') = b + a + 5 - j /\ out'[b + a + 5 - j] = "LF"
          /\ \A x \in 1..b + a + 4 - j : out'[x] = Answered[j + x]
      BY <3>6, <3>7, <3>8 DEF ShownIn
    <3>10. out' \in {F!Whole, <<".">> \o F!Whole}
      <4> DEFINE r == out'
      <4>1. /\ r \in Seq(Char) /\ Len(r) = b + a + 5 - j /\ r[b + a + 5 - j] = "LF"
            /\ \A x \in 1..b + a + 4 - j : r[x] = Answered[j + x]
        BY <3>7, <3>9
      <4> HIDE DEF r
      <4>2. r \in {F!Whole, <<".">> \o F!Whole}
        BY <1>6, <3>3, <3>6, <3>8, <4>1, PrintedWhole
      <4> QED BY <4>2 DEF r
    <3> QED BY <1>3, <2>1, <3>10 DEF Exact
  <2> QED BY <1>3, <2>1, <2>6, <2>7, <2>8, <2>9 DEF FInv
<1> QED BY <1>9, <1>10

\* Every step, and a step that changes nothing.
LEMMA FInvStep == FInv /\ [F!Next]_(F!vars) => FInv'
<1> SUFFICES ASSUME FInv, [F!Next]_(F!vars) PROVE FInv'
  OBVIOUS
<1>1. CASE F!Next
  <2>1. CASE F!Client
    <3>1. ASSUME NEW n, F!ReadPrompt(n) \/ F!ReadAnswer(n) PROVE FInv'
      BY <3>1, ReadPromptStep, ReadAnswerStep
    <3> QED BY <2>1, <3>1, ClientStep DEF F!Client
  <2> QED BY <1>1, <2>1, ClientStep, ServerStep DEF F!Next
<1>2. CASE UNCHANGED F!vars
  <2>1. /\ F!inputs' = F!inputs
        /\ phase' = phase /\ status' = status /\ text' = text /\ left' = left
        /\ stream' = stream /\ lines' = lines /\ closed' = closed
        /\ pos' = pos /\ out' = out /\ last' = last /\ missed' = missed
    BY <1>2 DEF F!vars, F!server
  <2>2. /\ argv' = argv /\ font' = font /\ banner' = banner /\ art' = art
        /\ Greeting' = Greeting /\ LineEnded' = LineEnded /\ Answered' = Answered
        /\ F!Whole' = F!Whole /\ F!Text' = F!Text /\ Plain' = Plain
    BY <2>1, Fixed
  <2>3. FTyped /\ StreamOk /\ OutOk /\ (Plain => Exact)
    BY DEF FInv
  <2>4. FTyped' /\ StreamOk'
    BY <2>1, <2>2, <2>3 DEF FTyped, StreamOk
  <2>5. OutOk'
    BY <2>1, <2>3 DEF OutOk, Shown
  <2>6. Exact => Exact'
    BY <2>1, <2>2 DEF Exact, Shown
  <2>7. F!CmdLen' = F!CmdLen
    BY <2>1, <2>2 DEF F!CmdLen
  <2> QED BY <2>1, <2>2, <2>3, <2>4, <2>5, <2>6, <2>7 DEF FInv
<1> QED BY <1>1, <1>2

\* What it says.
LEMMA FInvAnswer == FInv => F!TypeOK /\ F!CommandRight /\ F!AnswerPrinted
<1> SUFFICES ASSUME FInv PROVE F!TypeOK /\ F!CommandRight /\ F!AnswerPrinted
  OBVIOUS
<1>1. FTyped /\ StreamOk /\ OutOk /\ (Plain => Exact)
  BY DEF FInv
<1>2. /\ stream \in Seq(Char) /\ pos \in 0..Len(stream) /\ out \in Seq(Char) /\ argv \in Argv
      /\ banner \in Banner /\ art \in Art /\ Len(stream) \in Nat /\ Len(out) \in Nat
  BY <1>1, LenProperties DEF FTyped
<1>3. F!TypeOK
  <2>1. Len(lines) \in 0..2
    <3>1. lines \in {<<>>, <<"empty">>, <<"figlet">>, <<"empty", "figlet">>}
      BY <1>1 DEF StreamOk
    <3>2. Len(<<>>) = 0 /\ Len(<<"empty">>) = 1 /\ Len(<<"figlet">>) = 1 /\ Len(<<"empty", "figlet">>) = 2
      OBVIOUS
    <3> QED BY <3>1, <3>2
  <2> QED BY <1>1, <2>1 DEF FTyped, F!TypeOK
<1>4. F!CommandRight
  <2>1. phase = "answer" => text = F!Text /\ F!CmdLen < CMD_SIZE
    BY DEF FInv
  <2> QED BY <1>2, <2>1, TextRight DEF F!CommandRight
<1>5. ASSUME out # <<>> PROVE \E i \in 0..pos : F!IsPrefix(F!Front(out), SubSeq(stream, i + 1, pos))
  <2>1. PICK i \in 0..pos : ShownIn(out, stream, pos, i, Len(out) - 1)
    <3>1. CASE phase = "answer"
      <4>1. PICK i \in 0..pos : Len(out) = pos - i /\ ShownIn(out, stream, pos, i, pos - i)
        BY <1>1, <3>1 DEF OutOk, Shown
      <4>2. Len(out) - 1 <= pos - i /\ \A k \in 1..Len(out) - 1 : k \in 1..pos - i
        BY <1>2, <4>1
      <4>3. ShownIn(out, stream, pos, i, Len(out) - 1)
        BY <4>1, <4>2 DEF ShownIn
      <4> QED BY <4>3
    <3>2. CASE phase = "end"
      BY <1>1, <1>5, <3>2 DEF OutOk, Shown
    <3>3. phase \in {"answer", "end"}
      BY <1>1, <1>5 DEF OutOk
    <3> QED BY <3>1, <3>2, <3>3
  <2>2. PICK n \in Nat : n = Len(out) - 1 /\ n \in 0..Len(out)
    <3>1. Len(out) # 0
      BY <1>2, <1>5, EmptySeq
    <3>2. Len(out) - 1 \in Nat /\ Len(out) - 1 \in 0..Len(out)
      BY <1>2, <3>1
    <3> QED BY <3>2
  <2> DEFINE f == SubSeq(out, 1, n)
             g == SubSeq(stream, i + 1, pos)
  <2>3. F!Front(out) = f
    BY <2>2 DEF F!Front
  <2>4. f \in Seq(Char) /\ Len(f) = n /\ \A k \in 1..n : f[k] = out[k]
    BY <1>2, <2>2, SubTyped
  <2>5. n <= pos - i /\ \A k \in 1..n : out[k] = stream[i + k]
    BY <2>1, <2>2 DEF ShownIn
  <2>6. PICK m \in Nat : m = pos - i /\ n <= m
    <3>1. pos - i \in Nat
      BY <1>2
    <3> QED BY <2>5, <3>1
  <2>7. g \in Seq(Char) /\ Len(g) = m /\ \A k \in 1..m : g[k] = stream[i + k]
    <3>1. /\ i + 1 \in Int /\ pos \in Int /\ pos - (i + 1) + 1 = m
          /\ (i + 1 <= pos <=> m # 0) /\ \A k \in i + 1..pos : k \in 1..Len(stream)
      BY <1>2, <2>6
    <3>2. \A k \in i + 1..pos : stream[k] \in Char
      BY <1>2, <3>1, ElementOfSeq
    <3>3. /\ g \in Seq(Char) /\ Len(g) = IF i + 1 <= pos THEN pos - (i + 1) + 1 ELSE 0
          /\ \A k \in 1..pos - (i + 1) + 1 : g[k] = stream[i + 1 + k - 1]
      BY <3>1, <3>2, SubSeqProperties
    <3> HIDE DEF g
    <3>4. \A k \in 1..m : i + 1 + k - 1 = i + k
      BY <1>2
    <3> QED BY <3>1, <3>3, <3>4
  <2> HIDE DEF f, g
  <2>8. SubSeq(f, 1, n) = SubSeq(g, 1, n)
    <3> DEFINE x == SubSeq(f, 1, n)
               y == SubSeq(g, 1, n)
    <3>1. x \in Seq(Char) /\ Len(x) = n /\ \A k \in 1..n : x[k] = f[k]
      BY <2>2, <2>4, SubTyped
    <3>2. y \in Seq(Char) /\ Len(y) = n /\ \A k \in 1..n : y[k] = g[k]
      BY <2>2, <2>6, <2>7, SubTyped
    <3> HIDE DEF x, y
    <3>3. \A k \in 1..n : k \in 1..m
      BY <2>6
    <3>4. \A k \in 1..n : x[k] = y[k]
      BY <2>4, <2>5, <2>7, <3>1, <3>2, <3>3
    <3>5. x = y
      BY <3>1, <3>2, <3>4, SeqEqual
    <3> QED BY <3>5 DEF x, y
  <2>9. F!IsPrefix(f, g)
    BY <2>4, <2>6, <2>7, <2>8 DEF F!IsPrefix
  <2> QED BY <2>3, <2>9 DEF g
<1>6. /\ status = "success" /\ ~ closed
      /\ F!Find(banner, F!Prompt) = {} /\ F!Find(F!EOL \o art, F!NewPrompt) = {}
      => out \in {F!Whole, <<".">> \o F!Whole}
  BY <1>1 DEF Plain, Exact
<1> QED BY <1>3, <1>4, <1>5, <1>6 DEF F!AnswerPrinted

-----------------------------------------------------------------------------
(***************************************************************************)
(* The program that runs has its invariant, and the others do not move.    *)
(***************************************************************************)
PInv ==
    /\ prog \in {"words", "figlet", "zip", "db", "list"}
    /\ prog = "words" => WInv
    /\ prog = "figlet" => FInv
    /\ prog = "zip" => ZInv /\ GInv
    /\ prog = "db" => DInv
    /\ prog = "list" => LInv

\* It holds at the start.
LEMMA PInvInit == ProgramsInit => PInv
BY WInvInit, FInvInit, ZInvInit, GInvInit, DInvInit, LInvInit DEF ProgramsInit, PInv

\* Every step keeps it.
LEMMA PInvStep == PInv /\ [ProgramsNext]_allVars => PInv'
<1> SUFFICES ASSUME PInv, [ProgramsNext]_allVars PROVE PInv'
  OBVIOUS
<1>1. prog' = prog
  BY DEF ProgramsNext, StepWords, OfFiglet, StepZip, StepDb, StepList, allVars
<1>2. prog = "words" => [Next]_vars
  BY DEF ProgramsNext, StepWords, OfFiglet, StepZip, StepDb, StepList, allVars, wordVars, vars
<1>3. prog = "figlet" => [F!Next]_(F!vars)
  BY DEF ProgramsNext, StepWords, OfFiglet, StepZip, StepDb, StepList, allVars, figletVars,
         F!vars, F!inputs, F!server
<1>4. prog = "zip" => [Z!Next]_(Z!vars)
  BY DEF ProgramsNext, StepWords, OfFiglet, StepZip, StepDb, StepList, allVars, zipVars, Z!vars,
         Z!zip
<1>5. prog = "db" => [D!Next]_(D!vars)
  BY DEF ProgramsNext, StepWords, OfFiglet, StepZip, StepDb, StepList, allVars, dbVars, D!vars
<1>6. prog = "list" => [L!Next]_(L!vars)
  BY DEF ProgramsNext, StepWords, OfFiglet, StepZip, StepDb, StepList, allVars, listVars, L!vars,
         L!memory, L!lists, L!output
<1>7. prog = "words" => WInv'
  BY <1>2, WInvStep DEF PInv
<1>8. prog = "figlet" => FInv'
  BY <1>3, FInvStep DEF PInv
<1>9. prog = "zip" => ZInv' /\ GInv'
  BY <1>4, ZInvStep, GInvStep DEF PInv
<1>10. prog = "db" => DInv'
  BY <1>5, DInvStep DEF PInv
<1>11. prog = "list" => LInv'
  BY <1>6, LInvStep DEF PInv
<1> QED BY <1>1, <1>7, <1>8, <1>9, <1>10, <1>11 DEF PInv

\* It always holds.
LEMMA PInvAlways == ProgramsSpec => []PInv
<1>1. ProgramsInit => PInv
  BY PInvInit
<1>2. PInv /\ [ProgramsNext]_allVars => PInv'
  BY PInvStep
<1> QED BY <1>1, <1>2, PTL DEF ProgramsSpec

(***************************************************************************)
(* The variables of the program that runs have their types, and so no      *)
(* number of them leaves its range: the buckets and sizes of wordFreq, the *)
(* offsets of zipjpeg, the counts of dbstat, the addresses of the lists,   *)
(* and the texts and positions of figlet.                                  *)
(***************************************************************************)
THEOREM ProgramsTyped == ProgramsSpec => []ProgramsTypeOK
<1>1. PInv => ProgramsTypeOK
  BY WInvWords, FInvAnswer, LInvLists DEF PInv, ProgramsTypeOK, ZInv, DInv
<1> QED BY <1>1, PInvAlways, PTL

(***************************************************************************)
(* wordFreq counts and reports every word, in whatever buckets the hashes  *)
(* put them and however often the map is rehashed.                         *)
(***************************************************************************)
THEOREM WordsAreReported == ProgramsSpec => []WordsReported
<1>1. PInv => WordsReported
  BY WInvWords DEF PInv, WordsReported
<1> QED BY <1>1, PInvAlways, PTL

(***************************************************************************)
(* The entries of wordFreq, the handles of dbstat and the elements of the  *)
(* C list are given back once, whichever call fails.                       *)
(***************************************************************************)
THEOREM AllIsGivenBack == ProgramsSpec => []GivesBack
<1>1. PInv => GivesBack
  BY WInvWords, HInvGivesBack, LInvLists DEF PInv, GivesBack, DInv
<1> QED BY <1>1, PInvAlways, PTL

(***************************************************************************)
(* figlet sends the arguments, as much of them as has room, and prints the *)
(* answer, however the bytes of the server are cut into pieces.            *)
(***************************************************************************)
THEOREM FigletAnswers == ProgramsSpec => []FigletAnswer
<1>1. PInv => FigletAnswer
  BY FInvAnswer DEF PInv, FigletAnswer
<1> QED BY <1>1, PInvAlways, PTL

(***************************************************************************)
(* zipjpeg finds an intact archive behind any prefix and before any        *)
(* comment, and lists its members, all and in their order.                 *)
(***************************************************************************)
THEOREM IntactIsFound == ProgramsSpec => []ZipIntactListed
<1>1. PInv => ZipIntactListed
  BY GInvListed DEF PInv, ZipIntactListed
<1> QED BY <1>1, PInvAlways, PTL

(***************************************************************************)
(* zipjpeg never reads beyond the file and fails no assert, whatever       *)
(* lengths and offsets the headers of the file claim.                      *)
(***************************************************************************)
THEOREM ZipReadsInside == ProgramsSpec => []ZipStaysInFile
<1>1. PInv => ZipStaysInFile
  BY DEF PInv, ZipStaysInFile, ZInv, Z!StaysInFile
<1> QED BY <1>1, PInvAlways, PTL

(***************************************************************************)
(* What dbstat prints is the count, the sums and the extremes of the       *)
(* numbers of the column, of any length and in any order.                  *)
(***************************************************************************)
THEOREM StatisticsAreRight == ProgramsSpec => []DbStatsRight
<1>1. PInv => DbStatsRight
  BY DInvStats DEF PInv, DbStatsRight
<1> QED BY <1>1, PInvAlways, PTL

(***************************************************************************)
(* The list programs print the data and the odd ones of them, in the order *)
(* of the lists, and read no element that was freed.                       *)
(***************************************************************************)
THEOREM ListsAreRight == ProgramsSpec => []ListRight
<1>1. PInv => ListRight
  BY LInvLists DEF PInv, ListRight
<1> QED BY <1>1, PInvAlways, PTL
====
