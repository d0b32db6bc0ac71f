------------------------------- MODULE WordCount -------------------------------
(***************************************************************************)
(* wordFreq, 08_search_sort_homework/hashmap_open.c: a hash map with open  *)
(* addressing and linear probing, which grows and moves its entries when   *)
(* it has more than limit of them, and the program that counts the words   *)
(* of a file in it and prints them by frequency.                           *)
(*                                                                         *)
(* A map is the record the code keeps, its data a function from buckets to *)
(* entries.  The hash codes of the words are chosen at the start.  The     *)
(* file is what the actions read: the beginning and the end of words.      *)
(* Every allocation may fail; perror_if then frees the map and ends the    *)
(* program.  Memory is followed by the number of entries that are          *)
(* allocated, each with its key and its value.                             *)
(***************************************************************************)
EXTENDS Integers, Sequences, FiniteSets, FiniteSetsExt, SequencesExt, Functions

CONSTANTS Word,          \* the words of the file
          NoWord,
          Hash,          \* hash functions to choose from
          INITIAL_SIZE,  \* 100 in the code
          MULTIPLIER,
          MaxRead        \* bound: words read

ASSUME WordAssumption ==
    /\ NoWord \notin Word /\ Hash \subseteq [Word -> Nat]
    /\ INITIAL_SIZE \in Nat \ 0..2 /\ MULTIPLIER \in Nat \ {0, 1} /\ MaxRead \in Nat

VARIABLES
    hash,      \* the hash function
    map,       \* the map: data, size, limit
    word,      \* the word being read, NoWord outside of one
    phase,     \* "read", "count", "print" after the end of the file, "exit",
               \* or "crash" after an access through NULL
    heap,      \* the entries that are allocated
    nread,     \* words begun
    freq       \* history: how often each word ended

vars == <<hash, map, word, phase, heap, nread, freq>>

Entry == [key : Word, value : Nat \ {0}]
Null  == [key |-> NoWord, value |-> 0]

ArrSize(m) == Cardinality(DOMAIN m.data)
Used(m)    == {i \in DOMAIN m.data : m.data[i] # Null}

\* createHashmap with loadFactor 0.5.
CreateHashmap(n) == [data |-> [i \in 0..n - 1 |-> Null], size |-> 0, limit |-> n \div 2]

Init ==
    /\ hash \in Hash /\ map = CreateHashmap(INITIAL_SIZE)
    /\ word = NoWord /\ phase = "read" /\ heap = 0 /\ nread = 0
    /\ freq = [w \in Word |-> 0]

-----------------------------------------------------------------------------
\* The buckets in the order they are probed for key k.
Probe(m, k) == [d \in 0..ArrSize(m) - 1 |-> (hash[k] + d) % ArrSize(m)]

\* The first of them whose number of steps is in D.
FirstOf(m, k, D) == Probe(m, k)[Min(D)]

\* raw_put when the map has room: the first free bucket takes the entry.
Place(m, e) ==
    LET free == {d \in 0..ArrSize(m) - 1 : m.data[Probe(m, e.key)[d]] = Null} IN
    [m EXCEPT !.data[FirstOf(m, e.key, free)] = e, !.size = @ + 1]

\* Mutant: the buckets are copied as they are.
RehashInPlace(m) ==
    LET n == ArrSize(m) * MULTIPLIER IN
    [data |-> [i \in 0..n - 1 |-> IF i < ArrSize(m) THEN m.data[i] ELSE Null],
     size |-> m.size, limit |-> n \div 2]
\* rehashUp: a larger map, with the entries placed anew in the order of their
\* buckets.
RehashUp(m) ==
    LET moved[i \in 0..ArrSize(m)] ==
            IF i = 0 THEN CreateHashmap(ArrSize(m) * MULTIPLIER)
            ELSE IF m.data[i - 1] = Null THEN moved[i - 1] ELSE Place(moved[i - 1], m.data[i - 1])
    IN  moved[ArrSize(m)]

\* The map need not grow.
HasRoom(m) == m.size <= m.limit

Put(m, k, v) ==
    LET e == [key |-> k, value |-> v] IN
    IF HasRoom(m) THEN Place(m, e) ELSE Place(RehashUp(m), e)

\* The steps at which a probe for k finds it.
Found(m, k) == {d \in 0..ArrSize(m) - 1 : m.data[Probe(m, k)[d]].key = k}

\* get: 0 for NULL, which it returns at once if the first bucket is free.
Get(m, k) ==
    IF m.data[Probe(m, k)[0]] = Null \/ Found(m, k) = {} THEN 0
    ELSE m.data[FirstOf(m, k, Found(m, k))].value

\* xremove.
XRemove(m, k) ==
    IF Found(m, k) = {} THEN m
    ELSE [m EXCEPT !.data[FirstOf(m, k, Found(m, k))] = Null, !.size = @ - 1]

\* What countWords makes of the map at the end of word k.
Counted(m, k) ==
    IF Get(m, k) # 0 THEN Put(XRemove(m, k), k, Get(m, k) + 1) ELSE Put(m, k, 1)

-----------------------------------------------------------------------------
\* The entries destroyHashmap frees.
Entries(m) == Cardinality(Used(m))

\* destroyHashmap, and the end of the program: with live entries allocated
\* before, of which m holds some.
Exit(m, live) == phase' = "exit" /\ heap' = live - Entries(m)

\* fopen, the buffer that is doubled when it is full, fread; or perror_if.
ReadFile ==
    /\ phase = "read"
    /\ \/ phase' = "count" /\ UNCHANGED heap
       \/ Exit(map, heap)
    /\ UNCHANGED <<hash, map, word, nread, freq>>

BeginWord(w) ==
    /\ phase = "count" /\ word = NoWord /\ nread < MaxRead
    /\ word' = w /\ nread' = nread + 1
    /\ UNCHANGED <<hash, map, phase, heap, freq>>

\* Mutant: the entry that is removed is not freed.
NotReleased(k) == heap
\* The entries that stay when the old one of k has been freed.
Released(k) == IF Get(map, k) # 0 THEN heap - 1 ELSE heap

\* A delimiter after a word.
EndWord ==
    /\ phase = "count" /\ word # NoWord
    /\ map' = Counted(map, word) /\ word' = NoWord
    /\ heap' = Released(word) + 1
    /\ freq' = [freq EXCEPT ![word] = @ + 1]
    /\ UNCHANGED <<hash, phase, nread>>

\* There is no memory for the key or its value, or, when the old entry has
\* been removed, for the new one.
NoEntry ==
    /\ phase = "count" /\ word # NoWord
    /\ \/ Exit(map, heap)
       \/ Get(map, word) # 0 /\ Exit(XRemove(map, word), Released(word))
    /\ UNCHANGED <<hash, map, word, nread, freq>>

\* ... or for the first map, a larger one, or its buckets: perror_if is given a
\* map that is NULL or has none.
NoMap ==
    /\ \/ phase = "read"
       \/ phase = "count" /\ word # NoWord /\ Get(map, word) = 0 /\ ~HasRoom(map)
    /\ phase' = "crash"
    /\ UNCHANGED <<hash, map, word, heap, nread, freq>>

\* The file ends, inside of a word or not.
EndOfFile ==
    /\ phase = "count" /\ phase' = "print"
    /\ UNCHANGED <<hash, map, word, heap, nread, freq>>

\* The report is printed, or there is no memory for it.
Finish ==
    /\ phase = "print" /\ Exit(map, heap)
    /\ UNCHANGED <<hash, map, word, nread, freq>>

Next ==
    \/ ReadFile \/ EndWord \/ NoEntry \/ NoMap \/ EndOfFile \/ Finish
    \/ \E w \in Word : BeginWord(w)

Spec == Init /\ [][Next]_vars

-----------------------------------------------------------------------------
\* Which of two entries is to be printed first, where e comes after best.
Better(e, best, printed) ==
    IF e # Null /\ e.value >= best.value /\ (\A k \in DOMAIN printed : printed[k].key # e.key)
    THEN e ELSE best

\* One round of printDescending: the last of the most frequent entries that
\* were not printed yet.
NextPrinted(m, printed) ==
    LET best[j \in 0..ArrSize(m)] ==
            IF j = 0 THEN Null ELSE Better(m.data[j - 1], best[j - 1], printed)
    IN  best[ArrSize(m)]

\* printDescending: size rounds.
Printed(m) ==
    LET list[i \in 0..m.size] ==
            IF i = 0 THEN <<>>
            ELSE LET printed == list[i - 1] IN Append(printed, NextPrinted(m, printed))
    IN  list[m.size]

-----------------------------------------------------------------------------
TypeOK ==
    /\ hash \in Hash
    /\ ArrSize(map) >= INITIAL_SIZE /\ map.limit = ArrSize(map) \div 2
    /\ map.data \in [0..ArrSize(map) - 1 -> Entry \cup {Null}]
    /\ map.size \in 0..map.limit + 1
    /\ word \in Word \cup {NoWord} /\ heap \in Nat
    /\ phase \in {"read", "count", "print", "exit", "crash"}
    /\ nread \in 0..MaxRead /\ freq \in [Word -> Nat]

(***************************************************************************)
(* The map is the frequency table: each word that ended has one entry, its *)
(* value is how often it ended, get finds it, and size is the number of    *)
(* entries; whatever the collisions, the removals and the rehashings were. *)
(***************************************************************************)
MapIsFrequency ==
    /\ \A w \in Word :
          /\ Cardinality({i \in Used(map) : map.data[i].key = w}) = IF freq[w] > 0 THEN 1 ELSE 0
          /\ Get(map, w) = freq[w]
    /\ map.size = Cardinality(Used(map))

(***************************************************************************)
(* No free bucket lies between the first bucket probed for a key and the   *)
(* bucket that holds it: the removals of countWords leave no holes, on     *)
(* which get would give up.                                                *)
(***************************************************************************)
NoHoles ==
    \A i \in Used(map) : LET k == map.data[i].key IN
        \A d \in 0..ArrSize(map) - 1 :
            d < Min(Found(map, k)) => map.data[Probe(map, k)[d]] # Null

\* Every probe ends: a bucket is free.
FreeBucket == \E i \in DOMAIN map.data : map.data[i] = Null

(***************************************************************************)
(* The report names every counted word once, the more frequent ones first. *)
(***************************************************************************)
PrintedDescending ==
    phase = "print" =>
      LET p == Printed(map) IN
      /\ IsInjective(p) /\ Range(p) = {map.data[i] : i \in Used(map)}
      /\ \A i \in 1..Len(p) - 1 : p[i].value >= p[i + 1].value

(***************************************************************************)
(* Entries are neither lost nor freed twice, however they were moved       *)
(* between maps and replaced, and wherever an allocation failed: those     *)
(* allocated are those in the map, and none when the program has ended by  *)
(* itself.                                                                 *)
(***************************************************************************)
EntriesOwned ==
    /\ phase \in {"count", "print"} => heap = Cardinality(Used(map))
    /\ phase = "exit" => heap = 0

(***************************************************************************)
(* countWords counts the frequency of the words of the file                *)
(* (hashmap_open.c:357): every word, also the last.                        *)
(***************************************************************************)
EveryWordCounted ==
    phase = "print" =>
      nread = MapThenSumSet(LAMBDA w : Get(map, w), Word)
==============================================================================
