---------------------------- MODULE LogReader_proof ----------------------------
(***************************************************************************)
(* Proofs about LogReader for every set of workers, URLs and referers, and *)
(* every directory: each file is taken once, no update of a worker is      *)
(* lost, and what is printed is the ranking of the lines that were parsed. *)
(***************************************************************************)
EXTENDS LogReader, DataLemmas, SequenceTheorems

-----------------------------------------------------------------------------
USE WorkerAssumption

(***************************************************************************)
(* The inductive strengthening of TypeOK and QueueExact: a worker that is  *)
(* at a file has taken it and nobody else has, the line it is at is a line *)
(* of that file, counted if and only if it has got past the parser, and    *)
(* nothing of a file is counted before it is read.                         *)
(***************************************************************************)
Place   == {"none", "queue", "wait", "open", "line", "total", "total2",
            "url", "url2", "ref", "ref2", "done"}
AtLine  == {"total", "total2", "url", "url2", "ref", "ref2"}
Reading == AtLine \cup {"line"}

LineOf(c) == Text(c[1])[c[2]]
Lines     == {c \in (0..Count - 1) \X (Nat \ {0}) : c[2] <= Len(Text(c[1])) /\ LineOf(c).url # NoUrl}
Here(w)   == <<idx[w], pos[w]>>

HistInv ==
    /\ taken \in [0..Count - 1 -> SUBSET Worker]
    /\ counted \in SUBSET Lines /\ IsFiniteSet(counted)
    /\ \A c \in counted : c[1] < next

FileInv(w) ==
    /\ pc[w] \in Reading \cup {"open"} => idx[w] \in 0..next - 1 /\ w \in taken[idx[w]]
    /\ pc[w] = "open" => \A c \in counted : c[1] # idx[w]
    /\ pc[w] = "line" => \A c \in counted : c[1] = idx[w] => c[2] < pos[w]
    /\ pc[w] \in AtLine => Here(w) \in counted /\ \A c \in counted : c[1] = idx[w] => c[2] <= pos[w]
    /\ pc[w] \in {"total", "total2", "url", "url2"} => Current(w).bytes > 0

\* Nobody is done while there are files, and main joins all of the workers.
EndInv(w) ==
    /\ pc[w] = "done" => finished /\ next = Count
    /\ mpc \in {"urls", "refs", "free"} => pc[w] = "done"

QInv == TypeOK /\ QueueExact /\ HistInv /\ \A w \in Worker : FileInv(w) /\ EndInv(w)

-----------------------------------------------------------------------------
\* Files hold lines.
LEMMA TextType ==
    ASSUME files \in Log, NEW f \in 0..Count - 1
    PROVE  Text(f) \in Seq(Line)
<1>1. files \in Seq(Seq(Line)) /\ f + 1 \in 1..Len(files)
  BY LogAssumption DEF Count
<1> QED BY <1>1 DEF Text

\* What a line that can be read is made of.
LEMMA LinesType ==
    ASSUME files \in Log, NEW c \in Lines
    PROVE  /\ LineOf(c).url \in Url /\ LineOf(c).bytes \in Nat /\ LineOf(c).ref \in Ref
           /\ c[1] \in 0..Count - 1 /\ c[2] \in 1..Len(Text(c[1])) /\ c = <<c[1], c[2]>>
<1>1. /\ c[1] \in 0..Count - 1 /\ c[2] \in Nat \ {0} /\ c = <<c[1], c[2]>>
      /\ c[2] <= Len(Text(c[1])) /\ LineOf(c).url # NoUrl
  BY DEF Lines
<1>2. Text(c[1]) \in Seq(Line) /\ c[2] \in 1..Len(Text(c[1]))
  BY <1>1, TextType
<1>3. LineOf(c) \in Line
  BY <1>2 DEF LineOf
<1> QED BY <1>1, <1>2, <1>3 DEF Line

\* The line a worker is at.
LEMMA CurrentType ==
    ASSUME QInv, NEW w \in Worker, pc[w] \in AtLine
    PROVE  /\ Current(w).url \in Url /\ Current(w).bytes \in Nat /\ Current(w).ref \in Ref
           /\ Here(w) \in counted /\ Here(w) \in Lines /\ LineOf(Here(w)) = Current(w)
<1>1. Here(w) \in counted /\ Here(w) \in Lines /\ files \in Log
  BY DEF QInv, FileInv, HistInv, TypeOK
<1>2. Here(w)[1] = idx[w] /\ Here(w)[2] = pos[w] /\ LineOf(Here(w)) = Current(w)
  BY DEF Here, LineOf, Current
<1> QED BY <1>1, <1>2, LinesType

\* What the proofs below use of the types.
LEMMA Typed ==
    ASSUME QInv
    PROVE  /\ files \in Log /\ Count \in Nat /\ next \in 0..Count /\ finished \in BOOLEAN
           /\ pc \in [Worker -> Place] /\ idx \in [Worker -> Nat] /\ pos \in [Worker -> Nat \ {0}]
           /\ seen \in [Worker -> Nat] /\ owner \in [{"total", "url", "ref"} -> Worker \cup {Nobody}]
           /\ taken \in [0..Count - 1 -> SUBSET Worker] /\ DOMAIN taken = 0..Count - 1
<1>1. TypeOK /\ HistInv
  BY DEF QInv
<1>2. files \in Log /\ files \in Seq(Seq(Line))
  BY <1>1, LogAssumption DEF TypeOK
<1>3. Count \in Nat
  BY <1>2 DEF Count
<1>4. taken \in [0..Count - 1 -> SUBSET Worker]
  BY <1>1 DEF HistInv
<1> QED BY <1>1, <1>2, <1>3, <1>4 DEF TypeOK, Place

\* Two workers are at different files.
LEMMA FilesApart ==
    ASSUME QInv, NEW v \in Worker, NEW w \in Worker, v # w,
           pc[v] \in Reading \cup {"open"}, pc[w] \in Reading \cup {"open"}
    PROVE  idx[v] # idx[w]
<1>1. /\ idx[v] \in 0..next - 1 /\ v \in taken[idx[v]]
      /\ idx[w] \in 0..next - 1 /\ w \in taken[idx[w]]
  BY DEF QInv, FileInv
<1>2. idx[v] \in DOMAIN taken
  BY <1>1, Typed
<1> QED BY <1>1, <1>2 DEF QInv, QueueExact

-----------------------------------------------------------------------------
\* It holds at the start.
LEMMA QInit == Init => QInv
<1> SUFFICES ASSUME Init PROVE QInv
  OBVIOUS
<1>1. files \in Log /\ files \in Seq(Seq(Line))
  BY LogAssumption DEF Init
<1>2. Count \in Nat
  BY <1>1 DEF Count
<1>3. TypeOK
  <2>1. urls \in [Url -> Seq(Nat)] /\ refs \in [Ref -> Seq(Nat)]
    BY DEF Init
  <2>2. /\ next \in 0..Count /\ finished \in BOOLEAN /\ total_bytes \in Nat
        /\ owner \in [{"total", "url", "ref"} -> Worker \cup {Nobody}] /\ mpc = "create"
        /\ pc \in [Worker -> {"none"}] /\ idx \in [Worker -> Nat]
        /\ pos \in [Worker -> Nat \ {0}] /\ seen \in [Worker -> Nat]
    <3>1. next \in 0..Count /\ total_bytes \in Nat /\ mpc = "create"
      BY <1>2 DEF Init
    <3>4. finished \in BOOLEAN
      BY Zenon DEF Init
    <3>2. owner \in [{"total", "url", "ref"} -> Worker \cup {Nobody}] /\ pc \in [Worker -> {"none"}]
      BY DEF Init
    <3>3. idx \in [Worker -> Nat] /\ pos \in [Worker -> Nat \ {0}] /\ seen \in [Worker -> Nat]
      BY DEF Init
    <3> QED BY <3>1, <3>2, <3>3, <3>4
  <2> QED BY <1>1, <2>1, <2>2 DEF TypeOK
<1>4. HistInv /\ QueueExact
  BY <1>1, <1>2, FS_EmptySet DEF Init, HistInv, QueueExact
<1>5. \A w \in Worker : FileInv(w) /\ EndInv(w)
  BY DEF Init, FileInv, EndInv, Reading, AtLine
<1> QED BY <1>3, <1>4, <1>5 DEF QInv

\* What a worker adds to a map keeps it a map of sequences of numbers.
LEMMA AddedType ==
    ASSUME NEW e \in Seq(Nat), NEW found \in Nat, NEW n \in Nat
    PROVE  Added(e, found, n) \in Seq(Nat)
<1>1. [e EXCEPT ![1] = @ + n] \in Seq(Nat)
  <2> DEFINE f == [e EXCEPT ![1] = @ + n]
  <2>1. DOMAIN f = 1..Len(e) /\ Len(e) \in Nat
    OBVIOUS
  <2>2. \A i \in 1..Len(e) : f[i] = IF i = 1 THEN e[1] + n ELSE e[i]
    OBVIOUS
  <2>3. \A i \in 1..Len(e) : f[i] \in Nat
    BY <2>2
  <2>4. f = [i \in 1..Len(e) |-> f[i]]
    BY <2>1
  <2> HIDE DEF f
  <2>5. f \in Seq(Nat)
    BY ONLY <2>1, <2>3, <2>4
  <2> QED BY <2>5 DEF f
<1>2. <<n>> \o e \in Seq(Nat)
  OBVIOUS
<1> QED BY <1>1, <1>2 DEF Added

\* Every step keeps the types.
LEMMA TypeStep == QInv /\ [Next]_vars => TypeOK'
<1> SUFFICES ASSUME QInv, [Next]_vars PROVE TypeOK'
  OBVIOUS
<1>a. /\ files \in Log /\ next \in 0..Count /\ finished \in BOOLEAN
      /\ total_bytes \in Nat
      /\ urls \in [Url -> Seq(Nat)] /\ refs \in [Ref -> Seq(Nat)]
      /\ owner \in [{"total", "url", "ref"} -> Worker \cup {Nobody}]
      /\ mpc \in {"create", "join", "urls", "refs", "free", "exit"}
      /\ pc \in [Worker -> Place]
      /\ idx \in [Worker -> Nat] /\ pos \in [Worker -> Nat \ {0}] /\ seen \in [Worker -> Nat]
      /\ Count \in Nat
  BY Typed DEF QInv, TypeOK, Place
<1>b. ASSUME files' \in Log, next' \in 0..Count', finished' \in BOOLEAN,
             total_bytes' \in Nat,
             urls' \in [Url -> Seq(Nat)], refs' \in [Ref -> Seq(Nat)],
             owner' \in [{"total", "url", "ref"} -> Worker \cup {Nobody}],
             mpc' \in {"create", "join", "urls", "refs", "free", "exit"},
             pc' \in [Worker -> Place],
             idx' \in [Worker -> Nat], pos' \in [Worker -> Nat \ {0}], seen' \in [Worker -> Nat]
      PROVE  TypeOK'
  BY <1>b DEF TypeOK, Place
<1>c. \A w \in Worker : pc[w] \in Place /\ pos[w] + 1 \in Nat \ {0}
  BY <1>a
<1>1. CASE UNCHANGED vars
  BY <1>1, <1>a, <1>b DEF vars, queue, data, worker, hist, Count
<1>2. CASE Main
  <2>1. ASSUME NEW w \in Worker, Create(w) PROVE TypeOK'
    BY <2>1, <1>a, <1>b DEF Create, queue, data, hist, Count, Place
  <2>2. CASE AllCreated
    <3>1. Woken(pc) \in [Worker -> Place]
      BY <1>a DEF Woken, Place
    <3> QED BY <2>2, <3>1, <1>a, <1>b DEF AllCreated, data, hist, Count
  <2>3. CASE JoinAll \/ PrintUrls \/ PrintRefs
    BY <2>3, <1>a, <1>b DEF JoinAll, PrintUrls, PrintRefs, queue, data, worker, hist, Count
  <2>4. CASE FreeMaps
    <3>1. urls' \in [Url -> Seq(Nat)] /\ refs' \in [Ref -> Seq(Nat)]
      BY <2>4, <1>a DEF FreeMaps, Freed
    <3> QED BY <2>4, <3>1, <1>a, <1>b DEF FreeMaps, queue, data, worker, hist, Count
  <2> QED BY <1>2, <2>1, <2>2, <2>3, <2>4 DEF Main
<1>3. ASSUME NEW w \in Worker, WaitForFile(w) \/ SpuriousWakeup(w) \/ NoMoreFiles(w) PROVE TypeOK'
  BY <1>3, <1>a, <1>b DEF WaitForFile, SpuriousWakeup, NoMoreFiles, Goto, queue, data, hist, Count, Place
<1>4. ASSUME NEW w \in Worker, TakeFile(w) PROVE TypeOK'
  <2>1. next + 1 \in 0..Count /\ next \in Nat
    BY <1>4, <1>a DEF TakeFile, HasFile
  <2>2. pc' \in [Worker -> Place]
    BY <1>4, <1>a DEF TakeFile, Woken, Place
  <2> QED BY <1>4, <2>1, <2>2, <1>a, <1>b DEF TakeFile, data, Count
<1>5. ASSUME NEW w \in Worker, OpenFile(w) PROVE TypeOK'
  <2>1. pc' \in [Worker -> Place]
    BY <1>5, <1>a DEF OpenFile, Goto, Place
  <2> QED BY <1>5, <2>1, <1>a, <1>b DEF OpenFile, queue, data, hist, Count
<1>6. ASSUME NEW w \in Worker, ReadLine(w) PROVE TypeOK'
  <2>1. pc' \in [Worker -> Place] /\ pos' \in [Worker -> Nat \ {0}]
    <3>1. pos' = pos \/ pos' = [pos EXCEPT ![w] = @ + 1]
      BY <1>6 DEF ReadLine
    <3>2. \/ pc' = pc
          \/ \E to \in {"queue", "total", "ref"} : pc' = [pc EXCEPT ![w] = to]
      BY <1>6, Zenon DEF ReadLine
    <3>3. pos' \in [Worker -> Nat \ {0}]
      BY <1>a, <1>c, <3>1
    <3>4. pc' \in [Worker -> Place]
      BY <1>a, <3>2 DEF Place
    <3> QED BY <3>3, <3>4
  <2> QED BY <1>6, <2>1, <1>a, <1>b DEF ReadLine, queue, data, Count
<1>7. ASSUME NEW w \in Worker, ReadTotal(w) PROVE TypeOK'
  BY <1>7, <1>a, <1>b DEF ReadTotal, Goto, Enter, queue, hist, Count, Place
<1>8. ASSUME NEW w \in Worker, WriteTotal(w) PROVE TypeOK'
  <2>1. seen[w] + Current(w).bytes \in Nat
    <3>1. pc[w] = "total2" /\ pc[w] \in AtLine
      BY <1>8 DEF WriteTotal, Goto, AtLine
    <3>2. Current(w).bytes \in Nat
      BY <3>1, CurrentType
    <3>3. seen[w] \in Nat
      BY <1>a
    <3> QED BY <3>2, <3>3
  <2> QED BY <1>8, <2>1, <1>a, <1>b DEF WriteTotal, Goto, Leave, queue, hist, Count, Place
<1>9. ASSUME NEW w \in Worker, FindUrl(w) PROVE TypeOK'
  <2>1. Len(urls[Current(w).url]) \in Nat
    BY <1>9, <1>a, CurrentType DEF FindUrl, Goto, AtLine
  <2> QED BY <1>9, <2>1, <1>a, <1>b DEF FindUrl, Goto, Enter, queue, hist, Count, Place
<1>10. ASSUME NEW w \in Worker, FindRef(w) PROVE TypeOK'
  <2>1. Len(refs[Current(w).ref]) \in Nat
    BY <1>10, <1>a, CurrentType DEF FindRef, Goto, AtLine
  <2> QED BY <1>10, <2>1, <1>a, <1>b DEF FindRef, Goto, Enter, queue, hist, Count, Place
<1>11. ASSUME NEW w \in Worker, UrlMapAdd(w) PROVE TypeOK'
  <2>1. Current(w).url \in Url /\ Current(w).bytes \in Nat /\ seen[w] \in Nat
    BY <1>11, <1>a, CurrentType DEF UrlMapAdd, Goto, AtLine
  <2>2. Added(urls[Current(w).url], seen[w], Current(w).bytes) \in Seq(Nat)
    BY <2>1, <1>a, AddedType
  <2>3. urls' \in [Url -> Seq(Nat)]
    BY <1>11, <2>1, <2>2, <1>a DEF UrlMapAdd
  <2> QED BY <1>11, <2>3, <1>a, <1>b DEF UrlMapAdd, Goto, Leave, queue, hist, Count, Place
<1>12. ASSUME NEW w \in Worker, RefMapInc(w) PROVE TypeOK'
  <2>1. Current(w).ref \in Ref /\ seen[w] \in Nat /\ 1 \in Nat
    BY <1>12, <1>a, CurrentType DEF RefMapInc, Goto, AtLine
  <2>2. Added(refs[Current(w).ref], seen[w], 1) \in Seq(Nat)
    BY <2>1, <1>a, AddedType
  <2>3. refs' \in [Ref -> Seq(Nat)] /\ pos' \in [Worker -> Nat \ {0}]
    BY <1>12, <2>1, <2>2, <1>a, <1>c DEF RefMapInc
  <2> QED BY <1>12, <2>3, <1>a, <1>b DEF RefMapInc, Goto, Leave, queue, hist, Count, Place
<1>13. ASSUME NEW w \in Worker, NoMemory(w) PROVE TypeOK'
  BY <1>13, <1>a, <1>b DEF NoMemory, Leave, queue, worker, hist, Count
<1> QED BY <1>1, <1>2, <1>3, <1>4, <1>5, <1>6, <1>7, <1>8, <1>9, <1>10, <1>11, <1>12, <1>13
        DEF Next, Step

\* The queue and what was parsed keep their relation.
LEMMA HistStep == QInv /\ [Next]_vars => HistInv' /\ QueueExact'
<1> SUFFICES ASSUME QInv, [Next]_vars PROVE HistInv' /\ QueueExact'
  OBVIOUS
<1>a. /\ next \in 0..Count /\ Count \in Nat /\ taken \in [0..Count - 1 -> SUBSET Worker]
      /\ HistInv /\ QueueExact /\ files \in Log /\ DOMAIN taken = 0..Count - 1
  BY Typed DEF QInv
<1>b. UNCHANGED files => Count' = Count /\ Lines' = Lines
  <2> SUFFICES ASSUME UNCHANGED files PROVE Count' = Count /\ Lines' = Lines
    OBVIOUS
  <2> QED BY DEF Count, Lines, LineOf, Text
<1>1. CASE UNCHANGED <<queue, taken, counted>>
           /\ (mpc' = mpc \/ mpc \notin {"create", "exit"} \/ mpc' = "exit")
  <2>1. HistInv'
    BY <1>1, <1>a, <1>b DEF HistInv, queue
  <2>2. QueueExact'
    BY <1>1, <1>a, <1>b DEF QueueExact, queue
  <2> QED BY <2>1, <2>2
<1>2. CASE AllCreated
  <2>1. HistInv'
    BY <1>2, <1>a, <1>b DEF AllCreated, HistInv, hist
  <2>2. QueueExact'
    <3>1. taken' = taken /\ next' = next /\ Count' = Count
      BY <1>2, <1>b DEF AllCreated, hist
    <3>2. next >= Count /\ ~finished' => FALSE
      BY <1>2, <1>a DEF AllCreated, QueueExact
    <3> QED BY <3>1, <3>2, <1>a DEF QueueExact
  <2> QED BY <2>1, <2>2
<1>3. ASSUME NEW w \in Worker, TakeFile(w) PROVE HistInv' /\ QueueExact'
  <2>1. /\ next \in 0..Count - 1 /\ next' = next + 1 /\ files' = files /\ counted' = counted
        /\ mpc' = mpc /\ taken' = [taken EXCEPT ![next] = @ \cup {w}]
        /\ next = Count - 1 => finished'
    BY <1>3, <1>a DEF TakeFile, HasFile, data
  <2>2. taken[next] = {}
    BY <2>1, <1>a DEF QueueExact
  <2>3. /\ taken' \in [0..Count - 1 -> SUBSET Worker] /\ DOMAIN taken' = 0..Count - 1
        /\ \A f \in 0..Count - 1 : taken'[f] = IF f = next THEN {w} ELSE taken[f]
    BY <2>1, <2>2, <1>a
  <2>4. HistInv'
    <3>1. \A c \in counted : c[1] < next + 1
      BY <2>1, <1>a, LinesType DEF HistInv
    <3> QED BY <2>1, <2>3, <3>1, <1>a, <1>b DEF HistInv
  <2>5. QueueExact'
    <3>1. \A f \in 0..Count - 1 : taken'[f] # {} <=> f < next + 1
      BY <2>1, <2>3, <1>a DEF QueueExact
    <3>2. \A f \in 0..Count - 1 : \A x, y \in taken'[f] : x = y
      BY <2>3, <1>a DEF QueueExact
    <3>3. next + 1 >= Count => finished'
      BY <2>1, <1>a
    <3> QED BY <2>1, <2>3, <3>1, <3>2, <3>3, <1>a, <1>b DEF QueueExact
  <2> QED BY <2>4, <2>5
<1>4. ASSUME NEW w \in Worker, ReadLine(w) PROVE HistInv' /\ QueueExact'
  <2>1. UNCHANGED <<queue, taken, mpc>>
    BY <1>4 DEF ReadLine
  <2>2. QueueExact'
    BY <2>1, <1>a, <1>b DEF QueueExact, queue
  <2>3. CASE UNCHANGED counted
    BY <2>1, <2>3, <1>1
  <2>4. CASE ~ UNCHANGED counted
    <3>1. /\ pc[w] = "line" /\ ~ (pos[w] > Len(Text(idx[w]))) /\ Current(w).url # NoUrl
          /\ counted' = counted \cup {Here(w)}
      BY <1>4, <2>4 DEF ReadLine, Here
    <3>2. idx[w] \in 0..next - 1
      BY <3>1 DEF QInv, FileInv, Reading
    <3>3. idx[w] \in 0..Count - 1 /\ pos[w] \in Nat \ {0}
      BY <3>2, <1>a, Typed
    <3>4. Len(Text(idx[w])) \in Nat
      BY <3>3, <1>a, TextType
    <3>5. Here(w) \in (0..Count - 1) \X (Nat \ {0}) /\ Here(w)[1] = idx[w] /\ Here(w)[2] = pos[w]
      BY <3>3 DEF Here
    <3>6. Here(w) \in Lines
      BY <3>1, <3>3, <3>4, <3>5 DEF Lines, LineOf, Current
    <3>7. IsFiniteSet(counted \cup {Here(w)})
      BY <1>a, FS_AddElement DEF HistInv
    <3>8. \A c \in counted \cup {Here(w)} : c[1] < next
      BY <3>2, <3>5, <1>a DEF HistInv
    <3>9. HistInv'
      BY <2>1, <3>1, <3>6, <3>7, <3>8, <1>a, <1>b DEF HistInv, queue
    <3> QED BY <2>2, <3>9
  <2> QED BY <2>3, <2>4
<1>5. CASE UNCHANGED vars
  BY <1>5, <1>1 DEF vars, hist
<1>6. ASSUME NEW w \in Worker, Create(w) \/ WaitForFile(w) \/ SpuriousWakeup(w) \/ NoMoreFiles(w)
                               \/ OpenFile(w)
      PROVE  HistInv' /\ QueueExact'
  BY <1>6, <1>1 DEF Create, WaitForFile, SpuriousWakeup, NoMoreFiles, OpenFile, hist
<1>7. CASE JoinAll \/ PrintUrls \/ PrintRefs \/ FreeMaps
  BY <1>7, <1>1 DEF JoinAll, PrintUrls, PrintRefs, FreeMaps, hist
<1>8. ASSUME NEW w \in Worker, ReadTotal(w) \/ WriteTotal(w) \/ FindUrl(w) \/ FindRef(w)
                               \/ UrlMapAdd(w) \/ RefMapInc(w) \/ NoMemory(w)
      PROVE  HistInv' /\ QueueExact'
  BY <1>8, <1>1 DEF ReadTotal, WriteTotal, FindUrl, FindRef, UrlMapAdd, RefMapInc, NoMemory, hist
<1> QED BY <1>2, <1>3, <1>4, <1>5, <1>6, <1>7, <1>8 DEF Next, Main, Step

\* What one worker does leaves the others where they are in their files.
LEMMA FileKept ==
    ASSUME QInv, NEW v \in Worker, files' = files, next' \in Nat, next <= next',
           idx'[v] = idx[v], pos'[v] = pos[v],
           pc'[v] = pc[v] \/ pc'[v] \notin Reading \cup {"open"},
           \A f \in 0..next - 1 : taken[f] \subseteq taken'[f],
           counted \subseteq counted',
           pc[v] \in Reading \cup {"open"} => \A c \in counted' \ counted : c[1] # idx[v]
    PROVE  FileInv(v)'
<1>1. FileInv(v)
  BY DEF QInv
<1>2. Current(v)' = Current(v) /\ Here(v)' = Here(v)
  BY DEF Current, Text, Here
<1>3. next \in Nat /\ next' \in Nat /\ next <= next'
  BY Typed
<1>4. CASE pc'[v] \notin Reading \cup {"open"}
  BY <1>4 DEF FileInv, Reading, AtLine
<1>5. CASE pc'[v] = pc[v] /\ pc[v] \in Reading \cup {"open"}
  <2>1. idx[v] \in 0..next - 1 /\ v \in taken[idx[v]]
    BY <1>1, <1>5 DEF FileInv
  <2>2. idx'[v] \in 0..next' - 1 /\ v \in taken'[idx'[v]]
    BY <2>1, <1>3
  <2>3. \A c \in counted' : c[1] = idx[v] => c \in counted
    BY <1>5
  <2>4. /\ pc'[v] = "open" => \A c \in counted' : c[1] # idx'[v]
        /\ pc'[v] = "line" => \A c \in counted' : c[1] = idx'[v] => c[2] < pos'[v]
    BY <1>1, <1>5, <2>3 DEF FileInv
  <2>5. pc'[v] \in AtLine => /\ Here(v)' \in counted'
                             /\ \A c \in counted' : c[1] = idx'[v] => c[2] <= pos'[v]
    BY <1>1, <1>2, <1>5, <2>3 DEF FileInv
  <2>6. pc'[v] \in {"total", "total2", "url", "url2"} => (Current(v).bytes > 0)'
    BY <1>1, <1>2, <1>5 DEF FileInv
  <2> QED BY <2>2, <2>4, <2>5, <2>6 DEF FileInv
<1> QED BY <1>4, <1>5

\* A worker that stays at its line, or leaves its file, keeps to its file.
LEMMA FileStep == QInv /\ [Next]_vars => \A v \in Worker : FileInv(v)'
<1> SUFFICES ASSUME QInv, [Next]_vars, NEW v \in Worker PROVE FileInv(v)'
  OBVIOUS
<1>a. /\ next \in 0..Count /\ Count \in Nat /\ taken \in [0..Count - 1 -> SUBSET Worker]
      /\ pc \in [Worker -> Place] /\ idx \in [Worker -> Nat] /\ pos \in [Worker -> Nat \ {0}]
      /\ DOMAIN taken = 0..Count - 1 /\ FileInv(v) /\ HistInv /\ QueueExact
  BY Typed DEF QInv
<1>b. next \in Nat /\ next <= next /\ 0..next - 1 \subseteq 0..Count - 1
  BY <1>a
<1>1. CASE UNCHANGED <<queue, idx, pos, taken, counted>>
           /\ (pc'[v] = pc[v] \/ pc'[v] \notin Reading \cup {"open"})
  BY <1>1, <1>b, FileKept DEF queue
<1>2. CASE UNCHANGED vars
  BY <1>2, <1>1 DEF vars, worker, hist
<1>3. ASSUME NEW w \in Worker, Create(w) \/ WaitForFile(w) \/ SpuriousWakeup(w) \/ NoMoreFiles(w)
      PROVE  FileInv(v)'
  <2>1. UNCHANGED <<queue, idx, pos, taken, counted>>
    BY <1>3 DEF Create, WaitForFile, SpuriousWakeup, NoMoreFiles, hist
  <2>2. pc'[v] = pc[v] \/ pc'[v] \in {"queue", "wait", "done"}
    BY <1>3, <1>a DEF Create, WaitForFile, SpuriousWakeup, NoMoreFiles, Goto
  <2> QED BY <1>1, <2>1, <2>2 DEF Reading, AtLine
<1>4. CASE AllCreated
  <2>1. files' = files /\ UNCHANGED <<next, idx, pos, taken, counted>>
    BY <1>4 DEF AllCreated, hist
  <2>2. pc'[v] = pc[v] \/ pc'[v] = "queue"
    BY <1>4 DEF AllCreated, Woken
  <2>3. pc'[v] = pc[v] \/ pc'[v] \notin Reading \cup {"open"}
    BY <2>2 DEF Reading, AtLine
  <2> QED BY <2>1, <2>3, <1>b, FileKept
<1>5. CASE JoinAll \/ PrintUrls \/ PrintRefs \/ FreeMaps
  BY <1>5, <1>1 DEF JoinAll, PrintUrls, PrintRefs, FreeMaps, worker, hist
<1>6. ASSUME NEW w \in Worker, TakeFile(w) PROVE FileInv(v)'
  <2>1. /\ next \in 0..Count - 1 /\ next' = next + 1 /\ files' = files /\ UNCHANGED <<pos, counted>>
        /\ idx' = [idx EXCEPT ![w] = next] /\ taken' = [taken EXCEPT ![next] = @ \cup {w}]
    BY <1>6, <1>a DEF TakeFile, HasFile
  <2>2. CASE v = w
    <3>1. pc'[v] = "open" /\ idx'[v] = next /\ v \in taken'[next]
      BY <1>6, <2>1, <2>2, <1>a DEF TakeFile, Woken
    <3>2. \A c \in counted : c[1] # next
      BY <2>1, <1>a, LinesType, Typed DEF HistInv
    <3>3. next \in 0..next' - 1
      BY <2>1
    <3> QED BY <2>1, <3>1, <3>2, <3>3 DEF FileInv, AtLine
  <2>3. CASE v # w
    <3>1. idx'[v] = idx[v] /\ pos'[v] = pos[v] /\ next' \in Nat /\ next <= next'
      BY <2>1, <2>3, <1>a
    <3>2. pc'[v] = pc[v] \/ pc'[v] = "queue"
      BY <1>6, <2>3, <1>a DEF TakeFile, Woken
    <3>3. \A f \in 0..next - 1 : taken[f] \subseteq taken'[f]
      BY <2>1, <1>a, <1>b
    <3>4. pc'[v] = pc[v] \/ pc'[v] \notin Reading \cup {"open"}
      BY <3>2 DEF Reading, AtLine
    <3> QED BY <2>1, <3>1, <3>3, <3>4, FileKept
  <2> QED BY <2>2, <2>3
<1>7. ASSUME NEW w \in Worker, v # w, OpenFile(w) \/ ReadTotal(w) \/ WriteTotal(w) \/ FindUrl(w)
                               \/ FindRef(w) \/ UrlMapAdd(w) \/ RefMapInc(w) \/ NoMemory(w)
      PROVE  FileInv(v)'
  <2>1. UNCHANGED <<queue, taken, counted>>
    BY <1>7 DEF OpenFile, ReadTotal, WriteTotal, FindUrl, FindRef, UrlMapAdd, RefMapInc, NoMemory,
                hist
  <2>2. pc'[v] = pc[v] /\ idx'[v] = idx[v] /\ pos'[v] = pos[v]
    BY <1>7, <1>a DEF OpenFile, ReadTotal, WriteTotal, FindUrl, FindRef, UrlMapAdd, RefMapInc,
                      NoMemory, Goto, worker
  <2> QED BY <2>1, <2>2, <1>b, FileKept DEF queue
<1>8. CASE OpenFile(v)
  <2>1. UNCHANGED <<queue, idx, taken, counted>> /\ pc[v] = "open" /\ pc'[v] \in {"line", "queue"}
    BY <1>8, <1>a DEF OpenFile, Goto, hist
  <2> QED BY <2>1, <1>a DEF queue, FileInv, Reading, AtLine
<1>9. ASSUME NEW w \in Worker, ReadLine(w) PROVE FileInv(v)'
  <2>1. /\ UNCHANGED <<queue, idx, taken>> /\ pc[w] = "line"
        /\ counted' = counted \/ counted' = counted \cup {Here(w)}
    BY <1>9 DEF ReadLine, Here
  <2>2. CASE v # w
    <3>1. pc'[v] = pc[v] /\ pos'[v] = pos[v]
      BY <1>9, <2>2, <1>a DEF ReadLine
    <3>2. pc[v] \in Reading \cup {"open"} => idx[v] # idx[w]
      BY <2>1, <2>2, FilesApart DEF Reading
    <3>3. Here(w)[1] = idx[w]
      BY DEF Here
    <3> QED BY <2>1, <3>1, <3>2, <3>3, <1>b, FileKept DEF queue
  <2>3. CASE v = w
    <3>1. /\ idx[v] \in 0..next - 1 /\ v \in taken[idx[v]]
          /\ \A c \in counted : c[1] = idx[v] => c[2] < pos[v]
      BY <2>1, <2>3, <1>a DEF FileInv, Reading
    <3>2. CASE pc'[v] = "queue"
      BY <3>2 DEF FileInv, Reading, AtLine
    <3>3. CASE /\ Current(v).url # NoUrl
               /\ pc' = [pc EXCEPT ![v] = IF Current(v).bytes > 0 THEN "total" ELSE "ref"]
               /\ counted' = counted \cup {<<idx[v], pos[v]>>} /\ UNCHANGED pos
      <4>1. pc'[v] = IF Current(v).bytes > 0 THEN "total" ELSE "ref"
        BY <3>3, <1>a
      <4>2. Here(v)' = <<idx[v], pos[v]>> /\ Current(v)' = Current(v)
        BY <2>1, <3>3 DEF Here, Current, Text, queue
      <4>3. idx'[v] \in 0..next' - 1 /\ v \in taken'[idx'[v]]
        BY <2>1, <3>1 DEF queue
      <4>4. Here(v)' \in counted'
        BY <3>3, <4>2
      <4>5. \A c \in counted' : c[1] = idx'[v] => c[2] <= pos'[v]
        <5>1. \A c \in counted : c \in Lines /\ c[2] \in Nat
          BY <1>a, LinesType, Typed DEF HistInv
        <5>2. pos[v] \in Nat
          BY <1>a
        <5> QED BY <2>1, <3>1, <3>3, <5>1, <5>2
      <4> QED BY <4>1, <4>2, <4>3, <4>4, <4>5 DEF FileInv, AtLine, Reading
    <3>4. CASE pos' = [pos EXCEPT ![v] = @ + 1] /\ UNCHANGED <<pc, counted>>
      <4>1. pos'[v] = pos[v] + 1 /\ pos[v] \in Nat
        BY <3>4, <1>a
      <4>2. \A c \in counted : c[2] \in Nat
        BY <1>a, LinesType, Typed DEF HistInv
      <4>3. \A c \in counted : c[1] = idx[v] => c[2] < pos'[v]
        BY <3>1, <4>1, <4>2
      <4> QED BY <2>1, <2>3, <3>1, <3>4, <4>3 DEF queue, FileInv, AtLine, Reading
    <3> QED BY <1>9, <2>3, <3>2, <3>3, <3>4, <1>a DEF ReadLine
  <2> QED BY <2>2, <2>3
<1>10. ASSUME ReadTotal(v) \/ WriteTotal(v) \/ FindUrl(v) \/ FindRef(v) \/ UrlMapAdd(v) \/ NoMemory(v)
       PROVE  FileInv(v)'
  <2>1. UNCHANGED <<queue, idx, pos, taken, counted>>
    BY <1>10 DEF ReadTotal, WriteTotal, FindUrl, FindRef, UrlMapAdd, NoMemory, hist, worker
  <2>2. /\ pc[v] \in AtLine /\ pc'[v] \in AtLine
        /\ pc'[v] \in {"total", "total2", "url", "url2"} => pc[v] \in {"total", "total2", "url", "url2"}
    BY <1>10, <1>a DEF ReadTotal, WriteTotal, FindUrl, FindRef, UrlMapAdd, NoMemory, Goto, AtLine, worker
  <2>3. Here(v)' = Here(v) /\ Current(v)' = Current(v)
    BY <2>1 DEF Here, Current, Text, queue
  <2>4. pc'[v] \notin {"open", "line"}
    BY <2>2 DEF AtLine
  <2> QED BY <2>1, <2>2, <2>3, <2>4, <1>a DEF queue, FileInv, Reading
<1>11. CASE RefMapInc(v)
  <2>1. /\ UNCHANGED <<queue, idx, taken, counted>> /\ pc[v] = "ref2" /\ pc'[v] = "line"
        /\ pos'[v] = pos[v] + 1 /\ pos[v] \in Nat
    BY <1>11, <1>a DEF RefMapInc, Goto, hist
  <2>2. \A c \in counted : c[2] \in Nat
    BY <1>a, LinesType, Typed DEF HistInv
  <2>3. \A c \in counted : c[1] = idx[v] => c[2] <= pos[v]
    BY <2>1, <1>a DEF FileInv, AtLine
  <2>4. \A c \in counted : c[1] = idx[v] => c[2] < pos'[v]
    BY <2>1, <2>2, <2>3
  <2> QED BY <2>1, <2>4, <1>a DEF queue, FileInv, AtLine, Reading
<1> QED BY <1>2, <1>3, <1>4, <1>5, <1>6, <1>7, <1>8, <1>9, <1>10, <1>11 DEF Next, Main, Step

\* Nobody is done too early, and nobody works after main joined the workers.
LEMMA EndStep == QInv /\ [Next]_vars => \A v \in Worker : EndInv(v)'
<1> SUFFICES ASSUME QInv, [Next]_vars, NEW v \in Worker PROVE EndInv(v)'
  OBVIOUS
<1>a. /\ next \in 0..Count /\ Count \in Nat /\ pc \in [Worker -> Place] /\ EndInv(v)
      /\ \A w \in Worker : EndInv(w)
  BY Typed DEF QInv
<1>b. UNCHANGED files => Count' = Count
  BY DEF Count
<1>1. CASE UNCHANGED <<queue, mpc>> /\ pc[v] # "done" /\ pc'[v] # "done"
  BY <1>1, <1>a DEF EndInv
<1>2. CASE UNCHANGED <<queue, mpc>> /\ pc'[v] = pc[v]
  BY <1>2, <1>a, <1>b DEF EndInv, queue
<1>3. CASE UNCHANGED vars
  BY <1>3, <1>2 DEF vars, worker
<1>4. ASSUME NEW w \in Worker, Create(w) \/ WaitForFile(w) \/ SpuriousWakeup(w) \/ OpenFile(w)
                               \/ ReadLine(w) \/ ReadTotal(w) \/ WriteTotal(w) \/ FindUrl(w)
                               \/ FindRef(w) \/ UrlMapAdd(w) \/ RefMapInc(w)
      PROVE  EndInv(v)'
  <2>1. UNCHANGED <<queue, mpc>>
    BY <1>4 DEF Create, WaitForFile, SpuriousWakeup, OpenFile, ReadLine, ReadTotal, WriteTotal,
                FindUrl, FindRef, UrlMapAdd, RefMapInc
  <2>2. pc'[v] = pc[v] \/ (pc[v] # "done" /\ pc'[v] # "done")
    BY <1>4, <1>a DEF Create, WaitForFile, SpuriousWakeup, OpenFile, ReadLine, ReadTotal, WriteTotal,
                FindUrl, FindRef, UrlMapAdd, RefMapInc, Goto
  <2> QED BY <2>1, <2>2, <1>1, <1>2
<1>5. ASSUME NEW w \in Worker, NoMoreFiles(w) PROVE EndInv(v)'
  <2>1. UNCHANGED <<queue, mpc>> /\ finished /\ next = Count
    BY <1>5, <1>a DEF NoMoreFiles
  <2>2. pc'[v] = pc[v] \/ pc'[v] = "done"
    BY <1>5, <1>a DEF NoMoreFiles, Goto
  <2> QED BY <2>1, <2>2, <1>a, <1>b DEF EndInv, queue
<1>6. ASSUME NEW w \in Worker, TakeFile(w) PROVE EndInv(v)'
  <2>1. pc[w] # "done" /\ pc[w] = "queue" /\ next # Count /\ mpc' = mpc
    BY <1>6, <1>a DEF TakeFile, HasFile
  <2>2. mpc \notin {"urls", "refs", "free"} /\ pc[v] # "done"
    BY <2>1, <1>a DEF EndInv
  <2>3. pc'[v] # "done"
    BY <1>6, <2>2, <1>a DEF TakeFile, Woken
  <2> QED BY <2>1, <2>2, <2>3 DEF EndInv
<1>7. CASE AllCreated
  <2>1. /\ UNCHANGED <<files, next>> /\ mpc' = "join" /\ (finished => finished')
        /\ (pc'[v] = "done" => pc[v] = "done")
    BY <1>7 DEF AllCreated, Woken
  <2> QED BY <2>1, <1>a, <1>b DEF EndInv
<1>8. CASE JoinAll \/ PrintUrls \/ PrintRefs \/ FreeMaps
  BY <1>8, <1>a, <1>b DEF JoinAll, PrintUrls, PrintRefs, FreeMaps, worker, queue, EndInv
<1>9. ASSUME NEW w \in Worker, NoMemory(w) PROVE EndInv(v)'
  BY <1>9, <1>a, <1>b DEF NoMemory, worker, queue, EndInv
<1> QED BY <1>3, <1>4, <1>5, <1>6, <1>7, <1>8, <1>9 DEF Next, Main, Step

\* Every step keeps the invariant of the queue.
LEMMA QStep == QInv /\ [Next]_vars => QInv'
BY TypeStep, HistStep, FileStep, EndStep DEF QInv

\* In every behaviour of the program.
LEMMA QInvariant == Spec => []QInv
<1> QED BY QInit, QStep, PTL DEF Spec

-----------------------------------------------------------------------------
\* Every variable keeps its type.
THEOREM TypeCorrect == Spec => []TypeOK
<1>1. QInv => TypeOK
  BY DEF QInv
<1> QED BY <1>1, QInvariant, PTL

\* No file is processed by two workers, and the queue ends when its last file
\* is taken, however many workers there are.
THEOREM QueueExactHolds == Spec => []QueueExact
<1>1. QInv => QueueExact
  BY DEF QInv
<1> QED BY <1>1, QInvariant, PTL

-----------------------------------------------------------------------------
(***************************************************************************)
(* The inductive invariant of the sums.  In a critical section the owner   *)
(* of the mutex has seen what is there now, a key has one entry at most,   *)
(* and each sum is that of the parsed lines whose workers are past it,     *)
(* Done(P) being the parsed lines at which no worker is in a place of P.   *)
(***************************************************************************)
Done(P)  == {c \in counted : \A w \in Worker : pc[w] \in P => Here(w) # c}
ToTotal  == {"total", "total2"}
ToUrl    == {"total", "total2", "url", "url2"}
UrlDone(k) == {c \in Done(ToUrl) : LineOf(c).url = k}
RefDone(k) == {c \in Done(AtLine) : LineOf(c).ref = k}

ByteOf   == [c \in Lines |-> Bytes(c)]
Value(e) == IF e = <<>> THEN 0 ELSE e[1]

Section(w) ==
    /\ pc[w] = "total2" <=> owner["total"] = w
    /\ pc[w] = "url2" <=> owner["url"] = w
    /\ pc[w] = "ref2" <=> owner["ref"] = w
    /\ pc[w] = "total2" => seen[w] = total_bytes
    /\ pc[w] = "url2" => seen[w] = Len(urls[Current(w).url])
    /\ pc[w] = "ref2" => seen[w] = Len(refs[Current(w).ref])

OneEntry(e) == Len(e) <= 1 /\ (e # <<>> => e[1] > 0)

Booked ==
    /\ total_bytes = SumOn(ByteOf, Done(ToTotal))
    /\ \A k \in Url : OneEntry(urls[k]) /\ Value(urls[k]) = SumOn(ByteOf, UrlDone(k))
    /\ \A k \in Ref : OneEntry(refs[k]) /\ Value(refs[k]) = Cardinality(RefDone(k))

BInv == QInv /\ (Alive => Booked /\ \A w \in Worker : Section(w))

\* The lines that are done stay so while workers move elsewhere.
LEMMA DoneKept ==
    ASSUME NEW P, counted' = counted,
           \A x \in Worker : /\ pc'[x] \in P <=> pc[x] \in P
                             /\ pc[x] \in P => idx'[x] = idx[x] /\ pos'[x] = pos[x]
    PROVE  Done(P)' = Done(P)
<1>1. \A x \in Worker : pc[x] \in P => Here(x)' = Here(x)
  BY DEF Here
<1>2. \A c : (\A x \in Worker : pc'[x] \in P => Here(x)' # c)
             <=> (\A x \in Worker : pc[x] \in P => Here(x) # c)
  BY <1>1
<1> QED BY <1>2 DEF Done

\* A worker that gets past a sum leaves its line done there.
LEMMA DoneLeft ==
    ASSUME QInv, NEW P \in SUBSET AtLine, counted' = counted, NEW w \in Worker,
           pc[w] \in P, pc'[w] \notin P,
           \A x \in Worker \ {w} : pc'[x] = pc[x] /\ idx'[x] = idx[x] /\ pos'[x] = pos[x]
    PROVE  Here(w) \notin Done(P) /\ Done(P)' = Done(P) \cup {Here(w)}
<1>1. Here(w) \in counted
  BY CurrentType
<1>2. \A x \in Worker \ {w} : Here(x)' = Here(x)
  BY DEF Here
<1>3. \A x \in Worker \ {w} : pc[x] \in P => Here(x) # Here(w)
  BY FilesApart DEF Here, Reading
<1> QED BY <1>1, <1>2, <1>3 DEF Done

\* A line that is parsed is new, and done where its worker does not go.
LEMMA DoneRead ==
    ASSUME QInv, NEW P \in SUBSET AtLine, NEW w \in Worker, pc[w] = "line",
           counted' = counted \cup {Here(w)}, Here(w)' = Here(w),
           \A x \in Worker \ {w} : pc'[x] = pc[x] /\ idx'[x] = idx[x] /\ pos'[x] = pos[x]
    PROVE  /\ Here(w) \notin counted
           /\ Done(P)' = IF pc'[w] \in P THEN Done(P) ELSE Done(P) \cup {Here(w)}
<1>1. Here(w) \notin counted
  <2>1. \A c \in counted : c[1] = idx[w] => c[2] < pos[w]
    BY DEF QInv, FileInv
  <2>2. pos[w] \in Nat
    BY Typed
  <2>3. Here(w) \in counted => pos[w] < pos[w]
    BY <2>1 DEF Here
  <2> QED BY <2>2, <2>3
<1>2. \A x \in Worker \ {w} : Here(x)' = Here(x)
  BY DEF Here
<1>3. \A x \in Worker \ {w} : pc[x] \in P => Here(x) # Here(w)
  BY FilesApart DEF Here, Reading
<1>4. pc[w] \notin P
  BY DEF AtLine
<1> QED BY <1>1, <1>2, <1>3, <1>4 DEF Done

\* Done lines are finitely many lines with their bytes.
LEMMA DoneType ==
    ASSUME QInv, NEW P, NEW S \in SUBSET Done(P)
    PROVE  /\ S \in SUBSET counted /\ S \in SUBSET Lines /\ IsFiniteSet(S)
           /\ \A c \in Lines : ByteOf[c] \in Nat /\ ByteOf[c] = LineOf(c).bytes
<1>1. S \in SUBSET counted /\ counted \in SUBSET Lines /\ IsFiniteSet(counted) /\ files \in Log
  BY DEF Done, QInv, HistInv, TypeOK
<1>2. \A c \in Lines : ByteOf[c] = LineOf(c).bytes
  BY DEF ByteOf, Bytes, LineOf
<1> QED BY <1>1, <1>2, FS_Subset, LinesType

\* The bytes of done lines with one more.
LEMMA OneMoreLine ==
    ASSUME QInv, NEW P, NEW S \in SUBSET Done(P), NEW c \in Lines, c \notin S
    PROVE  /\ SumOn(ByteOf, S \cup {c}) = SumOn(ByteOf, S) + LineOf(c).bytes
           /\ Cardinality(S \cup {c}) = Cardinality(S) + 1
<1>1. /\ S \in SUBSET Lines /\ IsFiniteSet(S)
      /\ \A x \in Lines : ByteOf[x] \in Nat /\ ByteOf[x] = LineOf(x).bytes
  BY DoneType
<1>2. \A x \in S \cup {c} : ByteOf[x] \in Nat
  BY <1>1
<1>3. SumOn(ByteOf, S \cup {c}) = SumOn(ByteOf, S) + ByteOf[c]
  BY <1>1, <1>2, SumAdd
<1> QED BY <1>1, <1>3, FS_AddElement

\* What a worker that saw all the entries of its key leaves there.
LEMMA AddedValue ==
    ASSUME NEW e \in Seq(Nat), OneEntry(e), NEW n \in Nat \ {0}
    PROVE  /\ OneEntry(Added(e, Len(e), n))
           /\ Value(Added(e, Len(e), n)) = Value(e) + n
<1>a. ASSUME NEW x \in Nat \ {0} PROVE OneEntry(<<x>>) /\ Value(<<x>>) = x
  <2>1. Len(<<x>>) = 1 /\ <<x>> # <<>> /\ <<x>>[1] = x
    OBVIOUS
  <2> QED BY <2>1 DEF OneEntry, Value
<1>1. CASE e = <<>>
  <2>1. Added(e, Len(e), n) = <<n>> /\ Value(e) = 0
    BY <1>1 DEF Added, Value
  <2> QED BY <1>a, <2>1
<1>2. CASE e # <<>>
  <2> DEFINE f == [e EXCEPT ![1] = @ + n]
  <2>1. Len(e) = 1 /\ e[1] \in Nat
    <3>1. Len(e) \in Nat \ {0} /\ Len(e) <= 1
      BY <1>2, EmptySeq DEF OneEntry
    <3>2. Len(e) = 1
      BY <3>1
    <3> QED BY <3>2
  <2>2. Added(e, Len(e), n) = f
    BY <2>1 DEF Added
  <2>3. DOMAIN f = 1..1 /\ f[1] = e[1] + n
    BY <2>1
  <2>4. f = <<e[1] + n>>
    <3>1. f = [i \in 1..1 |-> f[i]]
      BY <2>3
    <3>2. f = [i \in 1..1 |-> e[1] + n]
      BY <2>3, <3>1
    <3> QED BY <3>2
  <2> HIDE DEF f
  <2>5. e[1] + n \in Nat \ {0} /\ Value(e) = e[1]
    BY <1>2, <2>1 DEF Value
  <2> QED BY <1>a, <2>2, <2>4, <2>5
<1> QED BY <1>1, <1>2

\* At the start nothing is parsed and no critical section is taken.
LEMMA BInit == Init => BInv
<1> SUFFICES ASSUME Init PROVE BInv
  OBVIOUS
<1>1. counted = {} /\ total_bytes = 0 /\ pc = [w \in Worker |-> "none"]
      /\ owner = [m \in {"total", "url", "ref"} |-> Nobody]
  BY DEF Init
<1>2. \A P : Done(P) = {}
  BY <1>1 DEF Done
<1>3. SumOn(ByteOf, {}) = 0 /\ Cardinality({}) = 0
  BY FS_EmptySet, SumStep
<1>4. \A k : UrlDone(k) = {} /\ RefDone(k) = {}
  BY <1>2 DEF UrlDone, RefDone
<1>5. OneEntry(<<>>) /\ Value(<<>>) = 0
  <2>1. Len(<<>>) = 0
    OBVIOUS
  <2> QED BY <2>1 DEF OneEntry, Value
<1>6. \A k \in Url : urls[k] = <<>>
  BY DEF Init
<1>7. \A k \in Ref : refs[k] = <<>>
  BY DEF Init
<1>8. Booked
  BY <1>1, <1>2, <1>3, <1>4, <1>5, <1>6, <1>7 DEF Booked
<1>9. \A w \in Worker : Section(w)
  BY <1>1 DEF Section
<1> QED BY <1>8, <1>9, QInit DEF BInv

\* The sums stay right while the maps and the lines that are done stay.
LEMMA BookedKept ==
    ASSUME BInv, Alive, files' = files, UNCHANGED <<total_bytes, urls, refs>>,
           \A P \in {ToTotal, ToUrl, AtLine} : Done(P)' = Done(P)
    PROVE  Booked'
<1>1. ByteOf' = ByteOf
  BY DEF ByteOf, Bytes, Lines, LineOf, Text, Count
<1>2. Done(ToTotal)' = Done(ToTotal) /\ Done(ToUrl)' = Done(ToUrl) /\ Done(AtLine)' = Done(AtLine)
  BY DEF ToTotal, ToUrl
<1>3. \A k : UrlDone(k)' = UrlDone(k) /\ RefDone(k)' = RefDone(k)
  BY <1>2 DEF UrlDone, RefDone, LineOf, Text
<1> QED BY <1>1, <1>2, <1>3 DEF Booked, BInv

\* One more line of a URL, or of a referer, is done.
LEMMA OneMoreDone ==
    ASSUME QInv, files' = files, NEW c \in Lines
    PROVE  /\ \A k : Done(ToUrl)' = Done(ToUrl) \cup {c} =>
                     UrlDone(k)' = IF LineOf(c).url = k THEN UrlDone(k) \cup {c} ELSE UrlDone(k)
           /\ \A k : Done(AtLine)' = Done(AtLine) \cup {c} =>
                     RefDone(k)' = IF LineOf(c).ref = k THEN RefDone(k) \cup {c} ELSE RefDone(k)
<1>1. \A x : LineOf(x)' = LineOf(x)
  BY DEF LineOf, Text
<1>2. ASSUME NEW k, Done(ToUrl)' = Done(ToUrl) \cup {c}
      PROVE  UrlDone(k)' = IF LineOf(c).url = k THEN UrlDone(k) \cup {c} ELSE UrlDone(k)
  <2>1. UrlDone(k)' = {x \in Done(ToUrl) \cup {c} : LineOf(x).url = k}
    BY <1>1, <1>2 DEF UrlDone
  <2> QED BY <2>1 DEF UrlDone
<1>3. ASSUME NEW k, Done(AtLine)' = Done(AtLine) \cup {c}
      PROVE  RefDone(k)' = IF LineOf(c).ref = k THEN RefDone(k) \cup {c} ELSE RefDone(k)
  <2>1. RefDone(k)' = {x \in Done(AtLine) \cup {c} : LineOf(x).ref = k}
    BY <1>1, <1>3 DEF RefDone
  <2> QED BY <2>1 DEF RefDone
<1> QED BY <1>2, <1>3

\* No update of a worker is lost.
LEMMA BookedStep == BInv /\ [Next]_vars /\ Alive' => Booked'
<1> SUFFICES ASSUME BInv, [Next]_vars, Alive' PROVE Booked'
  OBVIOUS
<1>a. QInv /\ pc \in [Worker -> Place] /\ idx \in [Worker -> Nat] /\ pos \in [Worker -> Nat \ {0}]
  BY Typed DEF BInv
<1>b. Alive
  BY DEF Alive, Next, Main, Step, Create, AllCreated, JoinAll, PrintUrls, PrintRefs, FreeMaps,
         WaitForFile, SpuriousWakeup, NoMoreFiles, TakeFile, OpenFile, ReadLine, ReadTotal,
         WriteTotal, FindUrl, FindRef, UrlMapAdd, RefMapInc, NoMemory, Goto, vars
<1>c. Booked /\ \A w \in Worker : Section(w)
  BY <1>b DEF BInv
<1>d. ToTotal \in SUBSET AtLine /\ ToUrl \in SUBSET AtLine /\ AtLine \in SUBSET AtLine
  BY DEF ToTotal, ToUrl, AtLine
<1>e. files' = files => ByteOf' = ByteOf
  BY DEF ByteOf, Bytes, Lines, LineOf, Text, Count
<1>1. ASSUME UNCHANGED <<files, total_bytes, urls, refs, counted>>,
             \A x \in Worker : \/ pc'[x] = pc[x] /\ idx'[x] = idx[x] /\ pos'[x] = pos[x]
                               \/ pc'[x] \notin AtLine /\ pc[x] \notin AtLine
      PROVE  Booked'
  <2>1. ASSUME NEW P \in {ToTotal, ToUrl, AtLine} PROVE Done(P)' = Done(P)
    <3>1. P \in SUBSET AtLine
      BY <1>d
    <3> QED BY <1>1, <3>1, DoneKept
  <2> QED BY <1>1, <1>b, <2>1, BookedKept
<1>2. ASSUME NEW w \in Worker, ReadTotal(w) \/ FindUrl(w) \/ FindRef(w) PROVE Booked'
  <2>1. UNCHANGED <<files, total_bytes, urls, refs, idx, pos, counted>>
    BY <1>2 DEF ReadTotal, FindUrl, FindRef, queue, hist
  <2>2. ASSUME NEW P \in {ToTotal, ToUrl, AtLine} PROVE Done(P)' = Done(P)
    <3>1. \A x \in Worker : pc'[x] \in P <=> pc[x] \in P
      BY <1>2, <1>a DEF ReadTotal, FindUrl, FindRef, Goto, ToTotal, ToUrl, AtLine
    <3> QED BY <2>1, <3>1, DoneKept
  <2> QED BY <2>1, <1>b, <2>2, BookedKept
<1>3. ASSUME NEW w \in Worker, ReadLine(w), ~ UNCHANGED counted PROVE Booked'
  <2>1. /\ pc[w] = "line" /\ Current(w).url # NoUrl /\ counted' = counted \cup {Here(w)}
        /\ pc' = [pc EXCEPT ![w] = IF Current(w).bytes > 0 THEN "total" ELSE "ref"]
        /\ UNCHANGED <<files, total_bytes, urls, refs, pos, idx>>
    BY <1>3 DEF ReadLine, Here, queue, data
  <2>2. Here(w)' = Here(w) /\ LineOf(Here(w)) = Current(w)
    BY <2>1 DEF Here, LineOf, Current
  <2>3. \A x \in Worker \ {w} : pc'[x] = pc[x] /\ idx'[x] = idx[x] /\ pos'[x] = pos[x]
    BY <2>1, <1>a
  <2>4. /\ Here(w) \notin counted
        /\ \A P \in SUBSET AtLine :
             Done(P)' = IF pc'[w] \in P THEN Done(P) ELSE Done(P) \cup {Here(w)}
    BY <2>1, <2>2, <2>3, <1>a, DoneRead
  <2>5. pc'[w] = IF Current(w).bytes > 0 THEN "total" ELSE "ref"
    BY <2>1, <1>a
  <2>6. CASE Current(w).bytes > 0
    <3>1. \A P \in {ToTotal, ToUrl, AtLine} : pc'[w] \in P
      BY <2>5, <2>6 DEF ToTotal, ToUrl, AtLine
    <3>2. \A P \in {ToTotal, ToUrl, AtLine} : Done(P)' = Done(P)
      BY <2>4, <3>1, <1>d
    <3> QED BY <2>1, <3>2, <1>b, BookedKept
  <2>7. CASE ~ (Current(w).bytes > 0)
    <3>1. /\ Done(ToTotal)' = Done(ToTotal) \cup {Here(w)} /\ Done(ToUrl)' = Done(ToUrl) \cup {Here(w)}
          /\ Done(AtLine)' = Done(AtLine)
      <4>1. pc'[w] \notin ToTotal /\ pc'[w] \notin ToUrl /\ pc'[w] \in AtLine
        BY <2>5, <2>7 DEF ToTotal, ToUrl, AtLine
      <4> QED BY <2>4, <4>1, <1>d
    <3>2. Here(w) \in Lines
      <4>1. HistInv'
        BY HistStep, <1>a
      <4>2. Here(w) \in Lines'
        BY <2>1, <4>1 DEF HistInv
      <4>3. Lines' = Lines
        BY <2>1 DEF Lines, LineOf, Text, Count
      <4> QED BY <4>2, <4>3
    <3>3. LineOf(Here(w)).bytes = 0
      <4>1. LineOf(Here(w)).bytes \in Nat
        BY <3>2, <1>a, LinesType, Typed
      <4> QED BY <4>1, <2>2, <2>7
    <3>4. Here(w) \notin Done(ToTotal) /\ \A k : Here(w) \notin UrlDone(k)
      BY <2>4 DEF Done, UrlDone
    <3>5. ASSUME NEW P, NEW S \in SUBSET Done(P), Here(w) \notin S
          PROVE  SumOn(ByteOf, S \cup {Here(w)}) = SumOn(ByteOf, S)
      <4>1. SumOn(ByteOf, S \cup {Here(w)}) = SumOn(ByteOf, S) + 0
        BY <3>2, <3>3, <3>5, <1>a, OneMoreLine
      <4>2. SumOn(ByteOf, S) \in Nat
        <5>1. S \in SUBSET Lines /\ IsFiniteSet(S) /\ \A c \in Lines : ByteOf[c] \in Nat
          BY <3>5, <1>a, DoneType
        <5> QED BY <5>1, SumType
      <4> QED BY <4>1, <4>2
    <3>6. total_bytes' = SumOn(ByteOf', Done(ToTotal)')
      <4>1. Done(ToTotal) \in SUBSET Done(ToTotal)
        OBVIOUS
      <4>2. SumOn(ByteOf, Done(ToTotal) \cup {Here(w)}) = SumOn(ByteOf, Done(ToTotal))
        BY <3>4, <3>5, <4>1
      <4> QED BY <2>1, <3>1, <4>2, <1>c, <1>e DEF Booked
    <3>7. ASSUME NEW k \in Url PROVE SumOn(ByteOf', UrlDone(k)') = SumOn(ByteOf, UrlDone(k))
      <4>1. UrlDone(k) \in SUBSET Done(ToUrl)
        BY DEF UrlDone
      <4>2. UrlDone(k)' = UrlDone(k) \/ UrlDone(k)' = UrlDone(k) \cup {Here(w)}
        BY <2>1, <3>1, <3>2, <1>a, OneMoreDone
      <4>3. SumOn(ByteOf, UrlDone(k) \cup {Here(w)}) = SumOn(ByteOf, UrlDone(k))
        BY <3>4, <3>5, <4>1
      <4> QED BY <2>1, <4>2, <4>3, <1>e
    <3>8. \A k : RefDone(k)' = RefDone(k)
      BY <2>1, <3>1 DEF RefDone, LineOf, Text
    <3> QED BY <2>1, <3>6, <3>7, <3>8, <1>c DEF Booked
  <2> QED BY <2>6, <2>7
<1>4. ASSUME NEW w \in Worker, WriteTotal(w) PROVE Booked'
  <2>1. /\ pc[w] = "total2" /\ pc'[w] = "url" /\ total_bytes' = seen[w] + Current(w).bytes
        /\ UNCHANGED <<files, urls, refs, counted, idx, pos>>
        /\ \A x \in Worker \ {w} : pc'[x] = pc[x]
    BY <1>4, <1>a DEF WriteTotal, Goto, queue, hist
  <2>2. seen[w] = total_bytes
    BY <2>1, <1>c DEF Section
  <2>3. Here(w) \notin Done(ToTotal) /\ Done(ToTotal)' = Done(ToTotal) \cup {Here(w)}
    <3>1. pc[w] \in ToTotal /\ pc'[w] \notin ToTotal
      BY <2>1 DEF ToTotal
    <3> QED BY <2>1, <3>1, <1>a, <1>d, DoneLeft
  <2>4. Here(w) \in Lines /\ LineOf(Here(w)) = Current(w)
    BY <2>1, <1>a, CurrentType DEF AtLine
  <2>5. total_bytes' = SumOn(ByteOf', Done(ToTotal)')
    <3>1. SumOn(ByteOf, Done(ToTotal) \cup {Here(w)}) = SumOn(ByteOf, Done(ToTotal)) + Current(w).bytes
      <4>1. Done(ToTotal) \in SUBSET Done(ToTotal)
        OBVIOUS
      <4> QED BY <2>3, <2>4, <4>1, <1>a, OneMoreLine
    <3> QED BY <2>1, <2>2, <2>3, <3>1, <1>c, <1>e DEF Booked
  <2>6. Done(ToUrl)' = Done(ToUrl) /\ Done(AtLine)' = Done(AtLine)
    <3>1. \A x \in Worker : pc'[x] \in ToUrl <=> pc[x] \in ToUrl
      BY <2>1 DEF ToUrl
    <3>2. \A x \in Worker : pc'[x] \in AtLine <=> pc[x] \in AtLine
      BY <2>1 DEF AtLine
    <3> QED BY <2>1, <3>1, <3>2, DoneKept
  <2>7. \A k : UrlDone(k)' = UrlDone(k) /\ RefDone(k)' = RefDone(k)
    BY <2>1, <2>6 DEF UrlDone, RefDone, LineOf, Text
  <2> QED BY <2>1, <2>5, <2>7, <1>c, <1>e DEF Booked
<1>5. ASSUME NEW w \in Worker, UrlMapAdd(w) PROVE Booked'
  <2>1. /\ pc[w] = "url2" /\ pc'[w] = "ref"
        /\ urls' = [urls EXCEPT ![Current(w).url] = Added(@, seen[w], Current(w).bytes)]
        /\ UNCHANGED <<files, total_bytes, refs, counted, idx, pos>>
        /\ \A x \in Worker \ {w} : pc'[x] = pc[x]
    BY <1>5, <1>a DEF UrlMapAdd, Goto, queue, hist
  <2> DEFINE k0 == Current(w).url
  <2>2. /\ Here(w) \in Lines /\ LineOf(Here(w)) = Current(w) /\ k0 \in Url
        /\ Current(w).bytes \in Nat \ {0}
    <3>1. Current(w).bytes > 0
      BY <2>1, <1>a DEF QInv, FileInv
    <3> QED BY <2>1, <3>1, <1>a, CurrentType DEF AtLine
  <2>3. seen[w] = Len(urls[k0]) /\ urls \in [Url -> Seq(Nat)]
    BY <2>1, <1>a, <1>c DEF Section, QInv, TypeOK
  <2>4. Here(w) \notin Done(ToUrl) /\ Done(ToUrl)' = Done(ToUrl) \cup {Here(w)}
    <3>1. pc[w] \in ToUrl /\ pc'[w] \notin ToUrl
      BY <2>1 DEF ToUrl
    <3> QED BY <2>1, <3>1, <1>a, <1>d, DoneLeft
  <2>5. /\ OneEntry(urls'[k0]) /\ Value(urls'[k0]) = Value(urls[k0]) + Current(w).bytes
        /\ \A k \in Url \ {k0} : urls'[k] = urls[k]
    <3>1. urls'[k0] = Added(urls[k0], Len(urls[k0]), Current(w).bytes)
      BY <2>1, <2>2, <2>3
    <3>2. OneEntry(urls[k0]) /\ urls[k0] \in Seq(Nat)
      BY <2>2, <2>3, <1>c DEF Booked
    <3>3. \A k \in Url \ {k0} : urls'[k] = urls[k]
      BY <2>1, <2>3
    <3> HIDE DEF k0
    <3>4. OneEntry(urls'[k0]) /\ Value(urls'[k0]) = Value(urls[k0]) + Current(w).bytes
      BY <2>2, <3>1, <3>2, AddedValue
    <3> QED BY <3>3, <3>4
  <2>6. \A k \in Url : UrlDone(k)' = IF k0 = k THEN UrlDone(k) \cup {Here(w)} ELSE UrlDone(k)
    BY <2>1, <2>2, <2>4, <1>a, OneMoreDone
  <2>7. SumOn(ByteOf, UrlDone(k0) \cup {Here(w)}) = SumOn(ByteOf, UrlDone(k0)) + Current(w).bytes
    <3>1. UrlDone(k0) \in SUBSET Done(ToUrl) /\ Here(w) \notin UrlDone(k0)
      BY <2>4 DEF UrlDone
    <3> QED BY <2>2, <3>1, <1>a, OneMoreLine
  <2> HIDE DEF k0
  <2>8. \A k \in Url : OneEntry(urls'[k]) /\ Value(urls'[k]) = SumOn(ByteOf', UrlDone(k)')
    <3>1. \A k \in Url : OneEntry(urls[k]) /\ Value(urls[k]) = SumOn(ByteOf, UrlDone(k))
      BY <1>c DEF Booked
    <3>2. ByteOf' = ByteOf
      BY <2>1, <1>e
    <3> QED BY <2>2, <2>5, <2>6, <2>7, <3>1, <3>2
  <2>9. Done(ToTotal)' = Done(ToTotal) /\ Done(AtLine)' = Done(AtLine)
    <3>1. \A x \in Worker : pc'[x] \in ToTotal <=> pc[x] \in ToTotal
      BY <2>1 DEF ToTotal
    <3>2. \A x \in Worker : pc'[x] \in AtLine <=> pc[x] \in AtLine
      BY <2>1 DEF AtLine
    <3> QED BY <2>1, <3>1, <3>2, DoneKept
  <2>10. \A k : RefDone(k)' = RefDone(k)
    BY <2>1, <2>9 DEF RefDone, LineOf, Text
  <2> QED BY <2>1, <2>8, <2>9, <2>10, <1>c, <1>e DEF Booked
<1>6. ASSUME NEW w \in Worker, RefMapInc(w) PROVE Booked'
  <2>1. /\ pc[w] = "ref2" /\ pc'[w] = "line"
        /\ refs' = [refs EXCEPT ![Current(w).ref] = Added(@, seen[w], 1)]
        /\ UNCHANGED <<files, total_bytes, urls, counted, idx>>
        /\ \A x \in Worker \ {w} : pc'[x] = pc[x] /\ pos'[x] = pos[x]
    BY <1>6, <1>a DEF RefMapInc, Goto, queue, hist
  <2> DEFINE k0 == Current(w).ref
  <2>2. Here(w) \in Lines /\ LineOf(Here(w)) = Current(w) /\ k0 \in Ref
    BY <2>1, <1>a, CurrentType DEF AtLine
  <2>3. seen[w] = Len(refs[k0]) /\ refs \in [Ref -> Seq(Nat)]
    BY <2>1, <1>a, <1>c DEF Section, QInv, TypeOK
  <2>4. Here(w) \notin Done(AtLine) /\ Done(AtLine)' = Done(AtLine) \cup {Here(w)}
    <3>1. pc[w] \in AtLine /\ pc'[w] \notin AtLine
      BY <2>1 DEF AtLine
    <3> QED BY <2>1, <3>1, <1>a, <1>d, DoneLeft
  <2>5. /\ OneEntry(refs'[k0]) /\ Value(refs'[k0]) = Value(refs[k0]) + 1
        /\ \A k \in Ref \ {k0} : refs'[k] = refs[k]
    <3>1. refs'[k0] = Added(refs[k0], Len(refs[k0]), 1)
      BY <2>1, <2>2, <2>3
    <3>2. OneEntry(refs[k0]) /\ refs[k0] \in Seq(Nat)
      BY <2>2, <2>3, <1>c DEF Booked
    <3>3. \A k \in Ref \ {k0} : refs'[k] = refs[k]
      BY <2>1, <2>3
    <3> HIDE DEF k0
    <3>4. OneEntry(refs'[k0]) /\ Value(refs'[k0]) = Value(refs[k0]) + 1
      BY <2>2, <3>1, <3>2, AddedValue
    <3> QED BY <3>3, <3>4
  <2>6. \A k \in Ref : RefDone(k)' = IF k0 = k THEN RefDone(k) \cup {Here(w)} ELSE RefDone(k)
    BY <2>1, <2>2, <2>4, <1>a, OneMoreDone
  <2>7. Cardinality(RefDone(k0) \cup {Here(w)}) = Cardinality(RefDone(k0)) + 1
    <3>1. RefDone(k0) \in SUBSET Done(AtLine) /\ Here(w) \notin RefDone(k0)
      BY <2>4 DEF RefDone
    <3> QED BY <2>2, <3>1, <1>a, OneMoreLine
  <2> HIDE DEF k0
  <2>8. \A k \in Ref : OneEntry(refs'[k]) /\ Value(refs'[k]) = Cardinality(RefDone(k)')
    <3>1. \A k \in Ref : OneEntry(refs[k]) /\ Value(refs[k]) = Cardinality(RefDone(k))
      BY <1>c DEF Booked
    <3> QED BY <2>2, <2>5, <2>6, <2>7, <3>1
  <2>9. Done(ToTotal)' = Done(ToTotal) /\ Done(ToUrl)' = Done(ToUrl)
    <3>1. \A x \in Worker : /\ pc'[x] \in ToTotal <=> pc[x] \in ToTotal
                            /\ pc[x] \in ToTotal => idx'[x] = idx[x] /\ pos'[x] = pos[x]
      BY <2>1 DEF ToTotal
    <3>2. \A x \in Worker : /\ pc'[x] \in ToUrl <=> pc[x] \in ToUrl
                            /\ pc[x] \in ToUrl => idx'[x] = idx[x] /\ pos'[x] = pos[x]
      BY <2>1 DEF ToUrl
    <3> QED BY <2>1, <3>1, <3>2, DoneKept
  <2>10. \A k : UrlDone(k)' = UrlDone(k)
    BY <2>1, <2>9 DEF UrlDone, LineOf, Text
  <2> QED BY <2>1, <2>8, <2>9, <2>10, <1>c, <1>e DEF Booked
<1>7. CASE UNCHANGED vars
  BY <1>7, <1>1 DEF vars, queue, data, worker, hist
<1>8. ASSUME NEW w \in Worker, Create(w) \/ WaitForFile(w) \/ SpuriousWakeup(w) \/ NoMoreFiles(w)
      PROVE  Booked'
  <2>1. UNCHANGED <<files, total_bytes, urls, refs, counted, idx, pos>>
    BY <1>8 DEF Create, WaitForFile, SpuriousWakeup, NoMoreFiles, queue, data, hist
  <2>2. \A x \in Worker : \/ pc'[x] = pc[x]
                          \/ pc'[x] \notin AtLine /\ pc[x] \notin AtLine
    BY <1>8, <1>a DEF Create, WaitForFile, SpuriousWakeup, NoMoreFiles, Goto, AtLine
  <2> QED BY <2>1, <2>2, <1>1
<1>9. CASE AllCreated \/ JoinAll \/ PrintUrls \/ PrintRefs
  <2>1. UNCHANGED <<files, total_bytes, urls, refs, counted, idx, pos>>
    BY <1>9 DEF AllCreated, JoinAll, PrintUrls, PrintRefs, queue, data, worker, hist
  <2>2. \A x \in Worker : \/ pc'[x] = pc[x]
                          \/ pc'[x] \notin AtLine /\ pc[x] \notin AtLine
    BY <1>9, <1>a DEF AllCreated, JoinAll, PrintUrls, PrintRefs, Woken, AtLine, worker
  <2> QED BY <2>1, <2>2, <1>1
<1>10. ASSUME NEW w \in Worker, TakeFile(w) \/ OpenFile(w) PROVE Booked'
  <2>1. UNCHANGED <<files, total_bytes, urls, refs, counted>>
    BY <1>10 DEF TakeFile, OpenFile, queue, data, hist
  <2>2. \A x \in Worker : \/ pc'[x] = pc[x] /\ idx'[x] = idx[x] /\ pos'[x] = pos[x]
                          \/ pc'[x] \notin AtLine /\ pc[x] \notin AtLine
    BY <1>10, <1>a DEF TakeFile, OpenFile, Goto, Woken, AtLine
  <2> QED BY <2>1, <2>2, <1>1
<1>11. ASSUME NEW w \in Worker, ReadLine(w), UNCHANGED counted PROVE Booked'
  <2>1. pc[w] = "line" /\ UNCHANGED <<files, total_bytes, urls, refs, idx>>
    BY <1>11 DEF ReadLine, queue, data
  <2>2. \A x \in Worker \ {w} : pc'[x] = pc[x] /\ pos'[x] = pos[x]
    BY <1>11, <1>a DEF ReadLine
  <2>3. pc'[w] \notin AtLine
    <3>1. pc'[w] \in AtLine => counted' = counted \cup {Here(w)}
      BY <1>11, <1>a DEF ReadLine, Here, AtLine
    <3>2. Here(w) \in counted /\ pc[w] = "line" => FALSE
      <4>1. \A c \in counted : pc[w] = "line" /\ c[1] = idx[w] => c[2] < pos[w]
        BY <1>a DEF QInv, FileInv
      <4>2. pos[w] \in Nat
        BY <1>a
      <4> QED BY <4>1, <4>2 DEF Here
    <3> QED BY <1>11, <2>1, <3>1, <3>2
  <2>4. pc[w] \notin AtLine
    BY <2>1 DEF AtLine
  <2> QED BY <1>11, <2>1, <2>2, <2>3, <2>4, <1>1
<1>12. ~ FreeMaps /\ \A w \in Worker : ~ NoMemory(w)
  BY DEF Alive, FreeMaps, NoMemory
<1> QED BY <1>2, <1>3, <1>4, <1>5, <1>6, <1>7, <1>8, <1>9, <1>10, <1>11, <1>12 DEF Next, Main, Step

\* A mutex has one owner, who sees what is there.
LEMMA SectionStep == BInv /\ [Next]_vars /\ Alive' => \A v \in Worker : Section(v)'
<1> SUFFICES ASSUME BInv, [Next]_vars, Alive', NEW v \in Worker PROVE Section(v)'
  OBVIOUS
<1>a. /\ QInv /\ pc \in [Worker -> Place] /\ idx \in [Worker -> Nat] /\ pos \in [Worker -> Nat \ {0}]
      /\ seen \in [Worker -> Nat] /\ owner \in [{"total", "url", "ref"} -> Worker \cup {Nobody}]
  BY Typed DEF BInv
<1>b. Alive
  BY DEF Alive, Next, Main, Step, Create, AllCreated, JoinAll, PrintUrls, PrintRefs, FreeMaps,
         WaitForFile, SpuriousWakeup, NoMoreFiles, TakeFile, OpenFile, ReadLine, ReadTotal,
         WriteTotal, FindUrl, FindRef, UrlMapAdd, RefMapInc, NoMemory, Goto, vars
<1>c. \A w \in Worker : Section(w)
  BY <1>b DEF BInv
<1> DEFINE In == {"total2", "url2", "ref2"}
<1>1. ASSUME UNCHANGED <<files, owner, total_bytes, urls, refs>>,
             \/ pc'[v] = pc[v] /\ idx'[v] = idx[v] /\ pos'[v] = pos[v] /\ seen'[v] = seen[v]
             \/ pc'[v] \notin In /\ pc[v] \notin In
      PROVE  Section(v)'
  <2>1. CASE pc'[v] = pc[v] /\ idx'[v] = idx[v] /\ pos'[v] = pos[v] /\ seen'[v] = seen[v]
    <3>1. Current(v)' = Current(v)
      BY <1>1, <2>1 DEF Current, Text
    <3> QED BY <1>1, <1>c, <2>1, <3>1 DEF Section
  <2>2. CASE pc'[v] \notin In /\ pc[v] \notin In
    BY <1>1, <1>c, <2>2 DEF Section
  <2> QED BY <1>1, <2>1, <2>2
<1>2. ASSUME NEW w \in Worker, ReadTotal(w) PROVE Section(v)'
  <2>1. /\ pc[w] = "total" /\ pc' = [pc EXCEPT ![w] = "total2"]
        /\ owner["total"] = Nobody /\ owner' = [owner EXCEPT !["total"] = w]
        /\ seen' = [seen EXCEPT ![w] = total_bytes]
        /\ UNCHANGED <<files, total_bytes, urls, refs, idx, pos>>
    BY <1>2 DEF ReadTotal, Goto, Enter, queue
  <2>2. owner'["total"] = w /\ owner'["url"] = owner["url"] /\ owner'["ref"] = owner["ref"]
    BY <2>1, <1>a
  <2>3. CASE v = w
    <3>1. pc'[v] = "total2" /\ seen'[v] = total_bytes
      BY <2>1, <2>3, <1>a
    <3> QED BY <2>1, <2>2, <2>3, <3>1, <1>c DEF Section
  <2>4. CASE v # w
    <3>1. pc'[v] = pc[v] /\ seen'[v] = seen[v] /\ Current(v)' = Current(v)
      BY <2>1, <2>4, <1>a DEF Current, Text
    <3>2. pc[v] # "total2"
      BY <2>1, <1>c DEF Section
    <3> QED BY <2>1, <2>2, <2>4, <3>1, <3>2, <1>c DEF Section
  <2> QED BY <2>3, <2>4
<1>3. ASSUME NEW w \in Worker, FindUrl(w) PROVE Section(v)'
  <2>1. /\ pc[w] = "url" /\ pc' = [pc EXCEPT ![w] = "url2"]
        /\ owner["url"] = Nobody /\ owner' = [owner EXCEPT !["url"] = w]
        /\ seen' = [seen EXCEPT ![w] = Len(urls[Current(w).url])]
        /\ UNCHANGED <<files, total_bytes, urls, refs, idx, pos>>
    BY <1>3 DEF FindUrl, Goto, Enter, queue
  <2>2. owner'["url"] = w /\ owner'["total"] = owner["total"] /\ owner'["ref"] = owner["ref"]
    BY <2>1, <1>a
  <2>3. Current(v)' = Current(v)
    BY <2>1 DEF Current, Text
  <2>4. CASE v = w
    <3>1. pc'[v] = "url2" /\ seen'[v] = Len(urls[Current(v).url])
      BY <2>1, <2>4, <1>a
    <3> QED BY <2>1, <2>2, <2>3, <2>4, <3>1, <1>c DEF Section
  <2>5. CASE v # w
    <3>1. pc'[v] = pc[v] /\ seen'[v] = seen[v]
      BY <2>1, <2>5, <1>a
    <3>2. pc[v] # "url2"
      BY <2>1, <1>c DEF Section
    <3> QED BY <2>1, <2>2, <2>3, <2>5, <3>1, <3>2, <1>c DEF Section
  <2> QED BY <2>4, <2>5
<1>4. ASSUME NEW w \in Worker, FindRef(w) PROVE Section(v)'
  <2>1. /\ pc[w] = "ref" /\ pc' = [pc EXCEPT ![w] = "ref2"]
        /\ owner["ref"] = Nobody /\ owner' = [owner EXCEPT !["ref"] = w]
        /\ seen' = [seen EXCEPT ![w] = Len(refs[Current(w).ref])]
        /\ UNCHANGED <<files, total_bytes, urls, refs, idx, pos>>
    BY <1>4 DEF FindRef, Goto, Enter, queue
  <2>2. owner'["ref"] = w /\ owner'["total"] = owner["total"] /\ owner'["url"] = owner["url"]
    BY <2>1, <1>a
  <2>3. Current(v)' = Current(v)
    BY <2>1 DEF Current, Text
  <2>4. CASE v = w
    <3>1. pc'[v] = "ref2" /\ seen'[v] = Len(refs[Current(v).ref])
      BY <2>1, <2>4, <1>a
    <3> QED BY <2>1, <2>2, <2>3, <2>4, <3>1, <1>c DEF Section
  <2>5. CASE v # w
    <3>1. pc'[v] = pc[v] /\ seen'[v] = seen[v]
      BY <2>1, <2>5, <1>a
    <3>2. pc[v] # "ref2"
      BY <2>1, <1>c DEF Section
    <3> QED BY <2>1, <2>2, <2>3, <2>5, <3>1, <3>2, <1>c DEF Section
  <2> QED BY <2>4, <2>5
<1>5. ASSUME NEW w \in Worker, WriteTotal(w) PROVE Section(v)'
  <2>1. /\ pc[w] = "total2" /\ pc' = [pc EXCEPT ![w] = "url"]
        /\ owner' = [owner EXCEPT !["total"] = Nobody]
        /\ UNCHANGED <<files, urls, refs, idx, pos, seen>>
    BY <1>5 DEF WriteTotal, Goto, Leave, queue
  <2>2. /\ owner'["total"] = Nobody /\ owner'["url"] = owner["url"] /\ owner'["ref"] = owner["ref"]
        /\ owner["total"] = w /\ v # Nobody
    BY <2>1, <1>a, <1>c DEF Section
  <2>3. pc'[v] # "total2" /\ (v = w => pc'[v] = "url") /\ (v # w => pc'[v] = pc[v])
    BY <2>1, <2>2, <1>a, <1>c DEF Section
  <2>4. Current(v)' = Current(v)
    BY <2>1 DEF Current, Text
  <2> QED BY <2>1, <2>2, <2>3, <2>4, <1>c DEF Section
<1>6. ASSUME NEW w \in Worker, UrlMapAdd(w) PROVE Section(v)'
  <2>1. /\ pc[w] = "url2" /\ pc' = [pc EXCEPT ![w] = "ref"]
        /\ owner' = [owner EXCEPT !["url"] = Nobody]
        /\ UNCHANGED <<files, total_bytes, refs, idx, pos, seen>>
    BY <1>6 DEF UrlMapAdd, Goto, Leave, queue
  <2>2. /\ owner'["url"] = Nobody /\ owner'["total"] = owner["total"] /\ owner'["ref"] = owner["ref"]
        /\ owner["url"] = w /\ v # Nobody
    BY <2>1, <1>a, <1>c DEF Section
  <2>3. pc'[v] # "url2" /\ (v = w => pc'[v] = "ref") /\ (v # w => pc'[v] = pc[v])
    BY <2>1, <2>2, <1>a, <1>c DEF Section
  <2>4. Current(v)' = Current(v)
    BY <2>1 DEF Current, Text
  <2> QED BY <2>1, <2>2, <2>3, <2>4, <1>c DEF Section
<1>7. ASSUME NEW w \in Worker, RefMapInc(w) PROVE Section(v)'
  <2>1. /\ pc[w] = "ref2" /\ pc' = [pc EXCEPT ![w] = "line"]
        /\ owner' = [owner EXCEPT !["ref"] = Nobody]
        /\ pos' = [pos EXCEPT ![w] = @ + 1]
        /\ UNCHANGED <<files, total_bytes, urls, idx, seen>>
    BY <1>7 DEF RefMapInc, Goto, Leave, queue
  <2>2. /\ owner'["ref"] = Nobody /\ owner'["total"] = owner["total"] /\ owner'["url"] = owner["url"]
        /\ owner["ref"] = w /\ v # Nobody
    BY <2>1, <1>a, <1>c DEF Section
  <2>3. pc'[v] # "ref2" /\ (v = w => pc'[v] = "line") /\ (v # w => pc'[v] = pc[v])
    BY <2>1, <2>2, <1>a, <1>c DEF Section
  <2>4. v # w => Current(v)' = Current(v)
    BY <2>1, <1>a DEF Current, Text
  <2> QED BY <2>1, <2>2, <2>3, <2>4, <1>c DEF Section
<1>8. CASE UNCHANGED vars
  BY <1>8, <1>1 DEF vars, queue, data, worker
<1>9. ASSUME NEW w \in Worker, \/ Create(w) \/ WaitForFile(w) \/ SpuriousWakeup(w)
                               \/ NoMoreFiles(w) \/ TakeFile(w) \/ OpenFile(w) \/ ReadLine(w)
      PROVE  Section(v)'
  <2>1. UNCHANGED <<files, owner, total_bytes, urls, refs, seen>>
    BY <1>9 DEF Create, WaitForFile, SpuriousWakeup, NoMoreFiles, TakeFile, OpenFile, ReadLine,
                queue, data
  <2>2. \/ pc'[v] = pc[v] /\ idx'[v] = idx[v] /\ pos'[v] = pos[v]
        \/ pc'[v] \notin In /\ pc[v] \notin In
    BY <1>9, <1>a DEF Create, WaitForFile, SpuriousWakeup, NoMoreFiles, TakeFile, OpenFile, ReadLine,
                      Goto, Woken
  <2> QED BY <2>1, <2>2, <1>1
<1>10. CASE AllCreated \/ JoinAll \/ PrintUrls \/ PrintRefs
  <2>1. UNCHANGED <<files, owner, total_bytes, urls, refs, idx, pos, seen>>
    BY <1>10 DEF AllCreated, JoinAll, PrintUrls, PrintRefs, queue, data, worker
  <2>2. \/ pc'[v] = pc[v]
        \/ pc'[v] \notin In /\ pc[v] \notin In
    BY <1>10, <1>a DEF AllCreated, JoinAll, PrintUrls, PrintRefs, Woken, worker
  <2> QED BY <2>1, <2>2, <1>1
<1>11. ~ FreeMaps /\ \A w \in Worker : ~ NoMemory(w)
  BY DEF Alive, FreeMaps, NoMemory
<1> QED BY <1>2, <1>3, <1>4, <1>5, <1>6, <1>7, <1>8, <1>9, <1>10, <1>11 DEF Next, Main, Step

\* BInv is inductive.
LEMMA BInvariant == Spec => []BInv
<1>1. BInv /\ [Next]_vars => BInv'
  BY QStep, BookedStep, SectionStep DEF BInv
<1> QED BY <1>1, BInit, PTL DEF Spec

-----------------------------------------------------------------------------
\* The sums that the properties state are the sums of the invariant.
LEMMA BytesSum ==
    ASSUME QInv, NEW S \in SUBSET counted
    PROVE  MapThenSumSet(Bytes, S) = SumOn(ByteOf, S)
<1>1. S \in SUBSET Lines /\ IsFiniteSet(S)
  BY FS_Subset DEF QInv, HistInv
<1> DEFINE v(F, s) == IF s = {} THEN 0 ELSE Bytes(One(s)) + F[s \ {One(s)}]
           b(F, s) == IF s = {} THEN 0 ELSE ByteOf[One(s)] + F[s \ {One(s)}]
<1>2. \A F : \A s \in SUBSET S : v(F, s) = b(F, s)
  <2>1. \A s \in SUBSET S : s # {} => One(s) \in Lines
    BY <1>1, OneIn
  <2>2. \A c \in Lines : ByteOf[c] = Bytes(c)
    BY DEF ByteOf
  <2> QED BY <2>1, <2>2
<1> DEFINE V(F) == F = [s \in SUBSET S |-> v(F, s)]
<1>3. MapThenSumSet(Bytes, S) = (CHOOSE F : V(F))[S]
  BY DEF MapThenSumSet, MapThenFoldSet, One
<1>4. \A F : IsSum(F, ByteOf, S) <=> F = [s \in SUBSET S |-> b(F, s)]
  BY DEF IsSum
<1> HIDE DEF v, b
<1>5. \A F : IsSum(F, ByteOf, S) <=> V(F)
  <2> TAKE F
  <2>1. [s \in SUBSET S |-> v(F, s)] = [s \in SUBSET S |-> b(F, s)]
    BY <1>2
  <2> QED BY <1>4, <2>1
<1>6. PICK H : IsSum(H, ByteOf, S)
  BY <1>1, SumExists
<1>7. V(CHOOSE F : V(F))
  <2>1. \E F : V(F)
    BY <1>5, <1>6
  <2> HIDE DEF V
  <2> QED BY <2>1
<1> HIDE DEF V
<1>8. (CHOOSE F : V(F))[S] = H[S]
  BY <1>1, <1>5, <1>6, <1>7, SumUnique
<1>9. SumOn(ByteOf, S) = H[S]
  <2>1. IsSum(CHOOSE F : IsSum(F, ByteOf, S), ByteOf, S)
    BY <1>6
  <2> QED BY <1>1, <1>6, <2>1, SumUnique DEF SumOn
<1> QED BY <1>3, <1>8, <1>9

\* What the entries of a key add up to, when there is one at most.
LEMMA EntriesSum ==
    ASSUME NEW e \in Seq(Nat), OneEntry(e)
    PROVE  SumOf(e) = Value(e)
<1> DEFINE V(F) == F = [s \in SUBSET DOMAIN e |->
                          IF s = {} THEN 0 ELSE e[One(s)] + F[s \ {One(s)}]]
<1>1. SumOf(e) = (CHOOSE F : V(F))[DOMAIN e]
  BY DEF SumOf, SumFunction, SumFunctionOnSet, FoldFunctionOnSet, MapThenFoldSet, One
<1>2. SumOf(e) = SumOn(e, DOMAIN e)
  BY <1>1 DEF SumOn, IsSum
<1>3. DOMAIN e = 1..Len(e) /\ Len(e) \in {0, 1} /\ e \in [1..Len(e) -> Nat]
  <2>1. Len(e) \in Nat /\ Len(e) <= 1 /\ DOMAIN e = 1..Len(e) /\ e \in [1..Len(e) -> Nat]
    BY LenProperties DEF OneEntry
  <2> QED BY <2>1
<1>4. SumOn(e, {}) = 0
  BY FS_EmptySet, SumStep
<1>5. CASE e = <<>>
  BY <1>2, <1>4, <1>5 DEF Value
<1>6. CASE e # <<>>
  <2>1. Len(e) # 0
    BY <1>6, EmptySeq
  <2>2. DOMAIN e = {1} /\ e[1] \in Nat
    <3>1. Len(e) = 1
      BY <1>3, <2>1
    <3>2. DOMAIN e = 1..1
      BY <1>3, <3>1
    <3> QED BY <1>3, <3>1, <3>2
  <2>3. One({1}) = 1 /\ {1} \ {1} = {}
    BY OneIn
  <2>4. SumOn(e, {1}) = IF {1} = {} THEN 0 ELSE e[One({1})] + SumOn(e, {1} \ {One({1})})
    BY FS_Singleton, SumStep
  <2>5. SumOn(e, {1}) = e[1] + 0
    BY <1>4, <2>3, <2>4
  <2> QED BY <1>2, <1>6, <2>2, <2>5 DEF Value
<1> QED BY <1>5, <1>6

\* When the workers are joined, every line that was parsed is done everywhere,
\* and the sums are those of the properties.
LEMMA SumsAtEnd ==
    ASSUME BInv, mpc \in {"urls", "refs", "free"}
    PROVE  /\ next = Count /\ total_bytes = MapThenSumSet(Bytes, counted)
           /\ \A k \in Url : OneEntry(urls[k]) /\ Value(urls[k]) = Traffic(k)
           /\ \A k \in Ref : OneEntry(refs[k]) /\ Value(refs[k]) = Uses(k)
<1>a. QInv /\ Booked
  BY DEF BInv, Alive
<1>1. \A w \in Worker : pc[w] = "done"
  BY <1>a DEF QInv, EndInv
<1>2. next = Count
  BY <1>1, <1>a DEF QInv, EndInv
<1>3. Done(ToTotal) = counted /\ Done(ToUrl) = counted /\ Done(AtLine) = counted
  BY <1>1 DEF Done, ToTotal, ToUrl, AtLine
<1>4. \A k : /\ UrlDone(k) = {c \in counted : Text(c[1])[c[2]].url = k}
             /\ RefDone(k) = {c \in counted : Text(c[1])[c[2]].ref = k}
  BY <1>3 DEF UrlDone, RefDone, LineOf
<1>5. \A k : Traffic(k) = SumOn(ByteOf, UrlDone(k))
  <2> TAKE k
  <2>1. UrlDone(k) \in SUBSET counted
    BY <1>4
  <2>2. MapThenSumSet(Bytes, UrlDone(k)) = SumOn(ByteOf, UrlDone(k))
    BY <2>1, <1>a, BytesSum
  <2> QED BY <2>2, <1>4 DEF Traffic
<1>6. \A k : Uses(k) = Cardinality(RefDone(k))
  BY <1>4 DEF Uses
<1>7. MapThenSumSet(Bytes, counted) = SumOn(ByteOf, counted)
  BY <1>a, BytesSum
<1> QED BY <1>2, <1>3, <1>5, <1>6, <1>7, <1>a DEF Booked

\* The booked entries add up to the sums of the lines that were counted.
LEMMA SumsFollow == BInv => SumsRight
<1> SUFFICES ASSUME BInv, mpc = "urls" PROVE SumsRight
  BY DEF SumsRight
<1>1. urls \in [Url -> Seq(Nat)] /\ refs \in [Ref -> Seq(Nat)]
  BY DEF BInv, QInv, TypeOK
<1>2. \A k \in Url : Len(urls[k]) <= 1 /\ SumOf(urls[k]) = Traffic(k)
  <2> SUFFICES ASSUME NEW k \in Url PROVE Len(urls[k]) <= 1 /\ SumOf(urls[k]) = Traffic(k)
    OBVIOUS
  <2>1. urls[k] \in Seq(Nat) /\ OneEntry(urls[k]) /\ Value(urls[k]) = Traffic(k)
    BY <1>1, SumsAtEnd
  <2> QED BY <2>1, EntriesSum DEF OneEntry
<1>3. \A k \in Ref : Len(refs[k]) <= 1 /\ SumOf(refs[k]) = Uses(k)
  <2> SUFFICES ASSUME NEW k \in Ref PROVE Len(refs[k]) <= 1 /\ SumOf(refs[k]) = Uses(k)
    OBVIOUS
  <2>1. refs[k] \in Seq(Nat) /\ OneEntry(refs[k]) /\ Value(refs[k]) = Uses(k)
    BY <1>1, SumsAtEnd
  <2> QED BY <2>1, EntriesSum DEF OneEntry
<1> QED BY <1>2, <1>3, SumsAtEnd DEF SumsRight

-----------------------------------------------------------------------------
\* A finite set of numbers has a least one.
LEMMA LeastOf ==
    ASSUME NEW S \in SUBSET Nat, IsFiniteSet(S), S # {}
    PROVE  \E m \in S : \A x \in S : m <= x
<1> DEFINE G == {A \in SUBSET S : A # {} => \E m \in A : \A x \in A : m <= x}
<1>1. ASSUME NEW A \in SUBSET S, \A B \in SUBSET A : B # A => B \in G PROVE A \in G
  <2> SUFFICES ASSUME A # {} PROVE \E m \in A : \A x \in A : m <= x
    OBVIOUS
  <2>1. PICK y \in A : TRUE
    OBVIOUS
  <2>2. CASE A \ {y} = {}
    <3>1. \A x \in A : y <= x
      BY <2>2
    <3> QED BY <3>1
  <2>3. CASE A \ {y} # {}
    <3>1. A \ {y} \in G
      BY <1>1
    <3>2. PICK m \in A \ {y} : \A x \in A \ {y} : m <= x
      BY <2>3, <3>1
    <3>3. CASE m <= y
      <4>1. \A x \in A : m <= x
        BY <3>2, <3>3
      <4> QED BY <4>1
    <3>4. CASE y <= m
      <4>1. \A x \in A : y <= x
        BY <3>2, <3>4
      <4> QED BY <4>1
    <3> QED BY <3>3, <3>4
  <2> QED BY <2>2, <2>3
<1> HIDE DEF G
<1>2. S \in G
  BY <1>1, Descent
<1> QED BY <1>2 DEF G

\* What is in order next to each other is in order.
LEMMA InOrder ==
    ASSUME NEW L \in Nat, NEW n \in [1..L -> Nat], \A i \in 1..L - 1 : n[i] >= n[i + 1]
    PROVE  \A i, j \in 1..L : i <= j => n[i] >= n[j]
<1> SUFFICES ASSUME NEW i \in 1..L, NEW k \in 1..L, i <= k, n[k] > n[i] PROVE FALSE
  OBVIOUS
<1> DEFINE S == {j \in i..L : n[j] > n[i]}
<1>1. S \in SUBSET Nat /\ k \in S
  OBVIOUS
<1>2. IsFiniteSet(S)
  <2>1. IsFiniteSet(i..L)
    BY FS_Interval
  <2> QED BY <2>1, FS_Subset
<1> HIDE DEF S
<1>3. PICK m \in S : \A x \in S : m <= x
  BY <1>1, <1>2, LeastOf
<1> USE DEF S
<1>4. m \in i..L /\ n[m] > n[i] /\ m # i
  BY <1>3
<1>5. m - 1 \in i..L /\ m - 1 \in 1..L - 1 /\ (m - 1) + 1 = m
  BY <1>4
<1>6. n[m - 1] >= n[m]
  BY <1>5
<1>7. m - 1 \in S
  BY <1>4, <1>5, <1>6
<1> QED BY <1>3, <1>5, <1>7

\* The smaller of two.
LEMMA MinOf ==
    ASSUME NEW a \in Nat, NEW b \in Nat
    PROVE  Min({a, b}) = IF a <= b THEN a ELSE b
<1>1. \E x \in {a, b} : \A y \in {a, b} : x <= y
  OBVIOUS
<1>2. Min({a, b}) \in {a, b} /\ \A y \in {a, b} : Min({a, b}) <= y
  BY <1>1 DEF Min
<1> QED BY <1>2

\* A one-to-one function onto a set counts it.
LEMMA Counted ==
    ASSUME NEW S, NEW T, IsFiniteSet(S), NEW f \in [S -> T],
           \A x, y \in S : f[x] = f[y] => x = y, \A t \in T : \E x \in S : f[x] = t
    PROVE  IsFiniteSet(T) /\ Cardinality(T) = Cardinality(S)
<1>1. f \in Bijection(S, T)
  BY DEF Bijection, Injection, Surjection, IsInjective
<1> QED BY <1>1, FS_Bijection DEF ExistsBijection

\* The first m of a sequence.
LEMMA FirstOf ==
    ASSUME NEW E, NEW N \in Nat, NEW p \in [1..N -> E], NEW m \in 0..N
    PROVE  /\ Len(SubSeq(p, 1, m)) = m /\ DOMAIN SubSeq(p, 1, m) = 1..m
           /\ \A i \in 1..m : SubSeq(p, 1, m)[i] = p[i] /\ i \in 1..N /\ p[i] \in E
<1>1. m \in Int /\ 1 \in Int /\ \A i \in 1..m : i \in 1..N /\ p[i] \in E
  OBVIOUS
<1> DEFINE s == SubSeq(p, 1, m)
<1>2. /\ s \in Seq(E) /\ Len(s) = IF 1 <= m THEN m - 1 + 1 ELSE 0
      /\ \A i \in 1..m - 1 + 1 : s[i] = p[1 + i - 1]
  BY <1>1, SubSeqProperties
<1> HIDE DEF s
<1>3. Len(s) = m /\ DOMAIN s = 1..m
  <2>1. Len(s) = m
    BY <1>2
  <2> QED BY <1>2, <2>1
<1>4. \A i \in 1..m : s[i] = p[i]
  <2> TAKE i \in 1..m
  <2>1. i \in 1..m - 1 + 1 /\ 1 + i - 1 = i
    OBVIOUS
  <2> QED BY <1>2, <2>1
<1> QED BY <1>1, <1>3, <1>4 DEF s

\* TopOf, with a function in the place of its operator.
TopBy(list, K, g) ==
    LET listed == {list[i].key : i \in DOMAIN list}
        used   == {k \in K : g[k] > 0}
    IN  /\ listed \subseteq K
        /\ Len(list) = Min({TOP_N, Cardinality(used)}) /\ Cardinality(listed) = Len(list)
        /\ \A i \in DOMAIN list : list[i].n = g[list[i].key]
        /\ \A i \in 1..Len(list) - 1 : list[i].n >= list[i + 1].n
        /\ \A k \in used \ listed, j \in listed : g[k] <= g[j]

\* The entry of a key, when it has one.
EntryOf(k, g) == [key |-> k, at |-> 1, n |-> g[k]]

\* The first entries of a map in an order of theirs are its top list.
LEMMA Ranked ==
    ASSUME NEW K, NEW g \in [K -> Nat], NEW U, U = {k \in K : g[k] > 0}, IsFiniteSet(U),
           NEW E, E = {EntryOf(k, g) : k \in U}, NEW p \in SetToSeqs(E),
           \A i \in 1..Len(p) - 1 : p[i].n >= p[i + 1].n,
           NEW list, list = SubSeq(p, 1, Min({TOP_N, Len(p)}))
    PROVE  TopBy(list, K, g)
<1>a. \A k \in U : EntryOf(k, g).key = k /\ EntryOf(k, g).n = g[k] /\ k \in K /\ g[k] \in Nat
  BY DEF EntryOf
<1>b. \A e \in E : e.key \in U /\ e = EntryOf(e.key, g) /\ e.n = g[e.key] /\ e.n \in Nat
  BY <1>a
<1> DEFINE N == Cardinality(U)
<1>1. N \in Nat /\ IsFiniteSet(E) /\ Cardinality(E) = N
  <2> DEFINE f == [k \in U |-> EntryOf(k, g)]
  <2>1. f \in [U -> E] /\ \A x, y \in U : f[x] = f[y] => x = y
    BY <1>a
  <2>2. \A t \in E : \E x \in U : f[x] = t
    OBVIOUS
  <2> HIDE DEF f
  <2>3. IsFiniteSet(E) /\ Cardinality(E) = N
    BY ONLY <2>1, <2>2, IsFiniteSet(U), Counted DEF N
  <2> QED BY <2>3, FS_CardinalityType
<1>2. p \in [1..N -> E] /\ \A i, j \in 1..N : i # j => p[i] # p[j]
  BY <1>1 DEF SetToSeqs
<1> HIDE DEF N
<1>3. p \in Seq(E) /\ Len(p) = N
  BY <1>1, <1>2
<1>4. \A e \in E : \E i \in 1..N : p[i] = e
  <2>1. p \in Injection(1..N, E)
    BY <1>2 DEF Injection, IsInjective
  <2>2. Cardinality(1..N) = Cardinality(E)
    BY <1>1, FS_Interval
  <2>3. p \in Surjection(1..N, E)
    BY <1>1, <2>1, <2>2, FS_Injection
  <2> QED BY <2>3 DEF Surjection
<1>5. \A i, j \in 1..N : i <= j => p[i].n >= p[j].n
  <2> DEFINE n == [i \in 1..N |-> p[i].n]
  <2>1. n \in [1..N -> Nat]
    BY <1>b, <1>2
  <2>2. \A i \in 1..N - 1 : n[i] >= n[i + 1]
    <3>1. \A i \in 1..N - 1 : i \in 1..N /\ i + 1 \in 1..N
      BY <1>1
    <3> QED BY <1>3, <3>1
  <2> HIDE DEF n
  <2>3. \A i, j \in 1..N : i <= j => n[i] >= n[j]
    BY <1>1, <2>1, <2>2, InOrder
  <2> QED BY <2>3 DEF n
<1> DEFINE m == Min({TOP_N, N})
<1>6. m \in 0..N /\ TOP_N \in Nat /\ (m < N => m = TOP_N /\ m > 0)
  BY <1>1, MinOf, LogAssumption
<1> HIDE DEF m
<1>7. list = SubSeq(p, 1, m) /\ m = Min({TOP_N, Cardinality(U)})
  BY <1>3 DEF m, N
<1>8. /\ Len(list) = m /\ DOMAIN list = 1..m
      /\ \A i \in 1..m : list[i] = p[i] /\ i \in 1..N /\ p[i] \in E
  <2>1. N \in Nat /\ m \in 0..N /\ p \in [1..N -> E]
    BY <1>1, <1>2, <1>6
  <2>2. /\ Len(SubSeq(p, 1, m)) = m /\ DOMAIN SubSeq(p, 1, m) = 1..m
        /\ \A i \in 1..m : SubSeq(p, 1, m)[i] = p[i] /\ i \in 1..N /\ p[i] \in E
    BY ONLY <2>1, FirstOf
  <2> QED BY ONLY <2>2, <1>7, Zenon
<1> DEFINE listed == {list[i].key : i \in DOMAIN list}
<1>9. \A i \in 1..m : list[i] = p[i] /\ i \in 1..N /\ p[i] \in E
  BY <1>8
<1>10. Cardinality(listed) = m
  <2> DEFINE f == [i \in 1..m |-> list[i].key]
  <2>1. ASSUME NEW i \in 1..m, NEW j \in 1..m, f[i] = f[j] PROVE i = j
    <3>1. p[i].key = p[j].key
      BY <1>9, <2>1
    <3>2. p[i] = p[j]
      BY <1>b, <1>9, <3>1
    <3> QED BY <1>2, <1>9, <3>2
  <2>2. f \in [1..m -> listed] /\ \A k \in listed : \E i \in 1..m : f[i] = k
    BY <1>8
  <2>3. IsFiniteSet(1..m) /\ Cardinality(1..m) = m
    <3>1. m \in Nat
      BY ONLY <1>1, <1>6
    <3> QED BY ONLY <3>1, FS_Interval
  <2> HIDE DEF f, listed
  <2> QED BY <2>1, <2>2, <2>3, Counted
<1>11. \A i \in DOMAIN list : list[i].n = g[list[i].key]
  BY <1>b, <1>8, <1>9
<1>12. \A i \in 1..m - 1 : list[i].n >= list[i + 1].n
  <2>1. \A i \in 1..m - 1 : i \in 1..m /\ i + 1 \in 1..m /\ i <= i + 1
    BY <1>6
  <2> QED BY <1>5, <1>9, <2>1
<1>13. ASSUME NEW k \in U \ listed, NEW j \in listed PROVE g[k] <= g[j]
  <2>1. PICK i \in 1..m : j = list[i].key
    BY <1>8
  <2>2. PICK x \in 1..N : p[x] = EntryOf(k, g)
    BY <1>4
  <2>3. x > m
    <3>1. x \in 1..m => list[x].key = k
      BY <1>a, <1>9, <2>2
    <3>2. x \notin 1..m
      BY <1>8, <3>1
    <3> QED BY ONLY x \in 1..N, <1>1, <1>6, <3>2
  <2>4. p[i].n >= p[x].n
    BY <1>5, <1>6, <1>9, <2>3
  <2>5. p[i].n = g[j] /\ p[i].n \in Nat /\ p[x].n = g[k] /\ g[k] \in Nat
    BY <1>a, <1>b, <1>9, <2>1, <2>2
  <2> QED BY <2>4, <2>5
<1>15. listed \subseteq K
  <2>1. \A i \in 1..m : list[i].key \in U
    BY <1>b, <1>9
  <2>2. U \subseteq K
    OBVIOUS
  <2> QED BY ONLY <2>1, <2>2, <1>8
<1> HIDE DEF listed
<1>14. \A k \in U \ listed, j \in listed : g[k] <= g[j]
  BY <1>13
<1> QED BY <1>7, <1>8, <1>10, <1>11, <1>12, <1>14, <1>15 DEF TopBy, listed

\* A map with one entry at most per key, of value g.
MapOf(m, K, g) ==
    /\ m \in [K -> Seq(Nat)] /\ g \in [K -> Nat]
    /\ \A k \in K : OneEntry(m[k]) /\ Value(m[k]) = g[k]

\* Its entries.
LEMMA EntriesAre ==
    ASSUME NEW K, NEW m, NEW g, MapOf(m, K, g)
    PROVE  \A e : e \in Entries(m) <=> \E k \in K : g[k] > 0 /\ e = EntryOf(k, g)
<1> USE DEF MapOf
<1>1. ASSUME NEW k \in K
      PROVE  /\ DOMAIN m[k] = IF g[k] > 0 THEN {1} ELSE {}
             /\ g[k] > 0 => m[k][1] = g[k]
  <2>1. m[k] \in Seq(Nat) /\ Len(m[k]) <= 1 /\ (m[k] # <<>> => m[k][1] > 0) /\ Value(m[k]) = g[k]
    BY DEF OneEntry
  <2>2. CASE m[k] = <<>>
    BY <2>1, <2>2 DEF Value
  <2>3. CASE m[k] # <<>>
    <3>1. Len(m[k]) \in Nat \ {0} /\ DOMAIN m[k] = 1..Len(m[k])
      BY <2>1, <2>3, EmptySeq, LenProperties
    <3>2. Len(m[k]) = 1
      BY <2>1, <3>1
    <3>3. DOMAIN m[k] = {1}
      BY <3>1, <3>2
    <3> QED BY <2>1, <2>3, <3>3 DEF Value
  <2> QED BY <2>2, <2>3
<1>2. DOMAIN m = K
  OBVIOUS
<1>3. ASSUME NEW e
      PROVE  e \in Entries(m) <=> \E k \in K : g[k] > 0 /\ e = EntryOf(k, g)
  <2>1. e \in Entries(m)
        <=> \E k \in K : \E i \in DOMAIN m[k] : e = [key |-> k, at |-> i, n |-> m[k][i]]
    BY <1>2 DEF Entries
  <2>2. ASSUME NEW k \in K
        PROVE  (\E i \in DOMAIN m[k] : e = [key |-> k, at |-> i, n |-> m[k][i]])
               <=> g[k] > 0 /\ e = EntryOf(k, g)
    BY <1>1 DEF EntryOf
  <2> QED BY <2>1, <2>2
<1> QED BY <1>3

\* The values of a function on a finite set.
LEMMA FiniteImage ==
    ASSUME NEW S, IsFiniteSet(S), NEW f, DOMAIN f = S, NEW U, \A u \in U : \E x \in S : f[x] = u
    PROVE  IsFiniteSet(U)
<1> DEFINE T == {f[x] : x \in S}
           h == [x \in S |-> f[x]]
<1>1. h \in Surjection(S, T)
  BY DEF Surjection
<1>2. IsFiniteSet(T)
  BY <1>1, FS_Surjection
<1>3. U \subseteq T
  OBVIOUS
<1> QED BY <1>2, <1>3, FS_Subset

\* Traffic and Uses as functions.
TrafficOf == [k \in Url |-> SumOn(ByteOf, {c \in counted : LineOf(c).url = k})]
UsesOf    == [k \in Ref |-> Cardinality({c \in counted : LineOf(c).ref = k})]

\* The traffic of each URL and the uses of each referer, as functions.
LEMMA TrafficIs ==
    ASSUME QInv
    PROVE  /\ TrafficOf \in [Url -> Nat] /\ \A k \in Url : Traffic(k) = TrafficOf[k]
           /\ UsesOf \in [Ref -> Nat] /\ \A k \in Ref : Uses(k) = UsesOf[k]
           /\ IsFiniteSet({k \in Url : TrafficOf[k] > 0}) /\ IsFiniteSet({k \in Ref : UsesOf[k] > 0})
<1>1. counted \in SUBSET Lines /\ IsFiniteSet(counted) /\ files \in Log
  BY DEF QInv, HistInv, TypeOK
<1>2. \A c \in Lines : ByteOf[c] \in Nat
  BY <1>1, LinesType DEF ByteOf, Bytes, LineOf
<1>3. ASSUME NEW k \in Url
      PROVE  TrafficOf[k] \in Nat /\ Traffic(k) = TrafficOf[k]
  <2> DEFINE S == {c \in counted : LineOf(c).url = k}
  <2>1. S \in SUBSET counted /\ IsFiniteSet(S) /\ \A c \in S : ByteOf[c] \in Nat
    BY <1>1, <1>2, FS_Subset
  <2>2. TrafficOf[k] = SumOn(ByteOf, S) /\ Traffic(k) = MapThenSumSet(Bytes, S)
    BY DEF TrafficOf, Traffic, LineOf
  <2> HIDE DEF S
  <2>3. SumOn(ByteOf, S) \in Nat
    BY <2>1, SumType
  <2> QED BY <2>1, <2>2, <2>3, BytesSum
<1>4. ASSUME NEW k \in Ref
      PROVE  UsesOf[k] \in Nat /\ Uses(k) = UsesOf[k]
  <2>1. IsFiniteSet({c \in counted : LineOf(c).ref = k})
    BY <1>1, FS_Subset
  <2>2. Cardinality({c \in counted : LineOf(c).ref = k}) \in Nat
    BY <2>1, FS_CardinalityType
  <2> QED BY <2>2 DEF UsesOf, Uses, LineOf
<1>5. IsFiniteSet({k \in Url : TrafficOf[k] > 0})
  <2> DEFINE f == [c \in counted |-> LineOf(c).url]
  <2>1. ASSUME NEW k \in Url, TrafficOf[k] > 0 PROVE \E c \in counted : f[c] = k
    <3>1. SumOn(ByteOf, {}) = 0
      BY FS_EmptySet, SumStep
    <3>2. {c \in counted : LineOf(c).url = k} # {}
      <4>1. TrafficOf[k] = SumOn(ByteOf, {c \in counted : LineOf(c).url = k})
        BY DEF TrafficOf
      <4> QED BY <2>1, <3>1, <4>1
    <3> QED BY <3>2
  <2>2. DOMAIN f = counted
    OBVIOUS
  <2> HIDE DEF f
  <2> QED BY <1>1, <2>1, <2>2, FiniteImage
<1>6. IsFiniteSet({k \in Ref : UsesOf[k] > 0})
  <2> DEFINE f == [c \in counted |-> LineOf(c).ref]
  <2>1. ASSUME NEW k \in Ref, UsesOf[k] > 0 PROVE \E c \in counted : f[c] = k
    <3>1. {c \in counted : LineOf(c).ref = k} # {}
      BY <2>1, FS_EmptySet DEF UsesOf
    <3> QED BY <3>1
  <2>2. DOMAIN f = counted
    OBVIOUS
  <2> HIDE DEF f
  <2> QED BY <1>1, <2>1, <2>2, FiniteImage
<1>7. TrafficOf \in [Url -> Nat] /\ UsesOf \in [Ref -> Nat]
  <2>1. TrafficOf = [k \in Url |-> TrafficOf[k]] /\ UsesOf = [k \in Ref |-> UsesOf[k]]
    BY DEF TrafficOf, UsesOf
  <2> QED BY <1>3, <1>4, <2>1
<1> QED BY <1>3, <1>4, <1>5, <1>6, <1>7

\* The numbers that qsort compares.
LEMMA Numbers ==
    ASSUME NEW K, NEW g \in [K -> Nat], NEW U \in SUBSET K, IsFiniteSet(U),
           NEW p \in SetToSeqs({EntryOf(k, g) : k \in U})
    PROVE  \A i \in 1..Len(p) - 1 : p[i].n \in Nat /\ p[i + 1].n \in Nat
<1> DEFINE E == {EntryOf(k, g) : k \in U}
           f == [k \in U |-> EntryOf(k, g)]
           N == Cardinality(E)
<1>1. N \in Nat
  <2>1. \A e \in E : \E k \in U : f[k] = e
    OBVIOUS
  <2>2. DOMAIN f = U
    OBVIOUS
  <2> HIDE DEF f, E
  <2> QED BY <2>1, <2>2, FiniteImage, FS_CardinalityType
<1>2. \A e \in E : e.n \in Nat
  BY DEF EntryOf
<1>3. p \in [1..N -> E]
  BY DEF SetToSeqs
<1> HIDE DEF E, N
<1>4. Len(p) = N
  BY <1>1, <1>3
<1> TAKE i \in 1..Len(p) - 1
<1>5. i \in 1..N /\ i + 1 \in 1..N
  BY <1>1, <1>4
<1> QED BY <1>2, <1>3, <1>5

\* What main prints of the URLs is a top list.
LEMMA UrlsRanked ==
    ASSUME BInv, mpc = "urls", NEW p, p \in SetToSeqs(Entries(urls)),
           \A i \in 1..Len(p) - 1 : CmpUrl(p[i], p[i + 1]) <= 0
    PROVE  TopBy(SubSeq(p, 1, Min({TOP_N, Len(p)})), Url, TrafficOf)
<1>a. QInv /\ urls \in [Url -> Seq(Nat)]
  BY DEF BInv, QInv, TypeOK
<1>b. TrafficOf \in [Url -> Nat] /\ IsFiniteSet({k \in Url : TrafficOf[k] > 0})
  BY <1>a, TrafficIs
<1>1. \A k \in Url : OneEntry(urls[k]) /\ Value(urls[k]) = TrafficOf[k]
  BY <1>a, TrafficIs, SumsAtEnd
<1> DEFINE U == {k \in Url : TrafficOf[k] > 0}
           E == {EntryOf(k, TrafficOf) : k \in U}
<1>2. Entries(urls) = E
  <2>1. MapOf(urls, Url, TrafficOf)
    BY <1>a, <1>b, <1>1 DEF MapOf
  <2>2. \A e : e \in Entries(urls) <=> \E k \in Url : TrafficOf[k] > 0 /\ e = EntryOf(k, TrafficOf)
    BY <2>1, EntriesAre
  <2> QED BY <2>2
<1>3. p \in SetToSeqs(E)
  BY <1>2
<1>4. \A i \in 1..Len(p) - 1 : p[i].n \in Nat /\ p[i + 1].n \in Nat
  <2>1. U \in SUBSET Url
    OBVIOUS
  <2> QED BY <1>b, <1>3, <2>1, Numbers
<1>5. ASSUME NEW i \in 1..Len(p) - 1 PROVE p[i].n >= p[i + 1].n
  <2>1. CmpUrl(p[i], p[i + 1]) <= 0
    OBVIOUS
  <2>2. p[i].n \in Nat /\ p[i + 1].n \in Nat
    BY <1>4
  <2> QED BY ONLY <2>1, <2>2 DEF CmpUrl
<1> HIDE DEF U
<1>6. U = {k \in Url : TrafficOf[k] > 0} /\ IsFiniteSet(U)
  BY <1>b DEF U
<1> QED BY <1>b, <1>3, <1>5, <1>6, Ranked

\* So it is with the referers.
LEMMA RefsRanked ==
    ASSUME BInv, mpc = "refs", NEW p, p \in SetToSeqs(Entries(refs)),
           \A i \in 1..Len(p) - 1 : CmpRef(p[i], p[i + 1]) <= 0
    PROVE  TopBy(SubSeq(p, 1, Min({TOP_N, Len(p)})), Ref, UsesOf)
<1>a. QInv /\ refs \in [Ref -> Seq(Nat)]
  BY DEF BInv, QInv, TypeOK
<1>b. UsesOf \in [Ref -> Nat] /\ IsFiniteSet({k \in Ref : UsesOf[k] > 0})
  BY <1>a, TrafficIs
<1>1. \A k \in Ref : OneEntry(refs[k]) /\ Value(refs[k]) = UsesOf[k]
  BY <1>a, TrafficIs, SumsAtEnd
<1> DEFINE U == {k \in Ref : UsesOf[k] > 0}
           E == {EntryOf(k, UsesOf) : k \in U}
<1>2. Entries(refs) = E
  <2>1. MapOf(refs, Ref, UsesOf)
    BY <1>a, <1>b, <1>1 DEF MapOf
  <2>2. \A e : e \in Entries(refs) <=> \E k \in Ref : UsesOf[k] > 0 /\ e = EntryOf(k, UsesOf)
    BY <2>1, EntriesAre
  <2> QED BY <2>2
<1>3. p \in SetToSeqs(E)
  BY <1>2
<1>4. \A i \in 1..Len(p) - 1 : p[i].n \in Nat /\ p[i + 1].n \in Nat
  <2>1. U \in SUBSET Ref
    OBVIOUS
  <2> QED BY <1>b, <1>3, <2>1, Numbers
<1>5. ASSUME NEW i \in 1..Len(p) - 1 PROVE p[i].n >= p[i + 1].n
  <2>1. CmpRef(p[i], p[i + 1]) <= 0
    OBVIOUS
  <2>2. p[i].n \in Nat /\ p[i + 1].n \in Nat
    BY <1>4
  <2> QED BY ONLY <2>1, <2>2 DEF CmpRef
<1> HIDE DEF U
<1>6. U = {k \in Ref : UsesOf[k] > 0} /\ IsFiniteSet(U)
  BY <1>b DEF U
<1> QED BY <1>b, <1>3, <1>5, <1>6, Ranked

-----------------------------------------------------------------------------
(***************************************************************************)
(* The inductive invariant of the report: what was printed is the ranking  *)
(* of lines to which no worker adds any more.                              *)
(***************************************************************************)
TInv ==
    /\ BInv /\ DOMAIN top = {"url", "ref"}
    /\ mpc \in {"refs", "free"} => top.url = <<>> \/ TopBy(top.url, Url, TrafficOf)
    /\ mpc = "free" => top.ref = <<>> \/ TopBy(top.ref, Ref, UsesOf)

\* The rankings of the lines stay when the lines do.
LEMMA SameRanking == UNCHANGED <<files, counted>> => UNCHANGED <<TrafficOf, UsesOf>>
<1> SUFFICES ASSUME UNCHANGED <<files, counted>> PROVE UNCHANGED <<TrafficOf, UsesOf>>
  OBVIOUS
<1>1. \A c : LineOf(c)' = LineOf(c)
  BY DEF LineOf, Text
<1>2. ByteOf' = ByteOf
  BY DEF ByteOf, Bytes, Lines, LineOf, Text, Count
<1> QED BY <1>1, <1>2 DEF TrafficOf, UsesOf

\* A top list is printed of what is in the maps, and nothing is added later.
LEMMA TStep == TInv /\ [Next]_vars => TInv'
<1> SUFFICES ASSUME TInv, [Next]_vars PROVE TInv'
  OBVIOUS
<1>a. BInv /\ BInv' /\ QInv /\ DOMAIN top = {"url", "ref"}
  <2>1. BInv /\ QInv
    BY DEF TInv, BInv
  <2> QED BY <2>1, QStep, BookedStep, SectionStep DEF TInv, BInv
<1>1. CASE UNCHANGED <<files, counted, top>> /\ (mpc' = mpc \/ mpc' \notin {"refs", "free"})
  BY <1>1, <1>a, SameRanking DEF TInv
<1>2. CASE PrintUrls
  <2>1. PICK list \in Printable(Entries(urls), CmpUrl) \cup {<<>>} : top' = [top EXCEPT !.url = list]
    BY <1>2 DEF PrintUrls
  <2>2. mpc = "urls" /\ mpc' = "refs" /\ UNCHANGED <<files, counted>>
    BY <1>2 DEF PrintUrls, queue
  <2>3. DOMAIN top' = {"url", "ref"} /\ top'.url = list
    BY <2>1, <1>a
  <2>4. list = <<>> \/ TopBy(list, Url, TrafficOf)
    <3> SUFFICES ASSUME list \in Printable(Entries(urls), CmpUrl) PROVE TopBy(list, Url, TrafficOf)
      BY <2>1
    <3>1. \E p \in SetToSeqs(Entries(urls)) :
             /\ \A i \in 1..Len(p) - 1 : CmpUrl(p[i], p[i + 1]) <= 0
             /\ list = SubSeq(p, 1, Min({TOP_N, Len(p)}))
      BY DEF Printable
    <3> QED BY ONLY <3>1, <2>2, <1>a, UrlsRanked
  <2> QED BY <2>2, <2>3, <2>4, <1>a, SameRanking DEF TInv
<1>3. CASE PrintRefs
  <2>1. PICK list \in Printable(Entries(refs), CmpRef) \cup {<<>>} : top' = [top EXCEPT !.ref = list]
    BY <1>3 DEF PrintRefs
  <2>2. mpc = "refs" /\ mpc' = "free" /\ UNCHANGED <<files, counted>>
    BY <1>3 DEF PrintRefs, queue
  <2>3. DOMAIN top' = {"url", "ref"} /\ top'.ref = list /\ top'.url = top.url
    BY <2>1, <1>a
  <2>4. list = <<>> \/ TopBy(list, Ref, UsesOf)
    <3> SUFFICES ASSUME list \in Printable(Entries(refs), CmpRef) PROVE TopBy(list, Ref, UsesOf)
      BY <2>1
    <3>1. \E p \in SetToSeqs(Entries(refs)) :
             /\ \A i \in 1..Len(p) - 1 : CmpRef(p[i], p[i + 1]) <= 0
             /\ list = SubSeq(p, 1, Min({TOP_N, Len(p)}))
      BY DEF Printable
    <3> QED BY ONLY <3>1, <2>2, <1>a, RefsRanked
  <2> QED BY <2>2, <2>3, <2>4, <1>a, SameRanking DEF TInv
<1>4. ASSUME NEW w \in Worker, ReadLine(w) PROVE TInv'
  <2>1. mpc' = mpc /\ top' = top /\ pc[w] = "line"
    BY <1>4 DEF ReadLine
  <2>2. mpc \notin {"refs", "free"}
    BY <2>1, <1>a DEF QInv, EndInv
  <2> QED BY <2>1, <2>2, <1>a DEF TInv
<1>5. CASE UNCHANGED vars
  BY <1>5, <1>1 DEF vars, queue, hist
<1>6. CASE AllCreated \/ JoinAll \/ FreeMaps
  BY <1>6, <1>1 DEF AllCreated, JoinAll, FreeMaps, queue, hist
<1>7. ASSUME NEW w \in Worker, \/ Create(w) \/ WaitForFile(w) \/ SpuriousWakeup(w) \/ NoMoreFiles(w)
                               \/ TakeFile(w) \/ OpenFile(w) \/ NoMemory(w)
      PROVE  TInv'
  BY <1>7, <1>1 DEF Create, WaitForFile, SpuriousWakeup, NoMoreFiles, TakeFile, OpenFile, NoMemory,
                    queue, hist
<1>8. ASSUME NEW w \in Worker, \/ ReadTotal(w) \/ WriteTotal(w) \/ FindUrl(w) \/ FindRef(w)
                               \/ UrlMapAdd(w) \/ RefMapInc(w)
      PROVE  TInv'
  BY <1>8, <1>1 DEF ReadTotal, WriteTotal, FindUrl, FindRef, UrlMapAdd, RefMapInc, queue, hist
<1> QED BY <1>2, <1>3, <1>4, <1>5, <1>6, <1>7, <1>8 DEF Next, Main, Step

\* A top list by a function is one by the operator it stands for.
LEMMA TopFollows == TInv => TopRight
<1> SUFFICES ASSUME TInv, mpc = "free" PROVE TopRight
  BY DEF TopRight
<1>a. QInv
  BY DEF TInv, BInv
<1>1. ASSUME top.url # <<>> PROVE TopOf(top.url, Url, Traffic)
  <2> DEFINE list   == top.url
             listed == {list[i].key : i \in DOMAIN list}
             usedF  == {k \in Url : TrafficOf[k] > 0}
             used   == {k \in Url : Traffic(k) > 0}
  <2>1. TopBy(list, Url, TrafficOf)
    BY <1>1 DEF TInv
  <2>2. /\ listed \subseteq Url
        /\ Len(list) = Min({TOP_N, Cardinality(usedF)}) /\ Cardinality(listed) = Len(list)
        /\ \A i \in DOMAIN list : list[i].n = TrafficOf[list[i].key]
        /\ \A i \in 1..Len(list) - 1 : list[i].n >= list[i + 1].n
        /\ \A k \in usedF \ listed, j \in listed : TrafficOf[k] <= TrafficOf[j]
    BY <2>1 DEF TopBy
  <2>3. \A k \in Url : Traffic(k) = TrafficOf[k]
    BY <1>a, TrafficIs
  <2>4. used = usedF
    BY <2>3
  <2>5. \A i \in DOMAIN list : list[i].n = Traffic(list[i].key)
    BY <2>2, <2>3
  <2>6. \A k \in used \ listed, j \in listed : Traffic(k) <= Traffic(j)
    BY <2>2, <2>3, <2>4
  <2> QED BY <2>2, <2>4, <2>5, <2>6 DEF TopOf
<1>2. ASSUME top.ref # <<>> PROVE TopOf(top.ref, Ref, Uses)
  <2> DEFINE list   == top.ref
             listed == {list[i].key : i \in DOMAIN list}
             usedF  == {k \in Ref : UsesOf[k] > 0}
             used   == {k \in Ref : Uses(k) > 0}
  <2>1. TopBy(list, Ref, UsesOf)
    BY <1>2 DEF TInv
  <2>2. /\ listed \subseteq Ref
        /\ Len(list) = Min({TOP_N, Cardinality(usedF)}) /\ Cardinality(listed) = Len(list)
        /\ \A i \in DOMAIN list : list[i].n = UsesOf[list[i].key]
        /\ \A i \in 1..Len(list) - 1 : list[i].n >= list[i + 1].n
        /\ \A k \in usedF \ listed, j \in listed : UsesOf[k] <= UsesOf[j]
    BY <2>1 DEF TopBy
  <2>3. \A k \in Ref : Uses(k) = UsesOf[k]
    BY <1>a, TrafficIs
  <2>4. used = usedF
    BY <2>3
  <2>5. \A i \in DOMAIN list : list[i].n = Uses(list[i].key)
    BY <2>2, <2>3
  <2>6. \A k \in used \ listed, j \in listed : Uses(k) <= Uses(j)
    BY <2>2, <2>3, <2>4
  <2> QED BY <2>2, <2>4, <2>5, <2>6 DEF TopOf
<1> QED BY <1>1, <1>2 DEF TopRight

(***************************************************************************)
(* The report is right, whatever the workers did in whatever order: no     *)
(* file is left, no update of a sum is lost, a key has one entry, and what *)
(* main prints is the ranking of the lines that were parsed.               *)
(***************************************************************************)
THEOREM ReportRightHolds == Spec => []ReportRight
<1>1. Init => TInv
  BY BInit DEF Init, TInv
<1>2. TInv => ReportRight
  BY SumsFollow, TopFollows DEF TInv, ReportRight
<1> QED BY <1>1, <1>2, TStep, PTL DEF Spec
==============================================================================
