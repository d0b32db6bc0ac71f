------------------------------- MODULE LogReader -------------------------------
(***************************************************************************)
(* The web-log statistics program, 17_log_reader/main.c: worker threads    *)
(* take files from a FileQueue, parse them line by line and add to a byte  *)
(* counter, a map of URLs and a map of referers, each under a mutex of its *)
(* own.  main creates the workers, joins them, prints the TOP_N URLs and   *)
(* referers and frees the maps.                                            *)
(*                                                                         *)
(* The queue's critical section is one step.  Those of the counter and of  *)
(* the maps are two, the look and the update, with the mutex held between  *)
(* them.  A line is the record parse_log_line makes of it.                 *)
(***************************************************************************)
EXTENDS Integers, Sequences, FiniteSets, FiniteSetsExt, SequencesExt, Functions

CONSTANTS Worker,    \* the threads main creates (-t)
          Url, Ref,  \* URLs and referers
          TOP_N,     \* 10 in the code
          Log        \* the directories to choose from: sequences of files,
                     \* a file being a sequence of lines
NoUrl == "unparsable"

Line == [url : Url \cup {NoUrl}, bytes : Nat, ref : Ref]
ASSUME LogAssumption == Log \subseteq Seq(Seq(Line)) /\ TOP_N \in Nat \ {0}

\* main refuses a number of threads below 1, and no thread is Nobody.
Nobody == "nobody"
ASSUME WorkerAssumption == Worker # {} /\ Nobody \notin Worker

VARIABLES
    files,             \* queue.files
    next, finished,    \* the rest of queue
    total_bytes,
    urls, refs,        \* per key, the values of its entries, newest first
    owner,             \* per mutex of "total", "url", "ref": its holder
    mpc,               \* main: "create", "join", "urls", "refs", "free", or "exit"
    pc, idx, pos,      \* per worker: where it is, its file, its line
    seen,              \* per worker: what it read inside a critical section
    taken, counted,    \* history: who took each file; the lines parsed
    top                \* what main printed of URLs and of referers

queue  == <<files, next, finished>>
data   == <<total_bytes, urls, refs, owner>>
worker == <<pc, idx, pos, seen>>
hist   == <<taken, counted, top>>
vars   == <<queue, data, mpc, worker, hist>>

Count == Len(files)
Text(f) == files[f + 1]                    \* files are numbered from 0
Current(w) == Text(idx[w])[pos[w]]

Init ==
    /\ files \in Log /\ next = 0 /\ finished = FALSE
    /\ total_bytes = 0
    /\ urls = [u \in Url |-> <<>>] /\ refs = [r \in Ref |-> <<>>]
    /\ owner = [m \in {"total", "url", "ref"} |-> Nobody]
    /\ mpc = "create"
    /\ pc = [w \in Worker |-> "none"] /\ idx = [w \in Worker |-> 0]
    /\ pos = [w \in Worker |-> 1] /\ seen = [w \in Worker |-> 0]
    /\ taken = [f \in 0..Count - 1 |-> {}] /\ counted = {}
    /\ top = [url |-> <<>>, ref |-> <<>>]

Alive == mpc # "exit"
Goto(w, from, to) == Alive /\ pc[w] = from /\ pc' = [pc EXCEPT ![w] = to]

-----------------------------------------------------------------------------
\* main creates the workers one by one while the first of them already run.
Create(w) ==
    /\ mpc = "create" /\ pc[w] = "none"
    /\ pc' = [pc EXCEPT ![w] = "queue"]
    /\ UNCHANGED <<queue, data, mpc, idx, pos, seen, hist>>

\* Mutant: no broadcast.
WokenNobody(p) == p
\* pthread_cond_broadcast on the queue.
Woken(p) == [w \in Worker |-> IF p[w] = "wait" THEN "queue" ELSE p[w]]

\* An empty directory has no last file whose taker would end the others.
AllCreated ==
    /\ mpc = "create" /\ \A w \in Worker : pc[w] # "none"
    /\ mpc' = "join"
    /\ IF Count = 0 THEN finished' = TRUE /\ pc' = Woken(pc)
                    ELSE UNCHANGED <<finished, pc>>
    /\ UNCHANGED <<files, next, data, idx, pos, seen, hist>>

JoinAll ==
    /\ mpc = "join" /\ \A w \in Worker : pc[w] = "done"
    /\ mpc' = "urls"
    /\ UNCHANGED <<queue, data, worker, hist>>

-----------------------------------------------------------------------------
WaitForFile(w) ==
    /\ Goto(w, "queue", "wait")
    /\ next >= Count /\ ~finished
    /\ UNCHANGED <<queue, data, mpc, idx, pos, seen, hist>>

SpuriousWakeup(w) ==
    /\ Goto(w, "wait", "queue")
    /\ UNCHANGED <<queue, data, mpc, idx, pos, seen, hist>>

NoMoreFiles(w) ==
    /\ Goto(w, "queue", "done")
    /\ finished /\ next >= Count
    /\ UNCHANGED <<queue, data, mpc, idx, pos, seen, hist>>

\* Mutant: the next file may be one past the last.
HasFileOrOnePast == next <= Count
\* There is a file to take.
HasFile == next < Count

\* Mutant: nobody ends the queue.
TakeFileOnly(w) ==
    /\ Goto(w, "queue", "open") /\ HasFile
    /\ idx' = [idx EXCEPT ![w] = next] /\ next' = next + 1
    /\ taken' = [taken EXCEPT ![next] = @ \cup {w}]
    /\ UNCHANGED <<files, finished, data, mpc, pos, seen, counted, top>>

\* Whoever takes the last file ends the queue and wakes the others.
TakeFile(w) ==
    /\ Alive /\ pc[w] = "queue" /\ HasFile
    /\ idx' = [idx EXCEPT ![w] = next] /\ next' = next + 1
    /\ IF next = Count - 1
       THEN finished' = TRUE /\ pc' = [Woken(pc) EXCEPT ![w] = "open"]
       ELSE pc' = [pc EXCEPT ![w] = "open"] /\ UNCHANGED finished
    /\ taken' = [taken EXCEPT ![next] = @ \cup {w}]
    /\ UNCHANGED <<files, data, mpc, pos, seen, counted, top>>

\* fopen, or its failure: the file is skipped.
OpenFile(w) ==
    /\ Goto(w, "open", "line") \/ Goto(w, "open", "queue")
    /\ pos' = [pos EXCEPT ![w] = 1]
    /\ UNCHANGED <<queue, data, mpc, idx, seen, hist>>

\* fgets and parse_log_line, which refuses a line it cannot parse and one it
\* has no memory for.
ReadLine(w) ==
    /\ Alive /\ pc[w] = "line"
    /\ IF pos[w] > Len(Text(idx[w]))
       THEN pc' = [pc EXCEPT ![w] = "queue"] /\ UNCHANGED <<pos, counted>>
       ELSE \/ /\ Current(w).url # NoUrl
               /\ pc' = [pc EXCEPT ![w] = IF Current(w).bytes > 0 THEN "total" ELSE "ref"]
               /\ counted' = counted \cup {<<idx[w], pos[w]>>}
               /\ UNCHANGED pos
            \/ pos' = [pos EXCEPT ![w] = @ + 1] /\ UNCHANGED <<pc, counted>>
    /\ UNCHANGED <<queue, data, mpc, idx, seen, taken, top>>

-----------------------------------------------------------------------------
\* Enter and leave the critical section of mutex m.
Enter(w, m) == owner[m] = Nobody /\ owner' = [owner EXCEPT ![m] = w]
Leave(m)    == owner' = [owner EXCEPT ![m] = Nobody]

\* total_bytes += bytes reads and then writes.
ReadTotal(w) ==
    /\ Goto(w, "total", "total2") /\ Enter(w, "total")
    /\ seen' = [seen EXCEPT ![w] = total_bytes]
    /\ UNCHANGED <<queue, total_bytes, urls, refs, mpc, idx, pos, hist>>

WriteTotal(w) ==
    /\ Goto(w, "total2", "url") /\ Leave("total")
    /\ total_bytes' = seen[w] + Current(w).bytes
    /\ UNCHANGED <<queue, urls, refs, mpc, idx, pos, seen, hist>>

\* The search of a chain: how many entries the key has.
FindUrl(w) ==
    /\ Goto(w, "url", "url2") /\ Enter(w, "url")
    /\ seen' = [seen EXCEPT ![w] = Len(urls[Current(w).url])]
    /\ UNCHANGED <<queue, total_bytes, urls, refs, mpc, idx, pos, hist>>

FindRef(w) ==
    /\ Goto(w, "ref", "ref2") /\ Enter(w, "ref")
    /\ seen' = [seen EXCEPT ![w] = Len(refs[Current(w).ref])]
    /\ UNCHANGED <<queue, total_bytes, urls, refs, mpc, idx, pos, hist>>

\* Mutant: no return after the entry found was updated.
AddedAndNew(entries, found, n) ==
    IF found > 0 THEN <<n>> \o [entries EXCEPT ![1] = @ + n] ELSE <<n>> \o entries
\* Add n to the entry found, or put a new entry before the others.
Added(entries, found, n) ==
    IF found > 0 THEN [entries EXCEPT ![1] = @ + n] ELSE <<n>> \o entries

UrlMapAdd(w) ==
    /\ Goto(w, "url2", "ref") /\ Leave("url")
    /\ urls' = [urls EXCEPT ![Current(w).url] = Added(@, seen[w], Current(w).bytes)]
    /\ UNCHANGED <<queue, total_bytes, refs, mpc, idx, pos, seen, hist>>

RefMapInc(w) ==
    /\ Goto(w, "ref2", "line") /\ Leave("ref")
    /\ refs' = [refs EXCEPT ![Current(w).ref] = Added(@, seen[w], 1)]
    /\ pos' = [pos EXCEPT ![w] = @ + 1]
    /\ UNCHANGED <<queue, total_bytes, urls, mpc, idx, seen, hist>>

\* collect_urls and collect_refs: every entry of a map, with its value.
Entries(m) == UNION {{[key |-> k, at |-> i, n |-> m[k][i]] : i \in DOMAIN m[k]} : k \in DOMAIN m}

\* cmp_url and cmp_ref
CmpUrl(a, b) == IF b.n > a.n THEN 1 ELSE IF b.n < a.n THEN -1 ELSE 0
CmpRef(a, b) == b.n - a.n

\* What can be printed of E: its first TOP_N in an order qsort can give it.
Printable(E, Cmp(_, _)) ==
    {SubSeq(p, 1, Min({TOP_N, Len(p)})) :
        p \in {q \in SetToSeqs(E) : \A i \in 1..Len(q) - 1 : Cmp(q[i], q[i + 1]) <= 0}}

\* There is nothing to print of a map when there is no memory to collect it.
PrintUrls ==
    /\ mpc = "urls" /\ mpc' = "refs"
    /\ \E p \in Printable(Entries(urls), CmpUrl) \cup {<<>>} : top' = [top EXCEPT !.url = p]
    /\ UNCHANGED <<queue, data, worker, taken, counted>>

PrintRefs ==
    /\ mpc = "refs" /\ mpc' = "free"
    /\ \E p \in Printable(Entries(refs), CmpRef) \cup {<<>>} : top' = [top EXCEPT !.ref = p]
    /\ UNCHANGED <<queue, data, worker, taken, counted>>

\* url_map_free and ref_map_free: no entries are left.
Freed(m) == [k \in DOMAIN m |-> <<>>]

FreeMaps ==
    /\ mpc = "free" /\ mpc' = "exit"
    /\ urls' = Freed(urls) /\ refs' = Freed(refs)
    /\ UNCHANGED <<queue, total_bytes, owner, worker, hist>>

-----------------------------------------------------------------------------
\* No memory for a new entry: the mutex is released and the process exits.
NoMemory(w) ==
    /\ Alive /\ seen[w] = 0
    /\ \/ pc[w] = "url2" /\ Leave("url")
       \/ pc[w] = "ref2" /\ Leave("ref")
    /\ mpc' = "exit"
    /\ UNCHANGED <<queue, total_bytes, urls, refs, worker, hist>>

Step(w) ==
    \/ WaitForFile(w) \/ NoMoreFiles(w) \/ TakeFile(w) \/ OpenFile(w) \/ ReadLine(w)
    \/ ReadTotal(w) \/ WriteTotal(w) \/ FindUrl(w) \/ UrlMapAdd(w)
    \/ FindRef(w) \/ RefMapInc(w) \/ NoMemory(w)

Main == AllCreated \/ JoinAll \/ PrintUrls \/ PrintRefs \/ FreeMaps \/ \E w \in Worker : Create(w)

Next == Main \/ \E w \in Worker : Step(w) \/ SpuriousWakeup(w)

\* Threads that can run do run.
Fairness == WF_vars(Main) /\ \A w \in Worker : WF_vars(Step(w))

Spec == Init /\ [][Next]_vars /\ Fairness

-----------------------------------------------------------------------------
TypeOK ==
    /\ files \in Log /\ next \in 0..Count /\ finished \in BOOLEAN
    /\ total_bytes \in Nat
    /\ urls \in [Url -> Seq(Nat)] /\ refs \in [Ref -> Seq(Nat)]
    /\ owner \in [{"total", "url", "ref"} -> Worker \cup {Nobody}]
    /\ mpc \in {"create", "join", "urls", "refs", "free", "exit"}
    /\ pc \in [Worker -> {"none", "queue", "wait", "open", "line", "total", "total2",
                          "url", "url2", "ref", "ref2", "done"}]
    /\ idx \in [Worker -> Nat] /\ pos \in [Worker -> Nat \ {0}]
    /\ seen \in [Worker -> Nat]

(***************************************************************************)
(* No file is processed by two workers, and the queue ends exactly when    *)
(* its last file is taken: a worker that finds no file either is told to   *)
(* end or waits for main to announce the empty directory.                  *)
(***************************************************************************)
QueueExact ==
    /\ \A f \in DOMAIN taken : taken[f] # {} <=> f < next
    /\ \A f \in DOMAIN taken : \A v, w \in taken[f] : v = w
    /\ next >= Count /\ ~finished => Count = 0 /\ mpc \in {"create", "exit"}

Bytes(c) == Text(c[1])[c[2]].bytes
SumOf(entries) == SumFunction(entries)

\* The bytes of the parsed lines that name u; the number that name r.
Traffic(u) == MapThenSumSet(Bytes, {c \in counted : Text(c[1])[c[2]].url = u})
Uses(r) == Cardinality({c \in counted : Text(c[1])[c[2]].ref = r})

(***************************************************************************)
(* The sums are right: every file was taken, the total is the sum of the   *)
(* bytes of the lines that were parsed, a URL and a referer appear in one  *)
(* entry each, with the bytes and the number of the lines that name them,  *)
(* and so the bytes of the URLs add up to the total.                       *)
(***************************************************************************)
SumsRight ==
    mpc = "urls" =>
      /\ next = Count
      /\ total_bytes = MapThenSumSet(Bytes, counted)
      /\ \A u \in Url : /\ Len(urls[u]) <= 1
                        /\ SumOf(urls[u]) = Traffic(u)
      /\ \A r \in Ref : /\ Len(refs[r]) <= 1
                        /\ SumOf(refs[r]) = Uses(r)

\* The list names the keys of the greatest Value, in that order, each once and
\* with its value, and leaves none out for which there was a place.
TopOf(list, Key, Value(_)) ==
    LET listed == {list[i].key : i \in DOMAIN list}
        used   == {k \in Key : Value(k) > 0}
    IN  /\ Len(list) = Min({TOP_N, Cardinality(used)}) /\ Cardinality(listed) = Len(list)
        /\ \A i \in DOMAIN list : list[i].n = Value(list[i].key)
        /\ \A i \in 1..Len(list) - 1 : list[i].n >= list[i + 1].n
        /\ \A k \in used \ listed, j \in listed : Value(k) <= Value(j)

(***************************************************************************)
(* What is printed is the ranking of the lines that were parsed, though    *)
(* the workers filled the maps in any order and qsort orders ties in any   *)
(* way: a list is complete unless there was no memory to collect it.  With *)
(* the sums, that is the report.                                           *)
(***************************************************************************)
TopRight ==
    mpc = "free" =>
      /\ top.url # <<>> => TopOf(top.url, Url, Traffic)
      /\ top.ref # <<>> => TopOf(top.ref, Ref, Uses)

ReportRight == SumsRight /\ TopRight

\* The program ends: no worker waits for a wake-up that is already over.
Ends == <>(mpc = "exit")
==============================================================================
