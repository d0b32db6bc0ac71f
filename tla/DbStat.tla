-------------------------------- MODULE DbStat --------------------------------
(***************************************************************************)
(* dbstat, 29_dbstat/main.c: reads a column of a table and prints the      *)
(* count, sum, least, greatest and variance of its numbers.                *)
(*                                                                         *)
(* The client library is external: each of its calls may fail, and it      *)
(* counts the handles it gave out and got back.  A value of a row is an    *)
(* integer, NaN (which strtod reads), or something that is skipped: NULL,  *)
(* a text, or a number out of range.  Sums are exact.                      *)
(***************************************************************************)
EXTENDS Integers, Sequences, SequencesExt, FiniteSetsExt

CONSTANTS Number,    \* integers in the column
          NaN, Skipped,
          MaxRows    \* bound: rows of the table

DbAssumption ==
    /\ Number \subseteq Int /\ {NaN, Skipped} \cap Int = {} /\ NaN # Skipped /\ MaxRows \in Nat

VARIABLES
    rows,          \* the column
    phase,         \* "args", "init", "connect", "query", "rows", "print" or "end"
    status,        \* "running", "success" or "failure"
    conn, result,  \* whether these pointers are not NULL
    handles,       \* connections and results the library gave and did not get back
    fetched,       \* rows read
    first, stats   \* the local variables of process_rows

vars == <<rows, phase, status, conn, result, handles, fetched, first, stats>>

NoStats == [count |-> 0, skipped |-> 0, sum |-> 0, sum_sq |-> 0, min |-> 0, max |-> 0]

Init ==
    /\ rows \in SeqOf(Number \cup {NaN, Skipped}, MaxRows)
    /\ phase = "args" /\ status = "running" /\ conn = FALSE /\ result = FALSE
    /\ handles = [conn |-> 0, result |-> 0]
    /\ fetched = 0 /\ first = TRUE /\ stats = NoStats

-----------------------------------------------------------------------------
\* What remains of the handles when those the pointers have are given back.
GivenBack == [conn   |-> handles.conn - (IF conn THEN 1 ELSE 0),
              result |-> handles.result - (IF result THEN 1 ELSE 0)]

\* exit, or a return from main: the handler cleanup runs.
Exit(s) ==
    /\ phase' = "end" /\ status' = s /\ handles' = GivenBack
    /\ conn' = FALSE /\ result' = FALSE

\* parse_arguments and validate_identifiers; or there is no atexit.
ParseArguments ==
    /\ phase = "args"
    /\ \/ phase' = "init" /\ UNCHANGED <<status, conn, result, handles>>
       \/ Exit("failure")
    /\ UNCHANGED <<rows, fetched, first, stats>>

\* mysql_init
DbInit ==
    /\ phase = "init"
    /\ \/ /\ phase' = "connect" /\ conn' = TRUE
          /\ handles' = [handles EXCEPT !.conn = @ + 1]
          /\ UNCHANGED <<status, result>>
       \/ Exit("failure")
    /\ UNCHANGED <<rows, fetched, first, stats>>

\* mysql_real_connect, whose failure leaves conn to cleanup.
DbConnect ==
    /\ phase = "connect"
    /\ \/ phase' = "query" /\ UNCHANGED <<status, conn, result, handles>>
       \/ Exit("failure")
    /\ UNCHANGED <<rows, fetched, first, stats>>

\* snprintf of the query, mysql_query and mysql_store_result.
ExecuteQuery ==
    /\ phase = "query"
    /\ \/ /\ phase' = "rows" /\ result' = TRUE /\ handles' = [handles EXCEPT !.result = @ + 1]
          /\ UNCHANGED <<status, conn>>
       \/ Exit("failure")
    /\ UNCHANGED <<rows, fetched, first, stats>>

\* The result has other than one field, and is left to cleanup.
OtherFields ==
    /\ phase = "rows" /\ fetched = 0 /\ Exit("failure")
    /\ UNCHANGED <<rows, fetched, first, stats>>

Below(a, b) == a # NaN /\ b # NaN /\ a < b
Plus(a, b)  == IF NaN \in {a, b} THEN NaN ELSE a + b
Square(d)   == IF d = NaN THEN NaN ELSE d * d

\* Mutant: the extremes begin with zero.
CountedFromZero(d) ==
    [stats EXCEPT !.count = @ + 1, !.sum = Plus(@, d), !.sum_sq = Plus(@, Square(d)),
                  !.min = IF Below(d, @) THEN d ELSE @, !.max = IF Below(@, d) THEN d ELSE @]
\* A round of process_rows for a number.
Counted(d) ==
    [stats EXCEPT !.count = @ + 1, !.sum = Plus(@, d), !.sum_sq = Plus(@, Square(d)),
                  !.min = IF first \/ Below(d, @) THEN d ELSE @,
                  !.max = IF first \/ Below(@, d) THEN d ELSE @]

FetchRow ==
    /\ phase = "rows" /\ fetched < Len(rows) /\ fetched' = fetched + 1
    /\ LET d == rows[fetched'] IN
       IF d = Skipped
       THEN stats' = [stats EXCEPT !.skipped = @ + 1] /\ UNCHANGED first
       ELSE stats' = Counted(d) /\ first' = FALSE
    /\ UNCHANGED <<rows, phase, status, conn, result, handles>>

\* There are no more rows, or there were no numbers.
RowsEnd ==
    /\ phase = "rows" /\ fetched = Len(rows)
    /\ IF stats.count = 0
       THEN Exit("failure")
       ELSE phase' = "print" /\ UNCHANGED <<status, conn, result, handles>>
    /\ UNCHANGED <<rows, fetched, first, stats>>

\* print_statistics and the end of main, which gives the handles back itself
\* and leaves nothing to cleanup.
Finish ==
    /\ phase = "print" /\ phase' = "end" /\ status' = "success"
    /\ handles' = GivenBack /\ conn' = FALSE /\ result' = FALSE
    /\ UNCHANGED <<rows, fetched, first, stats>>

Next ==
    \/ ParseArguments \/ DbInit \/ DbConnect \/ ExecuteQuery \/ OtherFields
    \/ FetchRow \/ RowsEnd \/ Finish

Spec == Init /\ [][Next]_vars

-----------------------------------------------------------------------------
TypeOK ==
    /\ phase \in {"args", "init", "connect", "query", "rows", "print", "end"}
    /\ status \in {"running", "success", "failure"} /\ (status = "running" <=> phase # "end")
    /\ conn \in BOOLEAN /\ result \in BOOLEAN /\ first \in BOOLEAN
    /\ fetched \in 0..Len(rows)

\* Each handle is given back once, by whichever function fails; the pointers
\* know the handles that are still out.
HandlesGivenBack ==
    /\ handles.conn = (IF conn THEN 1 ELSE 0) /\ handles.result = (IF result THEN 1 ELSE 0)
    /\ phase = "end" => ~ conn /\ ~ result

(***************************************************************************)
(* What is printed are the statistics of the numbers of the column,        *)
(* wherever values that are no numbers stand among them, and each row is   *)
(* either counted or skipped.  The least and the greatest are only         *)
(* promised of columns without a NaN: one that comes first stays.          *)
(***************************************************************************)
StatsRight ==
    phase = "print" =>
      LET numbers == {i \in DOMAIN rows : rows[i] # Skipped}
          S       == {rows[i] : i \in numbers}
      IN  /\ stats.count = Cardinality(numbers) /\ stats.count + stats.skipped = Len(rows)
          /\ IF NaN \in S
             THEN stats.sum = NaN /\ stats.sum_sq = NaN
             ELSE /\ stats.sum = MapThenSumSet(LAMBDA i : rows[i], numbers)
                  /\ stats.sum_sq = MapThenSumSet(LAMBDA i : rows[i] * rows[i], numbers)
                  /\ stats.min = Min(S) /\ stats.max = Max(S)
==============================================================================
