------------------------------- MODULE AsmList -------------------------------
(***************************************************************************)
(* The list program of 09_assembler_homework, in assembler (asm/main.asm)  *)
(* and in C (main.c): a list is built of the data, printed by the          *)
(* recursive m, filtered by the recursive f into a second list, which is   *)
(* printed too; the C program then frees both.                             *)
(*                                                                         *)
(* Memory is the function cell from the addresses that malloc gave and     *)
(* nobody freed to elements.  malloc may fail: the assembler program       *)
(* aborts, the C program leaves the element out.  The recursive calls      *)
(* return without doing anything more, so a pointer says how far they are. *)
(***************************************************************************)
EXTENDS Integers, Sequences, SequencesExt, Functions

CONSTANT Data      \* data

VARIABLES
    language,      \* "C" or "asm"
    cell,          \* the elements by address
    fresh,         \* the next address malloc gives
    data_length,   \* elements of data that are not in the list yet
    head, newList, \* the lists
    at,            \* where m, f or deleteList is
    phase,         \* "build", "map", "filter", "mapNew", "delete", "deleteNew", "end"
    status,        \* "running", "done", "abort", or "crash" by an access to NULL
    out, outNew,   \* what was printed of each list
    failed         \* history: a malloc failed

memory == <<cell, fresh>>
lists  == <<data_length, head, newList>>
output == <<out, outNew>>
vars   == <<language, memory, lists, at, phase, status, output, failed>>

NULL == 0
IsOdd(x) == x % 2 = 1       \* p

\* Of the data of the code, no two are the same, and some are odd.
DataAssumption ==
    Data \in Seq(Int) /\ IsInjective(Data) /\ \E i \in DOMAIN Data : IsOdd(Data[i])

Init ==
    /\ language \in {"C", "asm"} /\ cell = <<>> /\ fresh = 1
    /\ data_length = Len(Data) /\ head = NULL /\ newList = NULL
    /\ at = NULL /\ phase = "build" /\ status = "running"
    /\ out = <<>> /\ outNew = <<>> /\ failed = FALSE

-----------------------------------------------------------------------------
\* malloc gives an element.
NewCell(e) == cell' = [x \in DOMAIN cell \cup {fresh} |-> IF x = fresh THEN e ELSE cell[x]]

\* Mutant: the next element of a new one is the one after the head.
PushSkips(x, list) ==
    NewCell([value |-> x, next |-> IF list = NULL THEN NULL ELSE cell[list].next])
\* A new element before list.
Push(x, list) == NewCell([value |-> x, next |-> list])

\* add_element, where list' is what it returns.
AddElement(x, list) ==
    \/ Push(x, list) /\ list' = fresh /\ fresh' = fresh + 1
       /\ UNCHANGED <<status, failed>>
    \/ /\ failed' = TRUE /\ UNCHANGED <<memory, list>>
       /\ status' = IF language = "C" THEN "running" ELSE "abort"

\* The loop of main, from the last element of data to the first.
Build ==
    /\ phase = "build" /\ status = "running" /\ data_length > 0
    /\ AddElement(Data[data_length], head)
    /\ data_length' = data_length - 1
    /\ UNCHANGED <<language, newList, at, phase, output>>

\* The call of m, f or deleteList for a list.
Begin(from, to, list) ==
    /\ phase = from /\ status = "running" /\ phase' = to /\ at' = list
    /\ UNCHANGED <<language, memory, lists, status, output, failed>>

BeginMap    == data_length = 0 /\ Begin("build", "map", head)
BeginFilter == at = NULL /\ Begin("map", "filter", head)
BeginMapNew == at = NULL /\ Begin("filter", "mapNew", newList)
BeginDelete == at = NULL /\ language = "C" /\ Begin("mapNew", "delete", head)

\* A call of m.
Map ==
    /\ status = "running" /\ at # NULL /\ at' = cell[at].next
    /\ \/ phase = "map" /\ out' = Append(out, cell[at].value) /\ UNCHANGED outNew
       \/ phase = "mapNew" /\ outNew' = Append(outNew, cell[at].value) /\ UNCHANGED out
    /\ UNCHANGED <<language, memory, lists, phase, status, failed>>

\* A call of f.
Filter ==
    /\ phase = "filter" /\ status = "running" /\ at # NULL
    /\ at' = cell[at].next
    /\ IF IsOdd(cell[at].value)
       THEN AddElement(cell[at].value, newList)
       ELSE UNCHANGED <<memory, newList, status, failed>>
    /\ UNCHANGED <<language, data_length, head, phase, output>>

Freed(x) == Restrict(cell, DOMAIN cell \ {x})

\* A round of deleteList, which frees the last element after the loop.  It
\* looks at the first element of a list that has none.
Delete ==
    /\ phase \in {"delete", "deleteNew"} /\ status = "running"
    /\ IF at = NULL
       THEN status' = "crash" /\ UNCHANGED <<cell, at, phase>>
       ELSE /\ cell' = Freed(at)
            /\ IF cell[at].next # NULL
               THEN at' = cell[at].next /\ UNCHANGED <<phase, status>>
               ELSE IF phase = "delete"
                    THEN at' = newList /\ phase' = "deleteNew" /\ UNCHANGED status
                    ELSE at' = NULL /\ phase' = "end" /\ status' = "done"
    /\ UNCHANGED <<language, fresh, lists, output, failed>>

\* The assembler program returns and leaves its memory to the system.
Return ==
    /\ phase = "mapNew" /\ at = NULL /\ language = "asm" /\ status = "running"
    /\ phase' = "end" /\ status' = "done"
    /\ UNCHANGED <<language, memory, lists, at, output, failed>>

Next ==
    \/ Build \/ BeginMap \/ Map \/ BeginFilter \/ Filter \/ BeginMapNew
    \/ BeginDelete \/ Delete \/ Return

Spec == Init /\ [][Next]_vars

-----------------------------------------------------------------------------
TypeOK ==
    /\ language \in {"C", "asm"} /\ DOMAIN cell \subseteq 1..fresh - 1
    /\ data_length \in 0..Len(Data) /\ at \in 0..fresh - 1
    /\ phase \in {"build", "map", "filter", "mapNew", "delete", "deleteNew", "end"}
    /\ status \in {"running", "done", "abort", "crash"} /\ failed \in BOOLEAN

(***************************************************************************)
(* Both programs print the data in its order, and its odd elements in the  *)
(* reverse order, since f puts each one before those it has found.  Of a C *)
(* program without memory, what is printed first are some of the data, and *)
(* then some of their odd elements.  No element is looked at that is free, *)
(* and nothing crashes but deleteList of a list that stayed empty.         *)
(***************************************************************************)
\* s is some of the elements of t, in their order.
Among(s, t) ==
    /\ Range(s) \subseteq Range(t)
    /\ \A i, j \in DOMAIN s : i < j =>
          \E k, l \in DOMAIN t : k < l /\ s[i] = t[k] /\ s[j] = t[l]

ListsRight ==
    /\ at # NULL /\ status = "running" => at \in DOMAIN cell
    /\ status = "done" =>
          /\ Among(out, Data) /\ Among(Reverse(outNew), out)
          /\ \A x \in Range(outNew) : IsOdd(x)
          /\ ~ failed => out = Data /\ {x \in Range(Data) : IsOdd(x)} \subseteq Range(outNew)
    /\ status = "crash" => failed /\ NULL \in {head, newList}

\* The C program frees every element of both lists once.
ElementsFreed == language = "C" /\ status = "done" => DOMAIN cell = {}
==============================================================================
