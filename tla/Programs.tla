-------------------------------- MODULE Programs --------------------------------
(***************************************************************************)
(* The programs of one process, of which prog runs: the word counter, the  *)
(* figlet client, the list of a ZIP archive, the statistics of a table and *)
(* the linked list.  Variables of the same name are those of the one that  *)
(* runs, and a variable of another one is Idle.                            *)
(***************************************************************************)
EXTENDS WordCount

CONSTANTS Char, Argv, Font, Banner, Art, Addresses, TEXT_SIZE, CMD_SIZE,
          EOCDR_SZ, CFH_SZ, LFH_SZ, W, MAX_COMMENT,
          Member, Prefix, Comment, Members, Value,
          Number, NaN, Skipped, MaxRows,
          Data, Idle

VARIABLES
    prog, status, out,
    argv, font, banner, art, text, left, stream, pos, lines, closed, last, missed,
    file, intact, comment_len, zip_file_offset, todo, offset, it, listed, reach,
    rows, conn, result, handles, fetched, first, stats,
    language, cell, fresh, data_length, head, newList, at, outNew, failed

wordVars   == <<hash, map, word, heap, nread, freq>>
figletVars == <<argv, font, banner, art, text, left, stream, pos, lines, closed, last, missed>>
zipVars    == <<file, intact, comment_len, zip_file_offset, todo, offset, it, listed, reach>>
dbVars     == <<rows, conn, result, handles, fetched, first, stats>>
listVars   == <<language, cell, fresh, data_length, head, newList, at, outNew, failed>>
allVars    == <<prog, phase, status, out, wordVars, figletVars, zipVars, dbVars, listVars>>

F == INSTANCE Figlet
Z == INSTANCE ZipList
D == INSTANCE DbStat
L == INSTANCE AsmList

ASSUME ProgramsAssumption ==
    F!FigletAssumption /\ Z!ZipAssumption /\ D!DbAssumption /\ L!DataAssumption

-----------------------------------------------------------------------------
WordsIdle == /\ hash = Idle /\ map = Idle /\ word = Idle /\ heap = Idle
             /\ nread = Idle /\ freq = Idle
FigletIdle == /\ argv = Idle /\ font = Idle /\ banner = Idle /\ art = Idle /\ text = Idle
              /\ left = Idle /\ stream = Idle /\ pos = Idle /\ lines = Idle
              /\ closed = Idle /\ last = Idle /\ missed = Idle
ZipIdle == /\ file = Idle /\ intact = Idle /\ comment_len = Idle /\ zip_file_offset = Idle
           /\ todo = Idle /\ offset = Idle /\ it = Idle /\ listed = Idle /\ reach = Idle
DbIdle == /\ rows = Idle /\ conn = Idle /\ result = Idle /\ handles = Idle
          /\ fetched = Idle /\ first = Idle /\ stats = Idle
ListIdle == /\ language = Idle /\ cell = Idle /\ fresh = Idle /\ data_length = Idle
            /\ head = Idle /\ newList = Idle /\ at = Idle /\ outNew = Idle /\ failed = Idle

ProgramsInit ==
    \/ /\ prog = "words" /\ Init /\ status = Idle /\ out = Idle
       /\ FigletIdle /\ ZipIdle /\ DbIdle /\ ListIdle
    \/ prog = "figlet" /\ F!Init /\ WordsIdle /\ ZipIdle /\ DbIdle /\ ListIdle
    \/ prog = "zip" /\ Z!Init /\ out = Idle /\ WordsIdle /\ FigletIdle /\ DbIdle /\ ListIdle
    \/ prog = "db" /\ D!Init /\ out = Idle /\ WordsIdle /\ FigletIdle /\ ZipIdle /\ ListIdle
    \/ prog = "list" /\ L!Init /\ WordsIdle /\ FigletIdle /\ ZipIdle /\ DbIdle

StepWords ==
    prog = "words" /\ Next /\ UNCHANGED <<prog, status, out, figletVars, zipVars, dbVars, listVars>>
StepZip ==
    prog = "zip" /\ Z!Next /\ UNCHANGED <<prog, out, wordVars, figletVars, dbVars, listVars>>
StepDb ==
    prog = "db" /\ D!Next /\ UNCHANGED <<prog, out, wordVars, figletVars, zipVars, listVars>>
StepList ==
    prog = "list" /\ L!Next /\ UNCHANGED <<prog, wordVars, figletVars, zipVars, dbVars>>

\* A step of the figlet client and its server.
OfFiglet(A) == prog = "figlet" /\ A /\ UNCHANGED <<prog, wordVars, zipVars, dbVars, listVars>>

ProgramsNext == StepWords \/ OfFiglet(F!Next) \/ StepZip \/ StepDb \/ StepList

\* A program that waits for nobody goes on (of wordFreq nothing is asked that
\* would need it to).
ProgramsSpec ==
    /\ ProgramsInit /\ [][ProgramsNext]_allVars
    /\ WF_allVars(StepZip \/ StepDb \/ StepList)
    /\ WF_allVars(OfFiglet(F!Client)) /\ WF_allVars(OfFiglet(F!Reply))

-----------------------------------------------------------------------------
\* The variables of the program that runs have their types.
ProgramsTypeOK ==
    /\ prog \in {"words", "figlet", "zip", "db", "list"}
    /\ prog = "words" => TypeOK
    /\ prog = "figlet" => F!TypeOK
    /\ prog = "zip" => Z!TypeOK
    /\ prog = "db" => D!TypeOK
    /\ prog = "list" => L!TypeOK

(***************************************************************************)
(* wordFreq: the map is the frequency table (MapIsFrequency), get finds    *)
(* what is in it although entries were removed, since the removals leave   *)
(* no holes (NoHoles), every probe ends (FreeBucket), and printDescending  *)
(* reports every word once, the more frequent first (PrintedDescending).   *)
(***************************************************************************)
WordsReported ==
    prog = "words" => MapIsFrequency /\ NoHoles /\ FreeBucket /\ PrintedDescending

(***************************************************************************)
(* What a program took it gives back once, whichever step failed: the      *)
(* entries of wordFreq (EntriesOwned), the handles of dbstat               *)
(* (HandlesGivenBack), and the elements of the C list (ElementsFreed).     *)
(***************************************************************************)
GivesBack ==
    /\ prog = "words" => EntriesOwned
    /\ prog = "db" => D!HandlesGivenBack
    /\ prog = "list" => L!ElementsFreed

\* figlet: the command asks for as much of the arguments as has room, and what
\* is printed is the answer of the server, all of it.
FigletAnswer == prog = "figlet" => F!CommandRight /\ F!AnswerPrinted

\* zipjpeg: an intact archive is found and listed, whatever surrounds it.
ZipIntactListed == prog = "zip" => Z!IntactIsListed

\* zipjpeg: nothing is read beyond the file, and no assert fails.
ZipStaysInFile == prog = "zip" => Z!StaysInFile

\* dbstat: the statistics are those of the numbers of the column.
DbStatsRight == prog = "db" => D!StatsRight

\* The list programs: the lists are printed right and no free element is read.
ListRight == prog = "list" => L!ListsRight

(***************************************************************************)
(* The programs end: the loops of zipjpeg, dbstat and the list, whatever   *)
(* offsets and lengths a file holds, and figlet, though client and         *)
(* server wait for each other, unless a prompt came in two pieces, which   *)
(* neither search finds, even if the server never closes.                  *)
(***************************************************************************)
Ended == phase \in {"end", "abort"} \/ status \in {"abort", "crash"}

ProgramEnds == prog = "words" \/ <>(Ended \/ (prog = "figlet" /\ missed))
==============================================================================
