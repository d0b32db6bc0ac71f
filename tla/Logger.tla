-------------------------------- MODULE Logger --------------------------------
(***************************************************************************)
(* The logging library, 12_error_handling/logger.c: levels, environment,   *)
(* lazy initialisation under common_mutex, one writer thread and queue per *)
(* level that has a file of its own, synchronous writes to the common file *)
(* otherwise, and shutdown, which drains and joins the writers.            *)
(*                                                                         *)
(* Threads log; main sets the level and shuts the library down after it    *)
(* has joined its threads, as sample_app.c does (lines 67-69, 80).  The    *)
(* library may be used again after a shutdown: it then initialises itself. *)
(*                                                                         *)
(* Sections of common_mutex, and of a queue's mutex, in which the code     *)
(* cannot block are one step each; the writer's final drain, which writes  *)
(* with the queue's mutex held, is one step per message, and in it the     *)
(* queue's mutex is taken (Locked).                                        *)
(***************************************************************************)
EXTENDS Integers, Sequences

CONSTANTS Thread,     \* threads that log
          UseLevel,   \* bound: the levels they log at
          Quota,      \* bound: per thread, the messages it logs
          MaxSet,     \* bound: logger_set_level calls of main
          Env         \* environments: records, see EnvAssumption

ERROR == 3  WARNING == 4  INFO == 6  DEBUG == 7
Level == {ERROR, WARNING, INFO, DEBUG}
Order == <<ERROR, WARNING, INFO, DEBUG>>       \* valid_levels
Unset == 0                                     \* LOG_LEVEL is not set

ASSUME UseAssumption == UseLevel \subseteq Level /\ Quota \in [Thread -> Nat] /\ MaxSet \in Nat
\* LOGGING_ENABLED, LOG_LEVEL, LOG_FILE and the four level files.
ASSUME EnvAssumption ==
    Env \subseteq [enabled : BOOLEAN, level : Nat, common : {"unset", "ok", "bad"},
                   file : [Level -> {"unset", "ok", "bad"}]]

VARIABLES
    env,               \* the environment, as seen through the current prefix
    initialized, logging_enabled, current_level, common_file,
    file,              \* per level: its async file is open
    running,           \* per level: the writer is to go on
    queue,             \* per level: messages queued
    wpc,               \* per level: where its writer thread is
    wmsg,              \* per level: the message its writer has taken, as <<m>>
    mpc, cur,          \* main: where it is in logger_shutdown, index in Order
    sets,              \* bounded count of logger_set_level
    pc, msg, level,    \* per thread: where it is, its message, its level
    accepted,          \* history, per level: messages enqueued
    handled            \* history, per level: the messages its writer has dealt with,
                       \* and the fate of each

lib    == <<initialized, logging_enabled, current_level, common_file>>
async  == <<file, running, queue, wpc, wmsg>>
main   == <<mpc, cur, sets>>
caller == <<pc, msg, level>>
hist   == <<accepted, handled>>
vars   == <<env, lib, async, main, caller, hist>>

\* The k-th message of thread t is <<t, k>>.
Msg == UNION {{t} \X (1..Quota[t]) : t \in Thread}
Locked(l) == wpc[l] = "drain"

Init ==
    /\ env \in Env
    /\ initialized = FALSE /\ logging_enabled = FALSE
    /\ current_level = ERROR /\ common_file = "NULL"
    /\ file = [l \in Level |-> FALSE] /\ running = [l \in Level |-> FALSE]
    /\ queue = [l \in Level |-> <<>>]
    /\ wpc = [l \in Level |-> "none"] /\ wmsg = [l \in Level |-> <<>>]
    /\ mpc = "up" /\ cur = 1 /\ sets = 0
    /\ pc = [t \in Thread |-> "idle"] /\ msg = [t \in Thread |-> 0]
    /\ level = [t \in Thread |-> ERROR]
    /\ accepted = [l \in Level |-> <<>>] /\ handled = [l \in Level |-> <<>>]

-----------------------------------------------------------------------------
\* Mutant: any number is taken for a level.
LevelAnyNumber(s) == s
\* level_from_string
LevelFromString(s) == IF s \in Level THEN s ELSE ERROR

\* do_init.  A file that cannot be opened, or whose thread cannot be
\* created, leaves the level without a file of its own.
DoInit ==
    /\ initialized' = TRUE /\ logging_enabled' = env.enabled
    /\ IF ~env.enabled
       THEN UNCHANGED <<current_level, common_file, async>>
       ELSE LET own == {l \in Level : env.file[l] = "ok"}
                tried == {l \in Level : env.file[l] # "unset"}
            IN  /\ common_file' = IF env.common = "ok" THEN "log" ELSE "stderr"
                /\ current_level' = IF env.level = Unset THEN current_level
                                    ELSE LevelFromString(env.level)
                /\ file' = [l \in Level |-> l \in own \/ file[l]]
                /\ running' = [l \in Level |-> l \in tried \/ running[l]]
                /\ queue' = [l \in Level |-> IF l \in tried THEN <<>> ELSE queue[l]]
                /\ wpc' = [l \in Level |-> IF l \in own THEN "relock" ELSE wpc[l]]
                /\ UNCHANGED wmsg

\* logger_init, called by main.
LoggerInit ==
    /\ mpc = "up" /\ ~initialized
    /\ DoInit
    /\ UNCHANGED <<env, main, caller, hist>>

\* logger_set_env_prefix: other variables are looked at, if it is not too late.
SetEnvPrefix(e) ==
    /\ mpc = "up" /\ ~initialized
    /\ env' = e
    /\ UNCHANGED <<lib, async, main, caller, hist>>

\* logger_set_level, before or after the initialisation.
SetLevel(l) ==
    /\ mpc = "up" /\ sets < MaxSet
    /\ current_level' = l /\ sets' = sets + 1
    /\ UNCHANGED <<env, initialized, logging_enabled, common_file, async, mpc, cur, caller, hist>>

-----------------------------------------------------------------------------
Goto(t, from, to) == pc[t] = from /\ pc' = [pc EXCEPT ![t] = to]

\* logger_log looks at initialized without the mutex.
Log(t, l) ==
    /\ mpc = "up" /\ msg[t] < Quota[t]
    /\ Goto(t, "idle", IF initialized THEN "check" ELSE "lazy")
    /\ msg' = [msg EXCEPT ![t] = @ + 1]
    /\ level' = [level EXCEPT ![t] = l]
    /\ UNCHANGED <<env, lib, async, main, hist>>

\* Mutant: it does not look again.
LazyInitBlind(t) ==
    /\ Goto(t, "lazy", "check") /\ DoInit
    /\ UNCHANGED <<env, main, msg, level, hist>>

\* With the mutex it looks again.
LazyInit(t) ==
    /\ Goto(t, "lazy", "check")
    /\ IF initialized THEN UNCHANGED <<lib, async>> ELSE DoInit
    /\ UNCHANGED <<env, main, msg, level, hist>>

Suppressed(t) == ~logging_enabled \/ level[t] > current_level

CheckLevel(t) ==
    /\ Goto(t, "check", IF Suppressed(t) THEN "idle" ELSE "route")
    /\ UNCHANGED <<env, lib, async, main, msg, level, hist>>

\* No memory to format the message, or for its place in the queue.
NoMemory(t) ==
    /\ \/ Goto(t, "check", "idle") /\ ~Suppressed(t)
       \/ Goto(t, "enqueue", "idle") /\ ~Locked(level[t])
    /\ UNCHANGED <<env, lib, async, main, msg, level, hist>>

\* Line 492 looks at the level's file without its mutex.
Route(t) ==
    /\ Goto(t, "route", IF file[level[t]] THEN "enqueue" ELSE "sync")
    /\ UNCHANGED <<env, lib, async, main, msg, level, hist>>

\* Mutant: no signal.
SignalNobody(l) == UNCHANGED wpc
\* pthread_cond_signal: a waiting writer will lock the mutex again.
Signal(l) == wpc' = [wpc EXCEPT ![l] = IF @ = "wait" THEN "relock" ELSE @]

\* Mutant: a message is linked in front of the others.
PushFront(q, m) == <<m>> \o q
\* A message is linked behind queue_tail.
Push(q, m) == Append(q, m)

\* async_logger_enqueue
Enqueue(t) ==
    LET l == level[t] IN
    /\ Goto(t, "enqueue", "idle") /\ ~Locked(l)
    /\ queue' = [queue EXCEPT ![l] = Push(@, <<t, msg[t]>>)]
    /\ accepted' = [accepted EXCEPT ![l] = Append(@, <<t, msg[t]>>)]
    /\ Signal(l)
    /\ UNCHANGED <<env, lib, file, running, wmsg, main, msg, level, handled>>

\* logger_log writes to the common file itself.  What becomes of the message there is
\* not followed.
SyncWrite(t) ==
    /\ Goto(t, "sync", "idle")
    /\ UNCHANGED <<env, lib, async, main, msg, level, hist>>

-----------------------------------------------------------------------------
\* async_writer_thread: with the mutex, wait, take a message or start to drain.
WriterTakes(l) ==
    /\ wpc[l] = "relock"
    /\ \/ /\ running[l] /\ queue[l] = <<>>
          /\ wpc' = [wpc EXCEPT ![l] = "wait"]
          /\ UNCHANGED <<queue, wmsg>>
       \/ /\ running[l] /\ queue[l] # <<>>
          /\ wmsg' = [wmsg EXCEPT ![l] = <<Head(queue[l])>>]
          /\ queue' = [queue EXCEPT ![l] = Tail(@)]
          /\ wpc' = [wpc EXCEPT ![l] = "write"]
       \/ /\ ~running[l]
          /\ wpc' = [wpc EXCEPT ![l] = "drain"]
          /\ UNCHANGED <<queue, wmsg>>
    /\ UNCHANGED <<env, lib, file, running, main, caller, hist>>

\* pthread_cond_wait may return without a signal.
SpuriousWakeup(l) ==
    /\ wpc[l] = "wait" /\ wpc' = [wpc EXCEPT ![l] = "relock"]
    /\ UNCHANGED <<env, lib, file, running, queue, wmsg, main, caller, hist>>

\* write_single_log_message, as the writer of level l calls it.  INFO goes to stdout
\* when there is no common file.  A message is lost when asprintf finds no memory, or
\* when fwrite fails: the writer goes on to the next one.
Place   == {"file", "stdout"}
Fate    == Place \cup {"lost"}
Handled == [msg : Msg, fate : Fate]
Dest(l) == IF l = INFO /\ common_file = "stderr" THEN "stdout" ELSE "file"

Handle(l, m) ==
    \E f \in {Dest(l), "lost"} :
        handled' = [handled EXCEPT ![l] = Append(@, [msg |-> m, fate |-> f])]

\* The message taken is written with the mutex released.
WriterWrites(l) ==
    /\ wpc[l] = "write" /\ wpc' = [wpc EXCEPT ![l] = "relock"]
    /\ Handle(l, Head(wmsg[l]))
    /\ wmsg' = [wmsg EXCEPT ![l] = <<>>]
    /\ UNCHANGED <<env, lib, file, running, queue, main, caller, accepted>>

\* Mutant: the thread ends with messages left.
WriterQuits(l) ==
    /\ wpc[l] = "drain" /\ wpc' = [wpc EXCEPT ![l] = "done"]
    /\ UNCHANGED <<env, lib, file, running, queue, wmsg, main, caller, hist>>

\* What is left is written with the mutex held, and then the thread ends.
WriterDrains(l) ==
    /\ wpc[l] = "drain"
    /\ IF queue[l] = <<>>
       THEN wpc' = [wpc EXCEPT ![l] = "done"] /\ UNCHANGED <<queue, handled>>
       ELSE /\ Handle(l, Head(queue[l]))
            /\ queue' = [queue EXCEPT ![l] = Tail(@)]
            /\ UNCHANGED wpc
    /\ UNCHANGED <<env, lib, file, running, wmsg, main, caller, accepted>>

-----------------------------------------------------------------------------
\* logger_shutdown, once the threads that log have been joined.
Shutdown ==
    /\ mpc = "up" /\ initialized
    /\ \A t \in Thread : pc[t] = "idle"
    /\ mpc' = "stop" /\ cur' = 1
    /\ UNCHANGED <<env, lib, async, sets, caller, hist>>

\* destroy_async_logger up to the join; a level without a file is passed over.
StopWriter ==
    LET l == Order[cur] IN
    /\ mpc = "stop" /\ cur <= Len(Order)
    /\ IF file[l]
       THEN /\ ~Locked(l)
            /\ running' = [running EXCEPT ![l] = FALSE]
            /\ Signal(l)
            /\ mpc' = "join" /\ UNCHANGED cur
       ELSE cur' = cur + 1 /\ UNCHANGED <<running, wpc, mpc>>
    /\ UNCHANGED <<env, lib, file, queue, wmsg, sets, caller, hist>>

\* Mutant: logger->file is not reset to NULL.
JoinKeepsFile ==
    /\ mpc = "join" /\ wpc[Order[cur]] = "done"
    /\ mpc' = "stop" /\ cur' = cur + 1
    /\ UNCHANGED <<env, lib, async, sets, caller, hist>>

\* The join of destroy_async_logger and what follows it.
JoinWriter ==
    /\ mpc = "join" /\ wpc[Order[cur]] = "done"
    /\ file' = [file EXCEPT ![Order[cur]] = FALSE]
    /\ mpc' = "stop" /\ cur' = cur + 1
    /\ UNCHANGED <<env, lib, running, queue, wpc, wmsg, sets, caller, hist>>

CloseCommon ==
    /\ mpc = "stop" /\ cur > Len(Order)
    /\ common_file' = IF common_file = "stderr" THEN "stderr" ELSE "NULL"
    /\ initialized' = FALSE
    /\ mpc' = "up" /\ cur' = 1
    /\ UNCHANGED <<env, logging_enabled, current_level, async, sets, caller, hist>>

-----------------------------------------------------------------------------
Logging(t) ==
    LazyInit(t) \/ CheckLevel(t) \/ NoMemory(t) \/ Route(t) \/ Enqueue(t) \/ SyncWrite(t)
Writer(l)  == WriterTakes(l) \/ WriterWrites(l) \/ WriterDrains(l)
Stopping   == StopWriter \/ JoinWriter \/ CloseCommon

Next ==
    \/ \E e \in Env : SetEnvPrefix(e)
    \/ LoggerInit \/ Shutdown \/ Stopping
    \/ \E l \in Level : SetLevel(l) \/ Writer(l) \/ SpuriousWakeup(l)
    \/ \E t \in Thread : Logging(t) \/ \E l \in UseLevel : Log(t, l)

\* Threads that can run do run; nothing makes the program log or stop.
Fairness ==
    /\ WF_vars(Stopping)
    /\ \A l \in Level : WF_vars(Writer(l))
    /\ \A t \in Thread : WF_vars(Logging(t))

Spec == Init /\ [][Next]_vars /\ Fairness

-----------------------------------------------------------------------------
TypeOK ==
    /\ env \in Env
    /\ initialized \in BOOLEAN /\ logging_enabled \in BOOLEAN
    /\ current_level \in Level /\ common_file \in {"NULL", "stderr", "log"}
    /\ file \in [Level -> BOOLEAN] /\ running \in [Level -> BOOLEAN]
    /\ queue \in [Level -> Seq(Msg)] /\ wmsg \in [Level -> Seq(Msg)]
    /\ wpc \in [Level -> {"none", "relock", "wait", "write", "drain", "done"}]
    /\ mpc \in {"up", "stop", "join"} /\ cur \in 1..Len(Order) + 1 /\ sets \in 0..MaxSet
    /\ pc \in [Thread -> {"idle", "lazy", "check", "route", "enqueue", "sync"}]
    /\ msg \in [Thread -> Nat] /\ \A t \in Thread : msg[t] <= Quota[t]
    /\ level \in [Thread -> Level]
    /\ accepted \in [Level -> Seq(Msg)]
    /\ handled \in [Level -> Seq(Handled)]

\* The messages of a history, whatever their fate.
Msgs(h) == [i \in 1..Len(h) |-> h[i].msg]

(***************************************************************************)
(* A writer deals with each accepted message once, in the order of their   *)
(* acceptance: what was accepted is what the writer has dealt with, then   *)
(* the message it holds outside the mutex, then the queue.  A message that *)
(* asprintf fails for is lost, but no other one with it and none for       *)
(* another reason: a second initialisation (the queue and the writer are   *)
(* reset), a drain that overtakes the message in flight, or a queue whose  *)
(* tail is stale would break it.                                           *)
(***************************************************************************)
Conservation ==
    \A l \in Level : accepted[l] = Msgs(handled[l]) \o wmsg[l] \o queue[l]

(***************************************************************************)
(* Once logger_shutdown has set initialized to 0, the writers have dealt   *)
(* with every accepted message (it is in its level's file or, INFO without *)
(* a common file, on stdout, unless asprintf or fwrite failed for it), no  *)
(* writer thread is left and no file is open.                              *)
(***************************************************************************)
ShutdownFlushes ==
    ~initialized => \A l \in Level :
        /\ Msgs(handled[l]) = accepted[l]
        /\ wpc[l] \in {"none", "done"} /\ ~file[l]

(***************************************************************************)
(* A message is only ever put in a queue that a live writer serves: the    *)
(* unlocked look at the level's file (line 492) stays right until the      *)
(* message is enqueued, and the writer has not been told to stop.  One     *)
(* that is written synchronously finds the common file open (line 497).    *)
(***************************************************************************)
QueueIsServed ==
    \A t \in Thread :
        /\ pc[t] = "enqueue" =>
              /\ file[level[t]] /\ running[level[t]]
              /\ wpc[level[t]] \in {"relock", "wait", "write"}
        /\ pc[t] = "sync" => common_file # "NULL"

\* logger_shutdown ends: no signal to a writer is lost, so every join returns.
ShutdownEnds == mpc # "up" ~> mpc = "up"

\* Each level with a file is a FIFO channel in which every accepted message comes to be
\* delivered or, by a failure of its own (line 246), lost.
Chan == INSTANCE LogChannel WITH Channel <- Level, sent <- accepted, dealt <- handled
ImplementsChannel == Chan!CSpec

-----------------------------------------------------------------------------
(***************************************************************************)
(* README.md says INFO_LOG_FILE names the file INFO messages go to, and    *)
(* the comment on write_single_log_message that INFO goes to stdout only   *)
(* when it has no file of its own.                                         *)
(***************************************************************************)
InfoHasItsFile == \A i \in DOMAIN handled[INFO] : handled[INFO][i].fate # "stdout"

(***************************************************************************)
(* logger.h says logger_set_level overrides the level of the environment:  *)
(* once main has set a level, only main changes it.                        *)
(***************************************************************************)
SetLevelOverrides == [][sets > 0 /\ current_level' # current_level => sets' # sets]_vars
==============================================================================
