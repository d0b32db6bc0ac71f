------------------------------ MODULE Logger_proof ------------------------------
(***************************************************************************)
(* What Logger.tla promises of logger.c, proved for any threads, quotas    *)
(* and environments: the life of a level's writer thread follows the       *)
(* level's file, so that its writer deals with every accepted message,     *)
(* once and in order, no message is queued that nobody will write, and a   *)
(* shutdown leaves nothing behind.                                         *)
(***************************************************************************)
EXTENDS Logger, SequenceTheorems, TLAPS

USE UseAssumption, EnvAssumption

Live(l) == wpc[l] \notin {"none", "done"}
\* The level whose writer logger_shutdown is waiting for.
Leaving(l) == mpc = "join" /\ l = Order[cur]

(***************************************************************************)
(* A level's file is open for as long as its writer lives, and a little    *)
(* longer: until main has joined it.  A writer that is told to stop is     *)
(* never left waiting for a signal.  A message is outside of the queue     *)
(* only while its writer writes it.                                        *)
(***************************************************************************)
WriterOk(l) ==
    /\ Live(l) => file[l]
    /\ file[l] /\ ~Leaving(l) => wpc[l] \in {"relock", "wait", "write"} /\ running[l]
    /\ Leaving(l) =>
          file[l] /\ ~running[l] /\ wpc[l] \in {"relock", "write", "drain", "done"}
    /\ ~Live(l) => queue[l] = <<>>
    /\ IF wpc[l] = "write" THEN \E m \in Msg : wmsg[l] = <<m>> ELSE wmsg[l] = <<>>

WriterInv == \A l \in Level : WriterOk(l)

\* Nobody is inside of an uninitialised library, and an enabled one has a common file;
\* nobody logs during a shutdown, which goes through the levels in order.
PhaseInv ==
    /\ initialized /\ logging_enabled => common_file # "NULL"
    /\ ~initialized => /\ mpc = "up" /\ \A l \in Level : ~file[l]
                       /\ \A t \in Thread : pc[t] \in {"idle", "lazy"}
    /\ mpc # "up" => /\ \A t \in Thread : pc[t] = "idle"
                     /\ \A i \in 1..Len(Order) : i < cur => ~file[Order[i]]
    /\ mpc = "join" => cur <= Len(Order)

\* A thread that is about to enqueue has seen a file that is still open, and one that
\* is about to write that logging is enabled.
CallInv ==
    \A t \in Thread :
        /\ pc[t] # "idle" => msg[t] >= 1
        /\ pc[t] = "enqueue" => file[level[t]]
        /\ pc[t] \in {"route", "sync"} => logging_enabled

IInv == TypeOK /\ WriterInv /\ PhaseInv /\ CallInv

\* The values of wpc.
WriterState == {"none", "relock", "wait", "write", "drain", "done"}

-----------------------------------------------------------------------------
\* valid_levels lists each level once.
LEMMA OrderLength == Len(Order) = 4
BY DEF Order

\* The writers are started once for each level ...
LEMMA OrderCovers ==
    /\ \A i \in 1..4 : Order[i] \in Level
    /\ \A l \in Level : \E i \in 1..4 : Order[i] = l
BY DEF Order, Level, ERROR, WARNING, INFO, DEBUG

\* ... and for each only once.
LEMMA OrderInjective == \A i, j \in 1..4 : Order[i] = Order[j] => i = j
BY DEF Order, Level, ERROR, WARNING, INFO, DEBUG

\* A message of a thread is a message.
LEMMA MsgOfThread ==
    ASSUME TypeOK, CallInv, NEW t \in Thread, pc[t] # "idle"
    PROVE  <<t, msg[t]>> \in Msg
<1>1. msg[t] \in 1..Quota[t]
  BY DEF TypeOK, CallInv
<1>2. QED
  BY <1>1 DEF Msg

-----------------------------------------------------------------------------
\* Type correctness, action by action; DoInit is shared by two of them.
LEMMA DoInitType ==
    ASSUME TypeOK, DoInit
    PROVE  /\ initialized' \in BOOLEAN /\ logging_enabled' \in BOOLEAN
           /\ current_level' \in Level /\ common_file' \in {"NULL", "stderr", "log"}
           /\ file' \in [Level -> BOOLEAN] /\ running' \in [Level -> BOOLEAN]
           /\ queue' \in [Level -> Seq(Msg)] /\ wmsg' \in [Level -> Seq(Msg)]
           /\ wpc' \in [Level -> {"none", "relock", "wait", "write", "drain", "done"}]
<1>1. env.enabled \in BOOLEAN
  BY DEF TypeOK
<1>2. CASE ~env.enabled
  BY <1>1, <1>2 DEF TypeOK, DoInit, async
<1>3. CASE env.enabled
  <2>1. \A s : LevelFromString(s) \in Level
    BY DEF LevelFromString, Level, ERROR
  <2>2. queue' \in [Level -> Seq(Msg)]
    <3>1. <<>> \in Seq(Msg)
      BY EmptySeq
    <3>2. QED
      BY <1>3, <3>1, Zenon DEF TypeOK, DoInit
  <2>3. /\ initialized' \in BOOLEAN /\ logging_enabled' \in BOOLEAN
        /\ current_level' \in Level /\ common_file' \in {"NULL", "stderr", "log"}
        /\ wmsg' = wmsg
    BY <1>1, <1>3, <2>1 DEF TypeOK, DoInit
  <2>4. /\ file' \in [Level -> BOOLEAN] /\ running' \in [Level -> BOOLEAN]
        /\ wpc' \in [Level -> {"none", "relock", "wait", "write", "drain", "done"}]
    <3>1. /\ file \in [Level -> BOOLEAN] /\ running \in [Level -> BOOLEAN]
          /\ wpc \in [Level -> WriterState]
      BY DEF TypeOK, WriterState
    <3>2. "relock" \in WriterState
      BY DEF WriterState
    <3>3. /\ file' \in [Level -> BOOLEAN] /\ running' \in [Level -> BOOLEAN]
          /\ wpc' \in [Level -> WriterState]
      BY <1>3, <3>1, <3>2 DEF DoInit
    <3>4. QED
      BY <3>3 DEF WriterState
  <2>5. QED
    BY <2>2, <2>3, <2>4 DEF TypeOK
<1>4. QED
  BY <1>2, <1>3

\* A message that was dealt with has one of the fates.
LEMMA HandleType ==
    ASSUME TypeOK, NEW l \in Level, NEW m \in Msg, Handle(l, m)
    PROVE  handled' \in [Level -> Seq(Handled)]
<1>1. PICK f \in {Dest(l), "lost"} :
         handled' = [handled EXCEPT ![l] = Append(@, [msg |-> m, fate |-> f])]
  BY DEF Handle
<1>2. [msg |-> m, fate |-> f] \in Handled
  BY DEF Handled, Fate, Place, Dest
<1>3. handled \in [Level -> Seq(Handled)]
  BY DEF TypeOK
<1>4. Append(handled[l], [msg |-> m, fate |-> f]) \in Seq(Handled)
  BY <1>2, <1>3, AppendProperties
<1>5. QED
  BY <1>1, <1>3, <1>4

\* Every step keeps the variables within their types.
LEMMA TypeStep == IInv /\ [Next]_vars => TypeOK'
<1> SUFFICES ASSUME IInv, [Next]_vars PROVE TypeOK'
  OBVIOUS
<1> USE DEF IInv
<1>1. ASSUME NEW e \in Env, SetEnvPrefix(e) PROVE TypeOK'
  BY <1>1 DEF TypeOK, SetEnvPrefix, lib, async, main, caller, hist
<1>2. CASE LoggerInit
  BY <1>2, DoInitType DEF TypeOK, LoggerInit, main, caller, hist
<1>3. CASE Shutdown
  BY <1>3, OrderLength DEF TypeOK, Shutdown, lib, async, caller, hist
<1>4. CASE StopWriter
  <2>1. CASE file[Order[cur]]
    <3>1. wpc \in [Level -> WriterState] /\ running \in [Level -> BOOLEAN]
      BY DEF TypeOK, WriterState
    <3>2. wpc' \in [Level -> WriterState] /\ running' \in [Level -> BOOLEAN]
      <4>1. "relock" \in WriterState
        BY DEF WriterState
      <4>2. QED
        BY <1>4, <2>1, <3>1, <4>1 DEF StopWriter, Signal
    <3>3. QED
      BY <1>4, <2>1, <3>2 DEF TypeOK, WriterState, StopWriter, lib, caller, hist
  <2>2. CASE ~file[Order[cur]]
    BY <1>4, <2>2, OrderLength DEF TypeOK, StopWriter, lib, caller, hist
  <2>3. QED
    BY <2>1, <2>2
<1>5. CASE JoinWriter
  <2>1. cur' \in 1..Len(Order) + 1
    BY <1>5, OrderLength DEF TypeOK, PhaseInv, JoinWriter
  <2>2. QED
    BY <1>5, <2>1 DEF TypeOK, JoinWriter, lib, caller, hist
<1>6. CASE CloseCommon
  <2>1. cur' \in 1..Len(Order) + 1
    BY <1>6, OrderLength DEF CloseCommon
  <2>2. QED
    BY <1>6, <2>1 DEF TypeOK, CloseCommon, async, caller, hist
<1>7. ASSUME NEW l \in Level, SetLevel(l) PROVE TypeOK'
  BY <1>7 DEF TypeOK, SetLevel, async, caller, hist
<1>8. ASSUME NEW l \in Level, WriterTakes(l) PROVE TypeOK'
  <2>1. queue[l] # <<>> => Head(queue[l]) \in Msg /\ Tail(queue[l]) \in Seq(Msg)
    BY HeadTailProperties DEF TypeOK
  <2>2. queue[l] # <<>> => <<Head(queue[l])>> \in Seq(Msg)
    BY <2>1
  <2>3. /\ queue' \in [Level -> Seq(Msg)] /\ wmsg' \in [Level -> Seq(Msg)]
        /\ wpc' \in [Level -> {"none", "relock", "wait", "write", "drain", "done"}]
    <3>1. /\ queue \in [Level -> Seq(Msg)] /\ wmsg \in [Level -> Seq(Msg)]
          /\ wpc \in [Level -> {"none", "relock", "wait", "write", "drain", "done"}]
      BY DEF TypeOK
    <3>2. CASE queue' = queue /\ wmsg' = wmsg
      BY <1>8, <3>1, <3>2 DEF WriterTakes
    <3>3. CASE /\ queue[l] # <<>> /\ queue' = [queue EXCEPT ![l] = Tail(@)]
               /\ wmsg' = [wmsg EXCEPT ![l] = <<Head(queue[l])>>]
               /\ wpc' = [wpc EXCEPT ![l] = "write"]
      BY <2>1, <2>2, <3>1, <3>3
    <3>4. QED
      BY <1>8, <3>2, <3>3 DEF WriterTakes
  <2>4. QED
    BY <1>8, <2>3 DEF TypeOK, WriterTakes, lib, main, caller, hist
<1>9. ASSUME NEW l \in Level, SpuriousWakeup(l) PROVE TypeOK'
  BY <1>9 DEF TypeOK, SpuriousWakeup, lib, main, caller, hist
<1>10. ASSUME NEW l \in Level, WriterWrites(l) PROVE TypeOK'
  <2>1. Head(wmsg[l]) \in Msg /\ <<>> \in Seq(Msg)
    <3>1. PICK m \in Msg : wmsg[l] = <<m>>
      BY <1>10 DEF WriterWrites, WriterInv, WriterOk
    <3>2. QED
      BY <3>1, EmptySeq
  <2>2. handled' \in [Level -> Seq(Handled)]
    BY <1>10, <2>1, HandleType DEF WriterWrites
  <2>3. QED
    BY <1>10, <2>1, <2>2 DEF TypeOK, WriterWrites, lib, main, caller
<1>11. ASSUME NEW l \in Level, WriterDrains(l) PROVE TypeOK'
  <2>1. queue[l] # <<>> => Tail(queue[l]) \in Seq(Msg) /\ Head(queue[l]) \in Msg
    BY HeadTailProperties DEF TypeOK
  <2>2. handled' \in [Level -> Seq(Handled)]
    <3>1. CASE queue[l] = <<>>
      BY <1>11, <3>1 DEF WriterDrains, TypeOK
    <3>2. CASE queue[l] # <<>>
      BY <1>11, <2>1, <3>2, HandleType DEF WriterDrains
    <3>3. QED
      BY <3>1, <3>2
  <2>3. /\ queue' \in [Level -> Seq(Msg)]
        /\ wpc' \in [Level -> {"none", "relock", "wait", "write", "drain", "done"}]
    <3>1. /\ queue \in [Level -> Seq(Msg)]
          /\ wpc \in [Level -> {"none", "relock", "wait", "write", "drain", "done"}]
      BY DEF TypeOK
    <3>2. QED
      BY <1>11, <2>1, <3>1 DEF WriterDrains
  <2>4. QED
    BY <1>11, <2>2, <2>3 DEF TypeOK, WriterDrains, lib, main, caller
<1>12. ASSUME NEW t \in Thread, NEW l \in UseLevel, Log(t, l) PROVE TypeOK'
  <2>1. /\ pc \in [Thread -> {"idle", "lazy", "check", "route", "enqueue", "sync"}]
        /\ msg \in [Thread -> Nat] /\ \A u \in Thread : msg[u] <= Quota[u]
        /\ level \in [Thread -> Level]
    BY DEF TypeOK
  <2>2. pc' \in [Thread -> {"idle", "lazy", "check", "route", "enqueue", "sync"}]
    BY <1>12, <2>1 DEF Log, Goto
  <2>3. msg' \in [Thread -> Nat] /\ \A u \in Thread : msg'[u] <= Quota[u]
    BY <1>12, <2>1, UseAssumption DEF Log
  <2>4. level' \in [Thread -> Level]
    BY <1>12, <2>1, UseAssumption DEF Log
  <2>5. UNCHANGED <<env, lib, async, main, hist>>
    BY <1>12 DEF Log
  <2>6. QED
    BY <2>2, <2>3, <2>4, <2>5 DEF TypeOK, lib, async, main, hist
<1>13. ASSUME NEW t \in Thread, LazyInit(t) PROVE TypeOK'
  BY <1>13, DoInitType DEF TypeOK, LazyInit, Goto, lib, async, main, hist
<1>14. ASSUME NEW t \in Thread, CheckLevel(t) \/ NoMemory(t) \/ Route(t) PROVE TypeOK'
  BY <1>14 DEF TypeOK, CheckLevel, NoMemory, Route, Goto, lib, async, main, hist
<1>15. ASSUME NEW t \in Thread, Enqueue(t) PROVE TypeOK'
  <2> DEFINE l == level[t]
             m == <<t, msg[t]>>
  <2>1. l \in Level /\ m \in Msg
    BY <1>15, MsgOfThread DEF TypeOK, Enqueue, Goto
  <2>2. Append(queue[l], m) \in Seq(Msg) /\ Append(accepted[l], m) \in Seq(Msg)
    BY <2>1, AppendProperties DEF TypeOK
  <2>3. QED
    BY <1>15, <2>1, <2>2 DEF TypeOK, Enqueue, Push, Signal, Goto, lib, main
<1>16. ASSUME NEW t \in Thread, SyncWrite(t) PROVE TypeOK'
  BY <1>16 DEF TypeOK, SyncWrite, Goto, lib, async, main, hist
<1>17. CASE UNCHANGED vars
  BY <1>17 DEF TypeOK, vars, lib, async, main, caller, hist
<1>18. QED
  BY <1>1, <1>2, <1>3, <1>4, <1>5, <1>6, <1>7, <1>8, <1>9, <1>10, <1>11, <1>12, <1>13,
     <1>14, <1>15, <1>16, <1>17 DEF Next, Stopping, Writer, Logging

-----------------------------------------------------------------------------
\* What an initialisation does to the writers: the levels that get a file get
\* a writer, which has nothing to write, and no other level changes.
LEMMA DoInitWriters ==
    ASSUME IInv, ~initialized, DoInit, mpc' = "up"
    PROVE  initialized' = TRUE /\ queue' = queue /\ wmsg' = wmsg /\ WriterInv'
<1>1. /\ env.enabled \in BOOLEAN
      /\ file \in [Level -> BOOLEAN] /\ running \in [Level -> BOOLEAN]
      /\ queue \in [Level -> Seq(Msg)] /\ wpc \in [Level -> WriterState]
  BY DEF IInv, TypeOK, WriterState
<1>2. \A l \in Level : /\ ~file[l] /\ wpc[l] \in {"none", "done"}
                       /\ queue[l] = <<>> /\ wmsg[l] = <<>>
  BY DEF IInv, PhaseInv, WriterInv, WriterOk, Live
<1>3. \A l \in Level : ~Leaving(l)'
  BY DEF Leaving
<1>4. CASE ~env.enabled
  <2>1. UNCHANGED async
    BY <1>1, <1>4 DEF DoInit
  <2>2. QED
    BY <1>2, <1>3, <2>1 DEF DoInit, async, WriterInv, WriterOk, Live
<1>5. CASE env.enabled
  <2>1. queue' = queue /\ wmsg' = wmsg
    BY <1>1, <1>2, <1>5 DEF DoInit
  <2>2. ASSUME NEW l \in Level PROVE WriterOk(l)'
    <3>1. CASE env.file[l] = "ok"
      BY <1>2, <1>3, <1>5, <2>1, <3>1 DEF DoInit, WriterOk, Live
    <3>2. CASE env.file[l] # "ok"
      BY <1>2, <1>3, <1>5, <2>1, <3>2 DEF DoInit, WriterOk, Live
    <3>3. QED
      BY <3>1, <3>2
  <2>3. QED
    BY <1>5, <2>1, <2>2 DEF DoInit, WriterInv
<1>6. QED
  BY <1>1, <1>4, <1>5

\* A level none of whose variables changes, and that main does not begin or
\* stop to wait for, keeps its part of the invariant.
LEMMA WriterUntouched ==
    ASSUME NEW l \in Level, WriterOk(l), Leaving(l)' <=> Leaving(l),
           file'[l] = file[l], running'[l] = running[l], queue'[l] = queue[l],
           wpc'[l] = wpc[l], wmsg'[l] = wmsg[l]
    PROVE  WriterOk(l)'
BY DEF WriterOk, Live

\* The life of every writer goes on as WriterOk says.
LEMMA WriterStep == IInv /\ [Next]_vars => WriterInv'
<1> SUFFICES ASSUME IInv, [Next]_vars PROVE WriterInv'
  OBVIOUS
<1>0. /\ TypeOK /\ PhaseInv /\ CallInv /\ \A l \in Level : WriterOk(l)
      /\ file \in [Level -> BOOLEAN] /\ running \in [Level -> BOOLEAN]
      /\ queue \in [Level -> Seq(Msg)] /\ wmsg \in [Level -> Seq(Msg)]
      /\ wpc \in [Level -> WriterState]
  BY DEF IInv, TypeOK, WriterInv, WriterState
<1>1. ASSUME UNCHANGED async, \A l \in Level : Leaving(l)' <=> Leaving(l)
      PROVE  WriterInv'
  BY <1>0, <1>1, WriterUntouched DEF async, WriterInv
<1>2. ASSUME NEW l \in Level, UNCHANGED main, WriterOk(l)',
             \A k \in Level \ {l} :
                /\ file'[k] = file[k] /\ running'[k] = running[k] /\ queue'[k] = queue[k]
                /\ wpc'[k] = wpc[k] /\ wmsg'[k] = wmsg[k]
      PROVE  WriterInv'
  <2>1. ASSUME NEW k \in Level PROVE WriterOk(k)'
    <3>1. Leaving(k)' <=> Leaving(k)
      BY <1>2 DEF Leaving, main
    <3>2. QED
      BY <1>0, <1>2, <3>1, WriterUntouched
  <2>2. QED
    BY <2>1 DEF WriterInv
<1>3. ASSUME NEW e \in Env, SetEnvPrefix(e) PROVE WriterInv'
  BY <1>1, <1>3 DEF SetEnvPrefix, main, Leaving
<1>4. CASE LoggerInit
  BY <1>4, DoInitWriters DEF LoggerInit, main
<1>5. CASE Shutdown
  BY <1>1, <1>5 DEF Shutdown, Leaving
<1>6. CASE StopWriter
  <2>1. Order[cur] \in Level /\ cur \in 1..4
    <3>1. cur \in 1..Len(Order) + 1 /\ cur <= Len(Order)
      BY <1>0, <1>6 DEF StopWriter, TypeOK
    <3>2. QED
      BY <3>1, OrderLength, OrderCovers
  <2>2. CASE ~file[Order[cur]]
    BY <1>1, <1>6, <2>2 DEF StopWriter, Leaving, async
  <2>3. CASE file[Order[cur]]
    <3>1. ASSUME NEW l \in Level PROVE WriterOk(l)'
      <4>1. CASE l = Order[cur]
        BY <1>0, <1>6, <2>3, <4>1 DEF StopWriter, Signal, Locked, WriterOk, Live, Leaving, WriterState
      <4>2. CASE l # Order[cur]
        BY <1>0, <1>6, <2>3, <4>2, WriterUntouched DEF StopWriter, Signal, Leaving
      <4>3. QED
        BY <4>1, <4>2
    <3>2. QED
      BY <3>1 DEF WriterInv
  <2>4. QED
    BY <2>2, <2>3
<1>7. CASE JoinWriter
  <2>1. ASSUME NEW l \in Level PROVE WriterOk(l)'
    <3>1. CASE l = Order[cur]
      BY <1>0, <1>7, <3>1 DEF JoinWriter, WriterOk, Live, Leaving
    <3>2. CASE l # Order[cur]
      BY <1>0, <1>7, <3>2, WriterUntouched DEF JoinWriter, Leaving
    <3>3. QED
      BY <3>1, <3>2
  <2>2. QED
    BY <2>1 DEF WriterInv
<1>8. CASE CloseCommon
  BY <1>1, <1>8 DEF CloseCommon, Leaving
<1>9. ASSUME NEW l \in Level, SetLevel(l) PROVE WriterInv'
  BY <1>1, <1>9 DEF SetLevel, Leaving
<1>10. ASSUME NEW l \in Level, WriterTakes(l) PROVE WriterInv'
  <2>1. queue[l] # <<>> => Head(queue[l]) \in Msg
    BY <1>0, HeadTailProperties
  <2>2. WriterOk(l)'
    <3>1. file'[l] = file[l] /\ running'[l] = running[l] /\ (Leaving(l)' <=> Leaving(l))
      BY <1>10 DEF WriterTakes, main, Leaving
    <3>2. WriterOk(l) /\ wpc[l] = "relock" /\ file[l]
      BY <1>0, <1>10 DEF WriterTakes, WriterOk, Live
    <3>3. CASE running[l] /\ queue[l] = <<>>
      <4>1. wpc'[l] = "wait" /\ queue'[l] = queue[l] /\ wmsg'[l] = wmsg[l]
        BY <1>0, <1>10, <3>3 DEF WriterTakes
      <4>2. QED
        BY <3>1, <3>2, <3>3, <4>1 DEF WriterOk, Live
    <3>4. CASE running[l] /\ queue[l] # <<>>
      <4>1. wpc'[l] = "write" /\ wmsg'[l] = <<Head(queue[l])>>
        BY <1>0, <1>10, <3>4 DEF WriterTakes
      <4>2. QED
        BY <2>1, <3>1, <3>2, <3>4, <4>1 DEF WriterOk, Live
    <3>5. CASE ~running[l]
      <4>1. wpc'[l] = "drain" /\ queue'[l] = queue[l] /\ wmsg'[l] = wmsg[l]
        BY <1>0, <1>10, <3>5 DEF WriterTakes
      <4>2. QED
        BY <3>1, <3>2, <3>5, <4>1 DEF WriterOk, Live
    <3>6. QED
      BY <3>3, <3>4, <3>5
  <2>3. QED
    BY <1>0, <1>2, <1>10, <2>2 DEF WriterTakes
<1>11. ASSUME NEW l \in Level, SpuriousWakeup(l) PROVE WriterInv'
  <2>1. WriterOk(l)'
    BY <1>0, <1>11 DEF SpuriousWakeup, main, WriterOk, Live, Leaving
  <2>2. QED
    BY <1>0, <1>2, <1>11, <2>1 DEF SpuriousWakeup
<1>12. ASSUME NEW l \in Level, WriterWrites(l) PROVE WriterInv'
  <2>1. WriterOk(l)'
    BY <1>0, <1>12 DEF WriterWrites, main, WriterOk, Live, Leaving
  <2>2. QED
    BY <1>0, <1>2, <1>12, <2>1 DEF WriterWrites
<1>13. ASSUME NEW l \in Level, WriterDrains(l) PROVE WriterInv'
  <2>1. WriterOk(l)'
    <3>1. /\ file'[l] = file[l] /\ running'[l] = running[l] /\ wmsg'[l] = wmsg[l]
          /\ (Leaving(l)' <=> Leaving(l))
      BY <1>13 DEF WriterDrains, main, Leaving
    <3>2. WriterOk(l) /\ wpc[l] = "drain"
      BY <1>0, <1>13 DEF WriterDrains
    <3>3. CASE queue[l] = <<>>
      <4>1. wpc'[l] = "done" /\ queue'[l] = <<>>
        BY <1>0, <1>13, <3>3 DEF WriterDrains
      <4>2. QED
        BY <3>1, <3>2, <4>1 DEF WriterOk, Live
    <3>4. CASE queue[l] # <<>>
      <4>1. wpc'[l] = "drain"
        BY <1>13, <3>2, <3>4 DEF WriterDrains
      <4>2. QED
        BY <3>1, <3>2, <4>1 DEF WriterOk, Live
    <3>5. QED
      BY <3>3, <3>4
  <2>2. QED
    BY <1>0, <1>2, <1>13, <2>1 DEF WriterDrains
<1>14. ASSUME NEW t \in Thread, NEW l \in UseLevel, Log(t, l) PROVE WriterInv'
  BY <1>1, <1>14 DEF Log, main, Leaving
<1>15. ASSUME NEW t \in Thread, LazyInit(t) PROVE WriterInv'
  <2>1. CASE initialized
    BY <1>1, <1>15, <2>1 DEF LazyInit, main, Leaving
  <2>2. CASE ~initialized
    BY <1>0, <1>15, <2>2, DoInitWriters DEF LazyInit, main, PhaseInv
  <2>3. QED
    BY <2>1, <2>2
<1>16. ASSUME NEW t \in Thread, CheckLevel(t) \/ NoMemory(t) \/ Route(t) \/ SyncWrite(t)
       PROVE  WriterInv'
  BY <1>1, <1>16 DEF CheckLevel, NoMemory, Route, SyncWrite, main, Leaving
<1>17. ASSUME NEW t \in Thread, Enqueue(t) PROVE WriterInv'
  <2>1. level[t] \in Level /\ file[level[t]] /\ ~Leaving(level[t])
    BY <1>0, <1>17 DEF TypeOK, CallInv, PhaseInv, Enqueue, Goto, Leaving
  <2>2. WriterOk(level[t])'
    BY <1>0, <1>17, <2>1 DEF Enqueue, Signal, main, WriterOk, Live, Leaving
  <2>3. QED
    BY <1>0, <1>2, <1>17, <2>1, <2>2 DEF Enqueue, Signal
<1>18. CASE UNCHANGED vars
  BY <1>1, <1>18 DEF vars, main, Leaving
<1>19. QED
  BY <1>3, <1>4, <1>5, <1>6, <1>7, <1>8, <1>9, <1>10, <1>11, <1>12, <1>13, <1>14, <1>15,
     <1>16, <1>17, <1>18 DEF Next, Stopping, Writer, Logging

-----------------------------------------------------------------------------
\* The phases of the library: main closes the files in the order of
\* valid_levels, and has been through all of them when it clears initialized.
LEMMA PhaseStep == IInv /\ [Next]_vars => PhaseInv'
<1> SUFFICES ASSUME IInv, [Next]_vars PROVE PhaseInv'
  OBVIOUS
<1>0. /\ PhaseInv /\ cur \in 1..5 /\ initialized \in BOOLEAN
      /\ logging_enabled \in BOOLEAN /\ env.enabled \in BOOLEAN
      /\ mpc \in {"up", "stop", "join"} /\ level \in [Thread -> Level]
      /\ pc \in [Thread -> {"idle", "lazy", "check", "route", "enqueue", "sync"}]
      /\ file \in [Level -> BOOLEAN]
  BY OrderLength DEF IInv, TypeOK
<1>1. ASSUME UNCHANGED <<initialized, logging_enabled, common_file, mpc, cur, file, pc>>
      PROVE  PhaseInv'
  BY <1>0, <1>1 DEF PhaseInv
<1>2. ASSUME NEW e \in Env, SetEnvPrefix(e) PROVE PhaseInv'
  BY <1>1, <1>2 DEF SetEnvPrefix, lib, async, main, caller
<1>3. CASE LoggerInit
  BY <1>0, <1>3 DEF LoggerInit, DoInit, main, PhaseInv
<1>4. CASE Shutdown
  BY <1>0, <1>4, OrderLength DEF Shutdown, lib, async, caller, PhaseInv
<1>5. CASE StopWriter
  <2>1. CASE file[Order[cur]]
    BY <1>0, <1>5, <2>1, OrderLength DEF StopWriter, lib, caller, PhaseInv
  <2>2. CASE ~file[Order[cur]]
    <3>1. /\ UNCHANGED <<initialized, logging_enabled, common_file, mpc, file, pc>>
          /\ cur' = cur + 1
          /\ mpc = "stop"
      BY <1>5, <2>2 DEF StopWriter, lib, caller
    <3>2. \A i \in 1..Len(Order) : i < cur' => ~file[Order[i]]
      BY <1>0, <2>2, <3>1, OrderLength DEF PhaseInv
    <3>3. QED
      BY <1>0, <3>1, <3>2 DEF PhaseInv
  <2>3. QED
    BY <2>1, <2>2
<1>6. CASE JoinWriter
  <2>1. /\ UNCHANGED <<initialized, logging_enabled, common_file, pc>>
        /\ cur' = cur + 1 /\ mpc' = "stop"
        /\ mpc = "join" /\ file' = [file EXCEPT ![Order[cur]] = FALSE]
    BY <1>6 DEF JoinWriter, lib, caller
  <2>2. \A i \in 1..4 : Order[i] \in Level
    BY OrderCovers
  <2>3. \A i \in 1..Len(Order) : i < cur' => ~file'[Order[i]]
    BY <1>0, <2>1, <2>2, OrderLength DEF PhaseInv
  <2>4. QED
    BY <1>0, <2>1, <2>3 DEF PhaseInv
<1>7. CASE CloseCommon
  <2>1. /\ mpc = "stop" /\ cur = 5 /\ mpc' = "up" /\ initialized' = FALSE
        /\ UNCHANGED <<file, pc>>
    BY <1>0, <1>7, OrderLength DEF CloseCommon, async, caller
  <2>2. \A l \in Level : ~file[l]
    BY <1>0, <2>1, OrderLength, OrderCovers DEF PhaseInv
  <2>3. QED
    BY <1>0, <2>1, <2>2 DEF PhaseInv
<1>8. ASSUME NEW l \in Level, SetLevel(l) PROVE PhaseInv'
  BY <1>1, <1>8 DEF SetLevel, async, caller
<1>9. ASSUME NEW l \in Level,
             Writer(l) \/ SpuriousWakeup(l)
      PROVE  PhaseInv'
  BY <1>1, <1>9 DEF Writer, WriterTakes, WriterWrites, WriterDrains, SpuriousWakeup,
                    lib, main, caller
<1>10. ASSUME NEW t \in Thread, NEW l \in UseLevel, Log(t, l) PROVE PhaseInv'
  BY <1>0, <1>10 DEF Log, Goto, lib, async, main, PhaseInv
<1>11. ASSUME NEW t \in Thread, LazyInit(t) PROVE PhaseInv'
  <2>1. /\ pc[t] # "idle" /\ UNCHANGED main /\ initialized' = TRUE
    BY <1>0, <1>11 DEF LazyInit, Goto, DoInit, lib
  <2>2. mpc' = "up"
    BY <1>0, <2>1 DEF main, PhaseInv
  <2>3. logging_enabled' => common_file' # "NULL"
    BY <1>0, <1>11 DEF LazyInit, DoInit, lib, PhaseInv
  <2>4. QED
    BY <2>1, <2>2, <2>3 DEF PhaseInv
<1>12. ASSUME NEW t \in Thread,
              CheckLevel(t) \/ NoMemory(t) \/ Route(t) \/ Enqueue(t) \/ SyncWrite(t)
       PROVE  PhaseInv'
  <2>1. /\ pc[t] \notin {"idle", "lazy"}
        /\ UNCHANGED <<initialized, logging_enabled, common_file, mpc, cur, file>>
    BY <1>12 DEF CheckLevel, NoMemory, Route, Enqueue, SyncWrite, Goto, lib, async, main
  <2>2. initialized /\ mpc = "up"
    BY <1>0, <2>1 DEF PhaseInv
  <2>3. QED
    BY <1>0, <2>1, <2>2 DEF PhaseInv
<1>13. CASE UNCHANGED vars
  BY <1>1, <1>13 DEF vars, lib, async, main, caller
<1>14. QED
  BY <1>2, <1>3, <1>4, <1>5, <1>6, <1>7, <1>8, <1>9, <1>10, <1>11, <1>12, <1>13
     DEF Next, Stopping, Logging

\* The file a thread has seen open stays open until it has enqueued: only a
\* shutdown closes files, and a shutdown waits for the threads.
LEMMA CallStep == IInv /\ [Next]_vars => CallInv'
<1> SUFFICES ASSUME IInv, [Next]_vars PROVE CallInv'
  OBVIOUS
<1>0. /\ PhaseInv /\ CallInv
      /\ mpc \in {"up", "stop", "join"} /\ level \in [Thread -> Level]
      /\ msg \in [Thread -> Nat]
      /\ pc \in [Thread -> {"idle", "lazy", "check", "route", "enqueue", "sync"}]
      /\ file \in [Level -> BOOLEAN] /\ initialized \in BOOLEAN
      /\ logging_enabled \in BOOLEAN
  BY DEF IInv, TypeOK
<1>1. ASSUME UNCHANGED caller, \A l \in Level : file[l] => file'[l],
             initialized => UNCHANGED logging_enabled
      PROVE  CallInv'
  BY <1>0, <1>1 DEF CallInv, PhaseInv, caller
<1>2. ASSUME ~initialized, DoInit PROVE \A l \in Level : file[l] => file'[l]
  BY <1>0, <1>2 DEF PhaseInv
<1>3. ASSUME NEW e \in Env, SetEnvPrefix(e) PROVE CallInv'
  BY <1>1, <1>3 DEF SetEnvPrefix, lib, async
<1>4. CASE LoggerInit
  BY <1>1, <1>2, <1>4 DEF LoggerInit
<1>5. CASE Shutdown
  BY <1>1, <1>5 DEF Shutdown, lib, async
<1>6. CASE Stopping
  <2>1. \A t \in Thread : pc'[t] = "idle"
    BY <1>0, <1>6 DEF PhaseInv, Stopping, StopWriter, JoinWriter, CloseCommon, caller
  <2>2. QED
    BY <2>1 DEF CallInv
<1>7. ASSUME NEW l \in Level, SetLevel(l) \/ Writer(l) \/ SpuriousWakeup(l) PROVE CallInv'
  BY <1>1, <1>7 DEF SetLevel, Writer, WriterTakes, WriterWrites, WriterDrains,
                    SpuriousWakeup, lib, async
<1>8. ASSUME NEW t \in Thread, NEW l \in UseLevel, Log(t, l) PROVE CallInv'
  <2>1. /\ \A s \in Thread \ {t} : pc'[s] = pc[s] /\ msg'[s] = msg[s] /\ level'[s] = level[s]
        /\ pc'[t] \in {"check", "lazy"} /\ msg'[t] >= 1 /\ UNCHANGED <<file, logging_enabled>>
    BY <1>0, <1>8 DEF Log, Goto, lib, async
  <2>2. QED
    BY <1>0, <2>1 DEF CallInv
<1>9. ASSUME NEW t \in Thread, LazyInit(t) PROVE CallInv'
  <2>1. /\ \A s \in Thread \ {t} : pc'[s] = pc[s]
        /\ pc[t] # "idle" /\ pc'[t] = "check" /\ UNCHANGED <<msg, level>>
    BY <1>0, <1>9 DEF LazyInit, Goto
  <2>2. \A l \in Level : file[l] => file'[l]
    BY <1>2, <1>9 DEF LazyInit, async
  <2>3. initialized => UNCHANGED logging_enabled
    BY <1>9 DEF LazyInit, lib
  <2>4. QED
    BY <1>0, <2>1, <2>2, <2>3 DEF CallInv, PhaseInv
<1>10. ASSUME NEW t \in Thread,
              CheckLevel(t) \/ NoMemory(t) \/ Route(t) \/ Enqueue(t) \/ SyncWrite(t)
       PROVE  CallInv'
  <2>1. /\ \A s \in Thread \ {t} : pc'[s] = pc[s]
        /\ pc[t] # "idle" /\ UNCHANGED <<msg, level, file, logging_enabled>>
        /\ pc'[t] = "enqueue" => file[level[t]]
        /\ pc'[t] \in {"route", "sync"} => logging_enabled
    BY <1>0, <1>10 DEF CallInv, CheckLevel, Suppressed, NoMemory, Route, Enqueue, SyncWrite,
                       Goto, lib, async
  <2>2. QED
    BY <1>0, <2>1 DEF CallInv
<1>11. CASE UNCHANGED vars
  BY <1>1, <1>11 DEF vars, lib, async
<1>12. QED
  BY <1>3, <1>4, <1>5, <1>6, <1>7, <1>8, <1>9, <1>10, <1>11 DEF Next, Logging

-----------------------------------------------------------------------------
(***************************************************************************)
(* Type correctness of logger.c's model, with the life of the writers: the *)
(* inductive invariant that the other theorems of this module use.         *)
(***************************************************************************)
THEOREM TypeCorrect == Spec => []TypeOK /\ []IInv
<1>1. Init => IInv
  <2> SUFFICES ASSUME Init PROVE IInv
    OBVIOUS
  <2>1. TypeOK
    <3>1. <<>> \in Seq(Msg)
      BY EmptySeq
    <3>2. ERROR \in Level
      BY DEF ERROR, Level
    <3>3. cur \in 1..Len(Order) + 1 /\ sets \in 0..MaxSet
      BY OrderLength DEF Init
    <3>4. msg \in [Thread -> Nat] /\ \A t \in Thread : msg[t] <= Quota[t]
      BY DEF Init
    <3>5. /\ queue \in [Level -> Seq(Msg)] /\ wmsg \in [Level -> Seq(Msg)]
          /\ accepted \in [Level -> Seq(Msg)]
      BY <3>1 DEF Init
    <3>6. handled \in [Level -> Seq(Handled)]
      BY EmptySeq DEF Init
    <3>7. QED
      BY <3>2, <3>3, <3>4, <3>5, <3>6 DEF Init, TypeOK
  <2>2. WriterInv
    BY DEF Init, WriterInv, WriterOk, Live, Leaving
  <2>3. PhaseInv /\ CallInv
    BY DEF Init, PhaseInv, CallInv
  <2>4. QED
    BY <2>1, <2>2, <2>3 DEF IInv
<1>2. IInv /\ [Next]_vars => IInv'
  BY TypeStep, WriterStep, PhaseStep, CallStep DEF IInv
<1>3. IInv => TypeOK
  BY DEF IInv
<1>4. QED
  BY <1>1, <1>2, <1>3, PTL DEF Spec

(***************************************************************************)
(* A thread about to enqueue, which looked at the level's file without its *)
(* mutex (line 492), finds a writer that lives and goes on; one that       *)
(* writes itself finds the common file open (line 497).                    *)
(***************************************************************************)
THEOREM QueueIsServedHolds == Spec => []QueueIsServed
<1>1. IInv => QueueIsServed
  <2> SUFFICES ASSUME IInv, NEW t \in Thread
               PROVE  /\ pc[t] = "enqueue" =>
                            /\ file[level[t]] /\ running[level[t]]
                            /\ wpc[level[t]] \in {"relock", "wait", "write"}
                      /\ pc[t] = "sync" => common_file # "NULL"
    BY DEF QueueIsServed
  <2>1. CASE pc[t] = "enqueue"
    <3>1. level[t] \in Level /\ file[level[t]]
      BY <2>1 DEF IInv, TypeOK, CallInv
    <3>2. ~Leaving(level[t])
      BY <2>1 DEF IInv, PhaseInv, Leaving
    <3>3. QED
      BY <2>1, <3>1, <3>2 DEF IInv, WriterInv, WriterOk
  <2>2. CASE pc[t] = "sync"
    BY <2>2 DEF IInv, PhaseInv, CallInv
  <2>3. QED
    BY <2>1, <2>2
<1>2. QED
  BY <1>1, TypeCorrect, PTL

-----------------------------------------------------------------------------
\* Concatenation and the two ends of a sequence.
LEMMA AppendConcat ==
    ASSUME NEW S, NEW a \in Seq(S), NEW q \in Seq(S), NEW e \in S
    PROVE  a \o Append(q, e) = Append(a \o q, e)
<1>1. a \o q \in Seq(S) /\ <<e>> \in Seq(S)
  BY ConcatProperties
<1>2. Append(q, e) = q \o <<e>> /\ Append(a \o q, e) = (a \o q) \o <<e>>
  BY <1>1, AppendIsConcat
<1>3. QED
  BY <1>1, <1>2, ConcatAssociative

\* A sequence is its head followed by its tail.
LEMMA HeadThenTail ==
    ASSUME NEW S, NEW q \in Seq(S), q # <<>>
    PROVE  <<Head(q)>> \o Tail(q) = q
<1>1. Head(q) \in S /\ Tail(q) \in Seq(S) /\ <<Head(q)>> \in Seq(S)
  BY HeadTailProperties
<1> DEFINE r == <<Head(q)>> \o Tail(q)
<1>2. /\ r \in Seq(S) /\ Len(r) = 1 + Len(Tail(q)) /\ Len(Tail(q)) = Len(q) - 1
      /\ Len(q) \in Nat
      /\ \A i \in 1..Len(r) : r[i] = IF i <= 1 THEN Head(q) ELSE Tail(q)[i - 1]
  BY <1>1, ConcatProperties, HeadTailProperties, LenProperties
<1>3. \A i \in 1..Len(r) : r[i] = q[i]
  BY <1>2, HeadTailProperties
<1>4. QED
  BY <1>2, <1>3, SeqEqual

\* Concatenation of messages, in the form the steps need.
LEMMA MsgConcat ==
    /\ \A a, b, c \in Seq(Msg) : (a \o b) \o c = a \o (b \o c)
    /\ \A a, q \in Seq(Msg), e \in Msg : a \o Append(q, e) = Append(a \o q, e)
BY ConcatAssociative, AppendConcat

\* The messages of a history are as many as its entries.
LEMMA MsgsSeq ==
    ASSUME NEW h \in Seq(Handled)
    PROVE  /\ Msgs(h) \in Seq(Msg) /\ Len(Msgs(h)) = Len(h) /\ Len(h) \in Nat
           /\ \A i \in 1..Len(h) : Msgs(h)[i] = h[i].msg
<1>1. Len(h) \in Nat /\ \A i \in 1..Len(h) : h[i].msg \in Msg
  <2>1. Len(h) \in Nat /\ \A i \in 1..Len(h) : h[i] \in Handled
    BY LenProperties, ElementOfSeq
  <2>2. \A r \in Handled : r.msg \in Msg
    BY DEF Handled
  <2>3. QED
    BY <2>1, <2>2
<1>2. Msgs(h) \in [1..Len(h) -> Msg] /\ DOMAIN Msgs(h) = 1..Len(h)
  BY <1>1 DEF Msgs
<1>3. Msgs(h) \in Seq(Msg)
  BY <1>1, <1>2, SeqDef, Zenon
<1>4. Len(Msgs(h)) = Len(h)
  BY <1>1, <1>2, <1>3, LenProperties
<1>5. QED
  BY <1>1, <1>3, <1>4 DEF Msgs

\* A message that is dealt with becomes the last one of its history.
LEMMA MsgsAppend ==
    ASSUME NEW h \in Seq(Handled), NEW r \in Handled
    PROVE  Msgs(Append(h, r)) = Msgs(h) \o <<r.msg>>
<1> DEFINE g == Append(h, r)
           c == Msgs(h) \o <<r.msg>>
<1>1. /\ g \in Seq(Handled) /\ Len(g) = Len(h) + 1
      /\ \A i \in 1..Len(g) : g[i] = IF i = Len(h) + 1 THEN r ELSE h[i]
  BY AppendProperties, LenProperties
<1>2. r.msg \in Msg /\ <<r.msg>> \in Seq(Msg) /\ Len(<<r.msg>>) = 1
  BY DEF Handled
<1>3. /\ c \in Seq(Msg) /\ Len(c) = Len(h) + 1
      /\ \A i \in 1..Len(h) + 1 : c[i] = IF i <= Len(h) THEN Msgs(h)[i] ELSE r.msg
  BY <1>2, MsgsSeq, ConcatProperties
<1>4. /\ Msgs(g) \in Seq(Msg) /\ Len(Msgs(g)) = Len(h) + 1
      /\ \A i \in 1..Len(h) + 1 : Msgs(g)[i] = g[i].msg
  BY <1>1, MsgsSeq
<1>5. \A i \in 1..Len(h) + 1 : Msgs(g)[i] = c[i]
  BY <1>1, <1>3, <1>4, MsgsSeq
<1>6. QED
  BY <1>3, <1>4, <1>5, SeqEqual

\* What dealing with a message adds to the history of its level.
LEMMA HandleAppends ==
    ASSUME TypeOK, NEW l \in Level, NEW m \in Msg, Handle(l, m)
    PROVE  /\ \E f \in Fate :
                 handled' = [handled EXCEPT ![l] = Append(@, [msg |-> m, fate |-> f])]
           /\ Msgs(handled'[l]) = Msgs(handled[l]) \o <<m>>
           /\ \A k \in Level \ {l} : handled'[k] = handled[k]
<1>1. PICK f \in {Dest(l), "lost"} :
         handled' = [handled EXCEPT ![l] = Append(@, [msg |-> m, fate |-> f])]
  BY DEF Handle
<1> DEFINE h == [msg |-> m, fate |-> f]
<1>2. f \in Fate /\ h \in Handled /\ h.msg = m
  BY DEF Handled, Fate, Place, Dest
<1>3. handled \in [Level -> Seq(Handled)]
  BY DEF TypeOK
<1>4. Msgs(Append(handled[l], h)) = Msgs(handled[l]) \o <<m>>
  BY <1>2, <1>3, MsgsAppend
<1>5. handled'[l] = Append(handled[l], h)
  BY <1>1, <1>3
<1>6. QED
  BY <1>1, <1>2, <1>3, <1>4, <1>5

\* The part of Conservation of one level, over one step.
Kept(l) == accepted[l] = Msgs(handled[l]) \o wmsg[l] \o queue[l]

(***************************************************************************)
(* Every step moves at most one message, from the thread that enqueues it  *)
(* to the tail of its level's queue, from the head of the queue to the     *)
(* writer or, in the final drain, to its end, and from the writer to its   *)
(* end: this is the only way from what was accepted to what is dealt with. *)
(***************************************************************************)
LEMMA ConservationStep == IInv /\ Conservation /\ [Next]_vars => Conservation'
<1> SUFFICES ASSUME IInv, Conservation, [Next]_vars PROVE Conservation'
  OBVIOUS
<1> DEFINE seqs(l) == <<accepted[l], handled[l], wmsg[l], queue[l]>>
<1>0. /\ queue \in [Level -> Seq(Msg)] /\ wmsg \in [Level -> Seq(Msg)]
      /\ accepted \in [Level -> Seq(Msg)] /\ handled \in [Level -> Seq(Handled)]
      /\ \A l \in Level : Kept(l) /\ Msgs(handled[l]) \in Seq(Msg)
  BY MsgsSeq DEF IInv, TypeOK, Conservation, Kept
<1>1. ASSUME UNCHANGED <<accepted, handled, wmsg, queue>> PROVE Conservation'
  BY <1>0, <1>1 DEF Conservation, Kept
<1>2. ASSUME NEW l \in Level, Kept(l)',
             \A k \in Level \ {l} : seqs(k)' = seqs(k)
      PROVE  Conservation'
  <2>1. \A k \in Level \ {l} : Kept(k)'
    BY <1>0, <1>2 DEF Kept
  <2>2. QED
    BY <1>2, <2>1 DEF Conservation, Kept
<1>3. ASSUME NEW l \in Level, WriterTakes(l) PROVE Conservation'
  <2>1. CASE queue[l] # <<>> /\ queue' # queue
    <3>1. /\ wmsg' = [wmsg EXCEPT ![l] = <<Head(queue[l])>>]
          /\ queue' = [queue EXCEPT ![l] = Tail(queue[l])]
          /\ UNCHANGED <<accepted, handled>> /\ wmsg[l] = <<>>
      BY <1>3, <2>1 DEF IInv, WriterInv, WriterOk, WriterTakes, hist
    <3>2. Kept(l)'
      <4> DEFINE q == queue[l]
                 w == Msgs(handled[l])
      <4>1. q \in Seq(Msg) /\ w \in Seq(Msg)
        BY <1>0
      <4>2. /\ <<Head(q)>> \in Seq(Msg) /\ Tail(q) \in Seq(Msg)
            /\ <<Head(q)>> \o Tail(q) = q
        BY <2>1, <4>1, HeadTailProperties, HeadThenTail
      <4>3. (w \o <<Head(q)>>) \o Tail(q) = w \o (<<Head(q)>> \o Tail(q))
        BY <4>1, <4>2, MsgConcat
      <4>4. accepted[l] = w \o q
        BY <1>0, <3>1, <4>1, ConcatEmptySeq DEF Kept
      <4>5. QED
        BY <1>0, <3>1, <4>2, <4>3, <4>4 DEF Kept
    <3>3. QED
      BY <1>0, <1>2, <3>1, <3>2
  <2>2. CASE queue[l] = <<>> \/ queue' = queue
    <3>1. UNCHANGED <<queue, wmsg>>
      <4>1. queue[l] # <<>> => Len(Tail(queue[l])) # Len(queue[l])
        BY <1>0, HeadTailProperties, LenProperties
      <4>2. QED
        BY <1>0, <1>3, <2>2, <4>1 DEF WriterTakes
    <3>2. QED
      BY <1>1, <1>3, <3>1 DEF WriterTakes, hist
  <2>3. QED
    BY <2>1, <2>2
<1>4. ASSUME NEW l \in Level, WriterWrites(l) PROVE Conservation'
  <2>1. PICK m \in Msg : wmsg[l] = <<m>>
    BY <1>4 DEF IInv, WriterInv, WriterOk, WriterWrites
  <2>2. Handle(l, m) /\ wmsg' = [wmsg EXCEPT ![l] = <<>>] /\ UNCHANGED <<accepted, queue>>
    BY <1>4, <2>1 DEF WriterWrites
  <2>3. /\ Msgs(handled'[l]) = Msgs(handled[l]) \o <<m>>
        /\ \A k \in Level \ {l} : handled'[k] = handled[k]
    BY <2>2, HandleAppends DEF IInv
  <2>4. (Msgs(handled[l]) \o <<m>>) \o <<>> = Msgs(handled[l]) \o <<m>>
    BY <1>0, <2>1, ConcatProperties, ConcatEmptySeq
  <2>5. Kept(l)'
    BY <1>0, <2>1, <2>2, <2>3, <2>4 DEF Kept
  <2>6. QED
    BY <1>0, <1>2, <2>2, <2>3, <2>5
<1>5. ASSUME NEW l \in Level, WriterDrains(l) PROVE Conservation'
  <2>1. CASE queue[l] = <<>>
    BY <1>1, <1>5, <2>1 DEF WriterDrains
  <2>2. CASE queue[l] # <<>>
    <3>1. /\ Handle(l, Head(queue[l])) /\ Head(queue[l]) \in Msg
          /\ queue' = [queue EXCEPT ![l] = Tail(@)]
          /\ UNCHANGED <<accepted, wmsg>> /\ wmsg[l] = <<>>
      BY <1>0, <1>5, <2>2, HeadTailProperties DEF IInv, WriterInv, WriterOk, WriterDrains
    <3>2. /\ Msgs(handled'[l]) = Msgs(handled[l]) \o <<Head(queue[l])>>
          /\ \A k \in Level \ {l} : handled'[k] = handled[k]
      BY <3>1, HandleAppends DEF IInv
    <3>3. Kept(l)'
      <4> DEFINE q == queue[l]
                 w == Msgs(handled[l])
      <4>1. q \in Seq(Msg) /\ w \in Seq(Msg)
        BY <1>0
      <4>2. /\ Head(q) \in Msg /\ <<Head(q)>> \in Seq(Msg) /\ Tail(q) \in Seq(Msg)
            /\ <<Head(q)>> \o Tail(q) = q
        BY <2>2, <4>1, HeadTailProperties, HeadThenTail
      <4>3. w \o <<Head(q)>> \in Seq(Msg)
        BY <4>1, <4>2, ConcatProperties
      <4>4. (w \o <<Head(q)>>) \o Tail(q) = w \o (<<Head(q)>> \o Tail(q))
        BY <4>1, <4>2, MsgConcat
      <4>5. accepted[l] = w \o q /\ (w \o <<Head(q)>>) \o <<>> = w \o <<Head(q)>>
        BY <1>0, <3>1, <4>1, <4>3, ConcatEmptySeq DEF Kept
      <4>6. QED
        BY <1>0, <3>1, <3>2, <4>2, <4>4, <4>5 DEF Kept
    <3>4. QED
      BY <1>0, <1>2, <3>1, <3>2, <3>3
  <2>3. QED
    BY <2>1, <2>2
<1>6. ASSUME NEW t \in Thread, Enqueue(t) PROVE Conservation'
  <2>1. PICK l \in Level, m \in Msg : l = level[t] /\ m = <<t, msg[t]>>
    BY <1>6, MsgOfThread DEF IInv, TypeOK, Enqueue, Goto
  <2>2. /\ queue' = [queue EXCEPT ![l] = Append(@, m)]
        /\ accepted' = [accepted EXCEPT ![l] = Append(@, m)]
        /\ UNCHANGED <<handled, wmsg>>
    BY <1>6, <2>1 DEF Enqueue, Push
  <2>3. Kept(l)'
    <3>1. Msgs(handled[l]) \o wmsg[l] \in Seq(Msg) /\ queue[l] \in Seq(Msg)
      BY <1>0, ConcatProperties
    <3>2. (Msgs(handled[l]) \o wmsg[l]) \o Append(queue[l], m) =
             Append((Msgs(handled[l]) \o wmsg[l]) \o queue[l], m)
      BY <3>1, MsgConcat
    <3>3. QED
      BY <1>0, <2>2, <3>2 DEF Kept
  <2>4. QED
    BY <1>0, <1>2, <2>2, <2>3
<1>7. ASSUME LoggerInit \/ \E t \in Thread : LazyInit(t) PROVE Conservation'
  <2>1. CASE initialized
    BY <1>1, <1>7, <2>1 DEF LoggerInit, LazyInit, async, hist
  <2>2. CASE ~initialized
    <3>1. mpc' = "up"
      BY <1>7, <2>2 DEF IInv, PhaseInv, LoggerInit, LazyInit, main
    <3>2. queue' = queue /\ wmsg' = wmsg
      BY <1>7, <2>2, <3>1, DoInitWriters DEF LoggerInit, LazyInit
    <3>3. QED
      BY <1>1, <1>7, <3>2 DEF LoggerInit, LazyInit, hist
  <2>3. QED
    BY <2>1, <2>2
<1>8. CASE Shutdown \/ Stopping \/ \E e \in Env : SetEnvPrefix(e)
  BY <1>1, <1>8 DEF Shutdown, Stopping, StopWriter, JoinWriter, CloseCommon, SetEnvPrefix,
                    async, hist
<1>9. ASSUME NEW l \in Level, SetLevel(l) \/ SpuriousWakeup(l) PROVE Conservation'
  BY <1>1, <1>9 DEF SetLevel, SpuriousWakeup, async, hist
<1>10. ASSUME NEW t \in Thread,
              \/ CheckLevel(t) \/ NoMemory(t) \/ Route(t) \/ SyncWrite(t)
              \/ \E l \in UseLevel : Log(t, l)
       PROVE  Conservation'
  BY <1>1, <1>10 DEF CheckLevel, NoMemory, Route, SyncWrite, Log, async, hist
<1>11. CASE UNCHANGED vars
  BY <1>1, <1>11 DEF vars, async, hist
<1>12. QED
  BY <1>3, <1>4, <1>5, <1>6, <1>7, <1>8, <1>9, <1>10, <1>11 DEF Next, Writer, Logging

(***************************************************************************)
(* The writer of a level deals with every message accepted for it once, in *)
(* the order of their acceptance, whichever of them asprintf fails for.    *)
(***************************************************************************)
THEOREM ConservationHolds == Spec => []Conservation
<1>1. Init => Conservation
  <2>1. <<>> \o <<>> \o <<>> = <<>>
    OBVIOUS
  <2>2. Msgs(<<>>) = <<>>
    BY EmptySeq, MsgsSeq
  <2>3. QED
    BY <2>1, <2>2 DEF Init, Conservation
<1>2. QED
  BY <1>1, ConservationStep, TypeCorrect, PTL DEF Spec

(***************************************************************************)
(* When logger_shutdown clears initialized, every accepted message has     *)
(* been dealt with: it was written to the level's file or to stdout, or    *)
(* lost to an asprintf or fwrite that failed.  Every writer has been       *)
(* joined and every file is closed.                                        *)
(***************************************************************************)
THEOREM ShutdownFlushesHolds == Spec => []ShutdownFlushes
<1>1. IInv /\ Conservation => ShutdownFlushes
  <2> SUFFICES ASSUME IInv, Conservation, ~initialized, NEW l \in Level
               PROVE  /\ Msgs(handled[l]) = accepted[l]
                      /\ wpc[l] \in {"none", "done"} /\ ~file[l]
    BY DEF ShutdownFlushes
  <2>1. ~file[l] /\ WriterOk(l)
    BY DEF IInv, PhaseInv, WriterInv
  <2>2. wpc[l] \in {"none", "done"} /\ queue[l] = <<>> /\ wmsg[l] = <<>>
    BY <2>1 DEF WriterOk, Live
  <2>3. (Msgs(handled[l]) \o <<>>) \o <<>> = Msgs(handled[l])
    BY ConcatEmptySeq, MsgsSeq DEF IInv, TypeOK
  <2>4. QED
    BY <2>1, <2>2, <2>3 DEF Conservation
<1>2. QED
  BY <1>1, ConservationHolds, TypeCorrect, PTL

-----------------------------------------------------------------------------
\* Where the next message to deliver is in what was accepted.
LEMMA NextToDeliver ==
    ASSUME NEW a \in Seq(Msg), NEW m \in Msg, NEW q \in Seq(Msg)
    PROVE  /\ Len(a) < Len((a \o <<m>>) \o q)
           /\ ((a \o <<m>>) \o q)[Len(a) + 1] = m
<1> DEFINE b == a \o <<m>>
<1>1. b = Append(a, m)
  BY AppendIsConcat
<1>2. b \in Seq(Msg) /\ Len(b) = Len(a) + 1 /\ b[Len(a) + 1] = m /\ Len(a) \in Nat
  BY <1>1, AppendProperties, LenProperties
<1> HIDE DEF b
<1>3. /\ Len(b \o q) = Len(b) + Len(q) /\ Len(q) \in Nat
      /\ \A i \in 1..Len(b) + Len(q) :
            (b \o q)[i] = IF i <= Len(b) THEN b[i] ELSE q[i - Len(b)]
  BY <1>2, ConcatProperties, LenProperties
<1>4. Len(a) < Len(b \o q) /\ (b \o q)[Len(a) + 1] = m
  BY <1>2, <1>3
<1>5. QED
  BY <1>1, <1>4 DEF b

\* A step of the library is a step of the channels of LogChannel.tla, or none
\* that they can see: a message is sent when it is enqueued, and delivered or lost by
\* the writer.
LEMMA ChannelStep == IInv /\ Conservation /\ [Next]_vars => [Chan!CNext]_(Chan!cvars)
<1> SUFFICES ASSUME IInv, Conservation, [Next]_vars
             PROVE  Chan!CNext \/ UNCHANGED <<accepted, handled>>
  BY DEF Chan!cvars
<1>0. /\ queue \in [Level -> Seq(Msg)] /\ wmsg \in [Level -> Seq(Msg)]
      /\ accepted \in [Level -> Seq(Msg)] /\ handled \in [Level -> Seq(Handled)]
      /\ \A l \in Level : /\ Kept(l) /\ WriterOk(l)
                          /\ Msgs(handled[l]) \in Seq(Msg)
                          /\ Len(Msgs(handled[l])) = Len(handled[l])
  BY MsgsSeq DEF IInv, TypeOK, WriterInv, Conservation, Kept
<1>1. ASSUME NEW t \in Thread, Enqueue(t) PROVE Chan!CNext
  <2>1. PICK l \in Level, m \in Msg : l = level[t] /\ m = <<t, msg[t]>>
    BY <1>1, MsgOfThread DEF IInv, TypeOK, Enqueue, Goto
  <2>2. Chan!Send(l)
    BY <1>1, <2>1 DEF Enqueue, Push, Chan!Send
  <2>3. QED
    BY <2>2 DEF Chan!CNext
<1>2. ASSUME NEW l \in Level, NEW m \in Msg, NEW q \in Seq(Msg),
             accepted[l] = (Msgs(handled[l]) \o <<m>>) \o q,
             Handle(l, m), UNCHANGED accepted
      PROVE  Chan!CNext
  <2>1. /\ Len(handled[l]) < Len(accepted[l])
        /\ accepted[l][Len(handled[l]) + 1] = m
    <3> DEFINE a == Msgs(handled[l])
    <3>1. a \in Seq(Msg) /\ Len(a) = Len(handled[l]) /\ accepted[l] = (a \o <<m>>) \o q
      BY <1>0, <1>2
    <3> HIDE DEF a
    <3>2. Len(a) < Len((a \o <<m>>) \o q) /\ ((a \o <<m>>) \o q)[Len(a) + 1] = m
      BY <3>1, NextToDeliver
    <3>3. QED
      BY <3>1, <3>2
  <2>2. PICK f \in Fate :
           handled' = [handled EXCEPT ![l] = Append(@, [msg |-> m, fate |-> f])]
    BY <1>2, HandleAppends DEF IInv
  <2>3. Chan!Deal(l, f)
    BY <1>0, <1>2, <2>1, <2>2 DEF Chan!Deal
  <2>4. Chan!Deliver(l) \/ Chan!Lose(l)
    BY <2>2, <2>3 DEF Chan!Deliver, Chan!Lose, Fate
  <2>5. QED
    BY <2>4 DEF Chan!CNext
<1>3. ASSUME NEW l \in Level, WriterWrites(l) PROVE Chan!CNext
  <2>1. PICK m \in Msg : wmsg[l] = <<m>>
    BY <1>0, <1>3 DEF WriterOk, WriterWrites
  <2>2. /\ accepted[l] = (Msgs(handled[l]) \o <<m>>) \o queue[l]
        /\ Handle(l, m) /\ UNCHANGED accepted
    <3>1. Handle(l, Head(wmsg[l])) /\ Head(wmsg[l]) = m /\ UNCHANGED accepted
      BY <1>3, <2>1 DEF WriterWrites
    <3>2. accepted[l] = (Msgs(handled[l]) \o wmsg[l]) \o queue[l]
      BY <1>0 DEF Kept
    <3>3. QED
      BY <2>1, <3>1, <3>2
  <2>3. QED
    BY <1>0, <1>2, <2>2
<1>4. ASSUME NEW l \in Level, WriterDrains(l)
      PROVE  Chan!CNext \/ UNCHANGED <<accepted, handled>>
  <2>1. CASE queue[l] = <<>>
    BY <1>4, <2>1 DEF WriterDrains
  <2>2. CASE queue[l] # <<>>
    <3>1. PICK m \in Msg : m = Head(queue[l])
      BY <1>0, <2>2, HeadTailProperties
    <3>2. Tail(queue[l]) \in Seq(Msg) /\ <<m>> \in Seq(Msg) /\ <<m>> \o Tail(queue[l]) = queue[l]
      BY <1>0, <2>2, <3>1, HeadTailProperties, HeadThenTail
    <3>3. accepted[l] = Msgs(handled[l]) \o queue[l]
      <4>1. wmsg[l] = <<>> /\ Msgs(handled[l]) \o <<>> = Msgs(handled[l])
        BY <1>0, <1>4, ConcatEmptySeq DEF WriterOk, WriterDrains
      <4>2. QED
        BY <1>0, <4>1 DEF Kept
    <3>4. accepted[l] = (Msgs(handled[l]) \o <<m>>) \o Tail(queue[l])
      <4>1. Msgs(handled[l]) \in Seq(Msg)
        BY <1>0
      <4>2. (Msgs(handled[l]) \o <<m>>) \o Tail(queue[l]) =
               Msgs(handled[l]) \o (<<m>> \o Tail(queue[l]))
        BY <3>2, <4>1, MsgConcat
      <4>3. QED
        BY <3>2, <3>3, <4>2
    <3>5. Handle(l, m) /\ UNCHANGED accepted
      BY <1>4, <2>2, <3>1 DEF WriterDrains
    <3>6. QED
      BY <1>2, <3>2, <3>4, <3>5
  <2>3. QED
    BY <2>1, <2>2
<1>5. CASE \/ LoggerInit \/ Shutdown \/ Stopping \/ \E e \in Env : SetEnvPrefix(e)
  BY <1>5 DEF LoggerInit, Shutdown, Stopping, StopWriter, JoinWriter, CloseCommon,
              SetEnvPrefix, hist
<1>6. ASSUME NEW l \in Level, SetLevel(l) \/ SpuriousWakeup(l) \/ WriterTakes(l)
      PROVE  UNCHANGED <<accepted, handled>>
  BY <1>6 DEF SetLevel, SpuriousWakeup, WriterTakes, hist
<1>7. ASSUME NEW t \in Thread,
             \/ LazyInit(t) \/ CheckLevel(t) \/ NoMemory(t) \/ Route(t) \/ SyncWrite(t)
             \/ \E l \in UseLevel : Log(t, l)
      PROVE  UNCHANGED <<accepted, handled>>
  BY <1>7 DEF LazyInit, CheckLevel, NoMemory, Route, SyncWrite, Log, hist
<1>8. CASE UNCHANGED vars
  BY <1>8 DEF vars, hist
<1>9. QED
  BY <1>1, <1>3, <1>4, <1>5, <1>6, <1>7, <1>8 DEF Next, Writer, Logging

(***************************************************************************)
(* The safety of ImplementsChannel: for each level the library behaves as  *)
(* a channel in which what was accepted is delivered or lost, each message *)
(* once and in order, so that no message is lost with another one.         *)
(***************************************************************************)
THEOREM LogIsChannel == Spec => Chan!CInit /\ [][Chan!CNext]_(Chan!cvars)
<1>1. Init => Chan!CInit
  BY DEF Init, Chan!CInit
<1>2. QED
  BY <1>1, ChannelStep, ConservationHolds, TypeCorrect, PTL DEF Spec
==============================================================================
