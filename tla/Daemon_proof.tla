------------------------------ MODULE Daemon_proof ------------------------------
(***************************************************************************)
(* What Daemon.tla promises of filesizer, proved for any number of starts, *)
(* options, configurations and clients: when the starts come one after the *)
(* other the PID file keeps a second server out and names the one that     *)
(* runs, what an end that is no crash leaves behind is nothing, and a      *)
(* server told to stop answers no further client.                          *)
(***************************************************************************)
EXTENDS Daemon, TLAPS

USE DaemonAssumption

\* Between its look at the PID file and its own entry in it.
Busy(p) == pc[p] \in {"decide", "create", "write"}
\* Between its entry and the removal of the file.
Past(p) == pc[p] \in {"bind"} \cup Listening \cup Exiting

(***************************************************************************)
(* The PID file as a lock: one process at a time is about to write it,     *)
(* whoever runs is the one it names, who looked at it while somebody ran   *)
(* has found him, and who is about to write it has nobody to write over.   *)
(* Of the processes whose start is over only one listens, at the name.     *)
(***************************************************************************)
Sole   == \A p, q \in Proc : Busy(p) /\ Busy(q) => q = p
Named  == \A p \in Proc : Past(p) => pidfile["start"] = p
Seen   == \A p, q \in Proc : pc[p] = "decide" /\ Past(q) => found[p] = q
Clear  == \A p, q \in Proc : pc[p] \in {"create", "write"} => ~Past(q)
AtName == \A p \in Proc : pc[p] \in Listening => sockname = p

OwnerInv == Orderly => Sole /\ Named /\ Seen /\ Clear /\ AtName

\* What is there belongs to somebody, as long as nobody is killed.
RemainsInv ==
    Orderly /\ ~killed =>
        /\ pidfile["root"] = None
        /\ (\A q \in Proc : ~Past(q) /\ pc[q] # "write") => pidfile["start"] = None
        /\ (\A q \in Proc : pc[q] \notin Listening \cup {"unlink"}) => sockname = None

\* A server that was told to stop is in accept only if the signal came when it
\* had just decided to call it, and has not been answered since.
SignalInv ==
    \A p \in Proc :
        /\ pending[p] <= nclients
        /\ late[p] <= IF hit[p] = "enter" THEN 1 ELSE 0
        /\ keep_running[p] => late[p] = 0
        /\ ~keep_running[p] /\ pc[p] \in {"enter", "accept"} =>
              hit[p] = "enter" /\ late[p] = 0

IInv == TypeOK /\ OwnerInv /\ RemainsInv /\ SignalInv

-----------------------------------------------------------------------------
\* The steps of an end follow each other.
LEMMA HandlerOrder ==
    ASSUME NEW p \in Proc, NEW h \in Exiting, Ending(p, h)
    PROVE  /\ pc[p] = h
           /\ h = "unlink" => pc' = [pc EXCEPT ![p] = "cleanup_socket"]
           /\ h = "cleanup_socket" => pc' = [pc EXCEPT ![p] = "remove_pid"]
           /\ h = "remove_pid" => pc' = [pc EXCEPT ![p] = "dead"]
<1>1. /\ Handlers[1] = "unlink" /\ Handlers[2] = "cleanup_socket"
      /\ Handlers[3] = "remove_pid" /\ Handlers[4] = "dead"
  BY DEF Handlers
<1> DEFINE n == CHOOSE k \in 1..3 : Handlers[k] = h
<1>2. \E k \in 1..3 : Handlers[k] = h
  BY <1>1 DEF Exiting
<1>3. n \in 1..3 /\ Handlers[n] = h
  BY <1>2
<1>4. pc[p] = h /\ pc' = [pc EXCEPT ![p] = Handlers[1 + n]]
  BY DEF Ending, Goto
<1> HIDE DEF n
<1>5. n = 1 \/ n = 2 \/ n = 3
  BY <1>3
<1>6. CASE n = 1
  <2>1. h = "unlink" /\ Handlers[1 + n] = Handlers[2]
    BY <1>1, <1>3, <1>6
  <2>2. QED
    BY <1>1, <1>4, <2>1
<1>7. CASE n = 2
  <2>1. h = "cleanup_socket" /\ Handlers[1 + n] = Handlers[3]
    BY <1>1, <1>3, <1>7
  <2>2. QED
    BY <1>1, <1>4, <2>1
<1>8. CASE n = 3
  <2>1. h = "remove_pid" /\ Handlers[1 + n] = Handlers[4]
    BY <1>1, <1>3, <1>8
  <2>2. QED
    BY <1>1, <1>4, <2>1
<1>9. QED
  BY <1>5, <1>6, <1>7, <1>8

\* The PID file's place does not depend on what changes.
LEMMA PidPlace ==
    /\ UNCHANGED yaml => (RelativePid' <=> RelativePid)
    /\ ~RelativePid => \A p \in Proc : PidDir(p) = "start"
    /\ \A p \in Proc : PidDir(p) \in Dir
BY DEF RelativePid, PidDir, Dir

\* The values of pc.
Place == {"new", "dead", "bind"} \cup Starting \cup Listening \cup Exiting

-----------------------------------------------------------------------------
\* Every step keeps the variables within their types.
LEMMA TypeStep == IInv /\ [Next]_vars => TypeOK'
<1> SUFFICES ASSUME IInv, [Next]_vars PROVE TypeOK'
  OBVIOUS
<1>0. /\ TypeOK /\ SignalInv /\ pc \in [Proc -> Place]
      /\ pidfile \in [Dir -> Proc \cup {None, Empty}]
      /\ {"new", "dead", "bind", "check", "decide", "create", "write", "loop", "enter",
          "accept", "unlink", "cleanup_socket", "remove_pid"} \subseteq Place
  BY DEF IInv, TypeOK, Place, Starting, Listening, Exiting
<1>1. ASSUME NEW p \in Proc, ParseArgs(p) PROVE TypeOK'
  <2>1. pc' \in [Proc -> Place]
    BY <1>0, <1>1 DEF ParseArgs, Goto
  <2>2. QED
    BY <1>0, <1>1, <2>1 DEF TypeOK, Place, ParseArgs, fs, net, hist
<1>2. ASSUME NEW p \in Proc, ReadPidFile(p) PROVE TypeOK'
  <2>1. pc' \in [Proc -> Place] /\ found' \in [Proc -> Proc \cup {None, Empty}]
    <3>1. pidfile[PidDir(p)] \in Proc \cup {None, Empty}
      BY <1>0, PidPlace
    <3>2. QED
      BY <1>0, <1>2, <3>1 DEF TypeOK, ReadPidFile, Goto
  <2>2. QED
    BY <1>0, <1>2, <2>1 DEF TypeOK, Place, ReadPidFile, fs, net
<1>3. ASSUME NEW p \in Proc, RefuseStart(p) PROVE TypeOK'
  <2>1. pc' \in [Proc -> Place]
    BY <1>0, <1>3 DEF RefuseStart, Goto
  <2>2. QED
    BY <1>0, <1>3, <2>1 DEF TypeOK, Place, RefuseStart, fs, net, hist
<1>4. ASSUME NEW p \in Proc, CheckPassed(p) PROVE TypeOK'
  <2>1. pc' \in [Proc -> Place]
    BY <1>0, <1>4 DEF CheckPassed, Goto
  <2>2. pidfile' \in [Dir -> Proc \cup {None, Empty}]
    BY <1>0, <1>4 DEF CheckPassed
  <2>3. QED
    BY <1>0, <1>4, <2>1, <2>2 DEF TypeOK, Place, CheckPassed, net, hist
<1>5. ASSUME NEW p \in Proc, CreatePidFile(p) \/ WritePidFile(p) PROVE TypeOK'
  <2>1. pc' \in [Proc -> Place]
    BY <1>0, <1>5 DEF CreatePidFile, WritePidFile, Goto
  <2>2. pidfile' \in [Dir -> Proc \cup {None, Empty}]
    BY <1>0, <1>5 DEF CreatePidFile, WritePidFile
  <2>3. QED
    BY <1>0, <1>5, <2>1, <2>2 DEF TypeOK, Place, CreatePidFile, WritePidFile, net, hist
<1>6. ASSUME NEW p \in Proc, Bind(p) PROVE TypeOK'
  <2>1. pc' \in [Proc -> Place]
    BY <1>0, <1>6 DEF Bind, Goto
  <2>2. QED
    BY <1>0, <1>6, <2>1 DEF TypeOK, Place, Bind, net, hist
<1>7. ASSUME NEW p \in Proc, TestKeepRunning(p) \/ EnterAccept(p) PROVE TypeOK'
  <2>1. pc' \in [Proc -> Place]
    BY <1>0, <1>7 DEF TestKeepRunning, EnterAccept, Goto
  <2>2. QED
    BY <1>0, <1>7, <2>1 DEF TypeOK, Place, TestKeepRunning, EnterAccept, fs, net, hist
<1>8. ASSUME NEW p \in Proc, Accept(p) PROVE TypeOK'
  <2>1. pc' \in [Proc -> Place]
    BY <1>0, <1>8 DEF Accept, Goto
  <2>2. /\ pending \in [Proc -> 0..MaxClients] /\ late \in [Proc -> 0..MaxClients]
        /\ pc[p] = "accept" /\ pending[p] > 0 /\ MaxClients \in Nat
    BY <1>0, <1>8 DEF TypeOK, Accept, Goto, HasClient
  <2>3. ~keep_running[p] => late[p] = 0
    BY <1>0, <2>2 DEF SignalInv
  <2>4. pending' \in [Proc -> 0..MaxClients] /\ late' \in [Proc -> 0..MaxClients]
    BY <1>8, <2>2, <2>3 DEF Accept
  <2>5. QED
    BY <1>0, <1>8, <2>1, <2>4 DEF TypeOK, Place, Accept, fs
<1>9. ASSUME NEW p \in Proc, Signal(p) PROVE TypeOK'
  <2>1. pc' \in [Proc -> Place]
    BY <1>0, <1>9 DEF Signal, WokenBySignal
  <2>2. QED
    BY <1>0, <1>9, <2>1 DEF TypeOK, Place, Signal, fs, net
<1>10. ASSUME NEW p \in Proc, UnlinkSocket(p) \/ CleanupSocket(p) PROVE TypeOK'
  <2>1. pc' \in [Proc -> Place]
    BY <1>0, <1>10, HandlerOrder DEF UnlinkSocket, CleanupSocket, Exiting
  <2>2. QED
    BY <1>0, <1>10, <2>1 DEF TypeOK, Place, UnlinkSocket, CleanupSocket, net, hist
<1>11. ASSUME NEW p \in Proc, RemovePidFile(p) PROVE TypeOK'
  <2>1. pc' \in [Proc -> Place]
    BY <1>0, <1>11, HandlerOrder DEF RemovePidFile, Exiting
  <2>2. pidfile' \in [Dir -> Proc \cup {None, Empty}]
    BY <1>0, <1>11 DEF RemovePidFile, PidFileRemoved
  <2>3. /\ pending' \in [Proc -> 0..MaxClients] /\ late' \in [Proc -> 0..MaxClients]
        /\ hit' \in [Proc -> Listening \cup {"none"}]
    BY <1>0, <1>11 DEF TypeOK, RemovePidFile, Forget
  <2>4. QED
    BY <1>0, <1>11, <2>1, <2>2, <2>3 DEF TypeOK, Place, RemovePidFile
<1>12. ASSUME NEW p \in Proc, Killed(p) PROVE TypeOK'
  <2>1. pc' \in [Proc -> Place]
    BY <1>0, <1>12 DEF Killed
  <2>2. QED
    BY <1>0, <1>12, <2>1 DEF TypeOK, Place, Killed, Forget, fs
<1>13. CASE Connect
  <2>1. /\ sockname \in Proc /\ pending[sockname] <= nclients /\ nclients < MaxClients
        /\ pending \in [Proc -> 0..MaxClients] /\ nclients \in 0..MaxClients
    BY <1>0, <1>13 DEF TypeOK, SignalInv, Connect
  <2>2. pending' \in [Proc -> 0..MaxClients] /\ nclients' \in 0..MaxClients
    BY <1>13, <2>1 DEF Connect
  <2>3. QED
    BY <1>0, <1>13, <2>2 DEF TypeOK, Connect, fs, hist
<1>14. CASE UNCHANGED vars
  BY <1>0, <1>14 DEF TypeOK, vars, fs, net, hist
<1>15. QED
  BY <1>1, <1>2, <1>3, <1>4, <1>5, <1>6, <1>7, <1>8, <1>9, <1>10, <1>11, <1>12, <1>13,
     <1>14 DEF Next, Start, Run

-----------------------------------------------------------------------------
\* What becomes of a signal and of the clients.
LEMMA SignalStep == IInv /\ [Next]_vars => SignalInv'
<1> SUFFICES ASSUME IInv, [Next]_vars PROVE SignalInv'
  OBVIOUS
<1> DEFINE SigOk(p) ==
              /\ pending[p] <= nclients
              /\ late[p] <= IF hit[p] = "enter" THEN 1 ELSE 0
              /\ keep_running[p] => late[p] = 0
              /\ ~keep_running[p] /\ pc[p] \in {"enter", "accept"} =>
                    hit[p] = "enter" /\ late[p] = 0
<1>0. /\ \A p \in Proc : SigOk(p)
      /\ pc \in [Proc -> Place] /\ keep_running \in [Proc -> BOOLEAN]
      /\ pending \in [Proc -> 0..MaxClients] /\ nclients \in 0..MaxClients
      /\ late \in [Proc -> 0..MaxClients] /\ hit \in [Proc -> Listening \cup {"none"}]
      /\ sockname \in Proc \cup {None} /\ MaxClients \in Nat
  BY DEF IInv, TypeOK, SignalInv, Place
<1>1. ASSUME NEW p \in Proc, UNCHANGED <<pending, nclients, late, hit, keep_running>>,
             \A q \in Proc \ {p} : pc'[q] = pc[q],
             pc'[p] \in {"enter", "accept"} =>
                 keep_running[p] \/ pc[p] \in {"enter", "accept"}
      PROVE  SignalInv'
  <2>1. ASSUME NEW q \in Proc PROVE SigOk(q)'
    BY <1>0, <1>1
  <2>2. QED
    BY <2>1 DEF SignalInv
<1>2. ASSUME NEW p \in Proc, ParseArgs(p) \/ Start(p) PROVE SignalInv'
  <2>1. /\ UNCHANGED <<pending, nclients, late, hit, keep_running>>
        /\ \A q \in Proc \ {p} : pc'[q] = pc[q]
        /\ pc'[p] \notin {"enter", "accept"}
    BY <1>0, <1>2 DEF ParseArgs, Start, ReadPidFile, RefuseStart, CheckPassed,
                      CreatePidFile, WritePidFile, Bind, Goto, net, hist
  <2>2. QED
    BY <1>1, <2>1
<1>3. ASSUME NEW p \in Proc, TestKeepRunning(p) \/ EnterAccept(p) PROVE SignalInv'
  <2>1. /\ UNCHANGED <<pending, nclients, late, hit, keep_running>>
        /\ \A q \in Proc \ {p} : pc'[q] = pc[q]
        /\ pc'[p] \in {"enter", "accept"} => keep_running[p] \/ pc[p] \in {"enter", "accept"}
    BY <1>0, <1>3 DEF TestKeepRunning, EnterAccept, KeepsRunning, Goto, net, hist
  <2>2. QED
    BY <1>1, <2>1
<1>4. ASSUME NEW p \in Proc, Accept(p) PROVE SignalInv'
  <2>1. ASSUME NEW q \in Proc PROVE SigOk(q)'
    <3>1. CASE q = p
      <4>1. /\ pc[p] = "accept" /\ pc'[p] = "loop" /\ pending'[p] = pending[p] - 1
            /\ late'[p] = IF keep_running[p] THEN 0 ELSE late[p] + 1
            /\ UNCHANGED <<nclients, hit, keep_running>>
        BY <1>0, <1>4 DEF Accept, Goto
      <4>2. QED
        BY <1>0, <3>1, <4>1
    <3>2. CASE q # p
      BY <1>0, <1>4, <3>2 DEF Accept, Goto
    <3>3. QED
      BY <3>1, <3>2
  <2>2. QED
    BY <2>1 DEF SignalInv
<1>5. ASSUME NEW p \in Proc, Signal(p) PROVE SignalInv'
  <2>1. ASSUME NEW q \in Proc PROVE SigOk(q)'
    <3>1. CASE q = p
      <4>1. /\ pc[p] \in {"loop", "enter", "accept"} /\ keep_running[p]
            /\ pc'[p] = (IF pc[p] = "accept" THEN "loop" ELSE pc[p])
            /\ hit'[p] = pc[p] /\ keep_running'[p] = FALSE
            /\ UNCHANGED <<pending, nclients, late>>
        BY <1>0, <1>5 DEF Signal, WokenBySignal, Listening, net
      <4>2. QED
        BY <1>0, <3>1, <4>1
    <3>2. CASE q # p
      BY <1>0, <1>5, <3>2 DEF Signal, WokenBySignal, net
    <3>3. QED
      BY <3>1, <3>2
  <2>2. QED
    BY <2>1 DEF SignalInv
<1>6. ASSUME NEW p \in Proc, UnlinkSocket(p) \/ CleanupSocket(p) PROVE SignalInv'
  <2>1. /\ UNCHANGED <<pending, nclients, late, hit, keep_running>>
        /\ \A q \in Proc \ {p} : pc'[q] = pc[q]
        /\ pc'[p] \notin {"enter", "accept"}
    BY <1>0, <1>6, HandlerOrder DEF UnlinkSocket, CleanupSocket, Exiting, net, hist
  <2>2. QED
    BY <1>1, <2>1
<1>7. ASSUME NEW p \in Proc, RemovePidFile(p) \/ Killed(p) PROVE SignalInv'
  <2>1. pc' = [pc EXCEPT ![p] = "dead"]
    BY <1>7, HandlerOrder DEF RemovePidFile, Killed, Exiting
  <2>2. /\ UNCHANGED <<nclients, keep_running>>
        /\ pending' = [pending EXCEPT ![p] = 0]
        /\ hit' = [hit EXCEPT ![p] = "none"] /\ late' = [late EXCEPT ![p] = 0]
    BY <1>7 DEF RemovePidFile, Killed, Forget
  <2>3. ASSUME NEW q \in Proc PROVE SigOk(q)'
    BY <1>0, <2>1, <2>2
  <2>4. QED
    BY <2>3 DEF SignalInv
<1>8. CASE Connect
  <2>1. /\ nclients' = nclients + 1
        /\ \A q \in Proc : pending'[q] <= pending[q] + 1
        /\ UNCHANGED <<pc, late, hit, keep_running>>
    BY <1>0, <1>8 DEF Connect, hist
  <2>2. \A q \in Proc : pending'[q] \in Nat
    BY <1>0, <1>8 DEF Connect
  <2>3. ASSUME NEW q \in Proc PROVE SigOk(q)'
    BY <1>0, <2>1, <2>2
  <2>4. QED
    BY <2>3 DEF SignalInv
<1>9. CASE UNCHANGED vars
  BY <1>0, <1>9 DEF vars, net, hist, SignalInv
<1>10. QED
  BY <1>2, <1>3, <1>4, <1>5, <1>6, <1>7, <1>8, <1>9 DEF Next, Run

-----------------------------------------------------------------------------
\* What is not orderly any more never is again.
LEMMA OrderlyStep == TypeOK /\ [Next]_vars /\ Orderly' => Orderly
<1> SUFFICES ASSUME TypeOK, [Next]_vars, Orderly' PROVE Orderly
  OBVIOUS
<1>1. UNCHANGED yaml
  BY DEF Next, vars, ParseArgs, Start, Run, Signal, Killed, Connect, ReadPidFile,
         RefuseStart, CheckPassed, CreatePidFile, WritePidFile, Bind, TestKeepRunning,
         EnterAccept, Accept, UnlinkSocket, CleanupSocket, RemovePidFile
<1>2. overlap => overlap'
  BY DEF Next, vars, hist, ParseArgs, Start, Run, Signal, Killed, Connect, ReadPidFile,
         RefuseStart, CheckPassed, CreatePidFile, WritePidFile, Bind, TestKeepRunning,
         EnterAccept, Accept, UnlinkSocket, CleanupSocket, RemovePidFile, Forget
<1>3. QED
  BY <1>1, <1>2, PidPlace DEF Orderly

\* The PID file stays a lock, whoever starts, runs, ends or is killed.
LEMMA OwnerStep == IInv /\ [Next]_vars => OwnerInv'
<1> SUFFICES ASSUME IInv, [Next]_vars, Orderly'
             PROVE  Sole' /\ Named' /\ Seen' /\ Clear' /\ AtName'
  BY DEF OwnerInv
<1> DEFINE Goal == Sole /\ Named /\ Seen /\ Clear /\ AtName
<1>0. /\ Orderly /\ ~RelativePid /\ ~overlap' /\ Goal
      /\ pc \in [Proc -> Place] /\ found \in [Proc -> Proc \cup {None, Empty}]
      /\ pidfile \in [Dir -> Proc \cup {None, Empty}] /\ "start" \in Dir
      /\ \A q \in Proc : PidDir(q) = "start"
  BY OrderlyStep, PidPlace DEF IInv, OwnerInv, TypeOK, Orderly, Place, Dir
<1>1. ASSUME NEW p \in Proc, UNCHANGED <<found, pidfile, sockname>>,
             \A q \in Proc \ {p} : pc'[q] = pc[q],
             Past(p)' => Past(p), pc'[p] = "decide" => pc[p] = "decide",
             pc'[p] \in {"create", "write"} => pc[p] \in {"create", "write"},
             pc'[p] \in Listening => pc[p] \in Listening
      PROVE  Goal'
  <2>1. \A q \in Proc : (Busy(q)' => Busy(q)) /\ (Past(q)' => Past(q))
    BY <1>1 DEF Busy, Past
  <2>2. Sole' /\ Named'
    BY <1>0, <1>1, <2>1 DEF Sole, Named
  <2>3. Seen' /\ Clear' /\ AtName'
    BY <1>0, <1>1, <2>1 DEF Seen, Clear, AtName
  <2>4. QED
    BY <2>2, <2>3
<1>2. ASSUME NEW p \in Proc,
             ParseArgs(p) \/ RefuseStart(p) \/ TestKeepRunning(p) \/ EnterAccept(p)
                \/ Accept(p) \/ Signal(p) \/ Killed(p)
      PROVE  Goal'
  <2>1. /\ UNCHANGED <<found, pidfile, sockname>>
        /\ \A q \in Proc \ {p} : pc'[q] = pc[q]
    BY <1>0, <1>2 DEF ParseArgs, RefuseStart, TestKeepRunning, EnterAccept, Accept,
                      Signal, WokenBySignal, Killed, Goto, fs
  <2>2. \/ pc'[p] \in {"check", "dead"}
        \/ pc[p] \in Listening /\ pc'[p] \in Listening \cup {"unlink"}
    BY <1>0, <1>2 DEF ParseArgs, RefuseStart, TestKeepRunning, EnterAccept, Accept,
                      Signal, WokenBySignal, Killed, Goto, Listening
  <2>3. QED
    BY <1>1, <2>1, <2>2 DEF Past, Listening, Exiting
<1>3. ASSUME NEW p \in Proc, ReadPidFile(p) PROVE Goal'
  <2>1. /\ UNCHANGED <<pidfile, sockname>> /\ pc[p] = "check"
        /\ pc' = [pc EXCEPT ![p] = "decide"] /\ found'[p] = pidfile["start"]
        /\ \A q \in Proc \ {p} : pc[q] \notin Starting /\ found'[q] = found[q]
    BY <1>0, <1>3 DEF ReadPidFile, Goto, fs
  <2>2. \A q \in Proc \ {p} : pc'[q] = pc[q] /\ ~Busy(q)'
    BY <1>0, <2>1 DEF Starting, Busy
  <2>3. ~Past(p)' /\ pc'[p] = "decide"
    BY <1>0, <2>1 DEF Past, Listening, Exiting
  <2>4. Sole' /\ Named' /\ Clear' /\ AtName'
    BY <1>0, <2>1, <2>2, <2>3 DEF Sole, Named, Clear, AtName, Busy, Past, Listening
  <2>5. Seen'
    <3>1. \A q \in Proc : pc'[q] = "decide" => q = p
      BY <2>2 DEF Busy
    <3>2. \A q \in Proc : Past(q)' => pidfile["start"] = q
      BY <2>1, <2>4 DEF Named
    <3>3. QED
      BY <2>1, <3>1, <3>2 DEF Seen
  <2>6. QED
    BY <2>4, <2>5
<1>4. ASSUME NEW p \in Proc, CheckPassed(p) PROVE Goal'
  <2>1. /\ pc[p] = "decide" /\ ~Runs(p) /\ UNCHANGED sockname
        /\ pc' = [pc EXCEPT ![p] = "create"] \/ pc' = [pc EXCEPT ![p] = "dead"]
        /\ \A q \in Proc \ {p} : found'[q] = found[q]
    BY <1>0, <1>4 DEF CheckPassed, Goto, fs
  <2>2. \A q \in Proc : ~Past(q)
    <3>1. ASSUME NEW q \in Proc, Past(q) PROVE FALSE
      <4>1. found[p] = q
        BY <1>0, <2>1, <3>1 DEF Seen
      <4>2. Alive(q)
        BY <3>1 DEF Past, Alive, Listening, Exiting
      <4>3. QED
        BY <2>1, <4>1, <4>2 DEF Runs
    <3>2. QED
      BY <3>1
  <2>3. /\ \A q \in Proc : ~Past(q)' /\ pc'[q] \notin Listening
        /\ \A q \in Proc \ {p} : pc'[q] = pc[q]
    BY <1>0, <2>1, <2>2 DEF Past, Listening, Exiting
  <2>4. Sole'
    BY <1>0, <2>1, <2>3 DEF Sole, Busy
  <2>5. QED
    BY <2>3, <2>4 DEF Named, Seen, Clear, AtName
<1>5. ASSUME NEW p \in Proc, CreatePidFile(p) PROVE Goal'
  <2>1. /\ pc[p] = "create" /\ UNCHANGED <<sockname, found>>
        /\ pc' = [pc EXCEPT ![p] = "write"] \/ pc' = [pc EXCEPT ![p] = "dead"]
    BY <1>0, <1>5 DEF CreatePidFile, Goto, fs
  <2>2. \A q \in Proc : ~Past(q)
    BY <1>0, <2>1 DEF Clear
  <2>3. /\ \A q \in Proc : ~Past(q)' /\ pc'[q] \notin Listening
        /\ \A q \in Proc \ {p} : pc'[q] = pc[q]
    BY <1>0, <2>1, <2>2 DEF Past, Listening, Exiting
  <2>4. Sole'
    BY <1>0, <2>1, <2>3 DEF Sole, Busy
  <2>5. QED
    BY <2>3, <2>4 DEF Named, Seen, Clear, AtName
<1>6. ASSUME NEW p \in Proc, WritePidFile(p) PROVE Goal'
  <2>1. /\ pc[p] = "write" /\ UNCHANGED <<sockname, found>>
        /\ pc' = [pc EXCEPT ![p] = "bind"] /\ pidfile'["start"] = p
    BY <1>0, <1>6 DEF WritePidFile, Goto, fs
  <2>2. \A q \in Proc : ~Past(q)
    BY <1>0, <2>1 DEF Clear
  <2>3. /\ \A q \in Proc \ {p} : ~Past(q)' /\ pc'[q] = pc[q]
        /\ \A q \in Proc : pc'[q] \notin Listening
    BY <1>0, <2>1, <2>2 DEF Past, Listening, Exiting
  <2>4. \A q \in Proc : ~Busy(q)'
    BY <1>0, <2>1, <2>3 DEF Sole, Busy
  <2>5. QED
    BY <2>1, <2>3, <2>4 DEF Sole, Named, Seen, Clear, AtName, Busy
<1>7. ASSUME NEW p \in Proc, Past(p), UNCHANGED <<pidfile, found>>,
             \A q \in Proc \ {p} : pc'[q] = pc[q],
             pc'[p] \in Listening \cup Exiting,
             pc'[p] \in Listening => sockname' = p
      PROVE  Goal'
  <2>1. \A q \in Proc \ {p} : ~Past(q) /\ pc[q] \notin {"create", "write"}
    BY <1>0, <1>7 DEF Named, Clear
  <2>2. \A q \in Proc \ {p} : ~Past(q)' /\ (Busy(q)' <=> Busy(q))
    BY <1>7, <2>1 DEF Past, Busy
  <2>3. Past(p)' /\ ~Busy(p)'
    BY <1>7 DEF Past, Busy, Listening, Exiting
  <2>4. Sole' /\ Named' /\ Clear'
    BY <1>0, <1>7, <2>1, <2>2, <2>3 DEF Sole, Named, Clear, Busy
  <2>5. Seen' /\ AtName'
    BY <1>0, <1>7, <2>2, <2>3 DEF Seen, AtName, Busy, Past
  <2>6. QED
    BY <2>4, <2>5
<1>8. ASSUME NEW p \in Proc, Bind(p) \/ UnlinkSocket(p) \/ CleanupSocket(p) PROVE Goal'
  <2>1. /\ pc[p] \in {"bind"} \cup Exiting /\ UNCHANGED <<pidfile, found>>
        /\ \A q \in Proc \ {p} : pc'[q] = pc[q]
        /\ pc'[p] \in {"loop"} \cup Exiting
        /\ pc'[p] = "loop" => sockname' = p
    BY <1>0, <1>8, HandlerOrder DEF Bind, UnlinkSocket, CleanupSocket, Goto, Exiting
  <2>2. QED
    BY <1>7, <2>1 DEF Past, Listening, Exiting
<1>9. ASSUME NEW p \in Proc, RemovePidFile(p) PROVE Goal'
  <2>1. /\ pc[p] = "remove_pid" /\ pc' = [pc EXCEPT ![p] = "dead"]
        /\ UNCHANGED <<found, sockname>>
    BY <1>9, HandlerOrder DEF RemovePidFile, Exiting
  <2>2. \A q \in Proc \ {p} : ~Past(q)
    BY <1>0, <2>1 DEF Named, Past, Exiting
  <2>3. \A q \in Proc : ~Past(q)' /\ (Busy(q)' => Busy(q)) /\ pc'[q] \notin Listening
    BY <1>0, <2>1, <2>2 DEF Past, Busy, Listening, Exiting
  <2>4. QED
    BY <1>0, <2>3 DEF Sole, Named, Seen, Clear, AtName
<1>10. CASE Connect \/ UNCHANGED vars
  <2>1. UNCHANGED <<pc, found, pidfile, sockname>>
    BY <1>10 DEF Connect, vars, fs
  <2>2. QED
    BY <1>0, <2>1 DEF Sole, Named, Seen, Clear, AtName, Busy, Past
<1>11. QED
  BY <1>2, <1>3, <1>4, <1>5, <1>6, <1>8, <1>9, <1>10 DEF Next, Start, Run

\* What a process leaves at its end, if it is not killed, is nothing.
LEMMA RemainsStep == IInv /\ [Next]_vars => RemainsInv'
<1> DEFINE Served(q) == pc[q] \in Listening \cup {"unlink"}
           Entered(q) == Past(q) \/ pc[q] = "write"
           Goal == /\ pidfile["root"] = None
                   /\ (\A q \in Proc : ~Entered(q)) => pidfile["start"] = None
                   /\ (\A q \in Proc : ~Served(q)) => sockname = None
<1> SUFFICES ASSUME IInv, [Next]_vars, Orderly', ~killed' PROVE Goal'
  BY DEF RemainsInv
<1>a. ~killed
  BY DEF IInv, TypeOK, Next, vars, hist, ParseArgs, Start, Run, Signal, Killed, Connect,
         ReadPidFile, RefuseStart, CheckPassed, CreatePidFile, WritePidFile, Bind,
         TestKeepRunning, EnterAccept, Accept, UnlinkSocket, CleanupSocket, RemovePidFile
<1>0. /\ Goal /\ Named
      /\ pc \in [Proc -> Place] /\ pidfile \in [Dir -> Proc \cup {None, Empty}]
      /\ "start" \in Dir /\ "root" \in Dir /\ "root" # "start"
      /\ \A q \in Proc : PidDir(q) = "start"
  <2>1. Orderly
    BY OrderlyStep DEF IInv
  <2>2. Goal /\ Named
    BY <1>a, <2>1 DEF IInv, RemainsInv, OwnerInv
  <2>3. QED
    BY <2>1, <2>2, PidPlace DEF IInv, TypeOK, Orderly, Place, Dir
<1>1. ASSUME NEW p \in Proc, UNCHANGED <<pidfile, sockname>>,
             \A q \in Proc \ {p} : pc'[q] = pc[q],
             Entered(p) => Entered(p)', Served(p) => Served(p)'
      PROVE  Goal'
  <2>1. \A q \in Proc : (Entered(q) => Entered(q)') /\ (Served(q) => Served(q)')
    BY <1>1 DEF Past
  <2>2. QED
    BY <1>0, <1>1, <2>1
<1>2. ASSUME NEW p \in Proc,
             ParseArgs(p) \/ ReadPidFile(p) \/ RefuseStart(p) \/ TestKeepRunning(p)
                \/ EnterAccept(p) \/ Accept(p) \/ Signal(p)
      PROVE  Goal'
  <2>1. /\ UNCHANGED <<pidfile, sockname>>
        /\ \A q \in Proc \ {p} : pc'[q] = pc[q]
    BY <1>0, <1>2 DEF ParseArgs, ReadPidFile, RefuseStart, TestKeepRunning, EnterAccept,
                      Accept, Signal, WokenBySignal, Goto, fs
  <2>2. \/ pc[p] \in {"new", "check", "decide"}
        \/ pc[p] \in Listening /\ pc'[p] \in Listening \cup {"unlink"}
    BY <1>0, <1>2 DEF ParseArgs, ReadPidFile, RefuseStart, TestKeepRunning, EnterAccept,
                      Accept, Signal, WokenBySignal, Goto, Listening
  <2>3. (Entered(p) => Entered(p)') /\ (Served(p) => Served(p)')
    BY <2>2 DEF Past, Listening, Exiting
  <2>4. QED
    BY <1>1, <2>1, <2>3
<1>3. ASSUME NEW p \in Proc, CheckPassed(p) \/ CreatePidFile(p) \/ WritePidFile(p)
      PROVE  Goal'
  <2>1. /\ pc[p] \in {"decide", "create", "write"} /\ UNCHANGED sockname
        /\ \A q \in Proc \ {p} : pc'[q] = pc[q]
        /\ pidfile'["root"] = pidfile["root"]
    BY <1>0, <1>3 DEF CheckPassed, CreatePidFile, WritePidFile, Goto, fs
  <2>2. \/ pc[p] # "write" /\ pidfile'["start"] \in {pidfile["start"], None}
        \/ pc'[p] \in {"write", "bind"}
    BY <1>0, <1>3 DEF CheckPassed, CreatePidFile, WritePidFile, Goto
  <2>3. \A q \in Proc : Served(q) => Served(q)'
    BY <2>1 DEF Listening
  <2>4. (\A q \in Proc : ~Entered(q)') => pidfile'["start"] = None
    <3>1. CASE pc'[p] \in {"write", "bind"}
      BY <3>1 DEF Past
    <3>2. CASE pc[p] # "write" /\ pidfile'["start"] \in {pidfile["start"], None}
      <4>1. ~Entered(p)
        BY <2>1, <3>2 DEF Past, Listening, Exiting
      <4>2. \A q \in Proc : Entered(q) => Entered(q)'
        BY <2>1, <4>1 DEF Past
      <4>3. QED
        BY <1>0, <3>2, <4>2
    <3>3. QED
      BY <2>2, <3>1, <3>2
  <2>5. QED
    BY <1>0, <2>1, <2>3, <2>4
\* Of the steps of a process that is in the PID file: nobody else is.
<1>4. ASSUME NEW p \in Proc, Past(p) PROVE \A q \in Proc \ {p} : ~Served(q)
  BY <1>0, <1>4 DEF Named, Past, Exiting
<1>5. ASSUME NEW p \in Proc, Bind(p) PROVE Goal'
  <2>1. /\ pc[p] = "bind" /\ UNCHANGED pidfile /\ \A q \in Proc \ {p} : pc'[q] = pc[q]
        /\ \/ pc'[p] = "loop"
           \/ pc'[p] = "remove_pid" /\ sockname' \in {sockname, None}
    BY <1>0, <1>5 DEF Bind, Goto
  <2>2. Entered(p)'
    BY <2>1 DEF Past, Listening, Exiting
  <2>3. Past(p) /\ ~Served(p)
    BY <2>1 DEF Past, Listening
  <2>4. sockname = None
    BY <1>0, <1>4, <2>3
  <2>5. (\A q \in Proc : ~Served(q)') => sockname' = None
    BY <2>1, <2>4 DEF Listening
  <2>6. QED
    BY <1>0, <2>1, <2>2, <2>5
<1>6. ASSUME NEW p \in Proc, UnlinkSocket(p) \/ CleanupSocket(p) PROVE Goal'
  <2>1. /\ UNCHANGED pidfile /\ pc[p] \in {"unlink", "cleanup_socket"}
        /\ pc'[p] \in {"cleanup_socket", "remove_pid"}
        /\ pc[p] = "unlink" => sockname' = None
        /\ sockname' \in {sockname, None}
    BY <1>0, <1>6, HandlerOrder DEF UnlinkSocket, CleanupSocket, Exiting
  <2>2. Entered(p)'
    BY <2>1 DEF Past, Exiting
  <2>3. sockname' = None
    <3>1. CASE pc[p] = "unlink"
      BY <2>1, <3>1
    <3>2. CASE pc[p] = "cleanup_socket"
      <4>1. Past(p) /\ ~Served(p)
        BY <3>2 DEF Past, Listening, Exiting
      <4>2. QED
        BY <1>0, <1>4, <2>1, <4>1
    <3>3. QED
      BY <2>1, <3>1, <3>2
  <2>4. QED
    BY <1>0, <2>1, <2>2, <2>3
<1>7. ASSUME NEW p \in Proc, RemovePidFile(p) PROVE Goal'
  <2>1. /\ pc[p] = "remove_pid" /\ UNCHANGED sockname
        /\ pc' = [pc EXCEPT ![p] = "dead"]
        /\ pidfile' = [pidfile EXCEPT !["start"] = None]
    BY <1>0, <1>7, HandlerOrder DEF RemovePidFile, PidFileRemoved, Exiting
  <2>2. Past(p) /\ ~Served(p)
    BY <2>1 DEF Past, Listening, Exiting
  <2>3. QED
    BY <1>0, <1>4, <2>1, <2>2
<1>8. CASE Connect \/ UNCHANGED vars
  BY <1>0, <1>8 DEF Connect, vars, fs, Past
<1>9. ASSUME NEW p \in Proc, Killed(p) PROVE Goal'
  BY <1>9 DEF Killed
<1>10. QED
  BY <1>2, <1>3, <1>5, <1>6, <1>7, <1>8, <1>9 DEF Next, Start, Run

-----------------------------------------------------------------------------
(***************************************************************************)
(* Type correctness of filesizer's model, with what is inductive about the *)
(* PID file, the socket's name and the signals.                            *)
(***************************************************************************)
THEOREM TypeCorrect == Spec => []TypeOK /\ []IInv
<1>1. Init => IInv
  <2> SUFFICES ASSUME Init PROVE IInv
    OBVIOUS
  <2>1. TypeOK
    <3>1. 0 \in 0..MaxClients
      OBVIOUS
    <3>2. /\ pc \in [Proc -> {"new", "dead", "bind"} \cup Starting \cup Listening \cup Exiting]
          /\ hit \in [Proc -> Listening \cup {"none"}]
          /\ config_file \in [Proc -> {"none", "config.yaml", "NULL"}]
      BY DEF Init
    <3>3. /\ pending \in [Proc -> 0..MaxClients] /\ late \in [Proc -> 0..MaxClients]
          /\ nclients \in 0..MaxClients
      BY <3>1 DEF Init
    <3>4. QED
      BY <3>2, <3>3 DEF Init, TypeOK
  <2>2. OwnerInv /\ RemainsInv /\ SignalInv
    BY DEF Init, OwnerInv, Sole, Named, Seen, Clear, AtName, RemainsInv, SignalInv, Busy,
           Past, Listening, Exiting, Dir
  <2>3. QED
    BY <2>1, <2>2 DEF IInv
<1>2. IInv /\ [Next]_vars => IInv'
  BY TypeStep, OwnerStep, RemainsStep, SignalStep DEF IInv
<1>3. IInv => TypeOK
  BY DEF IInv
<1>4. QED
  BY <1>1, <1>2, <1>3, PTL DEF Spec

(***************************************************************************)
(* When no start looks at the PID file while another is at its own, and    *)
(* the file has one place, at most one server runs, and it is the one that *)
(* clients find, whichever processes end or are killed.                    *)
(***************************************************************************)
THEOREM OneServerHolds == Spec => []OneServer
<1>1. IInv => OneServer
  <2> SUFFICES ASSUME IInv, Orderly, NEW p \in Proc, NEW q \in Proc, pc[p] \in Listening
               PROVE  /\ Alive(q) /\ pc[q] \notin {"check", "decide"} => q = p
                      /\ sockname = p
    BY DEF OneServer
  <2>1. sockname = p /\ Past(p) /\ pidfile["start"] = p
    BY DEF IInv, OwnerInv, AtName, Named, Past
  <2>2. pc[q] \notin {"create", "write"}
    BY <2>1 DEF IInv, OwnerInv, Clear
  <2>3. Past(q) => q = p
    BY <2>1 DEF IInv, OwnerInv, Named
  <2>4. pc[q] \in {"new", "dead", "bind"} \cup Starting \cup Listening \cup Exiting
    BY DEF IInv, TypeOK
  <2>5. QED
    BY <2>1, <2>2, <2>3, <2>4 DEF Alive, Past, Starting
<1>2. QED
  BY <1>1, TypeCorrect, PTL

(***************************************************************************)
(* Nothing is left when every process has ended and none was killed, and   *)
(* after a signal a server answers at most the client it was about to wait *)
(* for.                                                                    *)
(***************************************************************************)
THEOREM CleanEndHolds == Spec => []CleanEnd
<1>1. IInv => CleanEnd
  <2> SUFFICES ASSUME IInv PROVE CleanEnd
    OBVIOUS
  <2>1. ASSUME Orderly, ~killed, \A p \in Proc : ~Alive(p)
        PROVE  sockname = None /\ \A d \in Dir : pidfile[d] = None
    <3>1. \A q \in Proc : pc[q] \in {"new", "dead"}
      BY <2>1 DEF Alive
    <3>2. \A q \in Proc : /\ ~Past(q) /\ pc[q] # "write"
                          /\ pc[q] \notin Listening \cup {"unlink"}
      BY <3>1 DEF Past, Listening, Exiting
    <3>3. QED
      BY <2>1, <3>2 DEF IInv, RemainsInv, Dir
  <2>2. \A p \in Proc : late[p] <= IF hit[p] = "enter" THEN 1 ELSE 0
    BY DEF IInv, SignalInv
  <2>3. QED
    BY <2>1, <2>2 DEF CleanEnd
<1>2. QED
  BY <1>1, TypeCorrect, PTL
==============================================================================
