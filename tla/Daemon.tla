--------------------------------- MODULE Daemon ---------------------------------
(***************************************************************************)
(* filesizer, 15_daemon: main.c starts at most one server with the help of *)
(* a PID file, server.c answers every client of a UNIX socket with the     *)
(* size of a file until a signal stops it.                                 *)
(*                                                                         *)
(* Each member of Proc is one start of the program; what the starts share  *)
(* is the file system: the PID file and the name of the socket.  A process *)
(* may be killed at any moment, signalled at any moment after it is set up *)
(* for it, and started while others run or stop.                           *)
(***************************************************************************)
EXTENDS Integers, Sequences, FiniteSets, SequencesExt

CONSTANTS Proc,       \* the starts of the program: their PIDs, in this order
          Options,    \* the options a process may be given
          Yaml,       \* what config.yaml may hold: sequences of scalars
          Relative,   \* the scalars that are relative names
          MaxClients  \* bound: clients that connect

Option == [d : BOOLEAN, c : BOOLEAN]    \* -d and -c were given
ASSUME DaemonAssumption ==
    /\ Proc \subseteq Nat \ {0} /\ Options \subseteq Option /\ MaxClients \in Nat
    /\ Yaml \subseteq Seq(STRING)

None  == 0                       \* no file, no process
Empty == -1                      \* a PID file that was created, not yet written
Dir   == {"start", "root"}       \* where a relative name may be looked up

VARIABLES
    pc,          \* per process: where it is
    args,        \* per process: its options
    config_file, \* per process: the file it reads its configuration from
    found,       \* per process: what check_pid_file read
    keep_running,
    yaml,        \* the scalars of config.yaml
    pidfile,     \* per directory: what the PID file holds
    sockname,    \* the process whose socket the name refers to
    pending,     \* per process: clients waiting for its accept
    nclients,    \* clients that connected so far
    overlap,     \* history: a process looked at the PID file while another was
                 \* between its own look and its own entry
    killed,      \* history: a process ended without its exit handlers
    hit, late    \* history, per process: where the signal reached it, and the
                 \* clients it accepted afterwards

fs   == <<pidfile, sockname>>
net  == <<pending, nclients>>
hist == <<overlap, killed, hit, late>>
vars == <<pc, args, config_file, found, keep_running, yaml, fs, net, hist>>

Starting  == {"check", "decide", "create", "write"}
Listening == {"loop", "enter", "accept"}
Exiting   == {"unlink", "cleanup_socket", "remove_pid"}
Alive(p)  == pc[p] \notin {"new", "dead"}

Init ==
    /\ pc = [p \in Proc |-> "new"] /\ args \in [Proc -> Options]
    /\ config_file = [p \in Proc |-> "none"] /\ found = [p \in Proc |-> None]
    /\ keep_running = [p \in Proc |-> TRUE] /\ yaml \in Yaml
    /\ pidfile = [d \in Dir |-> None] /\ sockname = None
    /\ pending = [p \in Proc |-> 0] /\ nclients = 0
    /\ overlap = FALSE /\ killed = FALSE 
    /\ hit = [p \in Proc |-> "none"] /\ late = [p \in Proc |-> 0]

Goto(p, from, to) == pc[p] = from /\ pc' = [pc EXCEPT ![p] = to]

-----------------------------------------------------------------------------
Key == {"file_path", "socket_path", "pid_path"}
Unset == "unset"

\* load_config on one scalar: after a key it is the value, whatever it spells.
Scalar(acc, s) ==
    CASE acc.key # Unset -> [cfg |-> [acc.cfg EXCEPT ![acc.key] = s], key |-> Unset]
      [] acc.key = Unset /\ s \in Key    -> [acc EXCEPT !.key = s]
      [] acc.key = Unset /\ s \notin Key -> acc

LoadConfig == [scalars \in Yaml |->
    FoldLeft(Scalar, [cfg |-> [k \in Key |-> Unset], key |-> Unset], scalars).cfg]

\* load_config returns a configuration: no key is missing.
Loaded(scalars) == \A k \in Key : LoadConfig[scalars][k] # Unset

RelativePid == LoadConfig[yaml].pid_path \in Relative

\* The directory p finds the PID file in: daemonize changes to the root.
PidDir(p) ==
    IF RelativePid /\ args[p].d /\ pc[p] \notin {"check", "decide"} THEN "root" ELSE "start"

-----------------------------------------------------------------------------
\* "dch:" gives -h an argument and -c none: optarg is NULL, no file is read.
\* Without a configuration the process ends.
ParseArgs(p) ==
    /\ \A q \in Proc : q < p => pc[q] # "new"
    /\ Goto(p, "new", IF ~args[p].c /\ Loaded(yaml) THEN "check" ELSE "dead")
    /\ config_file' = [config_file EXCEPT ![p] =
                          IF args[p].c THEN "NULL" ELSE "config.yaml"]
    /\ UNCHANGED <<args, found, keep_running, yaml, fs, net, hist>>

\* Mutant: the file is not removed.
PidFileKept(p) == pidfile
\* remove_pid_file.
PidFileRemoved(p) == [pidfile EXCEPT ![PidDir(p)] = None]

\* check_pid_file reads the file,
ReadPidFile(p) ==
    /\ Goto(p, "check", "decide")
    /\ found' = [found EXCEPT ![p] = pidfile[PidDir(p)]]
    /\ overlap' = (overlap \/ \E q \in Proc \ {p} : pc[q] \in Starting)
    /\ UNCHANGED <<args, config_file, keep_running, yaml, fs, net, killed, hit, late>>

\* Mutant: the process is not asked after.
RunsNever(p) == FALSE
\* ... kill(pid, 0) finds the process,
Runs(p) == found[p] \in Proc /\ Alive(found[p])

RefuseStart(p) ==
    /\ Goto(p, "decide", "dead") /\ Runs(p)
    /\ UNCHANGED <<args, config_file, found, keep_running, yaml, fs, net, hist>>

\* ... or not, and the file is removed.  With -d two forks follow, p going on
\* as the grandchild, any of which may fail.
CheckPassed(p) ==
    /\ Goto(p, "decide", "create") \/ (args[p].d /\ Goto(p, "decide", "dead"))
    /\ ~Runs(p) /\ found' = [found EXCEPT ![p] = None]
    /\ IF found[p] \in Proc THEN pidfile' = [pidfile EXCEPT ![PidDir(p)] = None]
                            ELSE UNCHANGED pidfile
    /\ UNCHANGED <<args, config_file, keep_running, yaml, sockname, net, hist>>

\* create_pid_file: the file is emptied, and written when it is closed.
CreatePidFile(p) ==
    /\ \/ /\ Goto(p, "create", "write")
          /\ pidfile' = [pidfile EXCEPT ![PidDir(p)] = Empty]
       \/ Goto(p, "create", "dead") /\ UNCHANGED pidfile
    /\ UNCHANGED <<args, config_file, found, keep_running, yaml, sockname, net, hist>>

WritePidFile(p) ==
    /\ Goto(p, "write", "bind")
    /\ pidfile' = [pidfile EXCEPT ![PidDir(p)] = p]
    /\ UNCHANGED <<args, config_file, found, keep_running, yaml, sockname, net, hist>>

-----------------------------------------------------------------------------
\* run_server: the name left by an earlier server is removed and bound anew,
\* or a call fails and run_server returns.
Bind(p) ==
    /\ \/ Goto(p, "bind", "loop") /\ sockname' = p
       \/ Goto(p, "bind", "remove_pid") /\ sockname' \in {sockname, None}
    /\ UNCHANGED <<args, config_file, found, keep_running, yaml, pidfile, net, hist>>

KeepsRunning(p) == keep_running[p]

TestKeepRunning(p) ==
    /\ Goto(p, "loop", IF KeepsRunning(p) THEN "enter" ELSE "unlink")
    /\ UNCHANGED <<args, config_file, found, keep_running, yaml, fs, net, hist>>

\* accept is called: a signal from here on interrupts it.
EnterAccept(p) ==
    /\ Goto(p, "enter", "accept")
    /\ UNCHANGED <<args, config_file, found, keep_running, yaml, fs, net, hist>>

\* Mutant: accept returns though nobody has connected.
HasClientOrNot(p) == TRUE
\* A client is waiting.
HasClient(p) == pending[p] > 0

\* A client is accepted, answered and closed.
Accept(p) ==
    /\ Goto(p, "accept", "loop")
    /\ HasClient(p) /\ pending' = [pending EXCEPT ![p] = @ - 1]
    /\ late' = [late EXCEPT ![p] = IF keep_running[p] THEN 0 ELSE @ + 1]
    /\ UNCHANGED <<args, config_file, found, keep_running, yaml, fs, nclients, overlap,
                   killed, hit>>

\* Mutant: the signal interrupts nothing.
WokenBySignalNot(p) == pc' = pc
\* accept fails with EINTR.
WokenBySignal(p) == pc' = [pc EXCEPT ![p] = IF @ = "accept" THEN "loop" ELSE @]

\* SIGINT or SIGTERM.
Signal(p) ==
    /\ pc[p] \in Listening /\ keep_running[p]
    /\ keep_running' = [keep_running EXCEPT ![p] = FALSE]
    /\ WokenBySignal(p) /\ hit' = [hit EXCEPT ![p] = pc[p]]
    /\ UNCHANGED <<args, config_file, found, yaml, fs, net, overlap, killed, late>>

\* p has ended: its clients and its history are gone.
Forget(p) ==
    /\ pending' = [pending EXCEPT ![p] = 0]
    /\ hit' = [hit EXCEPT ![p] = "none"] /\ late' = [late EXCEPT ![p] = 0]

\* Mutant: the handlers run in the order of their registration.
HandlersInOrder == <<"unlink", "remove_pid", "cleanup_socket", "dead">>
\* What runs after the loop: the last handler registered comes first.
Handlers == <<"unlink", "cleanup_socket", "remove_pid", "dead">>

\* p does the step h of its end and goes on to the next.
Ending(p, h) == Goto(p, h, Handlers[1 + CHOOSE k \in 1..3 : Handlers[k] = h])

\* The loop is over: the name is removed and g_socket_path is freed.
UnlinkSocket(p) ==
    /\ Ending(p, "unlink") /\ sockname' = None
    /\ UNCHANGED <<args, config_file, found, keep_running, yaml, pidfile, net, hist>>

\* The handler unlinks what the freed memory spells now: the socket's name
\* still, or no file's name.
CleanupSocket(p) ==
    /\ Ending(p, "cleanup_socket") /\ sockname' \in {sockname, None}
    /\ UNCHANGED <<args, config_file, found, keep_running, yaml, pidfile, net, hist>>

RemovePidFile(p) ==
    /\ Ending(p, "remove_pid") /\ pidfile' = PidFileRemoved(p)
    /\ Forget(p)
    /\ UNCHANGED <<args, config_file, found, keep_running, yaml, sockname, nclients,
                   overlap, killed>>

-----------------------------------------------------------------------------
\* SIGKILL; a signal before run_server is set up for it; SIGPIPE when the
\* client left before the reply.
Killed(p) ==
    /\ Alive(p) /\ pc' = [pc EXCEPT ![p] = "dead"] /\ killed' = TRUE
    /\ Forget(p)
    /\ UNCHANGED <<args, config_file, found, keep_running, yaml, fs, nclients, overlap>>

Connect ==
    /\ nclients < MaxClients /\ sockname # None /\ pc[sockname] \in Listening
    /\ nclients' = nclients + 1 /\ pending' = [pending EXCEPT ![sockname] = @ + 1]
    /\ UNCHANGED <<pc, args, config_file, found, keep_running, yaml, fs, hist>>

Start(p) ==
    \/ ReadPidFile(p) \/ RefuseStart(p) \/ CheckPassed(p)
    \/ CreatePidFile(p) \/ WritePidFile(p) \/ Bind(p)

Run(p) ==
    \/ TestKeepRunning(p) \/ EnterAccept(p) \/ Accept(p)
    \/ UnlinkSocket(p) \/ CleanupSocket(p) \/ RemovePidFile(p)

Next ==
    \/ \E p \in Proc : ParseArgs(p) \/ Start(p) \/ Run(p) \/ Signal(p) \/ Killed(p)
    \/ Connect

\* A process that can run does.
Fairness == \A p \in Proc : WF_vars(Start(p) \/ Run(p))

Spec == Init /\ [][Next]_vars /\ Fairness

-----------------------------------------------------------------------------
TypeOK ==
    /\ pc \in [Proc -> {"new", "dead", "bind"} \cup Starting \cup Listening \cup Exiting]
    /\ args \in [Proc -> Options] /\ yaml \in Yaml
    /\ config_file \in [Proc -> {"none", "config.yaml", "NULL"}]
    /\ found \in [Proc -> Proc \cup {None, Empty}]
    /\ keep_running \in [Proc -> BOOLEAN]
    /\ pidfile \in [Dir -> Proc \cup {None, Empty}] /\ sockname \in Proc \cup {None}
    /\ pending \in [Proc -> 0..MaxClients] /\ nclients \in 0..MaxClients
    /\ overlap \in BOOLEAN /\ killed \in BOOLEAN
    /\ hit \in [Proc -> Listening \cup {"none"}] /\ late \in [Proc -> 0..MaxClients]

\* Processes start one after the other, and the PID file has one place.
Orderly == ~overlap /\ ~RelativePid

(***************************************************************************)
(* At most one process is past its start, and what a client finds at the   *)
(* socket's name is the server that runs: no start, end or crash of        *)
(* another process takes the name away from it.                            *)
(***************************************************************************)
OneServer ==
    Orderly => \A p, q \in Proc :
        /\ pc[p] \in Listening /\ Alive(q) /\ pc[q] \notin {"check", "decide"} => q = p
        /\ pc[p] \in Listening => sockname = p

(***************************************************************************)
(* When every process has ended and none was killed, neither file is left; *)
(* and after the signal a server accepts no client, but for the one for    *)
(* which it had already decided to call accept.                            *)
(***************************************************************************)
CleanEnd ==
    /\ Orderly /\ ~killed /\ (\A p \in Proc : ~Alive(p))
          => sockname = None /\ \A d \in Dir : pidfile[d] = None
    /\ \A p \in Proc : late[p] <= IF hit[p] = "enter" THEN 1 ELSE 0

(***************************************************************************)
(* A signal ends the server, also while it waits for a client, unless it   *)
(* comes between the test of keep_running and accept.                      *)
(***************************************************************************)
StopEnds == \A p \in Proc : hit[p] \in {"loop", "accept"} ~> pc[p] = "dead"

(***************************************************************************)
(* With -c the configuration is read from the file that is named, as the   *)
(* table of options in README.md has it, and not from the default or from  *)
(* nowhere.                                                                *)
(***************************************************************************)
ConfigFileChosen ==
    \A p \in Proc : args[p].c => config_file[p] \in {"none", "other.yaml"}
==============================================================================
