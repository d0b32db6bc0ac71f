-------------------------------- MODULE MCDaemon --------------------------------
(* Two starts of the program, two clients; with and without -d, and with -c;  *)
(* a PID file with an absolute and with a relative name, and a configuration  *)
(* without one.  The file to be measured is named like a key.                 *)
EXTENDS Daemon

MCProc == 1..2
Foreground == [d |-> FALSE, c |-> FALSE]
Background == [d |-> TRUE, c |-> FALSE]
OtherFile  == [d |-> FALSE, c |-> TRUE]

MCFiles == <<"file_path", "pid_path", "socket_path", "/s">>
MCYaml  == {MCFiles, MCFiles \o <<"pid_path", "/pid">>, MCFiles \o <<"pid_path", "pid">>}

MCStarts  == {Foreground, Background}
MCOptions == {Foreground, OtherFile}
==============================================================================
