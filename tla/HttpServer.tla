------------------------------- MODULE HttpServer -------------------------------
(***************************************************************************)
(* The static-file HTTP server, 23_http_server/main.c: one thread, a table *)
(* of MAX_CONN connection structures of which the first nconns are in use, *)
(* and a kqueue whose events carry a pointer to a structure.               *)
(*                                                                         *)
(* The process starts, serves in a loop and ends when a step of the start  *)
(* or kevent fails; cleanup then closes what it finds in the table.        *)
(*                                                                         *)
(* A round of the main loop takes the ready events from the kqueue,        *)
(* handles them one by one and then compacts the table.  Which sockets are *)
(* ready, what recv returns, how much send takes and which calls fail is   *)
(* the environment's choice.  Bytes are counted in units: the units of an  *)
(* answer are numbered, so what a client received is the last number, or   *)
(* Garbled when one came out of turn.                                      *)
(***************************************************************************)
EXTENDS Integers, Sequences, FiniteSets, SequencesExt, FiniteSetsExt

CONSTANTS Fd,         \* the descriptors accept can return
          MAX_CONN,
          HEADER,     \* units of an answer's header
          CHUNK,      \* units of send_buf
          MaxFile,    \* bound: units the served file can grow to
          MaxOpen     \* limit of the system on open files

ASSUME HttpAssumption ==
    MAX_CONN \in Nat \ {0} /\ HEADER \in Nat \ {0} /\ CHUNK \in Nat \ {0} /\ MaxFile \in Nat
    /\ Fd \subseteq Nat

NoFd == -1
Slot == 0..MAX_CONN - 1

VARIABLES
    conns,     \* server.conns
    nconns,
    kq,        \* the registered events: <<descriptor, filter, slot>>
    events,    \* those kevent returned and the loop has not handled yet
    phase,     \* "start", "kqueue"; of the main loop "wait", "handle"; "exit"
    listening, \* server.listen_fd is a listening socket
    open,      \* the client sockets that are open
    nfiles,    \* the number of open files
    fsize,     \* the size of the served file
    got,       \* history: what the client of each socket received
    fate,      \* history: "open", or how it was closed: "done" or "cut"
               \* (both forgotten at the end of the round it was closed in)
    moved      \* history: a structure was moved by free_conns

env    == <<fsize, listening>>
system == <<kq, open, nfiles>>
hist   == <<got, fate, moved>>
vars   == <<conns, nconns, events, phase, env, system, hist>>

Garbled == -1
Listen == <<"listen">>
Event == Fd \X {"READ", "WRITE"} \X Slot

\* A structure after memset, with descriptor f.
Fresh(f) == [fd |-> f, state |-> "READING", full |-> FALSE, file |-> FALSE,
             off |-> 0, buf |-> <<>>, sent |-> 0]

\* A closed one; its other fields are not read again.
Closed == [Fresh(NoFd) EXCEPT !.state = "CLOSING"]

Init ==
    /\ conns = [s \in Slot |-> Fresh(NoFd)] /\ nconns = 0
    /\ kq = {} /\ events = {} /\ phase = "start" /\ listening = FALSE
    /\ open = {} /\ nfiles = 0 /\ fsize \in 0..MaxFile
    /\ got = [f \in Fd |-> 0] /\ fate = [f \in Fd |-> "cut"] /\ moved = FALSE

-----------------------------------------------------------------------------
\* The units a..b of an answer.
Units(a, b) == [k \in 1..(b - a + 1) |-> a + k - 1]

\* What a client that has received n has after the units us.
Received(n, us) ==
    CASE us = <<>>                    -> n
      [] us # <<>> /\ us[1] = n + 1   -> Last(us)
      [] OTHER                        -> Garbled

Unsent(c) == SubSeq(c.buf, c.sent + 1, Len(c.buf))

\* EV_ADD: replaces the registration of the same descriptor and filter.
Registered(f, filter, s) ==
    {e \in kq : ~(e[1] = f /\ e[2] = filter)} \cup {<<f, filter, s>>}

Deregistered(f) == {e \in kq : e[1] # f}

\* close_connection.  Once structures were moved, the file may be one that a
\* copy of the structure closed already.
CloseConnection(s, why) ==
    LET f == conns[s].fd IN
    /\ kq' = Deregistered(f) /\ open' = open \ {f}
    /\ nfiles' \in IF ~conns[s].file THEN {nfiles}
                  ELSE IF moved THEN {nfiles, nfiles - 1} \cap Nat ELSE {nfiles - 1}
    /\ conns' = [conns EXCEPT ![s] = Closed]
    /\ fate' = [fate EXCEPT ![f] = why]

-----------------------------------------------------------------------------
\* parse_args and setup_listen_socket, which closes the socket on its errors.
SetupListenSocket ==
    /\ phase = "start"
    /\ listening' \in BOOLEAN
    /\ phase' = IF listening' THEN "kqueue" ELSE "exit"
    /\ UNCHANGED <<conns, nconns, events, fsize, system, hist>>

CreateKqueue ==
    /\ phase = "kqueue" /\ phase' = "wait"
    /\ UNCHANGED <<conns, nconns, events, env, system, hist>>

\* Mutant: the last structure is left out.
ListedButLast == {s \in Slot : s < nconns - 1}
\* The structures that cleanup goes through.
Listed == {s \in Slot : s < nconns}

\* die, when kqueue or kevent fails: exit runs cleanup, which closes the
\* sockets and files of the table, the listening socket and the kqueue (to
\* close what is closed already does nothing).
Die ==
    /\ phase \in {"kqueue", "wait"} /\ phase' = "exit"
    /\ listening' = FALSE /\ kq' = {}
    /\ open' = open \ {conns[s].fd : s \in Listed}
    /\ nfiles' \in IF moved THEN 0..nfiles
                  ELSE {nfiles - Cardinality({s \in Listed : conns[s].file})}
    /\ UNCHANGED <<conns, nconns, events, fsize, hist>>

-----------------------------------------------------------------------------
\* kevent returns the events that are ready: at least one.
Wait ==
    /\ phase = "wait" /\ phase' = "handle"
    /\ \E ready \in SUBSET (kq \cup {Listen}) : ready # {} /\ events' = ready
    /\ UNCHANGED <<conns, nconns, env, system, hist>>

\* One of the events the loop has got.
Take(e) == phase = "handle" /\ e \in events /\ events' = events \ {e}

\* Mutant: one connection more than there are structures for.
HasRoomForOneMore == nconns <= MAX_CONN
\* The table has a free structure.
HasRoom == nconns < MAX_CONN

\* accept finds no client, the table is full or the socket cannot be set up.
Refuse ==
    /\ Take(Listen)
    /\ UNCHANGED <<conns, nconns, phase, env, system, hist>>

Accept(f) ==
    /\ Take(Listen) /\ HasRoom /\ f \notin open
    /\ conns' = [conns EXCEPT ![nconns] = Fresh(f)] /\ nconns' = nconns + 1
    /\ open' = open \cup {f} /\ kq' = Registered(f, "READ", nconns)
    /\ got' = [got EXCEPT ![f] = 0] /\ fate' = [fate EXCEPT ![f] = "open"]
    /\ UNCHANGED <<phase, nfiles, env, moved>>

\* The kqueue refuses the new socket: it is closed, its structure given back.
AcceptFails(f) ==
    /\ Take(Listen) /\ HasRoom /\ f \notin open
    /\ conns' = [conns EXCEPT ![nconns] = Fresh(f)]
    /\ UNCHANGED <<nconns, phase, env, system, hist>>

-----------------------------------------------------------------------------
\* An event of a structure that was closed earlier in the round.
Stale(e) ==
    /\ e # Listen /\ Take(e) /\ conns[e[3]].fd = NoFd
    /\ UNCHANGED <<conns, nconns, phase, env, system, hist>>

Live(e, filter) == e # Listen /\ Take(e) /\ e[2] = filter /\ conns[e[3]].fd # NoFd
\* ... whose descriptor is that of an open socket: every call on another fails.
Usable(e, filter) == Live(e, filter) /\ conns[e[3]].fd \in open

\* recv had nothing, or a part of the request that leaves room for more.
ReadNothing(e) ==
    /\ Usable(e, "READ") /\ ~conns[e[3]].full
    /\ UNCHANGED <<conns, nconns, phase, env, system, hist>>

\* The client left, or recv was given no room: it returns 0.
ReadEnds(e) ==
    /\ Live(e, "READ")
    /\ CloseConnection(e[3], "cut")
    /\ UNCHANGED <<nconns, phase, env, got, moved>>

\* The answer: an error's with its text, or a file's header.
Answer(c, file) ==
    [c EXCEPT !.buf = Units(1, IF file THEN HEADER ELSE HEADER + 1),
              !.sent = 0, !.state = "SENDING_HEADER",
              !.file = file \/ @, !.off = IF file THEN 0 ELSE @]

\* Mutant: the interest in writing is not registered.
RespondUnregistered(s, c, file, filters) ==
    /\ conns' = [conns EXCEPT ![s] = Answer(c, file)]
    /\ kq' = filters
    /\ nfiles' = IF file THEN nfiles + 1 ELSE nfiles
    /\ UNCHANGED <<open, fate>>
\* build_http_status and the registration for writing, in which filters are
\* the registrations that stay.
Respond(s, c, file, filters) ==
    /\ conns' = [conns EXCEPT ![s] = Answer(c, file)]
    /\ kq' = {e \in filters : ~(e[1] = c.fd /\ e[2] = "WRITE")} \cup {<<c.fd, "WRITE", s>>}
    /\ nfiles' = IF file THEN nfiles + 1 ELSE nfiles
    /\ UNCHANGED <<open, fate>>

\* The request is whole: reading ends and handle_request finds the file or
\* the error to answer with.
ReadRequest(e) ==
    /\ Usable(e, "READ") /\ ~conns[e[3]].full
    /\ LET c == conns[e[3]] IN
       \E file \in BOOLEAN :
          /\ file => nfiles < MaxOpen
          /\ Respond(e[3], c, file, {x \in kq : ~(x[1] = c.fd /\ x[2] = "READ")})
    /\ UNCHANGED <<nconns, phase, env, got, moved>>

\* recv_buf is full and no request: 413, and reading is not ended.
ReadTooLong(e) ==
    /\ Usable(e, "READ") /\ ~conns[e[3]].full
    /\ Respond(e[3], [conns[e[3]] EXCEPT !.full = TRUE], FALSE, kq)
    /\ UNCHANGED <<nconns, phase, env, got, moved>>

-----------------------------------------------------------------------------
Sending(c) == c.state \in {"SENDING_HEADER", "SENDING_FILE"}

\* Structure s's client takes n units of us.
SendTo(s, us, n) ==
    got' = [got EXCEPT ![conns[s].fd] = Received(@, SubSeq(us, 1, n))]

\* A WRITE event for a structure that has nothing to send.
WriteNothing(e) ==
    /\ Live(e, "WRITE") /\ ~Sending(conns[e[3]])
    /\ UNCHANGED <<conns, nconns, phase, env, system, hist>>

\* send takes a part, possibly none, of what is left in send_buf.
WritePart(e) ==
    /\ Usable(e, "WRITE") /\ Sending(conns[e[3]])
    /\ LET s == e[3] c == conns[s] IN
       \E n \in 0..Len(Unsent(c)) - 1 :
          /\ conns' = [conns EXCEPT ![s].sent = @ + n]
          /\ SendTo(s, Unsent(c), n)
    /\ UNCHANGED <<nconns, phase, env, system, fate, moved>>

\* send takes the whole of an error's answer.
WriteError(e) ==
    /\ Usable(e, "WRITE")
    /\ LET s == e[3] c == conns[s] IN
       /\ c.state = "SENDING_HEADER" /\ ~c.file
       /\ SendTo(s, Unsent(c), Len(Unsent(c)))
       /\ CloseConnection(s, "done")
    /\ UNCHANGED <<nconns, phase, env, moved>>

\* Mutant: what send did not take of a new block is forgotten.
BlockForgotten(c, n) ==
    LET last == Min({c.off + CHUNK, fsize}) IN
    [c EXCEPT !.state = "SENDING_FILE", !.buf = Units(HEADER + c.off + 1, HEADER + last),
              !.sent = last - c.off, !.off = last]
\* pread's next block of the file in send_buf, of which send took n units.
Block(c, n) ==
    LET last == Min({c.off + CHUNK, fsize}) IN
    [c EXCEPT !.state = "SENDING_FILE", !.buf = Units(HEADER + c.off + 1, HEADER + last),
              !.sent = n, !.off = last]

\* send takes what is left, then a part of the next block of the file.
WriteBlock(e) ==
    /\ Usable(e, "WRITE")
    /\ LET s == e[3] c == conns[s] next == Block(c, 0).buf IN
       /\ Sending(c) /\ c.file /\ next # <<>>
       /\ \E n \in 0..Len(next) :
             /\ conns' = [conns EXCEPT ![s] = Block(c, n)]
             /\ SendTo(s, Unsent(c) \o next, Len(Unsent(c)) + n)
    /\ UNCHANGED <<nconns, phase, env, system, fate, moved>>

\* Mutant: a block shorter than send_buf is taken for the last.
AtEndWhenShort(c) == Len(Block(c, 0).buf) < CHUNK
\* pread finds the end of the file.
AtEnd(c) == Block(c, 0).buf = <<>>

\* send takes what is left, and it was the last of the file.
WriteLast(e) ==
    /\ Usable(e, "WRITE")
    /\ LET s == e[3] c == conns[s] IN
       /\ Sending(c) /\ c.file /\ AtEnd(c)
       /\ SendTo(s, Unsent(c), Len(Unsent(c)))
       /\ CloseConnection(s, "done")
    /\ UNCHANGED <<nconns, phase, env, moved>>

\* send or pread fails, or kqueue refuses the interest in writing.
Fails(e) ==
    /\ e # Listen /\ Take(e)
    /\ conns[e[3]].fd # NoFd /\ (e[2] = "WRITE" => Sending(conns[e[3]]))
    /\ CloseConnection(e[3], "cut")
    /\ UNCHANGED <<nconns, phase, env, got, moved>>

-----------------------------------------------------------------------------
\* Mutant: the first structure is taken for free.
InUseButFirst(s) == s > 0 /\ s < nconns /\ conns[s].fd # NoFd
\* The structures the table keeps.
InUse(s) == s < nconns /\ conns[s].fd # NoFd

\* free_conns: structures move down over the closed ones; the registrations
\* keep their pointers.
FreeConns ==
    /\ phase = "handle" /\ events = {} /\ phase' = "wait"
    /\ \E kept \in SetToSeqs({s \in Slot : InUse(s)}) :
       /\ \A k \in 2..Len(kept) : kept[k - 1] < kept[k]
       /\ conns' = [s \in Slot |-> IF s < Len(kept) THEN conns[kept[s + 1]] ELSE conns[s]]
       /\ nconns' = Len(kept)
       /\ moved' = (moved \/ \E k \in DOMAIN kept : kept[k] # k - 1)
    /\ got' = [f \in Fd |-> IF f \in open THEN got[f] ELSE 0]
    /\ fate' = [f \in Fd |-> IF f \in open THEN fate[f] ELSE "cut"]
    /\ UNCHANGED <<events, env, system>>

\* Somebody appends to the file.
Grow ==
    /\ fsize < MaxFile /\ fsize' = fsize + 1
    /\ UNCHANGED <<conns, nconns, events, phase, listening, system, hist>>

Handle(e) ==
    \/ Stale(e) \/ ReadNothing(e) \/ ReadEnds(e) \/ ReadRequest(e) \/ ReadTooLong(e)
    \/ WriteNothing(e) \/ WritePart(e) \/ WriteError(e) \/ WriteBlock(e) \/ WriteLast(e)
    \/ Fails(e)

AcceptConnection == Refuse \/ \E f \in Fd : Accept(f) \/ AcceptFails(f)

Loop == Wait \/ FreeConns \/ AcceptConnection \/ \E e \in Event : Handle(e)

Next == SetupListenSocket \/ CreateKqueue \/ Loop \/ Die \/ Grow

\* The socket of f is writable when kevent returns.
WaitWritable(f) == Wait /\ \E s \in Slot : <<f, "WRITE", s>> \in events'

\* send takes something for f.
Progress(f) == \E s \in Slot : Handle(<<f, "WRITE", s>>) /\ (got' # got \/ open' # open)

\* The loop runs; a client that reads finds its socket served again and again.
Fairness == /\ WF_vars(Loop)
            /\ \A f \in Fd : SF_vars(WaitWritable(f)) /\ SF_vars(Progress(f))

Spec == Init /\ [][Next]_vars /\ Fairness

-----------------------------------------------------------------------------
Conn == [fd : Fd \cup {NoFd}, full : BOOLEAN, file : BOOLEAN,
         state : {"READING", "SENDING_HEADER", "SENDING_FILE", "CLOSING"},
         off : 0..MaxFile, buf : Seq(Nat), sent : Nat]

TypeOK ==
    /\ conns \in [Slot -> Conn] /\ nconns \in 0..MAX_CONN
    /\ kq \in SUBSET Event /\ events \in SUBSET (Event \cup {Listen})
    /\ phase \in {"start", "kqueue", "wait", "handle", "exit"}
    /\ listening \in BOOLEAN
    /\ open \in SUBSET Fd /\ nfiles \in Nat /\ fsize \in 0..MaxFile
    /\ got \in [Fd -> Nat \cup {Garbled}] /\ fate \in [Fd -> {"open", "done", "cut"}]
    /\ moved \in BOOLEAN

(***************************************************************************)
(* The table never loses a socket, wherever its structures were moved: an  *)
(* open socket is in it, and an event is registered for open sockets only; *)
(* and until free_conns first moves a structure, the files that are open   *)
(* are those of the structures that send them.                             *)
(***************************************************************************)
OpenAreListed ==
    /\ open \subseteq {conns[s].fd : s \in Listed}
    /\ \A e \in kq : e[1] \in open
    /\ ~moved /\ phase # "exit" => nfiles = Cardinality({s \in Listed : conns[s].file})

(***************************************************************************)
(* Until free_conns first moves a structure: a client receives its answer  *)
(* from the first unit on, none lost, repeated or out of turn, whatever    *)
(* send took of each block.                                                *)
(***************************************************************************)
InOrder == ~moved => \A f \in Fd : got[f] # Garbled

(***************************************************************************)
(* A process that ends has closed its sockets, however many clients it was *)
(* serving and whatever free_conns moved, and, until then, its files.      *)
(***************************************************************************)
ExitCloses ==
    phase = "exit" => ~listening /\ open = {} /\ kq = {} /\ (~moved => nfiles = 0)

(***************************************************************************)
(* Until then, a connection that the server ends by itself has its whole   *)
(* answer: the error's text or all the file holds.                         *)
(***************************************************************************)
AnswerWhole ==
    [][ ~moved => \A s \in Slot : LET f == conns[s].fd IN
          f # NoFd /\ conns'[s].fd = NoFd /\ fate'[f] = "done"
            => got'[f] = HEADER + IF conns[s].file THEN fsize ELSE 1 ]_vars

(***************************************************************************)
(* Until then, an answer that was begun ends: the connection is closed.    *)
(***************************************************************************)
AnswerEnds ==
    \A f \in Fd : (\E s \in Slot : s < nconns /\ conns[s].fd = f /\ Sending(conns[s]))
                    ~> (f \notin open \/ moved)

(***************************************************************************)
(* After the removal of closed connections (main.c:565) no structure in    *)
(* use is a closed connection's.                                           *)
(***************************************************************************)
ClosedAreRemoved ==
    phase = "wait" => \A s \in Slot : s < nconns => conns[s].fd \in open
==============================================================================
