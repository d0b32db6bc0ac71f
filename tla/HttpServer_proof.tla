--------------------------- MODULE HttpServer_proof ---------------------------
(***************************************************************************)
(* Proofs about the static-file HTTP server (HttpServer.tla), for every    *)
(* size of its table, of an answer's header and of a block.                *)
(***************************************************************************)
EXTENDS HttpServer, FiniteSetTheorems, SequenceTheorems, TLAPS

-----------------------------------------------------------------------------
(* What free_conns makes of the table: each structure in use, once.        *)
LEMMA KeptAll ==
    ASSUME NEW S, IsFiniteSet(S), NEW kept \in SetToSeqs(S)
    PROVE  /\ kept \in [1..Cardinality(S) -> S] /\ Cardinality(S) \in Nat
           /\ Len(kept) = Cardinality(S) /\ DOMAIN kept = 1..Cardinality(S)
           /\ \A x \in S : \E k \in 1..Cardinality(S) : kept[k] = x
<1> DEFINE n == Cardinality(S)
<1>1. n \in Nat
  BY FS_CardinalityType
<1>2. kept \in [1..n -> S] /\ \A i, j \in 1..n : kept[i] = kept[j] => i = j
  BY DEF SetToSeqs
<1>3. kept \in Injection(1..n, S)
  BY <1>2 DEF Injection, IsInjective
<1>4. Cardinality(1..n) = Cardinality(S)
  BY <1>1, FS_Interval
<1>5. kept \in Surjection(1..n, S)
  BY ONLY <1>3, <1>4, IsFiniteSet(S), FS_Injection
<1>6. Len(kept) = n
  BY <1>1, <1>2
<1> QED BY <1>1, <1>2, <1>5, <1>6 DEF Surjection

-----------------------------------------------------------------------------
(* Units of an answer.                                                     *)

\* The units are those that follow the first n.
Follows(us, n) == \A k \in 1..Len(us) : us[k] = n + k

\* The units a..b are as many as they should be, and follow a - 1.
LEMMA UnitsAre ==
    ASSUME NEW a \in Nat \ {0}, NEW b \in Nat, a <= b + 1
    PROVE  /\ Units(a, b) \in Seq(Nat) /\ Len(Units(a, b)) = b + 1 - a
           /\ Follows(Units(a, b), a - 1)
<1> DEFINE n == b - a + 1
<1>1. n \in Nat /\ \A k \in 1..n : a + k - 1 \in Nat
  OBVIOUS
<1>2. Units(a, b) = [k \in 1..n |-> a + k - 1]
  BY DEF Units
<1> HIDE DEF n
<1>3. Units(a, b) \in Seq(Nat) /\ Len(Units(a, b)) = n
  BY <1>1, <1>2
<1>4. Follows(Units(a, b), a - 1)
  BY <1>1, <1>2, <1>3 DEF Follows
<1> QED BY <1>3, <1>4 DEF n

\* The members m + 1..n of a sequence.
LEMMA PartIs ==
    ASSUME NEW us \in Seq(Nat), NEW m \in 0..Len(us), NEW n \in m..Len(us)
    PROVE  /\ SubSeq(us, m + 1, n) \in Seq(Nat) /\ Len(SubSeq(us, m + 1, n)) = n - m
           /\ \A k \in 1..n - m : SubSeq(us, m + 1, n)[k] = us[m + k]
<1>1. m + 1 \in Int /\ n \in Int /\ \A i \in m + 1..n : us[i] \in Nat
  OBVIOUS
<1>2. /\ SubSeq(us, m + 1, n) \in Seq(Nat)
      /\ Len(SubSeq(us, m + 1, n)) = IF m + 1 <= n THEN n - (m + 1) + 1 ELSE 0
      /\ \A k \in 1..n - (m + 1) + 1 : SubSeq(us, m + 1, n)[k] = us[m + 1 + k - 1]
  BY ONLY <1>1, SubSeqProperties
<1>3. n - (m + 1) + 1 = n - m /\ \A k \in 1..n - m : m + 1 + k - 1 = m + k
  OBVIOUS
<1> QED BY <1>2, <1>3

\* What a client has received is a number of units, or Garbled.
LEMMA ReceivedType ==
    ASSUME NEW n \in Nat \cup {Garbled}, NEW us \in Seq(Nat)
    PROVE  Received(n, us) \in Nat \cup {Garbled}
<1>1. us # <<>> => Last(us) \in Nat
  BY DEF Last
<1>2. CASE us = <<>>
  BY <1>2 DEF Received
<1>3. CASE us # <<>> /\ us[1] = n + 1
  BY <1>1, <1>3 DEF Received
<1>4. CASE us # <<>> /\ us[1] # n + 1
  BY <1>4 DEF Received
<1> QED BY <1>2, <1>3, <1>4

\* Units that follow what was received are received.
LEMMA ReceivedInOrder ==
    ASSUME NEW n \in Nat, NEW us \in Seq(Nat), Follows(us, n)
    PROVE  Received(n, us) = n + Len(us)
<1>1. CASE us = <<>>
  BY <1>1 DEF Received
<1>2. CASE us # <<>>
  <2>1. Len(us) \in 1..Len(us) /\ 1 \in 1..Len(us)
    BY <1>2
  <2>2. us[1] = n + 1 /\ Last(us) = n + Len(us)
    BY <2>1 DEF Follows, Last
  <2> QED BY <1>2, <2>2 DEF Received
<1> QED BY <1>1, <1>2

\* A part of what is left, short of all of it.
LEMMA PartOfLeft ==
    ASSUME NEW l \in Nat, NEW sent \in Nat, NEW b \in Nat, l = b - sent, NEW n \in 0..l - 1
    PROVE  n \in Nat /\ n \in 0..l /\ sent + n \in Nat /\ sent + n <= b
OBVIOUS

\* The lesser of two numbers.
LEMMA MinOf ==
    ASSUME NEW a \in Nat, NEW b \in Nat
    PROVE  Min({a, b}) = IF a <= b THEN a ELSE b
<1>1. \E x \in {a, b} : \A y \in {a, b} : x <= y
  OBVIOUS
<1>2. Min({a, b}) \in {a, b} /\ \A y \in {a, b} : Min({a, b}) <= y
  BY <1>1 DEF Min
<1> QED BY <1>2

\* A structure whose counters are in range.
Sound(c) == c \in Conn /\ c.sent <= Len(c.buf) /\ c.off <= fsize

\* The units a structure has not sent.
LEMMA UnsentIs ==
    ASSUME NEW c, Sound(c)
    PROVE  /\ Unsent(c) \in Seq(Nat) /\ Len(Unsent(c)) = Len(c.buf) - c.sent
           /\ Len(Unsent(c)) \in Nat
           /\ \A k \in 1..Len(Unsent(c)) : Unsent(c)[k] = c.buf[c.sent + k]
<1>1. c.buf \in Seq(Nat) /\ c.sent \in 0..Len(c.buf) /\ Len(c.buf) \in c.sent..Len(c.buf)
  BY DEF Sound, Conn
<1> DEFINE us == c.buf
           m == c.sent
           n == Len(c.buf)
<1>2. Unsent(c) = SubSeq(us, m + 1, n) /\ n - m \in Nat
  BY <1>1 DEF Unsent
<1>3. us \in Seq(Nat) /\ m \in 0..Len(us) /\ n \in m..Len(us)
  BY <1>1
<1> HIDE DEF us, m, n
<1>4. /\ SubSeq(us, m + 1, n) \in Seq(Nat) /\ Len(SubSeq(us, m + 1, n)) = n - m
      /\ \A k \in 1..n - m : SubSeq(us, m + 1, n)[k] = us[m + k]
  BY ONLY <1>3, PartIs
<1>5. Unsent(c) \in Seq(Nat) /\ Len(Unsent(c)) = n - m
      /\ \A k \in 1..n - m : Unsent(c)[k] = us[m + k]
  BY <1>2, <1>4
<1> QED BY <1>2, <1>5 DEF us, m, n

\* A structure whose answer is another.
LEMMA ConnWith ==
    ASSUME NEW c \in Conn, NEW us \in Seq(Nat), NEW fl \in BOOLEAN, NEW of \in 0..MaxFile
    PROVE  [c EXCEPT !.buf = us, !.sent = 0, !.state = "SENDING_HEADER", !.file = fl,
                     !.off = of] \in Conn
<1> DEFINE d == [c EXCEPT !.buf = us, !.sent = 0, !.state = "SENDING_HEADER", !.off = of]
<1>1. d \in Conn
  BY DEF Conn
<1>2. [c EXCEPT !.buf = us, !.sent = 0, !.state = "SENDING_HEADER", !.file = fl, !.off = of]
        = [d EXCEPT !.file = fl]
  BY DEF Conn
<1> HIDE DEF d
<1>3. [d EXCEPT !.file = fl] \in Conn
  BY <1>1 DEF Conn
<1> QED BY <1>2, <1>3

\* The answer to a request.
LEMMA AnswerIs ==
    ASSUME NEW c, Sound(c), fsize \in 0..MaxFile, NEW file \in BOOLEAN
    PROVE  /\ Sound(Answer(c, file))
           /\ Answer(c, file).fd = c.fd /\ Answer(c, file).full = c.full
           /\ (Answer(c, file).file <=> (file \/ c.file))
           /\ Answer(c, file).state = "SENDING_HEADER" /\ Answer(c, file).sent = 0
           /\ Answer(c, file).off = IF file THEN 0 ELSE c.off
           /\ Len(Answer(c, file).buf) = IF file THEN HEADER ELSE HEADER + 1
           /\ Follows(Answer(c, file).buf, 0)
<1> DEFINE n == IF file THEN HEADER ELSE HEADER + 1
<1>1. n \in Nat /\ 1 \in Nat \ {0} /\ 1 <= n + 1 /\ n + 1 - 1 = n /\ 1 - 1 = 0
  BY HttpAssumption
<1>2. Units(1, n) \in Seq(Nat) /\ Len(Units(1, n)) = n /\ Follows(Units(1, n), 0)
  BY <1>1, UnitsAre
<1>3. c \in Conn /\ c.off <= fsize
  BY DEF Sound
<1>4. Answer(c, file) = [c EXCEPT !.buf = Units(1, n), !.sent = 0, !.state = "SENDING_HEADER",
                                  !.file = file \/ @, !.off = IF file THEN 0 ELSE @]
  BY DEF Answer
<1> HIDE DEF n
<1>5. Answer(c, file) \in Conn
  <2>1. PICK fl \in BOOLEAN : fl = (file \/ c.file)
    BY <1>3 DEF Conn
  <2>2. PICK of \in 0..MaxFile : of = IF file THEN 0 ELSE c.off
    BY <1>3, HttpAssumption DEF Conn
  <2>3. Answer(c, file) = [c EXCEPT !.buf = Units(1, n), !.sent = 0,
                               !.state = "SENDING_HEADER", !.file = fl, !.off = of]
    BY <1>4, <2>1, <2>2
  <2> DEFINE us == Units(1, n)
  <2>4. us \in Seq(Nat)
    BY <1>2
  <2> HIDE DEF us
  <2>5. [c EXCEPT !.buf = us, !.sent = 0, !.state = "SENDING_HEADER", !.file = fl,
                  !.off = of] \in Conn
    BY <1>3, <2>4, ConnWith
  <2> QED BY <2>3, <2>5 DEF us
<1>6. Answer(c, file).off <= fsize
  BY <1>3, <1>4 DEF Conn
<1>7. Answer(c, file).buf = Units(1, n) /\ Answer(c, file).sent = 0
  BY <1>3, <1>4 DEF Conn
<1>8. Sound(Answer(c, file))
  BY <1>1, <1>2, <1>5, <1>6, <1>7 DEF Sound
<1> QED BY <1>2, <1>3, <1>4, <1>7, <1>8 DEF Conn, n

\* The next block of the file, of which n units were taken.
LEMMA BlockIs ==
    ASSUME NEW c, Sound(c), fsize \in 0..MaxFile, NEW n \in Nat
    PROVE  /\ Block(c, n).fd = c.fd /\ Block(c, n).full = c.full /\ Block(c, n).file = c.file
           /\ Block(c, n).state = "SENDING_FILE" /\ Block(c, n).sent = n
           /\ Block(c, n).off \in c.off..fsize /\ Block(c, n).buf = Block(c, 0).buf
           /\ Block(c, 0).buf \in Seq(Nat) /\ Len(Block(c, 0).buf) = Block(c, n).off - c.off
           /\ Follows(Block(c, 0).buf, HEADER + c.off)
           /\ n <= Len(Block(c, 0).buf) => Sound(Block(c, n))
           /\ AtEnd(c) => c.off = fsize
<1> DEFINE last == Min({c.off + CHUNK, fsize})
<1>1. c \in Conn /\ c.off \in Nat /\ c.off <= fsize /\ fsize \in Nat /\ c.off + CHUNK \in Nat
  BY HttpAssumption DEF Sound, Conn
<1>2. last = IF c.off + CHUNK <= fsize THEN c.off + CHUNK ELSE fsize
  BY <1>1, MinOf
<1>3. last \in c.off..fsize /\ last \in 0..MaxFile /\ (last = c.off => c.off = fsize)
  BY <1>1, <1>2, HttpAssumption
<1> HIDE DEF last
<1> DEFINE a == HEADER + c.off + 1
           b == HEADER + last
           us == Units(a, b)
<1>4. a \in Nat \ {0} /\ b \in Nat /\ a <= b + 1 /\ b + 1 - a = last - c.off
      /\ a - 1 = HEADER + c.off
  BY <1>1, <1>3, HttpAssumption
<1>5. us \in Seq(Nat) /\ Len(us) = last - c.off /\ Follows(us, HEADER + c.off)
  <2> HIDE DEF a, b
  <2> QED BY <1>4, UnitsAre
<1>6. /\ Block(c, n) = [c EXCEPT !.state = "SENDING_FILE", !.buf = us, !.sent = n,
                                  !.off = last]
      /\ Block(c, 0) = [c EXCEPT !.state = "SENDING_FILE", !.buf = us, !.sent = 0,
                                  !.off = last]
  BY DEF Block, last
<1> HIDE DEF us
<1>7. Block(c, 0).buf = us /\ Block(c, n).buf = us
  BY <1>1, <1>6 DEF Conn
<1>8. /\ Block(c, n).fd = c.fd /\ Block(c, n).full = c.full /\ Block(c, n).file = c.file
      /\ Block(c, n).state = "SENDING_FILE" /\ Block(c, n).sent = n /\ Block(c, n).off = last
  BY <1>1, <1>6 DEF Conn
<1>9. Block(c, n) \in Conn
  BY <1>1, <1>3, <1>5, <1>6 DEF Conn
<1>10. n <= Len(us) => Sound(Block(c, n))
  BY <1>3, <1>7, <1>8, <1>9 DEF Sound
<1>11. AtEnd(c) => c.off = fsize
  <2>1. AtEnd(c) => us = <<>>
    BY <1>7 DEF AtEnd
  <2>2. us = <<>> => last - c.off = 0
    BY <1>5
  <2> QED BY <1>1, <1>3, <2>1, <2>2
<1> QED BY <1>3, <1>5, <1>7, <1>8, <1>10, <1>11

-----------------------------------------------------------------------------
(* The inductive invariant.  Table and its registrations, whatever moved: *)

\* Nothing is listed before the main loop.
StartsEmpty ==
    phase \in {"start", "kqueue"} =>
       nconns = 0 /\ kq = {} /\ events = {} /\ open = {} /\ nfiles = 0 /\ ~moved

Table ==
    /\ open \subseteq {conns[s].fd : s \in Listed}
    /\ \A e \in kq : e[1] \in open
    /\ \A s \in Slot : Sound(conns[s])
    /\ StartsEmpty /\ ExitCloses

\* ... and, while no structure was moved: an event's structure is listed, and
\* is the one of the event's socket or was closed since.
Pointers ==
    /\ \A e \in kq : e[3] \in Listed /\ conns[e[3]].fd = e[1]
    /\ \A e \in events : e # Listen => e[3] \in Listed /\ conns[e[3]].fd \in {e[1], NoFd}

\* A socket has one structure.
OneEach == \A s, t \in Listed : conns[s].fd = conns[t].fd /\ conns[s].fd # NoFd => s = t

\* The structures that have a file open.
WithFile == {s \in Listed : conns[s].file}

\* A structure has an open socket or none, a file only while it sends it, and
\* these are the files that are open.
Holds ==
    /\ \A s \in Listed : conns[s].fd \in open \cup {NoFd}
    /\ \A s \in Listed : conns[s].file => conns[s].fd # NoFd /\ Sending(conns[s])
    /\ nfiles = Cardinality(WithFile)

\* Reading is registered, and its events are handled, until the request is whole.
Reads(c) == c.fd # NoFd => c.state = "READING" \/ c.full
Requests ==
    /\ \A e \in kq : e[2] = "READ" => Reads(conns[e[3]])
    /\ \A e \in events : e # Listen /\ e[2] = "READ" => Reads(conns[e[3]])

Serving == ~moved /\ phase # "exit"
Serve == Pointers /\ OneEach /\ Holds /\ Requests

Inv == TypeOK /\ Table /\ (Serving => Serve)

\* The structures listed are finitely many.
LEMMA ListedFinite ==
    ASSUME TypeOK
    PROVE  /\ Listed \in SUBSET Slot /\ Listed = 0..nconns - 1 /\ nconns \in Nat
           /\ IsFiniteSet(Listed) /\ IsFiniteSet(WithFile) /\ WithFile \subseteq Listed
<1>1. MAX_CONN \in Nat /\ nconns \in 0..MAX_CONN
  BY HttpAssumption DEF TypeOK
<1>2. Listed \in SUBSET Slot /\ Listed = 0..nconns - 1 /\ nconns \in Nat
  BY <1>1 DEF Listed, Slot
<1>3. IsFiniteSet(Listed)
  BY <1>2, FS_Interval
<1>4. WithFile \subseteq Listed
  BY DEF WithFile
<1> QED BY <1>2, <1>3, <1>4, FS_Subset

\* A structure as memset and accept leave it is sound.
LEMMA FreshIs ==
    ASSUME NEW f \in Fd \cup {NoFd}, fsize \in 0..MaxFile
    PROVE  /\ Sound(Fresh(f)) /\ Fresh(f).fd = f /\ ~Fresh(f).file /\ ~Fresh(f).full
           /\ Fresh(f).state = "READING" /\ Sound(Closed) /\ Closed.fd = NoFd /\ ~Closed.file
           /\ ~Sending(Fresh(f)) /\ Closed.state = "CLOSING" /\ ~Sending(Closed)
<1>1. <<>> \in Seq(Nat) /\ Len(<<>>) = 0 /\ 0 \in 0..MaxFile
  BY HttpAssumption
<1>2. Fresh(f) \in Conn /\ Fresh(NoFd) \in Conn
  BY <1>1 DEF Fresh, Conn
<1>3. Sound(Fresh(f)) /\ Sound(Fresh(NoFd))
  BY <1>1, <1>2 DEF Sound, Fresh
<1>4. Closed \in Conn /\ Closed.sent = 0 /\ Closed.off = 0 /\ Closed.buf = <<>>
      /\ Closed.fd = NoFd /\ ~Closed.file /\ Closed.state = "CLOSING"
  BY <1>1 DEF Closed, Fresh, Conn
<1> QED BY <1>1, <1>3, <1>4 DEF Sound, Fresh, Sending

\* It holds at the start.
LEMMA InitInv == Init => Inv
<1> SUFFICES ASSUME Init PROVE Inv
  OBVIOUS
<1>1. fsize \in 0..MaxFile /\ \A s \in Slot : Sound(conns[s]) /\ conns[s] \in Conn
  <2>1. fsize \in 0..MaxFile
    BY DEF Init
  <2> QED BY <2>1, FreshIs DEF Init, Sound
<1>2. TypeOK
  <2>1. conns \in [Slot -> Conn]
    BY <1>1 DEF Init
  <2>2. nconns \in 0..MAX_CONN /\ nfiles \in Nat
    BY HttpAssumption DEF Init
  <2>3. got \in [Fd -> Nat \cup {Garbled}] /\ fate \in [Fd -> {"open", "done", "cut"}]
    BY DEF Init
  <2> QED BY <1>1, <2>1, <2>2, <2>3 DEF Init, TypeOK
<1>3. Listed = {} /\ WithFile = {}
  BY DEF Init, Listed, Slot, WithFile
<1>4. Table
  BY <1>1, <1>3 DEF Init, Table, StartsEmpty, ExitCloses
<1>5. Cardinality(WithFile) = 0
  BY <1>3, FS_EmptySet
<1> QED BY <1>2, <1>3, <1>4, <1>5 DEF Init, Inv, Serve, Pointers, OneEach, Holds, Requests

-----------------------------------------------------------------------------
(* Steps that leave the table alone.                                       *)

\* What is left alone by a step that handles an event without effect.
Apart == <<conns, nconns, kq, open, nfiles, moved, got, fate, listening>>

\* A step that leaves the table alone keeps the invariant when the events are
\* fewer or come from the kqueue and the file does not shrink.
LEMMA ApartStep ==
    ASSUME Inv, UNCHANGED Apart, fsize' \in fsize..MaxFile,
           events' \in SUBSET (events \cup kq \cup {Listen}),
           \/ phase' = phase
           \/ phase = "kqueue" /\ phase' = "wait"
           \/ phase = "wait" /\ phase' = "handle",
           phase' \in {"start", "kqueue"} => events' = events
    PROVE  Inv'
<1>1. TypeOK /\ Table /\ fsize \in Nat /\ MaxFile \in Nat /\ fsize <= fsize'
      /\ fsize' \in 0..MaxFile
  BY HttpAssumption DEF Inv, TypeOK
<1>2. TypeOK'
  BY <1>1 DEF TypeOK, Apart
<1>3. \A s \in Slot : Sound(conns[s])'
  <2> TAKE s \in Slot
  <2>1. Sound(conns[s])
    BY <1>1 DEF Table
  <2>2. conns[s] \in Conn /\ conns[s].sent <= Len(conns[s].buf) /\ conns[s].off <= fsize
        /\ conns[s].off \in Nat
    BY <2>1 DEF Sound, Conn
  <2>3. conns[s].off <= fsize'
    BY <1>1, <2>2
  <2> QED BY <2>2, <2>3 DEF Sound, Apart
<1>4. Listed' = Listed /\ WithFile' = WithFile /\ (phase' = "exit" <=> phase = "exit")
  BY DEF Listed, WithFile, Apart
<1>5. StartsEmpty'
  BY <1>1 DEF Table, StartsEmpty, Apart
<1>6. Table'
  BY <1>1, <1>3, <1>4, <1>5 DEF Table, ExitCloses, Apart
<1>7. ASSUME Serving' PROVE Serve'
  <2>1. Serve
    BY <1>4, <1>7 DEF Serving, Inv, Apart
  <2>2. Pointers' /\ Requests'
    <3>1. \A e \in events' : e \in events \/ e \in kq \/ e = Listen
      OBVIOUS
    <3> QED BY <2>1, <3>1, <1>4 DEF Serve, Pointers, Requests, Reads, Apart
  <2>3. OneEach' /\ Holds'
    BY <2>1, <1>4 DEF Serve, OneEach, Holds, Apart, Sending
  <2> QED BY <2>2, <2>3 DEF Serve
<1> QED BY <1>2, <1>6, <1>7 DEF Inv

\* The steps that do so.
LEMMA ApartSteps ==
    ASSUME Inv, CreateKqueue \/ Wait \/ Refuse \/ Grow \/ UNCHANGED vars
    PROVE  Inv' /\ UNCHANGED Apart /\ fsize' \in fsize..MaxFile
<1>1. fsize \in 0..MaxFile /\ MaxFile \in Nat
  BY HttpAssumption DEF Inv, TypeOK
<1>2. CASE CreateKqueue
  BY <1>1, <1>2, ApartStep DEF CreateKqueue, Apart, system, hist, env
<1>3. CASE Wait
  BY <1>1, <1>3, ApartStep DEF Wait, Apart, system, hist, env
<1>4. CASE Refuse
  BY <1>1, <1>4, ApartStep DEF Refuse, Take, Apart, system, hist, env
<1>5. CASE Grow
  BY <1>1, <1>5, ApartStep DEF Grow, Apart, system, hist, env
<1>6. CASE UNCHANGED vars
  BY <1>1, <1>6, ApartStep DEF vars, Apart, system, hist, env
<1> QED BY <1>2, <1>3, <1>4, <1>5, <1>6

\* Nor does an event without effect.
LEMMA NothingSteps ==
    ASSUME Inv, NEW e \in Event, Stale(e) \/ ReadNothing(e) \/ WriteNothing(e)
    PROVE  Inv' /\ UNCHANGED Apart /\ fsize' \in fsize..MaxFile
<1>1. fsize \in 0..MaxFile /\ MaxFile \in Nat
  BY HttpAssumption DEF Inv, TypeOK
<1> QED BY <1>1, ApartStep DEF Stale, ReadNothing, WriteNothing, Usable, Live, Take, Apart,
     system, hist, env

-----------------------------------------------------------------------------
(* The start, the end, and what accept does.                               *)

\* Setting up the socket keeps the invariant.
LEMMA SetupStep ==
    ASSUME Inv, SetupListenSocket
    PROVE  Inv'
<1>1. TypeOK /\ Table /\ Serve
  BY DEF Inv, SetupListenSocket, Serving, Table, StartsEmpty
<1>2. UNCHANGED <<conns, nconns, events, fsize, kq, open, nfiles, got, fate, moved>>
      /\ listening' \in BOOLEAN /\ phase = "start"
      /\ phase' = IF listening' THEN "kqueue" ELSE "exit"
  BY DEF SetupListenSocket, system, hist
<1>3. TypeOK'
  BY <1>1, <1>2 DEF TypeOK
<1>4. Listed' = Listed /\ WithFile' = WithFile
  BY <1>2 DEF Listed, WithFile
<1>5. \A s \in Slot : Sound(conns[s])'
  BY <1>1, <1>2 DEF Table, Sound
<1>6. Table'
  BY <1>1, <1>2, <1>4, <1>5 DEF Table, StartsEmpty, ExitCloses
<1>7. Serve'
  BY <1>1, <1>2, <1>4 DEF Serve, Pointers, Requests, Reads, OneEach, Holds, Sending
<1> QED BY <1>3, <1>6, <1>7 DEF Inv

\* cleanup closes what the table lists, which is all there is.
LEMMA DieStep ==
    ASSUME Inv, Die
    PROVE  Inv'
<1>1. TypeOK /\ Table /\ (~moved => nfiles = Cardinality(WithFile))
  BY DEF Inv, Die, Serving, Serve, Holds
<1>2. /\ UNCHANGED <<conns, nconns, events, fsize, got, fate, moved>>
      /\ listening' = FALSE /\ phase' = "exit" /\ kq' = {}
      /\ open' = open \ {conns[s].fd : s \in Listed}
      /\ nfiles' \in IF moved THEN 0..nfiles ELSE {nfiles - Cardinality(WithFile)}
  BY DEF Die, hist, WithFile
<1>3. open' = {}
  BY <1>1, <1>2 DEF Table
<1>4. nfiles' \in Nat /\ (~moved => nfiles' = 0)
  BY <1>1, <1>2 DEF TypeOK
<1>5. TypeOK'
  BY <1>1, <1>2, <1>3, <1>4 DEF TypeOK
<1>6. \A s \in Slot : Sound(conns[s])'
  BY <1>1, <1>2 DEF Table, Sound
<1>7. Table'
  BY <1>2, <1>3, <1>4, <1>6 DEF Table, StartsEmpty, ExitCloses
<1> QED BY <1>2, <1>5, <1>7 DEF Inv, Serving

\* A structure that is not listed may become another.
LEMMA AcceptFailsStep ==
    ASSUME Inv, NEW f \in Fd, AcceptFails(f)
    PROVE  Inv'
<1>1. TypeOK /\ Table /\ fsize \in 0..MaxFile
  BY DEF Inv, TypeOK
<1>2. /\ UNCHANGED <<nconns, fsize, listening, kq, open, nfiles, got, fate, moved, phase>>
      /\ events' \subseteq events /\ conns' = [conns EXCEPT ![nconns] = Fresh(f)]
      /\ phase = "handle"
  BY DEF AcceptFails, Take, env, system, hist
<1>3. conns' \in [Slot -> Conn] /\ \A s \in Slot : Sound(conns'[s])
  BY <1>1, <1>2, FreshIs DEF Table, TypeOK, Sound
<1>4. \A s \in Slot : Sound(conns[s])'
  BY <1>2, <1>3 DEF Sound
<1>5. TypeOK'
  BY <1>1, <1>2, <1>3 DEF TypeOK
<1>6. Listed \subseteq Slot /\ Listed' = Listed /\ \A s \in Listed : conns'[s] = conns[s]
  BY <1>1, <1>2 DEF Listed, TypeOK, Slot
<1>7. WithFile' = WithFile
  BY <1>6 DEF WithFile
<1>8. Table'
  BY <1>1, <1>2, <1>4, <1>6 DEF Table, StartsEmpty, ExitCloses
<1>9. ASSUME Serving' PROVE Serve'
  <2>1. Serve
    BY <1>2, <1>9 DEF Inv, Serving
  <2>2. Pointers' /\ Requests'
    BY <2>1, <1>2, <1>6 DEF Serve, Pointers, Requests, Reads
  <2>3. OneEach' /\ Holds'
    BY <2>1, <1>2, <1>6, <1>7 DEF Serve, OneEach, Holds, Sending
  <2> QED BY <2>2, <2>3 DEF Serve
<1> QED BY <1>5, <1>8, <1>9 DEF Inv

\* A new socket gets a structure of its own.
LEMMA AcceptStep ==
    ASSUME Inv, NEW f \in Fd, Accept(f)
    PROVE  Inv'
<1>1. TypeOK /\ Table /\ fsize \in 0..MaxFile /\ nconns \in 0..MAX_CONN /\ MAX_CONN \in Nat
  BY HttpAssumption DEF Inv, TypeOK
<1>2. /\ UNCHANGED <<fsize, listening, nfiles, moved, phase>> /\ nconns' = nconns + 1
      /\ events' \subseteq events /\ conns' = [conns EXCEPT ![nconns] = Fresh(f)]
      /\ phase = "handle" /\ nconns < MAX_CONN /\ f \notin open /\ open' = open \cup {f}
      /\ got' = [got EXCEPT ![f] = 0] /\ fate' = [fate EXCEPT ![f] = "open"]
  BY DEF Accept, Take, env, HasRoom
<1>k. \A e : e \in kq' => e \in kq \/ e = <<f, "READ", nconns>>
  BY DEF Accept, Registered
<1>3. conns' \in [Slot -> Conn] /\ \A s \in Slot : Sound(conns'[s])
  BY <1>1, <1>2, FreshIs DEF Table, TypeOK, Sound
<1>4. \A s \in Slot : Sound(conns[s])'
  BY <1>2, <1>3 DEF Sound
<1>s. nconns \in Slot /\ nconns + 1 \in 0..MAX_CONN /\ nconns \notin Listed
      /\ conns'[nconns] = Fresh(f)
  BY <1>1, <1>2 DEF Slot, Listed, TypeOK
<1>5. TypeOK'
  <2>1. kq' \in SUBSET Event
    <3>1. <<f, "READ", nconns>> \in Event
      BY <1>s DEF Event
    <3> QED BY <1>1, <1>k, <3>1 DEF TypeOK
  <2>2. got' \in [Fd -> Nat \cup {Garbled}] /\ fate' \in [Fd -> {"open", "done", "cut"}]
    BY <1>1, <1>2 DEF TypeOK
  <2> QED BY <1>1, <1>2, <1>3, <1>s, <2>1, <2>2 DEF TypeOK
<1>6. Listed' = Listed \cup {nconns} /\ \A s \in Listed : conns'[s] = conns[s]
  BY <1>1, <1>2 DEF Listed, TypeOK, Slot
<1>f. Fresh(f).fd = f /\ ~Fresh(f).file /\ Fresh(f).state = "READING" /\ f # NoFd
  BY <1>1, FreshIs, HttpAssumption DEF NoFd
<1>7. WithFile' = WithFile
  BY <1>6, <1>s, <1>f DEF WithFile
<1>8. Table'
  <2>1. ASSUME NEW g \in open' PROVE \E s \in Listed' : conns'[s].fd = g
    <3>1. CASE g = f
      BY <3>1, <1>6, <1>s, <1>f
    <3>2. CASE g # f
      BY <3>2, <1>1, <1>2, <1>6 DEF Table
    <3> QED BY <3>1, <3>2
  <2>2. \A e \in kq' : e[1] \in open'
    BY <1>1, <1>2, <1>k DEF Table
  <2> QED BY <1>2, <1>4, <2>1, <2>2 DEF Table, StartsEmpty, ExitCloses
<1>9. ASSUME Serving' PROVE Serve'
  <2>1. Serve
    BY <1>2, <1>9 DEF Inv, Serving
  <2>2. Pointers'
    BY <2>1, <1>2, <1>6, <1>s, <1>f, <1>k DEF Serve, Pointers
  <2>3. Requests'
    <3>1. ASSUME NEW e \in kq', e[2] = "READ" PROVE Reads(conns[e[3]])'
      BY <2>1, <3>1, <1>6, <1>s, <1>f, <1>k DEF Serve, Pointers, Requests, Reads
    <3>2. ASSUME NEW e \in events', e # Listen, e[2] = "READ" PROVE Reads(conns[e[3]])'
      BY <2>1, <3>2, <1>2, <1>6 DEF Serve, Pointers, Requests, Reads
    <3> QED BY <3>1, <3>2 DEF Requests
  <2>4. OneEach'
    <3>1. \A s \in Listed : conns[s].fd # f
      BY <2>1, <1>2, <1>f DEF Serve, Holds
    <3> QED BY <2>1, <3>1, <1>6, <1>s, <1>f DEF Serve, OneEach
  <2>5. Holds'
    BY <2>1, <1>2, <1>6, <1>7, <1>s, <1>f DEF Serve, Holds, Sending
  <2> QED BY <2>2, <2>3, <2>4, <2>5 DEF Serve
<1> QED BY <1>5, <1>8, <1>9 DEF Inv

-----------------------------------------------------------------------------
(* What the events of the sockets do.                                      *)

\* What a handler of event e leaves alone, whatever it does.
Handles(e) ==
    /\ e # Listen /\ e \in events /\ events' = events \ {e} /\ phase = "handle"
    /\ UNCHANGED <<phase, nconns, fsize, listening, moved>>

\* A connection that is closed leaves the table's others as they are.
LEMMA CloseStep ==
    ASSUME Inv, NEW e \in Event, Handles(e), conns[e[3]].fd # NoFd,
           NEW why \in {"done", "cut"}, CloseConnection(e[3], why),
           got' \in [Fd -> Nat \cup {Garbled}]
    PROVE  Inv'
<1>1. TypeOK /\ Table /\ fsize \in 0..MaxFile
  BY DEF Inv, TypeOK
<1>2. PICK s \in Slot : s = e[3]
  BY DEF Event
<1>3. PICK f \in Fd : f = conns[s].fd
  BY <1>1, <1>2 DEF TypeOK, Conn
<1>4. /\ UNCHANGED <<nconns, fsize, listening, moved, phase>> /\ events' = events \ {e}
      /\ conns' = [conns EXCEPT ![s] = Closed] /\ phase = "handle"
      /\ open' = open \ {f} /\ fate' = [fate EXCEPT ![f] = why]
      /\ nfiles' \in IF ~conns[s].file THEN {nfiles}
                     ELSE IF moved THEN {nfiles, nfiles - 1} \cap Nat ELSE {nfiles - 1}
  BY <1>2, <1>3 DEF Handles, CloseConnection
<1>k. \A x : x \in kq' <=> x \in kq /\ x[1] # f
  BY <1>2, <1>3 DEF CloseConnection, Deregistered
<1>c. Sound(Closed) /\ Closed.fd = NoFd /\ ~Closed.file
  BY <1>1, <1>3, FreshIs
<1>5. /\ conns' \in [Slot -> Conn] /\ \A t \in Slot : Sound(conns'[t])
      /\ conns'[s] = Closed /\ \A t \in Slot \ {s} : conns'[t] = conns[t]
  BY <1>1, <1>4, <1>c DEF Table, TypeOK, Sound
<1>6. \A t \in Slot : Sound(conns[t])'
  BY <1>4, <1>5 DEF Sound
<1>7. Listed' = Listed /\ Listed \subseteq Slot
  BY <1>4 DEF Listed
<1>8. ASSUME ~moved
      PROVE  Serve /\ s \in Listed /\ nfiles' = Cardinality(WithFile') /\ nfiles' \in Nat
  <2>1. Serve
    BY <1>4, <1>8 DEF Inv, Serving
  <2>2. s \in Listed
    BY <2>1, <1>2 DEF Serve, Pointers, Handles
  <2>3. WithFile' = WithFile \ {s}
    BY <1>5, <1>7, <1>c DEF WithFile
  <2>4. IsFiniteSet(WithFile) /\ Cardinality(WithFile) = nfiles
    BY <1>1, <2>1, ListedFinite DEF Serve, Holds
  <2>5. CASE conns[s].file
    <3>1. s \in WithFile
      BY <2>2, <2>5 DEF WithFile
    <3>2. Cardinality(WithFile \ {s}) = nfiles - 1 /\ Cardinality(WithFile \ {s}) \in Nat
      BY <2>4, <3>1, FS_RemoveElement, FS_CardinalityType
    <3> QED BY <1>4, <1>8, <2>1, <2>2, <2>3, <2>5, <3>2
  <2>6. CASE ~conns[s].file
    <3>1. WithFile \ {s} = WithFile
      BY <2>6 DEF WithFile
    <3> QED BY <1>1, <1>4, <2>1, <2>2, <2>3, <2>4, <2>6, <3>1 DEF TypeOK
  <2> QED BY <2>5, <2>6
<1>9. TypeOK'
  <2>1. nfiles' \in Nat
    BY <1>1, <1>4, <1>8 DEF TypeOK
  <2>2. fate' \in [Fd -> {"open", "done", "cut"}]
    BY <1>1, <1>4 DEF TypeOK
  <2>3. kq' \in SUBSET Event
    BY <1>1, <1>k DEF TypeOK
  <2> QED BY <1>1, <1>4, <1>5, <2>1, <2>2, <2>3 DEF TypeOK
<1>10. Table'
  <2>1. ASSUME NEW g \in open' PROVE \E t \in Listed' : conns'[t].fd = g
    <3>1. PICK t \in Listed : conns[t].fd = g
      BY <1>1, <1>4 DEF Table
    <3>2. t \in Slot \ {s}
      BY <1>3, <1>4, <1>7, <3>1
    <3> QED BY <1>5, <1>7, <3>1, <3>2
  <2>2. \A x \in kq' : x[1] \in open'
    BY <1>1, <1>4, <1>k DEF Table
  <2> QED BY <1>4, <1>6, <2>1, <2>2 DEF Table, StartsEmpty, ExitCloses
<1>11. ASSUME Serving' PROVE Serve'
  <2>1. Serve /\ s \in Listed
    BY <1>4, <1>8, <1>11 DEF Serving
  <2>2. Pointers'
    <3>1. ASSUME NEW x \in kq' PROVE x[3] \in Listed /\ conns'[x[3]].fd = x[1]
      BY <2>1, <1>3, <1>5, <1>7, <1>k DEF Serve, Pointers
    <3>2. ASSUME NEW x \in events', x # Listen
          PROVE  x[3] \in Listed /\ conns'[x[3]].fd \in {x[1], NoFd}
      BY <2>1, <3>2, <1>4, <1>5, <1>7, <1>c DEF Serve, Pointers
    <3> QED BY <3>1, <3>2, <1>7 DEF Pointers
  <2>3. Requests'
    <3>1. \A x \in Event : Reads(conns[x[3]]) => Reads(conns'[x[3]])
      BY <1>5, <1>c DEF Reads, Event
    <3>2. \A x \in kq' : x \in kq /\ x \in Event
      BY <1>1, <1>k DEF TypeOK
    <3>3. \A x \in events' : x # Listen => x \in events /\ x \in Event
      BY <1>1, <1>4 DEF TypeOK
    <3> QED BY <2>1, <3>1, <3>2, <3>3 DEF Serve, Requests, Reads
  <2>4. OneEach'
    BY <2>1, <1>5, <1>7, <1>c DEF Serve, OneEach
  <2>5. Holds'
    <3>1. \A t \in Listed : conns'[t].fd \in open' \cup {NoFd}
      BY <2>1, <1>3, <1>4, <1>5, <1>7, <1>c DEF Serve, OneEach, Holds
    <3>2. \A t \in Listed : conns'[t].file => conns'[t].fd # NoFd /\ Sending(conns'[t])
      BY <2>1, <1>5, <1>7, <1>c DEF Serve, Holds
    <3> QED BY <3>1, <3>2, <1>4, <1>7, <1>8, <1>11 DEF Holds, Serving, Sending
  <2> QED BY <2>2, <2>3, <2>4, <2>5 DEF Serve
<1> QED BY <1>9, <1>10, <1>11 DEF Inv

\* A structure that keeps its open socket may go on with its answer.
LEMMA ChangeStep ==
    ASSUME Inv, NEW e \in Event, Handles(e), conns[e[3]].fd \in open,
           NEW d, Sound(d), d.fd = conns[e[3]].fd, conns' = [conns EXCEPT ![e[3]] = d],
           UNCHANGED <<open, fate>>, got' \in [Fd -> Nat \cup {Garbled}], nfiles' \in Nat,
           \A x \in kq' : x \in kq \/ x = <<d.fd, "WRITE", e[3]>>,
           Serving =>
              /\ Sending(d)
              /\ \/ (d.file <=> conns[e[3]].file) /\ nfiles' = nfiles
                 \/ d.file /\ ~conns[e[3]].file /\ nfiles' = nfiles + 1
              /\ \/ Reads(conns[e[3]]) => Reads(d)
                 \/ \A x \in (kq' \cup events') \ {Listen} : x[2] = "READ" => x[3] # e[3]
    PROVE  Inv'
<1>1. TypeOK /\ Table /\ fsize \in 0..MaxFile
  BY DEF Inv, TypeOK
<1>2. PICK s \in Slot : s = e[3]
  BY DEF Event
<1>3. PICK f \in Fd : f = conns[s].fd /\ f \in open /\ f # NoFd
  <2>1. conns[s].fd \in open /\ open \subseteq Fd
    BY <1>1, <1>2 DEF TypeOK
  <2>2. \A g \in Fd : g # NoFd
    BY HttpAssumption DEF NoFd
  <2> QED BY <2>1, <2>2
<1>4. /\ UNCHANGED <<nconns, fsize, listening, moved, phase, open, fate>>
      /\ events' = events \ {e} /\ conns' = [conns EXCEPT ![s] = d] /\ phase = "handle"
      /\ d.fd = f /\ d \in Conn
  BY <1>2, <1>3 DEF Handles, Sound
<1>k. \A x \in kq' : x \in kq \/ x = <<f, "WRITE", s>>
  BY <1>2, <1>4
<1>5. /\ conns' \in [Slot -> Conn] /\ \A t \in Slot : Sound(conns'[t])
      /\ conns'[s] = d /\ \A t \in Slot \ {s} : conns'[t] = conns[t]
  <2>1. conns \in [Slot -> Conn] /\ \A t \in Slot : Sound(conns[t])
    BY <1>1 DEF Table, TypeOK
  <2>2. /\ conns' \in [Slot -> Conn]
        /\ conns'[s] = d /\ \A t \in Slot \ {s} : conns'[t] = conns[t]
    BY <1>4, <2>1
  <2> QED BY <2>1, <2>2
<1>6. \A t \in Slot : Sound(conns[t])'
  BY <1>4, <1>5 DEF Sound
<1>7. Listed' = Listed /\ Listed \subseteq Slot
  BY <1>4 DEF Listed
<1>8. \A t \in Slot : conns'[t].fd = conns[t].fd
  BY <1>3, <1>4, <1>5
<1>9. TypeOK'
  <2>1. kq' \in SUBSET Event
    <3>1. <<f, "WRITE", s>> \in Event
      BY DEF Event
    <3> QED BY <1>1, <1>k, <3>1 DEF TypeOK
  <2> QED BY <1>1, <1>4, <1>5, <2>1 DEF TypeOK
<1>10. Table'
  <2>1. ASSUME NEW g \in open' PROVE \E t \in Listed' : conns'[t].fd = g
    BY <1>1, <1>4, <1>7, <1>8 DEF Table
  <2>2. \A x \in kq' : x[1] \in open'
    BY <1>1, <1>3, <1>4, <1>k DEF Table
  <2> QED BY <1>4, <1>6, <2>1, <2>2 DEF Table, StartsEmpty, ExitCloses
<1>11. ASSUME Serving' PROVE Serve'
  <2>1. Serve /\ Serving
    BY <1>4, <1>11 DEF Inv, Serving
  <2>2. s \in Listed
    BY <2>1, <1>2 DEF Serve, Pointers, Handles
  <2>3. Pointers'
    <3>1. ASSUME NEW x \in kq' PROVE x[3] \in Listed /\ conns'[x[3]].fd = x[1]
      BY <2>1, <2>2, <1>3, <1>7, <1>8, <1>k DEF Serve, Pointers
    <3>2. ASSUME NEW x \in events', x # Listen
          PROVE  x[3] \in Listed /\ conns'[x[3]].fd \in {x[1], NoFd}
      BY <2>1, <3>2, <1>4, <1>7, <1>8 DEF Serve, Pointers
    <3> QED BY <3>1, <3>2, <1>7 DEF Pointers
  <2>4. Requests'
    <3>1. \A x \in Event : x[3] # s => conns'[x[3]] = conns[x[3]]
      BY <1>5 DEF Event
    <3>2. \A x \in kq' : x[2] = "READ" => x \in kq /\ x \in Event
      BY <1>1, <1>k DEF TypeOK
    <3>3. \A x \in events' : x # Listen => x \in events /\ x \in Event
      BY <1>1, <1>4 DEF TypeOK
    <3>4. Listen \notin Event
      BY DEF Listen, Event
    <3>5. CASE Reads(conns[s]) => Reads(d)
      <4>1. \A x \in Event : Reads(conns[x[3]]) => Reads(conns'[x[3]])
        BY <3>1, <3>5, <1>5
      <4> QED BY <2>1, <3>2, <3>3, <4>1 DEF Serve, Requests, Reads
    <3>6. CASE \A x \in (kq' \cup events') \ {Listen} : x[2] = "READ" => x[3] # s
      <4>1. \A x \in kq' : x[2] = "READ" => x[3] # s
        BY <3>2, <3>4, <3>6
      <4> QED BY <2>1, <3>1, <3>2, <3>3, <3>6, <4>1 DEF Serve, Requests, Reads
    <3> QED BY <2>1, <3>5, <3>6, <1>2
  <2>5. OneEach'
    BY <2>1, <1>7, <1>8 DEF Serve, OneEach
  <2>6. nfiles' = Cardinality(WithFile')
    <3>1. IsFiniteSet(WithFile) /\ nfiles = Cardinality(WithFile)
      BY <1>1, <2>1, ListedFinite DEF Serve, Holds
    <3>2. CASE (d.file <=> conns[s].file) /\ nfiles' = nfiles
      <4>1. WithFile' = WithFile
        BY <3>2, <1>5, <1>7 DEF WithFile
      <4> QED BY <3>1, <3>2, <4>1
    <3>3. CASE d.file /\ ~conns[s].file /\ nfiles' = nfiles + 1
      <4>1. WithFile' = WithFile \cup {s} /\ s \notin WithFile
        BY <3>3, <2>2, <1>5, <1>7 DEF WithFile
      <4> QED BY <3>1, <3>3, <4>1, FS_AddElement
    <3> QED BY <2>1, <3>2, <3>3, <1>2
  <2>7. Holds'
    <3>1. \A t \in Listed : conns'[t].fd \in open' \cup {NoFd}
      BY <2>1, <1>4, <1>7, <1>8 DEF Serve, Holds
    <3>2. \A t \in Listed : conns'[t].file => conns'[t].fd # NoFd /\ Sending(conns'[t])
      BY <2>1, <1>3, <1>4, <1>5, <1>7 DEF Serve, Holds
    <3> QED BY <3>1, <3>2, <1>7, <2>6 DEF Holds, Sending
  <2> QED BY <2>3, <2>4, <2>5, <2>7 DEF Serve
<1> QED BY <1>9, <1>10, <1>11 DEF Inv

\* The first n of a sequence.
LEMMA FirstPart ==
    ASSUME NEW us \in Seq(Nat), NEW n \in 0..Len(us)
    PROVE  /\ SubSeq(us, 1, n) \in Seq(Nat) /\ Len(SubSeq(us, 1, n)) = n
           /\ \A k \in 1..n : SubSeq(us, 1, n)[k] = us[k]
<1>1. 0 \in 0..Len(us) /\ n \in 0..Len(us) /\ 0 + 1 = 1 /\ n - 0 = n /\ \A k \in 1..n : 0 + k = k
  OBVIOUS
<1>2. /\ SubSeq(us, 0 + 1, n) \in Seq(Nat) /\ Len(SubSeq(us, 0 + 1, n)) = n - 0
      /\ \A k \in 1..n - 0 : SubSeq(us, 0 + 1, n)[k] = us[0 + k]
  BY <1>1, PartIs
<1> QED BY <1>1, <1>2

\* What a client has received stays a number of units, or Garbled.
LEMMA SendType ==
    ASSUME TypeOK, NEW s \in Slot, NEW us \in Seq(Nat), NEW n \in 0..Len(us), SendTo(s, us, n)
    PROVE  got' \in [Fd -> Nat \cup {Garbled}]
<1>1. SubSeq(us, 1, n) \in Seq(Nat)
  BY FirstPart
<1>2. \A g \in Nat \cup {Garbled} : Received(g, SubSeq(us, 1, n)) \in Nat \cup {Garbled}
  BY <1>1, ReceivedType
<1> QED BY <1>2 DEF SendTo, TypeOK

\* The structure of an event, and the handlers that leave most alone.
LEMMA TakenIs ==
    ASSUME Inv, NEW e \in Event, e # Listen, Take(e),
           UNCHANGED <<nconns, phase, env, moved>>
    PROVE  /\ Handles(e) /\ TypeOK /\ fsize \in 0..MaxFile /\ nfiles \in Nat
           /\ e[3] \in Slot /\ Sound(conns[e[3]]) /\ conns[e[3]] \in Conn
           /\ got \in [Fd -> Nat \cup {Garbled}]
           /\ (Serving => Serve /\ e[3] \in Listed)
<1>1. Handles(e) /\ TypeOK /\ Table /\ e[3] \in Slot
  BY DEF Handles, Take, env, Inv, Event
<1>2. Serving => Serve /\ e[3] \in Listed
  BY DEF Inv, Serve, Pointers, Take
<1> QED BY <1>1, <1>2 DEF TypeOK, Table, Sound

\* Closing without an answer.
LEMMA CutStep ==
    ASSUME Inv, NEW e \in Event, ReadEnds(e) \/ Fails(e)
    PROVE  Inv'
<1>1. /\ e # Listen /\ Take(e) /\ UNCHANGED <<nconns, phase, env, got, moved>>
      /\ conns[e[3]].fd # NoFd /\ CloseConnection(e[3], "cut")
  BY DEF ReadEnds, Fails, Live
<1>2. Handles(e) /\ got' \in [Fd -> Nat \cup {Garbled}]
  BY <1>1, TakenIs
<1> QED BY <1>1, <1>2, CloseStep

\* The end of an answer.
LEMMA EndStep ==
    ASSUME Inv, NEW e \in Event, WriteError(e) \/ WriteLast(e)
    PROVE  Inv'
<1> DEFINE s == e[3]
           c == conns[s]
<1>1. /\ e # Listen /\ Take(e) /\ UNCHANGED <<nconns, phase, env, moved>>
      /\ c.fd # NoFd /\ CloseConnection(s, "done") /\ SendTo(s, Unsent(c), Len(Unsent(c)))
  BY DEF WriteError, WriteLast, Usable, Live
<1>2. Handles(e) /\ TypeOK /\ s \in Slot /\ Sound(c)
  BY <1>1, TakenIs
<1>3. Unsent(c) \in Seq(Nat) /\ Len(Unsent(c)) \in 0..Len(Unsent(c))
  BY <1>2, UnsentIs
<1>4. got' \in [Fd -> Nat \cup {Garbled}]
  BY <1>1, <1>2, <1>3, SendType
<1> QED BY <1>1, <1>2, <1>4, CloseStep

\* A part of the answer.
LEMMA PartStep ==
    ASSUME Inv, NEW e \in Event, WritePart(e)
    PROVE  Inv'
<1> DEFINE s == e[3]
           c == conns[s]
<1>1. /\ e # Listen /\ Take(e) /\ UNCHANGED <<nconns, phase, env, system, fate, moved>>
      /\ c.fd \in open /\ Sending(c)
  BY DEF WritePart, Usable, Live
<1>2. Handles(e) /\ TypeOK /\ fsize \in 0..MaxFile /\ nfiles \in Nat /\ s \in Slot /\ Sound(c)
      /\ c \in Conn
  BY <1>1, TakenIs DEF system
<1>3. Unsent(c) \in Seq(Nat) /\ Len(Unsent(c)) = Len(c.buf) - c.sent /\ Len(Unsent(c)) \in Nat
      /\ c.sent \in Nat /\ Len(c.buf) \in Nat
  BY <1>2, UnsentIs DEF Conn
<1>4. PICK n \in 0..Len(Unsent(c)) - 1 :
          conns' = [conns EXCEPT ![s].sent = @ + n] /\ SendTo(s, Unsent(c), n)
  BY DEF WritePart
<1>5. n \in 0..Len(Unsent(c)) /\ c.sent + n \in Nat /\ c.sent + n <= Len(c.buf)
  <2> HIDE DEF c
  <2> QED BY <1>3, PartOfLeft
<1> DEFINE d == [c EXCEPT !.sent = @ + n]
<1>6. conns' = [conns EXCEPT ![s] = d]
  BY <1>4
<1>7. d \in Conn /\ d.fd = c.fd /\ d.file = c.file /\ d.full = c.full /\ d.state = c.state
      /\ d.sent = c.sent + n /\ d.buf = c.buf /\ d.off = c.off
  BY <1>2, <1>5 DEF Conn
<1> HIDE DEF d
<1>8. Sound(d) /\ Sending(d) /\ (Reads(c) => Reads(d))
  BY <1>1, <1>2, <1>5, <1>7 DEF Sound, Sending, Reads
<1>9. got' \in [Fd -> Nat \cup {Garbled}]
  BY <1>2, <1>3, <1>4, <1>5, SendType
<1>10. UNCHANGED <<open, fate, kq, nfiles>>
  BY <1>1 DEF system
<1> HIDE DEF c, s
<1> QED BY <1>1, <1>2, <1>6, <1>7, <1>8, <1>9, <1>10, ChangeStep DEF c, s

\* The next block of the file.
LEMMA BlockStep ==
    ASSUME Inv, NEW e \in Event, WriteBlock(e)
    PROVE  Inv'
<1> DEFINE s == e[3]
           c == conns[s]
           next == Block(c, 0).buf
<1>1. /\ e # Listen /\ Take(e) /\ UNCHANGED <<nconns, phase, env, system, fate, moved>>
      /\ c.fd \in open /\ Sending(c)
  BY DEF WriteBlock, Usable, Live
<1>2. Handles(e) /\ TypeOK /\ fsize \in 0..MaxFile /\ nfiles \in Nat /\ s \in Slot /\ Sound(c)
  BY <1>1, TakenIs DEF system
<1>3. PICK n \in 0..Len(next) :
          /\ conns' = [conns EXCEPT ![s] = Block(c, n)]
          /\ SendTo(s, Unsent(c) \o next, Len(Unsent(c)) + n)
  BY DEF WriteBlock
<1>4. Unsent(c) \in Seq(Nat) /\ Len(Unsent(c)) \in Nat /\ 0 \in Nat
  BY <1>2, UnsentIs
<1>5. next \in Seq(Nat)
  BY <1>2, <1>4, BlockIs
<1>6. n \in Nat /\ n <= Len(next)
  BY <1>5
<1> DEFINE d == Block(c, n)
<1>7. Sound(d) /\ d.fd = c.fd /\ d.file = c.file /\ d.full = c.full /\ d.state = "SENDING_FILE"
  BY <1>2, <1>6, BlockIs
<1>8. conns' = [conns EXCEPT ![s] = d]
  BY <1>3
<1>9. Unsent(c) \o next \in Seq(Nat)
      /\ Len(Unsent(c)) + n \in 0..Len(Unsent(c) \o next)
  BY <1>4, <1>5, <1>6
<1>10. got' \in [Fd -> Nat \cup {Garbled}]
  BY <1>2, <1>3, <1>9, SendType
<1>11. Sending(d) /\ (Reads(c) => Reads(d))
  BY <1>1, <1>7 DEF Sending, Reads
<1>12. UNCHANGED <<open, fate, kq, nfiles>>
  BY <1>1 DEF system
<1> HIDE DEF d, c, s
<1> QED BY <1>1, <1>2, <1>7, <1>8, <1>10, <1>11, <1>12, ChangeStep DEF c, s

\* The request is whole.
LEMMA RequestStep ==
    ASSUME Inv, NEW e \in Event, ReadRequest(e)
    PROVE  Inv'
<1> DEFINE s == e[3]
           c == conns[s]
<1>1. /\ e # Listen /\ Take(e) /\ UNCHANGED <<nconns, phase, env, got, moved>>
      /\ c.fd \in open /\ c.fd # NoFd /\ ~c.full /\ e[2] = "READ"
  BY DEF ReadRequest, Usable, Live
<1>2. Handles(e) /\ TypeOK /\ fsize \in 0..MaxFile /\ nfiles \in Nat /\ s \in Slot /\ Sound(c)
      /\ (Serving => Serve /\ s \in Listed) /\ got \in [Fd -> Nat \cup {Garbled}]
  BY <1>1, TakenIs
<1>3. PICK file \in BOOLEAN :
          Respond(s, c, file, {x \in kq : ~(x[1] = c.fd /\ x[2] = "READ")})
  BY DEF ReadRequest
<1> DEFINE d == Answer(c, file)
<1>4. Sound(d) /\ d.fd = c.fd /\ (d.file <=> (file \/ c.file)) /\ d.state = "SENDING_HEADER"
  BY <1>2, AnswerIs
<1>5. /\ conns' = [conns EXCEPT ![s] = d] /\ UNCHANGED <<open, fate>>
      /\ nfiles' = IF file THEN nfiles + 1 ELSE nfiles
  BY <1>3 DEF Respond
<1>6. \A x \in kq' : \/ x \in kq /\ ~(x[1] = c.fd /\ x[2] = "READ")
                     \/ x = <<c.fd, "WRITE", s>>
  BY <1>3 DEF Respond
<1>7. nfiles' \in Nat /\ got' \in [Fd -> Nat \cup {Garbled}] /\ Sending(d)
  BY <1>1, <1>2, <1>4, <1>5 DEF Sending
<1>8. ASSUME Serving
      PROVE  /\ \/ (d.file <=> c.file) /\ nfiles' = nfiles
                \/ d.file /\ ~c.file /\ nfiles' = nfiles + 1
             /\ \A x \in (kq' \cup events') \ {Listen} : x[2] = "READ" => x[3] # s
  <2>1. ~c.file
    BY <1>1, <1>2, <1>8 DEF Take, Serve, Requests, Reads, Holds, Sending
  <2>2. ASSUME NEW x \in kq', x[2] = "READ" PROVE x[3] # s
    BY <1>2, <1>6, <1>8, <2>2 DEF Serve, Pointers
  <2>3. ASSUME NEW x \in events', x # Listen, x[2] = "READ", x[3] = s PROVE FALSE
    <3>1. x \in events /\ x \in Event /\ e \in events /\ x # e
      BY <1>2, <2>3 DEF Handles, TypeOK
    <3>2. x[1] = c.fd /\ e[1] = c.fd
      BY <1>1, <1>2, <1>8, <2>3, <3>1 DEF Serve, Pointers
    <3> QED BY <1>1, <2>3, <3>1, <3>2 DEF Event
  <2>4. \/ (d.file <=> c.file) /\ nfiles' = nfiles
        \/ d.file /\ ~c.file /\ nfiles' = nfiles + 1
    <3>1. CASE file
      BY <3>1, <2>1, <1>4, <1>5
    <3>2. CASE ~file
      BY <3>2, <2>1, <1>4, <1>5
    <3> QED BY <3>1, <3>2
  <2> QED BY <2>2, <2>3, <2>4
<1>9. \A x \in kq' : x \in kq \/ x = <<d.fd, "WRITE", s>>
  BY <1>4, <1>6
<1> HIDE DEF d, c, s
<1> QED BY <1>1, <1>2, <1>4, <1>5, <1>7, <1>8, <1>9, ChangeStep DEF c, s

\* The request is too long.
LEMMA TooLongStep ==
    ASSUME Inv, NEW e \in Event, ReadTooLong(e)
    PROVE  Inv'
<1> DEFINE s == e[3]
           c == conns[s]
           b == [c EXCEPT !.full = TRUE]
           d == Answer(b, FALSE)
<1>1. /\ e # Listen /\ Take(e) /\ UNCHANGED <<nconns, phase, env, got, moved>>
      /\ c.fd \in open /\ c.fd # NoFd /\ ~c.full /\ e[2] = "READ" /\ Respond(s, b, FALSE, kq)
  BY DEF ReadTooLong, Usable, Live
<1>2. Handles(e) /\ TypeOK /\ fsize \in 0..MaxFile /\ nfiles \in Nat /\ s \in Slot /\ Sound(c)
      /\ c \in Conn /\ (Serving => Serve /\ s \in Listed) /\ got \in [Fd -> Nat \cup {Garbled}]
  BY <1>1, TakenIs
<1>3. Sound(b) /\ b.fd = c.fd /\ b.full /\ b.file = c.file
  BY <1>2 DEF Sound, Conn
<1> HIDE DEF b
<1>4. Sound(d) /\ d.fd = c.fd /\ d.full /\ d.state = "SENDING_HEADER" /\ (d.file <=> c.file)
  BY <1>2, <1>3, AnswerIs
<1>7. /\ conns' = [conns EXCEPT ![s] = d] /\ UNCHANGED <<open, fate, nfiles>>
      /\ \A x \in kq' : x \in kq \/ x = <<d.fd, "WRITE", s>>
  BY <1>1, <1>3, <1>4 DEF Respond
<1>8. Sending(d) /\ Reads(d) /\ nfiles' \in Nat /\ got' \in [Fd -> Nat \cup {Garbled}]
  BY <1>1, <1>2, <1>4, <1>7 DEF Sending, Reads
<1> HIDE DEF d, c, s
<1> QED BY <1>1, <1>2, <1>4, <1>7, <1>8, ChangeStep DEF c, s

-----------------------------------------------------------------------------
(* free_conns.                                                             *)

\* The structures in use.
Kept == {s \in Slot : InUse(s)}

\* What free_conns does, in terms of the sequence of the structures it keeps.
LEMMA FreeConnsIs ==
    ASSUME TypeOK, FreeConns
    PROVE  \E n \in 0..MAX_CONN : \E kept \in [1..n -> Kept] :
             /\ \A x \in Kept : \E k \in 1..n : kept[k] = x
             /\ nconns' = n
             /\ conns' = [s \in Slot |-> IF s < n THEN conns[kept[s + 1]] ELSE conns[s]]
             /\ moved' = (moved \/ \E k \in 1..n : kept[k] # k - 1)
<1>1. PICK kept \in SetToSeqs(Kept) :
          /\ conns' = [s \in Slot |-> IF s < Len(kept) THEN conns[kept[s + 1]] ELSE conns[s]]
          /\ nconns' = Len(kept)
          /\ moved' = (moved \/ \E k \in DOMAIN kept : kept[k] # k - 1)
  BY DEF FreeConns, Kept
<1>2. MAX_CONN \in Nat /\ IsFiniteSet(Slot) /\ Cardinality(Slot) = MAX_CONN
  BY HttpAssumption, FS_Interval DEF Slot
<1>3. Kept \subseteq Slot
  BY DEF Kept
<1>4. IsFiniteSet(Kept) /\ Cardinality(Kept) <= MAX_CONN
  BY <1>2, <1>3, FS_Subset
<1> DEFINE n == Cardinality(Kept)
<1>5. /\ kept \in [1..n -> Kept] /\ n \in Nat /\ Len(kept) = n /\ DOMAIN kept = 1..n
      /\ \A x \in Kept : \E k \in 1..n : kept[k] = x
  BY <1>4, KeptAll
<1>6. n \in 0..MAX_CONN
  BY <1>2, <1>4, <1>5
<1> HIDE DEF n
<1> QED BY <1>1, <1>5, <1>6

\* The structures that stay in use are all there, once more or where they were.
LEMMA FreeConnsStep ==
    ASSUME Inv, FreeConns
    PROVE  /\ Inv' /\ UNCHANGED <<open, fsize>>
           /\ Serving' => Serving /\ \A s \in Slot : conns'[s] = conns[s]
                                             /\ (s \in Listed' => s \in Listed)
           /\ \A s \in Slot : conns[s].fd # NoFd => conns'[s].fd # NoFd
           /\ got' = [f \in Fd |-> IF f \in open THEN got[f] ELSE 0]
<1>1. TypeOK /\ Table /\ fsize \in 0..MaxFile /\ MAX_CONN \in Nat /\ nconns \in Nat
  BY HttpAssumption DEF Inv, TypeOK
<1>2. PICK n \in 0..MAX_CONN : \E kept \in [1..n -> Kept] :
         /\ \A x \in Kept : \E k \in 1..n : kept[k] = x
         /\ nconns' = n
         /\ conns' = [s \in Slot |-> IF s < n THEN conns[kept[s + 1]] ELSE conns[s]]
         /\ moved' = (moved \/ \E k \in 1..n : kept[k] # k - 1)
  BY <1>1, FreeConnsIs
<1>3. PICK kept \in [1..n -> Kept] :
         /\ \A x \in Kept : \E k \in 1..n : kept[k] = x
         /\ nconns' = n
         /\ conns' = [s \in Slot |-> IF s < n THEN conns[kept[s + 1]] ELSE conns[s]]
         /\ moved' = (moved \/ \E k \in 1..n : kept[k] # k - 1)
  BY <1>2
<1>4. /\ UNCHANGED <<events, fsize, listening, kq, open, nfiles>>
      /\ phase = "handle" /\ phase' = "wait" /\ events = {}
      /\ got' = [f \in Fd |-> IF f \in open THEN got[f] ELSE 0]
      /\ fate' = [f \in Fd |-> IF f \in open THEN fate[f] ELSE "cut"]
  BY DEF FreeConns, env, system
<1>5. Kept \subseteq Slot /\ \A s \in Slot : s \in Kept <=> s < nconns /\ conns[s].fd # NoFd
  BY DEF Kept, InUse
<1>6. \A s \in Slot : s \in Nat /\ (s < n => s + 1 \in 1..n /\ kept[s + 1] \in Slot)
  <2> TAKE s \in Slot
  <2>1. s \in Nat /\ n \in Nat
    BY <1>1 DEF Slot
  <2>2. ASSUME s < n PROVE s + 1 \in 1..n
    BY <2>1, <2>2
  <2> QED BY <2>1, <2>2, <1>3, <1>5
<1>7. \A s \in Slot : Sound(conns'[s]) /\ conns'[s] \in Conn
  BY <1>1, <1>3, <1>6 DEF Table, Sound
<1>8. \A s \in Slot : Sound(conns[s])'
  BY <1>4, <1>7 DEF Sound
<1>9. TypeOK'
  <2>1. conns' \in [Slot -> Conn] /\ nconns' \in 0..MAX_CONN
    BY <1>3, <1>7
  <2>2. got' \in [Fd -> Nat \cup {Garbled}] /\ fate' \in [Fd -> {"open", "done", "cut"}]
    BY <1>1, <1>4 DEF TypeOK
  <2>3. moved' \in BOOLEAN
    BY <1>1, <1>3 DEF TypeOK
  <2> QED BY <1>1, <1>4, <2>1, <2>2, <2>3 DEF TypeOK
<1>10. \A s \in Slot : (s \in Listed <=> s < nconns) /\ (s \in Listed' <=> s < n)
  BY <1>3 DEF Listed
<1>11. Table'
  <2>1. ASSUME NEW g \in open' PROVE \E s \in Listed' : conns'[s].fd = g
    <3>1. PICK t \in Listed : conns[t].fd = g
      BY <1>1, <1>4 DEF Table
    <3>2. g # NoFd
      BY <1>1, <1>4, HttpAssumption DEF TypeOK, NoFd
    <3>3. t \in Kept
      BY <3>1, <3>2, <1>5 DEF Listed
    <3>4. PICK k \in 1..n : kept[k] = t
      BY <1>3, <3>3
    <3>5. k - 1 \in Slot /\ k - 1 < n /\ k - 1 + 1 = k
      BY <1>1 DEF Slot
    <3> QED BY <3>1, <3>4, <3>5, <1>3, <1>10
  <2> QED BY <1>1, <1>4, <1>8, <2>1 DEF Table, StartsEmpty, ExitCloses
<1>12. ASSUME Serving'
       PROVE  Serve' /\ Serving /\ \A s \in Slot : conns'[s] = conns[s]
                                               /\ (s \in Listed' => s \in Listed)
  <2>1. ~moved /\ \A k \in 1..n : kept[k] = k - 1
    BY <1>3, <1>12 DEF Serving
  <2>2. Serve
    BY <1>4, <2>1 DEF Inv, Serving
  <2>3. ASSUME NEW s \in Slot PROVE s \in Kept <=> s < n
    <3>1. CASE s \in Kept
      <4>1. PICK k \in 1..n : kept[k] = s
        BY <1>3, <3>1
      <4> QED BY <2>1, <3>1, <4>1
    <3>2. CASE s < n
      <4>1. PICK k \in 1..n : k = s + 1
        BY <1>6, <3>2
      <4>2. kept[k] = s
        BY <1>6, <2>1, <4>1
      <4> QED BY <1>3, <3>2, <4>2
    <3> QED BY <3>1, <3>2
  <2>4. \A s \in Slot : conns'[s] = conns[s]
    <3> TAKE s \in Slot
    <3>1. CASE s < n
      <4>1. PICK k \in 1..n : k = s + 1
        BY <1>6, <3>1
      <4>2. kept[k] = s
        BY <1>6, <2>1, <4>1
      <4>3. kept[s + 1] = s
        BY <4>1, <4>2
      <4> QED BY <1>3, <3>1, <4>3
    <3>2. CASE ~(s < n)
      BY <1>3, <3>2
    <3> QED BY <3>1, <3>2
  <2>5. Listed \subseteq Slot /\ Listed' \subseteq Slot
        /\ \A s \in Slot : s \in Listed' <=> s \in Listed /\ conns[s].fd # NoFd
    BY <1>5, <1>10, <2>3 DEF Listed
  <2>6. Pointers'
    <3>1. \A e \in kq : e[1] # NoFd
      BY <1>1, HttpAssumption DEF TypeOK, Event, NoFd
    <3> QED BY <1>4, <2>2, <2>4, <2>5, <3>1 DEF Serve, Pointers
  <2>7. Requests'
    <3>1. \A e \in kq : e[3] \in Slot
      BY <1>1 DEF TypeOK, Event
    <3> QED BY <1>4, <2>2, <2>4, <3>1 DEF Serve, Requests, Reads
  <2>8. OneEach'
    BY <2>2, <2>4, <2>5 DEF Serve, OneEach
  <2>9. WithFile' = WithFile
    BY <2>2, <2>4, <2>5 DEF Serve, Holds, WithFile
  <2>10. Holds'
    BY <1>4, <2>2, <2>4, <2>5, <2>9 DEF Serve, Holds, Sending
  <2> QED BY <1>4, <2>1, <2>4, <2>5, <2>6, <2>7, <2>8, <2>10 DEF Serve, Serving
<1>13. \A s \in Slot : conns[s].fd # NoFd => conns'[s].fd # NoFd
  <2>1. ASSUME NEW s \in Slot, s < n PROVE conns'[s].fd # NoFd
    <3>1. kept[s + 1] \in Kept /\ conns'[s] = conns[kept[s + 1]]
      BY <1>3, <1>6, <2>1
    <3> QED BY <1>5, <3>1
  <2> QED BY <1>3, <2>1
<1> QED BY <1>4, <1>9, <1>11, <1>12, <1>13 DEF Inv

-----------------------------------------------------------------------------
(* Every step.                                                             *)

\* The invariant is inductive.
LEMMA InvStep == Inv /\ [Next]_vars => Inv'
<1> SUFFICES ASSUME Inv, [Next]_vars PROVE Inv'
  OBVIOUS
<1>1. CASE SetupListenSocket
  BY <1>1, SetupStep
<1>2. CASE CreateKqueue \/ Wait \/ Refuse \/ Grow \/ UNCHANGED vars
  BY <1>2, ApartSteps
<1>3. CASE Die
  BY <1>3, DieStep
<1>4. CASE FreeConns
  BY <1>4, FreeConnsStep
<1>5. CASE AcceptConnection
  <2>1. ASSUME NEW f \in Fd, Accept(f) \/ AcceptFails(f) PROVE Inv'
    BY <2>1, AcceptStep, AcceptFailsStep
  <2> QED BY <1>2, <1>5, <2>1 DEF AcceptConnection
<1>6. ASSUME NEW e \in Event, Handle(e) PROVE Inv'
  <2>1. CASE Stale(e) \/ ReadNothing(e) \/ WriteNothing(e)
    BY <2>1, NothingSteps
  <2>2. CASE ReadEnds(e) \/ Fails(e)
    BY <2>2, CutStep
  <2>3. CASE ReadRequest(e)
    BY <2>3, RequestStep
  <2>4. CASE ReadTooLong(e)
    BY <2>4, TooLongStep
  <2>5. CASE WritePart(e)
    BY <2>5, PartStep
  <2>6. CASE WriteBlock(e)
    BY <2>6, BlockStep
  <2>7. CASE WriteError(e) \/ WriteLast(e)
    BY <2>7, EndStep
  <2> QED BY <1>6, <2>1, <2>2, <2>3, <2>4, <2>5, <2>6, <2>7 DEF Handle
<1> QED BY <1>1, <1>2, <1>3, <1>4, <1>5, <1>6 DEF Next, Loop

\* In every behaviour of the server.
LEMMA Invariant == Spec => []Inv
<1> QED BY InitInv, InvStep, PTL DEF Spec

(***************************************************************************)
(* The table, the registrations and the counters stay in range, and every  *)
(* structure is one that the code makes, whatever free_conns moves.        *)
(***************************************************************************)
THEOREM TypeCorrect == Spec => []TypeOK
<1>1. Inv => TypeOK
  BY DEF Inv
<1> QED BY <1>1, Invariant, PTL

(***************************************************************************)
(* An open socket is in the table and an event is registered for open      *)
(* sockets only; until a structure moves, the open files are those of the  *)
(* structures that send them (accept, close_connection and free_conns).    *)
(***************************************************************************)
THEOREM OpenAreListedHolds == Spec => []OpenAreListed
<1>1. Inv => OpenAreListed
  BY DEF Inv, Table, Serving, Serve, Holds, WithFile, OpenAreListed
<1> QED BY <1>1, Invariant, PTL

(***************************************************************************)
(* A process that ends (cleanup) leaves no socket, and, if no structure    *)
(* was moved, no file open.                                                *)
(***************************************************************************)
THEOREM ExitClosesHolds == Spec => []ExitCloses
<1>1. Inv => ExitCloses
  BY DEF Inv, Table
<1> QED BY <1>1, Invariant, PTL

-----------------------------------------------------------------------------
(* The answers, while no structure was moved.                              *)

\* The last unit a structure has in send_buf, and what its client has.
End(c) == HEADER + IF c.file THEN c.off ELSE 1
Right(c) ==
    /\ c.state # "CLOSING"
    /\ c.state = "READING" => got[c.fd] = 0
    /\ Sending(c) => /\ Follows(c.buf, End(c) - Len(c.buf))
                     /\ got[c.fd] = End(c) - (Len(c.buf) - c.sent)

InStep ==
    ~moved => /\ \A f \in Fd : got[f] \in Nat
              /\ phase # "exit" => \A s \in Listed : conns[s].fd # NoFd => Right(conns[s])

\* Nothing has been received at the start.
LEMMA InitInStep == Init => InStep
BY DEF Init, InStep, Listed, Slot

\* A step that leaves the answers alone.
LEMMA SameInStep ==
    ASSUME InStep, UNCHANGED <<got, moved>>, phase' # "exit" => phase # "exit",
           \A s \in Listed' : s \in Listed /\ conns'[s] = conns[s]
    PROVE  InStep'
BY DEF InStep, Right, Sending, End

\* A step in which one client alone receives something, or one connection
\* alone changes.
LEMMA OneInStep ==
    ASSUME Inv, InStep, UNCHANGED <<nconns, phase, moved>>, NEW s \in Slot,
           Serving => s \in Listed,
           \A t \in Slot \ {s} : conns'[t] = conns[t],
           NEW f \in Fd, f = conns[s].fd,
           Serving => /\ \E v \in Nat : got' = [got EXCEPT ![f] = v]
                      /\ conns'[s].fd = NoFd \/ Right(conns[s])',
           phase = "handle"
    PROVE  InStep'
<1> SUFFICES ASSUME ~moved PROVE InStep'
  BY DEF InStep
<1>1. Serving /\ Serve /\ TypeOK /\ Listed \subseteq Slot /\ Listed' = Listed
  BY DEF Serving, Inv, Listed
<1>2. PICK v \in Nat : got' = [got EXCEPT ![f] = v]
  BY <1>1
<1>3. got' \in [Fd -> Nat \cup {Garbled}] /\ \A g \in Fd : got'[g] \in Nat
        /\ (g # f => got'[g] = got[g])
  BY <1>1, <1>2 DEF TypeOK, InStep
<1>4. ASSUME NEW t \in Listed, t # s, conns[t].fd # NoFd PROVE Right(conns[t])'
  <2>1. conns[t].fd \in Fd /\ conns[t].fd # f /\ conns'[t] = conns[t]
    BY <1>1, <1>4 DEF Serve, OneEach, TypeOK, Conn
  <2>2. Right(conns[t]) /\ got'[conns[t].fd] = got[conns[t].fd]
    BY <1>1, <1>3, <1>4, <2>1 DEF InStep, Serving
  <2> QED BY <2>1, <2>2 DEF Right, Sending, End
<1>5. \A t \in Listed : conns'[t].fd # NoFd => Right(conns[t])'
  <2> TAKE t \in Listed
  <2>1. CASE t = s
    BY <1>1, <2>1
  <2>2. CASE t # s
    BY <1>1, <1>4, <2>2
  <2> QED BY <2>1, <2>2
<1> QED BY <1>1, <1>3, <1>5 DEF InStep

\* What a structure has not sent follows what its client has.
LEMMA UnsentFollows ==
    ASSUME NEW c, Sound(c), Sending(c), Right(c), got[c.fd] \in Nat
    PROVE  Follows(Unsent(c), got[c.fd]) /\ got[c.fd] + Len(Unsent(c)) = End(c)
<1>1. /\ Unsent(c) \in Seq(Nat) /\ Len(Unsent(c)) = Len(c.buf) - c.sent
      /\ Len(Unsent(c)) \in Nat
      /\ \A k \in 1..Len(Unsent(c)) : Unsent(c)[k] = c.buf[c.sent + k]
  BY UnsentIs
<1>2. /\ c.sent \in Nat /\ Len(c.buf) \in Nat /\ c.off \in Nat /\ End(c) \in Nat
      /\ c.sent <= Len(c.buf)
  BY HttpAssumption DEF Sound, Conn, End
<1>3. /\ \A k \in 1..Len(c.buf) : c.buf[k] = End(c) - Len(c.buf) + k
      /\ got[c.fd] = End(c) - (Len(c.buf) - c.sent)
  BY DEF Right, Follows
<1>4. ASSUME NEW k \in 1..Len(Unsent(c)) PROVE Unsent(c)[k] = got[c.fd] + k
  <2>1. c.sent + k \in 1..Len(c.buf)
    BY <1>1, <1>2
  <2>2. c.buf[c.sent + k] = End(c) - Len(c.buf) + (c.sent + k)
    BY <1>3, <2>1
  <2>3. PICK a \in Nat, b \in Nat, m \in Nat : a = End(c) /\ b = Len(c.buf) /\ m = c.sent
    BY <1>2
  <2>4. Unsent(c)[k] = a - b + (m + k) /\ got[c.fd] = a - (b - m)
    BY <1>1, <1>3, <2>2, <2>3
  <2>5. k \in Nat
    BY <1>1
  <2>6. a - b + (m + k) = a - (b - m) + k
    BY ONLY a \in Nat, b \in Nat, m \in Nat, <2>5
  <2> QED BY <2>4, <2>6
<1>5. got[c.fd] + Len(Unsent(c)) = End(c)
  <2>1. PICK a \in Nat, b \in Nat, m \in Nat : a = End(c) /\ b = Len(c.buf) /\ m = c.sent
    BY <1>2
  <2>2. got[c.fd] = a - (b - m) /\ Len(Unsent(c)) = b - m
    BY <1>1, <1>3, <2>1
  <2>3. a - (b - m) + (b - m) = a
    OBVIOUS
  <2> QED BY <2>1, <2>2, <2>3
<1> QED BY <1>4, <1>5 DEF Follows

\* n units that follow what a client has make n more.
LEMMA SendIs ==
    ASSUME TypeOK, NEW s \in Slot, conns[s].fd \in Fd, NEW us \in Seq(Nat),
           NEW n \in 0..Len(us), SendTo(s, us, n), got[conns[s].fd] \in Nat,
           Follows(us, got[conns[s].fd])
    PROVE  got' = [got EXCEPT ![conns[s].fd] = got[conns[s].fd] + n]
<1> DEFINE g == got[conns[s].fd]
<1>1. /\ SubSeq(us, 1, n) \in Seq(Nat) /\ Len(SubSeq(us, 1, n)) = n
      /\ \A k \in 1..n : SubSeq(us, 1, n)[k] = us[k]
  BY FirstPart
<1>2. Follows(SubSeq(us, 1, n), g)
  <2> SUFFICES ASSUME NEW k \in 1..n PROVE SubSeq(us, 1, n)[k] = g + k
    BY <1>1 DEF Follows
  <2>1. k \in 1..Len(us)
    OBVIOUS
  <2>2. us[k] = g + k
    BY <2>1 DEF Follows
  <2> HIDE DEF g
  <2> QED BY <1>1, <2>2
<1> HIDE DEF g
<1>3. g \in Nat
  BY DEF g
<1>4. Received(g, SubSeq(us, 1, n)) = g + n
  BY <1>1, <1>2, <1>3, ReceivedInOrder
<1> QED BY <1>4 DEF SendTo, g

\* The socket of an event that is handled, while no structure was moved.
LEMMA SocketIs ==
    ASSUME Inv, InStep, NEW e \in Event, Handles(e), conns[e[3]].fd # NoFd
    PROVE  /\ conns[e[3]].fd \in Fd /\ e[3] \in Slot
           /\ Serving => /\ e[3] \in Listed /\ got[conns[e[3]].fd] \in Nat
                         /\ Right(conns[e[3]])
<1>1. e[3] \in Slot /\ conns[e[3]].fd \in Fd
  BY DEF Event, Inv, TypeOK, Conn
<1>2. Serving => e[3] \in Listed
  BY DEF Inv, Serve, Pointers, Handles
<1> QED BY <1>1, <1>2 DEF InStep, Serving

\* A connection that is cut.
LEMMA CutInStep ==
    ASSUME Inv, InStep, NEW e \in Event, ReadEnds(e) \/ Fails(e)
    PROVE  InStep'
<1>1. /\ e # Listen /\ Take(e) /\ UNCHANGED <<nconns, phase, env, got, moved>>
      /\ conns[e[3]].fd # NoFd /\ CloseConnection(e[3], "cut")
  BY DEF ReadEnds, Fails, Live
<1>2. Handles(e) /\ fsize \in 0..MaxFile /\ got \in [Fd -> Nat \cup {Garbled}]
  BY <1>1, TakenIs
<1>3. PICK s \in Slot : s = e[3]
  BY DEF Event
<1>4. PICK f \in Fd : f = conns[s].fd
  BY <1>1, <1>2, <1>3, SocketIs
<1>5. Closed.fd = NoFd /\ conns \in [Slot -> Conn]
  BY <1>2, FreshIs DEF Inv, TypeOK
<1>6. /\ \A t \in Slot \ {s} : conns'[t] = conns[t]
      /\ conns'[s].fd = NoFd
  BY <1>1, <1>3, <1>5 DEF CloseConnection
<1>7. Serving => s \in Listed /\ \E v \in Nat : got' = [got EXCEPT ![f] = v]
  <2> SUFFICES ASSUME Serving PROVE s \in Listed /\ \E v \in Nat : got' = [got EXCEPT ![f] = v]
    OBVIOUS
  <2>1. s \in Listed /\ got[f] \in Nat
    BY <1>1, <1>2, <1>3, <1>4, SocketIs
  <2>2. got' = [got EXCEPT ![f] = got[f]]
    BY <1>1, <1>2
  <2> QED BY <2>1, <2>2
<1>8. UNCHANGED <<nconns, phase, moved>> /\ phase = "handle"
  BY <1>1 DEF Take
<1> QED BY <1>4, <1>6, <1>7, <1>8, OneInStep

\* A connection that the server ends: its client has the whole answer.
LEMMA EndInStep ==
    ASSUME Inv, InStep, NEW e \in Event, WriteError(e) \/ WriteLast(e)
    PROVE  /\ InStep'
           /\ \A t \in Slot \ {e[3]} : conns'[t] = conns[t]
           /\ ~moved => /\ conns[e[3]].fd \in Fd
                        /\ got'[conns[e[3]].fd]
                             = HEADER + IF conns[e[3]].file THEN fsize ELSE 1
<1>1. PICK s \in Slot : s = e[3]
  BY DEF Event
<1> DEFINE c == conns[s]
<1>2. /\ e # Listen /\ Take(e) /\ UNCHANGED <<nconns, phase, env, moved>>
      /\ c.fd # NoFd /\ CloseConnection(s, "done") /\ SendTo(s, Unsent(c), Len(Unsent(c)))
      /\ Sending(c) /\ (c.file => AtEnd(c))
  BY <1>1 DEF WriteError, WriteLast, Usable, Live, Sending
<1>3. Handles(e) /\ fsize \in 0..MaxFile /\ got \in [Fd -> Nat \cup {Garbled}] /\ TypeOK
      /\ Sound(c)
  BY <1>1, <1>2, TakenIs
<1>4. PICK f \in Fd : f = c.fd
  BY <1>1, <1>2, <1>3, SocketIs
<1>5. Closed.fd = NoFd /\ conns \in [Slot -> Conn]
  BY <1>3, FreshIs DEF TypeOK
<1>6. /\ \A t \in Slot \ {s} : conns'[t] = conns[t]
      /\ conns'[s].fd = NoFd
  BY <1>2, <1>5 DEF CloseConnection
<1>7. Serving => s \in Listed /\ got[f] \in Nat /\ Right(c)
  BY <1>1, <1>2, <1>3, <1>4, SocketIs
<1>8. UNCHANGED <<nconns, phase, moved>> /\ phase = "handle" /\ (~moved => Serving)
  BY <1>2 DEF Take, Serving
<1>9. ASSUME Serving
      PROVE  LET v == HEADER + IF c.file THEN fsize ELSE 1
             IN  v \in Nat /\ got' = [got EXCEPT ![f] = v]
  <2>1. Unsent(c) \in Seq(Nat) /\ Len(Unsent(c)) \in 0..Len(Unsent(c))
    BY <1>3, UnsentIs
  <2>2. Follows(Unsent(c), got[c.fd]) /\ got[c.fd] + Len(Unsent(c)) = End(c)
    BY <1>2, <1>3, <1>4, <1>7, <1>9, UnsentFollows
  <2>3. got' = [got EXCEPT ![c.fd] = got[c.fd] + Len(Unsent(c))]
    <3>1. conns[s].fd \in Fd /\ got[conns[s].fd] \in Nat
      BY <1>4, <1>7, <1>9
    <3> QED BY <1>2, <1>3, <2>1, <2>2, <3>1, SendIs
  <2>4. c.file => c.off = fsize
    BY <1>2, <1>3, BlockIs
  <2>5. End(c) = HEADER + IF c.file THEN fsize ELSE 1
    BY <2>4 DEF End
  <2>6. HEADER + (IF c.file THEN fsize ELSE 1) \in Nat
    BY <1>3, HttpAssumption
  <2> QED BY <1>4, <2>2, <2>3, <2>5, <2>6
<1> HIDE DEF c
<1>10. InStep'
  <2>1. f = conns[s].fd
    BY <1>4 DEF c
  <2> QED BY <1>6, <1>7, <1>8, <1>9, <2>1, OneInStep
<1> QED BY <1>1, <1>3, <1>4, <1>6, <1>8, <1>9, <1>10 DEF c

\* A part of the answer.
LEMMA PartInStep ==
    ASSUME Inv, InStep, NEW e \in Event, WritePart(e)
    PROVE  InStep'
<1>1. PICK s \in Slot : s = e[3]
  BY DEF Event
<1> DEFINE c == conns[s]
<1>2. /\ e # Listen /\ Take(e) /\ UNCHANGED <<nconns, phase, env, moved>>
      /\ c.fd # NoFd /\ Sending(c)
  BY <1>1 DEF WritePart, Usable, Live
<1>3. Handles(e) /\ fsize \in 0..MaxFile /\ got \in [Fd -> Nat \cup {Garbled}] /\ TypeOK
      /\ Sound(c) /\ c \in Conn
  BY <1>1, <1>2, TakenIs
<1>4. PICK f \in Fd : f = c.fd
  BY <1>1, <1>2, <1>3, SocketIs
<1>5. PICK n \in 0..Len(Unsent(c)) - 1 :
          conns' = [conns EXCEPT ![s].sent = @ + n] /\ SendTo(s, Unsent(c), n)
  BY <1>1 DEF WritePart
<1>6. Unsent(c) \in Seq(Nat) /\ Len(Unsent(c)) = Len(c.buf) - c.sent /\ Len(Unsent(c)) \in Nat
      /\ c.sent \in Nat /\ Len(c.buf) \in Nat /\ n \in Nat /\ n \in 0..Len(Unsent(c))
  <2>1. /\ Unsent(c) \in Seq(Nat) /\ Len(Unsent(c)) = Len(c.buf) - c.sent
        /\ Len(Unsent(c)) \in Nat
    BY <1>3, UnsentIs
  <2>2. c.sent \in Nat /\ Len(c.buf) \in Nat
    BY <1>3 DEF Conn
  <2> HIDE DEF c
  <2> QED BY <2>1, <2>2, PartOfLeft
<1> DEFINE d == [c EXCEPT !.sent = @ + n]
<1>7. conns' = [conns EXCEPT ![s] = d] /\ conns \in [Slot -> Conn]
  BY <1>3, <1>5 DEF TypeOK
<1>8. d.fd = c.fd /\ d.file = c.file /\ d.state = c.state /\ d.sent = c.sent + n
      /\ d.buf = c.buf /\ d.off = c.off
  BY <1>3, <1>6 DEF Conn
<1> HIDE DEF d
<1>9. conns'[s] = d /\ \A t \in Slot \ {s} : conns'[t] = conns[t]
  BY <1>7
<1>10. Serving => s \in Listed /\ got[f] \in Nat /\ Right(c)
  BY <1>1, <1>2, <1>3, <1>4, SocketIs
<1>11. UNCHANGED <<nconns, phase, moved>> /\ phase = "handle"
  BY <1>2 DEF Take
<1>12. ASSUME Serving
       PROVE  (\E v \in Nat : got' = [got EXCEPT ![f] = v]) /\ Right(conns[s])'
  <2>1. Follows(Unsent(c), got[c.fd])
    BY <1>2, <1>3, <1>4, <1>10, <1>12, UnsentFollows
  <2>2. got' = [got EXCEPT ![f] = got[f] + n]
    <3>1. conns[s].fd \in Fd /\ got[conns[s].fd] \in Nat
      BY <1>4, <1>10, <1>12
    <3>2. got' = [got EXCEPT ![conns[s].fd] = got[conns[s].fd] + n]
      BY <1>3, <1>5, <1>6, <2>1, <3>1, SendIs
    <3> QED BY <1>4, <3>2
  <2>3. got'[f] = got[f] + n /\ got[f] + n \in Nat
    BY <1>3, <1>6, <1>10, <1>12, <2>2
  <2>4. End(d) = End(c) /\ End(c) \in Nat
    BY <1>3, <1>8, HttpAssumption DEF End, Conn
  <2>5. /\ c.state # "CLOSING" /\ c.state # "READING" /\ Sending(c)
        /\ Follows(c.buf, End(c) - Len(c.buf))
        /\ got[f] = End(c) - (Len(c.buf) - c.sent)
    BY <1>2, <1>4, <1>10, <1>12 DEF Right, Sending
  <2>6. got'[f] = End(c) - (Len(c.buf) - (c.sent + n))
    <3>1. PICK a \in Nat, b \in Nat, m \in Nat : a = End(c) /\ b = Len(c.buf) /\ m = c.sent
      BY <1>6, <2>4
    <3>2. got'[f] = a - (b - m) + n
      BY <2>3, <2>5, <3>1
    <3>3. a - (b - m) + n = a - (b - (m + n))
      BY <1>6
    <3> QED BY <3>1, <3>2, <3>3
  <2>7. Right(conns[s])'
    BY <1>4, <1>8, <1>9, <2>4, <2>5, <2>6 DEF Right, Sending, End
  <2> QED BY <2>2, <2>3, <2>7
<1> HIDE DEF c
<1>13. f = conns[s].fd
  BY <1>4 DEF c
<1> QED BY <1>9, <1>10, <1>11, <1>12, <1>13, OneInStep

\* What is left, and a part of the next block.
LEMMA BlockInStep ==
    ASSUME Inv, InStep, NEW e \in Event, WriteBlock(e)
    PROVE  InStep'
<1>1. PICK s \in Slot : s = e[3]
  BY DEF Event
<1> DEFINE c == conns[s]
           next == Block(c, 0).buf
<1>2. /\ e # Listen /\ Take(e) /\ UNCHANGED <<nconns, phase, env, moved>>
      /\ c.fd # NoFd /\ Sending(c) /\ c.file
  BY <1>1 DEF WriteBlock, Usable, Live
<1>3. Handles(e) /\ fsize \in 0..MaxFile /\ got \in [Fd -> Nat \cup {Garbled}] /\ TypeOK
      /\ Sound(c) /\ c \in Conn
  BY <1>1, <1>2, TakenIs
<1>4. PICK f \in Fd : f = c.fd
  BY <1>1, <1>2, <1>3, SocketIs
<1>5. PICK n \in 0..Len(next) :
          /\ conns' = [conns EXCEPT ![s] = Block(c, n)]
          /\ SendTo(s, Unsent(c) \o next, Len(Unsent(c)) + n)
  BY <1>1 DEF WriteBlock
<1>6. Unsent(c) \in Seq(Nat) /\ Len(Unsent(c)) \in Nat /\ 0 \in Nat
  BY <1>3, UnsentIs
<1>7. next \in Seq(Nat)
  BY <1>3, <1>6, BlockIs
<1>8. n \in Nat /\ n <= Len(next) /\ Len(next) \in Nat
  BY <1>7
<1> DEFINE d == Block(c, n)
<1>9. /\ d.fd = c.fd /\ d.file = c.file /\ d.state = "SENDING_FILE" /\ d.sent = n
      /\ d.off \in c.off..fsize /\ d.buf = next /\ Len(next) = d.off - c.off
      /\ Follows(next, HEADER + c.off)
  BY <1>3, <1>8, BlockIs
<1>10. conns' = [conns EXCEPT ![s] = d] /\ conns \in [Slot -> Conn]
  BY <1>3, <1>5 DEF TypeOK
<1> HIDE DEF d
<1>11. conns'[s] = d /\ \A t \in Slot \ {s} : conns'[t] = conns[t]
  BY <1>10
<1>12. Serving => s \in Listed /\ got[f] \in Nat /\ Right(c)
  BY <1>1, <1>2, <1>3, <1>4, SocketIs
<1>13. UNCHANGED <<nconns, phase, moved>> /\ phase = "handle"
  BY <1>2 DEF Take
<1>14. ASSUME Serving
       PROVE  (\E v \in Nat : got' = [got EXCEPT ![f] = v]) /\ Right(conns[s])'
  <2> DEFINE us == Unsent(c) \o next
             m == Len(Unsent(c))
  <2>1. Follows(Unsent(c), got[f]) /\ got[f] + m = HEADER + c.off
    <3>1. Follows(Unsent(c), got[c.fd]) /\ got[c.fd] + Len(Unsent(c)) = End(c)
      BY <1>2, <1>3, <1>4, <1>12, <1>14, UnsentFollows
    <3> QED BY <1>2, <1>4, <3>1 DEF End
  <2>2. HEADER \in Nat /\ c.off \in Nat /\ got[f] \in Nat /\ m \in Nat /\ d.off \in Nat
    BY <1>3, <1>6, <1>9, <1>12, <1>14, HttpAssumption DEF Conn
  <2>3. us \in Seq(Nat) /\ Len(us) = m + Len(next) /\ m + n \in 0..Len(us)
    BY <1>6, <1>7, <1>8
  <2>4. Follows(us, got[f])
    <3>1. ASSUME NEW k \in 1..Len(us) PROVE us[k] = got[f] + k
      <4>1. CASE k \in 1..m
        BY <1>6, <1>7, <2>1, <2>2, <4>1 DEF Follows
      <4>2. CASE k > m
        <5>1. PICK i \in 1..Len(next) : i = k - m
          <6>1. PICK l \in Nat, h \in Nat : l = Len(next) /\ h = m
            BY <1>8, <2>2
          <6>2. k \in 1..h + l /\ k > h
            BY <2>3, <4>2, <6>1
          <6>3. k - h \in 1..l
            BY ONLY <6>2, l \in Nat, h \in Nat
          <6> QED BY <6>1, <6>3
        <5>2. us[k] = next[i]
          BY <1>6, <1>7, <2>3, <4>2, <5>1
        <5>3. next[i] = HEADER + c.off + i
          BY <1>9 DEF Follows
        <5> QED BY <2>1, <2>2, <5>1, <5>2, <5>3
      <4> QED BY <2>2, <2>3, <4>1, <4>2
    <3> HIDE DEF us
    <3> QED BY <3>1 DEF Follows
  <2>5. got' = [got EXCEPT ![f] = got[f] + (m + n)]
    <3>1. conns[s].fd \in Fd /\ got[conns[s].fd] \in Nat /\ f = conns[s].fd
      BY <1>4, <1>12, <1>14
    <3>2. SendTo(s, us, m + n)
      BY <1>5
    <3>3. Follows(us, got[conns[s].fd])
      BY <2>4, <3>1
    <3> HIDE DEF us, m, c
    <3>4. got' = [got EXCEPT ![conns[s].fd] = got[conns[s].fd] + (m + n)]
      BY <1>3, <2>3, <3>1, <3>2, <3>3, SendIs
    <3> QED BY <3>1, <3>4
  <2>6. got'[f] = got[f] + (m + n) /\ got[f] + (m + n) \in Nat
    BY <1>3, <1>8, <2>2, <2>5
  <2>7. got'[f] = HEADER + c.off + n
    BY <1>8, <2>1, <2>2, <2>6
  <2>8. End(d) = HEADER + d.off
    BY <1>2, <1>9 DEF End
  <2>9. End(d) - Len(next) = HEADER + c.off /\ got'[f] = End(d) - (Len(next) - n)
    <3> HIDE DEF c, next, m
    <3>1. PICK h \in Nat, o \in Nat, p \in Nat : h = HEADER /\ o = c.off /\ p = d.off
      BY <2>2
    <3>2. End(d) = h + p /\ Len(next) = p - o /\ got'[f] = h + o + n
      BY <1>9, <2>7, <2>8, <3>1
    <3>3. (h + p) - (p - o) = h + o /\ (h + p) - ((p - o) - n) = h + o + n
      BY ONLY h \in Nat, o \in Nat, p \in Nat, n \in Nat, <1>8
    <3> QED BY <3>1, <3>2, <3>3
  <2>10. Right(conns[s])'
    BY <1>4, <1>9, <1>11, <2>9 DEF Right, Sending, End
  <2> QED BY <2>5, <2>6, <2>10
<1> HIDE DEF c
<1>15. f = conns[s].fd
  BY <1>4 DEF c
<1> QED BY <1>11, <1>12, <1>13, <1>14, <1>15, OneInStep

\* An answer that begins, while no structure was moved: nothing was received.
LEMMA BeginInStep ==
    ASSUME Inv, InStep, NEW e \in Event, ReadRequest(e) \/ ReadTooLong(e)
    PROVE  InStep'
<1>1. PICK s \in Slot : s = e[3]
  BY DEF Event
<1> DEFINE c == conns[s]
<1>2. /\ e # Listen /\ Take(e) /\ UNCHANGED <<nconns, phase, env, got, moved>>
      /\ c.fd # NoFd /\ ~c.full /\ e[2] = "READ"
  BY <1>1 DEF ReadRequest, ReadTooLong, Usable, Live
<1>3. Handles(e) /\ fsize \in 0..MaxFile /\ got \in [Fd -> Nat \cup {Garbled}] /\ TypeOK
      /\ Sound(c) /\ c \in Conn /\ (Serving => Serve /\ s \in Listed)
  BY <1>1, <1>2, TakenIs
<1>4. PICK f \in Fd : f = c.fd
  BY <1>1, <1>2, <1>3, SocketIs
<1>5. \E b, file \in BOOLEAN :
          conns' = [conns EXCEPT ![s] = Answer(IF b THEN [c EXCEPT !.full = TRUE] ELSE c, file)]
  <2>1. CASE ReadRequest(e)
    <3>1. PICK file \in BOOLEAN : conns' = [conns EXCEPT ![s] = Answer(c, file)]
      BY <2>1, <1>1 DEF ReadRequest, Respond
    <3> QED BY <3>1
  <2>2. CASE ReadTooLong(e)
    <3>1. conns' = [conns EXCEPT ![s] = Answer([c EXCEPT !.full = TRUE], FALSE)]
      BY <2>2, <1>1 DEF ReadTooLong, Respond
    <3> QED BY <3>1
  <2> QED BY <2>1, <2>2
<1>6. PICK b \in BOOLEAN, file \in BOOLEAN :
          conns' = [conns EXCEPT ![s] = Answer(IF b THEN [c EXCEPT !.full = TRUE] ELSE c, file)]
  BY <1>5
<1> DEFINE r == IF b THEN [c EXCEPT !.full = TRUE] ELSE c
           d == Answer(r, file)
<1>7. Sound(r) /\ r.fd = c.fd /\ (r.file <=> c.file) /\ r.off = c.off
  BY <1>3 DEF Sound, Conn
<1> HIDE DEF r
<1>8. /\ d.fd = c.fd /\ (d.file <=> (file \/ c.file)) /\ d.state = "SENDING_HEADER" /\ d.sent = 0
      /\ d.off = (IF file THEN 0 ELSE c.off)
      /\ Len(d.buf) = (IF file THEN HEADER ELSE HEADER + 1) /\ Follows(d.buf, 0)
  <2>1. /\ d.fd = r.fd /\ (d.file <=> (file \/ r.file)) /\ d.state = "SENDING_HEADER"
        /\ d.sent = 0 /\ d.off = (IF file THEN 0 ELSE r.off)
        /\ Len(d.buf) = (IF file THEN HEADER ELSE HEADER + 1) /\ Follows(d.buf, 0)
    BY <1>3, <1>7, AnswerIs
  <2> HIDE DEF d, c
  <2> QED BY <1>7, <2>1
<1>9. conns' = [conns EXCEPT ![s] = d] /\ conns \in [Slot -> Conn]
  BY <1>3, <1>6 DEF TypeOK, r
<1> HIDE DEF d
<1>10. conns'[s] = d /\ \A t \in Slot \ {s} : conns'[t] = conns[t]
  BY <1>9
<1>11. UNCHANGED <<nconns, phase, moved>> /\ phase = "handle"
  BY <1>2 DEF Take
<1>12. ASSUME Serving
       PROVE  s \in Listed /\ (\E v \in Nat : got' = [got EXCEPT ![f] = v]) /\ Right(conns[s])'
  <2>1. s \in Listed /\ c.state = "READING" /\ ~c.file
    BY <1>1, <1>2, <1>3, <1>12 DEF Take, Serve, Requests, Reads, Holds, Sending
  <2>2. got[f] = 0
    BY <1>1, <1>2, <1>3, <1>4, <1>12, <2>1, SocketIs DEF Right
  <2>3. got' = [got EXCEPT ![f] = 0]
    BY <1>2, <1>3, <2>2
  <2>4. End(d) = Len(d.buf) /\ Len(d.buf) \in Nat
    <3>1. CASE file
      BY <1>8, <3>1, HttpAssumption DEF End
    <3>2. CASE ~file
      BY <1>8, <2>1, <3>2, HttpAssumption DEF End
    <3> QED BY <3>1, <3>2
  <2>5. End(d) - Len(d.buf) = 0 /\ End(d) - (Len(d.buf) - d.sent) = 0
    BY <1>8, <2>4
  <2>6. Right(conns[s])'
    BY <1>2, <1>4, <1>8, <1>10, <2>2, <2>5 DEF Right, Sending, End
  <2> QED BY <2>1, <2>3, <2>6
<1> HIDE DEF c
<1>13. f = conns[s].fd
  BY <1>4 DEF c
<1> QED BY <1>10, <1>11, <1>12, <1>13, OneInStep

\* A connection that was accepted has received nothing.
LEMMA AcceptInStep ==
    ASSUME Inv, InStep, NEW f \in Fd, Accept(f) \/ AcceptFails(f)
    PROVE  InStep'
<1>1. TypeOK /\ fsize \in 0..MaxFile /\ nconns \in 0..MAX_CONN /\ MAX_CONN \in Nat
  BY HttpAssumption DEF Inv, TypeOK
<1>2. /\ UNCHANGED <<moved, phase>> /\ conns' = [conns EXCEPT ![nconns] = Fresh(f)]
      /\ phase = "handle" /\ nconns < MAX_CONN /\ f \notin open
  BY DEF Accept, AcceptFails, Take, HasRoom, hist
<1>3. nconns \in Slot /\ nconns \notin Listed /\ Listed \subseteq Slot
  BY <1>1, <1>2 DEF Slot, Listed
<1>4. conns'[nconns] = Fresh(f) /\ \A s \in Listed : conns'[s] = conns[s]
  BY <1>1, <1>2, <1>3 DEF TypeOK
<1>5. CASE AcceptFails(f)
  <2>1. got' = got /\ Listed' = Listed
    BY <1>5 DEF AcceptFails, hist, Listed
  <2> QED BY <1>2, <1>4, <2>1, SameInStep
<1>6. CASE Accept(f)
  <2> SUFFICES ASSUME ~moved PROVE InStep'
    BY <1>2 DEF InStep
  <2>1. got' = [got EXCEPT ![f] = 0] /\ nconns' = nconns + 1
    BY <1>6 DEF Accept
  <2>2. Listed' = Listed \cup {nconns}
    BY <1>1, <1>3, <2>1 DEF Listed, Slot
  <2>3. Serve /\ InStep /\ \A g \in Fd : got[g] \in Nat
    BY <1>2 DEF Inv, Serving, InStep
  <2>4. \A g \in Fd : got'[g] \in Nat /\ (g # f => got'[g] = got[g])
    BY <1>1, <2>1, <2>3 DEF TypeOK
  <2>5. ASSUME NEW s \in Listed, conns[s].fd # NoFd PROVE Right(conns[s])'
    <3>1. conns[s].fd \in Fd /\ conns[s].fd # f
      BY <1>1, <1>2, <2>3, <2>5 DEF Serve, Holds, TypeOK
    <3>2. Right(conns[s]) /\ got'[conns[s].fd] = got[conns[s].fd] /\ conns'[s] = conns[s]
      BY <1>2, <1>4, <2>3, <2>4, <2>5, <3>1 DEF InStep
    <3> QED BY <3>2 DEF Right, Sending, End
  <2>6. PICK q \in Slot : q = nconns
    BY <1>3
  <2>7. Right(conns[q])'
    <3>1. Fresh(f).state = "READING" /\ Fresh(f).fd = f /\ got'[f] = 0
      BY <1>1, <2>1, FreshIs DEF TypeOK
    <3> QED BY <3>1, <1>4, <2>6 DEF Right, Sending
  <2>8. \A s \in Listed' : conns'[s].fd # NoFd => Right(conns[s])'
    <3> TAKE s \in Listed'
    <3>1. CASE s = q
      BY <2>7, <3>1
    <3>2. CASE s \in Listed
      BY <1>4, <2>5, <3>2
    <3> QED BY <2>2, <2>6, <3>1, <3>2
  <2> QED BY <2>4, <2>8 DEF InStep
<1> QED BY <1>5, <1>6

\* free_conns leaves the answers alone when it moves nothing.
LEMMA FreeConnsInStep ==
    ASSUME Inv, InStep, FreeConns
    PROVE  InStep'
<1>1. /\ Serving' => Serving /\ \A s \in Slot : conns'[s] = conns[s]
                                     /\ (s \in Listed' => s \in Listed)
      /\ got' = [f \in Fd |-> IF f \in open THEN got[f] ELSE 0]
  BY FreeConnsStep
<1>2. phase' = "wait" /\ (~moved' => ~moved) /\ TypeOK
  BY DEF FreeConns, Inv
<1> SUFFICES ASSUME ~moved' PROVE InStep'
  BY DEF InStep
<1>3. Serving' /\ Serving /\ Serve
  BY <1>1, <1>2 DEF Serving, Inv
<1>4. \A f \in Fd : got'[f] \in Nat /\ (f \in open => got'[f] = got[f])
  BY <1>1, <1>2 DEF InStep
<1>5. ASSUME NEW s \in Listed', conns'[s].fd # NoFd PROVE Right(conns[s])'
  <2>1. s \in Listed /\ conns'[s] = conns[s]
    BY <1>1, <1>3 DEF Listed
  <2>2. conns[s].fd \in open /\ conns[s].fd \in Fd
    BY <1>2, <1>3, <1>5, <2>1 DEF Serve, Holds, TypeOK
  <2>3. Right(conns[s]) /\ got'[conns[s].fd] = got[conns[s].fd]
    BY <1>3, <1>4, <1>5, <2>1, <2>2 DEF InStep, Serving
  <2> QED BY <2>1, <2>3 DEF Right, Sending, End
<1> QED BY <1>4, <1>5 DEF InStep

\* Every step keeps the answers in step.
LEMMA InStepStep == Inv /\ InStep /\ [Next]_vars => InStep'
<1> SUFFICES ASSUME Inv, InStep, [Next]_vars PROVE InStep'
  OBVIOUS
<1>1. CASE SetupListenSocket
  <2>1. Listed' = Listed /\ UNCHANGED <<got, moved, conns>> /\ phase = "start"
    BY <1>1 DEF SetupListenSocket, Listed, hist
  <2> QED BY <2>1, SameInStep
<1>2. CASE CreateKqueue \/ Wait \/ Refuse \/ Grow \/ UNCHANGED vars
  <2>1. UNCHANGED <<got, moved, conns, nconns>> /\ (phase' # "exit" => phase # "exit")
    BY <1>2 DEF CreateKqueue, Wait, Refuse, Grow, Take, vars, hist
  <2>2. Listed' = Listed
    BY <2>1 DEF Listed
  <2> QED BY <2>1, <2>2, SameInStep
<1>3. CASE Die
  <2>1. UNCHANGED <<got, moved>> /\ phase' = "exit"
    BY <1>3 DEF Die, hist
  <2> QED BY <2>1 DEF InStep
<1>4. CASE FreeConns
  BY <1>4, FreeConnsInStep
<1>5. CASE AcceptConnection
  <2>1. ASSUME NEW f \in Fd, Accept(f) \/ AcceptFails(f) PROVE InStep'
    BY <2>1, AcceptInStep
  <2> QED BY <1>2, <1>5, <2>1 DEF AcceptConnection
<1>6. ASSUME NEW e \in Event, Handle(e) PROVE InStep'
  <2>1. CASE Stale(e) \/ ReadNothing(e) \/ WriteNothing(e)
    <3>1. UNCHANGED <<got, moved, conns, nconns, phase>>
      BY <2>1 DEF Stale, ReadNothing, WriteNothing, hist
    <3>2. Listed' = Listed
      BY <3>1 DEF Listed
    <3> QED BY <3>1, <3>2, SameInStep
  <2>2. CASE ReadEnds(e) \/ Fails(e)
    BY <2>2, CutInStep
  <2>3. CASE ReadRequest(e) \/ ReadTooLong(e)
    BY <2>3, BeginInStep
  <2>4. CASE WritePart(e)
    BY <2>4, PartInStep
  <2>5. CASE WriteBlock(e)
    BY <2>5, BlockInStep
  <2>6. CASE WriteError(e) \/ WriteLast(e)
    BY <2>6, EndInStep
  <2> QED BY <1>6, <2>1, <2>2, <2>3, <2>4, <2>5, <2>6 DEF Handle
<1> QED BY <1>1, <1>2, <1>3, <1>4, <1>5, <1>6 DEF Next, Loop

\* In every behaviour of the server.
LEMMA InStepAlways == Spec => []InStep
<1> QED BY Invariant, InitInStep, InStepStep, PTL DEF Spec

(***************************************************************************)
(* Until free_conns first moves a structure, a client receives the units   *)
(* of its answer in turn, whatever send takes of each block                *)
(* (handle_client_write).                                                  *)
(***************************************************************************)
THEOREM InOrderHolds == Spec => []InOrder
<1>1. InStep => InOrder
  BY DEF InStep, InOrder, Garbled
<1> QED BY <1>1, InStepAlways, PTL

\* What a step that ends a connection by itself has sent.
Whole ==
    ~moved => \A s \in Slot : LET f == conns[s].fd IN
       f # NoFd /\ conns'[s].fd = NoFd /\ fate'[f] = "done"
         => got'[f] = HEADER + IF conns[s].file THEN fsize ELSE 1

\* Every step ends a connection with its whole answer.
LEMMA WholeStep == Inv /\ InStep /\ [Next]_vars => Whole
<1> SUFFICES ASSUME Inv, InStep, [Next]_vars PROVE Whole
  OBVIOUS
<1>t. TypeOK /\ conns \in [Slot -> Conn] /\ fsize \in 0..MaxFile
  BY DEF Inv, TypeOK
<1>k. (\A s \in Slot : conns[s].fd # NoFd => conns'[s].fd # NoFd) => Whole
  BY DEF Whole
<1>1. CASE UNCHANGED conns
  BY <1>1, <1>k
<1>2. CASE FreeConns
  BY <1>2, <1>k, FreeConnsStep
<1>3. ASSUME NEW f \in Fd, Accept(f) \/ AcceptFails(f) PROVE Whole
  <2>1. conns' = [conns EXCEPT ![nconns] = Fresh(f)]
    BY <1>3 DEF Accept, AcceptFails
  <2>2. Fresh(f).fd # NoFd
    BY <1>t, FreshIs, HttpAssumption DEF NoFd
  <2> QED BY <1>k, <1>t, <2>1, <2>2
<1>4. ASSUME NEW e \in Event, ReadEnds(e) \/ Fails(e) PROVE Whole
  <2>1. PICK s \in Slot : s = e[3]
    BY DEF Event
  <2>2. conns' = [conns EXCEPT ![s] = Closed]
        /\ fate' = [fate EXCEPT ![conns[s].fd] = "cut"]
    BY <1>4, <2>1 DEF ReadEnds, Fails, CloseConnection
  <2>3. \A t \in Slot \ {s} : conns'[t] = conns[t]
    BY <1>t, <2>2
  <2>4. conns[s].fd # NoFd => fate'[conns[s].fd] = "cut"
    <3>1. conns[s].fd \in Fd \cup {NoFd} /\ fate \in [Fd -> {"open", "done", "cut"}]
      BY <1>t DEF TypeOK, Conn
    <3> QED BY <2>2, <3>1
  <2> QED BY <2>3, <2>4 DEF Whole
<1>5. ASSUME NEW e \in Event, WriteError(e) \/ WriteLast(e) PROVE Whole
  <2>1. PICK s \in Slot : s = e[3]
    BY DEF Event
  <2>2. /\ \A t \in Slot \ {s} : conns'[t] = conns[t]
        /\ ~moved => got'[conns[s].fd] = HEADER + IF conns[s].file THEN fsize ELSE 1
    BY <1>5, <2>1, EndInStep
  <2> QED BY <2>2 DEF Whole
<1>6. ASSUME NEW e \in Event, ReadRequest(e) \/ ReadTooLong(e) \/ WritePart(e) \/ WriteBlock(e)
      PROVE  Whole
  <2>1. PICK s \in Slot : s = e[3]
    BY DEF Event
  <2>2. \E d : conns' = [conns EXCEPT ![s] = d] /\ d.fd = conns[s].fd
    <3> DEFINE c == conns[s]
               b == [c EXCEPT !.full = TRUE]
    <3>0. c \in Conn /\ b \in Conn /\ b.fd = c.fd
      BY <1>t DEF Conn
    <3>a. \A x \in Conn, file \in BOOLEAN : Answer(x, file).fd = x.fd
      BY DEF Answer, Conn
    <3>1. CASE ReadRequest(e)
      <4>1. PICK file \in BOOLEAN : conns' = [conns EXCEPT ![s] = Answer(c, file)]
        BY <2>1, <3>1 DEF ReadRequest, Respond
      <4>2. Answer(c, file).fd = c.fd
        BY <3>0, <3>a
      <4> QED BY <4>1, <4>2
    <3>2. CASE ReadTooLong(e)
      <4>1. conns' = [conns EXCEPT ![s] = Answer(b, FALSE)]
        BY <2>1, <3>2 DEF ReadTooLong, Respond
      <4>2. Answer(b, FALSE).fd = c.fd
        <5> HIDE DEF b
        <5> QED BY <3>0, <3>a
      <4> QED BY <4>1, <4>2
    <3>3. CASE WritePart(e)
      <4>1. PICK n : conns' = [conns EXCEPT ![s].sent = @ + n]
        BY <2>1, <3>3 DEF WritePart
      <4>2. conns' = [conns EXCEPT ![s] = [conns[s] EXCEPT !.sent = @ + n]]
        BY <4>1
      <4>3. [conns[s] EXCEPT !.sent = @ + n].fd = conns[s].fd
        BY <1>t DEF Conn
      <4> QED BY <4>2, <4>3
    <3>4. CASE WriteBlock(e)
      <4>1. PICK n : conns' = [conns EXCEPT ![s] = Block(c, n)]
        BY <2>1, <3>4 DEF WriteBlock
      <4>2. Block(c, n).fd = c.fd
        BY <3>0 DEF Block, Conn
      <4> QED BY <4>1, <4>2
    <3> QED BY <1>6, <3>1, <3>2, <3>3, <3>4
  <2>3. PICK d : conns' = [conns EXCEPT ![s] = d] /\ d.fd = conns[s].fd
    BY <2>2
  <2>4. \A t \in Slot : conns'[t].fd = conns[t].fd
    BY <1>t, <2>3
  <2> QED BY <1>k, <2>4
<1>7. CASE SetupListenSocket \/ CreateKqueue \/ Wait \/ Refuse \/ Die \/ Grow \/ UNCHANGED vars
  BY <1>1, <1>7 DEF SetupListenSocket, CreateKqueue, Wait, Refuse, Die, Grow, vars
<1>8. ASSUME NEW e \in Event, Stale(e) \/ ReadNothing(e) \/ WriteNothing(e) PROVE Whole
  BY <1>1, <1>8 DEF Stale, ReadNothing, WriteNothing
<1> QED BY <1>2, <1>3, <1>4, <1>5, <1>6, <1>7, <1>8 DEF Next, Loop, AcceptConnection, Handle

(***************************************************************************)
(* A connection that the server ends by itself has its whole answer, until *)
(* a structure was moved: the error's text or the file to its end.         *)
(***************************************************************************)
THEOREM AnswerWholeHolds == Spec => AnswerWhole
<1>1. Spec => [][Whole]_vars
  BY Invariant, InStepAlways, WholeStep, PTL DEF Spec
<1> QED BY <1>1 DEF AnswerWhole, Whole
==============================================================================
