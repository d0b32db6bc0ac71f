-------------------------------- MODULE Figlet --------------------------------
(***************************************************************************)
(* The figlet client of telehack.com, 21_telnet/main.c: it assembles a     *)
(* text of its arguments, connects, sends an empty line, searches the      *)
(* prompt, sends the command and prints what comes up to the next prompt.  *)
(*                                                                         *)
(* The server is external.  It greets with its banner and a prompt, ends   *)
(* the line of the prompt when it gets a line, answers the command and     *)
(* prompts again; it may close the connection at any time.  What it sends  *)
(* arrives in pieces of any length, which are what read returns.  Texts    *)
(* are sequences of characters, of which only CR, LF and the dot matter.   *)
(***************************************************************************)
EXTENDS Integers, Sequences, SequencesExt

CONSTANTS Char,      \* characters
          Argv,      \* argument lists to choose from: sequences of texts
          Font,      \* lengths of the font's name to choose from
          Banner,    \* banners of the server
          Art,       \* what it answers to the command
          Addresses, \* bound: addresses of the host
          TEXT_SIZE, \* BUF_SIZE / 2, 4096 in the code: the size of text
          CMD_SIZE   \* BUF_SIZE, 8192 in the code: the size of cmd

\* The server answers a command with something.
FigletAssumption ==
    /\ TEXT_SIZE \in Nat \ {0, 1} /\ CMD_SIZE \in Nat /\ Addresses \in Nat \ {0}
    /\ {" ", ".", "CR", "LF"} \subseteq Char /\ Argv \subseteq Seq(Seq(Char)) /\ Font \subseteq Nat
    /\ Banner \subseteq Seq(Char) /\ Art \subseteq Seq(Char) \ {<<>>}

VARIABLES
    argv, font, banner, art,   \* the arguments, and what the server will say
    phase,     \* "start", "connect", "hello", "prompt", "command", "answer", "end"
    status,    \* "running", "success" or "failure"
    text,      \* the text of the command
    left,      \* addresses that were not tried yet
    stream,    \* all the server has sent, of which
    pos,       \* the first pos characters were read
    lines,     \* lines the server got and has not answered: "empty", "figlet"
    closed,    \* the server has closed
    out,       \* what was printed
    last,      \* history: the last two characters before this read of the phase
    missed     \* history: a prompt came in two pieces

server == <<stream, lines, closed>>
inputs == <<argv, font, banner, art>>
vars   == <<inputs, phase, status, text, left, server, pos, out, last, missed>>

EOL == <<"CR", "LF">>

Init ==
    /\ argv \in Argv /\ font \in Font /\ banner \in Banner /\ art \in Art
    /\ phase = "start" /\ status = "running" /\ text = <<>> /\ left = 0
    /\ stream = <<>> /\ pos = 0 /\ lines = <<>> /\ closed = FALSE
    /\ out = <<>> /\ last = <<>> /\ missed = FALSE

-----------------------------------------------------------------------------
\* Mutant: the byte for the final zero is not kept free.
WithArgNoZero(t, i) ==
    LET s == IF i > 1 THEN Append(t, " ") ELSE t
        n == IF Len(s) + Len(argv[i]) > TEXT_SIZE THEN TEXT_SIZE - Len(s) ELSE Len(argv[i])
    IN  IF Len(t) < TEXT_SIZE - 2 THEN s \o SubSeq(argv[i], 1, n) ELSE t
\* One round of the loop over the arguments: a blank, and as much of argument
\* i as leaves room for the final zero.
WithArg(t, i) ==
    LET s == IF i > 1 THEN Append(t, " ") ELSE t
        n == IF Len(s) + Len(argv[i]) >= TEXT_SIZE THEN TEXT_SIZE - Len(s) - 1
                                                   ELSE Len(argv[i])
    IN  IF Len(t) < TEXT_SIZE - 2 THEN s \o SubSeq(argv[i], 1, n) ELSE t

Text ==
    LET t[i \in 0..Len(argv)] == IF i = 0 THEN <<>> ELSE WithArg(t[i - 1], i) IN t[Len(argv)]

\* "figlet /%s %s\r\n"
CmdLen == 8 + font + 1 + Len(text) + 2

\* Where p begins in s.
Find(s, p) == {i \in 1..Len(s) - Len(p) + 1 : SubSeq(s, i, i + Len(p) - 1) = p}

Prompt == <<".">> \o EOL
NewPrompt == EOL \o <<".">>

End(s) == phase' = "end" /\ status' = s

-----------------------------------------------------------------------------
\* Options and arguments; without any the usage is printed.
Start ==
    /\ phase = "start"
    /\ IF argv = <<>>
       THEN End("failure") /\ UNCHANGED text
       ELSE phase' = "resolve" /\ text' = Text /\ UNCHANGED status
    /\ UNCHANGED <<inputs, left, server, pos, out, last, missed>>

\* getaddrinfo
Resolve ==
    /\ phase = "resolve"
    /\ \/ End("failure") /\ UNCHANGED left
       \/ phase' = "connect" /\ left' \in 1..Addresses /\ UNCHANGED status
    /\ UNCHANGED <<inputs, text, server, pos, out, last, missed>>

\* The next address; the server that is reached greets.
Connect ==
    /\ phase = "connect" /\ left > 0 /\ left' = left - 1
    /\ \/ phase' = "hello" /\ stream' = banner \o <<".">>
       \/ UNCHANGED <<phase, stream>>
    /\ UNCHANGED <<inputs, status, text, lines, closed, pos, out, last, missed>>

NoAddress ==
    /\ phase = "connect" /\ left = 0 /\ End("failure")
    /\ UNCHANGED <<inputs, text, left, server, pos, out, last, missed>>

\* Mutant: a line has no end, so that the server never gets it.
SendNothing(line, next) ==
    /\ \/ phase' = next /\ UNCHANGED <<lines, status>>
       \/ End("failure") /\ UNCHANGED lines
    /\ UNCHANGED <<stream, closed>>
\* send_all of a line; a write that fails ends the program.
Send(line, next) ==
    /\ \/ phase' = next /\ lines' = Append(lines, line) /\ UNCHANGED status
       \/ End("failure") /\ UNCHANGED lines
    /\ UNCHANGED <<stream, closed>>

SendHello ==
    /\ phase = "hello" /\ Send("empty", "prompt")
    /\ UNCHANGED <<inputs, text, left, pos, out, last, missed>>

\* read takes the next n characters; the search looks for p in them alone.
Read(n, p) ==
    /\ n \in 1..Len(stream) - pos
    /\ pos' = pos + n
    /\ LET piece == SubSeq(stream, pos + 1, pos + n) IN
       /\ last' = IF Len(piece) > 1 THEN SubSeq(piece, n - 1, n)
                  ELSE IF Len(last) > 1 THEN <<last[2]>> \o piece ELSE last \o piece
       /\ missed' = (missed \/ (Find(piece, p) = {} /\ Find(last \o piece, p) # {}))
    /\ UNCHANGED <<inputs, text, left, server>>

Piece(n) == SubSeq(stream, pos + 1, pos + n)

\* Mutant: the command is sent without waiting for the prompt.
ReadPromptAny(n) ==
    /\ phase = "prompt" /\ Read(n, Prompt) /\ phase' = "command"
    /\ UNCHANGED <<status, out>>
\* The first search, in which the rest of the piece is dropped.
ReadPrompt(n) ==
    /\ phase = "prompt" /\ Read(n, Prompt)
    /\ phase' = IF Find(Piece(n), Prompt) = {} THEN "prompt" ELSE "command"
    /\ UNCHANGED <<status, out>>

TooLong == CmdLen >= CMD_SIZE

SendCommand ==
    /\ phase = "command"
    /\ IF TooLong THEN End("failure") /\ UNCHANGED server ELSE Send("figlet", "answer")
    /\ last' = <<>>
    /\ UNCHANGED <<inputs, text, left, pos, out, missed>>

\* The second search: what precedes the prompt is printed.
ReadAnswer(n) ==
    /\ phase = "answer" /\ Read(n, NewPrompt)
    /\ LET piece == Piece(n)
           at    == Find(piece, NewPrompt)
       IN  IF at = {}
           THEN out' = out \o piece /\ UNCHANGED <<phase, status>>
           ELSE out' = out \o SubSeq(piece, 1, Min(at) - 1) \o <<"LF">> /\ End("success")

\* read returns 0: the server has closed.  In the second loop that ends the
\* answer as well as a prompt does.
ReadEnds ==
    /\ phase \in {"prompt", "answer"} /\ closed /\ pos = Len(stream)
    /\ End(IF phase = "answer" THEN "success" ELSE "failure")
    /\ UNCHANGED <<inputs, text, left, server, pos, out, last, missed>>

\* read fails.
ReadFails ==
    /\ phase \in {"prompt", "answer"} /\ End("failure")
    /\ UNCHANGED <<inputs, text, left, server, pos, out, last, missed>>

-----------------------------------------------------------------------------
\* The server ends the line of the prompt, answers and prompts again.
Reply ==
    /\ lines # <<>> /\ ~ closed
    /\ stream' = stream \o EOL \o (IF Head(lines) = "figlet" THEN art ELSE <<>>) \o <<".">>
    /\ lines' = Tail(lines)
    /\ UNCHANGED <<inputs, phase, status, text, left, closed, pos, out, last, missed>>

Close ==
    /\ phase \in {"prompt", "command", "answer"} /\ ~ closed /\ closed' = TRUE
    /\ UNCHANGED <<inputs, phase, status, text, left, stream, lines, pos, out, last, missed>>

\* What the client does by itself, and what it is told without failure.
Client ==
    \/ Start \/ Resolve \/ Connect \/ NoAddress \/ SendHello \/ SendCommand \/ ReadEnds
    \/ \E n \in 1..Len(stream) - pos : ReadPrompt(n) \/ ReadAnswer(n)

Next == Client \/ ReadFails \/ Reply \/ Close

\* The client runs until read blocks; the server answers a line, unless it has
\* closed, which it need not.
Spec == Init /\ [][Next]_vars /\ WF_vars(Client) /\ WF_vars(Reply)

-----------------------------------------------------------------------------
TypeOK ==
    /\ argv \in Argv /\ font \in Font /\ banner \in Banner /\ art \in Art
    /\ phase \in {"start", "resolve", "connect", "hello", "prompt", "command", "answer", "end"}
    /\ status \in {"running", "success", "failure"} /\ (status = "running" <=> phase # "end")
    /\ Len(text) < TEXT_SIZE /\ left \in 0..Addresses
    /\ pos \in 0..Len(stream) /\ Len(lines) \in 0..2 /\ Len(last) \in 0..2
    /\ closed \in BOOLEAN /\ missed \in BOOLEAN

\* The arguments, separated by blanks.
Joined ==
    LET t[i \in 0..Len(argv)] ==
            IF i = 0 THEN <<>>
            ELSE (IF i > 1 THEN Append(t[i - 1], " ") ELSE t[i - 1]) \o argv[i]
    IN  t[Len(argv)]

(***************************************************************************)
(* The command that is sent asks for the arguments, separated by blanks:   *)
(* for all of them when they fit, and else for their beginning, cut where  *)
(* text is full, although the loop adds a blank before it looks at the     *)
(* room and stops before text is full; and the command fits cmd whole.     *)
(***************************************************************************)
CommandRight ==
    phase = "answer" =>
        /\ IsPrefix(text, Joined) /\ CmdLen < CMD_SIZE
        /\ Len(text) >= (IF Len(Joined) < TEXT_SIZE - 1 THEN Len(Joined) ELSE TEXT_SIZE - 2)

(***************************************************************************)
(* What is printed is a part of what the server sent, without gaps, and    *)
(* with an answer that ended by a prompt it is the whole answer (and       *)
(* perhaps the dot of the prompt before it), however the server's bytes    *)
(* were cut into pieces.  Assumed are a banner and an answer without a     *)
(* line that looks like a prompt to the searches, which look for ".\r\n"   *)
(* and "\r\n." in any place.                                               *)
(***************************************************************************)
Whole == EOL \o SubSeq(art, 1, Len(art) - 2) \o <<"LF">>

AnswerPrinted ==
    /\ out # <<>> => \E i \in 0..pos : IsPrefix(Front(out), SubSeq(stream, i + 1, pos))
    /\ status = "success" /\ ~ closed
       /\ Find(banner, Prompt) = {} /\ Find(EOL \o art, NewPrompt) = {}
       => out \in {Whole, <<".">> \o Whole}
==============================================================================
