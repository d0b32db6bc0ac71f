------------------------------ MODULE LogChannel ------------------------------
(***************************************************************************)
(* What 12_error_handling/logger.c promises for each level that has a file *)
(* of its own: the messages accepted for it are dealt with once each, in   *)
(* the order they were accepted, and every one of them is.  To deal with a *)
(* message is to deliver it to a place, or to lose it: the loss of one has *)
(* no part in what becomes of the others.                                  *)
(***************************************************************************)
EXTENDS Integers, Sequences

CONSTANTS Channel, Msg,
          Place    \* where a message can be delivered to

VARIABLES sent,    \* per channel: messages accepted, in order
          dealt    \* per channel: what became of them, in order

cvars == <<sent, dealt>>

CInit == sent = [c \in Channel |-> <<>>] /\ dealt = [c \in Channel |-> <<>>]

Send(c) ==
    /\ \E m \in Msg : sent' = [sent EXCEPT ![c] = Append(@, m)]
    /\ UNCHANGED dealt

\* The next message of the channel comes to its end.
Deal(c, f) ==
    /\ Len(dealt[c]) < Len(sent[c])
    /\ dealt' = [dealt EXCEPT ![c] = Append(@, [msg |-> sent[c][Len(@) + 1], fate |-> f])]
    /\ UNCHANGED sent

Deliver(c) == \E p \in Place : Deal(c, p)
Lose(c)    == Deal(c, "lost")

CNext == \E c \in Channel : Send(c) \/ Deliver(c) \/ Lose(c)

CSpec == CInit /\ [][CNext]_cvars /\ \A c \in Channel : WF_cvars(Deliver(c) \/ Lose(c))
==============================================================================
