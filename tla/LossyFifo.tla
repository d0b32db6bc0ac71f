------------------------------ MODULE LossyFifo ------------------------------
(***************************************************************************)
(* What the character device of 27_driver promises its users: a FIFO of    *)
(* bytes with a capacity, in which a write makes room for itself by        *)
(* dropping the oldest bytes, never more of them than it needs.            *)
(*                                                                         *)
(* A write is two steps, because the driver makes room before it copies    *)
(* the user's bytes and the copy may fault: Reserve, then Commit or Abort. *)
(***************************************************************************)
EXTENDS Integers, Sequences

CONSTANTS Message,   \* what users write: non-empty sequences of bytes
          MinSize,   \* smallest capacity, and the one the device starts with
          MaxSize    \* largest capacity

VARIABLES fifo,      \* the retained bytes, oldest first
          cap,       \* the capacity
          pending    \* the bytes a write has made room for, <<>> when none

avars == <<fifo, cap, pending>>

\* The last n elements of s (all of them when s is shorter).
LastOf(s, n) == IF Len(s) <= n THEN s ELSE SubSeq(s, Len(s) - n + 1, Len(s))

AInit == fifo = <<>> /\ cap = MinSize /\ pending = <<>>

\* A write of the non-empty u: only its last cap bytes count, and exactly
\* enough of the oldest bytes go to make room for them.
Reserve(u) ==
    /\ pending = <<>>
    /\ pending' = LastOf(u, cap)
    /\ fifo' = LastOf(fifo, cap - Len(pending'))
    /\ UNCHANGED cap

Commit ==
    /\ pending # <<>>
    /\ fifo' = fifo \o pending
    /\ pending' = <<>>
    /\ UNCHANGED cap

\* The copy of the user's bytes faulted: nothing is appended.
Abort ==
    /\ pending # <<>>
    /\ pending' = <<>>
    /\ UNCHANGED <<fifo, cap>>

\* A read removes the n oldest bytes.
Take(n) ==
    /\ pending = <<>>
    /\ fifo' = SubSeq(fifo, n + 1, Len(fifo))
    /\ UNCHANGED <<cap, pending>>

\* A resize throws the bytes away first and changes the capacity second.
Clear == pending = <<>> /\ fifo' = <<>> /\ UNCHANGED <<cap, pending>>

Resize(n) == fifo = <<>> /\ pending = <<>> /\ cap' = n /\ UNCHANGED <<fifo, pending>>

ANext ==
    \/ \E u \in Message : Reserve(u)
    \/ Commit
    \/ Abort
    \/ \E n \in 1..Len(fifo) : Take(n)
    \/ Clear
    \/ \E n \in MinSize..MaxSize : Resize(n)

ASpec == AInit /\ [][ANext]_avars
==============================================================================
