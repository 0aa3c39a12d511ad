----------------------------- MODULE SerialLine -----------------------------
(***************************************************************************)
(* What ez_sio promises: a queue of characters to the line and one from    *)
(* it. A character on its way out is lost only when the line is closed. A  *)
(* received one first waits and is then taken into the buffer. What is     *)
(* taken is lost only beyond what the receive buffer holds, or when the    *)
(* line is closed; of what waits, only the oldest is lost, one for each    *)
(* time without traffic. Nothing changes its place in its queue.           *)
(***************************************************************************)
EXTENDS Naturals, Sequences

CONSTANTS Chars, Held   \* Held: the size of the receive buffer

VARIABLES
    outgoing,   \* accepted, and not yet on the line
    buffer,     \* taken, and not yet delivered
    waiting,    \* arrived, and not yet taken
    stale,      \* nothing has arrived or been taken for some time
    closed

vars == <<outgoing, buffer, waiting, stale, closed>>

Init ==
    /\ outgoing = <<>> /\ buffer = <<>> /\ waiting = <<>>
    /\ stale = FALSE /\ closed = FALSE

Accept ==
    /\ ~closed
    /\ \E c \in Chars : outgoing' = Append(outgoing, c)
    /\ UNCHANGED <<buffer, waiting, stale, closed>>

Emit ==
    /\ outgoing # <<>>
    /\ outgoing' = Tail(outgoing)
    /\ UNCHANGED <<buffer, waiting, stale, closed>>

\* It may come too late for the oldest one.
Arrive ==
    /\ ~closed
    /\ \E c \in Chars : waiting' = Append(waiting, c)
    /\ stale' \in {FALSE, stale}
    /\ UNCHANGED <<outgoing, buffer, closed>>

Linger ==
    /\ ~closed /\ waiting # <<>>
    /\ stale' = TRUE
    /\ UNCHANGED <<outgoing, buffer, waiting, closed>>

Take ==
    /\ ~closed /\ waiting # <<>>
    /\ buffer' = Append(buffer, Head(waiting))
    /\ waiting' = Tail(waiting)
    /\ stale' = FALSE
    /\ UNCHANGED <<outgoing, closed>>

Deliver ==
    /\ buffer # <<>>
    /\ buffer' = Tail(buffer)
    /\ UNCHANGED <<outgoing, waiting, stale, closed>>

Overflow ==
    /\ Len(buffer) > Held
    /\ buffer' = SubSeq(buffer, 1, Held)
    /\ UNCHANGED <<outgoing, waiting, stale, closed>>

Discard ==
    /\ ~closed /\ stale /\ waiting # <<>>
    /\ waiting' = Tail(waiting)
    /\ stale' = FALSE
    /\ UNCHANGED <<outgoing, buffer, closed>>

Close ==
    /\ ~closed /\ closed' = TRUE
    /\ outgoing' = <<>> /\ buffer' = <<>>
    /\ UNCHANGED <<waiting, stale>>

Reopen ==
    /\ closed /\ closed' = FALSE
    /\ waiting' = <<>> /\ stale' = FALSE
    /\ UNCHANGED <<outgoing, buffer>>

Next ==
    \/ Accept \/ Emit
    \/ Arrive \/ Linger \/ Take \/ Deliver \/ Overflow \/ Discard
    \/ Close \/ Reopen

Spec == Init /\ [][Next]_vars
=============================================================================
