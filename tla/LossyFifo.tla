------------------------------ MODULE LossyFifo ------------------------------
(***************************************************************************)
(* What TelemetryPipeline promises of the events given to it: they wait in *)
(* a bounded first-in first-out queue, are offered to the reader in that   *)
(* order, and no event that waits is lost uncounted.  An offer may be      *)
(* repeated or come to nothing; then what was offered is given up.  Events *)
(* are numbered in the order in which they are emitted.                    *)
(***************************************************************************)
EXTENDS Naturals, Sequences

CONSTANT Room  \* how many events may wait

VARIABLES emitted,  \* events emitted so far
          waiting,  \* those that wait, oldest first
          offered,  \* those being offered, all older
          seen,     \* what the reader has been shown, repetitions included
          dropped   \* how many were counted as dropped

vars == <<emitted, waiting, offered, seen, dropped>>

Init ==
    /\ emitted = 0
    /\ waiting = <<>> /\ offered = <<>>
    /\ seen = <<>>
    /\ dropped = 0

Full == Len(waiting) = Room

Accept ==
    /\ ~Full
    /\ emitted' = emitted + 1
    /\ waiting' = Append(waiting, emitted')
    /\ UNCHANGED <<offered, seen, dropped>>

Refuse ==
    /\ Full
    /\ emitted' = emitted + 1
    /\ dropped' = dropped + 1
    /\ UNCHANGED <<waiting, offered, seen>>

\* The oldest event that waits makes room for a newer one, to come ...
Displace ==
    /\ Full
    /\ waiting' = Tail(waiting)
    /\ dropped' = dropped + 1
    /\ UNCHANGED <<emitted, offered, seen>>

\* ... or there already.
Replace ==
    /\ Full
    /\ emitted' = emitted + 1
    /\ waiting' = Append(Tail(waiting), emitted')
    /\ dropped' = dropped + 1
    /\ UNCHANGED <<offered, seen>>

From(s, k) == SubSeq(s, k + 1, Len(s))

Offer(n) ==
    /\ offered' = offered \o SubSeq(waiting, 1, n)
    /\ waiting' = From(waiting, n)
    /\ UNCHANGED <<emitted, seen, dropped>>

\* The reader is shown the first n events offered; they may be kept to be shown
\* again, or let go, with others that it will not see.
Show(n) ==
    /\ seen' = seen \o SubSeq(offered, 1, n)
    /\ \E k \in {0} \cup n .. Len(offered) : offered' = From(offered, k)
    /\ UNCHANGED <<emitted, waiting, dropped>>

\* All that is offered and the n oldest that wait are shown and let go at once.
ShowAll(n) ==
    /\ seen' = seen \o offered \o SubSeq(waiting, 1, n)
    /\ offered' = <<>>
    /\ waiting' = From(waiting, n)
    /\ UNCHANGED <<emitted, dropped>>

Abandon ==
    /\ offered' = <<>>
    /\ UNCHANGED <<emitted, waiting, seen, dropped>>

Next ==
    \/ Accept \/ Refuse \/ Displace \/ Replace \/ Abandon
    \/ \E n \in DOMAIN waiting : Offer(n)
    \/ \E n \in DOMAIN offered : Show(n)
    \/ \E n \in 0 .. Len(waiting) : ShowAll(n)

Spec == Init /\ [][Next]_vars
==============================================================================
