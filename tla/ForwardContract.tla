--------------------------- MODULE ForwardContract ---------------------------
(***************************************************************************)
(* What ProxyBridge promises its callers, with no task, no event and no    *)
(* counter: a bounded set of calls in progress, exactly one outcome per    *)
(* call, and a gate that closes for good.                                  *)
(***************************************************************************)
EXTENDS Naturals, FiniteSets

CONSTANTS Calls,     \* the calls ever made
          Capacity,  \* how many may be in progress together
          Outcomes,  \* what a call may end with
          Open       \* the outcome of a call that has not ended

VARIABLES inside,    \* calls in progress
          ended,     \* outcome of each call
          closed     \* the proxy is shutting down

vars == <<inside, ended, closed>>

Init ==
    /\ inside = {}
    /\ ended = [c \in Calls |-> Open]
    /\ closed = FALSE

Fresh(c) == c \notin inside /\ ended[c] = Open

\* A call gets in while the gate is open and there is room.
Enter(c) ==
    /\ Fresh(c)
    /\ ~closed
    /\ Cardinality(inside) < Capacity
    /\ inside' = inside \cup {c}
    /\ UNCHANGED <<ended, closed>>

\* A call is turned away: because the gate is closed, because there is no
\* room, or because its upstream is not there.
Refuse(c) ==
    /\ Fresh(c)
    /\ \/ closed /\ ended' = [ended EXCEPT ![c] = "shutting_down"]
       \/ /\ ~closed
          /\ Cardinality(inside) = Capacity
          /\ ended' = [ended EXCEPT ![c] = "overloaded"]
       \/ ~closed /\ ended' = [ended EXCEPT ![c] = "unavailable"]
    /\ UNCHANGED <<inside, closed>>

\* A call in progress ends, once.  It is told of a shutdown only when there
\* is one, and of an overload never.
Leave(c) ==
    /\ c \in inside
    /\ \E o \in Outcomes \ {"overloaded"} :
          /\ o = "shutting_down" => closed
          /\ ended' = [ended EXCEPT ![c] = o]
    /\ inside' = inside \ {c}
    /\ UNCHANGED closed

Close ==
    /\ closed' = TRUE
    /\ UNCHANGED <<inside, ended>>

Next == Close \/ \E c \in Calls : Enter(c) \/ Refuse(c) \/ Leave(c)

Spec == Init /\ [][Next]_vars
==============================================================================
