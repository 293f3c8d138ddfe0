----------------------------- MODULE AtomicConfig -----------------------------
(***************************************************************************)
(* What RuntimeConfigManager promises: apply() calls take effect one at a  *)
(* time, each in one step and entirely or not at all, and a call that      *)
(* reports "applied" is one whose candidate became the configuration.      *)
(***************************************************************************)
CONSTANTS Calls,       \* the apply() calls ever made
          Candidates,  \* what they may ask for
          Initial      \* the configuration at the start

VARIABLES wanted,   \* candidate of each call
          status,   \* "idle", "open", "applied" or "refused"
          visible   \* the configuration as each part of the proxy sees it

vars == <<wanted, status, visible>>

\* Routing reads one copy, the manager compares with another, and a third is
\* the settings of the transports that requests reach.
View(c) == [routing |-> c, registered |-> c.upstreams, serving |-> c.upstreams]

Init ==
    /\ wanted = [c \in Calls |-> Initial]
    /\ status = [c \in Calls |-> "idle"]
    /\ visible = View(Initial)

Ask(c) ==
    /\ status[c] = "idle"
    /\ \E k \in Candidates : wanted' = [wanted EXCEPT ![c] = k]
    /\ \E s \in {"open", "refused"} : status' = [status EXCEPT ![c] = s]
    /\ UNCHANGED visible

Apply(c) ==
    /\ status[c] = "open"
    /\ status' = [status EXCEPT ![c] = "applied"]
    /\ visible' = View(wanted[c])
    /\ UNCHANGED wanted

Refuse(c) ==
    /\ status[c] = "open"
    /\ status' = [status EXCEPT ![c] = "refused"]
    /\ UNCHANGED <<wanted, visible>>

Next == \E c \in Calls : Ask(c) \/ Apply(c) \/ Refuse(c)

Spec == Init /\ [][Next]_vars
==============================================================================
