----------------------------- MODULE ProxyBridge -----------------------------
(***************************************************************************)
(* ProxyBridge.forward (src/mcp_proxy/proxy/bridge.py).                    *)
(*                                                                         *)
(* A call is one invocation of forward().  The asyncio event loop runs one *)
(* coroutine at a time, so an action is the code between two awaits: it    *)
(* starts where the coroutine resumes and ends where it suspends or        *)
(* returns.  The exception is the signal handler of server.py: Python runs *)
(* it between two bytecodes, so a shutdown may arrive in the middle of     *)
(* such a step.  The code checks for that once (line 61), and the step is  *)
(* cut before and after that check: a call in "admitted" or "passed" still *)
(* has the loop to itself, and only StartShutdown can happen.              *)
(***************************************************************************)
EXTENDS Naturals, FiniteSets

CONSTANTS Calls,          \* invocations of forward()
          Notifications,  \* those whose message has no "id"
          QueueSize       \* ProxyBridge(queue_size)

ASSUME BridgeAssumption ==
    /\ IsFiniteSet(Calls)
    /\ Notifications \subseteq Calls
    /\ QueueSize \in Nat \ {0}

VARIABLES pc,        \* where each call stands in forward()
          task,      \* its request_task
          waiter,    \* its shutdown_waiter
          slots,     \* self.queue.qsize()
          shutdown,  \* self._shutdown_event
          outcome,   \* how each call ended
          handed,    \* history: calls whose message an upstream has been given
          reported   \* reason of the proxy_request_failed event it emitted

vars == <<pc, task, waiter, slots, shutdown, outcome, handed, reported>>

Open == "open"
Answers == {"response", "unavailable", "raised"}
Outcomes == Answers \cup {"none", "shutting_down", "overloaded", "cancelled"}
Reasons == {"shutdown_reject_new", "shutdown_reject_in_flight"}

\* Between put_nowait (line 51) and the get_nowait of the finally clause.
HoldsSlot == {"admitted", "passed", "sending", "waiting", "cancelling", "reaping"}
Holders == {c \in Calls : pc[c] \in HoldsSlot}

\* The event loop is free to resume another coroutine.
LoopFree == \A c \in Calls : pc[c] \notin {"admitted", "passed"}

TypeOK ==
    /\ pc \in [Calls -> HoldsSlot \cup {"idle", "done"}]
    /\ task \in [Calls -> Answers \cup {"absent", "created", "running",
                                         "cancelling", "cancelled"}]
    /\ waiter \in [Calls -> {"absent", "pending", "set", "cancelling", "cancelled"}]
    /\ slots \in 0 .. QueueSize
    /\ shutdown \in BOOLEAN
    /\ outcome \in [Calls -> Outcomes \cup {Open}]
    /\ handed \subseteq Calls
    /\ reported \in [Calls -> Reasons \cup {Open}]

Init ==
    /\ pc = [c \in Calls |-> "idle"]
    /\ task = [c \in Calls |-> "absent"]
    /\ waiter = [c \in Calls |-> "absent"]
    /\ slots = 0
    /\ shutdown = FALSE
    /\ outcome = [c \in Calls |-> Open]
    /\ handed = {}
    /\ reported = [c \in Calls |-> Open]

------------------------------------------------------------------------------
\* forward() returns or raises: o is what its caller sees.
End(c, o) ==
    /\ pc' = [pc EXCEPT ![c] = "done"]
    /\ outcome' = [outcome EXCEPT ![c] = o]

\* Mutant: the finally clause is missing.
KeepSlot == UNCHANGED slots

\* The finally clause.
Release == slots' = slots - 1

\* Mutants: off by one at the limit of the queue, either way.
FullLate == slots > QueueSize
FullEarly == slots >= QueueSize - 1

\* put_nowait raises QueueFull.
Full == slots = QueueSize

\* _shutdown_error: emit the event, then raise.
ShutdownError(c, reason) ==
    /\ End(c, "shutting_down")
    /\ reported' = [reported EXCEPT ![c] = reason]

\* start_shutdown(), from on_shutdown or from the signal handler.
StartShutdown ==
    /\ ~shutdown
    /\ shutdown' = TRUE
    /\ UNCHANGED <<pc, task, waiter, slots, outcome, handed, reported>>

Called(c) == pc[c] = "idle" /\ LoopFree

RejectNew(c) ==
    /\ Called(c)
    /\ shutdown
    /\ ShutdownError(c, "shutdown_reject_new")
    /\ UNCHANGED <<task, waiter, slots, shutdown, handed>>

RejectOverload(c) ==
    /\ Called(c)
    /\ ~shutdown /\ Full
    /\ End(c, "overloaded")
    /\ UNCHANGED <<task, waiter, slots, shutdown, handed, reported>>

\* manager.get() finds no such upstream: the slot just taken is given back.
RejectUnknown(c) ==
    /\ Called(c)
    /\ ~shutdown /\ ~Full
    /\ End(c, "unavailable")
    /\ UNCHANGED <<task, waiter, slots, shutdown, handed, reported>>

Admit(c) ==
    /\ Called(c)
    /\ ~shutdown /\ ~Full
    /\ slots' = slots + 1
    /\ pc' = [pc EXCEPT ![c] = "admitted"]
    /\ UNCHANGED <<task, waiter, shutdown, outcome, handed, reported>>

\* The second look at the event: a signal came after the first.
RejectAdmitted(c) ==
    /\ pc[c] = "admitted"
    /\ shutdown
    /\ ShutdownError(c, "shutdown_reject_in_flight")
    /\ Release
    /\ UNCHANGED <<task, waiter, shutdown, handed>>

\* Mutant: the event is not looked at again after the slot is taken.
PassUnchecked(c) == pc[c] = "admitted"

\* It is looked at once more.
Checked(c) == pc[c] = "admitted" /\ ~shutdown

\* The check of line 61 is passed: nobody looks again.
Pass(c) ==
    /\ Checked(c)
    /\ pc' = [pc EXCEPT ![c] = "passed"]
    /\ UNCHANGED <<task, waiter, slots, shutdown, outcome, handed, reported>>

SendNotification(c) ==
    /\ pc[c] = "passed"
    /\ c \in Notifications
    /\ pc' = [pc EXCEPT ![c] = "sending"]
    /\ handed' = handed \cup {c}
    /\ UNCHANGED <<task, waiter, slots, shutdown, outcome, reported>>

\* Lines 67-69: two tasks are created and forward() waits for the first.
SendRequest(c) ==
    /\ pc[c] = "passed"
    /\ c \notin Notifications
    /\ pc' = [pc EXCEPT ![c] = "waiting"]
    /\ task' = [task EXCEPT ![c] = "created"]
    /\ waiter' = [waiter EXCEPT ![c] = "pending"]
    /\ UNCHANGED <<slots, shutdown, outcome, handed, reported>>

\* upstream.send_notification() returns or raises.
NotificationSent(c) ==
    /\ pc[c] = "sending" /\ LoopFree
    /\ \E o \in {"none", "raised"} : End(c, o)
    /\ Release
    /\ UNCHANGED <<task, waiter, shutdown, handed, reported>>

\* The request task has its first turn: upstream.request() has the message, and may
\* end at once.
TaskStarts(c) ==
    /\ task[c] = "created" /\ LoopFree
    /\ \E a \in Answers \cup {"running"} : task' = [task EXCEPT ![c] = a]
    /\ handed' = handed \cup {c}
    /\ UNCHANGED <<pc, waiter, slots, shutdown, outcome, reported>>

\* upstream.request() returns a message, returns None or raises.  Nothing
\* here asks whether anybody still waits for it.
TaskDone(c) ==
    /\ task[c] = "running" /\ LoopFree
    /\ \E a \in Answers : task' = [task EXCEPT ![c] = a]
    /\ UNCHANGED <<pc, waiter, slots, shutdown, outcome, handed, reported>>

\* self._shutdown_event.wait() returns; the request task, created before, has had
\* its first turn before.
WaiterDone(c) ==
    /\ waiter[c] = "pending" /\ task[c] # "created"
    /\ shutdown
    /\ LoopFree
    /\ waiter' = [waiter EXCEPT ![c] = "set"]
    /\ UNCHANGED <<pc, task, slots, shutdown, outcome, handed, reported>>

\* request_task.cancel()
cancel(c) == task' = [task EXCEPT ![c] = "cancelling"]

\* asyncio.wait returns and the waiter is in "done".
CancelTask(c) ==
    /\ pc[c] = "waiting" /\ LoopFree
    /\ waiter[c] = "set"
    /\ task[c] = "running"
    /\ cancel(c)
    /\ pc' = [pc EXCEPT ![c] = "cancelling"]
    /\ UNCHANGED <<waiter, slots, shutdown, outcome, handed, reported>>

\* The transport's coroutine handles the CancelledError: it lets it through,
\* or fails in a cleanup of its own.
TaskCancelled(c) ==
    /\ task[c] = "cancelling" /\ LoopFree
    /\ \E a \in {"cancelled", "raised"} : task' = [task EXCEPT ![c] = a]
    /\ UNCHANGED <<pc, waiter, slots, shutdown, outcome, handed, reported>>

\* Mutant: the request task is cancelled and not awaited.
RejectAtOnce(c) ==
    /\ LoopFree
    /\ waiter[c] = "set"
    /\ pc[c] \in {"waiting", "cancelling"} /\ task[c] # "running"
    /\ ShutdownError(c, "shutdown_reject_in_flight")
    /\ Release
    /\ UNCHANGED <<task, waiter, shutdown, handed>>

\* "await request_task" on a task that has finished: only CancelledError is
\* suppressed, so an exception of the transport replaces the shutdown error;
\* a response that came in with the shutdown is dropped.
RejectInFlight(c) ==
    /\ LoopFree
    /\ waiter[c] = "set"
    /\ \/ pc[c] = "waiting" /\ task[c] \in Answers
       \/ pc[c] = "cancelling" /\ task[c] \in {"cancelled", "raised"}
    /\ \/ /\ task[c] = "raised"
          /\ End(c, "raised")
          /\ UNCHANGED reported
       \/ /\ task[c] # "raised"
          /\ ShutdownError(c, "shutdown_reject_in_flight")
    /\ Release
    /\ UNCHANGED <<task, waiter, shutdown, handed>>

\* asyncio.wait returns and only the request is done: the waiter is cancelled.
Answered(c) ==
    /\ pc[c] = "waiting" /\ LoopFree
    /\ waiter[c] = "pending"
    /\ task[c] \in Answers
    /\ pc' = [pc EXCEPT ![c] = "reaping"]
    /\ waiter' = [waiter EXCEPT ![c] = "cancelling"]
    /\ UNCHANGED <<task, slots, shutdown, outcome, handed, reported>>

WaiterCancelled(c) ==
    /\ waiter[c] = "cancelling" /\ LoopFree
    /\ waiter' = [waiter EXCEPT ![c] = "cancelled"]
    /\ UNCHANGED <<pc, task, slots, shutdown, outcome, handed, reported>>

\* Lines 79-82: the response, upstream_unavailable for None, or what the
\* transport raised.
Return(c) ==
    /\ pc[c] = "reaping" /\ LoopFree
    /\ waiter[c] = "cancelled"
    /\ End(c, task[c])
    /\ Release
    /\ UNCHANGED <<task, waiter, shutdown, handed, reported>>

\* The caller is cancelled (request timeout, client gone).  asyncio.wait
\* leaves both tasks running; the finally clause gives the slot back.  While
\* cancelling or reaping, suppress(CancelledError) swallows it: no step.
Cancel(c) ==
    /\ pc[c] \in {"sending", "waiting"}
    /\ LoopFree
    /\ End(c, "cancelled")
    /\ Release
    /\ UNCHANGED <<task, waiter, shutdown, handed, reported>>

Forward(c) ==
    \/ RejectNew(c) \/ RejectOverload(c) \/ RejectUnknown(c) \/ Admit(c)
    \/ RejectAdmitted(c) \/ Pass(c) \/ SendNotification(c) \/ SendRequest(c)
    \/ NotificationSent(c) \/ CancelTask(c) \/ RejectInFlight(c)
    \/ Answered(c) \/ Return(c) \/ Cancel(c)

Tasks(c) ==
    \/ TaskStarts(c) \/ TaskDone(c) \/ TaskCancelled(c)
    \/ WaiterDone(c) \/ WaiterCancelled(c)

Next == StartShutdown \/ \E c \in Calls : Forward(c) \/ Tasks(c)

Spec == Init /\ [][Next]_vars

\* What forward() does by itself once it is called: the loop runs it when it is
\* ready.  The module that composes the bridge with a transport says so.
Scheduled(c) ==
    \/ RejectAdmitted(c) \/ Pass(c) \/ SendNotification(c) \/ SendRequest(c)
    \/ CancelTask(c) \/ RejectInFlight(c) \/ Answered(c) \/ Return(c)

------------------------------------------------------------------------------
\* The tokens in the queue are the calls between put_nowait and get_nowait, on
\* every way out of forward(): error, rejection, cancellation (bridge.py:51-84).
SlotsMatchHolders == slots = Cardinality(Holders)

\* Calls that have passed both checks and whose message no upstream has yet.
Underway == {c \in Calls : pc[c] = "passed" \/ task[c] = "created"}

\* No call becomes one of these, and no other is handed over.
GateHolds == shutdown => (handed \cup Underway)' \subseteq handed \cup Underway

\* Once the shutdown event is set an upstream is given no message but of calls that
\* had passed both checks of the event by then, wherever between the two the signal
\* came (bridge.py:47, 61-69).
NothingStartsAfterShutdown == [][GateHolds]_vars

\* forward() is a bounded section with a gate: see ForwardContract.
Contract ==
    INSTANCE ForwardContract
        WITH Capacity <- QueueSize, inside <- Holders, ended <- outcome, closed <- shutdown

ContractSpec == Contract!Spec
==============================================================================
