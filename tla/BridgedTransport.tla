--------------------------- MODULE BridgedTransport ---------------------------
(***************************************************************************)
(* ProxyBridge over StdioTransport: the requests that forward() hands to   *)
(* one stdio transport.  The request task, whose end ProxyBridge leaves    *)
(* open, runs the transport's request(); the bridge's cancel() reaches it  *)
(* wherever it stands: at the write lock, in drain(), or waiting for its   *)
(* future.                                                                 *)
(*                                                                         *)
(* The proxy serves: the transport is in the manager's table, its process  *)
(* may exit and be replaced, and nobody calls stop() or restart().         *)
(* Notifications, which have no task, are left to the two modules.         *)
(***************************************************************************)
EXTENDS StdioTransport

CONSTANT QueueSize

\* What is composed: calls that wait for an answer, no controller, and a queue.
Composed == Notifications = {} /\ Controllers = {} /\ QueueSize \in Nat \ {0}

VARIABLES pc, task, waiter, slots, shutdown, outcome, handed, reported  \* see ProxyBridge

Bridge == INSTANCE ProxyBridge WITH Calls <- Requests

forwards == <<pc, waiter, slots, shutdown, outcome, reported>>
system == <<vars, forwards, task, handed>>

SystemInit == Init /\ Bridge!Init

------------------------------------------------------------------------------
(* Steps of the transport.  A request task begins and ends with its coroutine. *)

InRequest == {"locking", "draining", "waiting"}
NotOver == {"created", "running", "cancelling"}

\* What the task makes of the way request() ended.
Result(end, future) ==
    IF end # "returned" THEN end ELSE IF future = "none" THEN "unavailable" ELSE "response"

\* The calls whose task has its first turn in this step, and those whose task ends.
Begins(r) == task[r] = "created" /\ req'[r] # "idle"
Ends(r) == task[r] \in NotOver /\ req'[r] \notin InRequest \cup {"idle"}

TasksFollow ==
    /\ Bridge!LoopFree
    /\ task' = [r \in Requests |->
                   CASE Ends(r) -> Result(req'[r], fut'[r])
                     [] Begins(r) /\ ~Ends(r) -> "running"
                     [] OTHER -> task[r]]
    /\ handed' = handed \cup {r \in Requests : Begins(r)}
    /\ UNCHANGED forwards

TaskStarts(r) == task[r] = "created" /\ (Call(r) \/ CallWithoutProcess(r)) /\ TasksFollow

TaskGoesOn(r) == task[r] = "running" /\ Resumes(r) /\ TasksFollow

\* CancelledError comes out of the await.
TaskCancelled(r) == task[r] = "cancelling" /\ CancelCall(r) /\ TasksFollow

Boots == Control(Boot) /\ TasksFollow
Reads(k) == Reader(k) /\ TasksFollow
ProcessStep(k) == Process(k) /\ TasksFollow

------------------------------------------------------------------------------
(* Steps of the bridge *)

\* The proxy takes requests when on_startup is over.
Called(r) ==
    /\ Started
    /\ Bridge!RejectNew(r) \/ Bridge!RejectOverload(r) \/ Bridge!Admit(r)
    /\ UNCHANGED vars

Forwards(r) ==
    /\ Bridge!Scheduled(r) \/ Bridge!WaiterDone(r) \/ Bridge!WaiterCancelled(r)
    /\ UNCHANGED vars

CallerCancelled(r) == Bridge!Cancel(r) /\ UNCHANGED vars

Shutdown == Bridge!StartShutdown /\ UNCHANGED vars

------------------------------------------------------------------------------
Request(r) == Forwards(r) \/ TaskStarts(r) \/ TaskGoesOn(r) \/ TaskCancelled(r)

SystemNext ==
    \/ \E r \in Requests : Called(r) \/ Request(r) \/ CallerCancelled(r)
    \/ Shutdown
    \/ Boots
    \/ \E k \in Children : Reads(k) \/ ProcessStep(k)

\* The loop runs what is ready, and a process that reads its input answers it.
\* Nothing is assumed of a request task but that the loop runs its coroutine.
SystemFairness ==
    /\ \A r \in Requests : WF_system(Request(r))
    /\ WF_system(Boots)
    /\ \A k \in Children :
          WF_system(Reads(k)) /\ WF_system((\E r \in Requests : Answers(k, r)) /\ TasksFollow)

System == SystemInit /\ [][SystemNext]_system /\ SystemFairness

------------------------------------------------------------------------------
\* The transport is what the bridge takes an upstream for: it ends a task in one
\* of the ways forward() knows, and one that is cancelled does not return
\* (bridge.py:67-82, stdio.py:100-112).
BridgeSpec == Bridge!Spec

\* After a shutdown every request leaves forward() although its cancellation has
\* to find its way out of the transport: out of the queue at the write lock, of
\* a drain() whose process does not read, of a respawn (bridge.py:70-74,
\* stdio.py:107-112).  ProxyBridge leaves open whether a task ever ends.
DrainsThrough == \A r \in Requests : shutdown ~> pc[r] \notin Bridge!HoldsSlot

\* When forward() is left by all after a shutdown, nothing is in request() any more
\* but what an earlier cancellation of a caller left there: the transport can be
\* stopped without a live call (bridge.py:71-73, 84; stdio.py:100-112).
NoLateWork ==
    shutdown /\ Bridge!Holders = {} =>
        \A r \in Requests : req[r] \in InRequest => outcome[r] = "cancelled"

\* A slot whose request has reached a process comes back, although the process may
\* exit before it answers, unless one stops reading its input (bridge.py:67-84,
\* stdio.py:82-92).
SlotComesBack ==
    \A r \in Requests :
        pc[r] = "waiting" /\ sentTo[r] # 0 ~>
            pc[r] # "waiting" \/ \E k \in Children : full[k]
==============================================================================
