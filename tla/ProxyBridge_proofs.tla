------------------------- MODULE ProxyBridge_proofs -------------------------
(***************************************************************************)
(* Proofs about ProxyBridge for any finite set of calls and any size of    *)
(* the queue.  The argument: the counter equals the number of calls that   *)
(* hold a slot (Counted), and where a call stands determines its outcome   *)
(* and what its two tasks may have done (Staged).  Together they make the  *)
(* type invariant inductive and every step a step of ForwardContract.      *)
(***************************************************************************)
EXTENDS ProxyBridge, FiniteSetTheorems, TLAPS

\* What the stage of a call says of its outcome and of its tasks.
Staged ==
    \A c \in Calls :
        /\ outcome[c] = Open <=> pc[c] # "done"
        /\ pc[c] = "reaping" => task[c] \in Answers
        /\ waiter[c] = "set" => shutdown
        /\ pc[c] \in {"idle", "admitted", "passed"} => waiter[c] = "absent"

Inv == TypeOK /\ SlotsMatchHolders /\ Staged

------------------------------------------------------------------------------
\* The calls that hold a slot are finitely many, so they can be counted.
LEMMA HoldersFinite == IsFiniteSet(Holders) /\ Cardinality(Holders) \in Nat
  BY BridgeAssumption, FS_Subset, FS_CardinalityType DEF BridgeAssumption, Holders

\* A step that moves no call into or out of the section keeps the holders.
LEMMA HoldersKept ==
  ASSUME \A c \in Calls : pc'[c] \in HoldsSlot <=> pc[c] \in HoldsSlot
  PROVE  Holders' = Holders
  BY DEF Holders, HoldsSlot

\* A call that takes a slot is counted once more (bridge.py:51).
LEMMA HolderAdded ==
  ASSUME NEW c \in Calls, TypeOK, NEW stage \in HoldsSlot,
         pc[c] \notin HoldsSlot, pc' = [pc EXCEPT ![c] = stage]
  PROVE  /\ Holders' = Holders \cup {c}
         /\ c \notin Holders
         /\ Cardinality(Holders') = Cardinality(Holders) + 1
<1>1. Holders' = Holders \cup {c} /\ c \notin Holders
  BY DEF TypeOK, Holders, HoldsSlot
<1>. QED  BY <1>1, HoldersFinite, FS_AddElement

\* A call that leaves is counted once less (bridge.py:84).
LEMMA HolderRemoved ==
  ASSUME NEW c \in Calls, TypeOK,
         pc[c] \in HoldsSlot, pc' = [pc EXCEPT ![c] = "done"]
  PROVE  /\ Holders' = Holders \ {c}
         /\ c \in Holders
         /\ Cardinality(Holders') = Cardinality(Holders) - 1
<1>1. Holders' = Holders \ {c} /\ c \in Holders
  BY DEF TypeOK, Holders, HoldsSlot
<1>. QED  BY <1>1, HoldersFinite, FS_RemoveElement

\* The invariant holds before the first call.
LEMMA InvInit == Init => Inv
<1>. SUFFICES ASSUME Init PROVE Inv
  OBVIOUS
<1>1. Holders = {}
  BY DEF Init, Holders, HoldsSlot
<1>2. SlotsMatchHolders
  BY <1>1, FS_EmptySet DEF Init, SlotsMatchHolders
<1>a. slots \in 0 .. QueueSize
  BY BridgeAssumption DEF BridgeAssumption, Init
<1>3. TypeOK
  BY <1>a, Zenon DEF Init, TypeOK
<1>4. Staged
  BY DEF Init, Staged
<1>. QED  BY <1>2, <1>3, <1>4 DEF Inv

------------------------------------------------------------------------------
\* Every step of the bridge, and every stutter, keeps the invariant.
LEMMA InvNext == Inv /\ [Next]_vars => Inv'
<1>. SUFFICES ASSUME Inv, [Next]_vars PROVE Inv'
  OBVIOUS
<1>. USE BridgeAssumption DEF BridgeAssumption, Inv, TypeOK, SlotsMatchHolders, HoldsSlot,
                            Open, Answers, Outcomes, Reasons, Full, cancel
<1>1. CASE StartShutdown
  <2>1. Holders' = Holders
    BY <1>1, HoldersKept DEF StartShutdown
  <2>. QED  BY <1>1, <2>1 DEF StartShutdown, Staged
<1>2. ASSUME NEW c \in Calls, RejectNew(c) PROVE Inv'
  <2>1. Holders' = Holders
    BY <1>2, HoldersKept DEF RejectNew, Called, ShutdownError, End
  <2>. QED  BY <1>2, <2>1 DEF RejectNew, Called, ShutdownError, End, Staged
<1>3. ASSUME NEW c \in Calls, RejectOverload(c) PROVE Inv'
  <2>1. Holders' = Holders
    BY <1>3, HoldersKept DEF RejectOverload, Called, End
  <2>. QED  BY <1>3, <2>1 DEF RejectOverload, Called, End, Staged
<1>4. ASSUME NEW c \in Calls, RejectUnknown(c) PROVE Inv'
  <2>1. Holders' = Holders
    BY <1>4, HoldersKept DEF RejectUnknown, Called, End
  <2>. QED  BY <1>4, <2>1 DEF RejectUnknown, Called, End, Staged
<1>5. ASSUME NEW c \in Calls, Admit(c) PROVE Inv'
  <2>1. Cardinality(Holders') = Cardinality(Holders) + 1
    BY <1>5, HolderAdded DEF Admit, Called
  <2>. QED  BY <1>5, <2>1 DEF Admit, Called, Staged
<1>6. ASSUME NEW c \in Calls, RejectAdmitted(c) PROVE Inv'
  <2>1. Cardinality(Holders') = Cardinality(Holders) - 1 /\ c \in Holders
    BY <1>6, HolderRemoved DEF RejectAdmitted, ShutdownError, End, Release
  <2>2. Cardinality(Holders) > 0
    BY <2>1, HoldersFinite, FS_EmptySet
  <2>. QED  BY <1>6, <2>1, <2>2 DEF RejectAdmitted, ShutdownError, End, Release, Staged
<1>7. ASSUME NEW c \in Calls, SendNotification(c) PROVE Inv'
  <2>1. Holders' = Holders
    BY <1>7, HoldersKept DEF SendNotification
  <2>. QED  BY <1>7, <2>1 DEF SendNotification, Staged
<1>8. ASSUME NEW c \in Calls, SendRequest(c) PROVE Inv'
  <2>1. Holders' = Holders
    BY <1>8, HoldersKept DEF SendRequest
  <2>. QED  BY <1>8, <2>1 DEF SendRequest, Staged
<1>9. ASSUME NEW c \in Calls, NotificationSent(c) PROVE Inv'
  <2>1. Cardinality(Holders') = Cardinality(Holders) - 1 /\ c \in Holders
    BY <1>9, HolderRemoved DEF NotificationSent, End, Release
  <2>2. Cardinality(Holders) > 0
    BY <2>1, HoldersFinite, FS_EmptySet
  <2>. QED  BY <1>9, <2>1, <2>2 DEF NotificationSent, End, Release, Staged
<1>10. ASSUME NEW c \in Calls, CancelTask(c) PROVE Inv'
  <2>1. Holders' = Holders
    BY <1>10, HoldersKept DEF CancelTask
  <2>. QED  BY <1>10, <2>1 DEF CancelTask, Staged
<1>11. ASSUME NEW c \in Calls, RejectInFlight(c) PROVE Inv'
  <2>1. Cardinality(Holders') = Cardinality(Holders) - 1 /\ c \in Holders
    BY <1>11, HolderRemoved DEF RejectInFlight, ShutdownError, End, Release
  <2>2. Cardinality(Holders) > 0
    BY <2>1, HoldersFinite, FS_EmptySet
  <2>. QED  BY <1>11, <2>1, <2>2 DEF RejectInFlight, ShutdownError, End, Release, Staged
<1>12. ASSUME NEW c \in Calls, Answered(c) PROVE Inv'
  <2>1. Holders' = Holders
    BY <1>12, HoldersKept DEF Answered
  <2>. QED  BY <1>12, <2>1 DEF Answered, Staged
<1>13. ASSUME NEW c \in Calls, Return(c) PROVE Inv'
  <2>1. Cardinality(Holders') = Cardinality(Holders) - 1 /\ c \in Holders
    BY <1>13, HolderRemoved DEF Return, End, Release
  <2>2. Cardinality(Holders) > 0
    BY <2>1, HoldersFinite, FS_EmptySet
  <2>. QED  BY <1>13, <2>1, <2>2 DEF Return, End, Release, Staged
<1>14. ASSUME NEW c \in Calls, Cancel(c) PROVE Inv'
  <2>1. Cardinality(Holders') = Cardinality(Holders) - 1 /\ c \in Holders
    BY <1>14, HolderRemoved DEF Cancel, End, Release
  <2>2. Cardinality(Holders) > 0
    BY <2>1, HoldersFinite, FS_EmptySet
  <2>. QED  BY <1>14, <2>1, <2>2 DEF Cancel, End, Release, Staged
<1>15. ASSUME NEW c \in Calls, TaskStarts(c) \/ TaskDone(c) PROVE Inv'
  <2>1. Holders' = Holders
    BY <1>15, HoldersKept DEF TaskStarts, TaskDone
  <2>. QED  BY <1>15, <2>1 DEF TaskStarts, TaskDone, Staged
<1>16. ASSUME NEW c \in Calls, WaiterDone(c) PROVE Inv'
  <2>1. Holders' = Holders
    BY <1>16, HoldersKept DEF WaiterDone
  <2>. QED  BY <1>16, <2>1 DEF WaiterDone, Staged
<1>17. ASSUME NEW c \in Calls, TaskCancelled(c) PROVE Inv'
  <2>1. Holders' = Holders
    BY <1>17, HoldersKept DEF TaskCancelled
  <2>. QED  BY <1>17, <2>1 DEF TaskCancelled, Staged
<1>18. ASSUME NEW c \in Calls, WaiterCancelled(c) PROVE Inv'
  <2>1. Holders' = Holders
    BY <1>18, HoldersKept DEF WaiterCancelled
  <2>. QED  BY <1>18, <2>1 DEF WaiterCancelled, Staged
<1>19. ASSUME NEW c \in Calls, Pass(c) PROVE Inv'
  <2>1. Holders' = Holders
    BY <1>19, HoldersKept DEF Pass, Checked
  <2>. QED  BY <1>19, <2>1 DEF Pass, Checked, Staged
<1>20. CASE UNCHANGED vars
  BY <1>20 DEF vars, Staged, Holders
<1>. QED
  BY <1>1, <1>2, <1>3, <1>4, <1>5, <1>6, <1>7, <1>8, <1>9, <1>10, <1>11, <1>12, <1>13,
     <1>14, <1>15, <1>16, <1>17, <1>18, <1>19, <1>20, Zenon DEF Next, Forward, Tasks

\* Inv holds in every reachable state.
LEMMA Invariance == Spec => []Inv
  BY InvInit, InvNext, PTL DEF Spec

\* The variables keep their types: in particular the queue never holds more
\* tokens than its size, nor fewer than none (bridge.py:51, 57, 84).
THEOREM TypeCorrect == Spec => []TypeOK
<1>1. Inv => TypeOK
  BY DEF Inv
<1>. QED  BY <1>1, Invariance, PTL

\* On every way out of forward() exactly the token put in is taken out.
THEOREM SlotsCounted == Spec => []SlotsMatchHolders
<1>1. Inv => SlotsMatchHolders
  BY DEF Inv
<1>. QED  BY <1>1, Invariance, PTL

------------------------------------------------------------------------------
\* After the shutdown is marked an upstream is given the messages of calls that had
\* passed both checks before, and of no other, for any number of calls and wherever
\* the signal comes (bridge.py:47, 61-69).
THEOREM ShutdownGate == Spec => NothingStartsAfterShutdown
<1>1. Inv /\ [Next]_vars => [GateHolds]_vars
  <2>. SUFFICES ASSUME Inv, Next, shutdown
                PROVE  (handed \cup Underway)' \subseteq handed \cup Underway
    BY DEF GateHolds
  <2>. USE DEF Inv, TypeOK, End, HoldsSlot, cancel
  <2>1. CASE StartShutdown
    BY <2>1 DEF StartShutdown
  <2>2. ASSUME NEW c \in Calls, Forward(c)
        PROVE  /\ handed' \subseteq handed \cup {d \in Calls : pc[d] = "passed"}
               /\ \A d \in Calls :
                     /\ pc'[d] = "passed" => pc[d] = "passed"
                     /\ task'[d] = "created" => task[d] = "created" \/ pc[d] = "passed"
    BY <2>2 DEF Forward, RejectNew, RejectOverload, RejectUnknown, Admit, RejectAdmitted,
                Pass, Checked, SendNotification, SendRequest, NotificationSent, CancelTask,
                RejectInFlight, Answered, Return, Cancel, Called, ShutdownError
  <2>3. ASSUME NEW c \in Calls, Tasks(c)
        PROVE  /\ handed' \subseteq handed \cup {d \in Calls : task[d] = "created"}
               /\ pc' = pc
               /\ \A d \in Calls : task'[d] = "created" => task[d] = "created"
    BY <2>3 DEF Tasks, TaskStarts, TaskDone, WaiterDone, TaskCancelled, WaiterCancelled, Answers
  <2>. QED  BY <2>1, <2>2, <2>3 DEF Next, Underway, StartShutdown
<1>. QED  BY <1>1, Invariance, PTL DEF Spec, NothingStartsAfterShutdown

------------------------------------------------------------------------------
\* The bridge starts as the contract does.
LEMMA ContractInit == Init => Contract!Init
  BY DEF Init, Contract!Init, Holders, HoldsSlot

\* A step that moves no call in or out and ends none is a stutter of the
\* contract.
LEMMA ContractStutter ==
  ASSUME \A c \in Calls : pc'[c] \in HoldsSlot <=> pc[c] \in HoldsSlot,
         UNCHANGED <<outcome, shutdown>>
  PROVE  UNCHANGED Contract!vars
<1>1. Holders' = Holders
  BY HoldersKept
<1>. QED  BY <1>1 DEF Contract!vars

\* A call refused at the door, for a reason that is true, is a Refuse.
LEMMA ContractRefuse ==
  ASSUME NEW c \in Calls, Inv, pc[c] = "idle", NEW o, End(c, o), UNCHANGED shutdown,
         \/ o = "shutting_down" /\ shutdown
         \/ o = "overloaded" /\ ~shutdown /\ Full
         \/ o = "unavailable" /\ ~shutdown
  PROVE  Contract!Refuse(c)
<1>1. Holders' = Holders
  BY HoldersKept DEF Inv, TypeOK, End, HoldsSlot
<1>2. Contract!Fresh(c)
  BY DEF Contract!Fresh, Inv, Staged, Holders, HoldsSlot
<1>3. slots = Cardinality(Holders)
  BY DEF Inv, SlotsMatchHolders
<1>4. outcome' = [outcome EXCEPT ![c] = o]
  BY DEF End
<1>. QED  BY <1>1, <1>2, <1>3, <1>4 DEF Full, Contract!Refuse, Contract!Cardinality, Cardinality

\* A call that ends while it holds a slot is a Leave.
LEMMA ContractLeave ==
  ASSUME NEW c \in Calls, Inv, pc[c] \in HoldsSlot, UNCHANGED shutdown,
         NEW o \in Outcomes \ {"overloaded"}, End(c, o), o = "shutting_down" => shutdown
  PROVE  Contract!Leave(c)
<1>1. Holders' = Holders \ {c} /\ c \in Holders
  BY HolderRemoved DEF Inv, End
<1>. QED  BY <1>1 DEF Contract!Leave, End

\* Every step of the bridge is a step of the contract or a stutter.
LEMMA ContractNext == Inv /\ [Next]_vars => [Contract!Next]_(Contract!vars)
<1>. SUFFICES ASSUME Inv, [Next]_vars PROVE [Contract!Next]_(Contract!vars)
  OBVIOUS
<1>. USE DEF Inv, TypeOK, HoldsSlot, Full, cancel
<1>1. CASE StartShutdown
  <2>1. Holders' = Holders
    BY <1>1, HoldersKept DEF StartShutdown
  <2>2. Contract!Close
    BY <1>1, <2>1 DEF StartShutdown, Contract!Close
  <2>. QED  BY <2>2 DEF Contract!Next
<1>2. ASSUME NEW c \in Calls, RejectNew(c) PROVE [Contract!Next]_(Contract!vars)
  <2>1. Contract!Refuse(c)
    BY <1>2, ContractRefuse DEF RejectNew, Called, ShutdownError
  <2>. QED  BY <2>1 DEF Contract!Next
<1>3. ASSUME NEW c \in Calls, RejectOverload(c) PROVE [Contract!Next]_(Contract!vars)
  <2>1. Contract!Refuse(c)
    BY <1>3, ContractRefuse DEF RejectOverload, Called
  <2>. QED  BY <2>1 DEF Contract!Next
<1>4. ASSUME NEW c \in Calls, RejectUnknown(c) PROVE [Contract!Next]_(Contract!vars)
  <2>1. Contract!Refuse(c)
    BY <1>4, ContractRefuse DEF RejectUnknown, Called
  <2>. QED  BY <2>1 DEF Contract!Next
<1>5. ASSUME NEW c \in Calls, Admit(c) PROVE [Contract!Next]_(Contract!vars)
  <2>1. Holders' = Holders \cup {c} /\ c \notin Holders
    BY <1>5, HolderAdded DEF Admit, Called
  <2>2. Contract!Fresh(c)
    BY <1>5, <2>1 DEF Admit, Called, Contract!Fresh, Staged
  <2>3. Cardinality(Holders) < QueueSize
    BY <1>5, BridgeAssumption DEF BridgeAssumption, Admit, SlotsMatchHolders
  <2>4. Contract!Enter(c)
    BY <1>5, <2>1, <2>2, <2>3 DEF Admit, Contract!Enter, Contract!Cardinality, Cardinality
  <2>. QED  BY <2>4 DEF Contract!Next
<1>6. ASSUME NEW c \in Calls, RejectAdmitted(c) PROVE [Contract!Next]_(Contract!vars)
  <2>1. Contract!Leave(c)
    BY <1>6, ContractLeave DEF RejectAdmitted, ShutdownError, Outcomes, Answers
  <2>. QED  BY <2>1 DEF Contract!Next
<1>7. ASSUME NEW c \in Calls, SendNotification(c) PROVE [Contract!Next]_(Contract!vars)
  BY <1>7, ContractStutter DEF SendNotification
<1>8. ASSUME NEW c \in Calls, SendRequest(c) PROVE [Contract!Next]_(Contract!vars)
  BY <1>8, ContractStutter DEF SendRequest
<1>9. ASSUME NEW c \in Calls, NotificationSent(c) PROVE [Contract!Next]_(Contract!vars)
  <2>1. Contract!Leave(c)
    BY <1>9, ContractLeave DEF NotificationSent, Outcomes, Answers
  <2>. QED  BY <2>1 DEF Contract!Next
<1>10. ASSUME NEW c \in Calls, CancelTask(c) PROVE [Contract!Next]_(Contract!vars)
  BY <1>10, ContractStutter DEF CancelTask
<1>11. ASSUME NEW c \in Calls, RejectInFlight(c) PROVE [Contract!Next]_(Contract!vars)
  <2>1. Contract!Leave(c)
    BY <1>11, ContractLeave DEF RejectInFlight, ShutdownError, Outcomes, Answers, Staged
  <2>. QED  BY <2>1 DEF Contract!Next
<1>12. ASSUME NEW c \in Calls, Answered(c) PROVE [Contract!Next]_(Contract!vars)
  BY <1>12, ContractStutter DEF Answered
<1>13. ASSUME NEW c \in Calls, Return(c) PROVE [Contract!Next]_(Contract!vars)
  <2>1. Contract!Leave(c)
    BY <1>13, ContractLeave DEF Return, Staged, Outcomes, Answers
  <2>. QED  BY <2>1 DEF Contract!Next
<1>14. ASSUME NEW c \in Calls, Cancel(c) PROVE [Contract!Next]_(Contract!vars)
  <2>1. Contract!Leave(c)
    BY <1>14, ContractLeave DEF Cancel, Outcomes, Answers
  <2>. QED  BY <2>1 DEF Contract!Next
<1>15. ASSUME NEW c \in Calls, TaskStarts(c) \/ TaskDone(c) PROVE [Contract!Next]_(Contract!vars)
  BY <1>15, ContractStutter DEF TaskStarts, TaskDone
<1>16. ASSUME NEW c \in Calls, WaiterDone(c) PROVE [Contract!Next]_(Contract!vars)
  BY <1>16, ContractStutter DEF WaiterDone
<1>17. ASSUME NEW c \in Calls, TaskCancelled(c) PROVE [Contract!Next]_(Contract!vars)
  BY <1>17, ContractStutter DEF TaskCancelled
<1>18. ASSUME NEW c \in Calls, WaiterCancelled(c) PROVE [Contract!Next]_(Contract!vars)
  BY <1>18, ContractStutter DEF WaiterCancelled
<1>19. ASSUME NEW c \in Calls, Pass(c) PROVE [Contract!Next]_(Contract!vars)
  BY <1>19, ContractStutter DEF Pass, Checked
<1>20. CASE UNCHANGED vars
  BY <1>20, ContractStutter DEF vars
<1>. QED
  BY <1>1, <1>2, <1>3, <1>4, <1>5, <1>6, <1>7, <1>8, <1>9, <1>10, <1>11, <1>12, <1>13,
     <1>14, <1>15, <1>16, <1>17, <1>18, <1>19, <1>20, Zenon DEF Next, Forward, Tasks

\* forward() implements the contract: at most QueueSize calls in progress, one
\* outcome for each, no refusal without its reason, nobody in after the gate
\* has closed.
THEOREM ImplementsContract == Spec => ContractSpec
  BY ContractInit, ContractNext, Invariance, PTL DEF Spec, ContractSpec, Contract!Spec
==============================================================================
