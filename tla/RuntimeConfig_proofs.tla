-------------------------- MODULE RuntimeConfig_proofs --------------------------
(***************************************************************************)
(* Proofs about RuntimeConfig for any upstreams, configurations, calls,    *)
(* restarts and faults.                                                    *)
(*                                                                         *)
(* LineInv says that one call at a time has the lock, LoopInv what its     *)
(* loops have done so far; TableInv that the three copies of the           *)
(* configuration agree, SinkInv which pipeline is in use and which is kept,*)
(* and FlushInv which one flushes.                                         *)
(* TargetInv, OverlapInv and DownInv say where restarts and the shutdown   *)
(* may be at work meanwhile.  What runs is counted in four parts: FreshInv *)
(* for the transports a call has still to start, BoundInv for how often one*)
(* can be started, LowerInv for what must run and UpperInv for what may.   *)
(***************************************************************************)
EXTENDS RuntimeConfig, QueueLemmas, FiniteSetTheorems, TLAPS

States == {"idle", "waiting"} \cup AtWork \cup Ended

\* What the proofs need of a configuration.
LEMMA Configurations ==
  /\ Boot # Absent /\ Boot \notin Calls /\ Absent \notin Calls /\ Absent \notin Makers
  /\ Makers = Calls \cup {Boot} /\ Boot \in Makers
  /\ Initial \in Candidates
  /\ \A c \in Candidates : c.upstreams = [n \in Names |-> c.upstreams[n]]
  BY ConfigAssumption DEF Boot, Absent, Makers

------------------------------------------------------------------------------
(* What a step can do to the configuration and to the line *)

\* A call that has not the lock, or does not move.
Elsewhere == UNCHANGED <<store, candidate, pc, line, loop, telemetry, backup>>

\* How a step of a call ends: it goes on, commits, or ends otherwise.
GoesOn(a) == \E w \in AtWork : pc' = [pc EXCEPT ![a] = w] /\ UNCHANGED <<store, line>>
GivesUp(a) == \E how \in {"rolled_back", "cancelled"} : Finish(a, how) /\ UNCHANGED store

\* A rollback goes on or gives up.
LEMMA Rolls ==
  ASSUME NEW a \in Calls, NEW new, NEW old, RollBack(a, new, old)
  PROVE  GoesOn(a) \/ GivesUp(a)
  BY DEF RollBack, RestorePrevious, RolledBack, LoopOver, GoesOn, GivesUp, AtWork

\* A call that comes to its transports goes on or commits.
LEMMA StartsNew ==
  ASSUME NEW a \in Calls, StartNew(a) \/ StopPrevious(a)
  PROVE  GoesOn(a) \/ Commit(a)
  BY DEF StartNew, StopPrevious, LoopOver, GoesOn, AtWork

\* Every step of a call is one of these, and leaves restarts and shutdown alone.
LEMMA Moves ==
  ASSUME NEW a \in Calls, Proceed(a)
  PROVE  /\ InProgress(a)
         /\ pc[a] = "waiting" => Head(line) = a
         /\ UNCHANGED <<candidate, restarting, closing>>
         /\ GoesOn(a) \/ Commit(a) \/ GivesUp(a)
<1>. USE DEF Works, InProgress, AtWork
<1>1. CASE Acquire(a)
  BY <1>1, StartsNew DEF Acquire, LoopOver, GoesOn
<1>2. CASE TelemetryStopped(a)
  BY <1>2 DEF TelemetryStopped, LoopOver, GoesOn
<1>3. CASE TelemetryRaises(a)
  BY <1>3 DEF TelemetryRaises, GivesUp
<1>4. CASE SinkStarted(a)
  BY <1>4, StartsNew DEF SinkStarted
<1>5. CASE SinkRaises(a)
  BY <1>5, Rolls DEF SinkRaises
<1>6. CASE StartRaises(a)
  BY <1>6, Rolls DEF StartRaises
<1>7. ASSUME NEW n \in Names, Start(a, n)
      PROVE  /\ pc[a] = "starting" /\ UNCHANGED <<candidate, restarting, closing>>
             /\ GoesOn(a) \/ Commit(a)
  BY <1>7, StartsNew DEF Start, LoopOver, GoesOn
<1>8. ASSUME NEW n \in Names, Stop(a, n)
      PROVE  /\ pc[a] = "stopping" /\ UNCHANGED <<candidate, restarting, closing>>
             /\ GoesOn(a) \/ Commit(a)
  BY <1>8 DEF Stop, LoopOver, GoesOn
<1>9. ASSUME NEW n \in Names, StopRaises(a, n)
      PROVE  /\ pc[a] = "stopping" /\ UNCHANGED <<candidate, restarting, closing>>
             /\ GoesOn(a) \/ GivesUp(a)
  BY <1>9, Rolls DEF StopRaises
<1>10. ASSUME NEW n \in Names, Undo(a, n)
      PROVE  /\ pc[a] = "undoing" /\ UNCHANGED <<candidate, restarting, closing>>
             /\ GoesOn(a) \/ GivesUp(a)
  BY <1>10, Rolls DEF Undo
<1>11. ASSUME NEW n \in Names, Restore(a, n)
      PROVE  /\ pc[a] = "restoring" /\ UNCHANGED <<candidate, restarting, closing>>
             /\ GoesOn(a) \/ GivesUp(a)
  <2>1. RestorePrevious(a, left \ {n}) => GoesOn(a) \/ GivesUp(a)
    BY DEF RestorePrevious, RolledBack, LoopOver, GoesOn, GivesUp
  <2>. QED  BY <1>11, <2>1 DEF Restore
<1>. QED  BY <1>1, <1>2, <1>3, <1>4, <1>5, <1>6, <1>7, <1>8, <1>9, <1>10, <1>11 DEF Proceed

\* Restarts and the shutdown leave the calls alone.
LEMMA Kinds ==
  ASSUME [Next]_vars
  PROVE  \/ \E a \in Calls : Apply(a) \/ Proceed(a) \/ Cancelled(a)
         \/ Elsewhere
<1>1. ASSUME NEW r \in Restarts, Restart(r) \/ ProceedRestart(r) PROVE Elsewhere
  BY <1>1 DEF Restart, ProceedRestart, RestartStops, RestartStarts, RestartFails, Elsewhere, store, loop, pipeline
<1>2. ASSUME Shutdown \/ ProceedShutdown PROVE Elsewhere
  BY <1>2 DEF Shutdown, ProceedShutdown, WatcherEnded, ShutdownEnds, ShutdownStops, ShutdownRaises, Elsewhere,
              store, loop, pipeline
<1>3. ASSUME NEW a \in Calls, Swallowed(a) PROVE Elsewhere
  BY <1>3 DEF Swallowed, Elsewhere, store, loop, pipeline
<1>4. ASSUME UNCHANGED vars PROVE Elsewhere
  BY <1>4 DEF vars, Elsewhere, store, loop, pipeline
<1>. QED  BY <1>1, <1>2, <1>3, <1>4 DEF Next

------------------------------------------------------------------------------
(* One call has the lock *)

LineInv ==
    /\ pc \in [Calls -> States] /\ line \in Seq(Calls) /\ IsInjective(line)
    /\ \A a \in Calls : a \in ToSet(line) <=> InProgress(a)
    /\ \A a \in Calls : pc[a] \in AtWork => a = Head(line)

\* Who has the lock is at work alone.
LEMMA Alone ==
  ASSUME LineInv, NEW a \in Calls, InProgress(a), pc[a] = "waiting" => Head(line) = a
  PROVE  /\ line # <<>> /\ Head(line) = a
         /\ Tail(line) \in Seq(Calls) /\ IsInjective(Tail(line))
         /\ ToSet(line) = ToSet(Tail(line)) \cup {a} /\ a \notin ToSet(Tail(line))
         /\ \A b \in Calls \ {a} : pc[b] \notin AtWork
<1>1. a \in ToSet(line) /\ Head(line) = a
  BY DEF LineInv, InProgress
<1>2. line # <<>>
  BY <1>1, EmptyQueue
<1>. QED  BY <1>1, <1>2, Dequeue DEF LineInv

\* Nobody waits at the start.
LEMMA LineInit == Init => LineInv
<1>. SUFFICES ASSUME Init PROVE LineInv
  OBVIOUS
<1>1. line = <<>> /\ line \in Seq(Calls) /\ ToSet(<<>>) = {} /\ IsInjective(<<>>)
  BY EmptyQueue, EmptySeq DEF Init
<1>2. \A a \in Calls : pc[a] = "idle"
  BY DEF Init
<1>3. pc \in [Calls -> States]
  BY DEF Init, States
<1>. QED  BY <1>1, <1>2, <1>3 DEF LineInv, InProgress, AtWork

\* Every step keeps the line.
LEMMA LineStep == LineInv /\ [Next]_vars => LineInv'
<1>. SUFFICES ASSUME LineInv, [Next]_vars PROVE LineInv'
  OBVIOUS
<1>1. ASSUME NEW a \in Calls, Apply(a) PROVE LineInv'
  <2>1. pc[a] = "idle"
    BY <1>1 DEF Apply
  <2>2. CASE \E s \in {"rejected", "raised", "dry_run"} : pc' = [pc EXCEPT ![a] = s] /\ line' = line
    BY <2>1, <2>2 DEF LineInv, InProgress, AtWork, States, Ended
  <2>3. CASE pc' = [pc EXCEPT ![a] = "waiting"] /\ line' = Append(line, a)
    <3>1. a \notin ToSet(line)
      BY <2>1 DEF LineInv, InProgress, AtWork
    <3>2. /\ line' \in Seq(Calls) /\ IsInjective(line') /\ ToSet(line') = ToSet(line) \cup {a}
          /\ line # <<>> => Head(line') = Head(line)
      BY <2>3, <3>1, Enqueue DEF LineInv
    <3>3. \A b \in Calls : pc'[b] \in AtWork => line # <<>> /\ b = Head(line) /\ b # a
      BY <2>1, <2>3, EmptyQueue DEF LineInv, InProgress, AtWork
    <3>4. pc' \in [Calls -> States]
      BY <2>3 DEF LineInv, States
    <3>5. \A b \in Calls : b \in ToSet(line') <=> InProgress(b)'
      BY <2>3, <3>2 DEF LineInv, InProgress, AtWork
    <3>. QED  BY <3>2, <3>3, <3>4, <3>5 DEF LineInv
  <2>. QED  BY <1>1, <2>2, <2>3 DEF Apply
<1>2. ASSUME NEW a \in Calls, Proceed(a) PROVE LineInv'
  <2>1. /\ InProgress(a) /\ line # <<>> /\ Head(line) = a
        /\ Tail(line) \in Seq(Calls) /\ IsInjective(Tail(line))
        /\ ToSet(line) = ToSet(Tail(line)) \cup {a} /\ a \notin ToSet(Tail(line))
        /\ \A b \in Calls \ {a} : pc[b] \notin AtWork
    BY <1>2, Moves, Alone
  <2>2. CASE GoesOn(a)
    BY <2>1, <2>2 DEF GoesOn, LineInv, InProgress, AtWork, States
  <2>3. CASE \E how \in Ended : pc' = [pc EXCEPT ![a] = how] /\ line' = Tail(line)
    <3>1. pc' \in [Calls -> States]
      BY <2>3 DEF LineInv, States
    <3>2. \A b \in Calls : b \in ToSet(line') <=> InProgress(b)'
      BY <2>1, <2>3 DEF LineInv, InProgress, AtWork, Ended
    <3>3. \A b \in Calls : pc'[b] \notin AtWork
      BY <2>1, <2>3 DEF LineInv, AtWork, Ended
    <3>. QED  BY <2>1, <2>3, <3>1, <3>2, <3>3 DEF LineInv
  <2>. QED  BY <1>2, <2>2, <2>3, Moves DEF Commit, GivesUp, Finish, Ended
<1>3. ASSUME NEW a \in Calls, Cancelled(a) PROVE LineInv'
  <2>1. PICK i \in DOMAIN line : line[i] = a /\ line' = RemoveAt(line, i)
    BY <1>3 DEF Cancelled, LeaveLine
  <2>2. /\ line' \in Seq(Calls) /\ IsInjective(line') /\ ToSet(line') = ToSet(line) \ {a}
        /\ a # Head(line) => Head(line') = Head(line)
    BY <2>1, Leave DEF LineInv
  <2>3. pc' = [pc EXCEPT ![a] = "cancelled"]
    BY <1>3 DEF Cancelled
  <2>4. pc' \in [Calls -> States]
    BY <2>3 DEF LineInv, States, Ended
  <2>5. \A b \in Calls : b \in ToSet(line') <=> InProgress(b)'
    BY <2>2, <2>3 DEF LineInv, InProgress, AtWork
  <2>6. \A b \in Calls : pc'[b] \in AtWork => b # a /\ b = Head(line)
    BY <2>3 DEF LineInv, AtWork
  <2>. QED  BY <2>2, <2>4, <2>5, <2>6 DEF LineInv
<1>4. CASE Elsewhere
  BY <1>4 DEF Elsewhere, LineInv, InProgress
<1>. QED  BY <1>1, <1>2, <1>3, <1>4, Kinds

\* Always.
LEMMA LineAlways == Spec => []LineInv
  BY LineInit, LineStep, PTL DEF Spec

------------------------------------------------------------------------------
(* The copies of the configuration *)

TableInv ==
    /\ config \in Candidates /\ candidate \in [Makers -> Candidates]
    /\ live \in [Names -> Makers \cup {Absent}]
    /\ config.upstreams = upstreams
    /\ \A n \in Names :
        /\ live[n] = Absent <=> upstreams[n] = Absent
        /\ Serving(n) = upstreams[n]
        /\ live[n] \in Calls => pc[live[n]] = "applied"

\* The transports of the start are those of the first configuration.
LEMMA TableInit == Init => TableInv
<1>. SUFFICES ASSUME Init PROVE TableInv
  OBVIOUS
<1>1. /\ config = Initial /\ upstreams = Initial.upstreams /\ candidate = [m \in Makers |-> Initial]
      /\ live = [n \in Names |-> IF upstreams[n] # Absent THEN Boot ELSE Absent]
  BY DEF Init, Configured
<1>. QED  BY <1>1, Configurations DEF TableInv, Serving

\* What Commit leaves behind.
LEMMA Committed ==
  ASSUME TableInv, NEW a \in Calls, Commit(a)
  PROVE  /\ config' = candidate[a] /\ upstreams' = candidate[a].upstreams
         /\ live' \in [Names -> Makers \cup {Absent}]
         /\ \A n \in Names :
              /\ n \in ToAdd(a) \cup ToRestart(a) => live'[n] = a /\ upstreams'[n] # Absent
              /\ n \in ToRemove(a) => live'[n] = Absent /\ upstreams'[n] = Absent
              /\ n \notin ToAdd(a) \cup ToRestart(a) \cup ToRemove(a) =>
                    live'[n] = live[n] /\ upstreams'[n] = upstreams[n]
<1>1. /\ live' = [n \in Names |-> CASE n \in ToAdd(a) \cup ToRestart(a) -> a
                                    [] n \in ToRemove(a) -> Absent
                                    [] OTHER -> live[n]]
      /\ config' = candidate[a] /\ upstreams' = candidate[a].upstreams
  BY DEF Commit, Registered, Wanted
<1>2. /\ ToAdd(a) \cap ToRemove(a) = {} /\ ToRestart(a) \cap ToRemove(a) = {}
      /\ \A n \in Names :
          /\ n \in ToAdd(a) \cup ToRestart(a) => candidate[a].upstreams[n] # Absent
          /\ n \in ToRemove(a) => candidate[a].upstreams[n] = Absent
          /\ n \notin ToAdd(a) \cup ToRestart(a) \cup ToRemove(a) => candidate[a].upstreams[n] = upstreams[n]
  BY DEF ToAdd, ToRemove, ToRestart, Wanted, Configured
<1>3. \A n \in Names :
          /\ n \in ToAdd(a) \cup ToRestart(a) => live'[n] = a
          /\ n \in ToRemove(a) => live'[n] = Absent
          /\ n \notin ToAdd(a) \cup ToRestart(a) \cup ToRemove(a) => live'[n] = live[n]
  BY <1>1, <1>2
<1>4. live' \in [Names -> Makers \cup {Absent}]
  <2>1. \A n \in Names : live'[n] \in Makers \cup {Absent}
    BY <1>3, Configurations DEF TableInv
  <2>. QED  BY <1>1, <2>1
<1>. QED  BY <1>1, <1>2, <1>3, <1>4

\* They change together.
LEMMA TableStep == LineInv /\ TableInv /\ [Next]_vars => TableInv'
<1>. SUFFICES ASSUME LineInv, TableInv, [Next]_vars PROVE TableInv'
  OBVIOUS
<1>1. ASSUME NEW a \in Calls, Apply(a) PROVE TableInv'
  <2>1. /\ pc[a] = "idle" /\ UNCHANGED <<config, upstreams, live>>
        /\ \E c \in Candidates : candidate' = [candidate EXCEPT ![a] = c]
        /\ \E s : pc' = [pc EXCEPT ![a] = s]
    BY <1>1 DEF Apply, store
  <2>2. candidate' \in [Makers -> Candidates]
    BY <2>1 DEF TableInv
  <2>3. ASSUME NEW n \in Names
        PROVE  Serving(n)' = Serving(n) /\ (live[n] \in Calls => pc'[live[n]] = "applied")
    <3>1. live[n] # a
      BY <2>1 DEF TableInv
    <3>. QED  BY <2>1, <3>1 DEF Serving, TableInv, LineInv
  <2>. QED  BY <2>1, <2>2, <2>3 DEF TableInv
<1>2. ASSUME NEW a \in Calls, Proceed(a) PROVE TableInv'
  <2>1. InProgress(a) /\ candidate' = candidate /\ (GoesOn(a) \/ Commit(a) \/ GivesUp(a))
    BY <1>2, Moves
  <2>2. ASSUME NEW n \in Names, live[n] \in Calls PROVE live[n] # a
    BY <2>1, <2>2 DEF TableInv, InProgress, AtWork
  <2>3. CASE GoesOn(a) \/ GivesUp(a)
    <3>1. UNCHANGED <<config, upstreams, live, candidate>> /\ \E s : pc' = [pc EXCEPT ![a] = s]
      BY <2>1, <2>3 DEF GoesOn, GivesUp, Finish, store
    <3>. QED  BY <2>2, <3>1 DEF TableInv, LineInv, Serving
  <2>4. CASE Commit(a)
    <3>1. pc' = [pc EXCEPT ![a] = "applied"]
      BY <2>4 DEF Commit, Finish
    <3>2. /\ config' = candidate[a] /\ upstreams' = candidate[a].upstreams /\ config' \in Candidates
      BY <2>4, Committed, Configurations DEF TableInv
    <3>3. ASSUME NEW n \in Names
          PROVE  /\ live'[n] = Absent <=> upstreams'[n] = Absent
                 /\ Serving(n)' = upstreams'[n]
                 /\ live'[n] \in Calls => pc'[live'[n]] = "applied"
      <4>1. CASE n \in ToAdd(a) \cup ToRestart(a)
        BY <2>1, <2>4, <3>1, <3>2, <4>1, Committed, Configurations DEF Serving, LineInv
      <4>2. CASE n \in ToRemove(a)
        BY <2>4, <3>1, <3>2, <4>2, Committed, Configurations DEF Serving
      <4>3. CASE n \notin ToAdd(a) \cup ToRestart(a) \cup ToRemove(a)
        BY <2>1, <2>2, <2>4, <3>1, <3>2, <4>3, Committed, Configurations DEF Serving, TableInv, LineInv
      <4>. QED  BY <4>1, <4>2, <4>3
    <3>. QED  BY <2>1, <2>4, <3>2, <3>3, Committed DEF TableInv
  <2>. QED  BY <2>1, <2>3, <2>4
<1>3. ASSUME NEW a \in Calls, Cancelled(a) PROVE TableInv'
  <2>1. /\ UNCHANGED <<config, upstreams, live, candidate>> /\ pc' = [pc EXCEPT ![a] = "cancelled"]
        /\ InProgress(a)
    BY <1>3 DEF Cancelled, store
  <2>2. ASSUME NEW n \in Names, live[n] \in Calls PROVE live[n] # a
    BY <2>1, <2>2 DEF TableInv, InProgress, AtWork
  <2>. QED  BY <2>1, <2>2 DEF TableInv, LineInv, Serving
<1>4. CASE Elsewhere
  BY <1>4 DEF Elsewhere, TableInv, Serving, store
<1>. QED  BY <1>1, <1>2, <1>3, <1>4, Kinds

\* Always.
LEMMA TableAlways == Spec => []TableInv
  BY TableInit, TableStep, LineAlways, PTL DEF Spec

------------------------------------------------------------------------------
(* RuntimeConfig implements AtomicConfig *)

Seen == [routing |-> config, registered |-> upstreams, serving |-> [n \in Names |-> Serving(n)]]

\* The three copies make one configuration.
LEMMA OneView == TableInv => Seen = [routing |-> config, registered |-> config.upstreams, serving |-> config.upstreams]
<1>. SUFFICES ASSUME TableInv
              PROVE  upstreams = config.upstreams /\ [n \in Names |-> Serving(n)] = config.upstreams
  BY DEF Seen
<1>1. config.upstreams = [n \in Names |-> config.upstreams[n]]
  BY Configurations DEF TableInv
<1>2. \A n \in Names : Serving(n) = config.upstreams[n]
  BY DEF TableInv
<1>. QED  BY <1>1, <1>2 DEF TableInv

\* What a place says of a call.
Reported(s) ==
    IF s = "idle" THEN "idle" ELSE IF s = "applied" THEN "applied"
    ELSE IF s \in AtWork \cup {"waiting"} THEN "open" ELSE "refused"

Reports == \A a \in Calls : Status(a) = Reported(pc[a])

\* The place a call stands at says how it is answered.
LEMMA StatusReported == Reports
<1>. SUFFICES ASSUME NEW a \in Calls PROVE Status(a) = Reported(pc[a])
  BY DEF Reports
<1>1. CASE pc[a] = "idle"
  BY <1>1 DEF Status, Reported, InProgress, AtWork
<1>2. CASE pc[a] = "applied"
  BY <1>2 DEF Status, Reported, InProgress, AtWork
<1>3. CASE pc[a] \in AtWork \cup {"waiting"}
  BY <1>3 DEF Status, Reported, InProgress, AtWork
<1>4. CASE pc[a] \notin AtWork \cup {"waiting", "idle", "applied"}
  BY <1>4 DEF Status, Reported, InProgress, AtWork
<1>. QED  BY <1>1, <1>2, <1>3, <1>4

\* The initial states are the same.
LEMMA AtomicInit == Init => Atomic!Init
<1>. SUFFICES ASSUME Init PROVE Atomic!Init
  OBVIOUS
<1>1. Seen = [routing |-> Initial, registered |-> Initial.upstreams, serving |-> Initial.upstreams]
  BY TableInit, OneView DEF Init
<1>2. [a \in Calls |-> candidate[a]] = [a \in Calls |-> Initial]
  BY DEF Init, Makers
<1>3. [a \in Calls |-> Status(a)] = [a \in Calls |-> "idle"]
  BY StatusReported DEF Reports, Init, Reported
<1>. QED  BY <1>1, <1>2, <1>3 DEF Atomic!Init, Atomic!View, Seen

\* Every step is one of AtomicConfig, or changes nothing that it shows.
LEMMA AtomicStep == LineInv /\ TableInv /\ TableInv' /\ [Next]_vars => [Atomic!Next]_(Atomic!vars)
<1>. SUFFICES ASSUME LineInv, TableInv, TableInv', [Next]_vars PROVE Atomic!Next \/ UNCHANGED Atomic!vars
  OBVIOUS
<1>. DEFINE want == [a \in Calls |-> candidate[a]]
            stat == [a \in Calls |-> Status(a)]
<1>0. /\ pc \in [Calls -> States]
      /\ \A a \in Calls : InProgress(a) => stat[a] = "open"
      /\ \A a \in Calls : pc[a] = "idle" => stat[a] = "idle"
  BY StatusReported DEF Reports, LineInv, Reported, InProgress, AtWork
<1>a. ASSUME NEW a \in Calls, NEW s \in States, pc' = [pc EXCEPT ![a] = s]
      PROVE  stat' = [stat EXCEPT ![a] = Reported(s)]
  <2>1. Reports'
    BY StatusReported, PTL
  <2>2. \A b \in Calls : pc'[b] = IF b = a THEN s ELSE pc[b]
    BY <1>0, <1>a
  <2>3. \A b \in Calls : Status(b) = Reported(pc[b]) /\ Status(b)' = Reported(pc'[b])
    BY <2>1, StatusReported DEF Reports
  <2>. QED  BY <2>2, <2>3
<1>b. TableInv' => (Seen = [routing |-> config, registered |-> config.upstreams, serving |-> config.upstreams])'
  BY OneView, PTL
<1>1. ASSUME NEW a \in Calls, Apply(a) PROVE Atomic!Next
  <2>1. PICK c \in Candidates : candidate' = [candidate EXCEPT ![a] = c]
    BY <1>1 DEF Apply
  <2>2. PICK s \in {"rejected", "raised", "dry_run", "waiting"} : pc' = [pc EXCEPT ![a] = s]
    BY <1>1 DEF Apply
  <2>3. want' = [want EXCEPT ![a] = c]
    BY <2>1, Configurations DEF TableInv
  <2>4. \E t \in {"open", "refused"} : stat' = [stat EXCEPT ![a] = t]
    <3>1. CASE s = "waiting"
      BY <1>a, <2>2, <3>1 DEF States, AtWork, Reported
    <3>2. CASE s # "waiting"
      BY <1>a, <2>2, <3>2 DEF States, AtWork, Ended, Reported
    <3>. QED  BY <3>1, <3>2
  <2>5. Seen' = Seen
    <3>1. config' = config
      BY <1>1 DEF Apply, store
    <3>. QED  BY <1>b, <3>1, OneView
  <2>6. stat[a] = "idle"
    BY <1>0, <1>1 DEF Apply
  <2>7. Atomic!Ask(a)
    BY <2>3, <2>4, <2>5, <2>6 DEF Atomic!Ask, Seen
  <2>. QED  BY <2>7 DEF Atomic!Next
<1>2. ASSUME NEW a \in Calls, InProgress(a), GivesUp(a) \/ Cancelled(a), candidate' = candidate
      PROVE  Atomic!Next
  <2>1. PICK s \in {"rolled_back", "cancelled"} : pc' = [pc EXCEPT ![a] = s]
    BY <1>2 DEF GivesUp, Finish, Cancelled
  <2>2. stat' = [stat EXCEPT ![a] = "refused"]
    BY <1>a, <2>1 DEF States, AtWork, Ended, Reported
  <2>3. config' = config
    BY <1>2 DEF GivesUp, Cancelled, store
  <2>4. Seen' = Seen /\ want' = want
    BY <1>b, <1>2, <2>3, OneView
  <2>5. Atomic!Refuse(a)
    BY <1>0, <1>2, <2>2, <2>4 DEF Atomic!Refuse, Seen
  <2>. QED  BY <2>5 DEF Atomic!Next
<1>3. ASSUME NEW a \in Calls, Proceed(a) PROVE Atomic!Next \/ UNCHANGED Atomic!vars
  <2>1. InProgress(a) /\ candidate' = candidate /\ (GoesOn(a) \/ Commit(a) \/ GivesUp(a))
    BY <1>3, Moves
  <2>2. CASE GoesOn(a)
    <3>1. PICK w \in AtWork : pc' = [pc EXCEPT ![a] = w] /\ UNCHANGED config
      BY <2>2 DEF GoesOn, store
    <3>2. stat' = [stat EXCEPT ![a] = "open"]
      BY <1>a, <3>1 DEF States, AtWork, Reported
    <3>3. stat' = stat
      BY <1>0, <2>1, <3>2
    <3>4. Seen' = Seen /\ want' = want
      BY <1>b, <2>1, <3>1, OneView
    <3>. QED  BY <3>3, <3>4 DEF Atomic!vars, Seen
  <2>3. CASE Commit(a)
    <3>1. config' = candidate[a] /\ pc' = [pc EXCEPT ![a] = "applied"]
      BY <2>3 DEF Commit, Registered, Finish
    <3>2. stat' = [stat EXCEPT ![a] = "applied"]
      BY <1>a, <3>1 DEF States, AtWork, Ended, Reported
    <3>3. Seen' = [routing |-> want[a], registered |-> want[a].upstreams, serving |-> want[a].upstreams]
      BY <1>b, <3>1
    <3>4. Atomic!Apply(a)
      BY <1>0, <2>1, <3>2, <3>3 DEF Atomic!Apply, Atomic!View, Seen
    <3>. QED  BY <3>4 DEF Atomic!Next
  <2>. QED  BY <1>2, <2>1, <2>2, <2>3
<1>4. ASSUME NEW a \in Calls, Cancelled(a) PROVE InProgress(a) /\ candidate' = candidate
  BY <1>4 DEF Cancelled
<1>5. CASE Elsewhere
  BY <1>5 DEF Elsewhere, Atomic!vars, Status, Serving, InProgress, store
<1>. QED  BY <1>1, <1>2, <1>3, <1>4, <1>5, Kinds

\* Routing, the manager and the transports it hands out change their
\* configuration together and only when the caller is told so, through rollbacks
\* and cancellations (runtime.py:91-110, manager.py:66-71, 84-86).
THEOREM AppliesAtomically == Spec => AtomicSpec
<1>1. LineInv /\ TableInv /\ [Next]_vars => [Atomic!Next]_(Atomic!vars)
  BY AtomicStep, TableStep
<1>. QED  BY <1>1, AtomicInit, LineAlways, TableAlways, PTL DEF Spec, AtomicSpec, Atomic!Spec

------------------------------------------------------------------------------
(* The pipeline in use *)

\* What is put back has the settings of the configuration; what is in use has
\* them, or those of the candidate once it is started.
SinkInv ==
    /\ {telemetry, backup} \subseteq Makers
    /\ \A m \in {telemetry, backup} \cap Calls : pc[m] # "idle"
    /\ "cancel" \notin mishaps =>
        /\ (\A a \in Calls : pc[a] \notin AtWork) => candidate[telemetry].telemetry = config.telemetry
        /\ \A a \in Calls :
            /\ pc[a] \in AtWork => candidate[backup].telemetry = config.telemetry
            /\ pc[a] \in {"telemetry", "sink"} => telemetry = backup
            /\ pc[a] \in {"starting", "stopping"} => candidate[telemetry].telemetry = candidate[a].telemetry

\* The step of the only call at work leaves nothing at work or itself.
LEMMA SinkEnds ==
  ASSUME LineInv, SinkInv, NEW a \in Calls, \A b \in Calls \ {a} : pc[b] \notin AtWork,
         NEW how \in Ended, pc' = [pc EXCEPT ![a] = how],
         {telemetry', backup'} \subseteq Makers,
         \A m \in {telemetry', backup'} \cap Calls : m = a \/ pc[m] # "idle",
         "cancel" \notin mishaps' => candidate'[telemetry'].telemetry = config'.telemetry
  PROVE  SinkInv'
<1>1. \A b \in Calls : pc'[b] \notin AtWork
  BY DEF LineInv, AtWork, Ended
<1>2. \A m \in {telemetry', backup'} \cap Calls : pc'[m] # "idle"
  BY DEF LineInv, Ended
<1>. QED  BY <1>1, <1>2 DEF SinkInv, AtWork

\* A call that goes on keeps the pipeline in order.
LEMMA SinkGoesOn ==
  ASSUME LineInv, SinkInv, NEW a \in Calls, \A b \in Calls \ {a} : pc[b] \notin AtWork,
         NEW w \in AtWork, pc' = [pc EXCEPT ![a] = w],
         {telemetry', backup'} \subseteq Makers,
         \A m \in {telemetry', backup'} \cap Calls : m = a \/ pc[m] # "idle",
         "cancel" \notin mishaps' =>
            /\ candidate'[backup'].telemetry = config'.telemetry
            /\ w \in {"telemetry", "sink"} => telemetry' = backup'
            /\ w \in {"starting", "stopping"} => candidate'[telemetry'].telemetry = candidate'[a].telemetry
  PROVE  SinkInv'
<1>1. pc'[a] = w /\ \A b \in Calls \ {a} : pc'[b] \notin AtWork
  BY DEF LineInv
<1>2. \A m \in {telemetry', backup'} \cap Calls : pc'[m] # "idle"
  BY DEF LineInv, AtWork
<1>. QED  BY <1>1, <1>2 DEF SinkInv, AtWork

\* A rollback puts the pipeline back when it is over.
LEMMA SinkRolls ==
  ASSUME LineInv, SinkInv, NEW a \in Calls, pc[a] \in AtWork, NEW new, NEW old,
         RollBack(a, new, old), UNCHANGED <<candidate, backup>>, mishaps \subseteq mishaps'
  PROVE  SinkInv'
<1>1. \A b \in Calls \ {a} : pc[b] \notin AtWork
  BY Alone DEF InProgress, AtWork
<1>2. "cancel" \notin mishaps' => candidate[backup].telemetry = config.telemetry
  BY DEF SinkInv
<1>3. CASE (\E w \in {"undoing", "restoring"} : LoopOver(a, w, left')) /\ UNCHANGED telemetry
  <2>1. PICK w \in {"undoing", "restoring"} : pc' = [pc EXCEPT ![a] = w] /\ UNCHANGED <<telemetry, config>>
    BY <1>3 DEF LoopOver, store
  <2>2. w \in AtWork
    BY DEF AtWork
  <2>3. {telemetry', backup'} \subseteq Makers /\ \A m \in {telemetry', backup'} \cap Calls : pc[m] # "idle"
    BY <2>1 DEF SinkInv
  <2>. QED  BY <1>1, <1>2, <2>1, <2>2, <2>3, SinkGoesOn
<1>4. CASE RolledBack(a)
  <2>1. pc' = [pc EXCEPT ![a] = "rolled_back"] /\ telemetry' = backup /\ config' = config
    BY <1>4 DEF RolledBack, Finish, PutBack, store
  <2>2. {telemetry', backup'} \subseteq Makers /\ \A m \in {telemetry', backup'} \cap Calls : pc[m] # "idle"
    BY <2>1 DEF SinkInv
  <2>. QED  BY <1>1, <1>2, <2>1, <2>2, SinkEnds DEF Ended
<1>. QED  BY <1>3, <1>4 DEF RollBack, RestorePrevious, LoopOver

\* The new pipeline is in use when a call begins to start transports.
LEMMA SinkStarts ==
  ASSUME LineInv, SinkInv, NEW a \in Calls, InProgress(a),
         \A b \in Calls \ {a} : pc[b] \notin AtWork,
         StartNew(a) \/ StopPrevious(a) \/ Commit(a), UNCHANGED <<candidate, mishaps>>,
         {telemetry', backup'} \subseteq Makers,
         \A m \in {telemetry', backup'} \cap Calls : m = a \/ pc[m] # "idle",
         "cancel" \notin mishaps =>
            /\ candidate[backup'].telemetry = config.telemetry
            /\ candidate[telemetry'].telemetry = candidate[a].telemetry
  PROVE  SinkInv'
<1>1. CASE \E w \in {"starting", "stopping"} : LoopOver(a, w, left')
  <2>1. PICK w \in {"starting", "stopping"} : pc' = [pc EXCEPT ![a] = w] /\ config' = config
    BY <1>1 DEF LoopOver, store
  <2>2. w \in AtWork
    BY DEF AtWork
  <2>. QED  BY <2>1, <2>2, SinkGoesOn
<1>2. CASE Commit(a)
  <2>1. pc' = [pc EXCEPT ![a] = "applied"] /\ config' = candidate[a]
    BY <1>2 DEF Commit, Finish, Registered
  <2>. QED  BY <2>1, SinkEnds DEF Ended
<1>. QED  BY <1>1, <1>2 DEF StartNew, StopPrevious, LoopOver

\* The pipeline of the start has the settings of the first configuration.
LEMMA SinkInit == Init => SinkInv
  BY Configurations DEF Init, SinkInv, AtWork, Makers

\* What may go wrong.
Wrongs == {"stop", "restore", "cancel", "overlap", "swallow"}

\* A step notes one thing that goes wrong, or none.
LEMMA MishapsGrow ==
  [Next]_vars => mishaps' = mishaps \/ \E m \in Wrongs : mishaps' = mishaps \cup {m}
<1>. DEFINE Goal == mishaps' = mishaps \/ \E m \in Wrongs : mishaps' = mishaps \cup {m}
<1>. SUFFICES ASSUME [Next]_vars PROVE Goal
  OBVIOUS
<1>. USE DEF Wrongs
<1>1. ASSUME NEW a \in Calls, Apply(a) \/ Cancelled(a) \/ Swallowed(a) PROVE Goal
  BY <1>1 DEF Apply, Cancelled, Swallowed, Note
<1>2. ASSUME NEW a \in Calls, Proceed(a) PROVE Goal
  <2>1. CASE \/ Acquire(a) \/ TelemetryStopped(a) \/ TelemetryRaises(a) \/ SinkStarted(a)
             \/ SinkRaises(a) \/ StartRaises(a)
    BY <2>1 DEF Acquire, TelemetryStopped, TelemetryRaises, SinkStarted, SinkRaises, StartRaises
  <2>2. ASSUME NEW n \in Names, Start(a, n) \/ Stop(a, n) \/ StopRaises(a, n) PROVE Goal
    BY <2>2 DEF Start, Stop, StopRaises, Note
  <2>3. ASSUME NEW n \in Names, Undo(a, n) \/ Restore(a, n) PROVE Goal
    BY <2>3 DEF Undo, Restore, Note
  <2>. QED  BY <1>2, <2>1, <2>2, <2>3 DEF Proceed
<1>3. ASSUME NEW r \in Restarts, Restart(r) \/ ProceedRestart(r) PROVE Goal
  BY <1>3 DEF Restart, ProceedRestart, RestartStops, RestartStarts, RestartFails, Note
<1>4. CASE Shutdown \/ ProceedShutdown
  BY <1>4 DEF Shutdown, ProceedShutdown, WatcherEnded, ShutdownEnds, ShutdownStops, ShutdownRaises, Note
<1>5. CASE UNCHANGED vars
  BY <1>5 DEF vars
<1>. QED  BY <1>1, <1>2, <1>3, <1>4, <1>5 DEF Next

\* What has gone wrong is not forgotten.
LEMMA MishapsStay == [Next]_vars => mishaps \subseteq mishaps'
  BY MishapsGrow

\* Every step keeps it.
LEMMA SinkStep == LineInv /\ TableInv /\ SinkInv /\ [Next]_vars => SinkInv'
<1>. SUFFICES ASSUME LineInv, TableInv, SinkInv, [Next]_vars PROVE SinkInv'
  OBVIOUS
<1>a. ASSUME NEW a \in Calls, Proceed(a)
      PROVE  /\ \A b \in Calls \ {a} : pc[b] \notin AtWork
             /\ InProgress(a) /\ candidate' = candidate
             /\ \A m \in {telemetry, backup} \cap Calls : pc[m] # "idle"
  BY <1>a, Moves, Alone DEF SinkInv
<1>1. ASSUME NEW a \in Calls, Apply(a) PROVE SinkInv'
  <2>1. /\ pc[a] = "idle" /\ UNCHANGED <<config, telemetry, backup>> /\ mishaps \subseteq mishaps'
        /\ \E c \in Candidates : candidate' = [candidate EXCEPT ![a] = c]
        /\ \E s \in {"rejected", "raised", "dry_run", "waiting"} : pc' = [pc EXCEPT ![a] = s]
    BY <1>1 DEF Apply, store, pipeline, Note
  <2>2. telemetry # a /\ backup # a
    BY <2>1 DEF SinkInv
  <2>3. candidate'[telemetry] = candidate[telemetry] /\ candidate'[backup] = candidate[backup]
    BY <2>1, <2>2 DEF SinkInv, TableInv
  <2>4. \A b \in Calls : /\ pc'[b] \in AtWork <=> pc[b] \in AtWork
                         /\ pc[b] \in AtWork => pc'[b] = pc[b] /\ candidate'[b] = candidate[b]
                         /\ pc[b] # "idle" => pc'[b] # "idle"
    BY <2>1, Configurations DEF LineInv, TableInv, AtWork
  <2>. QED  BY <2>1, <2>3, <2>4 DEF SinkInv, AtWork
<1>2. ASSUME NEW a \in Calls, Acquire(a) PROVE SinkInv'
  <2>1. Proceed(a) /\ pc[a] = "waiting"
    BY <1>2 DEF Proceed, Acquire, Works
  <2>2. \A b \in Calls : pc[b] \notin AtWork
    BY <1>a, <2>1 DEF AtWork
  <2>3. /\ telemetry' = telemetry /\ backup' = telemetry /\ UNCHANGED <<candidate, mishaps>>
        /\ {telemetry', backup'} \subseteq Makers
        /\ \A m \in {telemetry', backup'} \cap Calls : pc[m] # "idle"
    BY <1>2 DEF Acquire, SinkInv
  <2>4. "cancel" \notin mishaps => candidate[telemetry].telemetry = config.telemetry
    BY <2>2 DEF SinkInv
  <2>5. CASE candidate[a].telemetry = config.telemetry /\ StartNew(a)
    BY <1>a, <2>1, <2>2, <2>3, <2>4, <2>5, SinkStarts
  <2>6. CASE LoopOver(a, "telemetry", {})
    <3>1. pc' = [pc EXCEPT ![a] = "telemetry"] /\ config' = config /\ "telemetry" \in AtWork
      BY <2>6 DEF LoopOver, store, AtWork
    <3>. QED  BY <2>2, <2>3, <2>4, <3>1, SinkGoesOn
  <2>. QED  BY <1>2, <2>5, <2>6 DEF Acquire, ReplacesTelemetry
<1>3. ASSUME NEW a \in Calls, TelemetryStopped(a) PROVE SinkInv'
  <2>1. Proceed(a) /\ pc[a] = "telemetry" /\ UNCHANGED <<candidate, telemetry, backup, mishaps, config>>
        /\ pc' = [pc EXCEPT ![a] = "sink"] /\ "sink" \in AtWork
    BY <1>3 DEF Proceed, TelemetryStopped, Works, LoopOver, store, AtWork
  <2>2. /\ {telemetry, backup} \subseteq Makers
        /\ "cancel" \notin mishaps => candidate[backup].telemetry = config.telemetry /\ telemetry = backup
    BY <2>1 DEF SinkInv, AtWork
  <2>. QED  BY <1>a, <2>1, <2>2, SinkGoesOn
<1>4. ASSUME NEW a \in Calls, TelemetryRaises(a) PROVE SinkInv'
  <2>1. Proceed(a) /\ pc[a] = "telemetry" /\ UNCHANGED <<candidate, telemetry, backup, mishaps, config>>
        /\ pc' = [pc EXCEPT ![a] = "cancelled"] /\ "cancelled" \in Ended
    BY <1>4 DEF Proceed, TelemetryRaises, Works, Finish, store, Ended
  <2>2. /\ {telemetry, backup} \subseteq Makers
        /\ "cancel" \notin mishaps => candidate[telemetry].telemetry = config.telemetry
    BY <2>1 DEF SinkInv, AtWork
  <2>. QED  BY <1>a, <2>1, <2>2, SinkEnds
<1>5. ASSUME NEW a \in Calls, SinkStarted(a) PROVE SinkInv'
  <2>1. Proceed(a) /\ pc[a] = "sink" /\ UNCHANGED <<candidate, backup, mishaps>> /\ telemetry' = a /\ StartNew(a)
    BY <1>5 DEF Proceed, SinkStarted, Works
  <2>2. /\ backup \in Makers /\ a \in Makers
        /\ "cancel" \notin mishaps => candidate[backup].telemetry = config.telemetry
    BY <2>1 DEF SinkInv, AtWork, Makers
  <2>. QED  BY <1>a, <2>1, <2>2, SinkStarts
<1>6. ASSUME NEW a \in Calls, SinkRaises(a) \/ StartRaises(a) PROVE SinkInv'
  <2>1. pc[a] \in AtWork /\ UNCHANGED <<candidate, backup>> /\ mishaps \subseteq mishaps'
    BY <1>6 DEF SinkRaises, StartRaises, Works, AtWork
  <2>. QED  BY <1>6, <2>1, SinkRolls DEF SinkRaises, StartRaises
<1>7. ASSUME NEW a \in Calls, NEW n \in Names, Start(a, n) \/ Stop(a, n) PROVE SinkInv'
  <2>1. /\ Proceed(a) /\ pc[a] \in {"starting", "stopping"} /\ UNCHANGED <<candidate, telemetry, backup, mishaps>>
        /\ StopPrevious(a) \/ Commit(a) \/ LoopOver(a, pc[a], left')
    BY <1>7 DEF Proceed, Start, Stop, Works, pipeline, LoopOver
  <2>2. /\ {telemetry, backup} \subseteq Makers
        /\ "cancel" \notin mishaps =>
              /\ candidate[backup].telemetry = config.telemetry
              /\ candidate[telemetry].telemetry = candidate[a].telemetry
    BY <2>1 DEF SinkInv, AtWork
  <2>3. CASE StopPrevious(a) \/ Commit(a)
    BY <1>a, <2>1, <2>2, <2>3, SinkStarts
  <2>4. CASE LoopOver(a, pc[a], left')
    <3>1. pc' = [pc EXCEPT ![a] = pc[a]] /\ pc[a] \in AtWork /\ config' = config
      BY <2>1, <2>4 DEF LoopOver, store, AtWork
    <3>. QED  BY <1>a, <2>1, <2>2, <3>1, SinkGoesOn
  <2>. QED  BY <2>1, <2>3, <2>4
<1>8. ASSUME NEW a \in Calls, NEW n \in Names, StopRaises(a, n) \/ Undo(a, n) \/ Restore(a, n) PROVE SinkInv'
  <2>1. pc[a] \in AtWork /\ UNCHANGED <<candidate, backup>> /\ mishaps \subseteq mishaps'
    BY <1>8 DEF StopRaises, Undo, Restore, Works, AtWork, Note
  <2>2. RestorePrevious(a, left \ {n}) => RollBack(a, {}, left \ {n})
    BY DEF RollBack
  <2>. QED  BY <1>8, <2>1, <2>2, SinkRolls DEF StopRaises, Undo, Restore
<1>9. ASSUME NEW a \in Calls, Cancelled(a) PROVE SinkInv'
  <2>1. /\ InProgress(a) /\ pc' = [pc EXCEPT ![a] = "cancelled"] /\ UNCHANGED <<config, candidate, telemetry, backup>>
        /\ mishaps \subseteq mishaps'
        /\ pc[a] \in {"starting", "stopping", "undoing", "restoring"} => "cancel" \in mishaps'
    BY <1>9 DEF Cancelled, store, Note
  <2>2. CASE pc[a] \in AtWork
    <3>1. \A b \in Calls \ {a} : pc[b] \notin AtWork
      BY <2>1, <2>2, Alone DEF AtWork
    <3>2. "cancel" \notin mishaps' => candidate[telemetry].telemetry = config.telemetry
      BY <2>1, <2>2 DEF SinkInv, AtWork
    <3>. QED  BY <2>1, <3>1, <3>2, SinkEnds DEF Ended, SinkInv
  <2>3. CASE pc[a] = "waiting"
    BY <2>1, <2>3 DEF SinkInv, LineInv, AtWork
  <2>. QED  BY <2>1, <2>2, <2>3 DEF InProgress
<1>10. CASE Elsewhere
  <2>1. mishaps \subseteq mishaps'
    BY MishapsStay
  <2>. QED  BY <1>10, <2>1 DEF Elsewhere, SinkInv, store
<1>. QED  BY <1>1, <1>2, <1>3, <1>4, <1>5, <1>6, <1>7, <1>8, <1>9, <1>10, Kinds DEF Proceed

\* Always.
LEMMA SinkAlways == Spec => []SinkInv
  BY SinkInit, SinkStep, LineAlways, TableAlways, PTL DEF Spec

\* What flushes: the pipeline in use, except between its stop and the start of the
\* next one.
Flushing == {m \in Makers : flush[m] = "running"}

FlushInv ==
    /\ flush \in [Makers -> {"absent", "running", "stopped", "cancelled"}]
    /\ \A a \in Calls :
        /\ pc[a] \in {"telemetry", "sink"} => ReplacesTelemetry(a)
        /\ pc[a] \in AtWork /\ ~ReplacesTelemetry(a) => telemetry = backup
    /\ ~worn /\ down # "over" =>
        Flushing = IF \E a \in Calls : pc[a] = "sink" THEN {} ELSE {telemetry}

\* The step of the only call at work leaves nothing at work or itself.
LEMMA FlushMoves ==
  ASSUME LineInv, FlushInv, NEW a \in Calls, \A b \in Calls \ {a} : pc[b] \notin AtWork,
         NEW w \in AtWork \cup Ended, pc' = [pc EXCEPT ![a] = w],
         flush' \in [Makers -> {"absent", "running", "stopped", "cancelled"}],
         w \in {"telemetry", "sink"} => ReplacesTelemetry(a)',
         w \in AtWork /\ ~ReplacesTelemetry(a)' => telemetry' = backup',
         ~worn' /\ down' # "over" => Flushing' = IF w = "sink" THEN {} ELSE {telemetry'}
  PROVE  FlushInv'
<1>1. pc'[a] = w /\ \A b \in Calls \ {a} : pc'[b] \notin AtWork
  BY DEF LineInv
<1>2. (\E b \in Calls : pc'[b] = "sink") <=> w = "sink"
  BY <1>1 DEF AtWork
<1>3. \A b \in Calls : pc'[b] \in AtWork \cup {"telemetry", "sink"} => b = a
  BY <1>1 DEF AtWork
<1>. QED  BY <1>1, <1>2, <1>3 DEF FlushInv

\* A call that begins with its transports, or goes on with them, leaves the
\* pipeline alone.
LEMMA FlushStarts ==
  ASSUME LineInv, FlushInv, NEW a \in Calls, \A b \in Calls \ {a} : pc[b] \notin AtWork,
         \/ StartNew(a) \/ StopPrevious(a) \/ Commit(a)
         \/ \E w \in {"starting", "stopping"} : LoopOver(a, w, left'),
         candidate' = candidate,
         flush' \in [Makers -> {"absent", "running", "stopped", "cancelled"}],
         ~ReplacesTelemetry(a) => telemetry' = backup',
         ~worn' /\ down' # "over" => Flushing' = {telemetry'}
  PROVE  FlushInv'
<1>1. CASE \E w \in {"starting", "stopping"} : LoopOver(a, w, left')
  <2>1. PICK w \in {"starting", "stopping"} : pc' = [pc EXCEPT ![a] = w] /\ config' = config
    BY <1>1 DEF LoopOver, store
  <2>2. w \in AtWork /\ w \notin {"telemetry", "sink"} /\ (ReplacesTelemetry(a)' <=> ReplacesTelemetry(a))
    BY <2>1 DEF AtWork, ReplacesTelemetry
  <2>. QED  BY <2>1, <2>2, FlushMoves
<1>2. CASE Commit(a)
  <2>1. pc' = [pc EXCEPT ![a] = "applied"] /\ "applied" \in Ended /\ "applied" \notin AtWork
    BY <1>2 DEF Commit, Finish, Ended, AtWork
  <2>. QED  BY <2>1, FlushMoves
<1>. QED  BY <1>1, <1>2 DEF StartNew, StopPrevious, LoopOver

\* A rollback leaves the pipeline alone until it is over.
LEMMA FlushRolls ==
  ASSUME LineInv, FlushInv, NEW a \in Calls, \A b \in Calls \ {a} : pc[b] \notin AtWork,
         pc[a] \in AtWork, NEW new, NEW old, RollBack(a, new, old),
         pc[a] = "sink" => RolledBack(a),
         UNCHANGED <<candidate, backup, flush, closing>>
  PROVE  FlushInv'
<1>0. flush' \in [Makers -> {"absent", "running", "stopped", "cancelled"}] /\ down' = down
  BY DEF FlushInv, closing
<1>1. CASE RolledBack(a)
  <2>1. /\ pc' = [pc EXCEPT ![a] = "rolled_back"] /\ "rolled_back" \in Ended \ AtWork
        /\ telemetry' = backup /\ worn' = (worn \/ ReplacesTelemetry(a))
    BY <1>1 DEF RolledBack, Finish, PutBack, Ended, AtWork
  <2>2. Flushing' = Flushing
    BY DEF Flushing
  <2>3. ASSUME ~worn', down' # "over" PROVE Flushing' = {telemetry'}
    <3>1. ~worn /\ ~ReplacesTelemetry(a)
      BY <2>1, <2>3
    <3>2. telemetry = backup /\ pc[a] # "sink"
      BY <3>1 DEF FlushInv
    <3>3. \A b \in Calls : pc[b] # "sink"
      BY <3>2 DEF AtWork
    <3>. QED  BY <1>0, <2>1, <2>2, <2>3, <3>1, <3>2, <3>3 DEF FlushInv
  <2>. QED  BY <1>0, <2>1, <2>3, FlushMoves
<1>2. CASE (\E w \in {"undoing", "restoring"} : LoopOver(a, w, left')) /\ UNCHANGED <<telemetry, worn>> /\ pc[a] # "sink"
  <2>1. PICK w \in {"undoing", "restoring"} : pc' = [pc EXCEPT ![a] = w] /\ config' = config
    BY <1>2 DEF LoopOver, store
  <2>2. w \in AtWork /\ w \notin {"telemetry", "sink"} /\ (ReplacesTelemetry(a)' <=> ReplacesTelemetry(a))
    BY <2>1 DEF AtWork, ReplacesTelemetry
  <2>3. Flushing' = Flushing /\ \A b \in Calls : pc[b] # "sink"
    BY <1>2 DEF Flushing, AtWork
  <2>4. ~ReplacesTelemetry(a) => telemetry' = backup'
    BY <1>2 DEF FlushInv
  <2>5. ~worn' /\ down' # "over" => Flushing' = {telemetry'}
    BY <1>0, <1>2, <2>3 DEF FlushInv
  <2>. QED  BY <1>0, <2>1, <2>2, <2>4, <2>5, FlushMoves
<1>3. RolledBack(a) => pc' = [pc EXCEPT ![a] = "rolled_back"]
  BY DEF RolledBack, Finish
<1>4. \A t : \A w \in {"undoing", "restoring"} : LoopOver(a, w, t) => pc' = [pc EXCEPT ![a] = w] /\ left' = t
  BY DEF LoopOver
<1>5. CASE pc[a] = "sink"
  BY <1>1, <1>5
<1>6. CASE pc[a] # "sink"
  BY <1>1, <1>2, <1>4, <1>6 DEF RollBack, RestorePrevious
<1>. QED  BY <1>5, <1>6

\* The pipeline of the start flushes.
LEMMA FlushInit == Init => FlushInv
<1>. SUFFICES ASSUME Init PROVE FlushInv
  OBVIOUS
<1>1. /\ flush = [m \in Makers |-> IF m = Boot THEN "running" ELSE "absent"]
      /\ telemetry = Boot /\ \A a \in Calls : pc[a] = "idle"
  BY DEF Init
<1>2. Flushing = {telemetry}
  BY <1>1, Configurations DEF Flushing
<1>. QED  BY <1>1, <1>2 DEF FlushInv, AtWork

\* Restarts leave the pipeline alone, and so does the shutdown until it is over.
LEMMA FlushElsewhere ==
  ASSUME [Next]_vars
  PROVE  \/ \E a \in Calls : Apply(a) \/ Proceed(a) \/ Cancelled(a)
         \/ Elsewhere /\ UNCHANGED <<flush, worn>> /\ (down' # "over" => down # "over")
         \/ Elsewhere /\ ShutdownEnds
<1>1. ASSUME NEW r \in Restarts, Restart(r) \/ ProceedRestart(r)
      PROVE  UNCHANGED <<flush, worn, down>>
  BY <1>1 DEF Restart, ProceedRestart, RestartStops, RestartStarts, RestartFails, pipeline, closing
<1>2. ASSUME \/ Shutdown \/ WatcherEnded \/ \E i \in Instances : ShutdownStops(i) \/ ShutdownRaises(i)
             \/ \E a \in Calls : Swallowed(a)
      PROVE  UNCHANGED <<flush, worn>> /\ down # "over"
  BY <1>2 DEF Shutdown, WatcherEnded, ShutdownStops, ShutdownRaises, Swallowed, pipeline
<1>3. UNCHANGED vars => UNCHANGED <<flush, worn, down>>
  BY DEF vars, pipeline, closing
<1>. QED  BY <1>1, <1>2, <1>3, Kinds DEF Next, ProceedShutdown

\* Every step keeps it.
LEMMA FlushStep == LineInv /\ TableInv /\ SinkInv /\ FlushInv /\ [Next]_vars => FlushInv'
<1>. SUFFICES ASSUME LineInv, TableInv, SinkInv, FlushInv, [Next]_vars PROVE FlushInv'
  OBVIOUS
<1>a. ASSUME NEW a \in Calls, Proceed(a)
      PROVE  /\ \A b \in Calls \ {a} : pc[b] \notin AtWork
             /\ candidate' = candidate /\ down' = down
  BY <1>a, Moves, Alone DEF closing
<1>b. flush' = flush => Flushing' = Flushing
  BY DEF Flushing
<1>1. ASSUME NEW a \in Calls, Apply(a) PROVE FlushInv'
  <2>1. /\ pc[a] = "idle" /\ UNCHANGED <<config, telemetry, backup, flush, worn, down>>
        /\ \E c \in Candidates : candidate' = [candidate EXCEPT ![a] = c]
        /\ \E s \in {"rejected", "raised", "dry_run", "waiting"} : pc' = [pc EXCEPT ![a] = s]
    BY <1>1 DEF Apply, store, pipeline, closing
  <2>2. \A b \in Calls : pc'[b] \in AtWork => pc'[b] = pc[b] /\ candidate'[b] = candidate[b]
    BY <2>1, Configurations DEF LineInv, TableInv, AtWork
  <2>3. \A b \in Calls : pc'[b] = "sink" <=> pc[b] = "sink"
    BY <2>1 DEF LineInv
  <2>4. \A b \in Calls : pc'[b] \in AtWork => pc[b] \in AtWork /\ (ReplacesTelemetry(b)' <=> ReplacesTelemetry(b))
    BY <2>1, <2>2 DEF ReplacesTelemetry
  <2>5. \A b \in Calls : pc'[b] \in {"telemetry", "sink"} => pc[b] \in {"telemetry", "sink"} /\ pc'[b] \in AtWork
    BY <2>2 DEF AtWork
  <2>. QED  BY <1>b, <2>1, <2>3, <2>4, <2>5 DEF FlushInv
<1>2. ASSUME NEW a \in Calls, Acquire(a) PROVE FlushInv'
  <2>1. /\ Proceed(a) /\ pc[a] = "waiting"
        /\ telemetry' = telemetry /\ backup' = telemetry /\ UNCHANGED <<flush, worn>>
    BY <1>2 DEF Proceed, Acquire, Works
  <2>2. \A b \in Calls : pc[b] # "sink"
    BY <1>a, <2>1 DEF AtWork
  <2>3. /\ flush' \in [Makers -> {"absent", "running", "stopped", "cancelled"}]
        /\ ~worn' /\ down' # "over" => Flushing' = {telemetry'}
    BY <1>a, <1>b, <2>1, <2>2 DEF FlushInv
  <2>4. CASE StartNew(a)
    BY <1>a, <2>1, <2>3, <2>4, FlushStarts
  <2>5. CASE ReplacesTelemetry(a) /\ LoopOver(a, "telemetry", {})
    <3>1. pc' = [pc EXCEPT ![a] = "telemetry"] /\ config' = config /\ "telemetry" \in AtWork
      BY <2>5 DEF LoopOver, store, AtWork
    <3>2. ReplacesTelemetry(a)'
      BY <1>a, <2>1, <2>5, <3>1 DEF ReplacesTelemetry
    <3>. QED  BY <1>a, <2>1, <2>3, <3>1, <3>2, FlushMoves
  <2>. QED  BY <1>2, <2>4, <2>5 DEF Acquire
<1>3. ASSUME NEW a \in Calls, TelemetryStopped(a) PROVE FlushInv'
  <2>1. /\ Proceed(a) /\ pc[a] = "telemetry" /\ UNCHANGED <<telemetry, backup, worn, config>>
        /\ flush' = [flush EXCEPT ![telemetry] = "stopped"]
        /\ pc' = [pc EXCEPT ![a] = "sink"] /\ "sink" \in AtWork
    BY <1>3 DEF Proceed, TelemetryStopped, Works, LoopOver, store, AtWork
  <2>2. ReplacesTelemetry(a) /\ ReplacesTelemetry(a)'
    BY <1>a, <2>1 DEF FlushInv, ReplacesTelemetry
  <2>3. \A b \in Calls : pc[b] # "sink"
    BY <1>a, <2>1 DEF AtWork
  <2>4. ~worn /\ down # "over" => Flushing = {telemetry}
    BY <2>3 DEF FlushInv
  <2>5. /\ flush' \in [Makers -> {"absent", "running", "stopped", "cancelled"}]
        /\ Flushing' = Flushing \ {telemetry}
    BY <2>1 DEF FlushInv, Flushing
  <2>6. ~worn' /\ down' # "over" => Flushing' = {}
    BY <1>a, <2>1, <2>4, <2>5
  <2>. QED  BY <1>a, <2>1, <2>2, <2>5, <2>6, FlushMoves
<1>4. ASSUME NEW a \in Calls, TelemetryRaises(a) PROVE FlushInv'
  <2>1. /\ Proceed(a) /\ worn' = TRUE /\ flush' = [flush EXCEPT ![telemetry] = "cancelled"]
        /\ pc' = [pc EXCEPT ![a] = "cancelled"] /\ "cancelled" \in Ended \ AtWork
    BY <1>4 DEF Proceed, TelemetryRaises, Finish, Ended, AtWork
  <2>2. flush' \in [Makers -> {"absent", "running", "stopped", "cancelled"}]
    BY <2>1 DEF FlushInv
  <2>. QED  BY <1>a, <2>1, <2>2, FlushMoves
<1>5. ASSUME NEW a \in Calls, SinkStarted(a) PROVE FlushInv'
  <2>1. /\ Proceed(a) /\ pc[a] = "sink" /\ telemetry' = a /\ UNCHANGED <<backup, worn>> /\ StartNew(a)
        /\ flush' = [flush EXCEPT ![a] = "running"] /\ a \in Makers
    BY <1>5 DEF Proceed, SinkStarted, Works, Makers
  <2>2. ReplacesTelemetry(a) /\ (~worn /\ down # "over" => Flushing = {})
    BY <2>1 DEF FlushInv
  <2>3. /\ flush' \in [Makers -> {"absent", "running", "stopped", "cancelled"}]
        /\ Flushing' = Flushing \cup {a}
    BY <2>1 DEF FlushInv, Flushing
  <2>4. ~worn' /\ down' # "over" => Flushing' = {telemetry'}
    BY <1>a, <2>1, <2>2, <2>3
  <2>. QED  BY <1>a, <2>1, <2>2, <2>3, <2>4, FlushStarts
<1>6. ASSUME NEW a \in Calls, SinkRaises(a) PROVE FlushInv'
  <2>1. /\ Proceed(a) /\ pc[a] \in AtWork /\ RollBack(a, {}, {}) /\ UNCHANGED <<candidate, backup, flush, closing>>
    BY <1>6 DEF Proceed, SinkRaises, Works, AtWork
  <2>2. RolledBack(a)
    BY <2>1 DEF RollBack, RestorePrevious
  <2>. QED  BY <1>a, <2>1, <2>2, FlushRolls
<1>7. ASSUME NEW a \in Calls, NEW n \in Names,
             StopRaises(a, n) \/ Undo(a, n) \/ Restore(a, n)
      PROVE  FlushInv'
  <2>1. /\ Proceed(a) /\ pc[a] \in AtWork /\ pc[a] # "sink" /\ UNCHANGED <<candidate, backup, flush, closing>>
    BY <1>7 DEF Proceed, StopRaises, Undo, Restore, Works, AtWork
  <2>2. RestorePrevious(a, left \ {n}) => RollBack(a, {}, left \ {n})
    BY DEF RollBack
  <2>3. \E new, old : RollBack(a, new, old)
    BY <1>7, <2>2 DEF StopRaises, Undo, Restore
  <2>. QED  BY <1>a, <2>1, <2>3, FlushRolls
<1>8. ASSUME NEW a \in Calls, NEW n \in Names, Start(a, n) \/ Stop(a, n) PROVE FlushInv'
  <2>1. /\ Proceed(a) /\ pc[a] \in {"starting", "stopping"} /\ UNCHANGED <<telemetry, backup, flush, worn>>
        /\ \/ StopPrevious(a) \/ Commit(a)
           \/ \E w \in {"starting", "stopping"} : LoopOver(a, w, left')
    BY <1>8 DEF Proceed, Start, Stop, Works, pipeline, LoopOver
  <2>2. \A b \in Calls : pc[b] # "sink"
    BY <1>a, <2>1 DEF AtWork
  <2>3. /\ flush' \in [Makers -> {"absent", "running", "stopped", "cancelled"}]
        /\ ~worn' /\ down' # "over" => Flushing' = {telemetry'}
    BY <1>a, <1>b, <2>1, <2>2 DEF FlushInv
  <2>4. ~ReplacesTelemetry(a) => telemetry' = backup'
    BY <2>1 DEF FlushInv, AtWork
  <2>. QED  BY <1>a, <2>1, <2>3, <2>4, FlushStarts
<1>9. ASSUME NEW a \in Calls, Cancelled(a) PROVE FlushInv'
  <2>1. /\ InProgress(a) /\ pc' = [pc EXCEPT ![a] = "cancelled"]
        /\ UNCHANGED <<config, candidate, telemetry, backup, down>>
        /\ worn' = (worn \/ pc[a] \in {"telemetry", "sink"})
        /\ flush' = flush \/ (flush' = [flush EXCEPT ![telemetry] = "cancelled"] /\ pc[a] = "telemetry")
    BY <1>9 DEF Cancelled, store, closing
  <2>2. flush' \in [Makers -> {"absent", "running", "stopped", "cancelled"}]
    BY <2>1 DEF FlushInv
  <2>3. \A b \in Calls : pc'[b] \in AtWork \cup {"sink", "telemetry"} => b # a /\ pc'[b] = pc[b]
    BY <2>1 DEF LineInv, AtWork
  <2>4. \A b \in Calls : b # a => pc'[b] = pc[b]
    BY <2>1 DEF LineInv
  <2>5. \A b \in Calls : ReplacesTelemetry(b)' <=> ReplacesTelemetry(b)
    BY <2>1 DEF ReplacesTelemetry
  <2>6. ASSUME ~worn', down' # "over"
        PROVE  Flushing' = IF \E b \in Calls : pc'[b] = "sink" THEN {} ELSE {telemetry'}
    <3>1. ~worn /\ pc[a] \notin {"telemetry", "sink"} /\ flush' = flush
      BY <2>1, <2>6
    <3>2. \A b \in Calls : pc'[b] = "sink" <=> pc[b] = "sink"
      BY <2>3, <2>4, <3>1
    <3>. QED  BY <1>b, <2>1, <2>6, <3>1, <3>2 DEF FlushInv
  <2>. QED  BY <2>1, <2>2, <2>3, <2>5, <2>6 DEF FlushInv
<1>10. CASE Elsewhere /\ UNCHANGED <<flush, worn>> /\ (down' # "over" => down # "over")
  BY <1>b, <1>10 DEF Elsewhere, FlushInv, ReplacesTelemetry, store
<1>11. CASE Elsewhere /\ ShutdownEnds
  <2>1. down' = "over" /\ \E t : flush' = [flush EXCEPT ![telemetry] = t] /\ t \in {"stopped", "cancelled"}
    BY <1>11 DEF ShutdownEnds
  <2>2. flush' \in [Makers -> {"absent", "running", "stopped", "cancelled"}]
    BY <2>1 DEF FlushInv
  <2>. QED  BY <1>11, <2>1, <2>2 DEF Elsewhere, FlushInv, ReplacesTelemetry, store
<1>12. ASSUME NEW a \in Calls, Proceed(a) PROVE FlushInv'
  <2>1. CASE \/ Acquire(a) \/ TelemetryStopped(a) \/ TelemetryRaises(a) \/ SinkStarted(a) \/ SinkRaises(a)
    BY <1>2, <1>3, <1>4, <1>5, <1>6, <2>1
  <2>2. CASE StartRaises(a)
    <3>1. /\ Proceed(a) /\ pc[a] = "starting" /\ RollBack(a, started, {})
          /\ UNCHANGED <<candidate, backup, flush, closing>>
      BY <2>2 DEF Proceed, StartRaises, Works
    <3>. QED  BY <1>a, <3>1, FlushRolls DEF AtWork
  <2>3. ASSUME NEW n \in Names, Start(a, n) \/ Stop(a, n) PROVE FlushInv'
    BY <1>8, <2>3
  <2>4. ASSUME NEW n \in Names, StopRaises(a, n) \/ Undo(a, n) \/ Restore(a, n) PROVE FlushInv'
    BY <1>7, <2>4
  <2>. QED  BY <1>12, <2>1, <2>2, <2>3, <2>4 DEF Proceed
<1>13. CASE \E a \in Calls : Apply(a) \/ Proceed(a) \/ Cancelled(a)
  BY <1>1, <1>9, <1>12, <1>13
<1>. QED  BY <1>10, <1>11, <1>13, FlushElsewhere

\* Always.
LEMMA FlushAlways == Spec => []FlushInv
  BY FlushInit, FlushStep, LineAlways, TableAlways, SinkAlways, PTL DEF Spec

\* When nothing is at work, the pipeline in use has the settings of the
\* configuration, after a rollback as well, unless an apply() was cancelled at its
\* transports; and it flushes, and no other does, unless a call gave up once it had
\* stopped the one in use (runtime.py:99-109, 115-128).
THEOREM SinkFollowsConfig == Spec => []SinkAsConfigured
<1>1. SinkInv /\ FlushInv => SinkAsConfigured
  <2>. SUFFICES ASSUME SinkInv, FlushInv, Quiet PROVE SinkAsConfigured
    BY DEF SinkAsConfigured
  <2>1. (\A a \in Calls : pc[a] \notin AtWork) /\ down # "over"
    BY DEF Quiet
  <2>2. "cancel" \notin mishaps => candidate[telemetry].telemetry = config.telemetry
    BY <2>1 DEF SinkInv
  <2>3. ~worn => Flushing = {telemetry}
    BY <2>1 DEF FlushInv, AtWork
  <2>. QED  BY <2>2, <2>3 DEF SinkAsConfigured, Flushing
<1>. QED  BY <1>1, SinkAlways, FlushAlways, PTL

------------------------------------------------------------------------------
(* What the loops of the call at work have done *)

New(a) == ToAdd(a) \cup ToRestart(a)
Old(a) == ToRemove(a) \cup ToRestart(a)

LoopAt(a) ==
    /\ pc[a] \in {"telemetry", "sink"} => started = {} /\ stopped = {}
    /\ pc[a] = "starting" => stopped = {} /\ started \subseteq New(a) /\ left = New(a) \ started
    /\ pc[a] = "stopping" => started = New(a) /\ stopped \subseteq Old(a) /\ left = Old(a) \ stopped
    /\ pc[a] = "undoing" => left \subseteq started /\ started \subseteq New(a) /\ stopped \subseteq Old(a)
    /\ pc[a] = "restoring" => left # {} /\ left \subseteq stopped /\ stopped \subseteq Old(a)
    /\ pc[a] \in {"undoing", "restoring"} /\ stopped # {} => "stop" \in mishaps

LoopInv == \A a \in Calls : LoopAt(a)

\* The names a call deals with.
LEMMA Differences ==
  ASSUME TableInv, NEW a \in Calls
  PROVE  /\ New(a) \subseteq Names /\ Old(a) \subseteq Names
         /\ \A n \in Old(a) : live[n] \in Makers /\ live[n] # Absent
         /\ \A n \in New(a) \ Old(a) : live[n] = Absent
  BY DEF New, Old, ToAdd, ToRemove, ToRestart, Configured, TableInv

\* A call comes to the head of the line, and to its transports.
Opening(a) == Acquire(a) \/ TelemetryStopped(a) \/ SinkStarted(a)

\* What it finds, and where it goes from there.
LEMMA OpeningFacts ==
  ASSUME LineInv, LoopInv, NEW a \in Calls, Opening(a)
  PROVE  /\ pc[a] \in {"waiting", "telemetry", "sink"} /\ InProgress(a)
         /\ line # <<>> /\ \A b \in Calls : pc[b] \in AtWork => b = a
         /\ UNCHANGED <<running, candidate, mishaps, restarting, closing>>
         /\ started' = {} /\ stopped' = {}
         /\ \/ \E w \in {"telemetry", "sink"} : LoopOver(a, w, {})
            \/ LoopOver(a, "starting", New(a))
            \/ New(a) = {} /\ LoopOver(a, "stopping", Old(a))
            \/ New(a) = {} /\ Old(a) = {} /\ Commit(a)
<1>1. pc[a] \in {"waiting", "telemetry", "sink"} /\ (pc[a] = "waiting" => Head(line) = a)
  BY DEF Opening, Acquire, TelemetryStopped, SinkStarted, Works
<1>2. InProgress(a)
  BY <1>1 DEF InProgress, AtWork
<1>3. line # <<>> /\ \A b \in Calls : pc[b] \in AtWork => b = a
  BY <1>1, <1>2, Alone
<1>4. started' = {} /\ stopped' = {} /\ UNCHANGED <<running, candidate, mishaps, restarting, closing>>
  BY DEF Opening, Acquire, TelemetryStopped, SinkStarted, Works, LoopInv, LoopAt
<1>5. StartNew(a) =>
         \/ LoopOver(a, "starting", New(a))
         \/ New(a) = {} /\ LoopOver(a, "stopping", Old(a))
         \/ New(a) = {} /\ Old(a) = {} /\ Commit(a)
  BY DEF StartNew, StopPrevious, New, Old
<1>. QED  BY <1>1, <1>2, <1>3, <1>4, <1>5 DEF Opening, Acquire, TelemetryStopped, SinkStarted

\* A transport is started.
LEMMA StartFacts ==
  ASSUME LineInv, LoopInv, NEW a \in Calls, NEW n \in Names, Start(a, n)
  PROVE  /\ pc[a] = "starting" /\ InProgress(a)
         /\ line # <<>> /\ \A b \in Calls : pc[b] \in AtWork => b = a
         /\ running' = Up(<<n, a>>) /\ UNCHANGED <<candidate, mishaps, restarting, closing>>
         /\ n \in New(a) /\ n \notin started /\ started' = started \cup {n} /\ started' \subseteq New(a)
         /\ stopped = {} /\ stopped' = {}
         /\ \/ LoopOver(a, "starting", New(a) \ started')
            \/ started' = New(a) /\ LoopOver(a, "stopping", Old(a))
            \/ started' = New(a) /\ Old(a) = {} /\ Commit(a)
<1>1. pc[a] = "starting" /\ InProgress(a)
  BY DEF Start, Works, InProgress, AtWork
<1>2. line # <<>> /\ \A b \in Calls : pc[b] \in AtWork => b = a
  BY <1>1, Alone
<1>3. stopped = {} /\ started \subseteq New(a) /\ left = New(a) \ started
  BY <1>1 DEF LoopInv, LoopAt
<1>4. /\ n \in left /\ started' = started \cup {n} /\ running' = Up(<<n, a>>)
      /\ UNCHANGED <<candidate, stopped, mishaps, restarting, closing>>
      /\ IF left = {n} THEN StopPrevious(a) ELSE LoopOver(a, "starting", left \ {n})
  BY DEF Start, NextUp, Starts
<1>5. StopPrevious(a) => LoopOver(a, "stopping", Old(a)) \/ (Old(a) = {} /\ Commit(a))
  BY DEF StopPrevious, Old
<1>6. left \ {n} = New(a) \ started' /\ (left = {n} => started' = New(a)) /\ started' \subseteq New(a)
  BY <1>3, <1>4
<1>. QED  BY <1>1, <1>2, <1>3, <1>4, <1>5, <1>6

\* A transport is stopped, or its stop() fails.
LEMMA StopFacts ==
  ASSUME LineInv, LoopInv, TableInv, NEW a \in Calls, NEW n \in Names, Stop(a, n) \/ StopRaises(a, n)
  PROVE  /\ pc[a] = "stopping" /\ InProgress(a)
         /\ line # <<>> /\ \A b \in Calls : pc[b] \in AtWork => b = a
         /\ UNCHANGED <<candidate, restarting, closing>>
         /\ started = New(a) /\ started' = started
         /\ n \in Old(a) /\ n \notin stopped /\ stopped' = stopped \cup {n} /\ stopped' \subseteq Old(a)
         /\ live[n] \in Makers /\ live[n] # a
         /\ \/ /\ running' = Down(<<n, live[n]>>) /\ UNCHANGED mishaps
               /\ \/ LoopOver(a, "stopping", Old(a) \ stopped')
                  \/ stopped' = Old(a) /\ Commit(a)
            \/ /\ running' \in {running, Down(<<n, live[n]>>)} /\ mishaps' = mishaps \cup {"stop"}
               /\ RollBack(a, started, stopped')
<1>1. pc[a] = "stopping" /\ InProgress(a)
  BY DEF Stop, StopRaises, Works, InProgress, AtWork
<1>2. line # <<>> /\ \A b \in Calls : pc[b] \in AtWork => b = a
  BY <1>1, Alone
<1>3. started = New(a) /\ stopped \subseteq Old(a) /\ left = Old(a) \ stopped
  BY <1>1 DEF LoopInv, LoopAt
<1>4. /\ n \in left /\ stopped' = stopped \cup {n} /\ UNCHANGED <<candidate, started, restarting, closing>>
      /\ \/ /\ running' = Down(<<n, live[n]>>) /\ UNCHANGED mishaps
            /\ IF left = {n} THEN Commit(a) ELSE LoopOver(a, "stopping", left \ {n})
         \/ /\ running' \in {running, Down(<<n, live[n]>>)} /\ mishaps' = mishaps \cup {"stop"}
            /\ RollBack(a, started, stopped')
  BY DEF Stop, StopRaises, NextUp, Stops, StopFails, Note
<1>5. left \ {n} = Old(a) \ stopped' /\ (left = {n} => stopped' = Old(a)) /\ stopped' \subseteq Old(a)
  BY <1>3, <1>4
<1>6. live[n] \in Makers /\ live[n] # a
  BY <1>1, <1>3, <1>4, Differences DEF TableInv
<1>. QED  BY <1>1, <1>2, <1>3, <1>4, <1>5, <1>6

\* A rollback goes on, or is over.
LEMMA RollFacts ==
  ASSUME NEW a \in Calls, NEW new, NEW old, RollBack(a, new, old)
  PROVE  \/ new # {} /\ LoopOver(a, "undoing", new)
         \/ new = {} /\ old # {} /\ LoopOver(a, "restoring", old)
         \/ new = {} /\ old = {} /\ Finish(a, "rolled_back") /\ UNCHANGED store
  BY DEF RollBack, RestorePrevious, RolledBack

\* A call starts to roll back.
LEMMA FailFacts ==
  ASSUME LineInv, LoopInv, NEW a \in Calls, SinkRaises(a) \/ StartRaises(a)
  PROVE  /\ pc[a] \in {"sink", "starting"} /\ InProgress(a)
         /\ line # <<>> /\ \A b \in Calls : pc[b] \in AtWork => b = a
         /\ UNCHANGED <<running, candidate, started, stopped, mishaps, restarting, closing>>
         /\ stopped = {} /\ started \subseteq New(a) /\ RollBack(a, started, {})
         /\ pc[a] = "sink" => started = {}
<1>1. pc[a] \in {"sink", "starting"} /\ InProgress(a)
  BY DEF SinkRaises, StartRaises, Works, InProgress, AtWork
<1>2. line # <<>> /\ \A b \in Calls : pc[b] \in AtWork => b = a
  BY <1>1, Alone
<1>3. stopped = {} /\ started \subseteq New(a) /\ (pc[a] = "sink" => started = {})
  BY <1>1 DEF LoopInv, LoopAt
<1>. QED  BY <1>1, <1>2, <1>3 DEF SinkRaises, StartRaises, Works

\* A transport that was started is stopped again.
LEMMA UndoFacts ==
  ASSUME LineInv, LoopInv, NEW a \in Calls, NEW n \in Names, Undo(a, n)
  PROVE  /\ pc[a] = "undoing" /\ InProgress(a)
         /\ line # <<>> /\ \A b \in Calls : pc[b] \in AtWork => b = a
         /\ UNCHANGED <<candidate, started, stopped, restarting, closing>>
         /\ n \in left /\ left \subseteq started /\ started \subseteq New(a) /\ stopped \subseteq Old(a)
         /\ stopped # {} => "stop" \in mishaps
         /\ \/ running' = Down(<<n, a>>) /\ UNCHANGED mishaps
            \/ running' \in {running, Down(<<n, a>>)} /\ mishaps' = mishaps \cup {"stop"}
         /\ RollBack(a, left \ {n}, stopped)
<1>1. pc[a] = "undoing" /\ InProgress(a)
  BY DEF Undo, Works, InProgress, AtWork
<1>2. line # <<>> /\ \A b \in Calls : pc[b] \in AtWork => b = a
  BY <1>1, Alone
<1>3. /\ left \subseteq started /\ started \subseteq New(a) /\ stopped \subseteq Old(a)
      /\ stopped # {} => "stop" \in mishaps
  BY <1>1 DEF LoopInv, LoopAt
<1>. QED  BY <1>1, <1>2, <1>3 DEF Undo, Stops, StopFails, Note

\* A transport that was stopped is started again.
LEMMA RestoreFacts ==
  ASSUME LineInv, LoopInv, TableInv, NEW a \in Calls, NEW n \in Names, Restore(a, n)
  PROVE  /\ pc[a] = "restoring" /\ InProgress(a)
         /\ line # <<>> /\ \A b \in Calls : pc[b] \in AtWork => b = a
         /\ UNCHANGED <<candidate, started, stopped, restarting, closing>>
         /\ n \in left /\ left \subseteq stopped /\ stopped \subseteq Old(a)
         /\ "stop" \in mishaps
         /\ live[n] \in Makers /\ live[n] # a
         /\ \/ running' = Up(<<n, live[n]>>) /\ UNCHANGED mishaps
            \/ running' = running /\ mishaps' = mishaps \cup {"restore"}
         /\ RollBack(a, {}, left \ {n})
<1>1. pc[a] = "restoring" /\ InProgress(a)
  BY DEF Restore, Works, InProgress, AtWork
<1>2. line # <<>> /\ \A b \in Calls : pc[b] \in AtWork => b = a
  BY <1>1, Alone
<1>3. left # {} /\ left \subseteq stopped /\ stopped \subseteq Old(a) /\ "stop" \in mishaps
  BY <1>1 DEF LoopInv, LoopAt
<1>4. n \in left /\ RollBack(a, {}, left \ {n})
  BY DEF Restore, RollBack
<1>5. live[n] \in Makers /\ live[n] # a
  BY <1>1, <1>3, <1>4, Differences DEF TableInv
<1>. QED  BY <1>1, <1>2, <1>3, <1>4, <1>5 DEF Restore, Starts, Note

\* The loops of the call at work, if it still is at work.
LEMMA LoopGoesOn ==
  ASSUME LineInv, NEW a \in Calls, \A b \in Calls : pc[b] \in AtWork => b = a,
         NEW w \in AtWork, NEW s, LoopOver(a, w, s), UNCHANGED candidate,
         /\ w \in {"telemetry", "sink"} => started' = {} /\ stopped' = {}
         /\ w = "starting" => stopped' = {} /\ started' \subseteq New(a) /\ s = New(a) \ started'
         /\ w = "stopping" => started' = New(a) /\ stopped' \subseteq Old(a) /\ s = Old(a) \ stopped'
         /\ w = "undoing" => s \subseteq started' /\ started' \subseteq New(a) /\ stopped' \subseteq Old(a)
         /\ w = "restoring" => s # {} /\ s \subseteq stopped' /\ stopped' \subseteq Old(a)
         /\ w \in {"undoing", "restoring"} /\ stopped' # {} => "stop" \in mishaps'
  PROVE  LoopInv'
<1>1. /\ pc'[a] = w /\ left' = s /\ upstreams' = upstreams
      /\ \A b \in Calls \ {a} : pc'[b] \notin AtWork
  BY DEF LoopOver, LineInv, store
<1>2. New(a)' = New(a) /\ Old(a)' = Old(a)
  BY <1>1 DEF New, Old, ToAdd, ToRemove, ToRestart, Wanted, Configured
<1>3. LoopAt(a)'
  BY <1>1, <1>2 DEF LoopAt
<1>4. ASSUME NEW b \in Calls \ {a} PROVE LoopAt(b)'
  BY <1>1 DEF LoopAt, AtWork
<1>. QED  BY <1>3, <1>4 DEF LoopInv

\* When the call at work ends there is no loop.
LEMMA LoopEnds ==
  ASSUME LineInv, NEW a \in Calls, \A b \in Calls : pc[b] \in AtWork => b = a,
         NEW how \in Ended, Finish(a, how)
  PROVE  LoopInv'
<1>1. \A b \in Calls : pc'[b] \notin AtWork
  BY DEF Finish, LineInv, AtWork, Ended
<1>. QED  BY <1>1 DEF LoopInv, LoopAt, AtWork

\* A call that rolls back stops what it started, and then starts what it stopped.
LEMMA LoopRolls ==
  ASSUME LineInv, NEW a \in Calls, \A b \in Calls : pc[b] \in AtWork => b = a,
         NEW new, NEW old, RollBack(a, new, old), UNCHANGED candidate,
         new \subseteq started', new # {} => started' \subseteq New(a),
         old \subseteq stopped', stopped' \subseteq Old(a), stopped' # {} => "stop" \in mishaps'
  PROVE  LoopInv'
<1>1. CASE new # {} /\ LoopOver(a, "undoing", new)
  BY <1>1, LoopGoesOn DEF AtWork
<1>2. CASE new = {} /\ old # {} /\ LoopOver(a, "restoring", old)
  BY <1>2, LoopGoesOn DEF AtWork
<1>3. CASE Finish(a, "rolled_back")
  BY <1>3, LoopEnds DEF Ended
<1>. QED  BY <1>1, <1>2, <1>3, RollFacts

\* Every step keeps the loops.
LEMMA LoopStep == LineInv /\ TableInv /\ LoopInv /\ [Next]_vars => LoopInv'
<1>. SUFFICES ASSUME LineInv, TableInv, LoopInv, [Next]_vars PROVE LoopInv'
  OBVIOUS
<1>1. ASSUME NEW a \in Calls, Apply(a) PROVE LoopInv'
  <2>1. /\ pc[a] = "idle" /\ UNCHANGED <<upstreams, left, started, stopped>>
        /\ \E c \in Candidates : candidate' = [candidate EXCEPT ![a] = c]
        /\ \E s \in {"rejected", "raised", "dry_run", "waiting"} : pc' = [pc EXCEPT ![a] = s]
    BY <1>1 DEF Apply, store, loop
  <2>2. ASSUME NEW b \in Calls, pc'[b] \in AtWork PROVE LoopAt(b)'
    <3>1. b # a /\ pc'[b] = pc[b] /\ candidate'[b] = candidate[b]
      BY <2>1, <2>2 DEF LineInv, TableInv, AtWork
    <3>2. New(b)' = New(b) /\ Old(b)' = Old(b)
      BY <2>1, <3>1 DEF New, Old, ToAdd, ToRemove, ToRestart, Wanted, Configured
    <3>. QED  BY <2>1, <3>1, <3>2, MishapsStay DEF LoopInv, LoopAt
  <2>. QED  BY <2>2 DEF LoopInv, LoopAt, AtWork
<1>2. ASSUME NEW a \in Calls, Opening(a) PROVE LoopInv'
  <2>1. CASE \E w \in {"telemetry", "sink"} : LoopOver(a, w, {})
    BY <1>2, <2>1, OpeningFacts, LoopGoesOn DEF AtWork
  <2>2. CASE LoopOver(a, "starting", New(a))
    BY <1>2, <2>2, OpeningFacts, LoopGoesOn DEF AtWork
  <2>3. CASE New(a) = {} /\ LoopOver(a, "stopping", Old(a))
    <3>1. /\ UNCHANGED candidate /\ started' = {} /\ stopped' = {}
          /\ \A b \in Calls : pc[b] \in AtWork => b = a
      BY <1>2, OpeningFacts
    <3>2. started' = New(a) /\ stopped' \subseteq Old(a) /\ Old(a) = Old(a) \ stopped'
      BY <2>3, <3>1
    <3>. QED  BY <2>3, <3>1, <3>2, LoopGoesOn DEF AtWork
  <2>4. CASE Commit(a)
    BY <1>2, <2>4, OpeningFacts, LoopEnds DEF Commit, Ended
  <2>. QED  BY <1>2, <2>1, <2>2, <2>3, <2>4, OpeningFacts
<1>3. ASSUME NEW a \in Calls, TelemetryRaises(a) PROVE LoopInv'
  <2>1. pc[a] = "telemetry" /\ InProgress(a) /\ Finish(a, "cancelled")
    BY <1>3 DEF TelemetryRaises, Works, InProgress, AtWork
  <2>2. \A b \in Calls : pc[b] \in AtWork => b = a
    BY <2>1, Alone
  <2>. QED  BY <2>1, <2>2, LoopEnds DEF Ended
<1>4. ASSUME NEW a \in Calls, SinkRaises(a) \/ StartRaises(a) PROVE LoopInv'
  BY <1>4, FailFacts, LoopRolls
<1>5. ASSUME NEW a \in Calls, NEW n \in Names, Start(a, n) PROVE LoopInv'
  <2>1. CASE LoopOver(a, "starting", New(a) \ started')
    BY <1>5, <2>1, StartFacts, LoopGoesOn DEF AtWork
  <2>2. CASE started' = New(a) /\ LoopOver(a, "stopping", Old(a))
    <3>1. /\ UNCHANGED candidate /\ stopped' = {}
          /\ \A b \in Calls : pc[b] \in AtWork => b = a
      BY <1>5, StartFacts
    <3>2. stopped' \subseteq Old(a) /\ Old(a) = Old(a) \ stopped'
      BY <3>1
    <3>. QED  BY <2>2, <3>1, <3>2, LoopGoesOn DEF AtWork
  <2>3. CASE Commit(a)
    BY <1>5, <2>3, StartFacts, LoopEnds DEF Commit, Ended
  <2>. QED  BY <1>5, <2>1, <2>2, <2>3, StartFacts
<1>6. ASSUME NEW a \in Calls, NEW n \in Names, Stop(a, n) \/ StopRaises(a, n) PROVE LoopInv'
  <2>1. CASE LoopOver(a, "stopping", Old(a) \ stopped')
    BY <1>6, <2>1, StopFacts, LoopGoesOn DEF AtWork
  <2>2. CASE Commit(a)
    BY <1>6, <2>2, StopFacts, LoopEnds DEF Commit, Ended
  <2>3. CASE mishaps' = mishaps \cup {"stop"} /\ RollBack(a, started, stopped')
    BY <1>6, <2>3, StopFacts, LoopRolls
  <2>. QED  BY <1>6, <2>1, <2>2, <2>3, StopFacts
<1>7. ASSUME NEW a \in Calls, NEW n \in Names, Undo(a, n) PROVE LoopInv'
  <2>1. /\ \A b \in Calls : pc[b] \in AtWork => b = a
        /\ UNCHANGED <<candidate, started, stopped>> /\ RollBack(a, left \ {n}, stopped)
        /\ left \subseteq started /\ started \subseteq New(a) /\ stopped \subseteq Old(a)
        /\ stopped # {} => "stop" \in mishaps
    BY <1>7, UndoFacts
  <2>2. stopped' # {} => "stop" \in mishaps'
    BY <2>1, MishapsStay
  <2>3. left \ {n} \subseteq started' /\ stopped \subseteq stopped' /\ started' \subseteq New(a) /\ stopped' \subseteq Old(a)
    BY <2>1
  <2>. QED  BY <2>1, <2>2, <2>3, LoopRolls
<1>8. ASSUME NEW a \in Calls, NEW n \in Names, Restore(a, n) PROVE LoopInv'
  <2>1. /\ \A b \in Calls : pc[b] \in AtWork => b = a
        /\ UNCHANGED <<candidate, started, stopped>> /\ RollBack(a, {}, left \ {n})
        /\ left \subseteq stopped /\ stopped \subseteq Old(a) /\ "stop" \in mishaps
    BY <1>8, RestoreFacts
  <2>2. "stop" \in mishaps'
    BY <2>1, MishapsStay
  <2>3. {} \subseteq started' /\ left \ {n} \subseteq stopped' /\ stopped' \subseteq Old(a)
    BY <2>1
  <2>. QED  BY <2>1, <2>2, <2>3, LoopRolls
<1>9. ASSUME NEW a \in Calls, Cancelled(a) PROVE LoopInv'
  <2>1. /\ InProgress(a) /\ pc' = [pc EXCEPT ![a] = "cancelled"] /\ UNCHANGED <<upstreams, candidate, started, stopped>>
        /\ pc[a] \notin AtWork => left' = left
    BY <1>9 DEF Cancelled, store
  <2>2. CASE pc[a] \in AtWork
    <3>1. \A b \in Calls : pc'[b] \notin AtWork
      BY <2>1, <2>2, Alone DEF LineInv, AtWork
    <3>. QED  BY <3>1 DEF LoopInv, LoopAt, AtWork
  <2>3. CASE pc[a] \notin AtWork
    <3>1. ASSUME NEW b \in Calls, pc'[b] \in AtWork PROVE LoopAt(b)'
      <4>1. pc'[b] = pc[b]
        BY <2>1, <3>1 DEF LineInv, AtWork
      <4>2. New(b)' = New(b) /\ Old(b)' = Old(b)
        BY <2>1 DEF New, Old, ToAdd, ToRemove, ToRestart, Wanted, Configured
      <4>. QED  BY <2>1, <2>3, <4>1, <4>2, MishapsStay DEF LoopInv, LoopAt
    <3>. QED  BY <3>1 DEF LoopInv, LoopAt, AtWork
  <2>. QED  BY <2>2, <2>3
<1>10. CASE Elsewhere
  BY <1>10, MishapsStay DEF Elsewhere, LoopInv, LoopAt, New, Old, ToAdd, ToRemove, ToRestart, Wanted, Configured, store, loop
<1>. QED  BY <1>1, <1>2, <1>3, <1>4, <1>5, <1>6, <1>7, <1>8, <1>9, <1>10, Kinds DEF Proceed, Opening

\* Nothing is at work at the start.
LEMMA LoopInit == Init => LoopInv
  BY DEF Init, LoopInv, LoopAt

\* Always.
LEMMA LoopAlways == Spec => []LoopInv
  BY LoopInit, LoopStep, LineAlways, TableAlways, PTL DEF Spec

------------------------------------------------------------------------------
(* The transports that are counted *)

\* A restart and the shutdown work on transports that were in the table.
TargetInv ==
    /\ restart \in [Restarts -> {"idle", "stopping", "starting", "done", "missing", "failed"}]
    /\ target \in [Restarts -> Instances \cup {<<>>}] /\ leaving \subseteq Instances
    /\ \A r \in Restarts : Restarting(r) =>
        /\ target[r] \in Instances
        /\ \A n \in Names, a \in Calls : target[r] = <<n, a>> => pc[a] = "applied"

\* No restart is under way at the start.
LEMMA TargetInit == Init => TargetInv
  BY DEF Init, TargetInv, Restarting

\* Every step keeps it.
LEMMA TargetStep == LineInv /\ TableInv /\ TargetInv /\ [Next]_vars => TargetInv'
<1>. SUFFICES ASSUME LineInv, TableInv, TargetInv, [Next]_vars PROVE TargetInv'
  OBVIOUS
<1>1. ASSUME NEW a \in Calls, pc[a] # "applied", \E s : pc' = [pc EXCEPT ![a] = s], UNCHANGED <<restarting, closing>>
      PROVE  TargetInv'
  BY <1>1 DEF TargetInv, LineInv, Restarting, restarting, closing
<1>2. ASSUME NEW a \in Calls, Apply(a) PROVE TargetInv'
  <2>1. /\ pc[a] # "applied" /\ UNCHANGED <<restarting, closing>>
        /\ \E s : pc' = [pc EXCEPT ![a] = s]
    BY <1>2 DEF Apply
  <2>. QED  BY <1>1, <2>1
<1>3. ASSUME NEW a \in Calls, Proceed(a) PROVE TargetInv'
  <2>1. pc[a] # "applied" /\ UNCHANGED <<restarting, closing>> /\ \E s : pc' = [pc EXCEPT ![a] = s]
    BY <1>3, Moves DEF InProgress, AtWork, GoesOn, GivesUp, Commit, Finish
  <2>. QED  BY <1>1, <2>1
<1>4. ASSUME NEW a \in Calls, Cancelled(a) PROVE TargetInv'
  <2>1. pc[a] # "applied" /\ UNCHANGED <<restarting, closing>> /\ \E s : pc' = [pc EXCEPT ![a] = s]
    BY <1>4 DEF Cancelled, InProgress, AtWork
  <2>. QED  BY <1>1, <2>1
<1>5. ASSUME NEW a \in Calls, Swallowed(a) PROVE TargetInv'
  BY <1>5 DEF Swallowed, TargetInv, Restarting, restarting
<1>6. ASSUME NEW r \in Restarts, Restart(r) PROVE TargetInv'
  <2>1. PICK n \in Names :
           IF live[n] = Absent
             THEN restart' = [restart EXCEPT ![r] = "missing"] /\ UNCHANGED target
             ELSE /\ restart' = [restart EXCEPT ![r] = "stopping"]
                  /\ target' = [target EXCEPT ![r] = <<n, live[n]>>]
    BY <1>6 DEF Restart
  <2>2. UNCHANGED <<pc, leaving>>
    BY <1>6 DEF Restart, closing
  <2>3. CASE live[n] = Absent
    BY <2>1, <2>2, <2>3 DEF TargetInv, Restarting
  <2>4. CASE live[n] # Absent
    <3>1. <<n, live[n]>> \in Instances /\ (live[n] \in Calls => pc[live[n]] = "applied")
      BY <2>4 DEF TableInv, Instances
    <3>2. \A s \in Restarts : s # r => target'[s] = target[s] /\ restart'[s] = restart[s]
      BY <2>1, <2>4 DEF TargetInv
    <3>3. target'[r] = <<n, live[n]>>
      BY <2>1, <2>4 DEF TargetInv
    <3>4. /\ restart' \in [Restarts -> {"idle", "stopping", "starting", "done", "missing", "failed"}]
          /\ target' \in [Restarts -> Instances \cup {<<>>}]
      BY <2>1, <2>4, <3>1 DEF TargetInv
    <3>. QED  BY <2>2, <3>1, <3>2, <3>3, <3>4 DEF TargetInv, Restarting
  <2>. QED  BY <2>3, <2>4
<1>7. ASSUME NEW r \in Restarts, ProceedRestart(r) PROVE TargetInv'
  <2>1. /\ Restarting(r) /\ UNCHANGED <<pc, target, leaving>>
        /\ \E s \in {"starting", "done", "failed"} : restart' = [restart EXCEPT ![r] = s]
    BY <1>7 DEF ProceedRestart, RestartStops, RestartStarts, RestartFails, Restarting, closing
  <2>. QED  BY <2>1 DEF TargetInv, Restarting
<1>8. CASE Shutdown \/ ProceedShutdown
  <2>1. UNCHANGED <<pc, restarting>>
    BY <1>8 DEF Shutdown, ProceedShutdown, WatcherEnded, ShutdownEnds, ShutdownStops, ShutdownRaises
  <2>2. leaving' \subseteq Instances
    BY <1>8 DEF Shutdown, ProceedShutdown, WatcherEnded, ShutdownEnds, ShutdownStops, ShutdownRaises, TargetInv,
                ToStop, InTable
  <2>. QED  BY <2>1, <2>2 DEF TargetInv, Restarting, restarting
<1>9. CASE UNCHANGED vars
  BY <1>9 DEF vars, TargetInv, Restarting, restarting, closing
<1>. QED  BY <1>2, <1>3, <1>4, <1>5, <1>6, <1>7, <1>8, <1>9 DEF Next

\* Always.
LEMMA TargetAlways == Spec => []TargetInv
  BY TargetInit, TargetStep, LineAlways, TableAlways, PTL DEF Spec

\* Counting up and down.
LEMMA Counting ==
  ASSUME running \in [Instances -> Nat], NEW i \in Instances
  PROVE  /\ Up(i) \in [Instances -> Nat] /\ Down(i) \in [Instances -> Nat]
         /\ Up(i)[i] = running[i] + 1
         /\ \A j \in Instances : j # i => Up(i)[j] = running[j] /\ Down(i)[j] = running[j]
         /\ Down(i)[i] = IF running[i] = 0 THEN 0 ELSE running[i] - 1
         /\ \A j \in Instances : Down(i)[j] <= running[j]
<1>1. Up(i) = [running EXCEPT ![i] = running[i] + 1]
  BY DEF Up
<1>2. Down(i) = [running EXCEPT ![i] = IF running[i] = 0 THEN 0 ELSE running[i] - 1]
  BY DEF Down
<1>. QED  BY <1>1, <1>2

\* What a cancelled call leaves behind.
LEMMA CancelFacts ==
  ASSUME LineInv, LoopInv, TableInv, NEW a \in Calls, Cancelled(a)
  PROVE  /\ InProgress(a) /\ pc' = [pc EXCEPT ![a] = "cancelled"]
         /\ UNCHANGED <<store, candidate, started, stopped, telemetry, backup, restarting, closing>>
         /\ pc[a] \in AtWork => \A b \in Calls : pc[b] \in AtWork => b = a
         /\ pc[a] \notin AtWork => left' = left
         /\ \/ pc[a] \in {"waiting", "telemetry", "sink"} /\ UNCHANGED <<running, mishaps>>
            \/ /\ "cancel" \in mishaps' /\ pc[a] \in AtWork
               /\ \E n \in Names \cap left :
                   \/ running' = running
                   \/ pc[a] = "starting" /\ running' = Up(<<n, a>>) /\ n \notin started
                   \/ pc[a] = "undoing" /\ running' = Down(<<n, a>>)
                   \/ pc[a] = "stopping" /\ running' = Down(<<n, live[n]>>) /\ live[n] \in Makers
                   \/ pc[a] = "restoring" /\ running' = Up(<<n, live[n]>>) /\ live[n] \in Makers
<1>1. /\ InProgress(a) /\ pc' = [pc EXCEPT ![a] = "cancelled"]
      /\ UNCHANGED <<store, candidate, started, stopped, telemetry, backup, restarting, closing>>
      /\ pc[a] \notin AtWork => left' = left
  BY DEF Cancelled
<1>2. pc[a] \in AtWork => \A b \in Calls : pc[b] \in AtWork => b = a
  BY Alone DEF InProgress, AtWork
<1>3. CASE pc[a] \notin {"starting", "stopping", "undoing", "restoring"}
  BY <1>1, <1>2, <1>3 DEF Cancelled, InProgress, AtWork
<1>4. CASE pc[a] \in {"starting", "stopping", "undoing", "restoring"}
  <2>1. PICK n \in left : running' \in {running,
                     CASE pc[a] = "starting" -> Up(<<n, a>>)
                       [] pc[a] = "undoing" -> Down(<<n, a>>)
                       [] pc[a] = "stopping" -> Down(<<n, live[n]>>)
                       [] pc[a] = "restoring" -> Up(<<n, live[n]>>)}
    BY <1>4 DEF Cancelled
  <2>2. "cancel" \in mishaps' /\ pc[a] \in AtWork
    BY <1>4 DEF Cancelled, Note, AtWork
  <2>3. /\ n \in Names /\ (pc[a] = "starting" => n \notin started)
        /\ pc[a] \in {"stopping", "restoring"} => live[n] \in Makers
    BY <1>4, Differences DEF LoopInv, LoopAt
  <2>4. \/ running' = running
        \/ pc[a] = "starting" /\ running' = Up(<<n, a>>)
        \/ pc[a] = "undoing" /\ running' = Down(<<n, a>>)
        \/ pc[a] = "stopping" /\ running' = Down(<<n, live[n]>>)
        \/ pc[a] = "restoring" /\ running' = Up(<<n, live[n]>>)
    BY <1>4, <2>1
  <2>. QED  BY <1>1, <1>2, <2>2, <2>3, <2>4
<1>. QED  BY <1>3, <1>4

------------------------------------------------------------------------------
(* What a call has yet to start does not run *)

Unborn(n, a) ==
    \/ pc[a] \in {"idle", "waiting", "telemetry", "sink"}
    \/ pc[a] = "starting" /\ n \notin started

FreshInv ==
    /\ running \in [Instances -> Nat]
    /\ \A n \in Names, a \in Calls : Unborn(n, a) => running[<<n, a>>] = 0

\* Only the transports of the start run at the start.
LEMMA FreshInit == Init => FreshInv
<1>. SUFFICES ASSUME Init PROVE FreshInv
  OBVIOUS
<1>1. running = [i \in Instances |-> IF live[i[1]] = Boot /\ i[2] = Boot THEN 1 ELSE 0]
  BY DEF Init
<1>2. \A n \in Names, a \in Calls : <<n, a>> \in Instances /\ a # Boot
  BY Configurations DEF Instances
<1>. QED  BY <1>1, <1>2 DEF FreshInv

\* A call that starts a transport starts the next, stops the old or is done.
LEMMA StartEnds ==
  ASSUME LineInv, LoopInv, NEW a \in Calls, NEW n \in Names, Start(a, n)
  PROVE  pc'[a] \in {"starting", "stopping", "applied"}
<1>1. CASE \E w \in {"starting", "stopping"} : LoopOver(a, w, left')
  BY <1>1 DEF LoopOver, LineInv
<1>2. CASE Commit(a)
  BY <1>2 DEF Commit, Finish, LineInv
<1>. QED  BY <1>1, <1>2, StartFacts DEF LoopOver

\* Nobody unlearns what has been started.
LEMMA UnbornStays ==
  ASSUME LineInv, LoopInv, TableInv, [Next]_vars, NEW n \in Names, NEW a \in Calls, Unborn(n, a)'
  PROVE  Unborn(n, a)
<1>1. ASSUME NEW b \in Calls, Apply(b) PROVE Unborn(n, a)
  <2>1. pc[b] = "idle" /\ started' = started /\ \E s : pc' = [pc EXCEPT ![b] = s]
    BY <1>1 DEF Apply, loop
  <2>. QED  BY <2>1 DEF Unborn, LineInv
<1>2. ASSUME NEW b \in Calls, Cancelled(b) PROVE Unborn(n, a)
  BY <1>2, CancelFacts DEF Unborn, LineInv
<1>3. ASSUME NEW b \in Calls, Proceed(b) PROVE Unborn(n, a)
  <2>1. /\ \E s : pc' = [pc EXCEPT ![b] = s]
        /\ \A c \in Calls \ {b} : pc[c] \notin AtWork
    BY <1>3, Moves, Alone DEF GoesOn, GivesUp, Commit, Finish
  <2>2. CASE a # b
    BY <2>1, <2>2 DEF Unborn, LineInv, AtWork
  <2>3. CASE Opening(b) \/ TelemetryRaises(b) \/ SinkRaises(b)
    <3>1. pc[b] \in {"waiting", "telemetry", "sink"}
      BY <2>3 DEF Opening, Acquire, TelemetryStopped, SinkStarted, TelemetryRaises, SinkRaises, Works
    <3>. QED  BY <2>2, <3>1 DEF Unborn
  <2>4. ASSUME NEW m \in Names, Start(b, m) PROVE Unborn(n, a)
    <3>1. pc[b] = "starting" /\ started' = started \cup {m}
      BY <2>4, StartFacts
    <3>2. CASE a = b
      <4>1. pc'[a] \in {"starting", "stopping", "applied"}
        BY <2>4, <3>2, StartEnds
      <4>2. pc'[a] = "starting" /\ n \notin started'
        BY <1>3, <4>1 DEF Unborn
      <4>. QED  BY <3>1, <3>2, <4>2 DEF Unborn
    <3>. QED  BY <2>2, <3>2
  <2>5. CASE StartRaises(b) \/ \E m \in Names : StopRaises(b, m) \/ Undo(b, m) \/ Restore(b, m)
    <3>1. \E new, old : RollBack(b, new, old)
      BY <2>5, FailFacts, StopFacts, UndoFacts, RestoreFacts DEF StopRaises, Undo, StartRaises, Restore, RollBack
    <3>2. pc'[b] \in {"undoing", "restoring", "rolled_back"}
      BY <3>1, RollFacts DEF LoopOver, Finish, LineInv
    <3>. QED  BY <2>2, <3>2 DEF Unborn
  <2>6. ASSUME NEW m \in Names, Stop(b, m) PROVE Unborn(n, a)
    <3>1. pc'[b] \in {"stopping", "applied"}
      BY <2>6 DEF Stop, LoopOver, Commit, Finish, LineInv
    <3>. QED  BY <2>2, <3>1 DEF Unborn
  <2>. QED  BY <1>3, <2>3, <2>4, <2>5, <2>6 DEF Proceed, Opening
<1>4. CASE Elsewhere
  BY <1>4 DEF Elsewhere, Unborn, loop
<1>. QED  BY <1>1, <1>2, <1>3, <1>4, Kinds

\* Nor what has been applied.
LEMMA AppliedIsBorn ==
  ASSUME LineInv, LoopInv, TableInv, [Next]_vars, NEW n \in Names, NEW a \in Calls, pc[a] = "applied"
  PROVE  ~Unborn(n, a)'
<1>1. ~Unborn(n, a)
  BY DEF Unborn
<1>. QED  BY <1>1, UnbornStays

\* Counting down does no harm.
LEMMA FreshDown ==
  ASSUME LineInv, LoopInv, TableInv, FreshInv, [Next]_vars, NEW i \in Instances,
         running' = running \/ running' = Down(i)
  PROVE  FreshInv'
<1>1. running' \in [Instances -> Nat] /\ \A j \in Instances : running'[j] <= running[j]
  <2>1. \A j \in Instances : running[j] \in Nat /\ running[j] <= running[j]
    BY DEF FreshInv
  <2>. QED  BY <2>1, Counting DEF FreshInv
<1>2. ASSUME NEW n \in Names, NEW a \in Calls, Unborn(n, a)' PROVE running'[<<n, a>>] = 0
  <2>1. <<n, a>> \in Instances /\ running[<<n, a>>] = 0
    BY <1>2, UnbornStays DEF FreshInv, Instances, Makers
  <2>. QED  BY <1>1, <2>1
<1>. QED  BY <1>1, <1>2 DEF FreshInv

\* Only a transport that its call has started is counted up.
LEMMA FreshUp ==
  ASSUME LineInv, LoopInv, TableInv, FreshInv, [Next]_vars, NEW n \in Names, NEW m \in Makers,
         m \in Calls => ~Unborn(n, m)', running' = Up(<<n, m>>)
  PROVE  FreshInv'
<1>1. <<n, m>> \in Instances
  BY DEF Instances
<1>2. running' \in [Instances -> Nat] /\ \A j \in Instances : j # <<n, m>> => running'[j] = running[j]
  BY <1>1, Counting DEF FreshInv
<1>3. ASSUME NEW k \in Names, NEW a \in Calls, Unborn(k, a)' PROVE running'[<<k, a>>] = 0
  <2>1. <<k, a>> \in Instances /\ running[<<k, a>>] = 0 /\ <<k, a>> # <<n, m>>
    BY <1>3, UnbornStays DEF FreshInv, Instances, Makers
  <2>. QED  BY <1>2, <2>1
<1>. QED  BY <1>2, <1>3 DEF FreshInv

\* Nor does a step that counts nothing.
LEMMA FreshSame ==
  ASSUME LineInv, LoopInv, TableInv, FreshInv, [Next]_vars, UNCHANGED running
  PROVE  FreshInv'
  BY UnbornStays DEF FreshInv

\* Every step keeps it.
LEMMA FreshStep == LineInv /\ TableInv /\ LoopInv /\ TargetInv /\ FreshInv /\ [Next]_vars => FreshInv'
<1>. SUFFICES ASSUME LineInv, TableInv, LoopInv, TargetInv, FreshInv, [Next]_vars PROVE FreshInv'
  OBVIOUS
<1>0. \A n \in Names, m \in Makers : <<n, m>> \in Instances
  BY DEF Instances
<1>1. ASSUME NEW a \in Calls, Apply(a) \/ Opening(a) \/ TelemetryRaises(a) \/ SinkRaises(a) \/ StartRaises(a)
      PROVE FreshInv'
  <2>1. UNCHANGED running
    BY <1>1, OpeningFacts DEF Apply, TelemetryRaises, SinkRaises, StartRaises
  <2>. QED  BY <2>1, FreshSame
<1>2. ASSUME NEW a \in Calls, NEW n \in Names, Start(a, n) PROVE FreshInv'
  <2>1. running' = Up(<<n, a>>) /\ a \in Makers
    BY <1>2, StartFacts DEF Makers
  <2>2. pc'[a] \in {"starting", "stopping", "applied"} /\ n \in started'
    <3>1. pc'[a] \in {"starting", "stopping", "applied"}
      BY <1>2, StartEnds
    <3>2. n \in started'
      BY <1>2, StartFacts
    <3>. QED  BY <3>1, <3>2
  <2>3. ~Unborn(n, a)'
    BY <2>2 DEF Unborn
  <2>. QED  BY <2>1, <2>3, FreshUp
<1>3. ASSUME NEW a \in Calls, NEW n \in Names, Stop(a, n) \/ StopRaises(a, n) \/ Undo(a, n) PROVE FreshInv'
  <2>1. \E m \in Makers : running' = running \/ running' = Down(<<n, m>>)
    <3>1. CASE Stop(a, n) \/ StopRaises(a, n)
      <4>1. live[n] \in Makers /\ (running' = running \/ running' = Down(<<n, live[n]>>))
        BY <3>1, StopFacts
      <4>. QED  BY <4>1
    <3>2. CASE Undo(a, n)
      <4>1. a \in Makers /\ (running' = running \/ running' = Down(<<n, a>>))
        BY <3>2, UndoFacts DEF Makers
      <4>. QED  BY <4>1
    <3>. QED  BY <1>3, <3>1, <3>2
  <2>. QED  BY <1>0, <2>1, FreshDown
<1>4. ASSUME NEW a \in Calls, NEW n \in Names, Restore(a, n) PROVE FreshInv'
  <2>1. live[n] \in Makers /\ live[n] # a /\ (live[n] \in Calls => pc[live[n]] = "applied")
    BY <1>4, RestoreFacts DEF TableInv
  <2>2. PICK m \in Makers : m = live[n]
    BY <2>1
  <2>3. m \in Calls => ~Unborn(n, m)'
    BY <2>1, <2>2, AppliedIsBorn
  <2>4. running' = Up(<<n, m>>) \/ UNCHANGED running
    BY <1>4, <2>2, RestoreFacts
  <2>. QED  BY <2>3, <2>4, FreshUp, FreshSame
<1>5. ASSUME NEW a \in Calls, Cancelled(a) PROVE FreshInv'
  <2>1. CASE UNCHANGED running
    BY <2>1, FreshSame
  <2>2. CASE ~UNCHANGED running
    <3>1. PICK n \in Names :
             \/ pc[a] = "starting" /\ running' = Up(<<n, a>>)
             \/ running' = Down(<<n, a>>)
             \/ running' = Down(<<n, live[n]>>) /\ live[n] \in Makers
             \/ running' = Up(<<n, live[n]>>) /\ live[n] \in Makers
      BY <1>5, <2>2, CancelFacts
    <3>2. pc'[a] = "cancelled" /\ a \in Makers
      BY <1>5, CancelFacts DEF LineInv, Makers
    <3>3. CASE running' = Up(<<n, a>>)
      BY <3>2, <3>3, FreshUp DEF Unborn
    <3>4. CASE \E i \in Instances : running' = Down(i)
      BY <3>4, FreshDown
    <3>5. CASE running' = Up(<<n, live[n]>>) /\ live[n] \in Makers
      <4>1. PICK m \in Makers : m = live[n] /\ running' = Up(<<n, m>>)
        BY <3>5
      <4>2. m \in Calls => ~Unborn(n, m)'
        BY <4>1, AppliedIsBorn DEF TableInv
      <4>. QED  BY <4>1, <4>2, FreshUp
    <3>. QED  BY <1>0, <3>1, <3>2, <3>3, <3>4, <3>5
  <2>. QED  BY <2>1, <2>2
<1>6. ASSUME NEW r \in Restarts, ProceedRestart(r) PROVE FreshInv'
  <2>1. Restarting(r) /\ running' \in {running, Up(target[r]), Down(target[r])}
    BY <1>6 DEF ProceedRestart, RestartStops, RestartStarts, RestartFails, Restarting, Starts, Stops
  <2>2. PICK n \in Names, m \in Makers : target[r] = <<n, m>>
    BY <2>1 DEF TargetInv, Instances
  <2>3. m \in Calls => ~Unborn(n, m)'
    BY <2>1, <2>2, AppliedIsBorn DEF TargetInv
  <2>. QED  BY <1>0, <2>1, <2>2, <2>3, FreshUp, FreshDown, FreshSame
<1>7. ASSUME NEW i \in Instances, ShutdownStops(i) \/ ShutdownRaises(i) PROVE FreshInv'
  BY <1>7, FreshDown DEF ShutdownStops, ShutdownRaises, Stops, StopFails
<1>8. ASSUME \/ \E a \in Calls : Swallowed(a)
             \/ \E r \in Restarts : Restart(r)
             \/ Shutdown \/ WatcherEnded \/ ShutdownEnds \/ UNCHANGED vars
      PROVE  FreshInv'
  <2>1. UNCHANGED running
    BY <1>8 DEF Swallowed, Restart, Shutdown, WatcherEnded, ShutdownEnds, vars
  <2>. QED  BY <2>1, FreshSame
<1>. QED
  BY <1>1, <1>2, <1>3, <1>4, <1>5, <1>6, <1>7, <1>8 DEF Next, Proceed, Opening, ProceedShutdown

\* Always.
LEMMA FreshAlways == Spec => []FreshInv
  BY FreshInit, FreshStep, LineAlways, TableAlways, LoopAlways, TargetAlways, PTL DEF Spec

------------------------------------------------------------------------------
(* What runs is counted: nobody starts the same transport twice *)

SpentCalls(n) == {a \in Calls : pc[a] \in Ended \/ (pc[a] = "restoring" /\ n \notin left)}
SpentRestarts == {r \in Restarts : restart[r] \in {"done", "failed"}}
Allowed(n) == 1 + Cardinality(SpentCalls(n)) + Cardinality(SpentRestarts)

BoundInv == \A i \in Instances : running[i] <= Allowed(i[1])

\* The cardinality of a set that grows.
LEMMA Growing ==
  ASSUME NEW T, IsFiniteSet(T), NEW S1 \in SUBSET T, NEW S2 \in SUBSET T, S1 \subseteq S2
  PROVE  /\ Cardinality(S1) \in Nat /\ Cardinality(S2) \in Nat /\ Cardinality(S1) <= Cardinality(S2)
         /\ S1 # S2 => Cardinality(S1) < Cardinality(S2)
<1>1. IsFiniteSet(S1) /\ IsFiniteSet(S2)
  BY FS_Subset
<1>2. Cardinality(S1) \in Nat /\ Cardinality(S2) \in Nat
  BY <1>1, FS_CardinalityType
<1>3. Cardinality(S1) <= Cardinality(S2) /\ (Cardinality(S2) = Cardinality(S1) => S2 = S1)
  BY <1>1, FS_Subset
<1>. QED  BY <1>2, <1>3

\* Who has had a turn has had it.
LEMMA SpentStays ==
  ASSUME LineInv, LoopInv, TableInv, TargetInv, [Next]_vars, NEW n \in Names
  PROVE  SpentCalls(n) \subseteq SpentCalls(n)' /\ SpentRestarts \subseteq SpentRestarts'
<1>1. SpentRestarts \subseteq SpentRestarts'
  <2>1. ASSUME NEW r \in Restarts, Restart(r) \/ ProceedRestart(r) PROVE SpentRestarts \subseteq SpentRestarts'
    <3>1. restart[r] \notin {"done", "failed"} /\ \E s : restart' = [restart EXCEPT ![r] = s]
      BY <2>1 DEF Restart, ProceedRestart, RestartStops, RestartStarts, RestartFails
    <3>. QED  BY <3>1 DEF SpentRestarts, TargetInv
  <2>2. ASSUME NEW a \in Calls, Proceed(a) PROVE restart' = restart
    BY <2>2, Moves DEF restarting
  <2>3. ASSUME NEW a \in Calls, Apply(a) \/ Cancelled(a) \/ Swallowed(a) PROVE restart' = restart
    BY <2>3 DEF Apply, Cancelled, Swallowed, restarting
  <2>4. ASSUME Shutdown \/ ProceedShutdown \/ UNCHANGED vars PROVE restart' = restart
    BY <2>4 DEF Shutdown, ProceedShutdown, WatcherEnded, ShutdownEnds, ShutdownStops, ShutdownRaises, vars, restarting
  <2>. QED  BY <2>1, <2>2, <2>3, <2>4 DEF Next, SpentRestarts
<1>2. ASSUME NEW b \in Calls, Apply(b) PROVE SpentCalls(n) \subseteq SpentCalls(n)'
  <2>1. pc[b] = "idle" /\ left' = left /\ \E s : pc' = [pc EXCEPT ![b] = s]
    BY <1>2 DEF Apply, loop
  <2>. QED  BY <2>1 DEF SpentCalls, LineInv, Ended
<1>3. ASSUME NEW b \in Calls, Cancelled(b) PROVE SpentCalls(n) \subseteq SpentCalls(n)'
  <2>1. /\ InProgress(b) /\ pc' = [pc EXCEPT ![b] = "cancelled"]
        /\ pc[b] \in AtWork => \A c \in Calls : pc[c] \in AtWork => c = b
        /\ pc[b] \notin AtWork => left' = left
    BY <1>3, CancelFacts
  <2>. QED  BY <2>1 DEF SpentCalls, LineInv, Ended, AtWork
<1>4. ASSUME NEW b \in Calls, Proceed(b) PROVE SpentCalls(n) \subseteq SpentCalls(n)'
  <2>1. /\ InProgress(b) /\ \E s : pc' = [pc EXCEPT ![b] = s]
        /\ \A c \in Calls \ {b} : pc[c] \notin AtWork
    BY <1>4, Moves, Alone DEF GoesOn, GivesUp, Commit, Finish
  <2>2. CASE pc[b] # "restoring"
    BY <2>1, <2>2 DEF SpentCalls, LineInv, Ended, AtWork, InProgress
  <2>3. CASE pc[b] = "restoring"
    <3>1. PICK m \in Names : Restore(b, m)
      BY <1>4, <2>3 DEF Proceed, Acquire, TelemetryStopped, TelemetryRaises, SinkStarted, SinkRaises, StartRaises,
                        Start, Stop, StopRaises, Undo, Works
    <3>2. \/ LoopOver(b, "restoring", left \ {m})
          \/ Finish(b, "rolled_back")
      <4>1. RollBack(b, {}, left \ {m})
        BY <3>1, RestoreFacts
      <4>. QED  BY <4>1, RollFacts
    <3>3. \A c \in Calls : c # b => pc'[c] = pc[c] /\ pc[c] \notin AtWork
      BY <2>1 DEF LineInv
    <3>4. pc'[b] = "rolled_back" \/ (pc'[b] = "restoring" /\ left' \subseteq left)
      BY <3>2 DEF LoopOver, Finish, LineInv
    <3>. QED  BY <3>3, <3>4, <2>3 DEF SpentCalls, Ended, AtWork
  <2>. QED  BY <2>2, <2>3
<1>5. CASE Elsewhere
  BY <1>1, <1>5 DEF Elsewhere, SpentCalls, loop
<1>. QED  BY <1>1, <1>2, <1>3, <1>4, <1>5, Kinds

\* What is counted up was not running, or pays with a turn.
LEMMA Paid ==
  ASSUME LineInv, LoopInv, TableInv, TargetInv, FreshInv, [Next]_vars
  PROVE  \/ running' = running
         \/ \E i \in Instances : running' = Down(i)
         \/ \E n \in Names, m \in Makers :
               /\ running' = Up(<<n, m>>)
               /\ \/ m \in Calls /\ Unborn(n, m)
                  \/ \E a \in Calls : a \notin SpentCalls(n) /\ a \in SpentCalls(n)'
                  \/ \E r \in Restarts : r \notin SpentRestarts /\ r \in SpentRestarts'
<1>0. \A n \in Names, m \in Makers : <<n, m>> \in Instances
  BY DEF Instances
<1>1. ASSUME NEW a \in Calls, Apply(a) \/ Opening(a) \/ TelemetryRaises(a) \/ SinkRaises(a) \/ StartRaises(a)
      PROVE running' = running
  BY <1>1, OpeningFacts DEF Apply, TelemetryRaises, SinkRaises, StartRaises
<1>2. ASSUME NEW a \in Calls, NEW n \in Names, Start(a, n)
      PROVE  a \in Makers /\ running' = Up(<<n, a>>) /\ Unborn(n, a)
  BY <1>2, StartFacts DEF Unborn, Makers
<1>3. ASSUME NEW a \in Calls, NEW n \in Names, Stop(a, n) \/ StopRaises(a, n) \/ Undo(a, n)
      PROVE  running' = running \/ \E m \in Makers : running' = Down(<<n, m>>)
  <2>1. CASE Stop(a, n) \/ StopRaises(a, n)
    <3>1. live[n] \in Makers /\ (running' = running \/ running' = Down(<<n, live[n]>>))
      BY <2>1, StopFacts
    <3>. QED  BY <3>1
  <2>2. CASE Undo(a, n)
    <3>1. a \in Makers /\ (running' = running \/ running' = Down(<<n, a>>))
      BY <2>2, UndoFacts DEF Makers
    <3>. QED  BY <3>1
  <2>. QED  BY <1>3, <2>1, <2>2
<1>4. ASSUME NEW a \in Calls, NEW n \in Names, Restore(a, n)
      PROVE  \/ running' = running
             \/ /\ live[n] \in Makers /\ running' = Up(<<n, live[n]>>)
                /\ a \notin SpentCalls(n) /\ a \in SpentCalls(n)'
  <2>1. /\ pc[a] = "restoring" /\ n \in left /\ live[n] \in Makers
        /\ running' = running \/ running' = Up(<<n, live[n]>>)
        /\ LoopOver(a, "restoring", left \ {n}) \/ Finish(a, "rolled_back")
    BY <1>4, RestoreFacts, RollFacts
  <2>2. a \notin SpentCalls(n)
    BY <2>1 DEF SpentCalls, Ended
  <2>3. pc'[a] = "rolled_back" \/ (pc'[a] = "restoring" /\ n \notin left')
    BY <2>1 DEF LoopOver, Finish, LineInv
  <2>4. a \in SpentCalls(n)'
    BY <2>3 DEF SpentCalls, Ended
  <2>. QED  BY <2>1, <2>2, <2>4
<1>5. ASSUME NEW a \in Calls, Cancelled(a)
      PROVE  \/ running' = running
             \/ \E i \in Instances : running' = Down(i)
             \/ \E n \in Names, m \in Makers :
                   /\ running' = Up(<<n, m>>)
                   /\ \/ m \in Calls /\ Unborn(n, m)
                      \/ a \notin SpentCalls(n) /\ a \in SpentCalls(n)'
  <2>1. CASE UNCHANGED running
    BY <2>1
  <2>2. CASE ~UNCHANGED running
    <3>1. PICK n \in Names \cap left :
             \/ pc[a] = "starting" /\ running' = Up(<<n, a>>) /\ n \notin started
             \/ running' = Down(<<n, a>>)
             \/ running' = Down(<<n, live[n]>>) /\ live[n] \in Makers
             \/ pc[a] = "restoring" /\ running' = Up(<<n, live[n]>>) /\ live[n] \in Makers
      BY <1>5, <2>2, CancelFacts
    <3>2. pc'[a] = "cancelled" /\ a \in Makers
      BY <1>5, CancelFacts DEF LineInv, Makers
    <3>3. a \in SpentCalls(n)'
      BY <3>2 DEF SpentCalls, Ended
    <3>4. CASE pc[a] = "starting" /\ running' = Up(<<n, a>>) /\ n \notin started
      BY <3>2, <3>4 DEF Unborn
    <3>5. CASE \E i \in Instances : running' = Down(i)
      BY <3>5
    <3>6. CASE pc[a] = "restoring" /\ running' = Up(<<n, live[n]>>) /\ live[n] \in Makers
      <4>1. a \notin SpentCalls(n)
        BY <3>6 DEF SpentCalls, Ended
      <4>. QED  BY <3>3, <3>6, <4>1
    <3>. QED  BY <1>0, <3>1, <3>2, <3>4, <3>5, <3>6
  <2>. QED  BY <2>1, <2>2
<1>6. ASSUME NEW r \in Restarts, ProceedRestart(r)
      PROVE  \/ running' = running
             \/ \E i \in Instances : running' = Down(i)
             \/ \E n \in Names, m \in Makers :
                   running' = Up(<<n, m>>) /\ r \notin SpentRestarts /\ r \in SpentRestarts'
  <2>1. /\ Restarting(r) /\ running' \in {running, Up(target[r]), Down(target[r])}
        /\ running' = Up(target[r]) => \/ \E s \in {"done", "failed"} : restart' = [restart EXCEPT ![r] = s]
                                       \/ running' = Down(target[r])
    BY <1>6 DEF ProceedRestart, RestartStops, RestartStarts, RestartFails, Restarting, Starts, Stops
  <2>2. PICK n \in Names, m \in Makers : target[r] = <<n, m>>
    BY <2>1 DEF TargetInv, Instances
  <2>3. r \notin SpentRestarts /\ ((\E s \in {"done", "failed"} : restart' = [restart EXCEPT ![r] = s]) => r \in SpentRestarts')
    BY <2>1 DEF SpentRestarts, Restarting, TargetInv
  <2>. QED  BY <1>0, <2>1, <2>2, <2>3
<1>7. ASSUME NEW i \in Instances, ShutdownStops(i) \/ ShutdownRaises(i)
      PROVE  running' = running \/ running' = Down(i)
  BY <1>7 DEF ShutdownStops, ShutdownRaises, Stops, StopFails
<1>8. ASSUME \/ \E a \in Calls : Swallowed(a)
             \/ \E r \in Restarts : Restart(r)
             \/ Shutdown \/ WatcherEnded \/ ShutdownEnds \/ UNCHANGED vars
      PROVE  running' = running
  BY <1>8 DEF Swallowed, Restart, Shutdown, WatcherEnded, ShutdownEnds, vars
<1>. QED
  BY <1>0, <1>1, <1>2, <1>3, <1>4, <1>5, <1>6, <1>7, <1>8 DEF Next, Proceed, Opening, ProceedShutdown

\* Each turn is worth one.
LEMMA AllowedGrows ==
  ASSUME LineInv, LoopInv, TableInv, TargetInv, [Next]_vars, NEW n \in Names
  PROVE  /\ Allowed(n) \in Nat /\ Allowed(n)' \in Nat /\ Allowed(n) >= 1 /\ Allowed(n) <= Allowed(n)'
         /\ \/ \E a \in Calls : a \notin SpentCalls(n) /\ a \in SpentCalls(n)'
            \/ \E r \in Restarts : r \notin SpentRestarts /\ r \in SpentRestarts'
            => Allowed(n) < Allowed(n)'
<1>1. IsFiniteSet(Calls) /\ IsFiniteSet(Restarts)
  BY ConfigAssumption
<1>2. SpentCalls(n) \subseteq SpentCalls(n)' /\ SpentRestarts \subseteq SpentRestarts'
  BY SpentStays
<1>3. SpentCalls(n) \subseteq Calls /\ SpentCalls(n)' \subseteq Calls /\ SpentRestarts \subseteq Restarts /\ SpentRestarts' \subseteq Restarts
  BY DEF SpentCalls, SpentRestarts
<1>4. /\ Cardinality(SpentCalls(n)) \in Nat /\ Cardinality(SpentCalls(n)') \in Nat
      /\ Cardinality(SpentCalls(n)) <= Cardinality(SpentCalls(n)')
      /\ SpentCalls(n) # SpentCalls(n)' => Cardinality(SpentCalls(n)) < Cardinality(SpentCalls(n)')
  BY <1>1, <1>2, <1>3, Growing
<1>5. /\ Cardinality(SpentRestarts) \in Nat /\ Cardinality(SpentRestarts') \in Nat
      /\ Cardinality(SpentRestarts) <= Cardinality(SpentRestarts')
      /\ SpentRestarts # SpentRestarts' => Cardinality(SpentRestarts) < Cardinality(SpentRestarts')
  BY <1>1, <1>2, <1>3, Growing
<1>6. Allowed(n)' = 1 + Cardinality(SpentCalls(n)') + Cardinality(SpentRestarts')
  BY DEF Allowed
<1>. QED  BY <1>4, <1>5, <1>6 DEF Allowed

\* Every step keeps the bound.
LEMMA BoundStep == LineInv /\ TableInv /\ LoopInv /\ TargetInv /\ FreshInv /\ BoundInv /\ [Next]_vars => BoundInv'
<1>. SUFFICES ASSUME LineInv, TableInv, LoopInv, TargetInv, FreshInv, BoundInv, [Next]_vars,
                     NEW j \in Instances
              PROVE  running'[j] <= Allowed(j[1])'
  BY DEF BoundInv
<1>1. j[1] \in Names /\ running[j] \in Nat /\ running[j] <= Allowed(j[1])
  BY DEF Instances, FreshInv, BoundInv
<1>2. Allowed(j[1]) \in Nat /\ Allowed(j[1])' \in Nat /\ Allowed(j[1]) >= 1 /\ Allowed(j[1]) <= Allowed(j[1])'
  BY <1>1, AllowedGrows
<1>3. CASE running' = running \/ \E i \in Instances : running' = Down(i)
  <2>1. running'[j] \in Nat /\ running'[j] <= running[j]
    BY <1>1, <1>3, Counting DEF FreshInv
  <2>. QED  BY <1>1, <1>2, <2>1
<1>4. ASSUME NEW n \in Names, NEW m \in Makers, running' = Up(<<n, m>>),
             \/ m \in Calls /\ Unborn(n, m)
             \/ \E a \in Calls : a \notin SpentCalls(n) /\ a \in SpentCalls(n)'
             \/ \E r \in Restarts : r \notin SpentRestarts /\ r \in SpentRestarts'
      PROVE  running'[j] <= Allowed(j[1])'
  <2>1. <<n, m>> \in Instances /\ <<n, m>>[1] = n
    BY DEF Instances
  <2>2. CASE j # <<n, m>>
    <3>1. running'[j] = running[j]
      BY <1>4, <2>1, <2>2, Counting DEF FreshInv
    <3>. QED  BY <1>1, <1>2, <3>1
  <2>3. CASE j = <<n, m>>
    <3>1. running'[j] = running[j] + 1 /\ j[1] = n
      BY <1>4, <2>1, <2>3, Counting DEF FreshInv
    <3>2. CASE m \in Calls /\ Unborn(n, m)
      <4>1. running[j] = 0
        BY <2>3, <3>2 DEF FreshInv
      <4>. QED  BY <1>2, <3>1, <4>1
    <3>3. CASE \/ \E a \in Calls : a \notin SpentCalls(n) /\ a \in SpentCalls(n)'
               \/ \E r \in Restarts : r \notin SpentRestarts /\ r \in SpentRestarts'
      <4>1. Allowed(n) < Allowed(n)'
        BY <3>3, AllowedGrows
      <4>2. Allowed(n) \in Nat /\ Allowed(n)' \in Nat /\ running[j] <= Allowed(n) /\ Allowed(j[1])' = Allowed(n)'
        BY <1>1, <1>2, <3>1
      <4>. QED  BY <1>1, <3>1, <4>1, <4>2
    <3>. QED  BY <1>4, <3>2, <3>3
  <2>. QED  BY <2>2, <2>3
<1>. QED  BY <1>3, <1>4, Paid

\* One of each runs at the start.
LEMMA BoundInit == Init => BoundInv
<1>. SUFFICES ASSUME Init PROVE BoundInv
  OBVIOUS
<1>1. \A i \in Instances : running[i] \in {0, 1}
  BY DEF Init
<1>2. \A n : Cardinality(SpentCalls(n)) \in Nat /\ Cardinality(SpentRestarts) \in Nat
  <2>1. \A n : SpentCalls(n) \subseteq Calls /\ SpentRestarts \subseteq Restarts
    BY DEF SpentCalls, SpentRestarts
  <2>2. IsFiniteSet(Calls) /\ IsFiniteSet(Restarts)
    BY ConfigAssumption
  <2>. QED  BY <2>1, <2>2, FS_Subset, FS_CardinalityType
<1>. QED  BY <1>1, <1>2 DEF BoundInv, Allowed

\* Always.
LEMMA BoundAlways == Spec => []BoundInv
  BY BoundInit, BoundStep, LineAlways, TableAlways, LoopAlways, TargetAlways, FreshAlways, PTL DEF Spec

\* What the counts amount to.
LEMMA Bounded ==
  ASSUME FreshInv, BoundInv
  PROVE  running \in [Instances -> 0 .. 1 + Cardinality(Calls) + Cardinality(Restarts)]
<1>1. ASSUME NEW i \in Instances PROVE running[i] \in 0 .. 1 + Cardinality(Calls) + Cardinality(Restarts)
  <2>1. IsFiniteSet(Calls) /\ IsFiniteSet(Restarts)
    BY ConfigAssumption
  <2>2. SpentCalls(i[1]) \subseteq Calls /\ SpentRestarts \subseteq Restarts
    BY DEF SpentCalls, SpentRestarts
  <2>3. /\ Cardinality(Calls) \in Nat /\ Cardinality(Restarts) \in Nat
        /\ Cardinality(SpentCalls(i[1])) \in Nat /\ Cardinality(SpentRestarts) \in Nat
        /\ Cardinality(SpentCalls(i[1])) <= Cardinality(Calls) /\ Cardinality(SpentRestarts) <= Cardinality(Restarts)
    BY <2>1, <2>2, FS_Subset, FS_CardinalityType
  <2>4. running[i] \in Nat /\ running[i] <= 1 + Cardinality(SpentCalls(i[1])) + Cardinality(SpentRestarts)
    BY DEF FreshInv, BoundInv, Allowed
  <2>. QED  BY <2>3, <2>4
<1>. QED  BY <1>1 DEF FreshInv

\* The rest of the types.
RestInv ==
    /\ left \subseteq Names /\ started \subseteq Names /\ stopped \subseteq Names
    /\ worn \in BOOLEAN
    /\ down \in {"up", "cancelling", "joining", "stopping", "over", "failed"}
    /\ mishaps \subseteq {"stop", "restore", "cancel", "overlap", "swallow"}

\* A loop is over names.
LEMMA LoopNames ==
  ASSUME TableInv, RestInv, NEW a \in Calls,
         \/ StartNew(a) \/ StopPrevious(a) \/ Commit(a)
         \/ \E w : \E s \in SUBSET Names : LoopOver(a, w, s)
         \/ \E new, old \in SUBSET Names : RollBack(a, new, old)
  PROVE  left' \subseteq Names
<1>1. New(a) \subseteq Names /\ Old(a) \subseteq Names
  BY Differences
<1>. QED
  BY <1>1 DEF StartNew, StopPrevious, Commit, LoopOver, Finish, RollBack, RestorePrevious, RolledBack, New, Old

\* Every step keeps them.
LEMMA RestStep == TableInv /\ SinkInv /\ RestInv /\ [Next]_vars => RestInv'
<1>. SUFFICES ASSUME TableInv, SinkInv, RestInv, [Next]_vars PROVE RestInv'
  OBVIOUS
<1>1. mishaps' \subseteq {"stop", "restore", "cancel", "overlap", "swallow"}
  BY MishapsGrow DEF Wrongs, RestInv
<1>2. down' \in {"up", "cancelling", "joining", "stopping", "over", "failed"}
  <2>1. ASSUME NEW a \in Calls, Apply(a) \/ Proceed(a) \/ Cancelled(a) PROVE down' = down
    BY <2>1, Moves DEF Apply, Cancelled, closing
  <2>2. ASSUME NEW r \in Restarts, Restart(r) \/ ProceedRestart(r) PROVE down' = down
    BY <2>2 DEF Restart, ProceedRestart, RestartStops, RestartStarts, RestartFails, closing
  <2>3. ASSUME \/ \E a \in Calls : Swallowed(a)
               \/ Shutdown \/ WatcherEnded \/ ShutdownEnds
               \/ \E i \in Instances : ShutdownRaises(i)
        PROVE  down' \in {"cancelling", "joining", "stopping", "over", "failed"}
    BY <2>3 DEF Swallowed, Shutdown, WatcherEnded, ShutdownEnds, ShutdownRaises
  <2>4. ASSUME UNCHANGED vars \/ \E i \in Instances : ShutdownStops(i) PROVE down' = down
    BY <2>4 DEF vars, closing, ShutdownStops
  <2>. QED  BY <2>1, <2>2, <2>3, <2>4 DEF Next, ProceedShutdown, RestInv
<1>3. worn' \in BOOLEAN
  <2>. worn \in BOOLEAN
    BY DEF RestInv
  <2>1. ASSUME NEW a \in Calls, NEW new, NEW old, RollBack(a, new, old) PROVE worn' \in BOOLEAN
    <3>1. worn' = worn \/ worn' = (worn \/ ReplacesTelemetry(a))
      BY <2>1 DEF RollBack, RestorePrevious, RolledBack
    <3>. QED  BY <3>1
  <2>2. ASSUME NEW a \in Calls, Proceed(a) PROVE worn' \in BOOLEAN
    <3>1. CASE Acquire(a) \/ TelemetryStopped(a) \/ TelemetryRaises(a) \/ SinkStarted(a)
      BY <3>1 DEF Acquire, TelemetryStopped, TelemetryRaises, SinkStarted
    <3>2. CASE SinkRaises(a) \/ StartRaises(a)
      BY <2>1, <3>2 DEF SinkRaises, StartRaises
    <3>3. ASSUME NEW n \in Names, Start(a, n) \/ Stop(a, n) PROVE worn' \in BOOLEAN
      BY <3>3 DEF Start, Stop, pipeline
    <3>4. ASSUME NEW n \in Names, StopRaises(a, n) \/ Undo(a, n) PROVE worn' \in BOOLEAN
      BY <2>1, <3>4 DEF StopRaises, Undo
    <3>5. ASSUME NEW n \in Names, Restore(a, n) PROVE worn' \in BOOLEAN
      <4>1. RollBack(a, {}, left \ {n})
        BY <3>5 DEF Restore, RollBack
      <4>. QED  BY <2>1, <4>1
    <3>6. CASE \E n \in Names : Start(a, n) \/ Stop(a, n) \/ StopRaises(a, n) \/ Undo(a, n) \/ Restore(a, n)
      BY <3>3, <3>4, <3>5, <3>6
    <3>. QED  BY <2>2, <3>1, <3>2, <3>6 DEF Proceed
  <2>3. ASSUME NEW a \in Calls, Cancelled(a) PROVE worn' \in BOOLEAN
    <3>1. worn' = (worn \/ pc[a] \in {"telemetry", "sink"})
      BY <2>3 DEF Cancelled
    <3>. QED  BY <3>1
  <2>4. ASSUME NEW a \in Calls, Apply(a) PROVE worn' \in BOOLEAN
    BY <2>4 DEF Apply, pipeline
  <2>5. CASE UNCHANGED worn
    BY <2>5
  <2>6. CASE ShutdownEnds
    BY <2>6 DEF ShutdownEnds
  <2>. QED  BY <2>2, <2>3, <2>4, <2>5, <2>6, FlushElsewhere
<1>4. ASSUME NEW a \in Calls, Proceed(a)
      PROVE  left' \subseteq Names /\ started' \subseteq Names /\ stopped' \subseteq Names
  <2>1. left \subseteq Names /\ started \subseteq Names /\ stopped \subseteq Names
    BY DEF RestInv
  <2>2. started' \subseteq Names /\ stopped' \subseteq Names
    BY <1>4, <2>1 DEF Proceed, Acquire, TelemetryStopped, TelemetryRaises, SinkStarted, SinkRaises, StartRaises,
                      Start, Stop, StopRaises, Undo, Restore
  <2>3. CASE Acquire(a) \/ TelemetryStopped(a) \/ TelemetryRaises(a) \/ SinkStarted(a)
    <3>1. StartNew(a) \/ left' = {}
      BY <2>3 DEF Acquire, TelemetryStopped, TelemetryRaises, SinkStarted, LoopOver, Finish
    <3>2. CASE StartNew(a)
      BY <2>2, <3>2, LoopNames
    <3>. QED  BY <2>2, <3>1, <3>2
  <2>4. CASE SinkRaises(a) \/ StartRaises(a)
    BY <2>1, <2>2, <2>4, LoopNames DEF SinkRaises, StartRaises
  <2>5. ASSUME NEW n \in Names, Start(a, n) \/ Stop(a, n) PROVE left' \subseteq Names
    <3>1. left \ {n} \in SUBSET Names
      BY <2>1
    <3>. QED  BY <2>5, <3>1, LoopNames DEF Start, Stop
  <2>6. ASSUME NEW n \in Names, StopRaises(a, n) \/ Undo(a, n) \/ Restore(a, n) PROVE left' \subseteq Names
    <3>1. left \ {n} \in SUBSET Names /\ started \in SUBSET Names /\ stopped \in SUBSET Names /\ stopped' \in SUBSET Names
      BY <2>1, <2>2
    <3>2. \E new, old \in SUBSET Names : RollBack(a, new, old)
      BY <2>6, <3>1 DEF StopRaises, Undo, Restore, RollBack
    <3>. QED  BY <3>2, LoopNames
  <2>. QED  BY <1>4, <2>2, <2>3, <2>4, <2>5, <2>6 DEF Proceed
<1>5. ASSUME NEW a \in Calls, Apply(a) \/ Cancelled(a)
      PROVE  left' \subseteq Names /\ started' \subseteq Names /\ stopped' \subseteq Names
  BY <1>5 DEF Apply, Cancelled, RestInv, loop
<1>6. CASE Elsewhere
  BY <1>1, <1>2, <1>3, <1>6 DEF Elsewhere, RestInv, loop
<1>. QED  BY <1>1, <1>2, <1>3, <1>4, <1>5, <1>6, Kinds DEF RestInv

\* Every variable keeps to its type, whatever fails; in particular no transport
\* has more running than one set for the start, one for each call that gave up
\* and one for each restart (manager.py:41-98).
THEOREM TypeCorrect == Spec => []TypeOK
<1>1. Init => RestInv
  BY DEF Init, RestInv
<1>2. Spec => []RestInv
  BY <1>1, RestStep, TableAlways, SinkAlways, PTL DEF Spec
<1>3. LineInv /\ TableInv /\ SinkInv /\ FlushInv /\ TargetInv /\ FreshInv /\ BoundInv /\ RestInv => TypeOK
  <2>. SUFFICES ASSUME LineInv, TableInv, SinkInv, FlushInv, TargetInv, FreshInv, BoundInv, RestInv
              PROVE  TypeOK
    OBVIOUS
  <2>1. running \in [Instances -> 0 .. 1 + Cardinality(Calls) + Cardinality(Restarts)]
    BY Bounded
  <2>. QED  BY <2>1 DEF TypeOK, LineInv, TableInv, SinkInv, FlushInv, TargetInv, RestInv, States
<1>. QED
  BY <1>2, <1>3, LineAlways, TableAlways, SinkAlways, FlushAlways, TargetAlways, FreshAlways, BoundAlways, PTL

------------------------------------------------------------------------------
(* Who is at work on the transports *)

\* The watcher makes one call at a time and none once it is dead.  The shutdown
\* begins when the admin calls are over, and has the transports to itself once it
\* has seen the watcher's end.
DownInv ==
    /\ \A a, b \in Watched : InProgress(a) /\ InProgress(b) => a = b
    /\ ~WatcherAlive => \A a \in Watched : ~InProgress(a)
    /\ down # "up" => (\A a \in Calls \ Watched : ~InProgress(a)) /\ \A r \in Restarts : ~Restarting(r)
    /\ down \in {"stopping", "over", "failed"} => \A a \in Calls : ~InProgress(a)

\* Nobody has gone to work at the start.
LEMMA DownInit == Init => DownInv
  BY ConfigAssumption DEF Init, DownInv, InProgress, AtWork, WatcherAlive

\* A step of a call that is over leaves it over.
LEMMA CallsEnd ==
  ASSUME LineInv, NEW a \in Calls, Proceed(a) \/ Cancelled(a)
  PROVE  /\ InProgress(a) /\ UNCHANGED <<restarting, closing>>
         /\ \A b \in Calls : InProgress(b)' => InProgress(b)
<1>1. InProgress(a) /\ UNCHANGED <<restarting, closing>> /\ \E s : pc' = [pc EXCEPT ![a] = s]
  <2>1. CASE Proceed(a)
    BY <2>1, Moves DEF GoesOn, GivesUp, Commit, Finish
  <2>2. CASE Cancelled(a)
    BY <2>2 DEF Cancelled
  <2>. QED  BY <2>1, <2>2
<1>. QED  BY <1>1 DEF InProgress, LineInv

\* Every step keeps it.
LEMMA DownStep == LineInv /\ TargetInv /\ DownInv /\ [Next]_vars => DownInv'
<1>. SUFFICES ASSUME LineInv, TargetInv, DownInv, [Next]_vars PROVE DownInv'
  OBVIOUS
<1>. Watched \subseteq Calls
  BY ConfigAssumption
<1>1. ASSUME NEW a \in Calls, Apply(a) PROVE DownInv'
  <2>1. /\ UNCHANGED <<restarting, closing>> /\ \E s : pc' = [pc EXCEPT ![a] = s]
        /\ a \notin Watched => down = "up"
        /\ a \in Watched => WatcherFree
        /\ pc'[a] \notin {"cancelled", "raised"} \/ ~InProgress(a)'
    BY <1>1 DEF Apply, WatcherFree, InProgress, AtWork, LineInv
  <2>2. \A b \in Calls : b # a => pc'[b] = pc[b] /\ (InProgress(b)' <=> InProgress(b))
    BY <2>1 DEF InProgress, LineInv
  <2>3. \A r \in Restarts : Restarting(r)' <=> Restarting(r)
    BY <2>1 DEF Restarting, restarting
  <2>4. \A b, c \in Watched : InProgress(b)' /\ InProgress(c)' => b = c
    BY <2>1, <2>2 DEF DownInv, WatcherFree
  <2>5. ASSUME ~WatcherAlive', NEW b \in Watched PROVE ~InProgress(b)'
    <3>1. CASE a \in Watched
      <4>1. WatcherAlive /\ \A c \in Watched : ~InProgress(c)
        BY <2>1, <3>1 DEF WatcherFree
      <4>2. pc'[a] \in {"cancelled", "raised"}
        BY <2>2, <2>5, <4>1 DEF WatcherAlive
      <4>. QED  BY <2>1, <2>2, <4>1, <4>2
    <3>2. CASE a \notin Watched
      <4>1. ~WatcherAlive
        BY <2>2, <2>5, <3>2 DEF WatcherAlive
      <4>. QED  BY <2>2, <3>2, <4>1 DEF DownInv
    <3>. QED  BY <3>1, <3>2
  <2>6. a \in Watched => down \in {"up", "joining"}
    BY <2>1 DEF WatcherFree
  <2>. QED  BY <2>1, <2>2, <2>3, <2>4, <2>5, <2>6 DEF DownInv, closing
<1>2. ASSUME NEW a \in Calls, Proceed(a) \/ Cancelled(a) PROVE DownInv'
  <2>1. \A r \in Restarts : Restarting(r)' <=> Restarting(r)
    BY <1>2, CallsEnd DEF Restarting, restarting
  <2>2. down' = down /\ InProgress(a) /\ \A b \in Calls : InProgress(b)' => InProgress(b)
    BY <1>2, CallsEnd DEF closing
  <2>3. \A b \in Calls : b # a => pc'[b] = pc[b]
    <3>1. \E s : pc' = [pc EXCEPT ![a] = s]
      BY <1>2, Moves DEF GoesOn, GivesUp, Commit, Finish, Cancelled
    <3>. QED  BY <3>1 DEF LineInv
  <2>4. ASSUME ~WatcherAlive', NEW b \in Watched PROVE ~InProgress(b)'
    <3>1. CASE ~WatcherAlive
      BY <2>2, <3>1 DEF DownInv
    <3>2. CASE WatcherAlive
      <4>1. a \in Watched /\ pc'[a] \in {"cancelled", "raised"}
        BY <2>3, <2>4, <3>2 DEF WatcherAlive
      <4>2. ~InProgress(a)'
        BY <4>1 DEF InProgress, AtWork
      <4>. QED  BY <2>2, <4>1, <4>2 DEF DownInv
    <3>. QED  BY <3>1, <3>2
  <2>. QED  BY <2>1, <2>2, <2>4 DEF DownInv
<1>3. ASSUME NEW r \in Restarts, Restart(r) \/ ProceedRestart(r) PROVE DownInv'
  <2>1. down = "up" /\ UNCHANGED <<pc, closing>>
    <3>1. CASE Restart(r)
      BY <3>1 DEF Restart
    <3>2. CASE ProceedRestart(r)
      BY <3>2 DEF ProceedRestart, RestartStops, RestartStarts, RestartFails, Restarting, DownInv
    <3>. QED  BY <1>3, <3>1, <3>2
  <2>. QED  BY <2>1 DEF DownInv, closing, WatcherAlive, InProgress
<1>4. ASSUME NEW a \in Calls, Swallowed(a) PROVE DownInv'
  <2>1. down = "cancelling" /\ down' = "joining" /\ UNCHANGED <<pc, restart>>
    BY <1>4 DEF Swallowed, restarting
  <2>. QED  BY <2>1 DEF DownInv, InProgress, Restarting, WatcherAlive
<1>5. CASE Shutdown
  BY <1>5 DEF Shutdown, DownInv, InProgress, Restarting, restarting, WatcherAlive
<1>6. CASE WatcherEnded
  <2>1. UNCHANGED <<pc, restart>> /\ down' \in {"stopping", "failed"} /\ down # "up"
    BY <1>6 DEF WatcherEnded, restarting
  <2>2. \A a \in Calls : ~InProgress(a)
    BY <1>6 DEF WatcherEnded, DownInv
  <2>. QED  BY <2>1, <2>2 DEF DownInv, InProgress, Restarting, WatcherAlive
<1>7. ASSUME ShutdownEnds \/ \E i \in Instances : ShutdownStops(i) \/ ShutdownRaises(i) PROVE DownInv'
  <2>1. UNCHANGED <<pc, restart>> /\ down = "stopping" /\ down' \in {"stopping", "over", "failed"}
    BY <1>7 DEF ShutdownEnds, ShutdownStops, ShutdownRaises, restarting
  <2>. QED  BY <2>1 DEF DownInv, InProgress, Restarting, WatcherAlive
<1>8. CASE UNCHANGED vars
  BY <1>8 DEF vars, restarting, closing, DownInv, InProgress, Restarting, WatcherAlive
<1>. QED  BY <1>1, <1>2, <1>3, <1>4, <1>5, <1>6, <1>7, <1>8 DEF Next, ProceedShutdown

\* Always.
LEMMA DownAlways == Spec => []DownInv
  BY DownInit, DownStep, LineAlways, TargetAlways, PTL DEF Spec

\* Unless it is noted, a restart is at work alone, on a transport of the table.
OverlapInv ==
    "overlap" \notin mishaps =>
        \A r \in Restarts : Restarting(r) =>
            line = <<>> /\ target[r] \in InTable /\ \A s \in Restarts : Restarting(s) => s = r

\* Nobody is at the start.
LEMMA OverlapInit == Init => OverlapInv
  BY DEF Init, OverlapInv, Restarting

\* Every step keeps it.
LEMMA OverlapStep == LineInv /\ TableInv /\ TargetInv /\ OverlapInv /\ [Next]_vars => OverlapInv'
<1>. SUFFICES ASSUME LineInv, TableInv, TargetInv, OverlapInv, [Next]_vars, "overlap" \notin mishaps' PROVE OverlapInv'
  BY DEF OverlapInv
<1>0. "overlap" \notin mishaps
  BY MishapsStay
<1>1. ASSUME NEW a \in Calls, Apply(a) PROVE OverlapInv'
  <2>1. UNCHANGED <<restarting, store>>
    BY <1>1 DEF Apply
  <2>2. line' = line \/ \A r \in Restarts : ~Restarting(r)
    BY <1>1 DEF Apply, Note
  <2>. QED  BY <1>0, <2>1, <2>2 DEF OverlapInv, restarting, store, Restarting, InTable
<1>2. ASSUME NEW a \in Calls, Proceed(a) \/ Cancelled(a) PROVE OverlapInv'
  <2>1. InProgress(a) /\ UNCHANGED restarting
    BY <1>2, CallsEnd
  <2>2. line # <<>>
    BY <2>1, EmptyQueue DEF LineInv
  <2>3. \A r \in Restarts : ~Restarting(r)
    BY <1>0, <2>2 DEF OverlapInv
  <2>. QED  BY <2>1, <2>3 DEF OverlapInv, Restarting, restarting
<1>3. ASSUME NEW r \in Restarts, Restart(r) PROVE OverlapInv'
  <2>1. line = <<>> /\ (\A s \in Restarts : ~Restarting(s)) /\ UNCHANGED <<store, line>>
    BY <1>3 DEF Restart, Note
  <2>2. PICK n \in Names :
           IF live[n] = Absent
             THEN restart' = [restart EXCEPT ![r] = "missing"] /\ UNCHANGED target
             ELSE /\ restart' = [restart EXCEPT ![r] = "stopping"]
                  /\ target' = [target EXCEPT ![r] = <<n, live[n]>>]
    BY <1>3 DEF Restart
  <2>3. \A s \in Restarts : s # r => ~Restarting(s)'
    BY <2>1, <2>2 DEF Restarting, TargetInv
  <2>4. Restarting(r)' => target'[r] = <<n, live[n]>> /\ live[n] # Absent /\ target'[r] \in Instances
    <3>1. CASE live[n] = Absent
      BY <2>2, <3>1 DEF Restarting, TargetInv
    <3>2. CASE live[n] # Absent
      <4>1. target'[r] = <<n, live[n]>>
        BY <2>2, <3>2 DEF TargetInv
      <4>. QED  BY <3>2, <4>1 DEF TableInv, Instances
    <3>. QED  BY <3>1, <3>2
  <2>5. Restarting(r)' => target'[r] \in InTable'
    BY <2>1, <2>4 DEF InTable, store
  <2>. QED  BY <2>1, <2>3, <2>5 DEF OverlapInv
<1>4. ASSUME NEW r \in Restarts, ProceedRestart(r) PROVE OverlapInv'
  <2>1. Restarting(r) /\ UNCHANGED <<store, line, target>> /\ \E s : restart' = [restart EXCEPT ![r] = s]
    BY <1>4 DEF ProceedRestart, RestartStops, RestartStarts, RestartFails, Restarting
  <2>2. \A s \in Restarts : s # r => (Restarting(s)' <=> Restarting(s))
    BY <2>1 DEF Restarting, TargetInv
  <2>3. line = <<>> /\ target[r] \in InTable /\ \A s \in Restarts : Restarting(s) => s = r
    BY <1>0, <2>1 DEF OverlapInv
  <2>4. \A s \in Restarts : Restarting(s)' => s = r
    BY <2>2, <2>3
  <2>. QED  BY <2>1, <2>3, <2>4 DEF OverlapInv, store, InTable
<1>5. ASSUME Shutdown \/ ProceedShutdown \/ UNCHANGED vars \/ \E a \in Calls : Swallowed(a) PROVE OverlapInv'
  <2>1. UNCHANGED <<store, line, restarting>>
    BY <1>5 DEF Shutdown, ProceedShutdown, WatcherEnded, ShutdownEnds, ShutdownStops, ShutdownRaises, vars, Swallowed
  <2>. QED  BY <1>0, <2>1 DEF OverlapInv, restarting, store, Restarting, InTable
<1>. QED  BY <1>1, <1>2, <1>3, <1>4, <1>5 DEF Next

\* Always.
LEMMA OverlapAlways == Spec => []OverlapInv
  BY OverlapInit, OverlapStep, LineAlways, TableAlways, TargetAlways, PTL DEF Spec

------------------------------------------------------------------------------
(* What must run *)

\* A transport of the table has been stopped by a call that has yet to replace or
\* restore it, or by a restart that has yet to start it.
Out(n) ==
    \E a \in Calls : \/ pc[a] \in {"stopping", "undoing"} /\ n \in stopped
                     \/ pc[a] = "restoring" /\ n \in left
Between(i) == \E r \in Restarts : restart[r] = "starting" /\ target[r] = i

Sound == down = "up" /\ mishaps \cap {"restore", "cancel", "overlap"} = {}

TableRuns == \A n \in Configured(live) : running[<<n, live[n]>>] > 0 \/ Out(n) \/ Between(<<n, live[n]>>)
StartedRuns(a) == pc[a] \in {"starting", "stopping"} => \A n \in started : running[<<n, a>>] > 0

LowerInv == Sound => TableRuns /\ \A a \in Calls : StartedRuns(a)

\* What was sound before a step that leaves it so.
LEMMA SoundBefore ==
  ASSUME [Next]_vars, Sound'
  PROVE  /\ Sound /\ mishaps' \cap {"restore", "cancel", "overlap"} = {}
<1>1. down = "up"
  <2>1. ASSUME NEW a \in Calls, Apply(a) \/ Proceed(a) \/ Cancelled(a) PROVE down' = down
    BY <2>1, Moves DEF Apply, Cancelled, closing
  <2>2. ASSUME NEW r \in Restarts, Restart(r) \/ ProceedRestart(r) PROVE down' = down
    BY <2>2 DEF Restart, ProceedRestart, RestartStops, RestartStarts, RestartFails, closing
  <2>3. ASSUME \/ \E a \in Calls : Swallowed(a)
               \/ Shutdown \/ WatcherEnded \/ ShutdownEnds
               \/ \E i \in Instances : ShutdownRaises(i)
        PROVE  down' # "up"
    BY <2>3 DEF Swallowed, Shutdown, WatcherEnded, ShutdownEnds, ShutdownRaises
  <2>4. ASSUME UNCHANGED vars \/ \E i \in Instances : ShutdownStops(i) PROVE down' = down
    BY <2>4 DEF vars, closing, ShutdownStops
  <2>. QED  BY <2>1, <2>2, <2>3, <2>4 DEF Next, ProceedShutdown, Sound
<1>. QED  BY <1>1, MishapsStay DEF Sound

\* While a call is under way there is no restart, unless it is noted.
LEMMA NoRestart ==
  ASSUME LineInv, OverlapInv, "overlap" \notin mishaps, NEW a \in Calls, InProgress(a)
  PROVE  /\ \A r \in Restarts : ~Restarting(r)
         /\ \A i : ~Between(i)
<1>1. line # <<>>
  BY EmptyQueue DEF LineInv
<1>. QED  BY <1>1 DEF OverlapInv, Between, Restarting

\* A call commits: what it started takes the place of what it stopped.
LEMMA CommitRuns ==
  ASSUME LineInv, TableInv, NEW a \in Calls, Commit(a),
         \A b \in Calls : pc[b] \in AtWork => b = a,
         \A n \in New(a) : running'[<<n, a>>] > 0,
         \A n \in Configured(live) : n \notin Old(a) => running'[<<n, live[n]>>] > 0
  PROVE  TableRuns' /\ \A b \in Calls : StartedRuns(b)'
<1>1. \A b \in Calls : pc'[b] \notin AtWork
  BY DEF Commit, Finish, LineInv, AtWork
<1>2. \A b \in Calls : StartedRuns(b)'
  BY <1>1 DEF StartedRuns, AtWork
<1>3. live' = [n \in Names |-> CASE n \in ToAdd(a) \cup ToRestart(a) -> a
                                 [] n \in ToRemove(a) -> Absent
                                 [] OTHER -> live[n]]
  BY DEF Commit
<1>4. ASSUME NEW n \in Names, live'[n] # Absent PROVE running'[<<n, live'[n]>>] > 0
  <2>1. CASE n \in New(a)
    <3>1. n \in ToAdd(a) \cup ToRestart(a) /\ n \notin ToRemove(a)
      BY <2>1 DEF New, ToAdd, ToRestart, ToRemove
    <3>2. live'[n] = a
      BY <1>3, <3>1
    <3>. QED  BY <2>1, <3>2
  <2>2. CASE n \notin New(a)
    <3>1. n \notin ToRemove(a) /\ live'[n] = live[n]
      BY <1>3, <1>4, <2>2 DEF New
    <3>2. n \notin Old(a)
      BY <2>2, <3>1 DEF New, Old
    <3>. QED  BY <1>4, <3>1, <3>2 DEF Configured
  <2>. QED  BY <2>1, <2>2
<1>5. TableRuns'
  BY <1>4 DEF TableRuns, Configured
<1>. QED  BY <1>2, <1>5

\* A call goes on, or gives up: the table stays.
LEMMA TableStaysUp ==
  ASSUME LineInv, TableInv, NEW a \in Calls, \A b \in Calls : pc[b] \in AtWork => b = a,
         NEW w \in AtWork \cup Ended, pc' = [pc EXCEPT ![a] = w], UNCHANGED live,
         w \in {"starting", "stopping"} => \A n \in started' : running'[<<n, a>>] > 0,
         \A n \in Configured(live) :
            \/ running'[<<n, live[n]>>] > 0
            \/ w \in {"stopping", "undoing"} /\ n \in stopped'
            \/ w = "restoring" /\ n \in left'
  PROVE  TableRuns' /\ \A b \in Calls : StartedRuns(b)'
<1>1. pc'[a] = w /\ \A b \in Calls : b # a => pc'[b] \notin AtWork
  BY DEF LineInv
<1>2. \A b \in Calls : StartedRuns(b)'
  BY <1>1 DEF StartedRuns, AtWork
<1>3. \A n \in Names : w \in {"stopping", "undoing"} /\ n \in stopped' => Out(n)'
  BY <1>1 DEF Out
<1>4. \A n \in Names : w = "restoring" /\ n \in left' => Out(n)'
  BY <1>1 DEF Out
<1>5. TableRuns'
  BY <1>3, <1>4 DEF TableRuns, Configured
<1>. QED  BY <1>2, <1>5

\* A rollback restores all that is out.
LEMMA RollRuns ==
  ASSUME LineInv, TableInv, NEW a \in Calls, \A b \in Calls : pc[b] \in AtWork => b = a,
         NEW new, NEW old, RollBack(a, new, old),
         \A n \in Configured(live) : running'[<<n, live[n]>>] > 0 \/ (n \in old /\ n \in stopped')
  PROVE  TableRuns' /\ \A b \in Calls : StartedRuns(b)'
<1>1. CASE new # {} /\ LoopOver(a, "undoing", new)
  <2>1. pc' = [pc EXCEPT ![a] = "undoing"] /\ UNCHANGED live
    BY <1>1 DEF LoopOver, store
  <2>. QED  BY <2>1, TableStaysUp DEF AtWork
<1>2. CASE new = {} /\ old # {} /\ LoopOver(a, "restoring", old)
  <2>1. pc' = [pc EXCEPT ![a] = "restoring"] /\ UNCHANGED live /\ left' = old
    BY <1>2 DEF LoopOver, store
  <2>. QED  BY <2>1, TableStaysUp DEF AtWork
<1>3. CASE old = {} /\ Finish(a, "rolled_back") /\ UNCHANGED store
  <2>1. pc' = [pc EXCEPT ![a] = "rolled_back"] /\ UNCHANGED live
    BY <1>3 DEF Finish, store
  <2>. QED  BY <1>3, <2>1, TableStaysUp DEF Ended
<1>. QED  BY <1>1, <1>2, <1>3, RollFacts

\* Before a call comes to its transports all of the table runs.
LEMMA AllRun ==
  ASSUME LineInv, TableInv, OverlapInv, LowerInv, Sound, NEW a \in Calls, InProgress(a),
         \A b \in Calls : pc[b] \in AtWork => b = a,
         NEW n \in Configured(live)
  PROVE  \/ running[<<n, live[n]>>] > 0
         \/ pc[a] \in {"stopping", "undoing"} /\ n \in stopped
         \/ pc[a] = "restoring" /\ n \in left
<1>1. ~Between(<<n, live[n]>>)
  BY NoRestart DEF Sound
<1>2. Out(n) => \/ pc[a] \in {"stopping", "undoing"} /\ n \in stopped
                \/ pc[a] = "restoring" /\ n \in left
  BY DEF Out, AtWork
<1>. QED  BY <1>1, <1>2 DEF LowerInv, TableRuns

\* Every step of a call keeps what must run.
LEMMA LowerCalls ==
  ASSUME LineInv, TableInv, LoopInv, FreshInv, OverlapInv, LowerInv, [Next]_vars, Sound, Sound',
         NEW a \in Calls, Proceed(a)
  PROVE  TableRuns' /\ \A b \in Calls : StartedRuns(b)'
<1>0. /\ InProgress(a) /\ \A b \in Calls : pc[b] \in AtWork => b = a
      /\ running \in [Instances -> Nat]
      /\ \A n \in Names, m \in Makers : <<n, m>> \in Instances
      /\ a \in Makers
  BY Moves, Alone DEF FreshInv, Instances, Makers
<1>1. \A n \in Configured(live) : n \in Names /\ live[n] \in Makers /\ live[n] # a
  BY <1>0 DEF Configured, TableInv, InProgress, AtWork
<1>2. \A n \in Configured(live) :
         \/ running[<<n, live[n]>>] > 0
         \/ pc[a] \in {"stopping", "undoing"} /\ n \in stopped
         \/ pc[a] = "restoring" /\ n \in left
  BY <1>0, AllRun
<1>3. pc[a] \in {"starting", "stopping"} => \A n \in started : running[<<n, a>>] > 0
  BY DEF LowerInv, StartedRuns
<1>4. CASE Opening(a)
  <2>1. /\ running' = running /\ started' = {}
        /\ \/ \E w \in {"telemetry", "sink"} : LoopOver(a, w, {})
           \/ LoopOver(a, "starting", New(a))
           \/ New(a) = {} /\ LoopOver(a, "stopping", Old(a))
           \/ New(a) = {} /\ Old(a) = {} /\ Commit(a)
    BY <1>4, OpeningFacts
  <2>2. \A n \in Configured(live) : running'[<<n, live[n]>>] > 0
    BY <1>2, <1>4, <2>1, OpeningFacts
  <2>3. CASE \E w \in {"telemetry", "sink", "starting", "stopping"} : LoopOver(a, w, left')
    <3>1. PICK w \in {"telemetry", "sink", "starting", "stopping"} : pc' = [pc EXCEPT ![a] = w] /\ UNCHANGED live
      BY <2>3 DEF LoopOver, store
    <3>2. w \in AtWork \cup Ended
      BY DEF AtWork
    <3>. QED  BY <1>0, <2>1, <2>2, <3>1, <3>2, TableStaysUp
  <2>4. CASE New(a) = {} /\ Commit(a)
    BY <1>0, <2>2, <2>4, CommitRuns
  <2>. QED  BY <2>1, <2>3, <2>4 DEF LoopOver
<1>5. CASE TelemetryRaises(a)
  <2>1. pc[a] = "telemetry" /\ running' = running /\ pc' = [pc EXCEPT ![a] = "cancelled"] /\ UNCHANGED live
    BY <1>5 DEF TelemetryRaises, Works, Finish, store
  <2>2. "cancelled" \in AtWork \cup Ended
    BY DEF Ended
  <2>. QED  BY <1>0, <1>2, <2>1, <2>2, TableStaysUp
<1>6. CASE SinkRaises(a) \/ StartRaises(a)
  <2>1. pc[a] \in {"sink", "starting"} /\ running' = running /\ RollBack(a, started, {})
    BY <1>6, FailFacts
  <2>. QED  BY <1>0, <1>2, <2>1, RollRuns
<1>7. ASSUME NEW n \in Names, Start(a, n) PROVE TableRuns' /\ \A b \in Calls : StartedRuns(b)'
  <2>1. /\ pc[a] = "starting" /\ running' = Up(<<n, a>>) /\ started' = started \cup {n} /\ started' \subseteq New(a)
        /\ \/ LoopOver(a, "starting", New(a) \ started')
           \/ started' = New(a) /\ LoopOver(a, "stopping", Old(a))
           \/ started' = New(a) /\ Old(a) = {} /\ Commit(a)
    BY <1>7, StartFacts
  <2>2. \A i \in Instances : running'[i] \in Nat /\ running'[i] >= running[i] /\ (i = <<n, a>> => running'[i] > 0)
    <3>1. PICK t \in Instances : t = <<n, a>>
      BY <1>0
    <3>2. running \in [Instances -> Nat] /\ running' = Up(t)
      BY <1>0, <2>1, <3>1
    <3>3. Up(t)[t] = running[t] + 1 /\ \A j \in Instances : j # t => Up(t)[j] = running[j]
      BY <3>2, Counting
    <3>4. ASSUME NEW i \in Instances
          PROVE  running'[i] \in Nat /\ running'[i] >= running[i] /\ (i = t => running'[i] > 0)
      BY <3>2, <3>3
    <3>. QED  BY <3>1, <3>4
  <2>3. \A m \in Configured(live) : running'[<<m, live[m]>>] > 0
    BY <1>0, <1>1, <1>2, <2>1, <2>2
  <2>4. \A m \in started' : running'[<<m, a>>] > 0
    <3>1. \A m \in started' : m \in Names
      BY <2>1, Differences
    <3>2. ASSUME NEW m \in started' PROVE running'[<<m, a>>] > 0
      <4>1. <<m, a>> \in Instances
        BY <1>0, <3>1
      <4>2. CASE m = n
        BY <2>2, <4>1, <4>2
      <4>3. CASE m \in started
        BY <1>0, <1>3, <2>1, <2>2, <4>1, <4>3
      <4>. QED  BY <2>1, <4>2, <4>3
    <3>. QED  BY <3>2
  <2>5. CASE \E w \in {"starting", "stopping"} : LoopOver(a, w, left')
    <3>1. PICK w \in {"starting", "stopping"} : pc' = [pc EXCEPT ![a] = w] /\ UNCHANGED live
      BY <2>5 DEF LoopOver, store
    <3>2. w \in AtWork \cup Ended
      BY DEF AtWork
    <3>. QED  BY <1>0, <2>3, <2>4, <3>1, <3>2, TableStaysUp
  <2>6. CASE started' = New(a) /\ Commit(a)
    BY <1>0, <2>3, <2>4, <2>6, CommitRuns
  <2>. QED  BY <2>1, <2>5, <2>6 DEF LoopOver
<1>8. ASSUME NEW n \in Names, Stop(a, n) \/ StopRaises(a, n) PROVE TableRuns' /\ \A b \in Calls : StartedRuns(b)'
  <2>1. /\ pc[a] = "stopping" /\ started = New(a) /\ started' = started /\ stopped' = stopped \cup {n}
        /\ live[n] \in Makers /\ live[n] # a /\ n \in Old(a)
        /\ running' \in {running, Down(<<n, live[n]>>)} /\ stopped' \subseteq Old(a)
        /\ \/ LoopOver(a, "stopping", Old(a) \ stopped')
           \/ stopped' = Old(a) /\ Commit(a)
           \/ RollBack(a, started, stopped')
    BY <1>8, StopFacts
  <2>2. \A i \in Instances : i # <<n, live[n]>> => running'[i] = running[i]
    BY <1>0, <2>1, Counting
  <2>3. \A m \in Configured(live) : running'[<<m, live[m]>>] > 0 \/ m \in stopped'
    <3>1. ASSUME NEW m \in Configured(live), m # n, m \notin stopped PROVE running'[<<m, live[m]>>] > 0
      <4>1. <<m, live[m]>> \in Instances /\ <<m, live[m]>> # <<n, live[n]>>
        BY <1>0, <1>1, <3>1
      <4>2. running[<<m, live[m]>>] > 0
        BY <1>2, <2>1, <3>1
      <4>. QED  BY <2>2, <4>1, <4>2
    <3>. QED  BY <2>1, <3>1
  <2>4. \A m \in started' : running'[<<m, a>>] > 0
    <3>1. ASSUME NEW m \in started PROVE running'[<<m, a>>] > 0
      <4>1. <<m, a>> \in Instances /\ <<m, a>> # <<n, live[n]>>
        BY <1>0, <2>1, Differences
      <4>. QED  BY <1>3, <2>1, <2>2, <4>1
    <3>. QED  BY <2>1, <3>1
  <2>5. CASE LoopOver(a, "stopping", Old(a) \ stopped')
    <3>1. pc' = [pc EXCEPT ![a] = "stopping"] /\ UNCHANGED live /\ "stopping" \in AtWork \cup Ended
      BY <2>5 DEF LoopOver, store, AtWork
    <3>. QED  BY <1>0, <2>3, <2>4, <3>1, TableStaysUp
  <2>6. CASE stopped' = Old(a) /\ Commit(a)
    BY <1>0, <2>1, <2>3, <2>4, <2>6, CommitRuns
  <2>7. CASE RollBack(a, started, stopped')
    BY <1>0, <2>3, <2>7, RollRuns
  <2>. QED  BY <2>1, <2>5, <2>6, <2>7
<1>9. ASSUME NEW n \in Names, Undo(a, n) PROVE TableRuns' /\ \A b \in Calls : StartedRuns(b)'
  <2>1. /\ pc[a] = "undoing" /\ stopped' = stopped /\ RollBack(a, left \ {n}, stopped)
        /\ running' \in {running, Down(<<n, a>>)}
    BY <1>9, UndoFacts
  <2>2. \A m \in Configured(live) : running'[<<m, live[m]>>] = running[<<m, live[m]>>]
    <3>1. ASSUME NEW m \in Configured(live) PROVE running'[<<m, live[m]>>] = running[<<m, live[m]>>]
      <4>1. <<m, live[m]>> \in Instances /\ <<m, live[m]>> # <<n, a>> /\ <<n, a>> \in Instances
        BY <1>0, <1>1
      <4>. QED  BY <1>0, <2>1, <4>1, Counting
    <3>. QED  BY <3>1
  <2>. QED  BY <1>0, <1>2, <2>1, <2>2, RollRuns
<1>10. ASSUME NEW n \in Names, Restore(a, n) PROVE TableRuns' /\ \A b \in Calls : StartedRuns(b)'
  <2>1. /\ pc[a] = "restoring" /\ stopped' = stopped /\ RollBack(a, {}, left \ {n}) /\ left \subseteq stopped
        /\ running' = Up(<<n, live[n]>>) \/ "restore" \in mishaps'
        /\ live[n] \in Makers
    BY <1>10, RestoreFacts
  <2>2. running' = Up(<<n, live[n]>>) /\ <<n, live[n]>> \in Instances
    BY <1>0, <2>1 DEF Sound
  <2>3. \A i \in Instances : running'[i] \in Nat /\ running'[i] >= running[i]
    <3>1. PICK t \in Instances : running' = Up(t)
      BY <2>2
    <3>. QED  BY <1>0, <3>1, Counting
  <2>5. running'[<<n, live[n]>>] > 0
    BY <1>0, <2>2, Counting
  <2>4. ASSUME NEW m \in Configured(live), m \notin left \ {n} PROVE running'[<<m, live[m]>>] > 0
    <3>1. <<m, live[m]>> \in Instances
      BY <1>0, <1>1
    <3>2. running[<<m, live[m]>>] > 0 \/ m = n
      BY <1>2, <2>1, <2>4
    <3>. QED  BY <1>0, <2>3, <2>5, <3>1, <3>2
  <2>. QED  BY <1>0, <2>1, <2>4, RollRuns
<1>. QED  BY <1>4, <1>5, <1>6, <1>7, <1>8, <1>9, <1>10 DEF Proceed, Opening

\* Every step keeps what must run.
LEMMA LowerStep ==
  LineInv /\ TableInv /\ LoopInv /\ TargetInv /\ FreshInv /\ OverlapInv /\ LowerInv /\ [Next]_vars => LowerInv'
<1>. SUFFICES ASSUME LineInv, TableInv, LoopInv, TargetInv, FreshInv, OverlapInv, LowerInv, [Next]_vars, Sound'
              PROVE  TableRuns' /\ \A b \in Calls : StartedRuns(b)'
  BY DEF LowerInv
<1>0. Sound /\ mishaps' \cap {"restore", "cancel", "overlap"} = {}
  BY SoundBefore
<1>a. TableRuns /\ (\A b \in Calls : StartedRuns(b)) /\ "overlap" \notin mishaps
  BY <1>0 DEF LowerInv, Sound
<1>1. ASSUME NEW a \in Calls, Apply(a) PROVE TableRuns' /\ \A b \in Calls : StartedRuns(b)'
  <2>1. /\ pc[a] = "idle" /\ UNCHANGED <<live, running, loop, restarting>>
        /\ \E s \in {"rejected", "raised", "dry_run", "waiting"} : pc' = [pc EXCEPT ![a] = s]
    BY <1>1 DEF Apply, store
  <2>2. \A b \in Calls : pc'[b] = pc[b] \/ {pc[b], pc'[b]} \cap AtWork = {}
    BY <2>1 DEF LineInv, AtWork
  <2>3. \A n : Out(n) => Out(n)'
    BY <2>1, <2>2 DEF Out, AtWork, loop
  <2>4. \A i : Between(i) => Between(i)'
    BY <2>1 DEF Between, restarting
  <2>5. TableRuns'
    BY <1>a, <2>1, <2>3, <2>4 DEF TableRuns, Configured
  <2>6. \A b \in Calls : StartedRuns(b)'
    BY <1>a, <2>1, <2>2 DEF StartedRuns, AtWork, loop
  <2>. QED  BY <2>5, <2>6
<1>2. ASSUME NEW a \in Calls, Proceed(a) PROVE TableRuns' /\ \A b \in Calls : StartedRuns(b)'
  BY <1>0, <1>2, LowerCalls
<1>3. ASSUME NEW a \in Calls, Cancelled(a) PROVE TableRuns' /\ \A b \in Calls : StartedRuns(b)'
  <2>1. /\ pc[a] \in {"waiting", "telemetry", "sink"} /\ pc' = [pc EXCEPT ![a] = "cancelled"]
        /\ UNCHANGED <<running, live, started, stopped, restarting>>
        /\ pc[a] \in AtWork => \A b \in Calls : pc[b] \in AtWork => b = a
        /\ pc[a] \notin AtWork => left' = left
    BY <1>0, <1>3, CancelFacts DEF store
  <2>2. \A b \in Calls : b # a => pc'[b] = pc[b]
    BY <2>1 DEF LineInv
  <2>3. \A n : Out(n) => Out(n)'
    BY <2>1, <2>2 DEF Out, AtWork
  <2>4. \A i : Between(i) => Between(i)'
    BY <2>1 DEF Between, restarting
  <2>5. TableRuns'
    BY <1>a, <2>1, <2>3, <2>4 DEF TableRuns, Configured
  <2>6. pc'[a] = "cancelled"
    BY <2>1 DEF LineInv
  <2>7. \A b \in Calls : StartedRuns(b)'
    BY <1>a, <2>1, <2>2, <2>6 DEF StartedRuns
  <2>. QED  BY <2>5, <2>7
<1>4. ASSUME NEW r \in Restarts, Restart(r) PROVE TableRuns' /\ \A b \in Calls : StartedRuns(b)'
  <2>1. /\ restart[r] = "idle" /\ UNCHANGED <<live, running, pc, loop>>
        /\ \E s : restart' = [restart EXCEPT ![r] = s]
        /\ target' = target \/ \E t : target' = [target EXCEPT ![r] = t]
    BY <1>4 DEF Restart, store
  <2>2. \A s \in Restarts : s # r => restart'[s] = restart[s] /\ target'[s] = target[s]
    BY <2>1 DEF TargetInv
  <2>3. \A i : Between(i) => Between(i)'
    BY <2>1, <2>2 DEF Between
  <2>4. \A n : Out(n) => Out(n)'
    BY <2>1 DEF Out, loop
  <2>5. TableRuns'
    BY <1>a, <2>1, <2>3, <2>4 DEF TableRuns, Configured
  <2>6. \A b \in Calls : StartedRuns(b)'
    BY <1>a, <2>1 DEF StartedRuns, loop
  <2>. QED  BY <2>5, <2>6
<1>5. ASSUME NEW r \in Restarts, ProceedRestart(r) PROVE TableRuns' /\ \A b \in Calls : StartedRuns(b)'
  <2>1. Restarting(r) /\ UNCHANGED <<live, pc, target>>
    BY <1>5 DEF ProceedRestart, RestartStops, RestartStarts, RestartFails, Restarting, store
  <2>2. line = <<>> /\ target[r] \in Instances /\ \A s \in Restarts : Restarting(s) => s = r
    BY <1>a, <2>1 DEF OverlapInv, TargetInv
  <2>3. \A b \in Calls : pc[b] \notin AtWork
    BY <2>2, EmptyQueue DEF LineInv, InProgress
  <2>4. \A b \in Calls : StartedRuns(b)'
    BY <2>1, <2>3 DEF StartedRuns, AtWork
  <2>5. PICK t \in Instances : t = target[r]
    BY <2>2
  <2>6. \A n \in Configured(live) : <<n, live[n]>> \in Instances
    BY DEF Configured, TableInv, Instances
  <2>7. \A n \in Configured(live) : running[<<n, live[n]>>] > 0 \/ (restart[r] = "starting" /\ <<n, live[n]>> = t)
    BY <1>a, <2>2, <2>3, <2>5 DEF TableRuns, Out, Between, AtWork, Restarting
  <2>8. CASE RestartStops(r)
    <3>1. restart[r] = "stopping" /\ running' = Down(t) /\ restart'[r] = "starting"
      BY <2>5, <2>8 DEF RestartStops, Stops, TargetInv
    <3>2. Between(t)'
      BY <2>1, <2>5, <3>1 DEF Between
    <3>3. \A i \in Instances : i # t => running'[i] = running[i]
      BY <3>1, Counting DEF FreshInv
    <3>4. \A n \in Configured(live) : running'[<<n, live[n]>>] > 0 \/ <<n, live[n]>> = t
      BY <2>6, <2>7, <3>1, <3>3
    <3>. QED  BY <2>1, <2>4, <3>2, <3>4 DEF TableRuns, Configured
  <2>9. CASE RestartStarts(r)
    <3>1. running' = Up(t)
      BY <2>5, <2>9 DEF RestartStarts, Starts
    <3>2. \A i \in Instances : running'[i] >= running[i] /\ running[i] \in Nat /\ running'[i] \in Nat /\ (i = t => running'[i] > 0)
      BY <3>1, Counting DEF FreshInv
    <3>3. \A n \in Configured(live) : running'[<<n, live[n]>>] > 0
      BY <2>6, <2>7, <3>2
    <3>. QED  BY <2>1, <2>4, <3>3 DEF TableRuns, Configured
  <2>10. ~RestartFails(r)
    BY <1>0 DEF RestartFails, Note
  <2>. QED  BY <1>5, <2>8, <2>9, <2>10 DEF ProceedRestart
<1>6. ASSUME Shutdown \/ ProceedShutdown \/ \E a \in Calls : Swallowed(a) PROVE FALSE
  BY <1>0, <1>6 DEF Shutdown, ProceedShutdown, WatcherEnded, ShutdownEnds, ShutdownStops, ShutdownRaises, Swallowed, Sound
<1>7. CASE UNCHANGED vars
  <2>1. UNCHANGED <<live, running, pc, left, started, stopped, restart, target>>
    BY <1>7 DEF vars, store, loop, restarting
  <2>. QED  BY <1>a, <2>1 DEF TableRuns, StartedRuns, Out, Between, Configured
<1>. QED  BY <1>1, <1>2, <1>3, <1>4, <1>5, <1>6, <1>7 DEF Next

\* All of the table runs at the start.
LEMMA LowerInit == Init => LowerInv
<1>. SUFFICES ASSUME Init PROVE LowerInv
  OBVIOUS
<1>1. \A n \in Names : live[n] \in {Boot, Absent}
  BY DEF Init
<1>2. running = [i \in Instances |-> IF live[i[1]] = Boot /\ i[2] = Boot THEN 1 ELSE 0]
  BY DEF Init
<1>3. \A n \in Configured(live) : live[n] = Boot /\ <<n, live[n]>> \in Instances
  BY <1>1 DEF Configured, Instances, Makers
<1>4. TableRuns
  BY <1>2, <1>3 DEF TableRuns
<1>5. \A a \in Calls : StartedRuns(a)
  BY DEF Init, StartedRuns
<1>. QED  BY <1>4, <1>5 DEF LowerInv

\* Always.
LEMMA LowerAlways == Spec => []LowerInv
  BY LowerInit, LowerStep, LineAlways, TableAlways, LoopAlways, TargetAlways, FreshAlways, OverlapAlways, PTL DEF Spec

\* Whatever was applied or rolled back, and even if a stop() failed on the way,
\* every upstream in the table runs when nothing is at work on it
\* (manager.py:72-86).
THEOREM WhatIsInTheTableRuns == Spec => []LiveRuns
<1>1. TableInv /\ LowerInv => LiveRuns
  <2>. SUFFICES ASSUME TableInv, LowerInv, Quiet, mishaps \cap {"restore", "cancel", "overlap"} = {}, NEW i \in InTable
                PROVE  running[i] > 0
    BY DEF LiveRuns, AllLiveRun
  <2>1. i = <<i[1], live[i[1]]>> /\ i[1] \in Configured(live)
    BY Configurations DEF InTable, Instances, Configured, TableInv
  <2>2. ~Out(i[1]) /\ ~Between(i)
    BY DEF Quiet, Out, Between, AtWork, Restarting
  <2>3. TableRuns
    BY DEF LowerInv, Sound, Quiet
  <2>. QED  BY <2>1, <2>2, <2>3 DEF TableRuns
<1>. QED  BY <1>1, TableAlways, LowerAlways, PTL

\* An upstream that is to stay is taken down only once its replacement runs
\* (manager.py:49): there is no moment without either, as long as no stop() or
\* start() fails, no caller is cancelled and no restart is under way.
THEOREM ReplacedBeforeStopped == Spec => []NoGap
<1>1. TableInv /\ LoopInv /\ LowerInv => NoGap
  <2>. SUFFICES ASSUME TableInv, LoopInv, LowerInv, down = "up", mishaps = {},
                       \A r \in Restarts : restart[r] \in {"idle", "done", "missing"},
                       NEW n \in Configured(live)
                PROVE  \/ running[<<n, live[n]>>] > 0
                       \/ \E a \in Calls : pc[a] = "stopping" /\ (n \in ToRemove(a) \/ running[<<n, a>>] > 0)
    BY DEF NoGap
  <2>1. TableRuns /\ (\A a \in Calls : StartedRuns(a)) /\ ~Between(<<n, live[n]>>)
    BY DEF LowerInv, Sound, Between
  <2>2. CASE running[<<n, live[n]>>] > 0
    BY <2>2
  <2>3. CASE Out(n)
    <3>1. PICK a \in Calls : \/ pc[a] \in {"stopping", "undoing"} /\ n \in stopped
                             \/ pc[a] = "restoring" /\ n \in left
      BY <2>3 DEF Out
    <3>2. pc[a] = "stopping" /\ n \in Old(a) /\ started = New(a)
      BY <3>1 DEF LoopInv, LoopAt
    <3>3. n \in ToRemove(a) \/ running[<<n, a>>] > 0
      BY <2>1, <3>2 DEF StartedRuns, Old, New
    <3>. QED  BY <3>2, <3>3
  <2>. QED  BY <2>1, <2>2, <2>3 DEF TableRuns
<1>. QED  BY <1>1, TableAlways, LoopAlways, LowerAlways, PTL

------------------------------------------------------------------------------
(* What may run *)

\* What the table has and is not out, and what the call at work has started; and
\* at the end what the shutdown has yet to stop.
May(n, m) ==
    IF down \in {"stopping", "over"} THEN <<n, m>> \in leaving
    ELSE \/ live[n] = m /\ ~Out(n) /\ ~Between(<<n, m>>)
         \/ m \in Calls /\ pc[m] \in {"starting", "stopping"} /\ n \in started
         \/ m \in Calls /\ pc[m] = "undoing" /\ n \in left

Only(n, m) == running[<<n, m>>] = 0 \/ (running[<<n, m>>] = 1 /\ May(n, m))

UpperInv ==
    /\ down = "over" => leaving = {}
    /\ mishaps \subseteq {"restore", "swallow"} => \A n \in Names, m \in Makers : Only(n, m)

\* What was in order before a step that leaves it so.
LEMMA OrderBefore ==
  ASSUME LineInv, LoopInv, UpperInv, [Next]_vars, mishaps' \subseteq {"restore", "swallow"}
  PROVE  /\ mishaps \subseteq {"restore", "swallow"}
         /\ \A n \in Names, m \in Makers : Only(n, m)
         /\ \A a \in Calls : pc[a] # "restoring" /\ (pc[a] = "undoing" => stopped = {})
<1>1. mishaps \subseteq {"restore", "swallow"}
  BY MishapsStay
<1>2. ASSUME NEW a \in Calls PROVE pc[a] # "restoring" /\ (pc[a] = "undoing" => stopped = {})
  <2>1. "stop" \notin mishaps
    BY <1>1
  <2>. QED  BY <2>1 DEF LoopInv, LoopAt
<1>. QED  BY <1>1, <1>2 DEF UpperInv

\* What may run while a call is at work on the transports.
LEMMA MayNow ==
  ASSUME LineInv, OverlapInv, DownInv, mishaps \subseteq {"restore", "swallow"}, NEW a \in Calls, InProgress(a),
         \A b \in Calls : pc[b] \in AtWork => b = a, pc[a] # "restoring", pc[a] = "undoing" => stopped = {},
         NEW n \in Names, NEW m \in Makers, May(n, m)
  PROVE  \/ live[n] = m /\ ~(pc[a] = "stopping" /\ n \in stopped)
         \/ m = a /\ pc[a] \in {"starting", "stopping"} /\ n \in started
         \/ m = a /\ pc[a] = "undoing" /\ n \in left
<1>1. down \notin {"stopping", "over"}
  BY DEF DownInv
<1>2. pc[a] = "stopping" /\ n \in stopped => Out(n)
  BY DEF Out
<1>3. ASSUME m \in Calls, pc[m] \in {"starting", "stopping", "undoing"} PROVE m = a
  BY <1>3 DEF AtWork
<1>. QED  BY <1>1, <1>2, <1>3 DEF May

\* What may run when it has made a step.
LEMMA MayThen ==
  ASSUME LineInv, OverlapInv, DownInv, mishaps \subseteq {"restore", "swallow"}, NEW a \in Calls, InProgress(a),
         \A b \in Calls : pc[b] \in AtWork => b = a,
         NEW w \in AtWork \cup Ended, pc' = [pc EXCEPT ![a] = w], UNCHANGED <<restarting, closing>>,
         w # "restoring", w = "undoing" => stopped' = {},
         NEW n \in Names, NEW m \in Makers,
         \/ live'[n] = m /\ ~(w = "stopping" /\ n \in stopped')
         \/ m = a /\ w \in {"starting", "stopping"} /\ n \in started'
         \/ m = a /\ w = "undoing" /\ n \in left'
  PROVE  May(n, m)'
<1>1. down' \notin {"stopping", "over"}
  BY DEF DownInv, closing
<1>2. pc'[a] = w /\ \A b \in Calls : b # a => pc'[b] \notin AtWork
  BY DEF LineInv
<1>3. ~Between(<<n, m>>)'
  <2>1. ~Between(<<n, m>>)
    BY NoRestart
  <2>. QED  BY <2>1 DEF Between, restarting
<1>4. Out(n)' => w = "stopping" /\ n \in stopped'
  BY <1>2 DEF Out, AtWork
<1>. QED  BY <1>1, <1>2, <1>3, <1>4 DEF May

\* A step of a call that starts and stops nothing.
LEMMA OnlyStays ==
  ASSUME NEW n \in Names, NEW m \in Makers, Only(n, m),
         running'[<<n, m>>] = running[<<n, m>>], May(n, m) => May(n, m)'
  PROVE  Only(n, m)'
  BY DEF Only

\* The transports a call that commits leaves running are those of the new table.
LEMMA CommitMay ==
  ASSUME LineInv, TableInv, OverlapInv, DownInv, mishaps \subseteq {"restore", "swallow"}, NEW a \in Calls, InProgress(a),
         \A b \in Calls : pc[b] \in AtWork => b = a,
         Commit(a), UNCHANGED <<restarting, closing>>,
         NEW n \in Names, NEW m \in Makers,
         \/ live[n] = m /\ n \notin Old(a)
         \/ m = a /\ n \in New(a)
  PROVE  May(n, m)'
<1>1. pc' = [pc EXCEPT ![a] = "applied"] /\ "applied" \in AtWork \cup Ended
  BY DEF Commit, Finish, Ended
<1>2. live' = [k \in Names |-> CASE k \in ToAdd(a) \cup ToRestart(a) -> a
                                 [] k \in ToRemove(a) -> Absent
                                 [] OTHER -> live[k]]
  BY DEF Commit
<1>3. CASE n \in New(a)
  <2>1. n \in ToAdd(a) \cup ToRestart(a) /\ n \notin ToRemove(a)
    BY <1>3 DEF New, ToAdd, ToRestart, ToRemove
  <2>2. live'[n] = a
    BY <1>2, <2>1
  <2>3. m = a
    BY <1>3, Differences, Configurations
  <2>. QED  BY <1>1, <2>2, <2>3, MayThen
<1>4. CASE n \notin New(a)
  <2>1. n \notin ToAdd(a) \cup ToRestart(a) /\ n \notin ToRemove(a) /\ live[n] = m
    BY <1>4 DEF New, Old
  <2>2. live'[n] = m
    BY <1>2, <2>1
  <2>. QED  BY <1>1, <2>2, MayThen
<1>. QED  BY <1>3, <1>4

\* Every step of a call keeps what may run.
LEMMA UpperCalls ==
  ASSUME LineInv, TableInv, LoopInv, FreshInv, OverlapInv, DownInv, UpperInv, [Next]_vars, mishaps' \subseteq {"restore", "swallow"},
         NEW a \in Calls, Proceed(a), NEW k \in Names, NEW m \in Makers
  PROVE  Only(k, m)'
<1>0. /\ InProgress(a) /\ \A b \in Calls : pc[b] \in AtWork => b = a
      /\ UNCHANGED <<restarting, closing>>
      /\ \A n \in Names, j \in Makers : <<n, j>> \in Instances
      /\ a \in Makers /\ running[<<k, m>>] \in Nat
  BY Moves, Alone DEF FreshInv, Instances, Makers
<1>1. /\ mishaps \subseteq {"restore", "swallow"} /\ Only(k, m)
      /\ pc[a] # "restoring" /\ (pc[a] = "undoing" => stopped = {})
  BY OrderBefore
<1>2. May(k, m) =>
         \/ live[k] = m /\ ~(pc[a] = "stopping" /\ k \in stopped)
         \/ m = a /\ pc[a] \in {"starting", "stopping"} /\ k \in started
         \/ m = a /\ pc[a] = "undoing" /\ k \in left
  BY <1>0, <1>1, MayNow
<1>3. ASSUME NEW w \in AtWork \cup Ended, pc' = [pc EXCEPT ![a] = w],
             w # "restoring", w = "undoing" => stopped' = {},
             \/ live'[k] = m /\ ~(w = "stopping" /\ k \in stopped')
             \/ m = a /\ w \in {"starting", "stopping"} /\ k \in started'
             \/ m = a /\ w = "undoing" /\ k \in left'
      PROVE  May(k, m)'
  BY <1>0, <1>1, <1>3, MayThen
<1>4. ASSUME Commit(a), \/ live[k] = m /\ k \notin Old(a)
                        \/ m = a /\ k \in New(a)
      PROVE  May(k, m)'
  BY <1>0, <1>1, <1>4, CommitMay
<1>5. CASE Opening(a)
  <2>1. /\ pc[a] \in {"waiting", "telemetry", "sink"} /\ running' = running /\ stopped' = {}
        /\ \/ \E w \in {"telemetry", "sink"} : LoopOver(a, w, {})
           \/ LoopOver(a, "starting", New(a))
           \/ New(a) = {} /\ LoopOver(a, "stopping", Old(a))
           \/ New(a) = {} /\ Old(a) = {} /\ Commit(a)
    BY <1>5, OpeningFacts
  <2>2. May(k, m) => live[k] = m
    BY <1>2, <2>1
  <2>3. CASE \E w \in {"telemetry", "sink", "starting", "stopping"} : LoopOver(a, w, left')
    <3>1. PICK w \in {"telemetry", "sink", "starting", "stopping"} : pc' = [pc EXCEPT ![a] = w] /\ live' = live
      BY <2>3 DEF LoopOver, store
    <3>2. w \in AtWork \cup Ended
      BY DEF AtWork
    <3>3. May(k, m) => May(k, m)'
      BY <1>3, <2>1, <2>2, <3>1, <3>2
    <3>. QED  BY <1>1, <2>1, <3>3, OnlyStays
  <2>4. CASE Old(a) = {} /\ Commit(a)
    <3>1. May(k, m) => May(k, m)'
      BY <1>4, <2>2, <2>4
    <3>. QED  BY <1>1, <2>1, <3>1, OnlyStays
  <2>. QED  BY <2>1, <2>3, <2>4 DEF LoopOver
<1>6. CASE TelemetryRaises(a)
  <2>1. /\ pc[a] = "telemetry" /\ running' = running /\ pc' = [pc EXCEPT ![a] = "cancelled"] /\ live' = live
        /\ "cancelled" \in AtWork \cup Ended
    BY <1>6 DEF TelemetryRaises, Works, Finish, store, Ended
  <2>2. May(k, m) => May(k, m)'
    BY <1>2, <1>3, <2>1
  <2>. QED  BY <1>1, <2>1, <2>2, OnlyStays
<1>7. CASE SinkRaises(a) \/ StartRaises(a)
  <2>1. /\ pc[a] \in {"sink", "starting"} /\ running' = running /\ stopped' = {} /\ RollBack(a, started, {})
        /\ pc[a] = "sink" => started = {}
    BY <1>7, FailFacts
  <2>2. May(k, m) => live[k] = m \/ (m = a /\ k \in started)
    BY <1>2, <2>1
  <2>3. CASE LoopOver(a, "undoing", started)
    <3>1. pc' = [pc EXCEPT ![a] = "undoing"] /\ live' = live /\ left' = started /\ "undoing" \in AtWork \cup Ended
      BY <2>3 DEF LoopOver, store, AtWork
    <3>2. May(k, m) => May(k, m)'
      BY <1>3, <2>1, <2>2, <3>1
    <3>. QED  BY <1>1, <2>1, <3>2, OnlyStays
  <2>4. CASE started = {} /\ Finish(a, "rolled_back") /\ UNCHANGED store
    <3>1. pc' = [pc EXCEPT ![a] = "rolled_back"] /\ live' = live /\ "rolled_back" \in AtWork \cup Ended
      BY <2>4 DEF Finish, store, Ended
    <3>2. May(k, m) => May(k, m)'
      BY <1>3, <2>1, <2>2, <2>4, <3>1
    <3>. QED  BY <1>1, <2>1, <3>2, OnlyStays
  <2>. QED  BY <2>1, <2>3, <2>4, RollFacts
<1>8. ASSUME NEW n \in Names, Start(a, n) PROVE Only(k, m)'
  <2>1. /\ pc[a] = "starting" /\ running' = Up(<<n, a>>) /\ n \notin started
        /\ started' = started \cup {n} /\ started' \subseteq New(a) /\ stopped' = {}
        /\ \/ LoopOver(a, "starting", New(a) \ started')
           \/ started' = New(a) /\ LoopOver(a, "stopping", Old(a))
           \/ started' = New(a) /\ Old(a) = {} /\ Commit(a)
    BY <1>8, StartFacts
  <2>2. running[<<n, a>>] = 0
    BY <2>1 DEF FreshInv, Unborn
  <2>3. live[k] = m \/ (m = a /\ k \in started') => May(k, m)'
    <3>1. CASE \E w \in {"starting", "stopping"} : LoopOver(a, w, left')
      <4>1. PICK w \in {"starting", "stopping"} : pc' = [pc EXCEPT ![a] = w] /\ live' = live
        BY <3>1 DEF LoopOver, store
      <4>2. w \in AtWork \cup Ended
        BY DEF AtWork
      <4>. QED  BY <1>3, <2>1, <4>1, <4>2
    <3>2. CASE started' = New(a) /\ Old(a) = {} /\ Commit(a)
      BY <1>4, <3>2
    <3>. QED  BY <2>1, <3>1, <3>2 DEF LoopOver
  <2>4. CASE k = n /\ m = a
    <3>1. running'[<<k, m>>] = 1
      BY <1>0, <2>1, <2>2, <2>4, Counting DEF FreshInv
    <3>. QED  BY <2>1, <2>3, <2>4, <3>1 DEF Only
  <2>5. CASE ~(k = n /\ m = a)
    <3>1. <<k, m>> # <<n, a>>
      BY <2>5
    <3>2. running'[<<k, m>>] = running[<<k, m>>]
      BY <1>0, <2>1, <3>1, Counting DEF FreshInv
    <3>3. May(k, m) => May(k, m)'
      BY <1>2, <2>1, <2>3
    <3>. QED  BY <1>1, <3>2, <3>3, OnlyStays
  <2>. QED  BY <2>4, <2>5
<1>9. ASSUME NEW n \in Names, Stop(a, n) \/ StopRaises(a, n) PROVE Only(k, m)'
  <2>1. /\ pc[a] = "stopping" /\ started = New(a) /\ started' = started /\ stopped' = stopped \cup {n}
        /\ live[n] \in Makers /\ live[n] # a /\ running' = Down(<<n, live[n]>>)
        /\ \/ LoopOver(a, "stopping", Old(a) \ stopped')
           \/ stopped' = Old(a) /\ Commit(a)
    BY <1>9, StopFacts
  <2>2. (live[k] = m /\ k \notin stopped') \/ (m = a /\ k \in started) => May(k, m)'
    <3>1. CASE LoopOver(a, "stopping", Old(a) \ stopped')
      <4>1. pc' = [pc EXCEPT ![a] = "stopping"] /\ live' = live /\ "stopping" \in AtWork \cup Ended
        BY <3>1 DEF LoopOver, store, AtWork
      <4>. QED  BY <1>3, <2>1, <4>1
    <3>2. CASE stopped' = Old(a) /\ Commit(a)
      BY <1>4, <2>1, <3>2
    <3>. QED  BY <2>1, <3>1, <3>2
  <2>3. CASE k = n /\ m = live[n]
    <3>1. running'[<<k, m>>] = 0
      BY <1>0, <1>1, <2>1, <2>3, Counting DEF FreshInv, Only
    <3>. QED  BY <3>1 DEF Only
  <2>4. CASE ~(k = n /\ m = live[n])
    <3>1. <<k, m>> # <<n, live[n]>>
      BY <2>4
    <3>2. running'[<<k, m>>] = running[<<k, m>>]
      BY <1>0, <2>1, <3>1, Counting DEF FreshInv
    <3>3. May(k, m) => May(k, m)'
      BY <1>2, <2>1, <2>2, <2>4
    <3>. QED  BY <1>1, <3>2, <3>3, OnlyStays
  <2>. QED  BY <2>3, <2>4
<1>10. ASSUME NEW n \in Names, Undo(a, n) PROVE Only(k, m)'
  <2>1. /\ pc[a] = "undoing" /\ stopped' = {} /\ RollBack(a, left \ {n}, {})
        /\ running' = Down(<<n, a>>)
    BY <1>1, <1>10, UndoFacts
  <2>2. live[k] = m \/ (m = a /\ k \in left \ {n}) => May(k, m)'
    <3>1. CASE LoopOver(a, "undoing", left \ {n})
      <4>1. pc' = [pc EXCEPT ![a] = "undoing"] /\ live' = live /\ left' = left \ {n} /\ "undoing" \in AtWork \cup Ended
        BY <3>1 DEF LoopOver, store, AtWork
      <4>. QED  BY <1>3, <2>1, <4>1
    <3>2. CASE left \ {n} = {} /\ Finish(a, "rolled_back") /\ UNCHANGED store
      <4>1. pc' = [pc EXCEPT ![a] = "rolled_back"] /\ live' = live /\ "rolled_back" \in AtWork \cup Ended
        BY <3>2 DEF Finish, store, Ended
      <4>. QED  BY <1>3, <2>1, <3>2, <4>1
    <3>. QED  BY <2>1, <3>1, <3>2, RollFacts
  <2>3. CASE k = n /\ m = a
    <3>1. running'[<<k, m>>] = 0
      BY <1>0, <1>1, <2>1, <2>3, Counting DEF FreshInv, Only
    <3>. QED  BY <3>1 DEF Only
  <2>4. CASE ~(k = n /\ m = a)
    <3>1. <<k, m>> # <<n, a>>
      BY <2>4
    <3>2. running'[<<k, m>>] = running[<<k, m>>]
      BY <1>0, <2>1, <3>1, Counting DEF FreshInv
    <3>3. May(k, m) => May(k, m)'
      BY <1>2, <2>1, <2>2, <2>4
    <3>. QED  BY <1>1, <3>2, <3>3, OnlyStays
  <2>. QED  BY <2>3, <2>4
<1>11. ASSUME NEW n \in Names, Restore(a, n) PROVE FALSE
  BY <1>1, <1>11, RestoreFacts
<1>. QED  BY <1>5, <1>6, <1>7, <1>8, <1>9, <1>10, <1>11 DEF Proceed, Opening

\* Every step keeps what may run.
LEMMA UpperStep ==
  /\ LineInv /\ TableInv /\ LoopInv /\ TargetInv /\ FreshInv /\ OverlapInv /\ DownInv /\ UpperInv /\ [Next]_vars
  => (mishaps' \subseteq {"restore", "swallow"} => \A n \in Names, m \in Makers : Only(n, m)')
<1>. SUFFICES ASSUME LineInv, TableInv, LoopInv, TargetInv, FreshInv, OverlapInv, DownInv, UpperInv, [Next]_vars,
                     mishaps' \subseteq {"restore", "swallow"}, NEW k \in Names, NEW m \in Makers
              PROVE  Only(k, m)'
  OBVIOUS
<1>0. /\ mishaps \subseteq {"restore", "swallow"} /\ Only(k, m)
      /\ \A a \in Calls : pc[a] # "restoring" /\ (pc[a] = "undoing" => stopped = {})
  BY OrderBefore
<1>1. ASSUME NEW a \in Calls, Apply(a) PROVE Only(k, m)'
  <2>1. /\ pc[a] = "idle" /\ UNCHANGED <<live, running, loop, restarting, closing>>
        /\ \E s \in {"rejected", "raised", "dry_run", "waiting"} : pc' = [pc EXCEPT ![a] = s]
    BY <1>1 DEF Apply, store
  <2>2. \A b \in Calls : pc'[b] = pc[b] \/ {pc[b], pc'[b]} \cap AtWork = {}
    BY <2>1 DEF LineInv, AtWork
  <2>3. Out(k)' => Out(k)
    BY <2>1, <2>2 DEF Out, AtWork, loop
  <2>4. Between(<<k, m>>)' => Between(<<k, m>>)
    BY <2>1 DEF Between, restarting
  <2>5. May(k, m) => May(k, m)'
    BY <2>1, <2>2, <2>3, <2>4 DEF May, AtWork, loop, closing
  <2>. QED  BY <1>0, <2>1, <2>5, OnlyStays
<1>2. ASSUME NEW a \in Calls, Proceed(a) PROVE Only(k, m)'
  BY <1>2, UpperCalls
<1>3. ASSUME NEW a \in Calls, Cancelled(a) PROVE Only(k, m)'
  <2>1. /\ pc[a] \in {"waiting", "telemetry", "sink"} /\ pc' = [pc EXCEPT ![a] = "cancelled"]
        /\ UNCHANGED <<running, live, started, stopped, restarting, closing>>
        /\ pc[a] \in AtWork => \A b \in Calls : pc[b] \in AtWork => b = a
        /\ pc[a] \notin AtWork => left' = left
    BY <1>3, CancelFacts DEF store
  <2>2. pc'[a] = "cancelled" /\ \A b \in Calls : b # a => pc'[b] = pc[b]
    BY <2>1 DEF LineInv
  <2>3. Out(k)' => Out(k)
    BY <2>1, <2>2 DEF Out, AtWork
  <2>4. Between(<<k, m>>)' => Between(<<k, m>>)
    BY <2>1 DEF Between, restarting
  <2>5. May(k, m) => May(k, m)'
    BY <2>1, <2>2, <2>3, <2>4 DEF May, AtWork, closing
  <2>. QED  BY <1>0, <2>1, <2>5, OnlyStays
<1>4. ASSUME NEW r \in Restarts, Restart(r) PROVE Only(k, m)'
  <2>1. /\ restart[r] = "idle" /\ UNCHANGED <<live, running, pc, loop, closing>>
        /\ \E s \in {"missing", "stopping"} : restart' = [restart EXCEPT ![r] = s]
        /\ target' = target \/ \E t : target' = [target EXCEPT ![r] = t]
    BY <1>4 DEF Restart, store
  <2>2. \A s \in Restarts : s # r => restart'[s] = restart[s] /\ target'[s] = target[s]
    BY <2>1 DEF TargetInv
  <2>3. restart'[r] # "starting"
    BY <2>1 DEF TargetInv
  <2>4. Between(<<k, m>>)' => Between(<<k, m>>)
    BY <2>2, <2>3 DEF Between
  <2>5. Out(k)' => Out(k)
    BY <2>1 DEF Out, loop
  <2>6. May(k, m) => May(k, m)'
    BY <2>1, <2>4, <2>5 DEF May, loop, closing
  <2>. QED  BY <1>0, <2>1, <2>6, OnlyStays
<1>5. ASSUME NEW r \in Restarts, ProceedRestart(r) PROVE Only(k, m)'
  <2>1. Restarting(r) /\ UNCHANGED <<live, pc, target, loop, closing>>
    BY <1>5 DEF ProceedRestart, RestartStops, RestartStarts, RestartFails, Restarting, store
  <2>2. /\ line = <<>> /\ target[r] \in InTable /\ target[r] \in Instances
        /\ \A s \in Restarts : Restarting(s) => s = r
    BY <1>0, <2>1 DEF OverlapInv, TargetInv
  <2>3. \A b \in Calls : pc[b] \notin AtWork
    BY <2>2, EmptyQueue DEF LineInv, InProgress
  <2>4. down = "up" /\ down' = "up"
    BY <2>1 DEF DownInv, closing
  <2>5. \E s \in {"starting", "done", "failed"} : restart' = [restart EXCEPT ![r] = s]
    BY <1>5 DEF ProceedRestart, RestartStops, RestartStarts, RestartFails
  <2>6. \A s \in Restarts : s # r => ~Restarting(s) /\ restart'[s] = restart[s]
    BY <2>2, <2>5 DEF TargetInv
  <2>7. May(k, m) <=> live[k] = m /\ ~(restart[r] = "starting" /\ target[r] = <<k, m>>)
    BY <2>3, <2>4, <2>6 DEF May, Out, Between, AtWork, Restarting
  <2>8. May(k, m)' <=> live[k] = m /\ ~(restart'[r] = "starting" /\ target[r] = <<k, m>>)
    BY <2>1, <2>3, <2>4, <2>6 DEF May, Out, Between, AtWork, Restarting
  <2>9. PICK t \in Instances : t = target[r] /\ live[t[1]] = t[2]
    BY <2>2 DEF InTable
  <2>10. <<k, m>> \in Instances /\ running \in [Instances -> Nat]
    BY DEF Instances, FreshInv
  <2>11. running' \in {running, Up(t), Down(t)}
    BY <1>5, <2>9 DEF ProceedRestart, RestartStops, RestartStarts, RestartFails, Starts, Stops
  <2>12. CASE <<k, m>> # t
    <3>1. running'[<<k, m>>] = running[<<k, m>>]
      BY <2>10, <2>11, <2>12, Counting
    <3>. QED  BY <1>0, <2>7, <2>8, <2>9, <2>12, <3>1, OnlyStays
  <2>13. CASE <<k, m>> = t
    <3>1. live[k] = m
      BY <2>9, <2>13
    <3>2. CASE restart[r] = "stopping"
      <4>1. \/ running' = Down(t) /\ restart' = [restart EXCEPT ![r] = "starting"]
            \/ running' \in {running, Down(t)} /\ restart' = [restart EXCEPT ![r] = "failed"]
        BY <1>5, <2>9, <3>2 DEF ProceedRestart, RestartStops, RestartStarts, RestartFails, Stops
      <4>2. running[t] = 0 \/ running[t] = 1
        BY <1>0, <2>13 DEF Only
      <4>3. Down(t)[t] = 0
        BY <2>10, <4>2, Counting
      <4>4. running'[t] = 0 \/ (running'[t] = 1 /\ restart'[r] = "failed")
        BY <4>1, <4>2, <4>3 DEF TargetInv
      <4>. QED  BY <2>8, <2>13, <3>1, <4>4 DEF Only
    <3>3. CASE restart[r] = "starting"
      <4>1. /\ running' \in {running, Up(t)}
            /\ \E s \in {"done", "failed"} : restart' = [restart EXCEPT ![r] = s]
        BY <1>5, <2>9, <3>3 DEF ProceedRestart, RestartStops, RestartStarts, RestartFails, Starts
      <4>2. running[t] = 0
        BY <1>0, <2>7, <2>9, <2>13, <3>3 DEF Only
      <4>3. Up(t)[t] = 1
        BY <2>10, <4>2, Counting
      <4>4. restart'[r] # "starting"
        BY <4>1 DEF TargetInv
      <4>5. running'[t] = 0 \/ running'[t] = 1
        BY <4>1, <4>2, <4>3
      <4>. QED  BY <2>8, <2>13, <3>1, <4>4, <4>5 DEF Only
    <3>. QED  BY <2>1, <3>2, <3>3 DEF Restarting
  <2>. QED  BY <2>12, <2>13
<1>6. CASE Shutdown
  <2>1. UNCHANGED <<live, running, pc, loop, restarting>> /\ down = "up" /\ down' = "cancelling"
    BY <1>6 DEF Shutdown, store
  <2>2. May(k, m) => May(k, m)'
    BY <2>1 DEF May, Out, Between, loop, restarting
  <2>. QED  BY <1>0, <2>1, <2>2, OnlyStays
<1>7. CASE WatcherEnded
  <2>1. /\ UNCHANGED <<live, running, pc, loop, restarting>>
        /\ \/ down' = "failed"
           \/ down' = "stopping" /\ leaving' = InTable
        /\ \/ down = "cancelling" /\ \A a \in Watched : ~InProgress(a)
           \/ down = "joining"
    BY <1>7 DEF WatcherEnded, store, ToStop
  <2>2. down \in {"cancelling", "joining"} /\ \A a \in Calls : ~InProgress(a)
    BY <1>7 DEF WatcherEnded, DownInv
  <2>3. \A r \in Restarts : ~Restarting(r)
    BY <2>2 DEF DownInv
  <2>4. May(k, m) => live[k] = m
    BY <2>2 DEF May, InProgress, AtWork
  <2>5. live[k] = m => May(k, m)'
    <3>1. ~Out(k)' /\ ~Between(<<k, m>>)'
      BY <2>1, <2>2, <2>3 DEF Out, Between, InProgress, AtWork, Restarting, restarting
    <3>2. live[k] = m => <<k, m>> \in InTable
      BY DEF InTable, Instances
    <3>. QED  BY <2>1, <3>1, <3>2 DEF May
  <2>. QED  BY <1>0, <2>1, <2>4, <2>5, OnlyStays
<1>8. ASSUME NEW i \in Instances, ShutdownStops(i) PROVE Only(k, m)'
  <2>1. down = "stopping" /\ down' = down /\ running' = Down(i) /\ leaving' = leaving \ {i}
    BY <1>8 DEF ShutdownStops, Stops
  <2>2. <<k, m>> \in Instances /\ running \in [Instances -> Nat]
    BY DEF Instances, FreshInv
  <2>3. CASE i = <<k, m>>
    <3>1. running'[i] = 0
      BY <1>0, <2>1, <2>2, <2>3, Counting DEF Only
    <3>. QED  BY <2>3, <3>1 DEF Only
  <2>4. CASE i # <<k, m>>
    <3>1. running'[<<k, m>>] = running[<<k, m>>]
      BY <2>1, <2>2, <2>4, Counting
    <3>2. May(k, m) => May(k, m)'
      BY <2>1, <2>4 DEF May
    <3>. QED  BY <1>0, <3>1, <3>2, OnlyStays
  <2>. QED  BY <2>3, <2>4
<1>9. CASE ShutdownEnds
  <2>1. UNCHANGED <<running, leaving>> /\ down = "stopping" /\ down' = "over"
    BY <1>9 DEF ShutdownEnds
  <2>2. May(k, m) => May(k, m)'
    BY <2>1 DEF May
  <2>. QED  BY <1>0, <2>1, <2>2, OnlyStays
<1>10. ASSUME NEW i \in Instances, ShutdownRaises(i) PROVE FALSE
  BY <1>10 DEF ShutdownRaises, Note
<1>12. ASSUME NEW a \in Calls, Swallowed(a) PROVE Only(k, m)'
  <2>1. /\ UNCHANGED <<live, running, pc, left, started, stopped, restart, target, leaving>>
        /\ {down, down'} = {"cancelling", "joining"}
    BY <1>12 DEF Swallowed, store, loop, restarting
  <2>2. May(k, m) => May(k, m)'
    BY <2>1 DEF May, Out, Between
  <2>. QED  BY <1>0, <2>1, <2>2, OnlyStays
<1>11. CASE UNCHANGED vars
  <2>1. UNCHANGED <<live, running, pc, left, started, stopped, restart, target, down, leaving>>
    BY <1>11 DEF vars, store, loop, restarting, closing
  <2>2. May(k, m) => May(k, m)'
    BY <2>1 DEF May, Out, Between
  <2>. QED  BY <1>0, <2>1, <2>2, OnlyStays
<1>. QED
  BY <1>1, <1>2, <1>3, <1>4, <1>5, <1>6, <1>7, <1>8, <1>9, <1>10, <1>11, <1>12 DEF Next, ProceedShutdown

\* When the shutdown is over it has stopped what it had to.
LEMMA OverStep == (down = "over" => leaving = {}) /\ [Next]_vars => (down' = "over" => leaving' = {})
<1>. SUFFICES ASSUME down = "over" => leaving = {}, [Next]_vars, down' = "over" PROVE leaving' = {}
  OBVIOUS
<1>1. ASSUME NEW a \in Calls, Apply(a) \/ Proceed(a) \/ Cancelled(a) PROVE UNCHANGED closing
  BY <1>1, Moves DEF Apply, Cancelled
<1>2. ASSUME NEW r \in Restarts, Restart(r) \/ ProceedRestart(r) PROVE UNCHANGED closing
  BY <1>2 DEF Restart, ProceedRestart, RestartStops, RestartStarts, RestartFails
<1>3. ASSUME Shutdown \/ WatcherEnded \/ (\E a \in Calls : Swallowed(a))
             \/ (\E i \in Instances : ShutdownStops(i) \/ ShutdownRaises(i))
      PROVE  FALSE
  BY <1>3 DEF Shutdown, WatcherEnded, Swallowed, ShutdownStops, ShutdownRaises
<1>4. CASE ShutdownEnds
  BY <1>4 DEF ShutdownEnds
<1>5. CASE UNCHANGED closing
  BY <1>5 DEF closing
<1>. QED  BY <1>1, <1>2, <1>3, <1>4, <1>5 DEF Next, ProceedShutdown, vars

\* One of each runs at the start.
LEMMA UpperInit == Init => UpperInv
<1>. SUFFICES ASSUME Init PROVE UpperInv
  OBVIOUS
<1>1. running = [i \in Instances |-> IF live[i[1]] = Boot /\ i[2] = Boot THEN 1 ELSE 0]
  BY DEF Init
<1>2. ASSUME NEW n \in Names, NEW m \in Makers PROVE Only(n, m)
  <2>1. <<n, m>> \in Instances
    BY DEF Instances
  <2>2. running[<<n, m>>] = IF live[n] = Boot /\ m = Boot THEN 1 ELSE 0
    BY <1>1, <2>1
  <2>3. ~Out(n) /\ ~Between(<<n, m>>) /\ down = "up"
    BY DEF Init, Out, Between
  <2>. QED  BY <2>2, <2>3 DEF Only, May
<1>. QED  BY <1>2 DEF UpperInv, Init

\* Always.
LEMMA UpperAlways == Spec => []UpperInv
<1>1. LineInv /\ TableInv /\ LoopInv /\ TargetInv /\ FreshInv /\ OverlapInv /\ DownInv /\ UpperInv /\ [Next]_vars => UpperInv'
  <2>. SUFFICES ASSUME LineInv, TableInv, LoopInv, TargetInv, FreshInv, OverlapInv, DownInv, UpperInv, [Next]_vars
                PROVE  UpperInv'
    OBVIOUS
  <2>1. mishaps' \subseteq {"restore", "swallow"} => \A n \in Names, m \in Makers : Only(n, m)'
    BY UpperStep
  <2>2. down' = "over" => leaving' = {}
    BY OverStep DEF UpperInv
  <2>. QED  BY <2>1, <2>2 DEF UpperInv
<1>. QED
  BY <1>1, UpperInit, LineAlways, TableAlways, LoopAlways, TargetAlways, FreshAlways, OverlapAlways, DownAlways, PTL
  DEF Spec

\* When nothing is at work, what is not in the table does not run, and nothing
\* runs twice, whatever was applied or rolled back (manager.py:46-86).
THEOREM NothingElseRuns == Spec => []NothingLeaks
<1>1. UpperInv => NothingLeaks
  <2>. SUFFICES ASSUME UpperInv, Quiet, mishaps \subseteq {"restore"}, NEW i \in Instances
                PROVE  running[i] <= IF i \in InTable THEN 1 ELSE 0
    BY DEF NothingLeaks, OnlyLiveRun
  <2>1. PICK n \in Names, m \in Makers : i = <<n, m>>
    BY DEF Instances
  <2>2. Only(n, m)
    BY DEF UpperInv
  <2>3. May(n, m) => i \in InTable
    BY <2>1 DEF May, Quiet, AtWork, InTable
  <2>. QED  BY <2>1, <2>2, <2>3 DEF Only
<1>. QED  BY <1>1, UpperAlways, PTL

\* The counts stay within what calls and restarts can start, and a shutdown leaves
\* no transport running, those of the watcher's last call included, even if one
\* could not be restored and if a cancellation was lost on the way.  Left out are a
\* stop() that failed, a call that was cancelled at its transports and a restart
\* that met with a call (manager.py:28-32, runtime.py:51-60).
THEOREM ShutdownStopsAll == Spec => []Consistent
<1>1. UpperInv => AllStopped
  <2>. SUFFICES ASSUME UpperInv, down = "over", mishaps \subseteq {"restore", "swallow"}, NEW i \in Instances PROVE running[i] = 0
    BY DEF AllStopped
  <2>1. PICK n \in Names, m \in Makers : i = <<n, m>>
    BY DEF Instances
  <2>2. Only(n, m) /\ leaving = {}
    BY DEF UpperInv
  <2>. QED  BY <2>1, <2>2 DEF Only, May
<1>. QED  BY <1>1, UpperAlways, TypeCorrect, PTL DEF Consistent
==============================================================================
