------------------------ MODULE StdioTransport_proofs ------------------------
(***************************************************************************)
(* Proofs about StdioTransport for any calls, any controllers, processes   *)
(* that misbehave in any of the ways the model has and any number of them. *)
(*                                                                         *)
(* Typed is the types, with what they rest on, which is that a reader      *)
(* task counts one attempt at most and that the lock's queue is the calls  *)
(* at the lock.  TableInv holds for any ids, equal ones included.          *)
(* PhaseInv says something until two calls of stop() and restart() have    *)
(* overlapped: the lock of apply (runtime.py:91) keeps its stops apart,    *)
(* restart() (manager.py:92-98) and a shutdown take no lock.               *)
(*                                                                         *)
(* The last part is about BridgedTransport: when the bridge is composed    *)
(* with the transport (Composed), that is a behaviour of the transport and *)
(* a behaviour of the bridge.  The argument is one invariant that ties the *)
(* coroutine in request(), the task that runs it and the call that waits   *)
(* for the task to one another.  No theorem before it rests on Composed.   *)
(***************************************************************************)
EXTENDS BridgedTransport, QueueLemmas, FiniteSetTheorems, TLAPS

ReaderStates == Active \cup {"unborn", "ended", "failed", "cancelled"}

\* Reader tasks that have read their last line.
Spent == {k \in Children : reader[k] \in {"backoff", "ended", "failed", "cancelled"}}

\* The transport's own fields and the reader tasks.  A task comes with its
\* process, awaits the stdout of one that exists, and counts one attempt at most.
ReaderInv ==
    /\ {proc, readerTask} \subseteq 0 .. MaxChildren
    /\ running \in BOOLEAN
    /\ child \in [Children -> {"unborn", "alive", "mute", "exited"}]
    /\ reader \in [Children -> ReaderStates]
    /\ source \in [Children -> 0 .. MaxChildren]
    /\ \A k \in Children : child[k] = "unborn" => reader[k] = "unborn"
    /\ \A k \in Children : reader[k] = "reading" => source[k] \in Children
    /\ attempts \in Nat /\ attempts < OverflowAt + Cardinality(Spent)

\* There are finitely many processes, and 0 is none of them.
LEMMA ChildrenFinite ==
  /\ IsFiniteSet(Children) /\ Cardinality(Children) = MaxChildren /\ MaxChildren \in Nat
  /\ Children \subseteq 0 .. MaxChildren /\ Children = (0 .. MaxChildren) \ {0}
  /\ OverflowAt \in Nat \ {0}
<1>1. MaxChildren \in Nat /\ OverflowAt \in Nat \ {0}
  BY StdioAssumption
<1>2. IsFiniteSet(1 .. MaxChildren) /\ Cardinality(1 .. MaxChildren) = MaxChildren
  BY <1>1, FS_Interval
<1>. QED  BY <1>1, <1>2 DEF Children

\* No more tasks are through than there are processes.
LEMMA SpentFinite ==
  IsFiniteSet(Spent) /\ Cardinality(Spent) \in Nat /\ Cardinality(Spent) <= MaxChildren
<1>1. Spent \in SUBSET Children
  BY DEF Spent
<1>. QED  BY <1>1, ChildrenFinite, FS_Subset, FS_CardinalityType

\* A step that counts no attempt, and after which who was through still is.
LEMMA SpentStays ==
  ASSUME ReaderInv, UNCHANGED attempts, Spent \subseteq Spent'
  PROVE  attempts' \in Nat /\ attempts' < OverflowAt + Cardinality(Spent)'
<1>1. Spent' \in SUBSET Children
  BY DEF Spent
<1>2. IsFiniteSet(Spent') /\ Cardinality(Spent') \in Nat
  BY <1>1, ChildrenFinite, FS_Subset, FS_CardinalityType
<1>3. Cardinality(Spent) <= Cardinality(Spent') /\ Cardinality(Spent) \in Nat
  BY <1>2, SpentFinite, FS_Subset
<1>. QED  BY <1>2, <1>3, ChildrenFinite DEF ReaderInv

\* A step that counts one attempt, for a task that was not through.
LEMMA SpentGrows ==
  ASSUME ReaderInv, NEW k \in Children, k \notin Spent, Spent' = Spent \cup {k},
         attempts' \in {attempts, attempts + 1}
  PROVE  attempts' \in Nat /\ attempts' < OverflowAt + Cardinality(Spent)'
<1>1. Cardinality(Spent') = Cardinality(Spent) + 1 /\ Cardinality(Spent) \in Nat
  BY SpentFinite, FS_AddElement
<1>. QED  BY <1>1, ChildrenFinite DEF ReaderInv

\* A step that touches neither the transport's fields nor a task or process.
LEMMA ReaderKept ==
  ASSUME ReaderInv, UNCHANGED <<self, child, tasks>>
  PROVE  ReaderInv'
  BY DEF ReaderInv, Spent, self, tasks

\* No task has run at the start: attempts is below the overflow.
LEMMA ReaderInit == Init => ReaderInv
<1>. SUFFICES ASSUME Init PROVE ReaderInv
  OBVIOUS
<1>1. Spent = {}
  BY DEF Init, Spent
<1>2. Cardinality(Spent) = 0
  BY <1>1, FS_EmptySet
<1>3. attempts \in Nat /\ attempts < OverflowAt + Cardinality(Spent)
  BY <1>2, ChildrenFinite DEF Init
<1>4. {proc, readerTask} \subseteq 0 .. MaxChildren
  BY ChildrenFinite DEF Init
<1>. QED  BY <1>3, <1>4, ChildrenFinite DEF Init, ReaderInv, ReaderStates

\* A process is spawned, and tasks that do not read any longer may stop.
LEMMA ReaderSpawns ==
  ASSUME ReaderInv, UNCHANGED <<attempts, source>>, running' \in BOOLEAN,
         NEW n \in Children, _spawn(n),
         NEW gone \in SUBSET Children,
         \A k \in gone : reader[k] # "unborn" /\ reader[k] # "reading",
         reader' = [k \in Children |-> IF k = n THEN "starting"
                                       ELSE IF k \in gone THEN "ended" ELSE reader[k]]
  PROVE  ReaderInv'
<1>1. child[n] = "unborn" /\ reader[n] = "unborn" /\ child' = [child EXCEPT ![n] = "alive"]
  BY DEF _spawn, ReaderInv
<1>2. proc' = n /\ readerTask' = n
  BY DEF _spawn
<1>3. Spent \subseteq Spent'
  BY <1>1 DEF Spent
<1>4. attempts' \in Nat /\ attempts' < OverflowAt + Cardinality(Spent)'
  BY <1>3, SpentStays
<1>5. {proc', readerTask'} \subseteq 0 .. MaxChildren
  BY <1>2, ChildrenFinite
<1>6. child' \in [Children -> {"unborn", "alive", "mute", "exited"}]
  BY <1>1 DEF ReaderInv
<1>7. reader' \in [Children -> ReaderStates]
  BY DEF ReaderInv, ReaderStates, Active
<1>8. \A k \in Children : child'[k] = "unborn" => reader'[k] = "unborn"
  BY <1>1 DEF ReaderInv
<1>9. \A k \in Children : reader'[k] = "reading" => source'[k] \in Children
  BY DEF ReaderInv
<1>. QED  BY <1>4, <1>5, <1>6, <1>7, <1>8, <1>9 DEF ReaderInv

\* The head of the loop, for a task that is at work.
LEMMA ReaderIterates ==
  ASSUME ReaderInv, NEW k \in Children, reader[k] \in {"starting", "reading"},
         Iterate(k) \/ (reader' = [reader EXCEPT ![k] = "failed"] /\ UNCHANGED source),
         UNCHANGED <<self, child>>
  PROVE  ReaderInv'
<1>1. /\ \E q \in {"ended", "failed", "reading"} :
             /\ reader' = [reader EXCEPT ![k] = q]
             /\ q = "reading" => proc # 0 /\ source' = [source EXCEPT ![k] = proc]
             /\ q # "reading" => source' = source
  BY DEF Iterate
<1>2. PICK q \in {"ended", "failed", "reading"} :
             /\ reader' = [reader EXCEPT ![k] = q]
             /\ q = "reading" => proc # 0 /\ source' = [source EXCEPT ![k] = proc]
             /\ q # "reading" => source' = source
  BY <1>1
<1>3. Spent \subseteq Spent'
  BY <1>2 DEF Spent
<1>4. attempts' \in Nat /\ attempts' < OverflowAt + Cardinality(Spent)'
  BY <1>3, SpentStays DEF self
<1>5. reader' \in [Children -> ReaderStates]
  BY <1>2 DEF ReaderInv, ReaderStates, Active
<1>6. source' \in [Children -> 0 .. MaxChildren]
  BY <1>2 DEF ReaderInv
<1>7. \A j \in Children : reader'[j] = "reading" => source'[j] \in Children
  BY <1>2, ChildrenFinite DEF ReaderInv
<1>8. \A j \in Children : child'[j] = "unborn" => reader'[j] = "unborn"
  BY <1>2 DEF ReaderInv
<1>. QED  BY <1>4, <1>5, <1>6, <1>7, <1>8 DEF ReaderInv, self

\* A reader task comes to its end without counting an attempt.
LEMMA ReaderLeaves ==
  ASSUME ReaderInv, UNCHANGED <<proc, attempts, child, source>>,
         running' \in BOOLEAN, readerTask' \in {0, readerTask},
         reader' \in [Children -> ReaderStates],
         \A k \in Children : \/ reader'[k] = reader[k]
                             \/ /\ reader[k] # "unborn"
                                /\ reader'[k] \in {"ended", "failed", "cancelled"}
  PROVE  ReaderInv'
<1>1. Spent \subseteq Spent'
  BY DEF Spent
<1>2. attempts' \in Nat /\ attempts' < OverflowAt + Cardinality(Spent)'
  BY <1>1, SpentStays
<1>3. {proc', readerTask'} \subseteq 0 .. MaxChildren
  BY ChildrenFinite DEF ReaderInv
<1>4. \A k \in Children : child'[k] = "unborn" => reader'[k] = "unborn"
  BY DEF ReaderInv
<1>5. \A k \in Children : reader'[k] = "reading" => source'[k] \in Children
  BY DEF ReaderInv
<1>. QED  BY <1>2, <1>3, <1>4, <1>5 DEF ReaderInv

\* Every step keeps it.
LEMMA ReaderStep == ReaderInv /\ [Next]_vars => ReaderInv'
<1>. SUFFICES ASSUME ReaderInv, [Next]_vars PROVE ReaderInv'
  OBVIOUS
<1>1. ASSUME NEW c \in Controllers, Stop(c) PROVE ReaderInv'
  <2>1. reader' \in [Children -> ReaderStates]
    BY <1>1 DEF Stop, CancelReader, ReaderInv, ReaderStates
  <2>2. \A k \in Children : \/ reader'[k] = reader[k]
                            \/ reader[k] \in Active /\ reader'[k] = "cancelled"
    BY <1>1 DEF Stop, CancelReader
  <2>. QED  BY <1>1, <2>1, <2>2, ReaderLeaves DEF Stop, Active, os
<1>2. ASSUME NEW c \in Callers, Join(c) \/ Closed(c) \/ Exited(c) PROVE ReaderInv'
  <2>1. /\ proc' \in {0, proc} /\ readerTask' \in {0, readerTask}
        /\ UNCHANGED <<running, attempts, child, reader, source>>
    BY <1>2 DEF Join, Closed, Exited, Finish, self, os, tasks
  <2>. QED  BY <2>1, ChildrenFinite DEF ReaderInv, Spent
<1>3. ASSUME NEW c \in Callers, JoinFailed(c) \/ SpawnFails(c) PROVE ReaderInv'
  BY <1>3, ReaderKept DEF JoinFailed, SpawnFails, os
<1>4. ASSUME NEW c \in Callers, Kill(c) PROVE ReaderInv'
  <2>1. UNCHANGED <<self, tasks>>
    BY <1>4 DEF Kill
  <2>2. UNCHANGED child \/ (Alive(proc) /\ child' = [child EXCEPT ![proc] = "exited"])
    <3>1. CASE Alive(proc)
      BY <1>4, <3>1 DEF Kill, Die
    <3>2. CASE ~Alive(proc)
      <4>1. UNCHANGED os
        BY <1>4, <3>2 DEF Kill
      <4>. QED  BY <4>1 DEF os
    <3>. QED  BY <3>1, <3>2
  <2>. QED  BY <2>1, <2>2 DEF ReaderInv, Spent, self, tasks, Alive
<1>5. ASSUME NEW c \in Callers, Spawned(c) PROVE ReaderInv'
  <2>1. PICK n \in Children : _spawn(n) /\ reader' = [reader EXCEPT ![n] = "starting"]
    BY <1>5 DEF Spawned
  <2>2. PICK gone \in SUBSET Children : gone = {}
    OBVIOUS
  <2>3. reader' = [k \in Children |-> IF k = n THEN "starting"
                                      ELSE IF k \in gone THEN "ended" ELSE reader[k]]
    BY <2>1, <2>2 DEF ReaderInv
  <2>4. running' \in BOOLEAN /\ UNCHANGED <<attempts, source>>
    BY <1>5 DEF Spawned
  <2>. QED  BY <2>1, <2>2, <2>3, <2>4, ReaderSpawns
<1>6. ASSUME NEW k \in Children, ReaderStarts(k) PROVE ReaderInv'
  <2>1. /\ reader[k] \in {"starting", "reading"}
        /\ Iterate(k) \/ (reader' = [reader EXCEPT ![k] = "failed"] /\ UNCHANGED source)
    BY <1>6 DEF ReaderStarts
  <2>2. UNCHANGED <<self, child>>
    BY <1>6 DEF ReaderStarts, os
  <2>. QED  BY <2>1, <2>2, ReaderIterates
<1>7. ASSUME NEW k \in Children, ReadLine(k) PROVE ReaderInv'
  <2>1. /\ reader[k] \in {"starting", "reading"}
        /\ Iterate(k) \/ (reader' = [reader EXCEPT ![k] = "failed"] /\ UNCHANGED source)
    BY <1>7 DEF ReadLine
  <2>2. UNCHANGED <<self, child>>
    BY <1>7 DEF ReadLine
  <2>. QED  BY <2>1, <2>2, ReaderIterates
<1>8. ASSUME NEW k \in Children, ReadEOF(k) PROVE ReaderInv'
  <2>1. PICK q \in {"backoff", "ended", "failed"} : reader' = [reader EXCEPT ![k] = q]
    BY <1>8 DEF ReadEOF, Retry
  <2>2. reader[k] = "reading" /\ UNCHANGED <<proc, running, readerTask, child, source>>
    BY <1>8 DEF ReadEOF
  <2>3. attempts' \in {attempts, attempts + 1}
    BY <1>8 DEF ReadEOF
  <2>4. k \notin Spent /\ Spent' = Spent \cup {k}
    BY <2>1, <2>2 DEF Spent, ReaderInv
  <2>5. attempts' \in Nat /\ attempts' < OverflowAt + Cardinality(Spent)'
    BY <2>3, <2>4, SpentGrows
  <2>6. reader' \in [Children -> ReaderStates]
    BY <2>1 DEF ReaderInv, ReaderStates, Active
  <2>7. /\ \A j \in Children : child'[j] = "unborn" => reader'[j] = "unborn"
        /\ \A j \in Children : reader'[j] = "reading" => source'[j] \in Children
    BY <2>1, <2>2 DEF ReaderInv
  <2>. QED  BY <2>2, <2>5, <2>6, <2>7 DEF ReaderInv
<1>9. ASSUME NEW k \in Children, Respawned(k) PROVE ReaderInv'
  <2>1. PICK n \in Children :
           _spawn(n) /\ reader' = [reader EXCEPT ![k] = "ended", ![n] = "starting"]
    BY <1>9 DEF Respawned
  <2>2. reader' = [j \in Children |-> IF j = n THEN "starting"
                                      ELSE IF j \in {k} THEN "ended" ELSE reader[j]]
    BY <2>1 DEF ReaderInv
  <2>3. reader[k] = "backoff" /\ running' \in BOOLEAN /\ UNCHANGED <<attempts, source>>
    BY <1>9 DEF Respawned, ReaderInv
  <2>. QED  BY <2>1, <2>2, <2>3, ReaderSpawns
<1>10. ASSUME NEW k \in Children, RespawnFails(k) PROVE ReaderInv'
  <2>1. reader[k] = "backoff" /\ reader' = [reader EXCEPT ![k] = "failed"]
    BY <1>10 DEF RespawnFails
  <2>2. reader' \in [Children -> ReaderStates]
    BY <2>1 DEF ReaderInv, ReaderStates
  <2>. QED  BY <1>10, <2>1, <2>2, ReaderLeaves DEF RespawnFails, ReaderInv, self, os
<1>11. ASSUME NEW k \in Children, Process(k) PROVE ReaderInv'
  <2>1. CASE Exits(k) \/ ClosesStdout(k)
    <3>1. PICK s \in {"mute", "exited"} : child[k] # "unborn" /\ child' = [child EXCEPT ![k] = s]
      BY <2>1 DEF Exits, Alive, Die, ClosesStdout
    <3>. QED  BY <2>1, <3>1 DEF Exits, ClosesStdout, ReaderInv, Spent, self, tasks
  <2>2. CASE Garbles(k) \/ CatchesUp(k) \/ \E r \in Requests : Answers(k, r)
    BY <2>2, ReaderKept DEF Garbles, CatchesUp, Answers
  <2>. QED  BY <1>11, <2>1, <2>2 DEF Process
<1>12. ASSUME NEW r \in Requests, CallWithoutProcess(r) \/ Call(r) \/ Resumes(r) \/ CancelCall(r)
       PROVE  ReaderInv'
  BY <1>12, ReaderKept DEF CallWithoutProcess, Call, Resumes, LockTaken, Drained, Return,
                           CancelCall, os
<1>13. CASE UNCHANGED vars
  BY <1>13, ReaderKept DEF vars, os
<1>. QED
  BY <1>1, <1>2, <1>3, <1>4, <1>5, <1>6, <1>7, <1>8, <1>9, <1>10, <1>11, <1>12, <1>13
     DEF Next, Control, Reader

------------------------------------------------------------------------------
(* The write lock *)

ReqStates == {"idle", "locking", "draining", "waiting", "returned", "raised", "cancelled"}
AtLock == {"locking", "draining"}

\* The lock's queue holds exactly the calls that write or wait to, each once, and
\* the one that writes is the first.
LockInv ==
    /\ lock \in Seq(Requests) /\ IsInjective(lock)
    /\ req \in [Requests -> ReqStates]
    /\ \A r \in Requests : r \in ToSet(lock) <=> req[r] \in AtLock
    /\ \A r \in Requests : req[r] = "draining" => lock # <<>> /\ Head(lock) = r

\* At the start nobody is at the lock.
LEMMA LockInit == Init => LockInv
<1>1. <<>> \in Seq(Requests) /\ ToSet(<<>>) = {} /\ IsInjective(<<>>)
  BY EmptyQueue
<1>. QED  BY <1>1 DEF Init, LockInv, ReqStates, AtLock

\* A step that touches neither the lock nor the calls.
LEMMA LockKept ==
  ASSUME LockInv, UNCHANGED <<lock, req>>
  PROVE  LockInv'
  BY DEF LockInv

\* The first of the queue writes, and leaves the queue unless it has to drain.
LEMMA LockWrite ==
  ASSUME req \in [Requests -> ReqStates],
         NEW r \in Requests, NEW q \in Seq(Requests), IsInjective(q),
         q # <<>>, Head(q) = r, req[r] # "draining",
         \A x \in Requests \ {r} : x \in ToSet(q) <=> req[x] = "locking",
         \A x \in Requests \ {r} : req[x] # "draining",
         Write(r, q)
  PROVE  LockInv'
<1>1. /\ Tail(q) \in Seq(Requests) /\ IsInjective(Tail(q))
      /\ ToSet(q) = ToSet(Tail(q)) \cup {r} /\ r \notin ToSet(Tail(q))
  BY Dequeue
<1>2. \/ lock' = q /\ req' = [req EXCEPT ![r] = "draining"]
      \/ lock' = Tail(q) /\ \E s \in ReqStates \ AtLock : req' = [req EXCEPT ![r] = s]
  BY DEF Write, Sent, ReqStates, AtLock
<1>3. CASE lock' = q /\ req' = [req EXCEPT ![r] = "draining"]
  BY <1>1, <1>3 DEF LockInv, ReqStates, AtLock
<1>4. CASE lock' = Tail(q) /\ \E s \in ReqStates \ AtLock : req' = [req EXCEPT ![r] = s]
  <2>1. PICK s \in ReqStates \ AtLock : req' = [req EXCEPT ![r] = s]
    BY <1>4
  <2>2. req' \in [Requests -> ReqStates]
    BY <2>1
  <2>3. \A x \in Requests : x \in ToSet(lock') <=> req'[x] \in AtLock
    BY <1>1, <1>4, <2>1 DEF AtLock
  <2>4. \A x \in Requests : req'[x] # "draining"
    BY <2>1 DEF AtLock
  <2>. QED  BY <1>1, <1>4, <2>2, <2>3, <2>4 DEF LockInv
<1>. QED  BY <1>2, <1>3, <1>4

\* A call that was at the lock leaves it, from wherever it was.
LEMMA LockUnlock ==
  ASSUME LockInv, NEW r \in Requests, NEW s \in ReqStates \ AtLock,
         req' = [req EXCEPT ![r] = s], Unlock(r)
  PROVE  LockInv'
<1>1. req' \in [Requests -> ReqStates]
  BY DEF LockInv
<1>2. CASE r \notin ToSet(lock)
  BY <1>1, <1>2 DEF LockInv, Unlock, AtLock
<1>3. CASE r \in ToSet(lock)
  <2>1. PICK i \in DOMAIN lock : lock[i] = r /\ lock' = RemoveAt(lock, i)
    BY <1>3 DEF Unlock
  <2>2. /\ lock' \in Seq(Requests) /\ IsInjective(lock')
        /\ ToSet(lock') = ToSet(lock) \ {r}
        /\ r # Head(lock) => lock' # <<>> /\ Head(lock') = Head(lock)
    BY <2>1, Leave DEF LockInv
  <2>3. \A x \in Requests : x \in ToSet(lock') <=> req'[x] \in AtLock
    BY <2>2 DEF LockInv, AtLock
  <2>4. \A x \in Requests : req'[x] = "draining" => lock' # <<>> /\ Head(lock') = x
    BY <2>2 DEF LockInv, AtLock
  <2>. QED  BY <1>1, <2>2, <2>3, <2>4 DEF LockInv
<1>. QED  BY <1>2, <1>3

\* Every step keeps it.
LEMMA LockStep == LockInv /\ [Next]_vars => LockInv'
<1>. SUFFICES ASSUME LockInv, [Next]_vars PROVE LockInv'
  OBVIOUS
<1>1. ASSUME NEW c \in Controllers, Stop(c) PROVE LockInv'
  BY <1>1, LockKept DEF Stop, calls
<1>2. ASSUME NEW c \in Callers, Control(c) PROVE LockInv'
  BY <1>2, LockKept DEF Control, JoinFailed, Join, Closed, Exited, Kill, Spawned, SpawnFails, calls
<1>3. ASSUME NEW k \in Children, Reader(k) \/ Process(k) PROVE LockInv'
  BY <1>3, LockKept DEF Reader, ReaderStarts, ReadLine, ReadEOF, Respawned, RespawnFails,
                        Process, Garbles, CatchesUp, ClosesStdout, Exits, Answers, calls
<1>4. ASSUME NEW r \in Requests, CallWithoutProcess(r) \/ Return(r) PROVE LockInv'
  <2>1. /\ req[r] \notin AtLock /\ lock' = lock
        /\ \E s \in ReqStates \ AtLock : req' = [req EXCEPT ![r] = s]
    BY <1>4 DEF CallWithoutProcess, Return, AtLock, ReqStates
  <2>. QED  BY <2>1 DEF LockInv, AtLock
<1>5. ASSUME NEW r \in Requests, Call(r) PROVE LockInv'
  <2>1. CASE lock = <<>>
    <3>1. /\ <<r>> \in Seq(Requests) /\ <<r>> # <<>> /\ Head(<<r>>) = r
          /\ IsInjective(<<r>>) /\ ToSet(<<r>>) = {r}
      BY DEF IsInjective, ToSet
    <3>2. \A x \in Requests : req[x] \notin AtLock
      BY <2>1, EmptyQueue DEF LockInv
    <3>3. Write(r, <<r>>)
      BY <1>5, <2>1 DEF Call
    <3>4. /\ req[r] # "draining"
          /\ \A x \in Requests \ {r} : x \in ToSet(<<r>>) <=> req[x] = "locking"
          /\ \A x \in Requests \ {r} : req[x] # "draining"
      BY <3>1, <3>2 DEF AtLock
    <3>. QED  BY <3>1, <3>3, <3>4, LockWrite DEF LockInv
  <2>2. CASE lock # <<>>
    <3>1. /\ req[r] = "idle" /\ lock' = Append(lock, r)
          /\ req' = [req EXCEPT ![r] = "locking"]
      BY <1>5, <2>2 DEF Call
    <3>2. r \notin ToSet(lock)
      BY <3>1 DEF LockInv, AtLock
    <3>3. /\ lock' \in Seq(Requests) /\ IsInjective(lock')
          /\ ToSet(lock') = ToSet(lock) \cup {r}
          /\ lock' # <<>> /\ Head(lock') = Head(lock)
      BY <2>2, <3>1, <3>2, Enqueue DEF LockInv
    <3>. QED  BY <3>1, <3>3 DEF LockInv, AtLock, ReqStates
  <2>. QED  BY <2>1, <2>2
<1>6. ASSUME NEW r \in Requests, LockTaken(r) PROVE LockInv'
  <2>1. req[r] = "locking" /\ Head(lock) = r /\ Write(r, lock)
    BY <1>6 DEF LockTaken
  <2>2. lock # <<>>
    BY <2>1, EmptyQueue DEF LockInv, AtLock
  <2>3. \A x \in Requests : req[x] # "draining"
    BY <2>1 DEF LockInv
  <2>. QED  BY <2>1, <2>2, <2>3, LockWrite DEF LockInv, AtLock
<1>7. ASSUME NEW r \in Requests, Drained(r) PROVE LockInv'
  <2>1. /\ req[r] = "draining" /\ lock' = Tail(lock)
        /\ \E s \in ReqStates \ AtLock : req' = [req EXCEPT ![r] = s]
    BY <1>7 DEF Drained, Sent, ReqStates, AtLock
  <2>2. lock # <<>> /\ Head(lock) = r /\ lock \in Seq(Requests) /\ IsInjective(lock)
    BY <2>1 DEF LockInv
  <2>3. /\ lock' \in Seq(Requests) /\ IsInjective(lock')
        /\ ToSet(lock) = ToSet(lock') \cup {r} /\ r \notin ToSet(lock')
    BY <2>1, <2>2, Dequeue
  <2>4. \A x \in Requests \ {r} : req[x] # "draining"
    BY <2>2 DEF LockInv
  <2>. QED  BY <2>1, <2>3, <2>4 DEF LockInv, AtLock
<1>8. ASSUME NEW r \in Requests, CancelCall(r) PROVE LockInv'
  BY <1>8, LockUnlock DEF CancelCall, ReqStates, AtLock
<1>9. CASE UNCHANGED vars
  BY <1>9, LockKept DEF vars, calls
<1>. QED
  BY <1>1, <1>2, <1>3, <1>4, <1>5, <1>6, <1>7, <1>8, <1>9 DEF Next, Resumes

------------------------------------------------------------------------------
(* Types *)

CtlStates == {"idle", "joining", "closing", "terminating", "killing", "spawning", "done", "raised"}
FutStates == Requests \cup {"absent", "unset", "none", "cancelled"}
Lines == Requests \cup {Garbage}

CtlInv ==
    /\ ctl \in [Callers -> CtlStates]
    /\ op \in [Callers -> {"start", "stop", "restart"}]
    /\ target \in [Callers -> 0 .. MaxChildren]
    /\ last \in Callers \cup {Overlap}

PipesInv ==
    /\ stdin \in [Children -> {"open", "closing", "gone"}]
    /\ full \in [Children -> BOOLEAN]
    /\ inbox \in [Children -> SUBSET (Requests \ Notifications)]
    /\ outbox \in [Children -> Seq(Lines)]
    /\ sentTo \in [Requests -> 0 .. MaxChildren]

FuturesInv ==
    /\ pending \in [Ids -> Requests \cup {Nobody}]
    /\ fut \in [Requests -> FutStates]

Typed == ReaderInv /\ LockInv /\ CtlInv /\ PipesInv /\ FuturesInv

\* A step that moves no controller.
LEMMA CtlKept == ASSUME CtlInv, UNCHANGED ctls PROVE CtlInv'
  BY DEF CtlInv, ctls

\* Every step keeps the types of the controllers.
LEMMA CtlStep == ReaderInv /\ CtlInv /\ [Next]_vars => CtlInv'
<1>. SUFFICES ASSUME ReaderInv, CtlInv, [Next]_vars PROVE CtlInv'
  OBVIOUS
<1>. USE DEF CtlInv, CtlStates
<1>0. \A c \in Controllers : c \in Callers
  BY DEF Callers
<1>1. ASSUME NEW c \in Controllers, Stop(c) PROVE CtlInv'
  BY <1>0, <1>1 DEF Stop, ReaderInv
<1>2. ASSUME NEW c \in Callers, Control(c) PROVE CtlInv'
  BY <1>2 DEF Control, JoinFailed, Join, Closed, Exited, Finish, Kill, Spawned, SpawnFails, ReaderInv
<1>3. ASSUME NEW k \in Children, Reader(k) \/ Process(k) PROVE CtlInv'
  BY <1>3, CtlKept DEF Reader, ReaderStarts, ReadLine, ReadEOF, Respawned, RespawnFails,
                       Process, Garbles, CatchesUp, ClosesStdout, Exits, Answers
<1>4. ASSUME NEW r \in Requests, CallWithoutProcess(r) \/ Call(r) \/ Resumes(r) \/ CancelCall(r)
      PROVE  CtlInv'
  BY <1>4, CtlKept DEF CallWithoutProcess, Call, Resumes, LockTaken, Drained, Return, CancelCall
<1>5. CASE UNCHANGED vars
  BY <1>5, CtlKept DEF vars
<1>. QED  BY <1>1, <1>2, <1>3, <1>4, <1>5 DEF Next

\* A step that touches none of the streams.
LEMMA PipesKept == ASSUME PipesInv, UNCHANGED <<stdin, full, inbox, outbox, sentTo>> PROVE PipesInv'
  BY DEF PipesInv

\* A line that is written goes into the inbox of a process that exists.
LEMMA PipesWrite ==
  ASSUME ReaderInv, PipesInv, NEW r \in Requests, NEW q, Write(r, q), UNCHANGED <<stdin, outbox>>
  PROVE  PipesInv'
<1>1. CASE UNCHANGED <<full, inbox, sentTo>>
  BY <1>1, PipesKept
<1>2. CASE Writable /\ Receive(r) /\ full' \in {full, [full EXCEPT ![proc] = TRUE]}
  <2>1. proc \in Children
    BY <1>2, ChildrenFinite DEF Writable, Alive, ReaderInv
  <2>2. {r} \ Notifications \in SUBSET (Requests \ Notifications)
    OBVIOUS
  <2>. QED  BY <1>2, <2>1, <2>2, ChildrenFinite DEF Receive, PipesInv
<1>. QED  BY <1>1, <1>2 DEF Write

\* Every step keeps the types of the streams.
LEMMA PipesStep == ReaderInv /\ CtlInv /\ PipesInv /\ [Next]_vars => PipesInv'
<1>. SUFFICES ASSUME ReaderInv, CtlInv, PipesInv, [Next]_vars PROVE PipesInv'
  OBVIOUS
<1>1. ASSUME NEW c \in Controllers, Stop(c) PROVE PipesInv'
  BY <1>1, PipesKept DEF Stop, os, calls
<1>2. ASSUME NEW c \in Callers, JoinFailed(c) \/ Exited(c) \/ Spawned(c) \/ SpawnFails(c)
      PROVE  PipesInv'
  BY <1>2, PipesKept DEF JoinFailed, Exited, Spawned, SpawnFails, os, calls
<1>3. ASSUME NEW c \in Callers, Join(c) \/ Closed(c) PROVE PipesInv'
  <2>1. stdin' \in [Children -> {"open", "closing", "gone"}]
    BY <1>3 DEF Join, Closed, PipesInv
  <2>. QED  BY <1>3, <2>1 DEF Join, Closed, PipesInv, calls
<1>4. ASSUME NEW c \in Callers, Kill(c) PROVE PipesInv'
  <2>1. CASE Die(proc)
    BY <1>4, <2>1 DEF Kill, Die, PipesInv, calls
  <2>2. CASE UNCHANGED os
    BY <1>4, <2>2, PipesKept DEF Kill, os, calls
  <2>. QED  BY <1>4, <2>1, <2>2 DEF Kill
<1>5. ASSUME NEW k \in Children, ReaderStarts(k) \/ Respawned(k) \/ RespawnFails(k) PROVE PipesInv'
  BY <1>5, PipesKept DEF ReaderStarts, Respawned, RespawnFails, os, calls
<1>6. ASSUME NEW k \in Children, ReadLine(k) PROVE PipesInv'
  <2>1. reader[k] = "reading" /\ outbox[source[k]] # <<>>
        /\ outbox' = [outbox EXCEPT ![source[k]] = Tail(@)]
        /\ UNCHANGED <<stdin, full, inbox, sentTo>>
    BY <1>6 DEF ReadLine, calls
  <2>2. source[k] \in Children
    BY <2>1 DEF ReaderInv
  <2>3. Tail(outbox[source[k]]) \in Seq(Lines)
    BY <2>1, <2>2, Dequeue DEF PipesInv
  <2>. QED  BY <2>1, <2>3 DEF PipesInv
<1>7. ASSUME NEW k \in Children, ReadEOF(k) PROVE PipesInv'
  BY <1>7 DEF ReadEOF, PipesInv, calls
<1>8. ASSUME NEW k \in Children, Garbles(k) \/ \E r \in Requests : Answers(k, r) PROVE PipesInv'
  <2>1. PICK x \in Lines : outbox' = [outbox EXCEPT ![k] = Append(@, x)]
    BY <1>8 DEF Garbles, Answers, Lines
  <2>2. Append(outbox[k], x) \in Seq(Lines)
    BY Enqueue DEF PipesInv
  <2>3. outbox' \in [Children -> Seq(Lines)]
    BY <2>1, <2>2 DEF PipesInv
  <2>4. inbox' \in [Children -> SUBSET (Requests \ Notifications)]
    <3>1. inbox \in [Children -> SUBSET (Requests \ Notifications)]
      BY DEF PipesInv
    <3>2. inbox' = inbox \/ \E r \in Requests : inbox' = [inbox EXCEPT ![k] = inbox[k] \ {r}]
      BY <1>8 DEF Garbles, Answers
    <3>. QED  BY <3>1, <3>2
  <2>. QED  BY <1>8, <2>3, <2>4 DEF Garbles, Answers, PipesInv, calls
<1>9. ASSUME NEW k \in Children, CatchesUp(k) \/ ClosesStdout(k) \/ Exits(k) PROVE PipesInv'
  BY <1>9 DEF CatchesUp, ClosesStdout, Exits, Die, PipesInv, calls
<1>10. ASSUME NEW r \in Requests, Call(r) PROVE PipesInv'
  <2>1. CASE lock = <<>>
    BY <1>10, <2>1, PipesWrite DEF Call
  <2>2. CASE lock # <<>>
    BY <1>10, <2>2, PipesKept DEF Call
  <2>. QED  BY <2>1, <2>2
<1>11. ASSUME NEW r \in Requests, LockTaken(r) PROVE PipesInv'
  BY <1>11, PipesWrite DEF LockTaken
<1>12. ASSUME NEW r \in Requests, CallWithoutProcess(r) \/ Drained(r) \/ Return(r) \/ CancelCall(r)
       PROVE  PipesInv'
  BY <1>12, PipesKept DEF CallWithoutProcess, Drained, Return, CancelCall, os
<1>13. CASE UNCHANGED vars
  BY <1>13, PipesKept DEF vars, os, calls
<1>. QED
  BY <1>1, <1>2, <1>3, <1>4, <1>5, <1>6, <1>7, <1>8, <1>9, <1>10, <1>11, <1>12, <1>13
     DEF Next, Control, Reader, Process, Resumes

\* A step that touches neither the table nor the futures.
LEMMA FuturesKept == ASSUME FuturesInv, UNCHANGED futures PROVE FuturesInv'
  BY DEF FuturesInv, futures

\* A flush puts None into futures.
LEMMA FuturesFlush == ASSUME FuturesInv, _flush_pending PROVE FuturesInv'
  BY DEF FuturesInv, FutStates, _flush_pending

\* The id of a call is one.
LEMMA IdIsId == \A r \in Requests : IdOf[r] \in Ids
  BY StdioAssumption DEF Ids, Range

\* Every step keeps the types of the table and the futures.
LEMMA FuturesStep == ReaderInv /\ PipesInv /\ FuturesInv /\ [Next]_vars => FuturesInv'
<1>. SUFFICES ASSUME ReaderInv, PipesInv, FuturesInv, [Next]_vars PROVE FuturesInv'
  OBVIOUS
<1>1. ASSUME NEW c \in Controllers, Stop(c) PROVE FuturesInv'
  BY <1>1, FuturesKept DEF Stop
<1>2. ASSUME NEW c \in Callers, Join(c) PROVE FuturesInv'
  BY <1>2, FuturesFlush DEF Join
<1>3. ASSUME NEW c \in Callers, JoinFailed(c) \/ Closed(c) \/ Exited(c) \/ Kill(c) \/ Spawned(c) \/ SpawnFails(c)
      PROVE  FuturesInv'
  BY <1>3, FuturesKept DEF JoinFailed, Closed, Exited, Kill, Spawned, SpawnFails
<1>4. ASSUME NEW k \in Children, ReadLine(k) PROVE FuturesInv'
  <2>1. CASE UNCHANGED futures
    BY <2>1, FuturesKept
  <2>2. CASE ~UNCHANGED futures
    <3>1. source[k] \in Children /\ outbox[source[k]] # <<>>
      BY <1>4 DEF ReadLine, ReaderInv
    <3>2. Head(outbox[source[k]]) \in Lines
      BY <3>1, Dequeue DEF PipesInv
    <3>3. PICK q \in Requests : Deliver(q)
      BY <1>4, <2>2, <3>2 DEF ReadLine, Lines, futures
    <3>. QED  BY <2>2, <3>3, IdIsId DEF Deliver, Entry, FuturesInv, FutStates
  <2>. QED  BY <2>1, <2>2
<1>5. ASSUME NEW k \in Children, ReadEOF(k) PROVE FuturesInv'
  BY <1>5, FuturesFlush DEF ReadEOF
<1>6. ASSUME NEW k \in Children, ReaderStarts(k) \/ Respawned(k) \/ RespawnFails(k) \/ Process(k)
      PROVE  FuturesInv'
  BY <1>6, FuturesKept DEF ReaderStarts, Respawned, RespawnFails, Process, Garbles, CatchesUp,
                           ClosesStdout, Exits, Answers
<1>7. ASSUME NEW r \in Requests, CallWithoutProcess(r) PROVE FuturesInv'
  BY <1>7 DEF CallWithoutProcess, FuturesInv, FutStates
<1>8. ASSUME NEW r \in Requests, Call(r) PROVE FuturesInv'
  BY <1>8, IdIsId DEF Call, FuturesInv, FutStates
<1>9. ASSUME NEW r \in Requests, Resumes(r) PROVE FuturesInv'
  BY <1>9, FuturesKept DEF Resumes, LockTaken, Drained, Return
<1>10. ASSUME NEW r \in Requests, CancelCall(r) PROVE FuturesInv'
  BY <1>10 DEF CancelCall, FuturesInv, FutStates
<1>11. CASE UNCHANGED vars
  BY <1>11, FuturesKept DEF vars
<1>. QED
  BY <1>1, <1>2, <1>3, <1>4, <1>5, <1>6, <1>7, <1>8, <1>9, <1>10, <1>11 DEF Next, Control, Reader

\* All of it at the start.
LEMMA TypedInit == Init => Typed
<1>. SUFFICES ASSUME Init PROVE Typed
  OBVIOUS
<1>1. <<>> \in Seq(Lines)
  BY EmptySeq
<1>2. CtlInv
  BY ChildrenFinite DEF Init, CtlInv, CtlStates, Callers
<1>3. PipesInv
  BY <1>1, ChildrenFinite DEF Init, PipesInv
<1>4. FuturesInv
  BY DEF Init, FuturesInv, FutStates
<1>. QED  BY ReaderInit, LockInit, <1>2, <1>3, <1>4 DEF Typed

\* All of it after every step.
LEMMA TypedStep == Typed /\ [Next]_vars => Typed'
  BY ReaderStep, LockStep, CtlStep, PipesStep, FuturesStep DEF Typed

\* All of it always.
LEMMA TypedInv == Spec => []Typed
  BY TypedInit, TypedStep, PTL DEF Spec

\* The bound on attempts is the one that TypeOK has.
LEMMA TypedIsTypeOK == Typed => TypeOK
<1>. SUFFICES ASSUME Typed PROVE TypeOK
  OBVIOUS
<1>1. attempts \in 0 .. OverflowAt + MaxChildren
  BY SpentFinite, ChildrenFinite DEF Typed, ReaderInv
<1>. QED
  BY <1>1 DEF Typed, TypeOK, ReaderInv, LockInv, CtlInv, PipesInv, FuturesInv,
              ReaderStates, ReqStates, CtlStates, FutStates, Lines

\* Whatever is called, cancelled, restarted or exits, every part of the transport
\* keeps its type; attempts stays within one per process (stdio.py:71-77).
THEOREM TypeCorrect == Spec => []TypeOK
  BY TypedInv, TypedIsTypeOK, PTL

\* Only a call that is writing or about to holds the write lock or waits for it
\* (stdio.py:109-111, 117-119).
THEOREM LockInUseAlways == Spec => []LockInUse
<1>1. Typed => LockInUse
  <2>. SUFFICES ASSUME Typed, NEW r \in ToSet(lock) PROVE req[r] \in {"locking", "draining"}
    BY DEF LockInUse
  <2>1. r \in Requests
    BY InQueue DEF Typed, LockInv
  <2>. QED  BY <2>1 DEF Typed, LockInv, AtLock
<1>. QED  BY <1>1, TypedInv, PTL

------------------------------------------------------------------------------
(* The table of pending requests, whatever ids the clients choose *)

TableInv ==
    /\ \A i \in Ids : pending[i] # Nobody => IdOf[pending[i]] = i
    /\ NobodyForgotten
    /\ OwnAnswer

\* What stands in the place of a call is not one.
LEMMA NoneIsNoCall ==
  /\ Nobody \notin Requests /\ Garbage \notin Requests
  /\ \A x \in {"absent", "unset", "none", "cancelled"} : x \notin Requests
  BY StdioAssumption DEF NoCall

\* At the start the table is empty.
LEMMA TableInit == Init => TableInv
  BY NoneIsNoCall DEF Init, TableInv, NobodyForgotten, OwnAnswer

\* A step that touches neither the table nor the futures.
LEMMA TableKept == ASSUME TableInv, UNCHANGED futures PROVE TableInv'
  BY DEF TableInv, NobodyForgotten, OwnAnswer, futures

\* A flush wakes every call in the table.
LEMMA TableFlush == ASSUME FuturesInv, TableInv, _flush_pending PROVE TableInv'
<1>1. \A r \in Requests : fut'[r] = IF fut[r] = "unset" /\ r \in Range(pending) THEN "none" ELSE fut[r]
  BY DEF _flush_pending
<1>2. \A i \in Ids : pending'[i] = Nobody
  BY DEF _flush_pending
<1>3. NobodyForgotten'
  <2>. SUFFICES ASSUME NEW r \in Requests, fut'[r] = "unset"
                PROVE  \E q \in Requests \ {r} : IdOf[q] = IdOf[r] /\ fut'[q] # "absent"
    BY DEF NobodyForgotten
  <2>1. fut[r] = "unset" /\ r \notin Range(pending)
    BY <1>1
  <2>2. pending[IdOf[r]] # r
    BY <2>1, IdIsId DEF FuturesInv, Range
  <2>3. PICK q \in Requests \ {r} : IdOf[q] = IdOf[r] /\ fut[q] # "absent"
    BY <2>1, <2>2 DEF TableInv, NobodyForgotten
  <2>. QED  BY <1>1, <2>3
<1>4. OwnAnswer'
  BY <1>1, NoneIsNoCall DEF TableInv, OwnAnswer
<1>. QED  BY <1>2, <1>3, <1>4 DEF TableInv

\* The entry an answer is given to is that of a call with its id.
LEMMA TableDeliver ==
  ASSUME FuturesInv, TableInv, NEW q \in Requests, Deliver(q)
  PROVE  TableInv'
<1>. DEFINE p == pending[IdOf[q]]
<1>1. CASE p = Nobody
  BY <1>1, TableKept DEF Deliver, Entry
<1>2. CASE p # Nobody
  <2>1. p \in Requests /\ IdOf[p] = IdOf[q]
    BY <1>2, IdIsId DEF TableInv, FuturesInv
  <2>2. /\ pending' = [pending EXCEPT ![IdOf[p]] = Nobody]
        /\ fut' = [fut EXCEPT ![p] = IF @ = "unset" THEN q ELSE @]
    BY <1>2 DEF Deliver, Entry
  <2>3. fut'[p] # "unset"
    BY <2>1, <2>2, NoneIsNoCall DEF FuturesInv
  <2>4. \A r \in Requests \ {p} : fut'[r] = fut[r]
    BY <2>1, <2>2 DEF FuturesInv
  <2>5. \A i \in Ids : pending'[i] # Nobody => pending'[i] = pending[i]
    BY <2>2 DEF FuturesInv
  <2>6. \A i \in Ids : pending'[i] # Nobody => IdOf[pending'[i]] = i
    BY <2>5 DEF TableInv
  <2>7. NobodyForgotten'
    <3>. SUFFICES ASSUME NEW r \in Requests, fut'[r] = "unset"
                  PROVE  \/ pending'[IdOf[r]] = r
                         \/ \E x \in Requests \ {r} : IdOf[x] = IdOf[r] /\ fut'[x] # "absent"
      BY DEF NobodyForgotten
    <3>1. r # p /\ fut[r] = "unset"
      BY <2>3, <2>4
    <3>2. \A x \in Requests : fut[x] # "absent" => fut'[x] # "absent"
      BY <2>1, <2>2, <2>4, NoneIsNoCall DEF FuturesInv
    <3>3. CASE IdOf[r] = IdOf[p]
      <4>1. pending[IdOf[r]] = p /\ p # r
        BY <2>1, <3>1, <3>3
      <4>. QED  BY <3>1, <3>2, <4>1 DEF TableInv, NobodyForgotten
    <3>4. CASE IdOf[r] # IdOf[p]
      <4>1. pending'[IdOf[r]] = pending[IdOf[r]]
        BY <2>2, <3>4, IdIsId DEF FuturesInv
      <4>. QED  BY <3>1, <3>2, <4>1 DEF TableInv, NobodyForgotten
    <3>. QED  BY <3>3, <3>4
  <2>8. OwnAnswer'
    BY <2>1, <2>2, <2>4, NoneIsNoCall DEF TableInv, OwnAnswer, FuturesInv
  <2>. QED  BY <2>6, <2>7, <2>8 DEF TableInv
<1>. QED  BY <1>1, <1>2

\* Every step keeps it.
LEMMA TableStep ==
  ASSUME Typed, TableInv, [Next]_vars
  PROVE  TableInv'
<1>. USE DEF Typed
<1>1. ASSUME NEW c \in Controllers, Stop(c) PROVE TableInv'
  BY <1>1, TableKept DEF Stop
<1>2. ASSUME NEW c \in Callers, Join(c) PROVE TableInv'
  BY <1>2, TableFlush DEF Join
<1>3. ASSUME NEW c \in Callers, JoinFailed(c) \/ Closed(c) \/ Exited(c) \/ Kill(c) \/ Spawned(c) \/ SpawnFails(c)
      PROVE  TableInv'
  BY <1>3, TableKept DEF JoinFailed, Closed, Exited, Kill, Spawned, SpawnFails
<1>4. ASSUME NEW k \in Children, ReadLine(k) PROVE TableInv'
  <2>1. CASE UNCHANGED futures
    BY <2>1, TableKept
  <2>2. CASE ~UNCHANGED futures
    <3>1. source[k] \in Children /\ outbox[source[k]] # <<>>
      BY <1>4 DEF ReadLine, ReaderInv
    <3>2. Head(outbox[source[k]]) \in Lines
      BY <3>1, Dequeue DEF PipesInv
    <3>3. PICK q \in Requests : Deliver(q)
      BY <1>4, <2>2, <3>2 DEF ReadLine, Lines, futures
    <3>. QED  BY <3>3, TableDeliver
  <2>. QED  BY <2>1, <2>2
<1>5. ASSUME NEW k \in Children, ReadEOF(k) PROVE TableInv'
  BY <1>5, TableFlush DEF ReadEOF
<1>6. ASSUME NEW k \in Children, ReaderStarts(k) \/ Respawned(k) \/ RespawnFails(k) \/ Process(k)
      PROVE  TableInv'
  BY <1>6, TableKept DEF ReaderStarts, Respawned, RespawnFails, Process, Garbles, CatchesUp,
                         ClosesStdout, Exits, Answers
<1>7. ASSUME NEW r \in Requests, CallWithoutProcess(r) PROVE TableInv'
  <2>1. fut' = [fut EXCEPT ![r] = "none"] /\ pending' = pending
    BY <1>7 DEF CallWithoutProcess
  <2>. QED  BY <2>1, NoneIsNoCall DEF TableInv, NobodyForgotten, OwnAnswer, FuturesInv
<1>8. ASSUME NEW r \in Requests, Call(r) PROVE TableInv'
  <2>1. CASE r \in Notifications
    <3>1. fut' = [fut EXCEPT ![r] = "none"] /\ pending' = pending
      BY <1>8, <2>1 DEF Call
    <3>. QED  BY <3>1, NoneIsNoCall DEF TableInv, NobodyForgotten, OwnAnswer, FuturesInv
  <2>2. CASE r \notin Notifications
    <3>1. fut' = [fut EXCEPT ![r] = "unset"] /\ pending' = [pending EXCEPT ![IdOf[r]] = r]
      BY <1>8, <2>2 DEF Call
    <3>2. fut'[r] = "unset" /\ \A x \in Requests \ {r} : fut'[x] = fut[x]
      BY <3>1 DEF FuturesInv
    <3>3. \A i \in Ids : pending'[i] # Nobody => IdOf[pending'[i]] = i
      BY <3>1 DEF TableInv, FuturesInv
    <3>4. NobodyForgotten'
      <4>. SUFFICES ASSUME NEW x \in Requests, fut'[x] = "unset"
                    PROVE  \/ pending'[IdOf[x]] = x
                           \/ \E y \in Requests \ {x} : IdOf[y] = IdOf[x] /\ fut'[y] # "absent"
        BY DEF NobodyForgotten
      <4>1. CASE x = r
        BY <3>1, <4>1, IdIsId DEF FuturesInv
      <4>2. CASE x # r /\ IdOf[x] = IdOf[r]
        BY <3>2, <4>2
      <4>3. CASE x # r /\ IdOf[x] # IdOf[r]
        <5>1. fut[x] = "unset" /\ pending'[IdOf[x]] = pending[IdOf[x]]
          BY <3>1, <3>2, <4>3, IdIsId DEF FuturesInv
        <5>. QED  BY <3>2, <5>1 DEF TableInv, NobodyForgotten
      <4>. QED  BY <4>1, <4>2, <4>3
    <3>5. OwnAnswer'
      BY <3>1, NoneIsNoCall DEF TableInv, OwnAnswer, FuturesInv
    <3>. QED  BY <3>3, <3>4, <3>5 DEF TableInv
  <2>. QED  BY <2>1, <2>2
<1>9. ASSUME NEW r \in Requests, Resumes(r) PROVE TableInv'
  BY <1>9, TableKept DEF Resumes, LockTaken, Drained, Return
<1>10. ASSUME NEW r \in Requests, CancelCall(r) PROVE TableInv'
  <2>1. /\ pending' = pending
        /\ \/ fut' = [fut EXCEPT ![r] = "cancelled"]
           \/ fut' = fut
    BY <1>10 DEF CancelCall, FuturesInv
  <2>. QED  BY <2>1, NoneIsNoCall DEF TableInv, NobodyForgotten, OwnAnswer, FuturesInv
<1>11. CASE UNCHANGED vars
  BY <1>11, TableKept DEF vars
<1>. QED
  BY <1>1, <1>2, <1>3, <1>4, <1>5, <1>6, <1>7, <1>8, <1>9, <1>10, <1>11 DEF Next, Control, Reader

\* Whatever ids the clients choose, a call gets an answer to its own id or none, and
\* one that waits is in the table, where an answer or a flush finds it, unless another
\* call with its id took its place (stdio.py:89-98, 107-112).
THEOREM OwnAnswers == Spec => [](OwnAnswer /\ NobodyForgotten)
<1>1. Typed /\ TableInv /\ [Next]_vars => TableInv'
  BY TableStep
<1>2. TableInv => OwnAnswer /\ NobodyForgotten
  BY DEF TableInv
<1>. QED  BY <1>1, <1>2, TableInit, TypedInv, PTL DEF Spec

------------------------------------------------------------------------------
(* One process and one reader, as long as stop() and restart() come one at a time *)

Busy(c) == ctl[c] \notin AtRest

NoneActive == \A k \in Children : reader[k] \notin Active
NoneAlive == \A k \in Children : child[k] # "alive"

\* The process that can answer is the one the transport knows.
Known == \A k \in Children : child[k] = "alive" => k = proc

\* Nobody is under way but the last to begin.
OneBusy == last \in Callers /\ \A c \in Callers : Busy(c) => c = last

\* The manager starts the transport before it hands it out, once.
BootInv ==
    /\ ctl[Boot] \in {"spawning", "done", "raised"} /\ op[Boot] = "start"
    /\ ~Started => last = Boot /\ proc = 0 /\ NoneActive /\ NoneAlive

\* The one reader that is at work is the one the transport knows, it reads from
\* the process the transport knows, and nobody is stopping it.
TaskInv ==
    \A k \in Children :
        /\ reader[k] \in Active => k = readerTask /\ ~Busy(last)
        /\ reader[k] = "reading" => source[k] = proc /\ proc # 0
        /\ reader[k] = "backoff" => NoneAlive

\* What a controller waits for is the process the transport knows.
ControlInv ==
    /\ ctl[last] \in {"closing", "terminating", "killing"} => target[last] = proc /\ proc # 0
    /\ ctl[last] = "spawning" => proc = 0 /\ op[last] # "stop"

\* After a stop() only a restart() brings the transport back.
StaysStopped == op[last] = "stop" /\ ctl[last] = "done" => proc = 0 /\ NoneActive

Solo == OneBusy /\ Known /\ BootInv /\ TaskInv /\ ControlInv /\ StaysStopped

PhaseInv == Alone => Solo

\* The manager's start() is no controller.
LEMMA BootIsCaller == Boot \in Callers /\ Boot \notin Controllers /\ Callers = Controllers \cup {Boot}
  BY StdioAssumption DEF Callers

\* At the start nothing runs.
LEMMA PhaseInit == Init => PhaseInv
  BY BootIsCaller
     DEF Init, PhaseInv, Solo, OneBusy, Known, BootInv, TaskInv, ControlInv, StaysStopped, Started,
         NoneActive, NoneAlive, Active, Busy, AtRest

\* A step outside start(), stop(), restart() and the readers: a process may exit
\* or fall silent.
LEMMA PhaseKept ==
  ASSUME Solo, UNCHANGED <<proc, readerTask, tasks, ctls>>,
         \A k \in Children : child'[k] = "alive" => child[k] = "alive"
  PROVE  Solo'
  BY DEF Solo, OneBusy, Known, BootInv, TaskInv, ControlInv, StaysStopped, Started, NoneActive,
         NoneAlive, Busy, tasks, ctls

\* While a controller is under way it is the last to have begun, and no reader is
\* at work.
LEMMA BusyQuiet ==
  ASSUME Solo, NEW c \in Controllers, Busy(c)
  PROVE  c = last /\ Started /\ NoneActive
<1>1. c = last /\ c # Boot
  BY BootIsCaller DEF Solo, OneBusy
<1>. QED  BY <1>1 DEF Solo, BootInv, TaskInv, NoneActive

\* A controller goes on with stop(), ends it, or gives up.
LEMMA ControllerMoves ==
  ASSUME Typed, Solo, NEW c \in Controllers, Busy(c),
         UNCHANGED <<tasks, op, last>>,
         \A k \in Children : child'[k] = "alive" => child[k] = "alive",
         \/ Finish(c) /\ NoneAlive /\ UNCHANGED target
         \/ /\ proc # 0 /\ proc' = proc
            /\ \E s \in {"closing", "terminating", "killing"} : ctl' = [ctl EXCEPT ![c] = s]
            /\ target' = [target EXCEPT ![c] = proc]
         \/ ctl' = [ctl EXCEPT ![c] = "raised"] /\ UNCHANGED <<proc, target>>
  PROVE  Solo'
<1>1. c = last /\ Started /\ NoneActive
  BY BusyQuiet
<1>2. NoneActive' /\ c # Boot /\ c \in Callers /\ last' = c
  BY <1>1, BootIsCaller DEF NoneActive, tasks
<1>3. ctl \in [Callers -> CtlStates] /\ target \in [Callers -> 0 .. MaxChildren]
  BY DEF Typed, CtlInv
<1>4. ctl' = [ctl EXCEPT ![c] = ctl'[c]]
  BY <1>2, <1>3 DEF Finish
<1>5. OneBusy'
  BY <1>1, <1>2, <1>3, <1>4 DEF Solo, OneBusy, Busy
<1>6. Known'
  BY DEF Solo, Known, NoneAlive, Finish
<1>7. BootInv'
  BY <1>1, <1>2, <1>3, <1>4, BootIsCaller DEF Solo, BootInv, Started
<1>8. TaskInv'
  BY <1>2 DEF TaskInv, NoneActive, Active
<1>9. ControlInv'
  BY <1>2, <1>3 DEF ControlInv, Finish
<1>10. StaysStopped'
  BY <1>2, <1>3 DEF StaysStopped, Finish
<1>. QED  BY <1>5, <1>6, <1>7, <1>8, <1>9, <1>10 DEF Solo

\* A process is spawned where there is none, and its reader is the only one.
LEMMA PhaseSpawns ==
  ASSUME Typed, Solo, NoneAlive,
         NEW n \in Children, _spawn(n),
         \A k \in Children : IF k = n THEN reader'[k] = "starting" ELSE reader'[k] \notin Active,
         UNCHANGED <<source, op, target, last>>,
         \/ ctl' = [ctl EXCEPT ![last] = "done"] /\ op[last] # "stop"
         \/ ctl' = ctl /\ ~Busy(last) /\ ~(op[last] = "stop" /\ ctl[last] = "done"),
         ctl'[Boot] = "done"
  PROVE  Solo'
<1>1. child' = [child EXCEPT ![n] = "alive"] /\ proc' = n /\ readerTask' = n
  BY DEF _spawn
<1>2. /\ ctl \in [Callers -> CtlStates] /\ last \in Callers
      /\ child \in [Children -> {"unborn", "alive", "mute", "exited"}]
  BY DEF Typed, CtlInv, ReaderInv, Solo, OneBusy
<1>3. OneBusy' /\ ~Busy(last)'
  BY <1>2 DEF Solo, OneBusy, Busy, AtRest
<1>4. Known'
  BY <1>1, <1>2 DEF Known, NoneAlive
<1>5. BootInv'
  BY DEF Solo, BootInv, Started
<1>6. TaskInv'
  BY <1>1, <1>3 DEF TaskInv, Active
<1>7. ControlInv'
  BY <1>3 DEF ControlInv, Busy, AtRest
<1>8. StaysStopped'
  BY DEF StaysStopped
<1>. QED  BY <1>3, <1>4, <1>5, <1>6, <1>7, <1>8 DEF Solo

\* The reader that is at work takes a step.
LEMMA PhaseReads ==
  ASSUME Typed, Solo, NEW k \in Children, reader[k] \in Active,
         UNCHANGED <<proc, readerTask, child, ctls>>,
         NEW q \in {"reading", "backoff", "ended", "failed"}, reader' = [reader EXCEPT ![k] = q],
         q = "reading" => proc # 0 /\ source' = [source EXCEPT ![k] = proc],
         q # "reading" => source' = source,
         q = "backoff" => NoneAlive
  PROVE  Solo'
<1>1. /\ k = readerTask /\ ~Busy(last)
      /\ \A j \in Children \ {k} : reader[j] \notin Active
      /\ Started /\ ~NoneActive
  BY DEF Solo, TaskInv, BootInv, NoneActive
<1>2. reader \in [Children -> ReaderStates] /\ source \in [Children -> 0 .. MaxChildren]
  BY DEF Typed, ReaderInv
<1>3. OneBusy' /\ Known' /\ BootInv' /\ ControlInv'
  BY <1>1 DEF Solo, OneBusy, Known, BootInv, ControlInv, Started, Busy, ctls
<1>4. TaskInv'
  <2>1. ASSUME NEW j \in Children
        PROVE  /\ reader'[j] \in Active => j = readerTask' /\ ~Busy(last)'
               /\ reader'[j] = "reading" => source'[j] = proc' /\ proc' # 0
               /\ reader'[j] = "backoff" => NoneAlive'
    BY <1>1, <1>2 DEF Active, NoneAlive, Busy, ctls
  <2>. QED  BY <2>1 DEF TaskInv
<1>5. StaysStopped'
  BY <1>1 DEF Solo, StaysStopped, ctls
<1>. QED  BY <1>3, <1>4, <1>5 DEF Solo

\* The first of its calls, or one after the last is over.
LEMMA PhaseStops ==
  ASSUME Typed, Solo, NEW c \in Controllers, Stop(c), Alone'
  PROVE  Solo'
<1>1. /\ Started /\ ctl' = [ctl EXCEPT ![c] = "joining"]
      /\ \E o \in {"stop", "restart"} : op' = [op EXCEPT ![c] = o]
      /\ UNCHANGED <<proc, readerTask, child, source>>
  BY DEF Stop, os
<1>2. last' = c /\ ctl[last] \in AtRest
  BY DEF Stop, Alone
<1>3. /\ ctl \in [Callers -> CtlStates] /\ op \in [Callers -> {"start", "stop", "restart"}]
      /\ reader \in [Children -> ReaderStates] /\ c \in Callers /\ c # Boot
  BY BootIsCaller DEF Typed, CtlInv, ReaderInv
<1>4. NoneActive'
  BY <1>3 DEF Stop, CancelReader, Solo, TaskInv, NoneActive, Active
<1>5. OneBusy'
  BY <1>1, <1>2, <1>3 DEF Solo, OneBusy, Busy
<1>6. Known'
  BY <1>1 DEF Solo, Known
<1>7. BootInv'
  BY <1>1, <1>3, BootIsCaller DEF Solo, BootInv, Started
<1>8. TaskInv'
  BY <1>4 DEF TaskInv, NoneActive, Active
<1>9. ControlInv' /\ StaysStopped'
  BY <1>1, <1>2, <1>3 DEF ControlInv, StaysStopped
<1>. QED  BY <1>5, <1>6, <1>7, <1>8, <1>9 DEF Solo

\* Every step keeps it.
LEMMA SoloStep ==
  ASSUME Typed, Solo, [Next]_vars, Alone'
  PROVE  Solo'
<1>0. /\ ctl \in [Callers -> CtlStates] /\ op \in [Callers -> {"start", "stop", "restart"}]
      /\ reader \in [Children -> ReaderStates] /\ proc \in 0 .. MaxChildren
      /\ last \in Callers
      /\ \A c \in Controllers : c \in Callers /\ c # Boot
  BY BootIsCaller DEF Typed, CtlInv, ReaderInv, Solo, OneBusy
<1>1. ASSUME NEW c \in Controllers, Stop(c) PROVE Solo'
  BY <1>1, PhaseStops
<1>2. ASSUME NEW c \in Controllers, JoinFailed(c) \/ SpawnFails(c) PROVE Solo'
  <2>1. /\ Busy(c) /\ ctl' = [ctl EXCEPT ![c] = "raised"]
        /\ UNCHANGED <<tasks, op, last, proc, target, child>>
    BY <1>2 DEF JoinFailed, SpawnFails, Busy, AtRest, self, os
  <2>. QED  BY <2>1, ControllerMoves
<1>3. ASSUME NEW c \in Controllers, Join(c) PROVE Solo'
  <2>1. Busy(c) /\ UNCHANGED <<tasks, op, last, child>>
    BY <1>3 DEF Join, Busy, AtRest
  <2>2. CASE proc = 0
    <3>1. NoneAlive
      BY <2>2, ChildrenFinite DEF Solo, Known, NoneAlive
    <3>. QED  BY <1>3, <2>1, <2>2, <3>1, ControllerMoves DEF Join
  <2>3. CASE proc # 0
    <3>1. /\ proc' = proc /\ ctl' = [ctl EXCEPT ![c] = "closing"]
          /\ target' = [target EXCEPT ![c] = proc]
      BY <1>3, <2>3 DEF Join
    <3>. QED  BY <2>1, <2>3, <3>1, ControllerMoves
  <2>. QED  BY <2>2, <2>3
<1>4. ASSUME NEW c \in Controllers, Closed(c) PROVE Solo'
  <2>1. Busy(c) /\ UNCHANGED <<tasks, op, last, child>>
    BY <1>4 DEF Closed, Busy, AtRest
  <2>2. CASE Alive(proc)
    <3>1. /\ proc # 0 /\ proc' = proc /\ ctl' = [ctl EXCEPT ![c] = "terminating"]
          /\ target' = [target EXCEPT ![c] = proc]
      BY <1>4, <2>2 DEF Closed, Alive
    <3>. QED  BY <2>1, <3>1, ControllerMoves
  <2>3. CASE ~Alive(proc)
    <3>1. NoneAlive
      BY <2>3, ChildrenFinite DEF Solo, Known, NoneAlive, Alive
    <3>. QED  BY <1>4, <2>1, <2>3, <3>1, ControllerMoves DEF Closed
  <2>. QED  BY <2>2, <2>3
<1>5. ASSUME NEW c \in Controllers, Exited(c) PROVE Solo'
  <2>1. Busy(c) /\ UNCHANGED <<tasks, op, last, child, target>> /\ Finish(c)
    BY <1>5 DEF Exited, Busy, AtRest, os
  <2>2. target[c] = proc /\ ~Alive(proc)
    BY <1>5, <2>1, BusyQuiet DEF Exited, Reaped, Solo, ControlInv
  <2>3. NoneAlive
    BY <2>2, ChildrenFinite DEF Solo, Known, NoneAlive, Alive
  <2>. QED  BY <2>1, <2>3, ControllerMoves
<1>6. ASSUME NEW c \in Controllers, Kill(c) PROVE Solo'
  <2>1. Busy(c) /\ UNCHANGED <<tasks, op, last, proc>>
    BY <1>6 DEF Kill, Busy, AtRest, self
  <2>2. CASE Alive(proc)
    <3>1. /\ proc # 0 /\ ctl' = [ctl EXCEPT ![c] = "killing"]
          /\ target' = [target EXCEPT ![c] = proc] /\ child' = [child EXCEPT ![proc] = "exited"]
      BY <1>6, <2>2 DEF Kill, Alive, Die
    <3>2. \A k \in Children : child'[k] = "alive" => child[k] = "alive"
      BY <3>1 DEF Typed, ReaderInv
    <3>. QED  BY <2>1, <3>1, <3>2, ControllerMoves
  <2>3. CASE ~Alive(proc)
    <3>1. ctl' = [ctl EXCEPT ![c] = "raised"] /\ UNCHANGED <<child, target>>
      BY <1>6, <2>3 DEF Kill, os
    <3>. QED  BY <2>1, <3>1, ControllerMoves
  <2>. QED  BY <2>2, <2>3
<1>7. ASSUME NEW c \in Callers, Spawned(c) PROVE Solo'
  <2>1. /\ ctl[c] = "spawning" /\ ctl' = [ctl EXCEPT ![c] = "done"]
        /\ UNCHANGED <<source, op, target, last>>
    BY <1>7 DEF Spawned
  <2>2. PICK n \in Children : _spawn(n) /\ reader' = [reader EXCEPT ![n] = "starting"]
    BY <1>7 DEF Spawned
  <2>3. c = last /\ Busy(last)
    BY <2>1 DEF Solo, OneBusy, Busy, AtRest
  <2>4. proc = 0 /\ op[last] # "stop"
    BY <2>1, <2>3 DEF Solo, ControlInv
  <2>5. NoneAlive
    BY <2>4, ChildrenFinite DEF Solo, Known, NoneAlive
  <2>6. NoneActive
    BY <2>3 DEF Solo, TaskInv, NoneActive
  <2>7. ctl'[Boot] = "done"
    <3>1. CASE c = Boot
      BY <1>0, <2>1, <3>1, BootIsCaller
    <3>2. CASE c # Boot
      BY <1>0, <2>1, <2>3, <3>2, BootIsCaller DEF Solo, BootInv, Started
    <3>. QED  BY <3>1, <3>2
  <2>8. \A k \in Children : IF k = n THEN reader'[k] = "starting" ELSE reader'[k] \notin Active
    BY <1>0, <2>2, <2>6 DEF NoneActive
  <2>9. ctl' = [ctl EXCEPT ![last] = "done"] /\ UNCHANGED <<source, op, target, last>>
    BY <2>1, <2>3
  <2>10. \/ ctl' = [ctl EXCEPT ![last] = "done"] /\ op[last] # "stop"
         \/ ctl' = ctl /\ ~Busy(last) /\ ~(op[last] = "stop" /\ ctl[last] = "done")
    BY <2>4, <2>9
  <2>. QED  BY <2>2, <2>5, <2>7, <2>8, <2>9, <2>10, PhaseSpawns
<1>8. ASSUME SpawnFails(Boot) PROVE Solo'
  <2>1. /\ ctl[Boot] = "spawning" /\ ctl' = [ctl EXCEPT ![Boot] = "raised"]
        /\ UNCHANGED <<proc, readerTask, child, reader, source, op, target, last>>
    BY <1>8 DEF SpawnFails, self, os, tasks
  <2>2. last = Boot /\ ~Started /\ NoneActive /\ NoneAlive /\ proc = 0 /\ op[Boot] = "start"
    BY <2>1 DEF Solo, BootInv, Started
  <2>3. NoneActive' /\ NoneAlive'
    BY <2>1, <2>2 DEF NoneActive, NoneAlive
  <2>4. OneBusy'
    BY <1>0, <2>1 DEF Solo, OneBusy, Busy, AtRest
  <2>5. BootInv'
    BY <1>0, <2>1, <2>2, <2>3, BootIsCaller DEF BootInv
  <2>6. Known' /\ TaskInv'
    BY <2>3 DEF Known, TaskInv, NoneActive, NoneAlive, Active
  <2>7. ControlInv' /\ StaysStopped'
    BY <1>0, <2>1, <2>2, BootIsCaller DEF ControlInv, StaysStopped
  <2>. QED  BY <2>4, <2>5, <2>6, <2>7 DEF Solo
<1>9. ASSUME NEW k \in Children, ReaderStarts(k) \/ ReadLine(k) PROVE Solo'
  <2>1. /\ reader[k] \in Active /\ UNCHANGED <<proc, readerTask, child, ctls>>
        /\ \/ Iterate(k)
           \/ reader' = [reader EXCEPT ![k] = "failed"] /\ UNCHANGED source
    BY <1>9 DEF ReaderStarts, ReadLine, Active, self, os
  <2>2. PICK q \in {"reading", "backoff", "ended", "failed"} :
          /\ reader' = [reader EXCEPT ![k] = q]
          /\ q = "reading" => proc # 0 /\ source' = [source EXCEPT ![k] = proc]
          /\ q # "reading" => source' = source
          /\ q # "backoff"
    BY <2>1 DEF Iterate
  <2>. QED  BY <2>1, <2>2, PhaseReads
<1>10. ASSUME NEW k \in Children, ReadEOF(k) PROVE Solo'
  <2>1. /\ reader[k] = "reading" /\ child[source[k]] # "alive"
        /\ UNCHANGED <<proc, readerTask, child, source, ctls>>
    BY <1>10 DEF ReadEOF
  <2>2. PICK q \in {"reading", "backoff", "ended", "failed"} :
          reader' = [reader EXCEPT ![k] = q] /\ q # "reading"
    BY <1>10 DEF ReadEOF, Retry
  <2>3. NoneAlive
    BY <2>1 DEF Solo, TaskInv, Known, NoneAlive
  <2>. QED  BY <2>1, <2>2, <2>3, PhaseReads DEF Active
<1>11. ASSUME NEW k \in Children, RespawnFails(k) PROVE Solo'
  <2>1. /\ reader[k] \in Active /\ UNCHANGED <<proc, readerTask, child, source, ctls>>
        /\ reader' = [reader EXCEPT ![k] = "failed"]
    BY <1>11 DEF RespawnFails, Active, self, os
  <2>. QED  BY <2>1, PhaseReads
<1>12. ASSUME NEW k \in Children, Respawned(k) PROVE Solo'
  <2>1. PICK n \in Children :
           _spawn(n) /\ reader' = [reader EXCEPT ![k] = "ended", ![n] = "starting"]
    BY <1>12 DEF Respawned
  <2>2. reader[k] = "backoff" /\ UNCHANGED <<source, op, target, ctl, last>>
    BY <1>12 DEF Respawned, ctls
  <2>3. /\ Started /\ NoneAlive /\ ~NoneActive /\ ~Busy(last)
        /\ \A j \in Children \ {k} : reader[j] \notin Active
    BY <2>2 DEF Solo, TaskInv, BootInv, NoneActive, Active
  <2>4. \A j \in Children : IF j = n THEN reader'[j] = "starting" ELSE reader'[j] \notin Active
    BY <1>0, <2>1, <2>3 DEF Active
  <2>5. ~(op[last] = "stop" /\ ctl[last] = "done")
    BY <2>3 DEF Solo, StaysStopped
  <2>6. ctl'[Boot] = "done"
    BY <2>2, <2>3 DEF Started
  <2>. QED  BY <2>1, <2>2, <2>3, <2>4, <2>5, <2>6, PhaseSpawns
<1>13. ASSUME NEW k \in Children, Process(k) PROVE Solo'
  <2>1. UNCHANGED <<proc, readerTask, tasks, ctls>>
    BY <1>13 DEF Process, Garbles, CatchesUp, ClosesStdout, Exits, Answers, self
  <2>2. child' \in {child, [child EXCEPT ![k] = "exited"], [child EXCEPT ![k] = "mute"]}
    BY <1>13 DEF Process, Garbles, CatchesUp, ClosesStdout, Exits, Die, Answers
  <2>3. \A j \in Children : child'[j] = "alive" => child[j] = "alive"
    BY <2>2 DEF Typed, ReaderInv
  <2>. QED  BY <2>1, <2>3, PhaseKept
<1>14. ASSUME NEW r \in Requests, CallWithoutProcess(r) \/ Call(r) \/ Resumes(r) \/ CancelCall(r)
       PROVE  Solo'
  <2>1. UNCHANGED <<proc, readerTask, child, tasks, ctls>>
    BY <1>14 DEF CallWithoutProcess, Call, Resumes, LockTaken, Drained, Return, CancelCall, self, os
  <2>. QED  BY <2>1, PhaseKept
<1>15. CASE UNCHANGED vars
  BY <1>15, PhaseKept DEF vars, self, os
<1>16. ASSUME NEW c \in Callers, Control(c) PROVE Solo'
  <2>1. CASE c = Boot
    <3>1. Spawned(Boot) \/ SpawnFails(Boot)
      BY <1>16, <2>1 DEF Control, JoinFailed, Join, Closed, Exited, Kill, Solo, BootInv
    <3>. QED  BY <1>7, <1>8, <3>1, BootIsCaller
  <2>2. CASE c # Boot
    BY <1>2, <1>3, <1>4, <1>5, <1>6, <1>7, <1>16, <2>2, BootIsCaller DEF Control
  <2>. QED  BY <2>1, <2>2
<1>. QED
  BY <1>1, <1>9, <1>10, <1>11, <1>12, <1>13, <1>14, <1>15, <1>16 DEF Next, Reader

\* What has overlapped stays so: before a step after which nothing has, nothing had.
LEMMA AloneBefore == Typed /\ [Next]_vars /\ Alone' => Alone
<1>. SUFFICES ASSUME Typed, [Next]_vars, Alone' PROVE Alone
  OBVIOUS
<1>1. CASE \E c \in Controllers : Stop(c)
  BY <1>1 DEF Stop, Alone
<1>2. CASE ~\E c \in Controllers : Stop(c)
  <2>1. CASE \E c \in Callers : Control(c)
    BY <2>1 DEF Control, JoinFailed, Join, Closed, Exited, Kill, Spawned, SpawnFails, Alone
  <2>2. CASE \E k \in Children : Reader(k) \/ Process(k)
    BY <2>2 DEF Reader, ReaderStarts, ReadLine, ReadEOF, Respawned, RespawnFails, Process, Garbles,
                CatchesUp, ClosesStdout, Exits, Answers, ctls, Alone
  <2>3. CASE \E r \in Requests : CallWithoutProcess(r) \/ Call(r) \/ Resumes(r) \/ CancelCall(r)
    BY <2>3 DEF CallWithoutProcess, Call, Resumes, LockTaken, Drained, Return, CancelCall, ctls, Alone
  <2>4. CASE UNCHANGED vars
    BY <2>4 DEF vars, ctls, Alone
  <2>. QED  BY <1>2, <2>1, <2>2, <2>3, <2>4 DEF Next
<1>. QED  BY <1>1, <1>2

\* It holds always.
LEMMA PhaseAlways == Spec => []PhaseInv
<1>1. Typed /\ PhaseInv /\ [Next]_vars => PhaseInv'
  BY SoloStep, AloneBefore DEF PhaseInv
<1>. QED  BY <1>1, PhaseInit, TypedInv, PTL DEF Spec

\* The readers at work are among one.
LEMMA OneTaskOneReader == PhaseInv => OneReader
<1>. SUFFICES ASSUME PhaseInv, Alone PROVE Cardinality({k \in Children : reader[k] \in Active}) <= 1
  BY DEF OneReader
<1>1. {k \in Children : reader[k] \in Active} \in SUBSET {readerTask}
  BY DEF PhaseInv, Solo, TaskInv
<1>2. IsFiniteSet({readerTask}) /\ Cardinality({readerTask}) = 1
  BY FS_Singleton
<1>3. Cardinality({k \in Children : reader[k] \in Active}) <= Cardinality({readerTask})
  BY <1>1, <1>2, FS_Subset
<1>. QED  BY <1>2, <1>3

\* However a crash, a closed stdout, the respawn after it, stop() and restart() come
\* together: until two calls of stop() and restart() have overlapped, a process that
\* can answer is the one the transport knows and no two readers are at work
\* (stdio.py:34, 43-69, 72-86).
THEOREM OneProcessOneReader == Spec => [](NoOrphan /\ OneReader)
<1>1. PhaseInv => NoOrphan /\ OneReader
  BY OneTaskOneReader DEF PhaseInv, Solo, Known, NoOrphan
<1>. QED  BY <1>1, PhaseAlways, PTL

\* All parts of the transport agree, whatever ids the clients choose
\* (stdio.py:34, 89-98, 107-119).
THEOREM AllConsistent == Spec => []Consistent
<1>1. TypeOK /\ NobodyForgotten /\ LockInUse /\ OneReader => Consistent
  BY DEF Consistent
<1>. QED  BY <1>1, OwnAnswers, TypeCorrect, LockInUseAlways, OneProcessOneReader, PTL

\* A stop() that has returned is the end of every process with an open stdout, until
\* a restart(), in any sequence of calls that do not overlap (stdio.py:43-65, 72-77).
THEOREM StopIsFinal == Spec => []StopStops
<1>1. PhaseInv => StopStops
  <2>. SUFFICES ASSUME PhaseInv, Alone, op[last] = "stop", ctl[last] = "done", NEW k \in Children
                PROVE  child[k] # "alive"
    BY DEF StopStops
  <2>. QED  BY ChildrenFinite DEF PhaseInv, Solo, StaysStopped, Known
<1>. QED  BY <1>1, PhaseAlways, PTL

------------------------------------------------------------------------------
(* The bridge over the transport *)

Begun == {"running", "cancelling"}

\* The coroutine is in request() from the first turn of its task to the last, and a
\* task is not over only while forward() waits for it, unless the caller was
\* cancelled.
Together(r) ==
    /\ task[r] \in {"absent", "created"} => req[r] = "idle"
    /\ task[r] \in Begun <=> req[r] \in InRequest
    /\ pc[r] \in {"idle", "admitted", "passed"} => task[r] = "absent"
    /\ task[r] \in NotOver =>
          pc[r] \in {"waiting", "cancelling"} \/ (pc[r] = "done" /\ outcome[r] = "cancelled")

BridgeInv ==
    /\ DOMAIN pc = Requests /\ DOMAIN outcome = Requests
    /\ task = [r \in Requests |-> task[r]]
    /\ \A r \in Requests : Together(r)

SystemInv == Typed /\ BridgeInv

------------------------------------------------------------------------------
(* Every step is one of the transport, or leaves it alone *)

\* No controller is there, and no notification.
LEMMA NobodyStops ==
  ASSUME Composed
  PROVE  Notifications = {} /\ Callers = {Boot} /\ Boot \in Callers
  BY DEF Composed, Callers

\* The transport's part of a step.
LEMMA TransportStep ==
  ASSUME Composed
  PROVE  [SystemNext]_system => [Next]_vars
<1>. SUFFICES ASSUME [SystemNext]_system PROVE [Next]_vars
  OBVIOUS
<1>1. ASSUME NEW r \in Requests, Called(r) \/ Forwards(r) \/ CallerCancelled(r) PROVE [Next]_vars
  BY <1>1 DEF Called, Forwards, CallerCancelled
<1>2. ASSUME NEW r \in Requests, TaskStarts(r) \/ TaskGoesOn(r) \/ TaskCancelled(r) PROVE [Next]_vars
  BY <1>2 DEF TaskStarts, TaskGoesOn, TaskCancelled, Next
<1>3. CASE Shutdown
  BY <1>3 DEF Shutdown
<1>4. CASE Boots
  BY <1>4, NobodyStops DEF Boots, Next
<1>5. ASSUME NEW k \in Children, Reads(k) \/ ProcessStep(k) PROVE [Next]_vars
  BY <1>5 DEF Reads, ProcessStep, Next
<1>6. CASE UNCHANGED system
  BY <1>6 DEF system
<1>. QED  BY <1>1, <1>2, <1>3, <1>4, <1>5, <1>6 DEF SystemNext, Request

\* Whatever the bridge does with its tasks, the transport does what it does alone
\* (bridge.py:67-82, stdio.py:100-112).
THEOREM TransportSpec ==
  ASSUME Composed
  PROVE  System => Spec
<1>1. SystemInit => Init
  BY DEF SystemInit
<1>. QED  BY <1>1, TransportStep, PTL DEF System, Spec

------------------------------------------------------------------------------
(* What a step of the transport does to the tasks *)

\* A step of the transport that moves no request begins no task and ends none.
LEMMA NothingFollows ==
  ASSUME BridgeInv, TasksFollow, UNCHANGED req
  PROVE  UNCHANGED <<forwards, task, handed>> /\ BridgeInv'
<1>1. \A r \in Requests : ~Begins(r) /\ ~Ends(r)
  BY DEF BridgeInv, Together, Begins, Ends, Begun, NotOver, InRequest
<1>2. task' = task
  <2>1. \A r \in Requests : task'[r] = task[r]
    BY <1>1 DEF TasksFollow
  <2>2. task = [r \in Requests |-> task[r]] /\ task' = [r \in Requests |-> task'[r]]
    BY DEF TasksFollow, BridgeInv
  <2>. QED  BY <2>1, <2>2
<1>3. handed' = handed
  BY <1>1 DEF TasksFollow
<1>4. UNCHANGED <<pc, outcome>> /\ UNCHANGED forwards
  BY DEF TasksFollow, forwards
<1>. QED  BY <1>2, <1>3, <1>4 DEF BridgeInv, Together

\* One request moves: its task has begun, and ends if the request leaves request();
\* no other does.
LEMMA TaskFollows ==
  ASSUME BridgeInv, TasksFollow, NEW r \in Requests, task[r] \in NotOver,
         DOMAIN req = Requests,
         NEW s \in InRequest \cup {"returned", "raised", "cancelled"}, req' = [req EXCEPT ![r] = s]
  PROVE  /\ UNCHANGED forwards /\ BridgeInv'
         /\ handed' = handed \cup {x \in {r} : task[x] = "created"}
         /\ \/ /\ s \in InRequest
               /\ task' = [task EXCEPT ![r] = IF task[r] = "created" THEN "running" ELSE @]
            \/ s \notin InRequest /\ task' = [task EXCEPT ![r] = Result(s, fut'[r])]
<1>1. UNCHANGED <<pc, outcome>> /\ UNCHANGED forwards
  BY DEF TasksFollow, forwards
<1>2. req'[r] = s /\ \A q \in Requests \ {r} : req'[q] = req[q]
  OBVIOUS
<1>3. /\ DOMAIN task = Requests /\ task = [q \in Requests |-> task[q]]
      /\ \A q \in Requests : Together(q)
  BY DEF BridgeInv
<1>4. \A q \in Requests \ {r} : ~Begins(q) /\ ~Ends(q)
  BY <1>2, <1>3 DEF Together, Begins, Ends, Begun, NotOver, InRequest
<1>5. Begins(r) <=> task[r] = "created"
  BY <1>2 DEF Begins, InRequest
<1>6. Ends(r) <=> s \notin InRequest
  BY <1>2 DEF Ends, InRequest
<1>7. handed' = handed \cup {x \in {r} : task[x] = "created"}
  <2>1. {x \in Requests : Begins(x)} = {x \in {r} : task[x] = "created"}
    BY <1>4, <1>5
  <2>. QED  BY <2>1 DEF TasksFollow
<1>8. \A q \in Requests \ {r} : task'[q] = task[q]
  BY <1>4 DEF TasksFollow
<1>9. DOMAIN task' = Requests /\ task' = [q \in Requests |-> task'[q]]
  BY DEF TasksFollow
<1>10. ASSUME NEW q \in Requests, q # r PROVE Together(q)'
  BY <1>1, <1>2, <1>3, <1>8, <1>10 DEF Together
<1>11. pc[r] \notin {"idle", "admitted", "passed"}
  BY <1>3 DEF Together, NotOver
<1>12. CASE s \in InRequest
  <2>1. task'[r] = IF task[r] = "created" THEN "running" ELSE task[r]
    BY <1>5, <1>6, <1>12 DEF TasksFollow
  <2>2. task' = [task EXCEPT ![r] = IF task[r] = "created" THEN "running" ELSE @]
    BY <1>3, <1>8, <1>9, <2>1
  <2>3. task'[r] \in Begun
    BY <2>1 DEF NotOver, Begun
  <2>4. Together(r)'
    BY <1>1, <1>2, <1>3, <1>11, <1>12, <2>3 DEF Together, NotOver, Begun
  <2>. QED  BY <1>1, <1>7, <1>9, <1>10, <1>12, <2>2, <2>4 DEF BridgeInv
<1>13. CASE s \notin InRequest
  <2>1. task'[r] = Result(s, fut'[r])
    BY <1>6, <1>13 DEF TasksFollow
  <2>2. task' = [task EXCEPT ![r] = Result(s, fut'[r])]
    BY <1>3, <1>8, <1>9, <2>1
  <2>3. Result(s, fut'[r]) \notin NotOver \cup {"absent"}
    BY <1>13 DEF Result, NotOver
  <2>4. Together(r)'
    BY <1>1, <1>2, <1>11, <1>13, <2>1, <2>3 DEF Together, NotOver, Begun
  <2>. QED  BY <1>1, <1>7, <1>9, <1>10, <1>13, <2>2, <2>4 DEF BridgeInv
<1>. QED  BY <1>12, <1>13

\* A task that begins or goes on: it runs until it ends.
LEMMA TaskRuns ==
  ASSUME Composed, SystemInv, NEW r \in Requests, TaskStarts(r) \/ TaskGoesOn(r)
  PROVE  BridgeInv' /\ [Bridge!Next]_(Bridge!vars)
<1>1. task[r] \in {"created", "running"} /\ TasksFollow /\ DOMAIN req = Requests
  BY DEF TaskStarts, TaskGoesOn, SystemInv, Typed, LockInv
<1>2. PICK s \in InRequest \cup {"returned", "raised"} : req' = [req EXCEPT ![r] = s]
  <2>1. Sent(r) = "waiting"
    BY NobodyStops DEF Sent
  <2>2. ASSUME NEW q, Write(r, q)
        PROVE  \E s \in InRequest \cup {"returned", "raised"} : req' = [req EXCEPT ![r] = s]
    BY <2>1, <2>2 DEF Write, InRequest
  <2>3. CASE Call(r) \/ CallWithoutProcess(r)
    BY <2>2, <2>3 DEF Call, CallWithoutProcess, InRequest
  <2>4. CASE Resumes(r)
    BY <2>1, <2>2, <2>4 DEF Resumes, LockTaken, Drained, Return, InRequest
  <2>. QED  BY <2>3, <2>4 DEF TaskStarts, TaskGoesOn
<1>3. /\ UNCHANGED forwards /\ BridgeInv'
      /\ handed' = handed \cup {x \in {r} : task[x] = "created"}
      /\ \/ /\ s \in InRequest
            /\ task' = [task EXCEPT ![r] = IF task[r] = "created" THEN "running" ELSE @]
         \/ s \notin InRequest /\ task' = [task EXCEPT ![r] = Result(s, fut'[r])]
  BY <1>1, <1>2, TaskFollows DEF SystemInv, NotOver
<1>4. s \notin InRequest => Result(s, fut'[r]) \in Bridge!Answers
  BY DEF Result, Bridge!Answers
<1>5. Bridge!LoopFree /\ UNCHANGED <<pc, waiter, slots, shutdown, outcome, reported>>
  BY <1>1, <1>3 DEF TasksFollow, forwards
<1>6. CASE task[r] = "created"
  <2>1. handed' = handed \cup {r}
    BY <1>3, <1>6
  <2>2. \E a \in Bridge!Answers \cup {"running"} : task' = [task EXCEPT ![r] = a]
    BY <1>3, <1>4, <1>6
  <2>3. Bridge!TaskStarts(r)
    BY <1>5, <1>6, <2>1, <2>2 DEF Bridge!TaskStarts
  <2>. QED  BY <1>3, <2>3 DEF Bridge!Next, Bridge!Tasks
<1>7. CASE task[r] = "running"
  <2>1. handed' = handed
    BY <1>3, <1>7
  <2>2. CASE s \in InRequest
    <3>1. task' = task
      BY <1>3, <1>7, <2>2 DEF SystemInv, BridgeInv
    <3>. QED  BY <1>3, <1>5, <2>1, <3>1 DEF Bridge!vars
  <2>3. CASE s \notin InRequest
    <3>1. Bridge!TaskDone(r)
      BY <1>3, <1>4, <1>5, <1>7, <2>1, <2>3 DEF Bridge!TaskDone
    <3>. QED  BY <1>3, <3>1 DEF Bridge!Next, Bridge!Tasks
  <2>. QED  BY <2>2, <2>3
<1>. QED  BY <1>1, <1>6, <1>7

\* A task that is cancelled does not return.
LEMMA TaskEnds ==
  ASSUME SystemInv, NEW r \in Requests, TaskCancelled(r)
  PROVE  BridgeInv' /\ [Bridge!Next]_(Bridge!vars)
<1>1. task[r] = "cancelling" /\ task[r] \in NotOver /\ DOMAIN req = Requests
  BY DEF TaskCancelled, NotOver, SystemInv, Typed, LockInv
<1>2. req' = [req EXCEPT ![r] = "cancelled"] /\ TasksFollow /\ Bridge!LoopFree
  BY DEF TaskCancelled, CancelCall, TasksFollow
<1>3. "cancelled" \notin InRequest /\ Result("cancelled", fut'[r]) = "cancelled"
  BY DEF Result, InRequest
<1>4. /\ UNCHANGED forwards /\ BridgeInv' /\ handed' = handed
      /\ task' = [task EXCEPT ![r] = "cancelled"]
  <2>1. handed' = handed \cup {x \in {r} : task[x] = "created"}
    BY <1>1, <1>2, TaskFollows DEF SystemInv
  <2>2. handed' = handed
    BY <1>1, <2>1
  <2>. QED  BY <1>1, <1>2, <1>3, <2>2, TaskFollows DEF SystemInv
<1>5. Bridge!TaskCancelled(r)
  BY <1>1, <1>2, <1>4 DEF Bridge!TaskCancelled, forwards
<1>. QED  BY <1>4, <1>5 DEF Bridge!Next, Bridge!Tasks

------------------------------------------------------------------------------
(* What a step of the bridge does *)

\* It moves one call, and its task if it has one.
LEMMA OneMoves ==
  ASSUME BridgeInv, UNCHANGED req, NEW r \in Requests, NEW x, NEW y, NEW z,
         pc' = [pc EXCEPT ![r] = x], task' = [task EXCEPT ![r] = y],
         outcome' = [outcome EXCEPT ![r] = z],
         Together(r)'
  PROVE  BridgeInv'
<1>1. /\ DOMAIN pc = Requests /\ DOMAIN outcome = Requests
      /\ task = [q \in Requests |-> task[q]] /\ DOMAIN task = Requests
      /\ \A q \in Requests : Together(q)
  BY DEF BridgeInv
<1>2. /\ DOMAIN pc' = Requests /\ DOMAIN outcome' = Requests
      /\ task' = [q \in Requests |-> task'[q]]
  BY <1>1
<1>3. \A q \in Requests \ {r} : pc'[q] = pc[q] /\ task'[q] = task[q] /\ outcome'[q] = outcome[q]
  BY <1>1
<1>4. ASSUME NEW q \in Requests, q # r PROVE Together(q)'
  BY <1>1, <1>3, <1>4 DEF Together
<1>. QED  BY <1>2, <1>4 DEF BridgeInv

\* forward() ends and the task is what it was.
LEMMA CallEnds ==
  ASSUME BridgeInv, UNCHANGED <<req, task>>, NEW r \in Requests, NEW o, Bridge!End(r, o),
         task[r] \in NotOver => o = "cancelled"
  PROVE  BridgeInv'
<1>1. /\ DOMAIN pc = Requests /\ DOMAIN outcome = Requests
      /\ task = [q \in Requests |-> task[q]] /\ DOMAIN task = Requests /\ Together(r)
  BY DEF BridgeInv
<1>2. pc' = [pc EXCEPT ![r] = "done"] /\ outcome' = [outcome EXCEPT ![r] = o]
  BY DEF Bridge!End
<1>3. pc'[r] = "done" /\ outcome'[r] = o /\ task' = [task EXCEPT ![r] = task[r]]
  BY <1>1, <1>2
<1>4. Together(r)'
  BY <1>1, <1>3 DEF Together
<1>. QED  BY <1>2, <1>3, <1>4, OneMoves

\* forward() goes on to p and the task is what it was.
LEMMA CallMoves ==
  ASSUME BridgeInv, UNCHANGED <<req, task, outcome>>, NEW r \in Requests, NEW p,
         pc' = [pc EXCEPT ![r] = p],
         \/ p = "admitted" /\ pc[r] = "idle"
         \/ p = "passed" /\ pc[r] = "admitted"
         \/ p = "reaping" /\ task[r] \notin NotOver
  PROVE  BridgeInv'
<1>1. /\ DOMAIN pc = Requests /\ DOMAIN outcome = Requests
      /\ task = [q \in Requests |-> task[q]] /\ DOMAIN task = Requests /\ Together(r)
  BY DEF BridgeInv
<1>2. pc'[r] = p /\ task' = [task EXCEPT ![r] = task[r]]
  BY <1>1
<1>3. Together(r)'
  BY <1>1, <1>2 DEF Together, NotOver
<1>4. \A q \in Requests \ {r} : pc'[q] = pc[q]
  BY <1>1
<1>5. \A q \in Requests : Together(q)'
  BY <1>3, <1>4 DEF BridgeInv, Together
<1>. QED  BY <1>1, <1>5 DEF BridgeInv

\* The task is created, or told to end.
LEMMA TaskMoves ==
  ASSUME BridgeInv, UNCHANGED <<req, outcome>>, NEW r \in Requests,
         \/ Bridge!SendRequest(r)
         \/ Bridge!CancelTask(r)
  PROVE  BridgeInv'
<1>1. /\ DOMAIN pc = Requests /\ DOMAIN outcome = Requests
      /\ task = [q \in Requests |-> task[q]] /\ DOMAIN task = Requests
      /\ \A q \in Requests : Together(q)
  BY DEF BridgeInv
<1>2. PICK p \in {"waiting", "cancelling"}, t \in {"created", "cancelling"} :
         /\ pc' = [pc EXCEPT ![r] = p] /\ task' = [task EXCEPT ![r] = t]
         /\ t = "created" => pc[r] = "passed"
         /\ t = "cancelling" => task[r] = "running"
  BY DEF Bridge!SendRequest, Bridge!CancelTask, Bridge!cancel
<1>3. /\ t = "created" => req[r] = "idle"
      /\ t = "cancelling" => req[r] \in InRequest
  BY <1>1, <1>2 DEF Together, Begun
<1>4. pc'[r] = p /\ task'[r] = t
  BY <1>1, <1>2
<1>5. Together(r)'
  BY <1>2, <1>3, <1>4 DEF Together, Begun, InRequest
<1>6. \A q \in Requests \ {r} : pc'[q] = pc[q] /\ task'[q] = task[q]
  BY <1>1, <1>2
<1>7. ASSUME NEW q \in Requests, q # r PROVE Together(q)'
  BY <1>1, <1>6, <1>7 DEF Together
<1>8. DOMAIN pc' = Requests /\ task' = [q \in Requests |-> task'[q]]
  BY <1>1, <1>2
<1>. QED  BY <1>1, <1>5, <1>7, <1>8 DEF BridgeInv

\* Every step of the bridge keeps the invariant.
LEMMA BridgeMoves ==
  ASSUME Composed, SystemInv, NEW r \in Requests, Called(r) \/ Forwards(r) \/ CallerCancelled(r)
  PROVE  BridgeInv' /\ [Bridge!Next]_(Bridge!vars)
<1>0. /\ UNCHANGED req /\ BridgeInv /\ Together(r) /\ r \notin Notifications
  BY NobodyStops DEF Called, Forwards, CallerCancelled, vars, calls, SystemInv, BridgeInv
<1>1. CASE Called(r)
  <2>1. CASE Bridge!RejectNew(r) \/ Bridge!RejectOverload(r)
    <3>1. pc[r] = "idle" /\ UNCHANGED task /\ \E o \in {"shutting_down", "overloaded"} : Bridge!End(r, o)
      BY <2>1 DEF Bridge!RejectNew, Bridge!RejectOverload, Bridge!Called, Bridge!ShutdownError
    <3>2. task[r] \notin NotOver
      BY <1>0, <3>1 DEF Together, NotOver
    <3>3. BridgeInv'
      BY <1>0, <3>1, <3>2, CallEnds
    <3>. QED  BY <2>1, <3>3 DEF Bridge!Next, Bridge!Forward
  <2>2. CASE Bridge!Admit(r)
    <3>1. BridgeInv'
      BY <1>0, <2>2, CallMoves DEF Bridge!Admit, Bridge!Called
    <3>. QED  BY <2>2, <3>1 DEF Bridge!Next, Bridge!Forward
  <2>. QED  BY <1>1, <2>1, <2>2 DEF Called
<1>2. CASE Bridge!Scheduled(r)
  <2>1. BridgeInv'
    <3>1. CASE Bridge!RejectAdmitted(r)
      <4>1. pc[r] = "admitted" /\ UNCHANGED task /\ Bridge!End(r, "shutting_down")
        BY <3>1 DEF Bridge!RejectAdmitted, Bridge!ShutdownError
      <4>2. task[r] \notin NotOver
        BY <1>0, <4>1 DEF Together, NotOver
      <4>. QED  BY <1>0, <4>1, <4>2, CallEnds
    <3>2. CASE Bridge!SendNotification(r)
      BY <1>0, <3>2 DEF Bridge!SendNotification
    <3>3. CASE Bridge!SendRequest(r) \/ Bridge!CancelTask(r)
      <4>1. UNCHANGED outcome
        BY <3>3 DEF Bridge!SendRequest, Bridge!CancelTask
      <4>. QED  BY <1>0, <3>3, <4>1, TaskMoves
    <3>4. CASE Bridge!RejectInFlight(r)
      <4>1. /\ task[r] \notin NotOver /\ UNCHANGED task
            /\ Bridge!End(r, "raised") \/ Bridge!End(r, "shutting_down")
        BY <3>4 DEF Bridge!RejectInFlight, Bridge!ShutdownError, Bridge!Answers, NotOver
      <4>. QED  BY <1>0, <4>1, CallEnds
    <3>5. CASE Bridge!Answered(r)
      <4>1. /\ task[r] \notin NotOver /\ UNCHANGED <<task, outcome>>
            /\ pc' = [pc EXCEPT ![r] = "reaping"]
        BY <3>5 DEF Bridge!Answered, Bridge!Answers, NotOver
      <4>. QED  BY <1>0, <4>1, CallMoves
    <3>6. CASE Bridge!Return(r)
      <4>1. pc[r] = "reaping" /\ UNCHANGED task /\ Bridge!End(r, task[r])
        BY <3>6 DEF Bridge!Return
      <4>2. task[r] \notin NotOver
        BY <1>0, <4>1 DEF Together
      <4>. QED  BY <1>0, <4>1, <4>2, CallEnds
    <3>7. CASE Bridge!Pass(r)
      <4>1. /\ pc[r] = "admitted" /\ UNCHANGED <<task, outcome>>
            /\ pc' = [pc EXCEPT ![r] = "passed"]
        BY <3>7 DEF Bridge!Pass, Bridge!Checked
      <4>. QED  BY <1>0, <4>1, CallMoves
    <3>. QED  BY <1>2, <3>1, <3>2, <3>3, <3>4, <3>5, <3>6, <3>7 DEF Bridge!Scheduled
  <2>. QED  BY <1>2, <2>1 DEF Bridge!Next, Bridge!Forward, Bridge!Scheduled
<1>3. CASE Bridge!WaiterDone(r) \/ Bridge!WaiterCancelled(r)
  <2>1. UNCHANGED <<pc, task, outcome>>
    BY <1>3 DEF Bridge!WaiterDone, Bridge!WaiterCancelled
  <2>2. BridgeInv'
    BY <1>0, <2>1 DEF BridgeInv, Together
  <2>. QED  BY <1>3, <2>2 DEF Bridge!Next, Bridge!Tasks
<1>4. CASE Bridge!Cancel(r)
  <2>1. UNCHANGED task /\ Bridge!End(r, "cancelled")
    BY <1>4 DEF Bridge!Cancel
  <2>2. BridgeInv'
    BY <1>0, <2>1, CallEnds
  <2>. QED  BY <1>4, <2>2 DEF Bridge!Next, Bridge!Forward
<1>. QED  BY <1>1, <1>2, <1>3, <1>4 DEF Forwards, CallerCancelled

------------------------------------------------------------------------------
(* The invariant *)

\* It holds at the start, and the bridge starts there.
LEMMA BridgeStarts == SystemInit => SystemInv /\ Bridge!Init
<1>. SUFFICES ASSUME SystemInit PROVE SystemInv /\ Bridge!Init
  OBVIOUS
<1>1. Typed /\ Bridge!Init
  BY TypedInit DEF SystemInit
<1>2. BridgeInv
  BY DEF SystemInit, Init, Bridge!Init, BridgeInv, Together, Begun, NotOver, InRequest
<1>. QED  BY <1>1, <1>2 DEF SystemInv

\* Every step keeps it, and is one of the bridge or leaves the bridge alone.
LEMMA BridgeStep ==
  ASSUME Composed
  PROVE  SystemInv /\ [SystemNext]_system => SystemInv' /\ [Bridge!Next]_(Bridge!vars)
<1>. SUFFICES ASSUME SystemInv, [SystemNext]_system PROVE SystemInv' /\ [Bridge!Next]_(Bridge!vars)
  OBVIOUS
<1>0. Typed'
  BY TransportStep, TypedStep DEF SystemInv
<1>1. ASSUME NEW r \in Requests, Called(r) \/ Forwards(r) \/ CallerCancelled(r)
      PROVE  BridgeInv' /\ [Bridge!Next]_(Bridge!vars)
  BY <1>1, BridgeMoves
<1>2. ASSUME NEW r \in Requests, TaskStarts(r) \/ TaskGoesOn(r) \/ TaskCancelled(r)
      PROVE  BridgeInv' /\ [Bridge!Next]_(Bridge!vars)
  BY <1>2, TaskRuns, TaskEnds
<1>3. CASE Shutdown
  <2>1. UNCHANGED <<req, pc, task, outcome>>
    BY <1>3 DEF Shutdown, Bridge!StartShutdown, vars, calls
  <2>2. BridgeInv'
    BY <2>1 DEF SystemInv, BridgeInv, Together
  <2>. QED  BY <1>0, <1>3, <2>2 DEF Shutdown, Bridge!Next, SystemInv
<1>4. CASE Boots \/ \E k \in Children : Reads(k) \/ ProcessStep(k)
  <2>1. TasksFollow
    BY <1>4 DEF Boots, Reads, ProcessStep
  <2>2. ASSUME Boots PROVE UNCHANGED req
    BY <2>2 DEF Boots, Control, JoinFailed, Join, Closed, Exited, Kill, Spawned, SpawnFails, calls
  <2>3. ASSUME NEW k \in Children, Reads(k) PROVE UNCHANGED req
    BY <2>3 DEF Reads, Reader, ReaderStarts, ReadLine, ReadEOF, Respawned, RespawnFails, calls
  <2>4. ASSUME NEW k \in Children, ProcessStep(k) PROVE UNCHANGED req
    BY <2>4 DEF ProcessStep, Process, Garbles, CatchesUp, ClosesStdout, Exits, Answers, calls
  <2>5. UNCHANGED req
    BY <1>4, <2>2, <2>3, <2>4
  <2>6. UNCHANGED <<forwards, task, handed>> /\ BridgeInv'
    BY <2>1, <2>5, NothingFollows DEF SystemInv
  <2>. QED  BY <1>0, <2>6 DEF forwards, Bridge!vars, SystemInv
<1>5. CASE UNCHANGED system
  <2>1. UNCHANGED <<req, pc, task, outcome>> /\ UNCHANGED Bridge!vars
    BY <1>5 DEF system, vars, calls, forwards, Bridge!vars
  <2>2. BridgeInv'
    BY <2>1 DEF SystemInv, BridgeInv, Together
  <2>. QED  BY <1>0, <2>1, <2>2 DEF SystemInv
<1>. QED  BY <1>0, <1>1, <1>2, <1>3, <1>4, <1>5 DEF SystemNext, Request, SystemInv

\* So it always holds.
LEMMA SystemAlways ==
  ASSUME Composed
  PROVE  System => []SystemInv
  BY BridgeStarts, BridgeStep, PTL DEF System

------------------------------------------------------------------------------
\* The bridge sees nothing of an upstream but what ProxyBridge takes one for: the
\* transport ends each task in one of the ways forward() knows, and one that was
\* cancelled does not return (bridge.py:67-82, stdio.py:100-112).
THEOREM ImplementsBridge ==
  ASSUME Composed
  PROVE  System => BridgeSpec
  BY BridgeStarts, BridgeStep, SystemAlways, PTL DEF System, BridgeSpec, Bridge!Spec

\* When forward() has been left by all, nothing is in request() any more but what
\* the cancellation of a caller left there (bridge.py:71-73, 84; stdio.py:100-112).
THEOREM NothingIsLeft ==
  ASSUME Composed
  PROVE  System => []NoLateWork
<1>1. SystemInv => NoLateWork
  <2>. SUFFICES ASSUME SystemInv, Bridge!Holders = {}, NEW r \in Requests, req[r] \in InRequest
                PROVE  outcome[r] = "cancelled"
    BY DEF NoLateWork
  <2>1. pc[r] \notin Bridge!HoldsSlot
    BY DEF Bridge!Holders
  <2>2. Together(r)
    BY DEF SystemInv, BridgeInv
  <2>. QED  BY <2>1, <2>2 DEF Together, Begun, NotOver, Bridge!HoldsSlot
<1>. QED  BY <1>1, SystemAlways, PTL

\* No stop() or restart() has been called.
NeverStopped == last = Boot

\* While the proxy serves, whatever ids its clients choose, whatever calls are
\* cancelled and whenever a process exits or falls silent and is replaced, every part
\* of the transport agrees, it knows the process that can answer, and answers go to
\* their ids (stdio.py:34, 71-98, 107-119).
THEOREM ServingTransport ==
  ASSUME Composed
  PROVE  System => [](Consistent /\ NoOrphan /\ OwnAnswer /\ NeverStopped)
<1>1. Init => NeverStopped
  BY DEF Init, NeverStopped
<1>2. NeverStopped /\ [Next]_vars => NeverStopped'
  <2>. SUFFICES ASSUME NeverStopped, [Next]_vars PROVE last' = last
    BY DEF NeverStopped
  <2>1. CASE \E c \in Callers : Control(c)
    BY <2>1 DEF Control, JoinFailed, Join, Closed, Exited, Kill, Spawned, SpawnFails
  <2>2. CASE \E k \in Children : Reader(k) \/ Process(k)
    BY <2>2 DEF Reader, ReaderStarts, ReadLine, ReadEOF, Respawned, RespawnFails, Process, Garbles,
                CatchesUp, ClosesStdout, Exits, Answers, ctls
  <2>3. CASE \E r \in Requests : CallWithoutProcess(r) \/ Call(r) \/ Resumes(r) \/ CancelCall(r)
    BY <2>3 DEF CallWithoutProcess, Call, Resumes, LockTaken, Drained, Return, CancelCall, ctls
  <2>4. CASE UNCHANGED vars
    BY <2>4 DEF vars, ctls
  <2>5. Controllers = {}
    BY DEF Composed
  <2>. QED  BY <2>1, <2>2, <2>3, <2>4, <2>5 DEF Next
<1>3. Spec => []NeverStopped
  BY <1>1, <1>2, PTL DEF Spec
<1>4. Spec => [](Consistent /\ NoOrphan /\ OwnAnswer)
  BY AllConsistent, OneProcessOneReader, OwnAnswers, PTL
<1>5. System => Spec
  BY TransportSpec
<1>. QED  BY <1>3, <1>4, <1>5, PTL
==============================================================================
