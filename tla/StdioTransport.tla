---------------------------- MODULE StdioTransport ----------------------------
(***************************************************************************)
(* StdioUpstreamTransport (src/mcp_proxy/proxy/stdio.py): one transport,   *)
(* the processes it spawns one after the other, the reader task of each,   *)
(* the calls that share its stdin and the callers of stop() and restart(). *)
(*                                                                         *)
(* An action is the code between two awaits.  "self._proc" is read again   *)
(* after an await wherever the code does.  cancel() of a reader task takes *)
(* effect at once: until it is delivered the task does nothing.            *)
(*                                                                         *)
(* A process is external: it answers what it has received in any order,    *)
(* exits when its stdin closes or by itself, and may misbehave.  One that  *)
(* has closed its stdout and lives on is "mute".                           *)
(***************************************************************************)
EXTENDS Naturals, Sequences, SequencesExt, FiniteSets, Functions

CONSTANTS Requests,       \* calls of request() and send_notification()
          Notifications,  \* those among them without an id
          IdOf,           \* the id of each: clients choose them
          Boot,           \* the manager's start()
          Controllers,    \* callers of stop() and restart(), as often as they like
          Misbehaviour,   \* of processes: see Garbles, Write, SpawnFails, ClosesStdout
          OverflowAt,     \* first n with 0.1 * 2**n out of range: 1024
          MaxCrashes,     \* bound: processes that exit or fall silent by themselves
          MaxChildren     \* bound: processes spawned

Nobody == "nobody"
Garbage == "garbage"
Overlap == "overlap"
\* What stands in the place of a call: in the table, in a future, in a line.
NoCall == {Nobody, Garbage, "absent", "unset", "none", "cancelled"}

ASSUME StdioAssumption ==
    /\ Notifications \subseteq Requests
    /\ Requests \cap NoCall = {}
    /\ DOMAIN IdOf = Requests
    /\ Boot \notin Controllers
    /\ Overlap \notin Controllers \cup {Boot}
    /\ Misbehaviour \subseteq {"garbage", "deaf", "no_spawn", "mute"}
    /\ OverflowAt \in Nat \ {0}
    /\ {MaxCrashes, MaxChildren} \subseteq Nat
    /\ MaxChildren >= 1 + MaxCrashes

VARIABLES proc,        \* self._proc, 0 for None
          running,     \* self._running
          readerTask,  \* self._reader_task, 0 for None
          attempts,    \* self._restart_attempts
          child,       \* each process
          stdin,       \* its stdin: being closed, or known to be gone
          full,        \* its stdin has a backlog
          inbox,       \* what it has received and not answered
          outbox,      \* lines in its stdout
          reader,      \* the reader task started with it
          source,      \* the process whose stdout that task awaits
          pending,     \* self._pending, Nobody for an absent key
          lock,        \* self._write_lock: its owner, then who waits for it
          req,         \* where each call stands
          fut,         \* its future
          sentTo,      \* the process that received it, 0 for none
          ctl,         \* where each start(), stop() and restart() stands
          op,          \* which of them it is
          target,      \* the reader task or the process it awaits
          last         \* history: the last of them to begin, Overlap once two overlapped

self == <<proc, running, readerTask, attempts>>
os == <<child, stdin, full, inbox, outbox>>
tasks == <<reader, source>>
futures == <<pending, fut>>
calls == <<lock, req, sentTo>>
ctls == <<ctl, op, target, last>>
vars == <<self, os, tasks, futures, calls, ctls>>

Ids == Range(IdOf)
Children == 1 .. MaxChildren
Active == {"starting", "reading", "backoff"}
Callers == Controllers \cup {Boot}

TypeOK ==
    /\ {proc, readerTask} \subseteq 0 .. MaxChildren
    /\ running \in BOOLEAN
    /\ attempts \in 0 .. OverflowAt + MaxChildren
    /\ child \in [Children -> {"unborn", "alive", "mute", "exited"}]
    /\ stdin \in [Children -> {"open", "closing", "gone"}]
    /\ full \in [Children -> BOOLEAN]
    /\ inbox \in [Children -> SUBSET (Requests \ Notifications)]
    /\ outbox \in [Children -> Seq(Requests \cup {Garbage})]
    /\ reader \in [Children -> Active \cup {"unborn", "ended", "failed", "cancelled"}]
    /\ source \in [Children -> 0 .. MaxChildren]
    /\ pending \in [Ids -> Requests \cup {Nobody}]
    /\ lock \in Seq(Requests)
    /\ req \in [Requests -> {"idle", "locking", "draining", "waiting",
                             "returned", "raised", "cancelled"}]
    /\ fut \in [Requests -> Requests \cup {"absent", "unset", "none", "cancelled"}]
    /\ sentTo \in [Requests -> 0 .. MaxChildren]
    /\ ctl \in [Callers -> {"idle", "joining", "closing", "terminating", "killing",
                            "spawning", "done", "raised"}]
    /\ op \in [Callers -> {"start", "stop", "restart"}]
    /\ target \in [Callers -> 0 .. MaxChildren]
    /\ last \in Callers \cup {Overlap}

Init ==
    /\ proc = 0 /\ readerTask = 0
    /\ attempts \in {0, OverflowAt - 1}  \* it may have been stopped and started before
    /\ running = FALSE
    /\ child = [k \in Children |-> "unborn"]
    /\ stdin = [k \in Children |-> "open"]
    /\ full = [k \in Children |-> FALSE]
    /\ inbox = [k \in Children |-> {}]
    /\ outbox = [k \in Children |-> <<>>]
    /\ reader = [k \in Children |-> "unborn"]
    /\ source = [k \in Children |-> 0]
    /\ pending = [i \in Ids |-> Nobody]
    /\ lock = <<>>
    /\ req = [r \in Requests |-> "idle"]
    /\ fut = [r \in Requests |-> "absent"]
    /\ sentTo = [r \in Requests |-> 0]
    /\ ctl = [c \in Callers |-> IF c = Boot THEN "spawning" ELSE "idle"]
    /\ op = [c \in Callers |-> "start"]
    /\ target = [c \in Callers |-> 0]
    /\ last = Boot

\* The manager hands the transport out when its start() has returned.
Started == ctl[Boot] = "done"
Alive(k) == k # 0 /\ child[k] \in {"alive", "mute"}

\* start() and the calls of stop() and restart() came one after the other so far.
Alone == last # Overlap

\* Mutant: pending calls are forgotten, not woken.
ForgetPending == pending' = [i \in Ids |-> Nobody] /\ UNCHANGED fut

_flush_pending ==
    /\ fut' = [r \in Requests |->
                  IF fut[r] = "unset" /\ r \in Range(pending) THEN "none" ELSE fut[r]]
    /\ pending' = [i \in Ids |-> Nobody]

\* create_subprocess_exec returns: process n, and a reader task that has not run.
_spawn(n) ==
    /\ child[n] = "unborn"
    /\ \A k \in 1 .. n - 1 : child[k] # "unborn"
    /\ child' = [child EXCEPT ![n] = "alive"]
    /\ proc' = n
    /\ readerTask' = n

------------------------------------------------------------------------------
(* start, stop, restart *)

\* Mutant: the reader task is left alone.
LeaveReader == UNCHANGED reader

CancelReader ==
    reader' = [k \in Children |->
                  IF k = readerTask /\ reader[k] \in Active THEN "cancelled" ELSE reader[k]]

Unborn == {k \in Children : child[k] = "unborn"}
Gone == {k \in Children : child[k] \in {"mute", "exited"}}

AtRest == {"idle", "done", "raised"}

\* Bounds: a process for each restart, and for each process that exits by itself.
MayCrash == Cardinality(Gone) < MaxCrashes
MayRestart == Unborn # {} /\ Cardinality(Unborn \cup Gone) > MaxCrashes

\* Lines 44-46: the reader task is cancelled, then awaited.
Stop(c) ==
    /\ Started
    /\ ctl[c] \in AtRest
    /\ running' = FALSE
    /\ CancelReader
    /\ ctl' = [ctl EXCEPT ![c] = "joining"]
    /\ target' = [target EXCEPT ![c] = readerTask]
    /\ \E o \in {"stop", "restart"} :
          (o = "restart" => MayRestart) /\ op' = [op EXCEPT ![c] = o]
    /\ last' = IF Alone /\ ctl[last] \in AtRest THEN c ELSE Overlap
    /\ UNCHANGED <<proc, readerTask, attempts, os, source, futures, calls>>

\* Line 65 and what follows it.
Finish(c) ==
    /\ proc' = 0
    /\ ctl' = [ctl EXCEPT ![c] = IF op[c] = "stop" THEN "done" ELSE "spawning"]

\* "await self._reader_task" is over.  What the reader raised is raised again
\* here, before anything else is stopped.
JoinFailed(c) ==
    /\ ctl[c] = "joining"
    /\ target[c] # 0 /\ reader[target[c]] = "failed"
    /\ ctl' = [ctl EXCEPT ![c] = "raised"]
    /\ UNCHANGED <<self, os, tasks, futures, calls, op, target, last>>

Join(c) ==
    /\ ctl[c] = "joining"
    /\ target[c] # 0 => reader[target[c]] # "failed"
    /\ readerTask' = 0
    /\ _flush_pending
    /\ IF proc = 0
         THEN Finish(c) /\ UNCHANGED <<stdin, target>>
         ELSE /\ stdin' = [stdin EXCEPT ![proc] = "closing"]
              /\ ctl' = [ctl EXCEPT ![c] = "closing"]
              /\ target' = [target EXCEPT ![c] = proc]
              /\ UNCHANGED proc
    /\ UNCHANGED <<running, attempts, child, full, inbox, outbox, tasks, calls, op,
                   last>>

\* stdin.wait_closed() is over: what was written to it has gone out, or the
\* process has.  terminate() is sent to a process that still runs.
Closed(c) ==
    /\ ctl[c] = "closing"
    /\ full[target[c]] => ~Alive(target[c])
    /\ stdin' = [stdin EXCEPT ![target[c]] = "gone"]
    /\ IF Alive(proc)
         THEN /\ ctl' = [ctl EXCEPT ![c] = "terminating"]
              /\ target' = [target EXCEPT ![c] = proc]
              /\ UNCHANGED proc
         ELSE Finish(c) /\ UNCHANGED target
    /\ UNCHANGED <<running, readerTask, attempts, child, full, inbox, outbox, tasks,
                   futures,
                   calls, op, last>>

\* Mutant: after terminate() the process is not waited for.
NotReaped(c) == TRUE

\* self._proc.wait() returns.
Reaped(c) == ~Alive(target[c])

Exited(c) ==
    /\ ctl[c] \in {"terminating", "killing"}
    /\ Reaped(c)
    /\ Finish(c)
    /\ UNCHANGED <<running, readerTask, attempts, os, tasks, futures, calls, op,
                   target, last>>

Die(k) ==
    /\ child' = [child EXCEPT ![k] = "exited"]
    /\ full' = [full EXCEPT ![k] = FALSE]
    /\ inbox' = [inbox EXCEPT ![k] = {}]
    /\ UNCHANGED <<stdin, outbox>>

\* Mutant: there is no limit to the patience.
KillNever(c) == FALSE

\* wait_for gives up after a second: self._proc.kill(), whatever it is by now.
Kill(c) ==
    /\ ctl[c] = "terminating"
    /\ Alive(target[c])
    /\ IF Alive(proc)
         THEN /\ Die(proc)
              /\ ctl' = [ctl EXCEPT ![c] = "killing"]
              /\ target' = [target EXCEPT ![c] = proc]
         ELSE ctl' = [ctl EXCEPT ![c] = "raised"] /\ UNCHANGED <<os, target>>
    /\ UNCHANGED <<self, tasks, futures, calls, op, last>>

Spawned(c) ==
    /\ ctl[c] = "spawning"
    /\ \E n \in Children : _spawn(n) /\ reader' = [reader EXCEPT ![n] = "starting"]
    /\ running' = TRUE
    /\ ctl' = [ctl EXCEPT ![c] = "done"]
    /\ UNCHANGED <<attempts, stdin, full, inbox, outbox, source, futures, calls, op, target,
                   last>>

SpawnFails(c) ==
    /\ "no_spawn" \in Misbehaviour
    /\ ctl[c] = "spawning"
    /\ ctl' = [ctl EXCEPT ![c] = "raised"]
    /\ UNCHANGED <<self, os, tasks, futures, calls, op, target, last>>

------------------------------------------------------------------------------
(* _reader and _maybe_restart *)

\* The head of the loop.  Two tasks may not await the same stream.
Iterate(k) ==
    IF ~running \/ proc = 0
      THEN reader' = [reader EXCEPT ![k] = "ended"] /\ UNCHANGED source
    ELSE IF outbox[proc] = <<>> /\ \E j \in Children \ {k} : reader[j] = "reading" /\ source[j] = proc
      THEN reader' = [reader EXCEPT ![k] = "failed"] /\ UNCHANGED source
    ELSE /\ reader' = [reader EXCEPT ![k] = "reading"]
         /\ source' = [source EXCEPT ![k] = proc]

\* The task's first step, with the assertion of line 80.
ReaderStarts(k) ==
    /\ reader[k] = "starting"
    /\ IF proc = 0
         THEN reader' = [reader EXCEPT ![k] = "failed"] /\ UNCHANGED source
         ELSE Iterate(k)
    /\ UNCHANGED <<self, os, futures, calls, ctls>>

\* Mutant: answers are matched in order, whatever their ids.
AnyEntry(q) ==
    IF Range(pending) = {Nobody} THEN Nobody ELSE CHOOSE p \in Range(pending) : p # Nobody

Entry(q) == pending[IdOf[q]]

\* Lines 87-92, for the answer to q: whoever is registered under its id gets it.
Deliver(q) ==
    LET p == Entry(q) IN
    IF p = Nobody THEN UNCHANGED futures
    ELSE /\ pending' = [pending EXCEPT ![IdOf[p]] = Nobody]
         /\ fut' = [fut EXCEPT ![p] = IF @ = "unset" THEN q ELSE @]

ReadLine(k) ==
    /\ reader[k] = "reading"
    /\ outbox[source[k]] # <<>>
    /\ outbox' = [outbox EXCEPT ![source[k]] = Tail(@)]
    /\ LET line == Head(outbox[source[k]]) IN
       IF line = Garbage
         THEN reader' = [reader EXCEPT ![k] = "failed"] /\ UNCHANGED <<source, futures>>
         ELSE Deliver(line) /\ Iterate(k)
    /\ UNCHANGED <<self, child, stdin, full, inbox, calls, ctls>>

\* Mutant: the loop is left without another process.
RetryNever(k) == reader' = [reader EXCEPT ![k] = "ended"]

Retry(k) ==
    reader' = [reader EXCEPT ![k] = IF attempts' < OverflowAt THEN "backoff" ELSE "failed"]

\* End of file, from a process that has exited, whose stdin is gone by then, or from
\* one that lives on.  The delay before the next process is a float: see OverflowAt.
ReadEOF(k) ==
    /\ reader[k] = "reading"
    /\ outbox[source[k]] = <<>>
    /\ child[source[k]] \in {"mute", "exited"}
    /\ _flush_pending
    /\ stdin' = [stdin EXCEPT ![source[k]] = IF Alive(source[k]) THEN @ ELSE "gone"]
    /\ IF running
         THEN attempts' = attempts + 1 /\ Retry(k)
         ELSE reader' = [reader EXCEPT ![k] = "ended"] /\ UNCHANGED attempts
    /\ UNCHANGED <<proc, running, readerTask, child, full, inbox, outbox, source,
                   calls, ctls>>

\* The sleep and create_subprocess_exec are over; _running is not looked at.
Respawned(k) ==
    /\ reader[k] = "backoff"
    /\ \E n \in Children :
          _spawn(n) /\ reader' = [reader EXCEPT ![k] = "ended", ![n] = "starting"]
    /\ UNCHANGED <<running, attempts, stdin, full, inbox, outbox, source, futures,
                   calls, ctls>>

RespawnFails(k) ==
    /\ "no_spawn" \in Misbehaviour
    /\ reader[k] = "backoff"
    /\ reader' = [reader EXCEPT ![k] = "failed"]
    /\ UNCHANGED <<self, os, source, futures, calls, ctls>>

------------------------------------------------------------------------------
(* request and send_notification *)

\* What a call does when its line is written.
Sent(r) == IF r \in Notifications THEN "returned" ELSE "waiting"

Receive(r) ==
    /\ inbox' = [inbox EXCEPT ![proc] = @ \cup ({r} \ Notifications)]
    /\ sentTo' = [sentTo EXCEPT ![r] = proc]

Writable == Alive(proc) /\ stdin[proc] = "open"

\* Write and drain by r, the first of the lock's queue q.  A line for a process
\* that has gone is lost: drain() raises if the loop has been told that stdin is
\* gone, and may or may not while it is about to be.
Write(r, q) ==
    \/ /\ proc = 0                       \* 'NoneType' has no attribute 'stdin'
       /\ req' = [req EXCEPT ![r] = "raised"]
       /\ lock' = Tail(q)
       /\ UNCHANGED <<full, inbox, sentTo>>
    \/ /\ Writable /\ ~full[proc]
       /\ Receive(r)
       /\ req' = [req EXCEPT ![r] = Sent(r)]
       /\ lock' = Tail(q)
       /\ UNCHANGED full
    \/ /\ Writable /\ "deaf" \in Misbehaviour
       /\ Receive(r)                     \* drain() has to wait
       /\ full' = [full EXCEPT ![proc] = TRUE]
       /\ req' = [req EXCEPT ![r] = "draining"]
       /\ lock' = q
    \/ /\ proc # 0 /\ ~Writable
       /\ \/ req' = [req EXCEPT ![r] = "raised"]
          \/ stdin[proc] # "gone" /\ req' = [req EXCEPT ![r] = Sent(r)]
       /\ lock' = Tail(q)
       /\ UNCHANGED <<full, inbox, sentTo>>

CallWithoutProcess(r) ==
    /\ Started
    /\ req[r] = "idle"
    /\ proc = 0
    /\ req' = [req EXCEPT ![r] = "returned"]
    /\ fut' = [fut EXCEPT ![r] = "none"]
    /\ UNCHANGED <<self, os, tasks, pending, lock, sentTo, ctls>>

\* Lines 107-109: the future is registered, and the lock taken if it is free.
Call(r) ==
    /\ Started
    /\ req[r] = "idle"
    /\ proc # 0
    /\ IF r \in Notifications
         THEN fut' = [fut EXCEPT ![r] = "none"] /\ UNCHANGED pending
         ELSE /\ fut' = [fut EXCEPT ![r] = "unset"]
              /\ pending' = [pending EXCEPT ![IdOf[r]] = r]
    /\ IF lock = <<>>
         THEN Write(r, <<r>>)
         ELSE /\ lock' = Append(lock, r)
              /\ req' = [req EXCEPT ![r] = "locking"]
              /\ UNCHANGED <<full, inbox, sentTo>>
    /\ UNCHANGED <<self, child, stdin, outbox, tasks, ctls>>

LockTaken(r) ==
    /\ req[r] = "locking"
    /\ Head(lock) = r
    /\ Write(r, lock)
    /\ UNCHANGED <<self, child, stdin, outbox, tasks, futures, ctls>>

Drained(r) ==
    /\ req[r] = "draining"
    /\ ~full[sentTo[r]]
    /\ \/ req' = [req EXCEPT ![r] = Sent(r)]
       \/ ~Alive(sentTo[r]) /\ req' = [req EXCEPT ![r] = "raised"]
    /\ lock' = Tail(lock)
    /\ UNCHANGED <<self, os, tasks, futures, sentTo, ctls>>

Return(r) ==
    /\ req[r] = "waiting"
    /\ fut[r] # "unset"
    /\ req' = [req EXCEPT ![r] = "returned"]
    /\ UNCHANGED <<self, os, tasks, futures, lock, sentTo, ctls>>

\* Mutant: the lock is not left.
KeepLock(r) == UNCHANGED lock

\* "async with" leaves the lock, or its queue.
Unlock(r) ==
    IF r \in ToSet(lock)
      THEN \E i \in DOMAIN lock : lock[i] = r /\ lock' = RemoveAt(lock, i)
      ELSE UNCHANGED lock

\* Mutant: request() shields the write of its line.
CancelWaiting(r) ==
    /\ req[r] = "waiting"
    /\ req' = [req EXCEPT ![r] = "cancelled"]
    /\ Unlock(r)
    /\ fut' = [fut EXCEPT ![r] = IF @ = "unset" THEN "cancelled" ELSE @]
    /\ UNCHANGED <<self, os, tasks, pending, sentTo, ctls>>

\* Mutant: request() catches the cancellation and returns nothing.
CancelCaught(r) ==
    /\ req[r] \in {"locking", "draining", "waiting"}
    /\ req' = [req EXCEPT ![r] = "returned"]
    /\ Unlock(r)
    /\ fut' = [fut EXCEPT ![r] = "none"]
    /\ UNCHANGED <<self, os, tasks, pending, sentTo, ctls>>

\* The bridge cancels the call.  Its entry stays in the pending table.
CancelCall(r) ==
    /\ req[r] \in {"locking", "draining", "waiting"}
    /\ req' = [req EXCEPT ![r] = "cancelled"]
    /\ Unlock(r)
    /\ fut' = [fut EXCEPT ![r] = IF req[r] = "waiting" /\ @ = "unset" THEN "cancelled" ELSE @]
    /\ UNCHANGED <<self, os, tasks, pending, sentTo, ctls>>

------------------------------------------------------------------------------
(* The processes *)

Answers(k, r) ==
    /\ child[k] = "alive" /\ ~full[k]
    /\ r \in inbox[k]
    /\ inbox' = [inbox EXCEPT ![k] = @ \ {r}]
    /\ outbox' = [outbox EXCEPT ![k] = Append(@, r)]
    /\ UNCHANGED <<self, child, stdin, full, tasks, futures, calls, ctls>>

\* A line that is not a JSON object, or longer than the stream's limit.
Garbles(k) ==
    /\ "garbage" \in Misbehaviour
    /\ child[k] = "alive"
    /\ Garbage \notin ToSet(outbox[k])
    /\ outbox' = [outbox EXCEPT ![k] = Append(@, Garbage)]
    /\ UNCHANGED <<self, child, stdin, full, inbox, tasks, futures, calls, ctls>>

CatchesUp(k) ==
    /\ full[k]
    /\ full' = [full EXCEPT ![k] = FALSE]
    /\ UNCHANGED <<self, child, stdin, inbox, outbox, tasks, futures, calls, ctls>>

\* Nothing more comes from it, and it lives on.
ClosesStdout(k) ==
    /\ "mute" \in Misbehaviour
    /\ child[k] = "alive" /\ MayCrash
    /\ child' = [child EXCEPT ![k] = "mute"]
    /\ UNCHANGED <<self, stdin, full, inbox, outbox, tasks, futures, calls, ctls>>

Exits(k) ==
    /\ Alive(k)
    /\ child[k] = "mute" \/ stdin[k] # "open" \/ MayCrash
    /\ Die(k)
    /\ UNCHANGED <<self, tasks, futures, calls, ctls>>

Process(k) ==
    Garbles(k) \/ CatchesUp(k) \/ ClosesStdout(k) \/ Exits(k) \/ \E r \in Requests : Answers(k, r)

Control(c) ==
    JoinFailed(c) \/ Join(c) \/ Closed(c) \/ Exited(c) \/ Kill(c) \/ Spawned(c) \/ SpawnFails(c)

Reader(k) ==
    ReaderStarts(k) \/ ReadLine(k) \/ ReadEOF(k) \/ Respawned(k) \/ RespawnFails(k)

Resumes(r) == LockTaken(r) \/ Drained(r) \/ Return(r)

Next ==
    \/ \E c \in Controllers : Stop(c)
    \/ \E c \in Callers : Control(c)
    \/ \E k \in Children : Reader(k) \/ Process(k)
    \/ \E r \in Requests : CallWithoutProcess(r) \/ Call(r) \/ Resumes(r) \/ CancelCall(r)

Spec == Init /\ [][Next]_vars

\* The loop runs what is ready, sleeps and timeouts end, and a process that
\* reads its input answers it.
Fairness ==
    /\ \A c \in Callers : WF_vars(Control(c))
    /\ \A k \in Children : WF_vars(Reader(k))
    /\ \A r \in Requests : WF_vars(Resumes(r))
    /\ \A k \in Children, r \in Requests : WF_vars(Answers(k, r))

FairSpec == Spec /\ Fairness

------------------------------------------------------------------------------
\* A call gets an answer to its own id, whatever was restarted, cancelled or flushed
\* in between (stdio.py:89-92, 107-112).  Ids are the clients' own: of two calls with
\* one id either may get the answer to the other.
OwnAnswer == \A r \in Requests : fut[r] \in Requests => IdOf[fut[r]] = IdOf[r]

\* A future that is not set is in the table, where an answer or a flush finds it,
\* unless another call with its id took its place there (stdio.py:89-98, 108).
NobodyForgotten ==
    \A r \in Requests :
        fut[r] = "unset" =>
            \/ pending[IdOf[r]] = r
            \/ \E q \in Requests \ {r} : IdOf[q] = IdOf[r] /\ fut[q] # "absent"

\* A process that can still answer is the one the transport knows, whatever exits,
\* falls silent, respawns and is stopped or restarted, as long as no two calls of
\* stop() and restart() overlap (stdio.py:34, 65, 77, 82-86).  One that closed its
\* stdout and lives on is dropped for its successor, and runs until it exits.
NoOrphan == Alone => \A k \in Children : child[k] = "alive" => k = proc

\* Only a call that is writing or about to holds the write lock or waits for it:
\* a call cancelled there does not leave it locked (stdio.py:109-111, 117-119).
LockInUse == \A r \in ToSet(lock) : req[r] \in {"locking", "draining"}

\* There is never more than one reader at work on the transport.
OneReader == Alone => Cardinality({k \in Children : reader[k] \in Active}) <= 1

\* The parts of the transport agree: the table of pending requests and the
\* futures, the lock and the calls, the reader tasks (stdio.py:34, 89-98, 107-119).
Consistent == TypeOK /\ NobodyForgotten /\ LockInUse /\ OneReader

\* A request that a process has received is answered or released
\* (stdio.py:51, 83-92), if the process keeps to the protocol.
ReceivedEnds ==
    \A r \in Requests : req[r] = "waiting" /\ sentTo[r] # 0 ~> req[r] # "waiting"

\* stop() and restart() come to an end (stdio.py:43-69).
\* base.py:18 has "Stop transport resources".
StopEnds == \A c \in Controllers : ctl[c] = "joining" ~> ctl[c] \in {"done", "raised"}

\* When a stop() has returned, no process with its stdout open runs, and none is
\* spawned until a restart(), even if one was about to be respawned, as long as no
\* two of these calls overlap (stdio.py:43-65, 72-77).
StopStops ==
    Alone /\ op[last] = "stop" /\ ctl[last] = "done" =>
        \A k \in Children : child[k] # "alive"

\* A process that exits by itself is replaced, unless the transport is being
\* stopped, and as long as the delay can be computed (stdio.py:71-77, 86).
RestartsAfterExit ==
    \A k \in Children :
        child[k] = "exited" /\ running /\ attempts + 1 < OverflowAt ~> Alive(proc) \/ ~running
==============================================================================
