--------------------------- MODULE Lifecycle_proofs ---------------------------
(***************************************************************************)
(* Proofs about Lifecycle for any contents of the file, any entry points   *)
(* and any number of versions.  Three arguments: when the watcher is not   *)
(* about to read, what it has noted is no later than what it has read or   *)
(* what was there when it started (Caught); it works only between the      *)
(* startup and the end of the shutdown's wait for it (Staged); and what    *)
(* the startup has started and has left to start is the configuration      *)
(* (Started).                                                              *)
(***************************************************************************)
EXTENDS Lifecycle, QueueLemmas, FiniteSetTheorems, TLAPS

\* Nothing is noted or read before it is written.
Written ==
    /\ versions \in Seq(Contents)
    /\ {noted, got, since} \subseteq 0 .. Now

\* After the read that follows a look at the mtime, the watcher has caught up.
Caught == watch \in {"sleeping", "applying"} => noted <= got \/ noted <= since

KnownInv == Written /\ Caught

\* Where the watcher's task is when the proxy starts, and when it stops.
Idle == {"off", "over", "raised"}
Staged ==
    /\ stage \notin {"serving", "cancelling", "joining"} => watch \in Idle
    /\ watch = "reading" => stage \in {"serving", "joining"}

------------------------------------------------------------------------------
(* What the watcher knows *)

\* A step that neither starts the watcher nor moves it, nor edits the file.
LEMMA KnownKept ==
  ASSUME KnownInv, UNCHANGED <<versions, watch, noted, got, since>>
  PROVE  KnownInv'
  BY DEF KnownInv, Written, Caught, Now

\* A step that moves the watcher without noting or reading anything.
LEMMA KnownMoves ==
  ASSUME KnownInv, UNCHANGED <<versions, noted, got, since>>,
         watch' \in {"sleeping", "applying"} => watch \in {"sleeping", "applying"}
  PROVE  KnownInv'
  BY DEF KnownInv, Written, Caught, Now

\* At the start nothing is noted.
LEMMA KnownInit == Init => KnownInv
<1>. SUFFICES ASSUME Init PROVE KnownInv
  OBVIOUS
<1>1. PICK c \in Contents : versions = <<c>>
  BY DEF Init
<1>2. versions \in Seq(Contents) /\ Now = 1
  BY <1>1 DEF Now
<1>. QED  BY <1>2 DEF Init, KnownInv, Written, Caught

\* Every step keeps it.
LEMMA KnownStep == KnownInv /\ [Next]_vars => KnownInv'
<1>. SUFFICES ASSUME KnownInv, [Next]_vars PROVE KnownInv'
  OBVIOUS
<1>. USE DEF watcher
<1>1. CASE Edit
  <2>1. PICK c \in Contents : versions' = Append(versions, c)
    BY <1>1 DEF Edit
  <2>2. versions' \in Seq(Contents) /\ Now' = Now + 1 /\ Now \in Nat
    BY <2>1 DEF KnownInv, Written, Now
  <2>3. UNCHANGED <<watch, noted, got, since>>
    BY <1>1 DEF Edit
  <2>. QED  BY <2>2, <2>3 DEF KnownInv, Written, Caught
<1>2. CASE ReadRaw \/ LoadConfig \/ Register \/ PluginRaises \/ Build
  BY <1>2, KnownKept DEF ReadRaw, LoadConfig, Register, PluginRaises, Build, Starting
<1>3. CASE OnStartup \/ StartUpstream \/ StartFails \/ RestFails
  BY <1>3, KnownKept DEF OnStartup, StartUpstream, StartFails, RestFails
<1>4. CASE StartRest
  <2>1. Now \in Nat /\ Now' = Now
    BY <1>4 DEF StartRest, KnownInv, Written, Now
  <2>2. noted' \in {0, Now} /\ since' = Now /\ got' = got /\ versions' = versions
    BY <1>4 DEF StartRest, StartWatcher
  <2>. QED  BY <2>1, <2>2 DEF KnownInv, Written, Caught
<1>5. CASE Poll
  <2>1. Now \in Nat /\ Now' = Now
    BY <1>5 DEF Poll, Watches, KnownInv, Written, Now
  <2>2. noted' = Now /\ watch' = "reading" /\ UNCHANGED <<versions, got, since>>
    BY <1>5 DEF Poll, Watches
  <2>. QED  BY <2>1, <2>2 DEF KnownInv, Written, Caught
<1>6. CASE ReadFile
  <2>1. Now \in Nat /\ Now' = Now
    BY <1>6 DEF ReadFile, Watches, KnownInv, Written, Now
  <2>2. got' = Now /\ UNCHANGED <<versions, noted, since>>
    BY <1>6 DEF ReadFile, Watches
  <2>. QED  BY <2>1, <2>2 DEF KnownInv, Written, Caught
<1>7. CASE StatFails \/ Applied \/ RolledBack \/ StopRaises
  BY <1>7, KnownMoves
     DEF StatFails, Applied, RolledBack, StopRaises, Watching, SleepAgain, Watches
<1>8. CASE Signal \/ OnShutdown
  BY <1>8, KnownKept DEF Signal, OnShutdown, Ends
<1>9. CASE Cancelled
  BY <1>9, KnownMoves DEF Cancelled, Ends
<1>10. CASE Swallowed \/ JoinWatcher \/ StopUpstream \/ StopFails \/ StopTelemetry
  BY <1>10, KnownKept DEF Swallowed, JoinWatcher, StopUpstream, StopFails, StopTelemetry, Ends
<1>11. CASE UNCHANGED vars
  BY <1>11, KnownKept DEF vars
<1>. QED
  BY <1>1, <1>2, <1>3, <1>4, <1>5, <1>6, <1>7, <1>8, <1>9, <1>10, <1>11
     DEF Next, Booting, WatchLoop, Closing

\* A watcher that has caught up takes nothing for known that it has not read.
LEMMA CaughtUp == KnownInv => NothingMissed
  BY DEF KnownInv, Written, Caught, NothingMissed, Now

\* However the file is edited, whenever the watcher sleeps a version it takes for
\* known is one it has read or one that was there when it started
\* (runtime.py:59-79).
THEOREM NoVersionMissed == Spec => []NothingMissed
<1>1. Spec => []KnownInv
  BY KnownInit, KnownStep, PTL DEF Spec
<1>. QED  BY <1>1, CaughtUp, PTL

------------------------------------------------------------------------------
(* When the watcher works *)

\* A step that moves neither the proxy nor the watcher.
LEMMA StagedKept ==
  ASSUME Staged, UNCHANGED <<stage, watch>>
  PROVE  Staged'
  BY DEF Staged, Idle

\* Every step keeps it.
LEMMA StagedStep == Staged /\ [Next]_vars => Staged'
<1>. SUFFICES ASSUME Staged, [Next]_vars PROVE Staged'
  OBVIOUS
<1>. USE DEF watcher
<1>1. CASE Edit
  BY <1>1, StagedKept DEF Edit
<1>2. CASE ReadRaw \/ LoadConfig \/ Register \/ PluginRaises \/ Build
  BY <1>2 DEF ReadRaw, LoadConfig, Register, PluginRaises, Build, Starting, Staged, Idle
<1>3. CASE OnStartup \/ StartUpstream \/ StartFails \/ RestFails
  BY <1>3 DEF OnStartup, StartUpstream, Starts, StartFails, RestFails, Staged, Idle
<1>4. CASE StartRest
  BY <1>4 DEF StartRest, StartWatcher, Staged, Idle
<1>5. CASE Poll
  BY <1>5 DEF Poll, Watching, Watches, Staged, Idle
<1>6. CASE ReadFile
  BY <1>6 DEF ReadFile, Apply, Unreadable, Watching, Watches, Staged, Idle
<1>7. CASE StatFails \/ Applied \/ RolledBack \/ StopRaises
  BY <1>7 DEF StatFails, Applied, RolledBack, StopRaises, SleepAgain, Watching, Watches,
              Staged, Idle
<1>8. CASE Signal
  BY <1>8, StagedKept DEF Signal
<1>9. CASE OnShutdown
  BY <1>9 DEF OnShutdown, Staged, Idle
<1>10. CASE Cancelled \/ Swallowed
  BY <1>10 DEF Cancelled, Swallowed, Staged, Idle
<1>11. CASE JoinWatcher
  BY <1>11 DEF JoinWatcher, WatcherGone, Staged, Idle
<1>12. CASE StopUpstream \/ StopFails \/ StopTelemetry
  BY <1>12 DEF StopUpstream, StopFails, StopTelemetry, Staged, Idle
<1>13. CASE UNCHANGED vars
  BY <1>13, StagedKept DEF vars
<1>. QED
  BY <1>1, <1>2, <1>3, <1>4, <1>5, <1>6, <1>7, <1>8, <1>9, <1>10, <1>11, <1>12, <1>13
     DEF Next, Booting, WatchLoop, Closing

\* The startup and the shutdown have the table of transports to themselves
\* (server.py:289-302, runtime.py:51-57).
THEOREM OneWriterAtATime == Spec => []OneWriter
<1>1. Init => Staged
  BY DEF Init, Staged, Idle
<1>2. Staged => OneWriter
  BY DEF Staged, Idle, OneWriter
<1>. QED  BY <1>1, StagedStep, <1>2, PTL DEF Spec

------------------------------------------------------------------------------
(* What is up *)

\* The upstreams of a version in the order in which they are started.
Order(v) == [i \in DOMAIN Content(v).upstreams |-> Content(v).upstreams[i][1]]

Served == {"serving", "cancelling", "joining"}
Configured == stage \in {"registering", "booting", "starting"} \cup Served

\* What is about to be used has been read.
Read ==
    /\ Configured => config \in 1 .. Now
    /\ watch = "applying" => got \in 1 .. Now

\* What has been started so far and what is still to start are the configuration.
Started ==
    /\ stage \in {"reading", "loading", "registering", "booting"}
          => table = {} /\ running = {} /\ lost = {}
    /\ stage = "starting" =>
          /\ IsInjective(left)
          /\ running = table /\ lost = {}
          /\ table \cup ToSet(left) = Names(config)
    /\ stage \in Served => table = Names(config)
    /\ stage = "serving" =>
          /\ running = Names(config) \ lost
          /\ pipeline \notin {"none", "built"}

Typed == TypeOK /\ IsFiniteSet(table) /\ Read
UpInv == Typed /\ Started

\* The names of a version are those of its order, each once.
LEMMA NamesInOrder ==
  ASSUME versions \in Seq(Contents), NEW v \in 1 .. Now
  PROVE  /\ Order(v) \in Seq(AllNames) /\ IsInjective(Order(v))
         /\ ToSet(Order(v)) = Names(v)
         /\ Names(v) \subseteq AllNames /\ IsFiniteSet(Names(v))
<1>. DEFINE u == Content(v).upstreams
            n == Len(u)
<1>1. Content(v) \in Contents
  BY DEF Content, Now
<1>2. u \in Seq(ToSet(u)) /\ IsInjective(Order(v))
  BY <1>1, LifecycleAssumption DEF Order
<1>3. DOMAIN u = 1 .. n /\ n \in Nat
  BY <1>2, InQueue
<1>4. Names(v) \subseteq AllNames
  BY <1>1 DEF Names, AllNames
<1>5. Order(v) \in [1 .. n -> Names(v)]
  BY <1>3 DEF Order, Names
<1>6. Order(v) \in Seq(AllNames)
  BY <1>3, <1>4, <1>5
<1>7. ToSet(Order(v)) = Names(v)
  BY DEF ToSet, Order, Names
<1>8. Order(v) \in Surjection(1 .. n, Names(v))
  BY <1>5, <1>7 DEF Surjection, ToSet
<1>9. IsFiniteSet(Names(v))
  <2>1. IsFiniteSet(1 .. n)
    BY <1>3, FS_Interval
  <2>. QED  BY <2>1, <1>8, FS_Surjection
<1>. QED  BY <1>2, <1>4, <1>6, <1>7, <1>9

\* An order of the transports in which stop() takes them.
LEMMA AnyOrder ==
  ASSUME IsFiniteSet(table), table \subseteq AllNames, NEW s \in SetToSeqs(table)
  PROVE  s \in Seq(AllNames)
<1>1. Cardinality(table) \in Nat
  BY FS_CardinalityType
<1>2. s \in [1 .. Cardinality(table) -> table]
  BY DEF SetToSeqs
<1>. QED  BY <1>1, <1>2

\* What the versions written so far hold stays.
LEMMA WrittenStays ==
  ASSUME UpInv, Edit
  PROVE  /\ versions' \in Seq(Contents) /\ Now' \in 1 .. MaxVersions /\ Now < Now'
         /\ \A v \in 1 .. Now : Names(v)' = Names(v)
<1>1. PICK c \in Contents : versions' = Append(versions, c)
  BY DEF Edit
<1>2. versions \in Seq(Contents) /\ Now \in Nat /\ Now < MaxVersions /\ MaxVersions \in Nat
  BY LifecycleAssumption DEF Edit, UpInv, Typed, TypeOK
<1>3. versions' \in Seq(Contents) /\ Now' = Now + 1
  BY <1>1, <1>2 DEF Now
<1>4. ASSUME NEW v \in 1 .. Now PROVE versions'[v] = versions[v]
  BY <1>1, <1>2 DEF Now
<1>5. \A v \in 1 .. Now : Names(v)' = Names(v)
  BY <1>4 DEF Names, Content
<1>. QED  BY <1>2, <1>3, <1>5

\* The upstreams of the configuration that a new version does not touch are in it.
LEMMA Untouched == Names(config) \ Touched \subseteq Names(got)
<1>. SUFFICES ASSUME NEW n \in Names(config), n \notin Touched PROVE n \in Names(got)
  OBVIOUS
<1>1. PICK i \in DOMAIN Content(config).upstreams : n = Content(config).upstreams[i][1]
  BY DEF Names
<1>2. Content(config).upstreams[i] \in Upstreams(got)
  BY <1>1 DEF Touched, Upstreams, ToSet
<1>. QED  BY <1>1, <1>2 DEF Upstreams, ToSet, Names

\* At the start nothing is configured and nothing runs.
LEMMA UpInit == Init => UpInv
<1>. SUFFICES ASSUME Init PROVE UpInv
  OBVIOUS
<1>1. PICK c \in Contents : versions = <<c>>
  BY DEF Init
<1>2. versions \in Seq(Contents) /\ Now = 1
  BY <1>1 DEF Now
<1>3. IsFiniteSet(table)
  BY FS_EmptySet DEF Init
<1>4. left \in Seq(AllNames)
  BY DEF Init
<1>5. Now \in 1 .. MaxVersions /\ {raw, config, noted, got, since} \subseteq 0 .. Now
  BY <1>2, LifecycleAssumption DEF Init
<1>6. TypeOK
  BY <1>2, <1>4, <1>5 DEF Init, TypeOK
<1>7. Read /\ Started
  BY DEF Init, Read, Started, Configured, Served
<1>. QED  BY <1>3, <1>6, <1>7 DEF UpInv, Typed

\* A step that sets nothing but the gate or the server's flag.
LEMMA UpKept ==
  ASSUME UpInv, gate' \in {"open", "closed"}, exiting' \in BOOLEAN,
         UNCHANGED <<stage, versions, booting, transports, pipeline, watcher, since, cut>>
  PROVE  UpInv'
<1>. USE DEF booting, transports, watcher
<1>1. Names(config)' = Names(config) /\ Now' = Now
  BY DEF Names, Content, Now
<1>2. TypeOK'
  BY <1>1 DEF UpInv, Typed, TypeOK
<1>3. Read' /\ Started'
  BY <1>1 DEF UpInv, Typed, Read, Configured, Started
<1>. QED  BY <1>2, <1>3 DEF UpInv, Typed

\* Every step keeps it.
LEMMA UpStep == UpInv /\ [Next]_vars => UpInv'
<1>. SUFFICES ASSUME UpInv, [Next]_vars PROVE UpInv'
  OBVIOUS
<1>. USE DEF UpInv, Typed, Read, Configured, Served, booting, transports, watcher, control
<1>0. Now \in 1 .. MaxVersions /\ MaxVersions \in Nat /\ versions \in Seq(Contents)
  BY LifecycleAssumption DEF TypeOK
<1>1. CASE Edit
  <2>1. UNCHANGED <<stage, booting, transports, pipeline, watcher, control, since, cut>>
    BY <1>1 DEF Edit
  <2>2. Configured => Names(config)' = Names(config)
    BY <1>1, <2>1, WrittenStays
  <2>3. {raw, config, noted, got, since}' \subseteq 0 .. Now'
    BY <1>0, <1>1, <2>1, WrittenStays DEF TypeOK
  <2>4. Read'
    BY <1>0, <1>1, <2>1, WrittenStays
  <2>5. Started'
    BY <2>1, <2>2 DEF Started
  <2>6. TypeOK'
    BY <1>1, <2>1, <2>3, WrittenStays DEF TypeOK
  <2>. QED  BY <2>1, <2>4, <2>5, <2>6
<1>2. CASE ReadRaw \/ LoadConfig
  BY <1>0, <1>2 DEF ReadRaw, LoadConfig, Starting, TypeOK, Started, Served, Now
<1>3. CASE Register \/ PluginRaises \/ Build
  BY <1>0, <1>3 DEF Register, PluginRaises, Build, Starting, TypeOK, Started, Served, Now
<1>4. CASE OnStartup
  <2>1. left' = Order(config) /\ config \in 1 .. Now
    BY <1>4 DEF OnStartup, Order
  <2>2. /\ left' \in Seq(AllNames) /\ IsInjective(left')
        /\ ToSet(left') = Names(config)
    BY <1>0, <2>1, NamesInOrder
  <2>3. Names(config)' = Names(config)
    BY <1>4 DEF OnStartup, Names, Content
  <2>. QED  BY <1>0, <1>4, <2>2, <2>3 DEF OnStartup, TypeOK, Started, Served, Now
<1>5. CASE StartUpstream
  <2>1. left \in Seq(AllNames) /\ left # <<>> /\ IsInjective(left)
    BY <1>5 DEF StartUpstream, Starts, TypeOK, Started
  <2>2. /\ Tail(left) \in Seq(AllNames) /\ Head(left) \in AllNames
        /\ ToSet(left) = ToSet(Tail(left)) \cup {Head(left)}
        /\ IsInjective(Tail(left)) /\ Head(left) \notin ToSet(Tail(left))
    BY <2>1, Dequeue
  <2>3. IsFiniteSet(table')
    BY <1>5, FS_AddElement DEF StartUpstream
  <2>4. Names(config)' = Names(config)
    BY <1>5 DEF StartUpstream, Names, Content
  <2>5. TypeOK'
    BY <1>5, <2>2 DEF StartUpstream, Starts, TypeOK, Now
  <2>6. Started'
    BY <1>5, <2>2, <2>4 DEF StartUpstream, Starts, Started
  <2>. QED  BY <1>5, <2>3, <2>5, <2>6 DEF StartUpstream, Starts, Now
<1>6. CASE StartFails \/ RestFails
  BY <1>0, <1>6 DEF StartFails, RestFails, Starts, TypeOK, Started, Served, Now
<1>7. CASE StartRest
  <2>1. stage = "starting" /\ table = Names(config) /\ running = Names(config)
    BY <1>7, EmptyQueue DEF StartRest, Started
  <2>2. Names(config)' = Names(config)
    BY <1>7 DEF StartRest, Names, Content
  <2>3. noted' \in 0 .. Now /\ since' = Now
    BY <1>0, <1>7 DEF StartRest, StartWatcher
  <2>. QED  BY <1>0, <1>7, <2>1, <2>2, <2>3 DEF StartRest, StartWatcher, TypeOK, Started, Served, Now
<1>8. CASE Poll \/ StatFails
  <2>1. Names(config)' = Names(config)
    BY <1>8 DEF Poll, StatFails, Watches, Names, Content
  <2>. QED  BY <1>0, <1>8, <2>1 DEF Poll, StatFails, Watching, Watches, TypeOK, Started, Served, Now
<1>9. CASE ReadFile
  <2>1. Names(config)' = Names(config)
    BY <1>9 DEF ReadFile, Watches, Names, Content
  <2>2. watch' \in {"sleeping", "raised", "applying"}
    BY <1>9 DEF ReadFile, Apply, Unreadable
  <2>. QED  BY <1>0, <1>9, <2>1, <2>2 DEF ReadFile, Watching, Watches, TypeOK, Started, Served, Now
<1>10. CASE Applied
  <2>1. got \in 1 .. Now
    BY <1>10 DEF Applied, Watching
  <2>2. Names(got) \subseteq AllNames /\ IsFiniteSet(Names(got))
    BY <1>0, <2>1, NamesInOrder
  <2>3. Names(config)' = Names(got)
    BY <1>10 DEF Applied, Watches, Names, Content
  <2>4. pipeline' \in {"running", pipeline}
    BY <1>10 DEF Applied
  <2>5. Now' = Now
    BY <1>10 DEF Applied, Watches, Now
  <2>6. Read'
    BY <1>10, <2>1, <2>5 DEF Applied, SleepAgain, Watching, Watches
  <2>7. Started'
    BY <1>10, <2>3, <2>4 DEF Applied, SleepAgain, Watching, Watches, Started
  <2>8. lost' \subseteq table'
    <3>1. lost \subseteq Names(config)
      BY <1>10 DEF Applied, Watching, TypeOK, Started, Served
    <3>. QED  BY <1>10, <3>1, Untouched DEF Applied
  <2>9. TypeOK'
    BY <1>10, <2>1, <2>2, <2>4, <2>5, <2>8
       DEF Applied, SleepAgain, Watching, Watches, TypeOK
  <2>10. IsFiniteSet(table')
    BY <1>10, <2>2 DEF Applied
  <2>. QED  BY <2>6, <2>7, <2>9, <2>10
<1>11. CASE RolledBack
  <2>1. Names(config)' = Names(config)
    BY <1>11 DEF RolledBack, Watches, Names, Content
  <2>2. pipeline' \in {pipeline, "stopped"}
    BY <1>11 DEF RolledBack
  <2>3. PICK stopped \in SUBSET (IF Known(got) THEN Touched ELSE {}) :
           \E down \in SUBSET stopped :
              lost' = (lost \ stopped) \cup down /\ running' = (running \cup stopped) \ down
    BY <1>11 DEF RolledBack
  <2>4. PICK down \in SUBSET stopped :
           lost' = (lost \ stopped) \cup down /\ running' = (running \cup stopped) \ down
    BY <2>3
  <2>5. UNCHANGED <<stage, versions, raw, config, plugins, got, left, table>>
        /\ stage \in {"serving", "joining"} /\ watch' = "sleeping" /\ noted' = noted
        /\ UNCHANGED <<since, control, cut>>
    BY <1>11 DEF RolledBack, SleepAgain, Watching, Watches
  <2>6. stopped \subseteq Names(config)
    BY <2>3 DEF Touched, Upstreams, ToSet, Names
  <2>7. table = Names(config) /\ table \subseteq AllNames
    BY <2>5 DEF Started, Served, TypeOK
  <2>8. lost' \subseteq table /\ running' \subseteq AllNames
    BY <2>4, <2>6, <2>7 DEF TypeOK
  <2>9. stage = "serving" => running' = Names(config) \ lost'
    BY <2>4, <2>6 DEF Started
  <2>10. Read'
    BY <2>1, <2>5 DEF Now
  <2>11. Started'
    BY <2>1, <2>2, <2>5, <2>9 DEF Started
  <2>12. TypeOK'
    BY <2>2, <2>5, <2>8 DEF TypeOK, Now
  <2>. QED  BY <2>5, <2>10, <2>11, <2>12
<1>12. CASE StopRaises
  <2>1. Names(config)' = Names(config)
    BY <1>12 DEF StopRaises, Watches, Names, Content
  <2>2. pipeline' = "cancelled"
    BY <1>12 DEF StopRaises
  <2>3. /\ UNCHANGED <<stage, versions, config, got, left, table, running, lost>>
        /\ stage \in {"serving", "joining"} /\ watch' = "over"
    BY <1>12 DEF StopRaises, Watching, Watches
  <2>4. Read' /\ Started'
    BY <2>1, <2>2, <2>3 DEF Started, Now
  <2>5. UNCHANGED <<raw, plugins, noted, since, control, cut>>
    BY <1>12 DEF StopRaises, Watches
  <2>6. TypeOK'
    BY <2>2, <2>3, <2>5 DEF TypeOK, Now
  <2>. QED  BY <2>3, <2>4, <2>6
<1>13. CASE Signal
  <2>1. gate' \in {"open", "closed"} /\ exiting' \in BOOLEAN
    BY <1>13 DEF Signal, TypeOK
  <2>2. UNCHANGED <<stage, versions, booting, transports, pipeline, watcher, since, cut>>
    BY <1>13 DEF Signal
  <2>. QED  BY <2>1, <2>2, UpKept
<1>14. CASE OnShutdown
  <2>1. Names(config)' = Names(config)
    BY <1>14 DEF OnShutdown, Ends, Names, Content
  <2>. QED  BY <1>0, <1>14, <2>1 DEF OnShutdown, Ends, TypeOK, Started, Served, Now
<1>15. CASE Cancelled
  <2>1. running' \subseteq AllNames
    <3>1. CASE watch = "applying"
      <4>1. Names(got) \subseteq AllNames
        BY <1>0, <3>1, NamesInOrder
      <4>. QED  BY <1>15, <4>1 DEF Cancelled, TypeOK
    <3>2. CASE watch # "applying"
      BY <1>15, <3>2 DEF Cancelled, TypeOK
    <3>. QED  BY <3>1, <3>2
  <2>2. pipeline' \in {pipeline, "stopped", "cancelled"} /\ cut' \in BOOLEAN
    BY <1>15 DEF Cancelled
  <2>3. Names(config)' = Names(config)
    BY <1>15 DEF Cancelled, Ends, Names, Content
  <2>. QED  BY <1>0, <1>15, <2>1, <2>2, <2>3 DEF Cancelled, Ends, TypeOK, Started, Served, Now
<1>16. CASE Swallowed
  <2>1. Names(config)' = Names(config)
    BY <1>16 DEF Swallowed, Ends, Names, Content
  <2>. QED  BY <1>0, <1>16, <2>1 DEF Swallowed, Ends, TypeOK, Started, Served, Now
<1>17. CASE JoinWatcher
  <2>1. left' \in Seq(AllNames)
    BY <1>17, AnyOrder DEF JoinWatcher, TypeOK
  <2>. QED  BY <1>0, <1>17, <2>1 DEF JoinWatcher, Ends, TypeOK, Started, Served, Now
<1>18. CASE StopUpstream
  <2>1. Tail(left) \in Seq(AllNames)
    BY <1>18, Dequeue DEF StopUpstream, TypeOK
  <2>. QED  BY <1>0, <1>18, <2>1 DEF StopUpstream, Ends, TypeOK, Started, Served, Now
<1>19. CASE StopFails \/ StopTelemetry
  BY <1>0, <1>19 DEF StopFails, StopTelemetry, Ends, TypeOK, Started, Served, Now
<1>20. CASE UNCHANGED vars
  BY <1>20, UpKept DEF vars, TypeOK
<1>. QED
  BY <1>1, <1>2, <1>3, <1>4, <1>5, <1>6, <1>7, <1>8, <1>9, <1>10, <1>11, <1>12, <1>13,
     <1>14, <1>15, <1>16, <1>17, <1>18, <1>19, <1>20
     DEF Next, Booting, WatchLoop, Closing

LEMMA UpAlways == Spec => []UpInv
  BY UpInit, UpStep, PTL DEF Spec

\* Whoever finds the proxy serving, and no apply() of the watcher at work, finds the
\* table to be the upstreams of its configuration, each of them running unless a
\* rollback has failed to start it again, and the pipeline started, however often
\* the file was edited and whatever else failed (manager.py:19-26, 79-85,
\* server.py:286-296).
THEOREM UpWhenServing == Spec => []ServingMeansUp
<1>1. UpInv => ServingMeansUp
  BY DEF UpInv, Started, Served, ServingMeansUp
<1>. QED  BY <1>1, UpAlways, PTL

\* The stages of the proxy, its tasks and its tables agree (server.py:286-302).
THEOREM StagesAgree == Spec => []Consistent
<1>1. UpInv => TypeOK
  BY DEF UpInv, Typed
<1>2. TypeOK /\ OneWriter => Consistent
  BY DEF Consistent
<1>. QED  BY <1>1, <1>2, UpAlways, OneWriterAtATime, PTL
==============================================================================
