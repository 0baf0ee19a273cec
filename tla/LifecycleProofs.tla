-------------------------- MODULE LifecycleProofs --------------------------
(***************************************************************************)
(* The safety of start-up and shutdown for any number of workers and of    *)
(* console handler threads.                                                *)
(***************************************************************************)
EXTENDS Lifecycle, FiniteSetTheorems, TLAPS

(* What hitsuji_t owns before each step of Initialize.                     *)
Acquired ==
    [winsock |-> {}, timecaps |-> {}, start |-> {}, context |-> {}, request |-> {"context"},
     reply |-> {"context", "request"}, upa |-> Zmq,
     provider |-> Zmq \cup {"upa"}, bind |-> Resources,
     workers |-> Resources, spawn |-> Resources]

(* Initialize acquires in order; the other threads do not exist yet.       *)
Building ==
    main \in DOMAIN Acquired =>
        /\ held = Acquired[main]
        /\ event = "none"
        /\ initialised = IF main = "spawn" THEN "ok" ELSE "no"
        /\ main \notin {"workers", "spawn"} => workers_ = 0
        /\ main = "spawn" => workers_ = WorkerCount
        /\ rssl_refs = IF main \in {"provider", "bind", "workers", "spawn"} THEN 1 ELSE 0

(* The main thread waits for an event thread that has all it needs, or     *)
(* for one that never was.                                                 *)
Waiting ==
    main \in {"running", "wait", "asleep"} =>
        /\ \/ /\ initialised = "ok" /\ event # "none"
              /\ held = Resources /\ workers_ = WorkerCount /\ rssl_refs = 1
           \/ /\ initialised \in {"failed", "skipped"} /\ event = "none"
              /\ held = {} /\ workers_ = 0
              /\ initialised = "skipped" => rssl_refs = 0
        /\ main = "running" => ~build.app

(* Reset runs when there is no event thread, and keeps owners longest.     *)
Releasing ==
    main \in Resetting \cup {"hung", "pumping"} =>
        /\ \/ /\ initialised = "ok" /\ event = "done"
              /\ rssl_refs = 1 /\ "upa" \in held
           \/ initialised = "failed" /\ event = "none"
        /\ "provider" \in held => "upa" \in held
        /\ held \cap {"request", "reply"} # {} \/ workers_ > 0 => "context" \in held
        /\ main \in {"release_provider", "release_upa"} =>
               held \subseteq {"upa", "provider"} /\ workers_ = 0
        /\ main = "release_upa" => "provider" \notin held

Released ==
    main \in {"returned", "exited", "unloaded"} =>
        /\ held = {} /\ workers_ = 0
        /\ rssl_refs = 0 \/ initialised = "failed"
        /\ event = "done" \/ initialised = "failed" \/ ~build.app
        /\ event \in {"none", "done"}

FlagOfEnd == mainloop_shutdown_ <=> event = "done"

Order == TypeOK /\ Building /\ Waiting /\ Releasing /\ Released /\ FlagOfEnd

(* A plugin has no console handler; the application is its main thread's.  *)
HandlersOfApp ==
    /\ ~build.app => ~misuse /\ \A h \in Handlers : handler[h] = "idle"
    /\ alive <=> main # "exited"
    /\ main = "exited" => build.app

(* The loop of an application ends because a handler thread told it to.    *)
SomebodyQuit ==
    build.app /\ ~threw /\ (~keep_running_ \/ event \in {"stopped", "done"}) =>
        \E h \in Handlers : handler[h] = "quit_called"

(* Who found the provider finds it gone only late in a Reset.              *)
FoundProvider ==
    \A h \in Handlers : handler[h] = "found" =>
        "provider" \in held \/ main \in {"release_upa", "returned", "exited", "unloaded"}
            \/ initialised = "failed"

Quits == HandlersOfApp /\ SomebodyQuit /\ FoundProvider /\ FirstQuitIsSafe

-----------------------------------------------------------------------------
(* The initial state: nothing acquired, nobody running.                     *)
LEMMA InitOrder == Init => Order
  <1> SUFFICES ASSUME Init PROVE Order
    OBVIOUS
  <1> USE LifecycleAssumption DEF Init
  <1>1. /\ shutting_down_ \in BOOLEAN /\ mainloop_shutdown_ \in BOOLEAN
        /\ keep_running_ \in BOOLEAN /\ alive \in BOOLEAN /\ winsock \in BOOLEAN
        /\ threw \in BOOLEAN /\ misuse \in BOOLEAN /\ crashed \in BOOLEAN
    OBVIOUS
  <1>2. TypeOK
    BY <1>1 DEF TypeOK
  <1>3. Building /\ Waiting /\ Releasing /\ Released /\ FlagOfEnd
    BY DEF Building, Waiting, Releasing, Released, FlagOfEnd, Acquired, Resetting
  <1>4. QED
    BY <1>2, <1>3 DEF Order

(* What Initialize, the wait and Reset do to the types.                    *)
LEMMA BuildingType ==
    ASSUME TypeOK,
           \/ StartWinsock \/ BeginPeriod \/ StartChecks \/ AcquireZmq \/ AcquireUpa
           \/ AcquireProvider \/ BindProvider \/ StartWorker \/ SpawnEventThread
    PROVE  TypeOK'
  <1> USE LifecycleAssumption DEF TypeOK, resources, flags, platform, outcome, Resources, Zmq, Acquiring, Resetting, NextStage, Started
  <1>1. CASE StartWinsock
    BY <1>1 DEF StartWinsock
  <1>2. CASE BeginPeriod
    BY <1>2 DEF BeginPeriod
  <1>3. CASE StartChecks
    BY <1>3 DEF StartChecks
  <1>4. CASE AcquireZmq
    <2>1. held' \subseteq Resources
      BY <1>4 DEF AcquireZmq
    <2>2. main' \in Acquiring \cup {"reset"} /\ initialised' \in {initialised, "failed"}
      BY <1>4 DEF AcquireZmq
    <2>3. UNCHANGED <<build, event, handler, workers_, rssl_refs, flags, alive, platform,
                     threw, misuse, crashed>>
      BY <1>4 DEF AcquireZmq
    <2>4. QED
      BY <2>1, <2>2, <2>3
  <1>5. CASE AcquireUpa
    BY <1>5 DEF AcquireUpa
  <1>6. CASE AcquireProvider
    BY <1>6 DEF AcquireProvider
  <1>7. CASE BindProvider
    BY <1>7 DEF BindProvider
  <1>8. CASE StartWorker
    <2>1. workers_' \in 0..WorkerCount
      BY <1>8 DEF StartWorker
    <2>2. main' \in {main, "reset", "spawn"} /\ initialised' \in {initialised, "failed", "ok"}
      BY <1>8 DEF StartWorker
    <2>3. UNCHANGED <<build, event, handler, held, rssl_refs, flags, alive, platform,
                     threw, misuse, crashed>>
      BY <1>8 DEF StartWorker
    <2>4. QED
      BY <2>1, <2>2, <2>3
  <1>9. CASE SpawnEventThread
    BY <1>9 DEF SpawnEventThread
  <1>10. QED
    BY <1>1, <1>2, <1>3, <1>4, <1>5, <1>6, <1>7, <1>8, <1>9

(* The same of the wait, of Reset and of the end of the process.           *)
LEMMA ReleasingType ==
    ASSUME TypeOK,
           \/ Wait \/ Stop \/ ResetWorkers \/ ReleaseZmq \/ ReleaseProvider
           \/ ReleaseUpa \/ MainReturns \/ Unload
    PROVE  TypeOK'
  <1> USE LifecycleAssumption DEF TypeOK, resources, flags, platform, outcome, Resources, Zmq, Acquiring, Resetting, Started
  <1>1. CASE Wait
    BY <1>1 DEF Wait
  <1>2. CASE Stop
    <2>1. /\ shutting_down_' \in BOOLEAN /\ keep_running_' \in BOOLEAN
          /\ main' \in {"wait", "returned"}
      BY <1>2 DEF Stop
    <2>2. UNCHANGED <<build, event, handler, resources, mainloop_shutdown_, alive, platform,
                     outcome>>
      BY <1>2 DEF Stop
    <2>3. QED
      BY <2>1, <2>2
  <1>3. CASE ResetWorkers
    BY <1>3 DEF ResetWorkers
  <1>4. CASE ReleaseZmq
    <2>1. /\ held' \subseteq Resources /\ crashed' \in BOOLEAN
          /\ main' \in {main, "release_provider"}
      BY <1>4 DEF ReleaseZmq
    <2>2. UNCHANGED <<build, event, handler, workers_, rssl_refs, flags, alive, platform,
                     initialised, threw, misuse>>
      BY <1>4 DEF ReleaseZmq
    <2>3. QED
      BY <2>1, <2>2
  <1>5. CASE ReleaseProvider
    <2>1. held' \subseteq Resources /\ main' \in {"release_upa", "pumping"}
      BY <1>5 DEF ReleaseProvider
    <2>2. UNCHANGED <<build, event, handler, workers_, rssl_refs, flags, alive, platform,
                     outcome>>
      BY <1>5 DEF ReleaseProvider
    <2>3. QED
      BY <2>1, <2>2
  <1>6. CASE ReleaseUpa
    <2>1. held \cap {"upa"} = {} \/ held \cap {"upa"} = {"upa"}
      OBVIOUS
    <2>2. Cardinality(held \cap {"upa"}) \in {0, 1}
      BY <2>1, FS_EmptySet, FS_Singleton
    <2>3. QED
      BY <1>6, <2>2 DEF ReleaseUpa
  <1>7. CASE MainReturns
    <2>1. alive' = FALSE /\ wTimerRes' = 0 /\ main' = "exited"
      BY <1>7 DEF MainReturns
    <2>2. alive' \in BOOLEAN
      BY <2>1
    <2>3. UNCHANGED <<build, event, handler, resources, flags, winsock, outcome>>
      BY <1>7 DEF MainReturns
    <2>4. QED
      BY <2>1, <2>3, <2>2
  <1>8. CASE Unload
    <2>1. winsock' = FALSE /\ wTimerRes' = 0 /\ main' = "unloaded"
      BY <1>8 DEF Unload
    <2>2. winsock' \in BOOLEAN
      BY <2>1
    <2>3. UNCHANGED <<build, event, handler, resources, flags, alive, outcome>>
      BY <1>8 DEF Unload
    <2>4. QED
      BY <2>1, <2>3, <2>2
  <1>9. QED
    BY <1>1, <1>2, <1>3, <1>4, <1>5, <1>6, <1>7, <1>8

(* Every step of the main thread keeps the order of acquisition and release. *)
LEMMA MainOrder == Order /\ Main => Order'
  <1> SUFFICES ASSUME Order, Main
               PROVE  Building' /\ Waiting' /\ Releasing' /\ Released' /\ FlagOfEnd'
    BY BuildingType, ReleasingType DEF Order, Main
  <1> USE LifecycleAssumption DEF Order, TypeOK, Building, Waiting, Releasing, Released, FlagOfEnd, resources, flags, platform, outcome, Acquired, Zmq, Resources, Acquiring, Resetting, NextStage, Started
  <1>1. CASE StartChecks
    <2>1. Building'
      <3>1. CASE shutting_down_
        BY <1>1, <3>1 DEF StartChecks
      <3>2. CASE ~shutting_down_
        <4>1. main' = "context" /\ UNCHANGED <<held, event, initialised, workers_, rssl_refs>>
          BY <1>1, <3>2 DEF StartChecks
        <4>2. main = "start" /\ held = {}
          BY <1>1 DEF StartChecks
        <4>3. QED
          BY <4>1, <4>2
      <3>3. QED
        BY <3>1, <3>2
    <2>2. Waiting'
      BY <1>1 DEF StartChecks
    <2>3. Releasing'
      BY <1>1 DEF StartChecks
    <2>4. Released'
      BY <1>1 DEF StartChecks
    <2>5. FlagOfEnd'
      BY <1>1 DEF StartChecks
    <2>6. QED
      BY <2>1, <2>2, <2>3, <2>4, <2>5
  <1>2. CASE AcquireZmq
    <2>1. /\ main \in Zmq /\ held = Acquired[main]
          /\ UNCHANGED <<event, workers_, rssl_refs>>
      BY <1>2 DEF AcquireZmq
    <2>2. Building'
      <3>1. CASE main' = "reset"
        BY <3>1
      <3>2. CASE held' = held \cup {main} /\ main' = NextStage[main] /\ UNCHANGED initialised
        <4>1. held' = Acquired[main'] /\ main' \in {"request", "reply", "upa"}
          BY <2>1, <3>2
        <4>2. QED
          BY <2>1, <3>2, <4>1
      <3>3. QED
        BY <1>2, <3>1, <3>2 DEF AcquireZmq
    <2>3. Waiting' /\ Released' /\ FlagOfEnd'
      BY <1>2 DEF AcquireZmq
    <2>4. Releasing'
      BY <1>2 DEF AcquireZmq
    <2>5. QED
      BY <2>2, <2>3, <2>4
  <1>3. CASE AcquireUpa
    <2>1. Building'
      BY <1>3 DEF AcquireUpa
    <2>2. Waiting' /\ Released' /\ FlagOfEnd'
      BY <1>3 DEF AcquireUpa
    <2>3. Releasing'
      BY <1>3 DEF AcquireUpa
    <2>4. QED
      BY <2>1, <2>2, <2>3
  <1>4. CASE AcquireProvider
    BY <1>4 DEF AcquireProvider
  <1>5. CASE BindProvider
    <2>1. Building'
      BY <1>5 DEF BindProvider
    <2>2. Waiting' /\ Released' /\ FlagOfEnd'
      BY <1>5 DEF BindProvider
    <2>3. Releasing'
      BY <1>5 DEF BindProvider
    <2>4. QED
      BY <2>1, <2>2, <2>3
  <1>6. CASE StartWorker
    <2>1. Building'
      <3>1. /\ main = "workers" /\ held = Resources /\ event = "none"
            /\ initialised = "no" /\ rssl_refs = 1
            /\ UNCHANGED <<held, event, rssl_refs>>
        BY <1>6 DEF StartWorker
      <3>2. CASE main' = "workers" /\ initialised' = initialised
        BY <3>1, <3>2
      <3>3. CASE main' = "reset"
        BY <3>3
      <3>4. CASE main' = "spawn" /\ initialised' = "ok" /\ workers_' = WorkerCount
        BY <3>1, <3>4
      <3>5. QED
        BY <3>1, <3>2, <3>3, <3>4, <1>6 DEF StartWorker
    <2>2. Waiting'
      BY <1>6 DEF StartWorker
    <2>3. Releasing'
      BY <1>6 DEF StartWorker
    <2>4. Released'
      BY <1>6 DEF StartWorker
    <2>5. FlagOfEnd'
      BY <1>6 DEF StartWorker
    <2>6. QED
      BY <2>1, <2>2, <2>3, <2>4, <2>5
  <1>7. CASE SpawnEventThread
    BY <1>7 DEF SpawnEventThread
  <1>8. CASE Wait
    BY <1>8 DEF Wait
  <1>9. CASE Stop
    <2>1. Building'
      BY <1>9 DEF Stop
    <2>2. Waiting'
      BY <1>9 DEF Stop
    <2>3. Releasing'
      BY <1>9 DEF Stop
    <2>4. Released'
      <3>1. CASE "provider" \in held
        <4>1. main' = "wait"
          BY <1>9, <3>1 DEF Stop
        <4>2. QED
          BY <4>1
      <3>2. CASE "provider" \notin held
        <4>1. /\ main = "running" /\ main' = "returned"
              /\ UNCHANGED <<held, event, initialised, workers_, rssl_refs, build>>
          BY <1>9, <3>2 DEF Stop
        <4>2. /\ held = {} /\ workers_ = 0 /\ event = "none" /\ ~build.app
              /\ rssl_refs = 0 \/ initialised = "failed"
          BY <3>2, <4>1
        <4>3. QED
          BY <4>1, <4>2
      <3>3. QED
        BY <3>1, <3>2
    <2>5. FlagOfEnd'
      BY <1>9 DEF Stop
    <2>6. QED
      BY <2>1, <2>2, <2>3, <2>4, <2>5
  <1>10. CASE ResetWorkers
    BY <1>10 DEF ResetWorkers
  <1>11. CASE ReleaseZmq
    <2>1. Building'
      BY <1>11 DEF ReleaseZmq
    <2>2. Waiting'
      BY <1>11 DEF ReleaseZmq
    <2>3. Releasing'
      <3>1. /\ main = "release_zmq"
            /\ UNCHANGED <<event, initialised, workers_, rssl_refs>>
        BY <1>11 DEF ReleaseZmq
      <3>2. CASE workers_ = 0
        <4>1. main' = "release_provider" /\ held' = held \ Zmq
          BY <1>11, <3>2 DEF ReleaseZmq
        <4>2. /\ held' \subseteq {"upa", "provider"} /\ held' \cap {"request", "reply"} = {}
              /\ "upa" \in held' <=> "upa" \in held
              /\ "provider" \in held' <=> "provider" \in held
          BY <4>1
        <4>3. QED
          BY <3>1, <3>2, <4>1, <4>2
      <3>3. CASE workers_ # 0
        <4>1. main' = main /\ held' = held \ {"request", "reply"}
          BY <1>11, <3>3 DEF ReleaseZmq
        <4>2. workers_ > 0 /\ "context" \in held
          BY <3>1, <3>3
        <4>3. /\ "context" \in held'
              /\ "upa" \in held' <=> "upa" \in held
              /\ "provider" \in held' <=> "provider" \in held
          BY <4>1, <4>2
        <4>4. QED
          BY <3>1, <4>1, <4>3
      <3>4. QED
        BY <3>2, <3>3
    <2>4. Released'
      BY <1>11 DEF ReleaseZmq
    <2>5. FlagOfEnd'
      BY <1>11 DEF ReleaseZmq
    <2>6. QED
      BY <2>1, <2>2, <2>3, <2>4, <2>5
  <1>12. CASE ReleaseProvider
    BY <1>12 DEF ReleaseProvider
  <1>13. CASE ReleaseUpa
    <2>1. Building'
      BY <1>13 DEF ReleaseUpa
    <2>2. Waiting'
      BY <1>13 DEF ReleaseUpa
    <2>3. Releasing'
      BY <1>13 DEF ReleaseUpa
    <2>4. Released'
      <3>1. /\ main = "release_upa" /\ held' = held \ {"upa"}
            /\ rssl_refs' = rssl_refs - Cardinality(held \cap {"upa"})
            /\ UNCHANGED <<event, initialised, workers_, build>>
        BY <1>13 DEF ReleaseUpa
      <3>2. held' = {} /\ workers_' = 0
        BY <3>1
      <3>3. CASE initialised = "ok"
        <4>1. held \cap {"upa"} = {"upa"} /\ rssl_refs = 1 /\ event = "done"
          BY <3>1, <3>3
        <4>2. Cardinality({"upa"}) = 1
          BY FS_Singleton
        <4>3. QED
          BY <3>1, <3>2, <4>1, <4>2
      <3>4. CASE initialised = "failed" /\ event = "none"
        BY <3>1, <3>2, <3>4
      <3>5. QED
        BY <3>1, <3>3, <3>4
    <2>5. FlagOfEnd'
      BY <1>13 DEF ReleaseUpa
    <2>6. QED
      BY <2>1, <2>2, <2>3, <2>4, <2>5
  <1>14. CASE MainReturns
    <2>1. /\ build.app /\ main = "returned" /\ main' = "exited" /\ alive' = FALSE
          /\ UNCHANGED <<build, event, handler, held, workers_, rssl_refs, shutting_down_,
                         mainloop_shutdown_, keep_running_, initialised, threw, misuse,
                         crashed>>
      BY <1>14 DEF MainReturns
    <2>2. Building' /\ Waiting' /\ Releasing'
      BY <2>1
    <2>3. Released'
      BY <2>1
    <2>4. FlagOfEnd'
      BY <2>1
    <2>5. QED
      BY <2>2, <2>3, <2>4
  <1>15. CASE StartWinsock
    BY <1>15 DEF StartWinsock
  <1>16. CASE BeginPeriod
    BY <1>16 DEF BeginPeriod
  <1>17. CASE Unload
    BY <1>17 DEF Unload
  <1>18. QED
    BY <1>1, <1>2, <1>3, <1>4, <1>5, <1>6, <1>7, <1>8, <1>9, <1>10, <1>11, <1>12, <1>13, <1>14, <1>15, <1>16, <1>17 DEF Main

(* The event thread runs while the main thread waits, with all it needs.   *)
LEMMA EventOrder == Order /\ (EventThread \/ RunThrows \/ SendBlocks \/ SpuriousWake) => Order'
  <1> SUFFICES ASSUME Order, EventThread \/ RunThrows \/ SendBlocks \/ SpuriousWake PROVE Order'
    OBVIOUS
  <1> USE LifecycleAssumption DEF Order, TypeOK, Building, Waiting, Releasing, Released, FlagOfEnd, resources, flags, platform, outcome, Acquired, Zmq, Resources, Acquiring, Resetting
  <1>1. CASE EnterRun
    <2>1. /\ event = "spawned" /\ event' \in {"spawned", "running"} /\ crashed' \in BOOLEAN
          /\ UNCHANGED <<build, main, handler, resources, flags, alive, platform, initialised,
                         threw, misuse>>
      BY <1>1 DEF EnterRun
    <2>2. QED
      BY <2>1
  <1>2. CASE LeaveRun
    BY <1>2 DEF LeaveRun
  <1>3. CASE MainLoopEnds
    BY <1>3 DEF MainLoopEnds
  <1>4. CASE RunThrows
    BY <1>4 DEF RunThrows
  <1>5. CASE SpuriousWake
    BY <1>5 DEF SpuriousWake
  <1>6. CASE SendBlocks
    BY <1>6 DEF SendBlocks
  <1>7. QED
    BY <1>1, <1>2, <1>3, <1>4, <1>5, <1>6 DEF EventThread

(* A handler thread changes flags only.                                    *)
LEMMA HandlerOrder ==
  ASSUME NEW h \in Handlers, Order, CtrlHandler(h) \/ Handler(h)
  PROVE  Order'
  <1>1. /\ UNCHANGED <<build, main, event, held, workers_, rssl_refs, mainloop_shutdown_,
                       alive, platform, initialised, threw>>
        /\ shutting_down_' \in BOOLEAN /\ keep_running_' \in BOOLEAN
        /\ misuse' \in BOOLEAN /\ crashed' \in BOOLEAN
    BY DEF CtrlHandler, Handler, LockApplication, QuitSetsFlag, QuitTestsProvider,
           QuitCallsProvider, Order, TypeOK, resources, flags, platform, outcome
  <1>2. handler' \in [Handlers -> {"idle", "checked", "quit", "flagged", "found",
                                  "quit_called", "missed"}]
    BY DEF CtrlHandler, Handler, LockApplication, QuitSetsFlag, QuitTestsProvider,
           QuitCallsProvider, Order, TypeOK
  <1>3. TypeOK'
    BY <1>1, <1>2 DEF Order, TypeOK, platform
  <1>4. Building' /\ Waiting' /\ Releasing' /\ Released' /\ FlagOfEnd'
    BY <1>1 DEF Order, Building, Waiting, Releasing, Released, FlagOfEnd
  <1>5. QED
    BY <1>3, <1>4 DEF Order

(* Every step of the program keeps the order.                              *)
LEMMA NextOrder == Order /\ [Next]_vars => Order'
  <1> SUFFICES ASSUME Order, [Next]_vars PROVE Order'
    OBVIOUS
  <1>1. CASE Main
    BY <1>1, MainOrder
  <1>2. CASE EventThread \/ RunThrows \/ SendBlocks \/ SpuriousWake
    BY <1>2, EventOrder
  <1>3. ASSUME NEW h \in Handlers, CtrlHandler(h) \/ Handler(h) PROVE Order'
    BY <1>3, HandlerOrder
  <1>4. CASE UNCHANGED vars
    BY <1>4 DEF vars, resources, flags, platform, outcome, Order, TypeOK, Building, Waiting,
                Releasing, Released, FlagOfEnd, Started
  <1>5. QED
    BY <1>1, <1>2, <1>3, <1>4 DEF Next

(* The order of acquisition and release holds throughout.                  *)
THEOREM OrderInvariant == Spec => []Order
  BY InitOrder, NextOrder, PTL DEF Spec

(* The variables of the start-up keep their types.                         *)
THEOREM LifecycleTypeCorrect == Spec => []TypeOK
  BY OrderInvariant, PTL DEF Order

(* No object outlives one it was built from, and the event thread finds    *)
(* all of them: hitsuji_t::Initialize and Reset, for any number of workers *)
(* and whatever fails.                                                     *)
THEOREM OwnersOutlive == Spec => []NothingOutlivesItsOwner
  <1>1. Order => NothingOutlivesItsOwner
    BY LifecycleAssumption DEF Order, NothingOutlivesItsOwner, TypeOK, Building, Waiting, Releasing, Released, FlagOfEnd, resources, flags, platform, outcome, Acquired, Zmq, Resources, Acquiring, Resetting
  <1>2. QED
    BY <1>1, OrderInvariant, PTL

(* The program has no use for WinSock, and nobody holds either at the end. *)
PlatformHeld ==
    /\ build.app => ~winsock /\ main \notin {"winsock", "unloaded"}
    /\ main \in {"exited", "unloaded"} => wTimerRes = 0 /\ ~winsock

(* Only the first and the last steps of the process touch the platform.    *)
LEMMA PlatformInvariant == Spec => []PlatformHeld
  <1>1. Init => PlatformHeld
    BY DEF Init, PlatformHeld
  <1>2. PlatformHeld /\ [Next]_vars => PlatformHeld'
    <2> SUFFICES ASSUME PlatformHeld, [Next]_vars PROVE PlatformHeld'
      OBVIOUS
    <2> USE DEF PlatformHeld
    <2>1. CASE StartWinsock
      BY <2>1 DEF StartWinsock
    <2>2. CASE BeginPeriod
      BY <2>2 DEF BeginPeriod, platform
    <2>3. CASE MainReturns
      BY <2>3 DEF MainReturns
    <2>4. CASE Unload
      BY <2>4 DEF Unload
    <2>5. CASE Main /\ ~StartWinsock /\ ~BeginPeriod /\ ~MainReturns /\ ~Unload
      <3>1. /\ UNCHANGED <<build, platform>>
            /\ main' \notin {"winsock", "exited", "unloaded"}
        BY <2>5 DEF Main, StartChecks, AcquireZmq, AcquireUpa, AcquireProvider, BindProvider, StartWorker, SpawnEventThread, Wait, Stop, ResetWorkers, ReleaseZmq, ReleaseProvider, ReleaseUpa, NextStage, Started, Zmq
      <3>2. QED
        BY <3>1 DEF platform
    <2>6. CASE SpuriousWake \/ EventThread \/ RunThrows \/ SendBlocks \/ UNCHANGED vars
      <3>1. UNCHANGED <<build, platform>> /\ main' \in {main, "wait"}
        BY <2>6 DEF SpuriousWake, EventThread, EnterRun, LeaveRun, MainLoopEnds, RunThrows, SendBlocks, vars
      <3>2. QED
        BY <3>1 DEF platform
    <2>7. ASSUME NEW h \in Handlers, CtrlHandler(h) \/ Handler(h)
          PROVE  PlatformHeld'
      <3>1. UNCHANGED <<build, platform, main>>
        BY <2>7 DEF CtrlHandler, Handler, LockApplication, QuitSetsFlag, QuitTestsProvider,
                    QuitCallsProvider
      <3>2. QED
        BY <3>1 DEF platform
    <2>8. QED
      BY <2>1, <2>2, <2>3, <2>4, <2>5, <2>6, <2>7 DEF Next
  <1>3. QED
    BY <1>1, <1>2, PTL DEF Spec

(* Run and Stop return with everything released, and rsslUninitialize      *)
(* called as often as rsslInitialize.                                      *)
THEOREM EverythingReleased == Spec => []ReturnsReleased
  <1>1. Order /\ PlatformHeld => ReturnsReleased
    BY DEF Order, Released, PlatformHeld, ReturnsReleased
  <1>2. QED
    BY <1>1, OrderInvariant, PlatformInvariant, PTL

-----------------------------------------------------------------------------
Late == {"release_upa", "returned", "exited", "unloaded"}

(* What the main thread does to the state a handler thread looks at.       *)
MainStep ==
    /\ UNCHANGED <<build, handler, threw, misuse>>
    /\ initialised = "failed" => initialised' = "failed"
    /\ ~build.app \/ keep_running_' = keep_running_ \/ keep_running_' = TRUE
    /\ event' = event \/ event' = "spawned"
    /\ main' = "exited" => build.app
    /\ "provider" \in held => "provider" \in held' \/ main' = "release_upa"
    /\ main \in Late => main' \in Late \/ initialised = "failed"

(* The main thread changes what a handler thread looks at only so.         *)
LEMMA MainSteps == Order /\ HandlersOfApp /\ Main => MainStep
  <1> SUFFICES ASSUME Order, HandlersOfApp, Main PROVE MainStep
    OBVIOUS
  <1> USE DEF MainStep, Late, HandlersOfApp, Order, TypeOK, Building, Waiting, Releasing, Released, FlagOfEnd, resources, flags, platform, outcome, Acquired, Zmq, Resources, Acquiring, Resetting, NextStage, Started
  <1>1. CASE StartChecks
    BY <1>1 DEF StartChecks
  <1>2. CASE AcquireZmq
    BY <1>2 DEF AcquireZmq
  <1>3. CASE AcquireUpa
    BY <1>3 DEF AcquireUpa
  <1>4. CASE AcquireProvider
    BY <1>4 DEF AcquireProvider
  <1>5. CASE BindProvider
    BY <1>5 DEF BindProvider
  <1>6. CASE StartWorker
    BY <1>6 DEF StartWorker
  <1>7. CASE SpawnEventThread
    BY <1>7 DEF SpawnEventThread
  <1>8. CASE Wait
    BY <1>8 DEF Wait
  <1>9. CASE Stop
    BY <1>9 DEF Stop
  <1>10. CASE ResetWorkers
    BY <1>10 DEF ResetWorkers
  <1>11. CASE ReleaseZmq
    BY <1>11 DEF ReleaseZmq
  <1>12. CASE ReleaseProvider
    BY <1>12 DEF ReleaseProvider
  <1>13. CASE ReleaseUpa
    BY <1>13 DEF ReleaseUpa
  <1>14. CASE MainReturns
    BY <1>14 DEF MainReturns
  <1>15. CASE StartWinsock
    BY <1>15 DEF StartWinsock
  <1>16. CASE BeginPeriod
    BY <1>16 DEF BeginPeriod
  <1>17. CASE Unload
    BY <1>17 DEF Unload
  <1>18. QED
    BY <1>1, <1>2, <1>3, <1>4, <1>5, <1>6, <1>7, <1>8, <1>9, <1>10, <1>11, <1>12, <1>13, <1>14, <1>15, <1>16, <1>17 DEF Main

(* The application is dropped in the step that exits.                      *)
LEMMA MainAlive == Order /\ HandlersOfApp /\ Main => (alive' <=> main' # "exited")
  <1> SUFFICES ASSUME Order, HandlersOfApp, Main PROVE alive' <=> main' # "exited"
    OBVIOUS
  <1>1. CASE MainReturns
    BY <1>1 DEF MainReturns
  <1>2. CASE ~MainReturns
    <2>1. main # "exited" /\ main' # "exited" /\ alive' = alive
      BY <1>2 DEF Main, StartWinsock, BeginPeriod, Unload, StartChecks, AcquireZmq, AcquireUpa, AcquireProvider, BindProvider, StartWorker, SpawnEventThread, Wait, Stop, ResetWorkers, ReleaseZmq, ReleaseProvider, ReleaseUpa, NextStage, Started, flags, platform, outcome, Zmq
    <2>2. QED
      BY <2>1 DEF HandlersOfApp
  <1>3. QED
    BY <1>1, <1>2

(* Nobody has asked to stop in the initial state.                          *)
LEMMA InitQuits == Init => Quits
  BY DEF Init, Quits, HandlersOfApp, SomebodyQuit, FoundProvider, FirstQuitIsSafe

(* The main thread's steps lead no first Quit into a destroyed object.     *)
LEMMA MainQuits == Order /\ Quits /\ Main => Quits'
  <1> SUFFICES ASSUME Order, Quits, Main PROVE Quits'
    OBVIOUS
  <1>1. MainStep /\ (alive' <=> main' # "exited")
    BY MainSteps, MainAlive DEF Quits
  <1>2. HandlersOfApp'
    BY <1>1 DEF MainStep, Quits, HandlersOfApp
  <1>3. SomebodyQuit'
    BY <1>1 DEF MainStep, Quits, SomebodyQuit
  <1>4. FoundProvider'
    BY <1>1 DEF MainStep, Late, Quits, FoundProvider
  <1>5. FirstQuitIsSafe'
    BY <1>1 DEF MainStep, Quits, FirstQuitIsSafe
  <1>6. QED
    BY <1>2, <1>3, <1>4, <1>5 DEF Quits

(* The event loop ends when it was told to, or throws.                     *)
LEMMA EventQuits == Order /\ Quits /\ (EventThread \/ RunThrows \/ SendBlocks \/ SpuriousWake) => Quits'
  <1> SUFFICES ASSUME Order, Quits, EventThread \/ RunThrows \/ SendBlocks \/ SpuriousWake PROVE Quits'
    OBVIOUS
  <1> USE DEF EventThread, EnterRun, LeaveRun, MainLoopEnds, RunThrows, SendBlocks, SpuriousWake,
              resources, flags, platform, outcome
  <1>1. /\ UNCHANGED <<build, handler, held, alive, platform, initialised, misuse>>
        /\ main' = main \/ (main = "asleep" /\ main' = "wait")
        /\ threw' = threw \/ threw' = TRUE
    OBVIOUS
  <1>2. \/ threw' = TRUE
        \/ keep_running_' = keep_running_ /\ (event' = event \/ event' \in {"running", "blocked"}
              \/ event = "stopped")
        \/ ~keep_running_ /\ keep_running_' = TRUE
    OBVIOUS
  <1>3. HandlersOfApp'
    BY <1>1 DEF Quits, HandlersOfApp
  <1>4. SomebodyQuit'
    BY <1>1, <1>2 DEF Quits, SomebodyQuit
  <1>5. FoundProvider'
    BY <1>1 DEF Quits, FoundProvider
  <1>6. FirstQuitIsSafe'
    BY <1>1 DEF Quits, FirstQuitIsSafe
  <1>7. QED
    BY <1>3, <1>4, <1>5, <1>6 DEF Quits

(* When the provider or the application is gone, somebody else has quit.   *)
LEMMA GoneAfterQuit ==
  ASSUME Order, Quits, NEW h \in Handlers, handler[h] \in {"checked", "found"},
         main \in Late, ~threw, initialised # "failed"
  PROVE  \E g \in Handlers : g # h /\ handler[g] # "idle"
  <1>1. build.app
    BY DEF Quits, HandlersOfApp
  <1>2. event = "done"
    <2>1. CASE main = "release_upa"
      BY <2>1 DEF Order, Releasing, Resetting
    <2>2. CASE main \in {"returned", "exited", "unloaded"}
      BY <2>2, <1>1 DEF Order, Released
    <2>3. QED
      BY <2>1, <2>2 DEF Late
  <1>3. PICK g \in Handlers : handler[g] = "quit_called"
    BY <1>1, <1>2 DEF Quits, SomebodyQuit
  <1>4. QED
    BY <1>3

(* A step of a handler thread: only one that comes late meets what is gone. *)
LEMMA HandlerQuits ==
  ASSUME Order, Quits, NEW h \in Handlers, CtrlHandler(h) \/ Handler(h)
  PROVE  Quits'
  <1> USE DEF resources, flags, platform, outcome
  <1>1. DOMAIN handler = Handlers
    BY DEF Order, TypeOK
  <1>2. /\ UNCHANGED <<build, main, event, held, alive, platform, initialised, threw>>
        /\ handler[h] # "quit_called"
        /\ \A g \in Handlers : g # h => handler'[g] = handler[g]
        /\ handler[h] # "idle" => handler'[h] # "idle"
    BY <1>1 DEF CtrlHandler, Handler, LockApplication, QuitSetsFlag, QuitTestsProvider,
                QuitCallsProvider
  <1>3. build.app
    BY DEF CtrlHandler, Handler, LockApplication, QuitSetsFlag, QuitTestsProvider,
           QuitCallsProvider, Quits, HandlersOfApp
  <1>4. HandlersOfApp'
    BY <1>2, <1>3 DEF Quits, HandlersOfApp
  <1>5. keep_running_' = keep_running_ \/ handler'[h] = "quit_called"
    BY <1>1 DEF CtrlHandler, Handler, LockApplication, QuitSetsFlag, QuitTestsProvider,
                QuitCallsProvider
  <1>6. SomebodyQuit'
    BY <1>2, <1>5 DEF Quits, SomebodyQuit
  <1>7. handler'[h] = "found" => handler[h] = "found" \/ "provider" \in held
    BY <1>1 DEF CtrlHandler, Handler, LockApplication, QuitSetsFlag, QuitTestsProvider,
                QuitCallsProvider
  <1>8. FoundProvider'
    BY <1>2, <1>7 DEF Quits, FoundProvider
  <1>9. misuse' = misuse \/ (handler[h] \in {"checked", "found"}
                             /\ (main \in Late \/ initialised = "failed"))
    <2>1. CASE LockApplication(h)
      BY <2>1 DEF LockApplication, AppAlive, Quits, HandlersOfApp, Late
    <2>2. CASE QuitCallsProvider(h)
      BY <2>2 DEF QuitCallsProvider, Quits, FoundProvider, Late
    <2>3. CASE CtrlHandler(h) \/ QuitSetsFlag(h) \/ QuitTestsProvider(h)
      BY <2>3 DEF CtrlHandler, QuitSetsFlag, QuitTestsProvider
    <2>4. QED
      BY <2>1, <2>2, <2>3 DEF Handler
  <1>10. FirstQuitIsSafe'
    <2>1. CASE misuse' = misuse
      BY <1>2, <2>1 DEF Quits, FirstQuitIsSafe
    <2>2. CASE initialised = "failed" \/ threw
      BY <1>2, <2>2 DEF FirstQuitIsSafe
    <2>3. CASE /\ handler[h] \in {"checked", "found"} /\ main \in Late
               /\ initialised # "failed" /\ ~threw
      <3>1. PICK g \in Handlers : g # h /\ handler[g] # "idle"
        BY <2>3, GoneAfterQuit
      <3>2. handler'[g] # "idle" /\ handler'[h] # "idle"
        BY <3>1, <1>2, <2>3
      <3>3. QED
        BY <3>1, <3>2 DEF FirstQuitIsSafe
    <2>4. QED
      BY <1>9, <2>1, <2>2, <2>3
  <1>11. QED
    BY <1>4, <1>6, <1>8, <1>10 DEF Quits

(* Every step of the program keeps the facts about who has quit.           *)
LEMMA NextQuits == Order /\ Quits /\ [Next]_vars => Quits'
  <1> SUFFICES ASSUME Order, Quits, [Next]_vars PROVE Quits'
    OBVIOUS
  <1>1. CASE Main
    BY <1>1, MainQuits
  <1>2. CASE EventThread \/ RunThrows \/ SendBlocks \/ SpuriousWake
    BY <1>2, EventQuits
  <1>3. ASSUME NEW h \in Handlers, CtrlHandler(h) \/ Handler(h) PROVE Quits'
    BY <1>3, HandlerQuits
  <1>4. CASE UNCHANGED vars
    BY <1>4 DEF vars, resources, flags, platform, outcome, Quits, HandlersOfApp, SomebodyQuit,
                FoundProvider, FirstQuitIsSafe
  <1>5. QED
    BY <1>1, <1>2, <1>3, <1>4 DEF Next

(* The first request to stop meets no destroyed object: Quit, CtrlHandler  *)
(* and Reset, for any number of console handler threads.                   *)
THEOREM FirstQuitSafe == Spec => []FirstQuitIsSafe
  <1>1. Quits => FirstQuitIsSafe
    BY DEF Quits
  <1>2. QED
    BY <1>1, OrderInvariant, InitQuits, NextQuits, PTL DEF Spec
=============================================================================
