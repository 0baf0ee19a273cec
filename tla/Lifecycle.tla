----------------------------- MODULE Lifecycle -----------------------------
(***************************************************************************)
(* Start-up and shutdown of a hitsuji_t: the main thread initialises its   *)
(* resources in order, spawns the event thread, waits for it to stop and   *)
(* releases the resources in reverse order; a failed initialisation        *)
(* releases what it had acquired.  Built as an application, the process is *)
(* asked to stop by console handler threads, which call Quit at any time;  *)
(* built as a plugin, the thread that called init later calls Stop.        *)
(*                                                                         *)
(* The event loop is reduced to whether it runs (Provider models what it   *)
(* does) and a worker to the reference its worker_t has on the ZeroMQ      *)
(* context (WorkerPool models how an abort message reaches it).            *)
(***************************************************************************)
EXTENDS Integers, FiniteSets

CONSTANTS Handlers,      \* console handler threads of the application
          WorkerCount    \* config_t::worker_count

ASSUME LifecycleAssumption == WorkerCount \in Nat \ {0}

VARIABLES
    build,              \* "app" or "plugin", and whether DCHECK is compiled in
    main,               \* where the main thread is
    event,              \* where event_thread_ is
    handler,            \* per console handler thread, where it is in Quit
    held,               \* the resources hitsuji_t has a pointer to
    workers_,           \* worker_t objects, each holding zmq_context_
    shutting_down_,
    mainloop_shutdown_,
    keep_running_,      \* the flag of provider_t
    winsock,            \* WinSock is initialised for the plugin
    wTimerRes,          \* the timer period begun, 0 if none
    alive,              \* the shared pointer of main() owns the application
    rssl_refs,          \* calls of rsslInitialize less rsslUninitialize
    initialised,        \* "no", "ok", "failed" or "skipped"
    threw,              \* provider_t::Run ended in an exception
    misuse,             \* a handler thread called into a destroyed object
    crashed             \* a failed CHECK, or the misuse of memory, ended it

resources == <<held, workers_, rssl_refs>>
flags == <<shutting_down_, mainloop_shutdown_, keep_running_>>
platform == <<winsock, wTimerRes>>
outcome == <<initialised, threw, misuse, crashed>>
vars == <<build, main, event, handler, resources, flags, alive, platform, outcome>>

Zmq == {"context", "request", "reply"}
Resources == Zmq \cup {"upa", "provider"}

Acquiring == Resources \cup {"bind", "workers"}
Resetting == {"reset", "release_zmq", "release_provider", "release_upa"}

TypeOK ==
    /\ build \in [app : BOOLEAN, dcheck : BOOLEAN]
    /\ main \in Acquiring \cup Resetting \cup
                {"winsock", "timecaps", "start", "spawn", "running", "wait",
                 "asleep", "hung", "pumping", "returned", "exited", "unloaded"}
    /\ event \in {"none", "spawned", "running", "blocked", "stopped", "done"}
    /\ handler \in [Handlers -> {"idle", "checked", "quit", "flagged", "found",
                                 "quit_called", "missed"}]
    /\ held \subseteq Resources
    /\ workers_ \in 0..WorkerCount
    /\ rssl_refs \in Int
    /\ shutting_down_ \in BOOLEAN
    /\ mainloop_shutdown_ \in BOOLEAN
    /\ keep_running_ \in BOOLEAN
    /\ alive \in BOOLEAN
    /\ winsock \in BOOLEAN
    /\ wTimerRes \in 0..1
    /\ initialised \in {"no", "ok", "failed", "skipped"}
    /\ threw \in BOOLEAN
    /\ misuse \in BOOLEAN
    /\ crashed \in BOOLEAN

Init ==
    /\ build \in [app : BOOLEAN, dcheck : BOOLEAN]
    /\ main = (IF build.app THEN "timecaps" ELSE "winsock") /\ event = "none"
    /\ winsock = FALSE /\ wTimerRes = 0
    /\ handler = [h \in Handlers |-> "idle"]
    /\ held = {} /\ workers_ = 0 /\ rssl_refs = 0
    /\ shutting_down_ = FALSE /\ mainloop_shutdown_ = FALSE
    /\ keep_running_ = TRUE
    /\ alive = TRUE
    /\ initialised = "no" /\ threw = FALSE
    /\ misuse = FALSE /\ crashed = FALSE

-----------------------------------------------------------------------------
(* The process: a plugin needs WinSock, both a timer period.               *)

(* Another version than was asked for is given back at once.               *)
StartWinsock ==
    /\ main = "winsock"
    /\ winsock' \in BOOLEAN
    /\ main' = "timecaps"
    /\ UNCHANGED <<build, event, handler, resources, flags, alive, wTimerRes,
                   outcome>>

(* 1 ms, or none when that is out of range or the device does not tell.    *)
BeginPeriod ==
    /\ main = "timecaps"
    /\ wTimerRes' \in {0, 1}
    /\ main' = "start"
    /\ UNCHANGED <<build, event, handler, resources, flags, alive, winsock,
                   outcome>>

-----------------------------------------------------------------------------
(* Start and Initialize, on the main thread.                               *)

(* Start returns true whatever Initialize says; then Run waits for the     *)
(* event loop, and init returns to the host of the plugin.                 *)
Started == IF build.app THEN "wait" ELSE "running"

StartChecks ==
    /\ main = "start"
    /\ IF shutting_down_
         THEN main' = Started /\ initialised' = "skipped"
         ELSE main' = "context" /\ UNCHANGED initialised
    /\ UNCHANGED <<build, event, handler, resources, flags, alive, platform, threw,
                   misuse, crashed>>

(* The order in which Initialize acquires.                                 *)
NextStage ==
    [context |-> "request", request |-> "reply", reply |-> "upa",
     upa |-> "provider", provider |-> "bind", bind |-> "workers"]

(* A ZeroMQ object: its creation may fail, and so may the call that        *)
(* configures or binds it once the pointer is set.                         *)
AcquireZmq ==
    /\ main \in Zmq
    /\ \/ /\ held' = held \cup {main}
          /\ main' = NextStage[main]
          /\ UNCHANGED initialised
       \/ /\ held' \in {held, held \cup {main}}
          /\ main' = "reset" /\ initialised' = "failed"
    /\ UNCHANGED <<build, event, handler, workers_, rssl_refs, flags, alive, platform,
                   threw, misuse, crashed>>

(* upa_t is constructed and assigned, then calls rsslInitialize.           *)
AcquireUpa ==
    /\ main = "upa"
    /\ held' = held \cup {"upa"}
    /\ \/ /\ rssl_refs' = rssl_refs + 1
          /\ main' = NextStage[main]
          /\ UNCHANGED initialised
       \/ /\ main' = "reset" /\ initialised' = "failed"
          /\ UNCHANGED rssl_refs
    /\ UNCHANGED <<build, event, handler, workers_, flags, alive, platform, threw,
                   misuse, crashed>>

(* From here a handler thread finds provider_.                             *)
AcquireProvider ==
    /\ main = "provider"
    /\ held' = held \cup {"provider"}
    /\ keep_running_' = TRUE
    /\ main' = NextStage[main]
    /\ UNCHANGED <<build, event, handler, workers_, rssl_refs, shutting_down_,
                   mainloop_shutdown_, alive, platform, outcome>>

(* provider_t::Initialize: VerifyVersion and rsslBind.                     *)
BindProvider ==
    /\ main = "bind"
    /\ \/ main' = NextStage[main] /\ UNCHANGED initialised
       \/ main' = "reset" /\ initialised' = "failed"
    /\ UNCHANGED <<build, event, handler, resources, flags, alive, platform, threw,
                   misuse, crashed>>

(* Mutant of StartWorker: one worker too many.                             *)
StartWorkerPast ==
    /\ main = "workers"
    /\ \/ /\ workers_ <= WorkerCount
          /\ workers_' = workers_ + 1
          /\ UNCHANGED <<main, initialised>>
       \/ /\ workers_ > WorkerCount
          /\ main' = "spawn" /\ initialised' = "ok"
          /\ UNCHANGED workers_
    /\ UNCHANGED <<build, event, handler, held, rssl_refs, flags, alive, platform,
                   threw, misuse, crashed>>

(* A thread per worker; creating one may throw.                            *)
StartWorker ==
    /\ main = "workers"
    /\ \/ /\ workers_ < WorkerCount
          /\ workers_' = workers_ + 1
          /\ UNCHANGED <<main, initialised>>
       \/ /\ workers_ < WorkerCount
          /\ main' = "reset" /\ initialised' = "failed"
          /\ UNCHANGED workers_
       \/ /\ workers_ = WorkerCount
          /\ main' = "spawn" /\ initialised' = "ok"
          /\ UNCHANGED workers_
    /\ UNCHANGED <<build, event, handler, held, rssl_refs, flags, alive, platform,
                   threw, misuse, crashed>>

SpawnEventThread ==
    /\ main = "spawn"
    /\ event' = "spawned"
    /\ main' = Started
    /\ UNCHANGED <<build, handler, resources, flags, alive, platform, outcome>>

-----------------------------------------------------------------------------
(* The wait for the event thread, in Run and in Stop: mainloop_lock_ makes *)
(* testing the flag and going to sleep one step.  A sleeper may also wake  *)
(* for no reason.                                                          *)

(* Mutant of Wait: the flag is not tested.                                 *)
WaitNoFlag ==
    /\ main = "wait"
    /\ main' = "reset"
    /\ UNCHANGED <<build, event, handler, resources, flags, alive, platform,
                   outcome>>

Wait ==
    /\ main = "wait"
    /\ main' = IF mainloop_shutdown_ THEN "reset" ELSE "asleep"
    /\ UNCHANGED <<build, event, handler, resources, flags, alive, platform,
                   outcome>>

SpuriousWake ==
    /\ main = "asleep"
    /\ main' = "wait"
    /\ UNCHANGED <<build, event, handler, resources, flags, alive, platform,
                   outcome>>

(* Stop, called by destroy.  Without a provider it returns at once.        *)
Stop ==
    /\ main = "running"
    /\ shutting_down_' = TRUE
    /\ IF "provider" \in held
         THEN main' = "wait" /\ keep_running_' = FALSE
         ELSE main' = "returned" /\ UNCHANGED keep_running_
    /\ UNCHANGED <<build, event, handler, resources, mainloop_shutdown_, alive, platform,
                   outcome>>

-----------------------------------------------------------------------------
(* Reset, on the main thread.                                              *)

(* AbortWorkers joins every worker and drops its worker_t, or gives up at  *)
(* the first abort message it cannot send and keeps them all, or waits for *)
(* a worker that never takes its message.                                  *)
ResetWorkers ==
    /\ main = "reset"
    /\ \/ main' = "release_zmq" /\ workers_' = 0
       \/ workers_ > 0 /\ main' = "release_zmq" /\ UNCHANGED workers_
       \/ workers_ > 0 /\ main' = "hung" /\ UNCHANGED workers_
    /\ UNCHANGED <<build, event, handler, held, rssl_refs, flags, alive, platform,
                   outcome>>

(* Sockets before the context, whose only owner must be this object.       *)
ReleaseZmq ==
    /\ main = "release_zmq"
    /\ IF workers_ = 0
         THEN /\ held' = held \ Zmq
              /\ main' = "release_provider"
              /\ UNCHANGED crashed
         ELSE /\ held' = held \ {"request", "reply"}
              /\ crashed' = TRUE
              /\ UNCHANGED main
    /\ UNCHANGED <<build, event, handler, workers_, rssl_refs, flags, alive, platform,
                   initialised, threw, misuse>>

(* Close, then the destructor, which drops the provider's share of upa_.   *)
(* With clients, who come only while the event loop runs, Close may stay   *)
(* for ever in its pump, waiting for tokens of a session that no reply and *)
(* no timeout clears (Provider), or in the flush to one that does not read.*)
ReleaseProvider ==
    /\ main = "release_provider"
    /\ \/ held' = held \ {"provider"} /\ main' = "release_upa"
       \/ "provider" \in held /\ event = "done" /\ main' = "pumping" /\ UNCHANGED held
    /\ UNCHANGED <<build, event, handler, workers_, rssl_refs, flags, alive, platform,
                   outcome>>

(* Mutant of ReleaseUpa: rsslUninitialize is not called.                   *)
ReleaseUpaInitialised ==
    /\ main = "release_upa"
    /\ held' = held \ {"upa"}
    /\ main' = IF initialised = "failed" THEN Started ELSE "returned"
    /\ UNCHANGED <<build, event, handler, workers_, rssl_refs, flags, alive, platform,
                   outcome>>

(* The destructor of upa_t calls rsslUninitialize, whatever Initialize     *)
(* returned.  Reset ends: a failed Start goes on as a successful one would.*)
ReleaseUpa ==
    /\ main = "release_upa"
    /\ held' = held \ {"upa"}
    /\ rssl_refs' = rssl_refs - Cardinality(held \cap {"upa"})
    /\ main' = IF initialised = "failed" THEN Started ELSE "returned"
    /\ UNCHANGED <<build, event, handler, workers_, flags, alive, platform,
                   outcome>>

(* Run has removed the console handler and main() drops the application,   *)
(* which a handler thread inside Quit keeps alive, and ends the period.    *)
MainReturns ==
    /\ build.app
    /\ main = "returned"
    /\ alive' = FALSE
    /\ wTimerRes' = 0
    /\ main' = "exited"
    /\ UNCHANGED <<build, event, handler, resources, flags, winsock, outcome>>

(* The factory of the plugin is destroyed, its members in reverse order.   *)
Unload ==
    /\ ~build.app
    /\ main = "returned"
    /\ wTimerRes' = 0 /\ winsock' = FALSE
    /\ main' = "unloaded"
    /\ UNCHANGED <<build, event, handler, resources, flags, alive, outcome>>

-----------------------------------------------------------------------------
(* The event thread.  The global list of instances it enters itself in,    *)
(* with a lock that locks nothing, is never read and is left out.          *)

(* provider_t::Run: Quit must not have been called before, says a DCHECK.  *)
EnterRun ==
    /\ event = "spawned"
    /\ IF build.dcheck /\ ~keep_running_
         THEN crashed' = TRUE /\ UNCHANGED event
         ELSE event' = "running" /\ UNCHANGED crashed
    /\ UNCHANGED <<build, main, handler, resources, flags, alive, platform,
                   initialised, threw, misuse>>

(* The loop looks at keep_running_ once a pass.                            *)
LeaveRun ==
    /\ event = "running"
    /\ ~keep_running_
    /\ keep_running_' = TRUE
    /\ event' = "stopped"
    /\ UNCHANGED <<build, main, handler, resources, shutting_down_,
                   mainloop_shutdown_, alive, platform, outcome>>

(* zmq_msg_send does not return: every worker's pipe is full, and no       *)
(* worker takes from its own (WorkerPool).                                 *)
SendBlocks ==
    /\ event = "running"
    /\ event' = "blocked"
    /\ UNCHANGED <<build, main, handler, resources, flags, alive, platform,
                   outcome>>

RunThrows ==
    /\ event = "running"
    /\ threw' = TRUE
    /\ event' = "stopped"
    /\ UNCHANGED <<build, main, handler, resources, flags, alive, platform,
                   initialised, misuse, crashed>>

(* Mutant of MainLoopEnds: nobody is notified.                             *)
MainLoopEndsQuietly ==
    /\ event = "stopped"
    /\ mainloop_shutdown_' = TRUE
    /\ event' = "done"
    /\ UNCHANGED <<build, handler, resources, shutting_down_, keep_running_,
                   alive, platform, outcome, main>>

(* The end of MainLoop, then the flag and the notification under the lock. *)
MainLoopEnds ==
    /\ event = "stopped"
    /\ mainloop_shutdown_' = TRUE
    /\ event' = "done"
    /\ main' = IF main = "asleep" THEN "wait" ELSE main
    /\ UNCHANGED <<build, handler, resources, shutting_down_, keep_running_,
                   alive, platform, outcome>>

-----------------------------------------------------------------------------
(* A console handler thread: CtrlHandler and hitsuji_t::Quit.              *)

AppAlive == alive \/ \E h \in Handlers : handler[h] \in {"quit", "flagged", "found"}

(* The handler is registered while Run runs; expired() is a test only.     *)
CtrlHandler(h) ==
    /\ build.app
    /\ main \notin {"timecaps", "returned", "exited"}
    /\ handler[h] = "idle"
    /\ handler' = [handler EXCEPT ![h] = "checked"]
    /\ UNCHANGED <<build, main, event, resources, flags, alive, platform,
                   outcome>>

(* lock() gives no pointer once the application is gone, and Quit is       *)
(* called on it all the same.                                              *)
LockApplication(h) ==
    /\ handler[h] = "checked"
    /\ IF AppAlive
         THEN /\ handler' = [handler EXCEPT ![h] = "quit"]
              /\ UNCHANGED <<misuse, crashed>>
         ELSE misuse' = TRUE /\ crashed' = TRUE /\ UNCHANGED handler
    /\ UNCHANGED <<build, main, event, resources, flags, alive, platform,
                   initialised, threw>>

QuitSetsFlag(h) ==
    /\ handler[h] = "quit"
    /\ shutting_down_' = TRUE
    /\ handler' = [handler EXCEPT ![h] = "flagged"]
    /\ UNCHANGED <<build, main, event, resources, mainloop_shutdown_,
                   keep_running_, alive, platform, outcome>>

QuitTestsProvider(h) ==
    /\ handler[h] = "flagged"
    /\ handler' = [handler EXCEPT
                     ![h] = IF "provider" \in held THEN "found" ELSE "missed"]
    /\ UNCHANGED <<build, main, event, resources, flags, alive, platform,
                   outcome>>

(* The provider may be gone since the test: what the write to its memory   *)
(* does is open.                                                           *)
QuitCallsProvider(h) ==
    /\ handler[h] = "found"
    /\ handler' = [handler EXCEPT ![h] = "quit_called"]
    /\ IF "provider" \in held
         THEN keep_running_' = FALSE /\ UNCHANGED <<misuse, crashed>>
         ELSE /\ misuse' = TRUE /\ crashed' \in BOOLEAN
              /\ UNCHANGED keep_running_
    /\ UNCHANGED <<build, main, event, resources, shutting_down_,
                   mainloop_shutdown_, alive, platform, initialised, threw>>

-----------------------------------------------------------------------------

Main ==
    \/ StartWinsock \/ BeginPeriod
    \/ StartChecks \/ AcquireZmq \/ AcquireUpa \/ AcquireProvider
    \/ BindProvider \/ StartWorker \/ SpawnEventThread
    \/ Wait \/ Stop
    \/ ResetWorkers \/ ReleaseZmq \/ ReleaseProvider \/ ReleaseUpa
    \/ MainReturns \/ Unload

EventThread ==
    EnterRun \/ LeaveRun \/ MainLoopEnds

Handler(h) ==
    \/ LockApplication(h) \/ QuitSetsFlag(h) \/ QuitTestsProvider(h)
    \/ QuitCallsProvider(h)

Next ==
    /\ ~crashed
    /\ \/ Main \/ SpuriousWake
       \/ EventThread \/ RunThrows \/ SendBlocks
       \/ \E h \in Handlers : CtrlHandler(h) \/ Handler(h)

Spec == Init /\ [][Next]_vars

(* Threads that can run do, the event loop among them: a pass of Run that  *)
(* is not blocked in a send ends and looks at keep_running_.  Nobody has   *)
(* to press ctrl-c.                                                        *)
FairSpec ==
    /\ Spec
    /\ WF_vars(~crashed /\ Main)
    /\ WF_vars(~crashed /\ EventThread)
    /\ \A h \in Handlers : WF_vars(~crashed /\ Handler(h))

-----------------------------------------------------------------------------
(* Whatever point initialisation failed at, and whichever thread asked to  *)
(* stop, no object outlives one it was built from: the provider its upa_t, *)
(* sockets and workers their context.  And the event thread, which uses    *)
(* all of them, finds all of them from its first to its last step.         *)
NothingOutlivesItsOwner ==
    /\ "provider" \in held => "upa" \in held
    /\ held \cap {"request", "reply"} # {} \/ workers_ > 0
          => "context" \in held
    /\ event \in {"spawned", "running", "blocked", "stopped"}
          => held = Resources /\ workers_ = WorkerCount

(* The first request to stop never touches a destroyed object: only one    *)
(* made when another has been made before, when initialisation failed, or  *)
(* when the event loop ended by itself can come upon the provider or the   *)
(* application being destroyed.                                            *)
FirstQuitIsSafe ==
    misuse =>
        \/ \E g, h \in Handlers : g # h /\ handler[g] # "idle" /\ handler[h] # "idle"
        \/ initialised = "failed"
        \/ threw

(* Run and Stop never return with something left unreleased, whichever     *)
(* step of Initialize failed and however many workers were started.  And   *)
(* "each call should be matched with a call to rsslUninitialize", as       *)
(* upa.cc says of rsslInitialize, unless initialisation failed.  The       *)
(* process leaves no timer period and no WinSock behind.                   *)
ReturnsReleased ==
    /\ main \in {"returned", "exited", "unloaded"} =>
          /\ held = {} /\ workers_ = 0
          /\ rssl_refs = 0 \/ initialised = "failed"
    /\ main \in {"exited", "unloaded"} => wTimerRes = 0 /\ ~winsock

(* A Quit that finds the provider of an instance that starts ends Run; a   *)
(* Stop returns.  The exceptions are a crash, an AbortWorkers that waits   *)
(* for a dead worker, a Close that never ends, and an event thread that    *)
(* blocks for ever in the send of a request.                               *)
Stuck == main \in {"hung", "pumping"} \/ event = "blocked"

Ended == crashed \/ Stuck \/ main \in {"returned", "exited", "unloaded"}

StopsWhenTold ==
    /\ \A h \in Handlers :
          handler[h] = "quit_called" ~> Ended \/ initialised = "failed"
    /\ ~build.app /\ shutting_down_ ~> Ended

(* "Run as an application.  Blocks until Quit is called."                  *)
RunReturns == build.app /\ shutting_down_ ~> Ended
=============================================================================
