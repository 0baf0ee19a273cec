----------------------------- MODULE Dispatcher -----------------------------
(***************************************************************************)
(* What the pool of workers promises to provider_t, which hands it item    *)
(* requests and is handed their replies: a request that was accepted is    *)
(* taken by one worker and answered at most once, only while the event     *)
(* thread runs; a worker that fails a task takes no other; workers are     *)
(* retired only after the event thread has ended; and after the join       *)
(* nothing moves any more.  Sockets, pipes, their rotation, signals and    *)
(* abort messages are left to WorkerPool, which implements this module.    *)
(***************************************************************************)
CONSTANTS Requests, Workers

VARIABLES
    status,   \* per request, how far it is
    worker,   \* per worker: "starting", "waiting", "busy" or "exited"
    task,     \* per worker, the request it works on
    phase     \* "serving", "stopping" once the event thread ended, "done"

vars == <<status, worker, task, phase>>

Init ==
    /\ status = [m \in Requests |-> "none"]
    /\ worker = [w \in Workers |-> "starting"]
    /\ task = [w \in Workers |-> {}]
    /\ phase = "serving"

(* A request goes from one stage to the next.                              *)
Moves(m, from, to) ==
    /\ status[m] = from
    /\ status' = [status EXCEPT ![m] = to]

Becomes(w, from, to) ==
    /\ worker[w] = from
    /\ worker' = [worker EXCEPT ![w] = to]

Accept(m) ==
    /\ phase = "serving"
    /\ Moves(m, "none", "pending")
    /\ UNCHANGED <<worker, task, phase>>

Start(w) ==
    /\ Becomes(w, "starting", "waiting") \/ Becomes(w, "starting", "exited")
    /\ UNCHANGED <<status, task, phase>>

Take(w, m) ==
    /\ Moves(m, "pending", "taken")
    /\ Becomes(w, "waiting", "busy")
    /\ task' = [task EXCEPT ![w] = {m}]
    /\ UNCHANGED phase

Reply(w, m) ==
    /\ task[w] = {m}
    /\ Moves(m, "taken", "replied")
    /\ Becomes(w, "busy", "waiting")
    /\ task' = [task EXCEPT ![w] = {}]
    /\ UNCHANGED phase

Drop(w, m) ==
    /\ task[w] = {m}
    /\ Moves(m, "taken", "dropped")
    /\ Becomes(w, "busy", "exited")
    /\ task' = [task EXCEPT ![w] = {}]
    /\ UNCHANGED phase

(* To the client session, if it is still there.                            *)
Answer(m) ==
    /\ phase = "serving"
    /\ Moves(m, "replied", "delivered") \/ Moves(m, "replied", "undelivered")
    /\ UNCHANGED <<worker, task, phase>>

EventThreadEnds ==
    /\ phase = "serving"
    /\ phase' = "stopping"
    /\ UNCHANGED <<status, worker, task>>

Retire(w) ==
    /\ phase = "stopping"
    /\ Becomes(w, "waiting", "exited")
    /\ UNCHANGED <<status, task, phase>>

Join ==
    /\ phase = "stopping"
    /\ \A w \in Workers : worker[w] = "exited"
    /\ phase' = "done"
    /\ UNCHANGED <<status, worker, task>>

Next ==
    \/ \E m \in Requests : Accept(m) \/ Answer(m)
    \/ \E w \in Workers : Start(w) \/ Retire(w)
    \/ \E w \in Workers, m \in Requests : Take(w, m) \/ Reply(w, m) \/ Drop(w, m)
    \/ EventThreadEnds \/ Join

Spec == Init /\ [][Next]_vars
=============================================================================
