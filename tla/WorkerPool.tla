----------------------------- MODULE WorkerPool -----------------------------
(***************************************************************************)
(* The worker pool of hitsuji_t: the event thread hands item requests to   *)
(* worker threads over a ZeroMQ PUSH socket and collects their replies     *)
(* from a PULL socket whose file descriptor it selects on; at shutdown the *)
(* main thread sends one abort message per worker and joins them.          *)
(*                                                                         *)
(* A worker has two inproc pipes, one per direction, of HWM messages.      *)
(*   - The PUSH socket writes to its active pipes in rotation; a pipe it   *)
(*     finds full leaves the rotation until its reader has made room, and  *)
(*     the sender blocks while the rotation is empty.                      *)
(*   - The descriptor of the PULL socket is edge triggered: it becomes     *)
(*     readable when a worker writes to a pipe the reader has put to sleep *)
(*     (or connects), and reading ZMQ_EVENTS takes the signal.  A pipe is  *)
(*     put to sleep only when the reader looks at it and finds it empty.   *)
(*                                                                         *)
(* A request is a number; 0 is the abort message.  Client sessions are     *)
(* left out: whether a reply can be delivered is a free choice.            *)
(***************************************************************************)
EXTENDS Naturals, Sequences, FiniteSets

CONSTANTS Workers,      \* worker threads
          HWM,          \* messages an inproc pipe holds
          OpenWindow,   \* the advertised limit of outstanding requests
          MaxRequests   \* bound: requests the event thread distributes

ASSUME PoolAssumption ==
    /\ IsFiniteSet(Workers)
    /\ HWM \in Nat \ {0}
    /\ OpenWindow \in 1..HWM
    /\ MaxRequests \in Nat

VARIABLES
    lb,           \* PUSH socket: the active pipes, in rotation order
    current,      \* ... and the position of the next one to write to
    outgoing,     \* the message a zmq_msg_send call is trying to write
    requests,     \* per worker, its request pipe
    connected,    \* workers whose sockets are connected
    wstate,       \* per worker: "starting", "waiting", "busy" or "exited"
    task,         \* per worker, the request in OnTask
    replies,      \* per worker, its reply pipe
    reader,       \* PULL socket, per pipe: "asleep", "signalled" or "active"
    reply_ready,  \* event thread: reply_sock_ is set in out_rfds_
    evt,          \* event thread: "running" or "stopped"
    main,         \* main thread: "running", "quit", "aborting", "joining"
                  \* or "done"
    aborts,       \* abort messages AbortWorkers has still to send
    nreq,         \* requests distributed so far; numbers them
    delivered,    \* requests whose reply reached its client session
    undelivered,  \* requests whose reply OnReply could not deliver
    dropped,      \* requests whose OnTask failed
    skipped       \* the abort round passed over a worker

push == <<lb, current, outgoing, requests>>
threads == <<connected, wstate, task>>
pull == <<replies, reader, reply_ready>>
control == <<evt, main, aborts>>
history == <<delivered, undelivered, dropped, skipped>>
vars == <<push, threads, pull, control, nreq, history>>

Abort == 0
Requests == 1..MaxRequests
Messages == Requests \cup {Abort}

TypeOK ==
    /\ lb \in Seq(Workers)
    /\ current \in Nat
    /\ outgoing \subseteq Messages
    /\ requests \in [Workers -> Seq(Messages)]
    /\ connected \subseteq Workers
    /\ wstate \in [Workers -> {"starting", "waiting", "busy", "exited"}]
    /\ task \in [Workers -> SUBSET Requests]
    /\ replies \in [Workers -> Seq(Requests)]
    /\ reader \in [Workers -> {"asleep", "signalled", "active"}]
    /\ reply_ready \in BOOLEAN
    /\ evt \in {"running", "stopped"}
    /\ main \in {"running", "quit", "aborting", "joining", "done"}
    /\ aborts \in Nat
    /\ nreq \in 0..MaxRequests
    /\ delivered \subseteq Requests
    /\ undelivered \subseteq Requests
    /\ dropped \subseteq Requests
    /\ skipped \in BOOLEAN

Init ==
    /\ lb = <<>> /\ current = 1 /\ outgoing = {}
    /\ requests = [w \in Workers |-> <<>>]
    /\ connected = {}
    /\ wstate = [w \in Workers |-> "starting"]
    /\ task = [w \in Workers |-> {}]
    /\ replies = [w \in Workers |-> <<>>]
    /\ reader = [w \in Workers |-> "asleep"]
    /\ reply_ready = FALSE
    /\ evt = "running" /\ main = "running" /\ aborts = 0
    /\ nreq = 0
    /\ delivered = {} /\ undelivered = {} /\ dropped = {}
    /\ skipped = FALSE

-----------------------------------------------------------------------------
(* The PUSH socket, in the thread that is sending.                         *)

Full(w) == Len(requests[w]) >= HWM

(* The last active pipe takes the place of the one that leaves.            *)
SkipFull ==
    /\ outgoing # {}
    /\ lb # <<>>
    /\ Full(lb[current])
    /\ lb' = SubSeq([lb EXCEPT ![current] = lb[Len(lb)]], 1, Len(lb) - 1)
    /\ current' = IF current = Len(lb) THEN 1 ELSE current
    /\ skipped' = (skipped \/ Abort \in outgoing)
    /\ UNCHANGED <<outgoing, requests, threads, pull, control, nreq,
                   delivered, undelivered, dropped>>

Write ==
    /\ lb # <<>>
    /\ ~Full(lb[current])
    /\ \E m \in outgoing :
          requests' = [requests EXCEPT ![lb[current]] = Append(@, m)]
    /\ outgoing' = {}
    /\ current' = IF current = Len(lb) THEN 1 ELSE current + 1
    /\ UNCHANGED <<lb, threads, pull, control, nreq, history>>

(* A pipe whose reader made room returns to the rotation.                  *)
Activate(w) ==
    /\ outgoing # {}
    /\ w \in connected
    /\ \A i \in DOMAIN lb : lb[i] # w
    /\ ~Full(w)
    /\ lb' = Append(lb, w)
    /\ UNCHANGED <<current, outgoing, requests, threads, pull, control, nreq,
                   history>>

-----------------------------------------------------------------------------
(* Worker threads.                                                         *)

(* zmq_connect on the request socket: its pipe joins the rotation.         *)
ConnectRequest(w) ==
    /\ connected' = connected \cup {w}
    /\ lb' = Append(lb, w)
    /\ UNCHANGED <<current, outgoing, requests>>

(* ... and on the reply socket: the attached pipe signals its reader.      *)
ConnectReply(w) == reader' = [reader EXCEPT ![w] = "signalled"]

Initialize(w) ==
    /\ wstate[w] = "starting"
    /\ wstate' = [wstate EXCEPT ![w] = "waiting"]
    /\ ConnectRequest(w) /\ ConnectReply(w)
    /\ UNCHANGED <<task, replies, reply_ready, control, nreq, history>>

(* The thread ends with no socket connected, with one or with both:        *)
(* worker_t::Reset is empty, so what is connected stays connected.         *)
InitializeFails(w) ==
    /\ wstate[w] = "starting"
    /\ wstate' = [wstate EXCEPT ![w] = "exited"]
    /\ \/ UNCHANGED <<push, connected, reader>>
       \/ ConnectRequest(w) /\ (ConnectReply(w) \/ UNCHANGED reader)
    /\ UNCHANGED <<task, replies, reply_ready, control, nreq, history>>

(* Mutant of Receive: the abort flag is not looked at.                     *)
ReceiveAny(w) ==
    /\ wstate[w] = "waiting"
    /\ requests[w] # <<>>
    /\ requests' = [requests EXCEPT ![w] = Tail(@)]
    /\ wstate' = [wstate EXCEPT ![w] = "busy"]
    /\ task' = [task EXCEPT ![w] = {Head(requests[w])}]
    /\ UNCHANGED <<lb, current, outgoing, connected, pull, control, nreq,
                   history>>

(* MainLoop: receive a message; the abort flag ends the loop.              *)
Receive(w) ==
    /\ wstate[w] = "waiting"
    /\ requests[w] # <<>>
    /\ requests' = [requests EXCEPT ![w] = Tail(@)]
    /\ IF Head(requests[w]) = Abort
         THEN /\ wstate' = [wstate EXCEPT ![w] = "exited"]
              /\ UNCHANGED task
         ELSE /\ wstate' = [wstate EXCEPT ![w] = "busy"]
              /\ task' = [task EXCEPT ![w] = {Head(requests[w])}]
    /\ UNCHANGED <<lb, current, outgoing, connected, pull, control, nreq,
                   history>>

(* worker_t::SendReply blocks while the reply pipe is full.                *)
Blocked(w) == wstate[w] = "busy" /\ Len(replies[w]) >= HWM

(* Mutant of SendReply: a reply that was written counts as failed.         *)
SendReplyReturnsFalse(w) ==
    /\ wstate[w] = "busy"
    /\ ~Blocked(w)
    /\ \E m \in task[w] : replies' = [replies EXCEPT ![w] = Append(@, m)]
    /\ dropped' = dropped \cup task[w]
    /\ task' = [task EXCEPT ![w] = {}]
    /\ wstate' = [wstate EXCEPT ![w] = "exited"]
    /\ reader' = IF reader[w] = "asleep"
                   THEN [reader EXCEPT ![w] = "signalled"] ELSE reader
    /\ UNCHANGED <<push, connected, reply_ready, control, nreq, delivered,
                   undelivered, skipped>>

SendReply(w) ==
    /\ wstate[w] = "busy"
    /\ ~Blocked(w)
    /\ \E m \in task[w] : replies' = [replies EXCEPT ![w] = Append(@, m)]
    /\ task' = [task EXCEPT ![w] = {}]
    /\ wstate' = [wstate EXCEPT ![w] = "waiting"]
    /\ reader' = IF reader[w] = "asleep"
                   THEN [reader EXCEPT ![w] = "signalled"] ELSE reader
    /\ UNCHANGED <<push, connected, reply_ready, control, nreq, history>>

(* OnTask returns FALSE: no close message could be written or the reply    *)
(* could not be sent.  The thread ends; its sockets stay connected.        *)
TaskFails(w) ==
    /\ wstate[w] = "busy"
    /\ wstate' = [wstate EXCEPT ![w] = "exited"]
    /\ task' = [task EXCEPT ![w] = {}]
    /\ dropped' = dropped \cup task[w]
    /\ UNCHANGED <<push, connected, pull, control, nreq, delivered,
                   undelivered, skipped>>

-----------------------------------------------------------------------------
(* The event thread.  It does nothing else while it sends a request.       *)

EventThreadFree == evt = "running" /\ outgoing = {}

OnRequest ==
    /\ EventThreadFree
    /\ nreq < MaxRequests
    /\ nreq' = nreq + 1
    /\ outgoing' = {nreq + 1}
    /\ UNCHANGED <<lb, current, requests, threads, pull, control, history>>

Select ==
    /\ EventThreadFree
    /\ ~reply_ready
    /\ \E w \in Workers : reader[w] = "signalled"
    /\ reply_ready' = TRUE
    /\ UNCHANGED <<push, threads, replies, reader, control, nreq, history>>

(* Reading ZMQ_EVENTS takes the signals; an empty pipe that the reader     *)
(* looks at goes to sleep.  It looks at all of them only when it finds no  *)
(* message, else at some of them.                                          *)
Signalled == {w \in Workers : reader[w] \in {"signalled", "active"}}

LookedAt(asleep) ==
    reader' = [w \in Workers |->
                 IF w \in Signalled \ asleep THEN "active" ELSE "asleep"]

(* OnRead reads one reply; it asks to be called again if there are more.   *)
OnReadEmpty ==
    /\ EventThreadFree
    /\ reply_ready
    /\ \A w \in Signalled : replies[w] = <<>>
    /\ LookedAt(Signalled)
    /\ reply_ready' = FALSE
    /\ UNCHANGED <<push, threads, replies, control, nreq, history>>

(* Mutant of OnReadDelivered: the events are not read again.               *)
OnReadDeliveredOnce(w) ==
    /\ delivered' = delivered \cup {Head(replies[w])}
    /\ reply_ready' = FALSE
    /\ LookedAt({})
    /\ UNCHANGED undelivered

(* The reply was delivered, or its token had been cancelled: the events    *)
(* are read again.                                                         *)
OnReadDelivered(w) ==
    LET rest == {v \in Signalled : replies'[v] # <<>>}
    IN  /\ delivered' = delivered \cup {Head(replies[w])}
        /\ reply_ready' = (rest # {})
        /\ IF rest = {}
             THEN LookedAt(Signalled)
             ELSE \E asleep \in SUBSET (Signalled \ rest) : LookedAt(asleep)
        /\ UNCHANGED undelivered

(* The client is gone or the write failed: OnRead returns FALSE at once.   *)
OnReadFailed(w) ==
    /\ undelivered' = undelivered \cup {Head(replies[w])}
    /\ reply_ready' = FALSE
    /\ \E asleep \in SUBSET {v \in Signalled : replies[v] = <<>>} :
          LookedAt(asleep)
    /\ UNCHANGED delivered

OnRead(w) ==
    /\ EventThreadFree
    /\ reply_ready
    /\ w \in Signalled
    /\ replies[w] # <<>>
    /\ replies' = [replies EXCEPT ![w] = Tail(@)]
    /\ OnReadDelivered(w) \/ OnReadFailed(w)
    /\ UNCHANGED <<push, threads, control, nreq, dropped, skipped>>

(* provider_t::Run leaves its loop after DoWork, replies pending or not.   *)
RunEnds ==
    /\ EventThreadFree
    /\ main = "quit"
    /\ evt' = "stopped"
    /\ UNCHANGED <<push, threads, pull, main, aborts, nreq, history>>

-----------------------------------------------------------------------------
(* The main thread: Stop, then Reset and AbortWorkers.                     *)

Quit ==
    /\ main = "running"
    /\ main' = "quit"
    /\ UNCHANGED <<push, threads, pull, evt, aborts, nreq, history>>

(* Mutant of AbortWorkers: no abort for a thread that has ended.           *)
AbortLiveWorkers ==
    /\ main = "quit"
    /\ evt = "stopped"
    /\ main' = "aborting"
    /\ aborts' = Cardinality({w \in Workers : wstate[w] # "exited"})
    /\ skipped' = (\E w \in Workers : \A i \in DOMAIN lb : lb[i] # w)
    /\ UNCHANGED <<push, threads, pull, evt, nreq, delivered, undelivered,
                   dropped>>

(* Mutant of AbortWorkers: it does not wait for the event loop to end.     *)
AbortWorkersEarly ==
    /\ main = "quit"
    /\ main' = "aborting"
    /\ aborts' = Cardinality(Workers)
    /\ skipped' = (\E w \in Workers : \A i \in DOMAIN lb : lb[i] # w)
    /\ UNCHANGED <<push, threads, pull, evt, nreq, delivered, undelivered,
                   dropped>>

(* Every thread is joinable, one that has ended included.                  *)
AbortWorkers ==
    /\ main = "quit"
    /\ evt = "stopped"
    /\ main' = "aborting"
    /\ aborts' = Cardinality(Workers)
    /\ skipped' = (\E w \in Workers : \A i \in DOMAIN lb : lb[i] # w)
    /\ UNCHANGED <<push, threads, pull, evt, nreq, delivered, undelivered,
                   dropped>>

AbortOneWorker ==
    /\ main = "aborting"
    /\ outgoing = {}
    /\ aborts > 0
    /\ outgoing' = {Abort}
    /\ aborts' = aborts - 1
    /\ UNCHANGED <<lb, current, requests, threads, pull, evt, main, nreq,
                   history>>

JoinWorkers ==
    /\ main = "aborting"
    /\ outgoing = {}
    /\ aborts = 0
    /\ main' = "joining"
    /\ UNCHANGED <<push, threads, pull, evt, aborts, nreq, history>>

WorkersJoined ==
    /\ main = "joining"
    /\ \A w \in Workers : wstate[w] = "exited"
    /\ main' = "done"
    /\ UNCHANGED <<push, threads, pull, evt, aborts, nreq, history>>

-----------------------------------------------------------------------------
Sending == SkipFull \/ Write \/ \E w \in Workers : Activate(w)

Worker(w) ==
    \/ Initialize(w) \/ InitializeFails(w)
    \/ Receive(w) \/ SendReply(w) \/ TaskFails(w)

EventThread ==
    \/ OnRequest \/ Select \/ OnReadEmpty \/ RunEnds
    \/ \E w \in Workers : OnRead(w)

MainThread ==
    Quit \/ AbortWorkers \/ AbortOneWorker \/ JoinWorkers \/ WorkersJoined

Next ==
    \/ Sending
    \/ \E w \in Workers : Worker(w)
    \/ EventThread
    \/ MainThread

Spec == Init /\ [][Next]_vars

(* Threads run: each one takes a step that it can take for ever.  Nothing  *)
(* forces a request to arrive, a shutdown to begin or a failure to happen. *)
Fairness ==
    /\ WF_vars(SkipFull \/ Write)
    /\ \A w \in Workers : WF_vars(Activate(w))
    /\ \A w \in Workers : /\ WF_vars(Initialize(w) \/ InitializeFails(w))
                          /\ WF_vars(Receive(w) \/ SendReply(w))
    /\ WF_vars(Select)
    /\ WF_vars(OnReadEmpty \/ \E w \in Workers : OnRead(w))
    /\ WF_vars(RunEnds)
    /\ WF_vars(AbortWorkers \/ AbortOneWorker \/ JoinWorkers \/ WorkersJoined)

FairSpec == Spec /\ Fairness

-----------------------------------------------------------------------------
(* Where request m is: being sent, in a request pipe, in OnTask, in a      *)
(* reply pipe, or settled.                                                 *)
Positions(q, m) == {i \in DOMAIN q : q[i] = m}

Settled == delivered \cup undelivered \cup dropped

Unsettled == {m \in 1..nreq : m \notin Settled}

(* As long as every reply could be delivered, the event thread does not    *)
(* sleep on a reply: one that a worker has written is about to be read, or *)
(* the descriptor is readable (hitsuji.cc OnRead reads the events again    *)
(* before it gives up its turn).                                           *)
NoLostWakeup ==
    undelivered = {} /\ (\E w \in Workers : replies[w] # <<>>) =>
        reply_ready \/ \E w \in Workers : reader[w] = "signalled"

(* One round of aborts over a rotation that holds every worker and finds   *)
(* no full pipe reaches every worker exactly once: whoever has not ended   *)
(* has its abort in its pipe when the join begins (hitsuji.cc              *)
(* AbortWorkers).                                                          *)
AbortReachesAll ==
    main = "joining" /\ ~skipped =>
        \A w \in Workers :
            \/ wstate[w] = "exited"
            \/ Cardinality(Positions(requests[w], Abort)) = 1

(* All request pipes full and no worker able to read one, with the event   *)
(* thread, the only reader of the replies, blocked in a send.              *)
Gridlock ==
    /\ outgoing # {}
    /\ connected # {}
    /\ \A w \in connected : Full(w) /\ (Blocked(w) \/ wstate[w] = "exited")

(* The event thread and the workers wait for each other only when more     *)
(* requests are outstanding than the open window the provider advertises   *)
(* (provider.cc 1868).                                                     *)
GridlockNeedsOverrun ==
    evt = "running" /\ Gridlock => Cardinality(Unsettled) > OpenWindow

(* A request that a worker has ended on top of: nobody reads that pipe.    *)
Swallowed(m) ==
    \E w \in Workers : wstate[w] = "exited" /\ Positions(requests[w], m) # {}

(* Every request that is distributed is settled in the end, unless the     *)
(* program shuts down, a delivery fails (see NoLostWakeup), no worker      *)
(* connects, a worker ended and its pipe swallowed the request, or the     *)
(* threads block each other.                                               *)
RequestsSettle ==
    \A m \in Requests :
        m \in Unsettled ~>
            \/ m \in Settled
            \/ main # "running"
            \/ undelivered # {}
            \/ connected = {} /\ \A w \in Workers : wstate[w] = "exited"
            \/ Swallowed(m)
            \/ Gridlock

(* Shutdown ends, unless the abort round passed over a worker, a worker is *)
(* blocked on the reply pipe that nobody reads any more, the event thread  *)
(* was caught in a gridlock, or it is sending and no worker ever connected *)
(* (hitsuji.cc Stop, Reset and AbortWorkers).                              *)
ShutdownEnds ==
    main = "quit" ~>
        \/ main = "done"
        \/ skipped
        \/ evt = "stopped" /\ \E w \in Workers : Blocked(w)
        \/ Gridlock
        \/ /\ outgoing # {} /\ connected = {}
           /\ \A w \in Workers : wstate[w] = "exited"

-----------------------------------------------------------------------------
(* The pool seen from provider_t.                                          *)
Status(m) ==
    IF m > nreq THEN "none"
    ELSE IF m \in delivered THEN "delivered"
    ELSE IF m \in undelivered THEN "undelivered"
    ELSE IF m \in dropped THEN "dropped"
    ELSE IF \E w \in Workers : Positions(replies[w], m) # {} THEN "replied"
    ELSE IF \E w \in Workers : m \in task[w] THEN "taken"
    ELSE IF m \in outgoing \/ \E w \in Workers : Positions(requests[w], m) # {} THEN "pending"
    ELSE "lost"

Phase == IF main = "done" THEN "done" ELSE IF evt = "stopped" THEN "stopping" ELSE "serving"

Dispatch == INSTANCE Dispatcher
    WITH status <- [m \in Requests |-> Status(m)], worker <- wstate, phase <- Phase

(* The pool keeps the promise of Dispatcher: with all its pipes, signals   *)
(* and abort messages no request is lost on the way, taken or answered     *)
(* twice, none moves back, none is answered after the event loop and no    *)
(* worker is aborted before its end (hitsuji.cc OnRequest and OnRead,      *)
(* worker.cc MainLoop and SendReply).                                      *)
Dispatches == Dispatch!Spec
=============================================================================
