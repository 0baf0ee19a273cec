-------------------------- MODULE WorkerPoolProofs --------------------------
(***************************************************************************)
(* What the worker pool does with the requests and the aborts it is given, *)
(* for any number of workers, any pipe capacity and any number of requests.*)
(*                                                                         *)
(*  - Types, and NoLostWakeup: a worker's edge-triggered loop misses       *)
(*    nothing.                                                             *)
(*  - Every request that was distributed is in exactly one place           *)
(*    (Accounted).                                                         *)
(*  - So the event thread and the workers wait for one another only after  *)
(*    more requests than the pipes hold (GridlockNeedsOverrun).            *)
(*  - WorkerPool implements Dispatcher.                                    *)
(*  - One round of aborts over the rotation reaches every worker exactly   *)
(*    once (AbortReachesAll).                                              *)
(***************************************************************************)
EXTENDS WorkerPool, FiniteSetTheorems, SequenceTheorems, TLAPS

(* The rotation's position names one of its pipes, if it has any.          *)
CurrentInRange ==
    IF lb = <<>> THEN current = 1 ELSE current \in 1..Len(lb)

Types == TypeOK /\ CurrentInRange

(* A pipe joins the rotation at its end and the position stays valid.      *)
LEMMA JoinRotation ==
    ASSUME NEW w \in Workers, Types, lb' = Append(lb, w), current' = current
    PROVE  lb' \in Seq(Workers) /\ CurrentInRange'
  <1>1. lb \in Seq(Workers) /\ Len(lb) \in Nat
    BY LenProperties DEF Types, TypeOK
  <1>2. lb' \in Seq(Workers) /\ lb' # <<>> /\ Len(lb') = Len(lb) + 1
    BY <1>1, AppendProperties
  <1>3. current \in 1..(Len(lb) + 1)
    <2>1. CASE lb = <<>>
      BY <1>1, <2>1 DEF Types, CurrentInRange
    <2>2. CASE lb # <<>>
      BY <1>1, <2>2 DEF Types, CurrentInRange
    <2>3. QED
      BY <2>1, <2>2
  <1>4. QED
    BY <1>2, <1>3 DEF CurrentInRange

(* The initial state: empty pipes and no worker connected.                 *)
LEMMA InitTypes == Init => Types
  <1> SUFFICES ASSUME Init PROVE Types
    OBVIOUS
  <1>1. skipped \in BOOLEAN /\ reply_ready \in BOOLEAN
    BY DEF Init
  <1>2. nreq \in 0..MaxRequests
    BY PoolAssumption DEF Init
  <1>3. QED
    BY <1>1, <1>2 DEF Init, Types, TypeOK, CurrentInRange

(* The PUSH socket: a full pipe leaves, a message is written, a pipe       *)
(* returns.                                                                *)
LEMMA SendingTypes == Types /\ Sending => Types'
  <1> SUFFICES ASSUME Types, Sending PROVE Types'
    OBVIOUS
  <1> USE DEF Types, threads, pull, control, history
  <1>1. CASE SkipFull
    <2> DEFINE moved == [lb EXCEPT ![current] = lb[Len(lb)]]
    <2>1. Len(lb) \in Nat /\ Len(lb) > 0 /\ current \in 1..Len(lb)
      BY <1>1 DEF SkipFull, TypeOK, CurrentInRange
    <2>2. lb[Len(lb)] \in Workers
      BY <2>1, ElementOfSeq DEF TypeOK
    <2>3. moved \in Seq(Workers) /\ Len(moved) = Len(lb)
      BY <2>1, <2>2, ExceptSeq DEF TypeOK
    <2> HIDE DEF moved
    <2>4. \A i \in 1..(Len(lb) - 1) : moved[i] \in Workers
      <3> TAKE i \in 1..(Len(lb) - 1)
      <3>1. i \in 1..Len(moved)
        BY <2>1, <2>3
      <3>2. QED
        BY <2>3, <3>1, ElementOfSeq
    <2>5. /\ SubSeq(moved, 1, Len(lb) - 1) \in Seq(Workers)
          /\ Len(SubSeq(moved, 1, Len(lb) - 1)) = Len(lb) - 1
      <3>1. 1 \in 1..(Len(moved) + 1) /\ Len(lb) - 1 \in 0..Len(moved)
        BY <2>1, <2>3
      <3>2. QED
        BY <2>1, <2>3, <3>1
    <2>6. lb' \in Seq(Workers) /\ Len(lb') = Len(lb) - 1
      BY <1>1, <2>5 DEF SkipFull, moved
    <2>7. CurrentInRange'
      <3>1. current' = IF current = Len(lb) THEN 1 ELSE current
        BY <1>1 DEF SkipFull
      <3>2. CASE lb' = <<>>
        <4>1. Len(lb) = 1
          BY <2>1, <2>6, <3>2
        <4>2. QED
          BY <2>1, <3>1, <3>2, <4>1 DEF CurrentInRange
      <3>3. CASE lb' # <<>>
        <4>1. Len(lb') > 0
          BY <2>6, <3>3, EmptySeq
        <4>2. current' \in 1..Len(lb')
          BY <2>1, <2>6, <3>1, <4>1
        <4>3. QED
          BY <3>3, <4>2 DEF CurrentInRange
      <3>4. QED
        BY <3>2, <3>3
    <2>8. skipped' \in BOOLEAN /\ current' \in Nat
      BY <1>1, <2>1 DEF SkipFull
    <2>9. QED
      BY <1>1, <2>6, <2>7, <2>8 DEF SkipFull, TypeOK
  <1>2. CASE Write
    <2>1. Len(lb) \in Nat /\ current \in 1..Len(lb)
      BY <1>2 DEF Write, TypeOK, CurrentInRange
    <2>2. lb[current] \in Workers
      BY <2>1, ElementOfSeq DEF TypeOK
    <2>3. requests' \in [Workers -> Seq(Messages)]
      BY <1>2, <2>2 DEF Write, TypeOK
    <2>4. current' \in Nat /\ CurrentInRange'
      BY <1>2, <2>1 DEF Write, CurrentInRange
    <2>5. QED
      BY <1>2, <2>3, <2>4 DEF Write, TypeOK
  <1>3. ASSUME NEW w \in Workers, Activate(w) PROVE Types'
    <2>1. lb' \in Seq(Workers) /\ CurrentInRange'
      BY <1>3, JoinRotation DEF Activate
    <2>2. QED
      BY <1>3, <2>1 DEF Activate, TypeOK
  <1>4. QED
    BY <1>1, <1>2, <1>3 DEF Sending

(* Worker threads.                                                         *)
LEMMA WorkerTypes == ASSUME NEW w \in Workers, Types, Worker(w) PROVE Types'
  <1> USE DEF Types, push, pull, control, history
  <1>1. ASSUME ConnectRequest(w)
        PROVE  /\ lb' \in Seq(Workers) /\ CurrentInRange'
               /\ connected' \subseteq Workers
    BY <1>1, JoinRotation DEF ConnectRequest, TypeOK
  <1>2. CASE Initialize(w)
    BY <1>1, <1>2 DEF Initialize, ConnectRequest, ConnectReply, TypeOK
  <1>3. CASE InitializeFails(w)
    <2>1. reader' \in [Workers -> {"asleep", "signalled", "active"}]
      BY <1>3 DEF InitializeFails, ConnectReply, TypeOK
    <2>2. CASE ConnectRequest(w)
      BY <1>1, <1>3, <2>1, <2>2 DEF InitializeFails, ConnectRequest, TypeOK
    <2>3. CASE UNCHANGED <<push, connected, reader>>
      BY <1>3, <2>3 DEF InitializeFails, TypeOK, CurrentInRange
    <2>4. QED
      BY <1>3, <2>2, <2>3 DEF InitializeFails
  <1>4. CASE Receive(w)
    <2>1. /\ Head(requests[w]) \in Messages
          /\ Tail(requests[w]) \in Seq(Messages)
      BY <1>4 DEF Receive, TypeOK
    <2>2. /\ task' \in [Workers -> SUBSET Requests]
          /\ wstate' \in [Workers -> {"starting", "waiting", "busy", "exited"}]
      <3>1. CASE Head(requests[w]) = Abort
        BY <1>4, <3>1 DEF Receive, TypeOK
      <3>2. CASE Head(requests[w]) # Abort
        <4>1. {Head(requests[w])} \in SUBSET Requests
          BY <2>1, <3>2 DEF Messages
        <4>2. QED
          BY <1>4, <3>2, <4>1 DEF Receive, TypeOK
      <3>3. QED
        BY <3>1, <3>2
    <2>3. requests' \in [Workers -> Seq(Messages)]
      BY <1>4, <2>1 DEF Receive, TypeOK
    <2>4. QED
      BY <1>4, <2>2, <2>3 DEF Receive, TypeOK, CurrentInRange
  <1>5. CASE SendReply(w)
    <2>1. replies' \in [Workers -> Seq(Requests)]
      BY <1>5 DEF SendReply, TypeOK
    <2>2. QED
      BY <1>5, <2>1 DEF SendReply, TypeOK, CurrentInRange
  <1>6. CASE TaskFails(w)
    BY <1>6 DEF TaskFails, TypeOK, CurrentInRange
  <1>7. QED
    BY <1>2, <1>3, <1>4, <1>5, <1>6 DEF Worker

(* The event thread.                                                       *)
LEMMA EventThreadTypes == Types /\ EventThread => Types'
  <1> SUFFICES ASSUME Types, EventThread PROVE Types'
    OBVIOUS
  <1> USE DEF Types, push, threads, pull, control, history
  <1>1. CASE OnRequest
    <2>1. nreq + 1 \in Requests /\ nreq' \in 0..MaxRequests
      BY <1>1, PoolAssumption DEF OnRequest, TypeOK, Requests
    <2>2. QED
      BY <1>1, <2>1 DEF OnRequest, TypeOK, CurrentInRange, Messages
  <1>2. CASE Select
    BY <1>2 DEF Select, TypeOK, CurrentInRange
  <1>3. CASE OnReadEmpty
    BY <1>3 DEF OnReadEmpty, LookedAt, TypeOK, CurrentInRange
  <1>4. CASE RunEnds
    BY <1>4 DEF RunEnds, TypeOK, CurrentInRange
  <1>5. ASSUME NEW w \in Workers, OnRead(w) PROVE Types'
    <2>1. /\ Head(replies[w]) \in Requests
          /\ replies' \in [Workers -> Seq(Requests)]
      BY <1>5 DEF OnRead, TypeOK
    <2>2. reader' \in [Workers -> {"asleep", "signalled", "active"}]
      BY <1>5 DEF OnRead, OnReadDelivered, OnReadFailed, LookedAt
    <2>3. reply_ready' \in BOOLEAN
      BY <1>5 DEF OnRead, OnReadDelivered, OnReadFailed
    <2>4. delivered' \subseteq Requests /\ undelivered' \subseteq Requests
      BY <1>5, <2>1 DEF OnRead, OnReadDelivered, OnReadFailed, TypeOK
    <2>5. QED
      BY <1>5, <2>1, <2>2, <2>3, <2>4 DEF OnRead, TypeOK, CurrentInRange
  <1>6. QED
    BY <1>1, <1>2, <1>3, <1>4, <1>5 DEF EventThread

(* The main thread.                                                        *)
LEMMA MainThreadTypes == Types /\ MainThread => Types'
  <1> SUFFICES ASSUME Types, MainThread PROVE Types'
    OBVIOUS
  <1> USE DEF Types, push, threads, pull, history, TypeOK, CurrentInRange
  <1>1. CASE Quit
    BY <1>1 DEF Quit
  <1>2. CASE AbortWorkers
    <2>1. aborts' \in Nat /\ skipped' \in BOOLEAN
      BY <1>2, PoolAssumption, FS_CardinalityType DEF AbortWorkers
    <2>2. QED
      BY <1>2, <2>1 DEF AbortWorkers
  <1>3. CASE AbortOneWorker
    BY <1>3 DEF AbortOneWorker, Messages
  <1>4. CASE JoinWorkers
    BY <1>4 DEF JoinWorkers
  <1>5. CASE WorkersJoined
    BY <1>5 DEF WorkersJoined
  <1>6. QED
    BY <1>1, <1>2, <1>3, <1>4, <1>5 DEF MainThread

(* Every step keeps the types.                                             *)
LEMMA NextTypes == Types /\ [Next]_vars => Types'
  <1> SUFFICES ASSUME Types, [Next]_vars PROVE Types'
    OBVIOUS
  <1>1. CASE UNCHANGED vars
    BY <1>1 DEF Types, TypeOK, CurrentInRange, vars, push, threads, pull,
                control, history
  <1>2. QED
    BY <1>1, SendingTypes, WorkerTypes, EventThreadTypes, MainThreadTypes
       DEF Next

(* So they hold for ever.                                                  *)
LEMMA TypesInvariant == Spec => []Types
  BY InitTypes, NextTypes, PTL DEF Spec

(* Messages, tasks and replies keep their types: no abort message ever     *)
(* becomes a task, and no task a reply of another type (hitsuji.cc,        *)
(* worker.cc).                                                             *)
THEOREM PoolTypeCorrect == Spec => []TypeOK
  BY TypesInvariant, PTL DEF Types

-----------------------------------------------------------------------------
(* NoLostWakeup says nothing of why a reply pipe that holds a message has  *)
(* not been put to sleep.  It holds because a worker that writes to a      *)
(* sleeping pipe signals it, and the reader puts only empty pipes to       *)
(* sleep; and because OnRead clears reply_ready only once it has looked at *)
(* every pipe, unless a delivery fails.                                    *)

(* A pipe that holds a reply is not asleep.                                *)
AwakeWhileFull == \A w \in Workers : replies[w] # <<>> => reader[w] # "asleep"

(* The event thread waits for the descriptor only when it has put every    *)
(* pipe to sleep, or one has been signalled since.                         *)
WaitsWithAllAsleep ==
    undelivered = {} /\ ~reply_ready =>
        \A w \in Workers : reader[w] # "active"

Wakeup == Types /\ AwakeWhileFull /\ WaitsWithAllAsleep

(* What follows from the two: a reply in a pipe has signalled the reader.  *)
LEMMA WakeupSuffices == Wakeup => NoLostWakeup
  <1> SUFFICES ASSUME Wakeup, undelivered = {},
                      NEW w \in Workers, replies[w] # <<>>, ~reply_ready
               PROVE  reader[w] = "signalled"
    BY DEF NoLostWakeup
  <1>1. reader[w] # "asleep" /\ reader[w] # "active"
    BY DEF Wakeup, AwakeWhileFull, WaitsWithAllAsleep
  <1>2. QED
    BY <1>1 DEF Wakeup, Types, TypeOK

(* Initially the pipes are empty and asleep.                               *)
LEMMA InitWakeup == Init => Wakeup
  BY InitTypes DEF Init, Wakeup, AwakeWhileFull, WaitsWithAllAsleep

(* A worker that connects or writes signals its pipe.                      *)
LEMMA WorkerWakeup ==
    ASSUME NEW w \in Workers, Wakeup, Worker(w)
    PROVE  (AwakeWhileFull /\ WaitsWithAllAsleep)'
  <1> USE DEF Wakeup, AwakeWhileFull, WaitsWithAllAsleep, push, pull, control,
              history
  <1>1. reader \in [Workers -> {"asleep", "signalled", "active"}]
    BY DEF Types, TypeOK
  <1>2. CASE Initialize(w)
    BY <1>1, <1>2 DEF Initialize, ConnectReply
  <1>3. CASE InitializeFails(w)
    BY <1>1, <1>3 DEF InitializeFails, ConnectReply
  <1>4. CASE Receive(w)
    BY <1>4 DEF Receive
  <1>5. CASE SendReply(w)
    <2>1. \A v \in Workers : v # w => replies'[v] = replies[v]
      BY <1>5 DEF SendReply, Types, TypeOK
    <2>2. /\ reader'[w] # "asleep"
          /\ \A v \in Workers : v # w => reader'[v] = reader[v]
      BY <1>1, <1>5 DEF SendReply
    <2>3. reader'[w] = "active" => reader[w] = "active"
      BY <1>1, <1>5 DEF SendReply
    <2>4. undelivered' = undelivered /\ reply_ready' = reply_ready
      BY <1>5 DEF SendReply
    <2>5. QED
      BY <2>1, <2>2, <2>3, <2>4
  <1>6. CASE TaskFails(w)
    BY <1>6 DEF TaskFails
  <1>7. QED
    BY <1>2, <1>3, <1>4, <1>5, <1>6 DEF Worker

(* OnRead leaves a pipe that still holds a reply awake, and keeps          *)
(* reply_ready unless it put every pipe to sleep or the delivery failed.   *)
LEMMA OnReadWakeup ==
    ASSUME NEW w \in Workers, Wakeup, OnRead(w)
    PROVE  (AwakeWhileFull /\ WaitsWithAllAsleep)'
  <1> USE DEF Wakeup
  <1>1. reader \in [Workers -> {"asleep", "signalled", "active"}]
    BY DEF Types, TypeOK
  <1>2. \A v \in Workers : replies'[v] # <<>> => replies[v] # <<>>
    BY DEF OnRead, Types, TypeOK
  <1>3. \A v \in Workers : replies[v] # <<>> => v \in Signalled
    BY <1>1 DEF AwakeWhileFull, Signalled
  <1>4. CASE OnReadDelivered(w)
    <2> DEFINE rest == {v \in Signalled : replies'[v] # <<>>}
    <2>1. \A v \in Workers : replies'[v] # <<>> => v \in rest
      BY <1>2, <1>3
    <2>2. CASE rest = {}
      <3>1. LookedAt(Signalled)
        BY <1>4, <2>2 DEF OnReadDelivered
      <3>2. \A v \in Workers : reader'[v] = "asleep"
        BY <3>1 DEF LookedAt
      <3>3. QED
        BY <2>1, <2>2, <3>2 DEF AwakeWhileFull, WaitsWithAllAsleep
    <2>3. CASE rest # {}
      <3>1. PICK asleep \in SUBSET (Signalled \ rest) : LookedAt(asleep)
        BY <1>4, <2>3 DEF OnReadDelivered
      <3>2. \A v \in rest : v \in Workers /\ reader'[v] = "active"
        BY <3>1 DEF LookedAt, Signalled
      <3>3. reply_ready'
        BY <1>4, <2>3 DEF OnReadDelivered
      <3>4. QED
        BY <2>1, <3>2, <3>3 DEF AwakeWhileFull, WaitsWithAllAsleep
    <2>4. QED
      BY <2>2, <2>3
  <1>5. CASE OnReadFailed(w)
    <2>1. PICK asleep \in SUBSET {v \in Signalled : replies[v] = <<>>} :
             LookedAt(asleep)
      BY <1>5 DEF OnReadFailed
    <2>2. \A v \in Workers : replies'[v] # <<>> => reader'[v] = "active"
      BY <1>2, <1>3, <2>1 DEF LookedAt
    <2>3. undelivered' # {}
      BY <1>5 DEF OnReadFailed
    <2>4. QED
      BY <2>2, <2>3 DEF AwakeWhileFull, WaitsWithAllAsleep
  <1>6. QED
    BY <1>4, <1>5 DEF OnRead

(* Every step of the pool keeps the strengthened invariant.                *)
LEMMA NextWakeup == Wakeup /\ [Next]_vars => Wakeup'
  <1> SUFFICES ASSUME Wakeup, [Next]_vars PROVE Wakeup'
    OBVIOUS
  <1>1. Types'
    BY NextTypes DEF Wakeup
  <1> SUFFICES (AwakeWhileFull /\ WaitsWithAllAsleep)'
    BY <1>1 DEF Wakeup
  <1>2. ASSUME UNCHANGED <<replies, reader, undelivered, reply_ready>>
        PROVE  (AwakeWhileFull /\ WaitsWithAllAsleep)'
    BY <1>2 DEF Wakeup, AwakeWhileFull, WaitsWithAllAsleep
  <1>3. CASE UNCHANGED vars
    BY <1>2, <1>3 DEF vars, pull, history
  <1>4. CASE Sending
    BY <1>2, <1>4
       DEF Sending, SkipFull, Write, Activate, pull, history
  <1>5. CASE \E w \in Workers : Worker(w)
    BY <1>5, WorkerWakeup
  <1>6. CASE EventThread
    <2>1. CASE OnRequest
      BY <1>2, <2>1 DEF OnRequest, pull, history
    <2>2. CASE Select
      BY <2>2 DEF Select, history, Wakeup, AwakeWhileFull, WaitsWithAllAsleep
    <2>3. CASE OnReadEmpty
      <3>1. \A w \in Workers : replies'[w] = <<>>
        BY <2>3 DEF OnReadEmpty, Wakeup, AwakeWhileFull, Signalled, Types,
                    TypeOK
      <3>2. \A w \in Workers : reader'[w] = "asleep"
        BY <2>3 DEF OnReadEmpty, LookedAt
      <3>3. QED
        BY <3>1, <3>2 DEF AwakeWhileFull, WaitsWithAllAsleep
    <2>4. CASE RunEnds
      BY <1>2, <2>4 DEF RunEnds, pull, history
    <2>5. CASE \E w \in Workers : OnRead(w)
      BY <2>5, OnReadWakeup
    <2>6. QED
      BY <1>6, <2>1, <2>2, <2>3, <2>4, <2>5 DEF EventThread
  <1>7. CASE MainThread
    BY <1>2, <1>7
       DEF MainThread, Quit, AbortWorkers, AbortOneWorker, JoinWorkers,
           WorkersJoined, pull, history
  <1>8. QED
    BY <1>3, <1>4, <1>5, <1>6, <1>7 DEF Next

(* However many workers there are and however their writes interleave with *)
(* the event thread's, a reply never waits in a pipe unnoticed as long as  *)
(* every earlier one could be delivered (hitsuji.cc OnRead).               *)
THEOREM NoWakeupLost == Spec => []NoLostWakeup
  <1>1. Spec => []Wakeup
    BY InitWakeup, NextWakeup, PTL DEF Spec
  <1>2. QED
    BY <1>1, WakeupSuffices, PTL

-----------------------------------------------------------------------------
Has(q, m) == Positions(q, m) # {}

(* No request is twice in a pipe; abort messages may be.                   *)
Once(q) == \A i, j \in DOMAIN q : q[i] = q[j] /\ q[i] # Abort => i = j

Places == {"none", "outgoing", "request", "task", "reply",
           "delivered", "undelivered", "dropped"}

(* Every request is in the place at[m], at worker by[m] where that is one  *)
(* of a worker's, and nowhere else.                                        *)
Placed(at, by) ==
    \A m \in Requests :
        /\ at[m] \in {"request", "task", "reply"} => by[m] \in Workers
        /\ at[m] = "none" <=> m > nreq
        /\ at[m] = "outgoing" <=> m \in outgoing
        /\ at[m] = "delivered" <=> m \in delivered
        /\ at[m] = "undelivered" <=> m \in undelivered
        /\ at[m] = "dropped" <=> m \in dropped
        /\ \A w \in Workers :
              /\ at[m] = "request" /\ by[m] = w <=> Has(requests[w], m)
              /\ at[m] = "task" /\ by[m] = w <=> m \in task[w]
              /\ at[m] = "reply" /\ by[m] = w <=> Has(replies[w], m)

Holders == Workers \cup {"none"}

OnePlace == \E at \in [Requests -> Places], by \in [Requests -> Holders] : Placed(at, by)

(* Pipes, the send in progress and the tasks hold what they seem to.       *)
Singles ==
    /\ outgoing # {} => \E m \in Messages : outgoing = {m}
    /\ \A w \in Workers :
          /\ Once(requests[w]) /\ Once(replies[w])
          /\ wstate[w] = "busy" => \E m \in Requests : task[w] = {m}
          /\ wstate[w] # "busy" => task[w] = {}

(* Abort messages come after the event loop, and the join after them.      *)
Phases ==
    /\ main \in {"aborting", "joining", "done"} => evt = "stopped"
    /\ evt = "running" =>
          /\ Abort \notin outgoing
          /\ \A w \in Workers : ~Has(requests[w], Abort)
    /\ main = "done" => \A w \in Workers : wstate[w] = "exited"

Accounted == OnePlace /\ Singles /\ Phases

-----------------------------------------------------------------------------
(* What Append and Tail do to what a pipe holds.                           *)
LEMMA PositionsAppend ==
    ASSUME NEW S, NEW q \in Seq(S), NEW e \in S, NEW n
    PROVE  /\ n # e => Positions(Append(q, e), n) = Positions(q, n)
           /\ n = e => Positions(Append(q, e), n)
                          = Positions(q, n) \cup {Len(q) + 1}
  <1>1. /\ Len(q) \in Nat /\ DOMAIN q = 1..Len(q)
        /\ DOMAIN Append(q, e) = 1..(Len(q) + 1)
        /\ \A i \in 1..Len(q) : Append(q, e)[i] = q[i]
        /\ Append(q, e)[Len(q) + 1] = e
    BY AppendProperties, LenProperties
  <1>2. QED
    BY <1>1 DEF Positions

(* A message written to a pipe is in it, with what was there before.       *)
LEMMA HasAppend ==
    ASSUME NEW S, NEW q \in Seq(S), NEW e \in S, NEW n
    PROVE  Has(Append(q, e), n) <=> Has(q, n) \/ n = e
  BY PositionsAppend DEF Has

(* A request that is not in a pipe can be written to it.                   *)
LEMMA OnceAppend ==
    ASSUME NEW S, NEW q \in Seq(S), NEW e \in S, Once(q),
           ~Has(q, e) \/ e = Abort
    PROVE  Once(Append(q, e))
  <1>1. /\ Len(q) \in Nat /\ DOMAIN q = 1..Len(q)
        /\ DOMAIN Append(q, e) = 1..(Len(q) + 1)
        /\ \A i \in 1..Len(q) : Append(q, e)[i] = q[i]
        /\ Append(q, e)[Len(q) + 1] = e
    BY AppendProperties, LenProperties
  <1>2. e # Abort => \A i \in 1..Len(q) : q[i] # e
    BY <1>1 DEF Has, Positions
  <1>3. SUFFICES ASSUME NEW i \in 1..(Len(q) + 1), NEW j \in 1..(Len(q) + 1),
                        Append(q, e)[i] = Append(q, e)[j],
                        Append(q, e)[i] # Abort
                 PROVE  i = j
    BY <1>1 DEF Once
  <1>4. CASE i \in 1..Len(q) /\ j \in 1..Len(q)
    BY <1>1, <1>3, <1>4 DEF Once
  <1>5. CASE i = Len(q) + 1 \/ j = Len(q) + 1
    BY <1>1, <1>2, <1>3, <1>5
  <1>6. QED
    BY <1>1, <1>4, <1>5

(* What is read from a pipe is no longer in it.                            *)
LEMMA HasTail ==
    ASSUME NEW S, NEW q \in Seq(S), q # <<>>, Once(q)
    PROVE  /\ Once(Tail(q))
           /\ \A n : n # Abort =>
                 (Has(Tail(q), n) <=> Has(q, n) /\ n # Head(q))
           /\ Has(Tail(q), Abort) => Has(q, Abort)
           /\ Has(q, Head(q))
  <1>1. /\ Len(q) \in Nat /\ Len(q) > 0 /\ DOMAIN q = 1..Len(q)
        /\ DOMAIN Tail(q) = 1..(Len(q) - 1)
        /\ \A i \in 1..(Len(q) - 1) : Tail(q)[i] = q[i + 1]
        /\ Head(q) = q[1]
    BY HeadTailProperties, LenProperties, EmptySeq
  <1>2. Once(Tail(q))
    <2>1. SUFFICES ASSUME NEW i \in 1..(Len(q) - 1), NEW j \in 1..(Len(q) - 1),
                          Tail(q)[i] = Tail(q)[j], Tail(q)[i] # Abort
                   PROVE  i = j
      BY <1>1 DEF Once
    <2>2. i + 1 \in 1..Len(q) /\ j + 1 \in 1..Len(q)
      BY <1>1
    <2>3. q[i + 1] = q[j + 1] /\ q[i + 1] # Abort
      BY <1>1, <2>1
    <2>4. i + 1 = j + 1
      BY <1>1, <2>2, <2>3 DEF Once
    <2>5. QED
      BY <2>4
  <1>3. ASSUME NEW n, Has(Tail(q), n) PROVE Has(q, n) /\ (n # Abort => n # Head(q))
    <2>1. PICK i \in 1..(Len(q) - 1) : Tail(q)[i] = n
      BY <1>1, <1>3 DEF Has, Positions
    <2>2. i + 1 \in 1..Len(q) /\ q[i + 1] = n /\ 1 \in 1..Len(q) /\ i + 1 # 1
      BY <1>1, <2>1
    <2>3. QED
      BY <1>1, <2>2 DEF Has, Positions, Once
  <1>4. ASSUME NEW n, Has(q, n), n # Head(q) PROVE Has(Tail(q), n)
    <2>1. PICK i \in 1..Len(q) : q[i] = n
      BY <1>1, <1>4 DEF Has, Positions
    <2>2. i - 1 \in 1..(Len(q) - 1) /\ Tail(q)[i - 1] = n
      <3>1. i # 1
        BY <1>1, <1>4, <2>1
      <3>2. i - 1 \in 1..(Len(q) - 1)
        BY <1>1, <3>1
      <3>3. Tail(q)[i - 1] = q[(i - 1) + 1]
        BY <1>1, <3>2
      <3>4. QED
        BY <2>1, <3>2, <3>3
    <2>3. QED
      BY <1>1, <2>2 DEF Has, Positions
  <1>5. Has(q, Head(q))
    <2>1. 1 \in DOMAIN q
      BY <1>1
    <2>2. QED
      BY <1>1, <2>1 DEF Has, Positions
  <1>6. QED
    BY <1>2, <1>3, <1>4, <1>5

-----------------------------------------------------------------------------
(* Where each action takes a request.                                      *)

places == <<outgoing, requests, task, replies, nreq, delivered, undelivered,
            dropped>>

(* A step that moves no message leaves every request where it is.          *)
LEMMA PlacedStays ==
    ASSUME NEW at, NEW by, Placed(at, by), UNCHANGED places
    PROVE  Placed(at, by)'
  BY DEF Placed, places

(* The event thread has a request to send.                                 *)
LEMMA OnRequestPlaced ==
    ASSUME Types, NEW at \in [Requests -> Places],
           NEW by \in [Requests -> Holders], Placed(at, by), OnRequest,
           NEW m, m = nreq + 1
    PROVE  /\ m \in Requests
           /\ Placed([at EXCEPT ![m] = "outgoing"], by)'
  <1>1. m \in Requests /\ nreq' = m /\ outgoing = {} /\ outgoing' = {m}
    BY PoolAssumption
       DEF OnRequest, EventThreadFree, Types, TypeOK, Requests
  <1>2. UNCHANGED <<requests, task, replies, delivered, undelivered, dropped>>
    BY DEF OnRequest, threads, pull, history
  <1>3. at[m] = "none"
    BY <1>1 DEF Placed, Requests, Types, TypeOK
  <1>4. \A n \in Requests : n > nreq' <=> n > nreq /\ n # m
    BY <1>1 DEF Requests, Types, TypeOK
  <1>5. QED
    BY <1>1, <1>2, <1>3, <1>4 DEF Placed

(* The PUSH socket writes a message to a pipe of the rotation.             *)
LEMMA WritePlaced ==
    ASSUME Types, NEW at \in [Requests -> Places],
           NEW by \in [Requests -> Holders], Placed(at, by), Write,
           NEW m \in Messages, outgoing = {m}, NEW w, w = lb[current]
    PROVE  /\ w \in Workers
           /\ requests' = [requests EXCEPT ![w] = Append(@, m)]
           /\ m # Abort => m \in Requests /\ at[m] = "outgoing"
           /\ m # Abort => Placed([at EXCEPT ![m] = "request"],
                                  [by EXCEPT ![m] = w])'
           /\ m = Abort => Placed(at, by)'
  <1>1. w \in Workers
    <2>1. Len(lb) \in Nat /\ current \in 1..Len(lb)
      BY DEF Write, Types, TypeOK, CurrentInRange
    <2>2. QED
      BY <2>1, ElementOfSeq DEF Types, TypeOK
  <1>2. requests' = [requests EXCEPT ![w] = Append(@, m)] /\ outgoing' = {}
    BY DEF Write
  <1>3. UNCHANGED <<task, replies, nreq, delivered, undelivered, dropped>>
    BY DEF Write, threads, pull, history
  <1>4. \A v \in Workers, n \in Requests :
           Has(requests'[v], n) <=> Has(requests[v], n) \/ (v = w /\ n = m)
    BY <1>1, <1>2, HasAppend DEF Types, TypeOK
  <1>5. Abort \notin Requests
    BY DEF Abort, Requests
  <1>6. CASE m = Abort
    BY <1>1, <1>2, <1>3, <1>4, <1>5, <1>6 DEF Placed
  <1>7. CASE m # Abort
    <2>1. m \in Requests
      BY <1>7 DEF Messages
    <2>2. at[m] = "outgoing" /\ \A n \in Requests : at[n] = "outgoing" => n = m
      BY <2>1 DEF Placed
    <2>3. QED
      BY <1>1, <1>2, <1>3, <1>4, <1>7, <2>1, <2>2 DEF Placed
  <1>8. QED
    BY <1>6, <1>7

(* A worker receives a request.                                            *)
LEMMA ReceivePlaced ==
    ASSUME Types, Singles, NEW at \in [Requests -> Places],
           NEW by \in [Requests -> Holders], Placed(at, by),
           NEW w \in Workers, Receive(w), NEW m, m = Head(requests[w])
    PROVE  /\ m # Abort => m \in Requests
           /\ m # Abort => Placed([at EXCEPT ![m] = "task"], by)'
           /\ m = Abort => Placed(at, by)'
  <1>1. /\ requests[w] \in Seq(Messages) /\ requests[w] # <<>>
        /\ Once(requests[w]) /\ task[w] = {} /\ m \in Messages
    BY HeadTailProperties DEF Receive, Types, TypeOK, Singles
  <1>2. /\ UNCHANGED <<outgoing, replies, nreq, delivered, undelivered, dropped>>
        /\ requests' = [requests EXCEPT ![w] = Tail(@)]
    BY DEF Receive, pull, history
  <1>3. /\ \A v \in Workers, n \in Requests :
              Has(requests'[v], n) <=> Has(requests[v], n) /\ (v = w => n # m)
        /\ Has(requests[w], m)
    <2>1. Abort \notin Requests
      BY DEF Abort, Requests
    <2>2. QED
      BY <1>1, <1>2, <2>1, HasTail DEF Types, TypeOK
  <1>4. CASE m = Abort
    <2>1. task' = task
      BY <1>4 DEF Receive
    <2>2. \A n \in Requests : n # m
      BY <1>4 DEF Abort, Requests
    <2>3. QED
      BY <1>2, <1>3, <1>4, <2>1, <2>2 DEF Placed
  <1>5. CASE m # Abort
    <2>1. m \in Requests
      BY <1>1, <1>5 DEF Messages
    <2>2. at[m] = "request" /\ by[m] = w
      BY <1>3, <2>1 DEF Placed
    <2>3. \A v \in Workers : task'[v] = IF v = w THEN {m} ELSE task[v]
      BY <1>5 DEF Receive, Types, TypeOK
    <2>4. QED
      BY <1>1, <1>2, <1>3, <1>5, <2>1, <2>2, <2>3 DEF Placed
  <1>6. QED
    BY <1>4, <1>5

(* A worker replies.                                                       *)
LEMMA SendReplyPlaced ==
    ASSUME Types, Singles, NEW at \in [Requests -> Places],
           NEW by \in [Requests -> Holders], Placed(at, by),
           NEW w \in Workers, SendReply(w),
           NEW m \in Requests, task[w] = {m}
    PROVE  Placed([at EXCEPT ![m] = "reply"], by)'
  <1>1. /\ UNCHANGED <<outgoing, requests, nreq, delivered, undelivered, dropped>>
        /\ replies' = [replies EXCEPT ![w] = Append(@, m)]
        /\ \A v \in Workers : task'[v] = IF v = w THEN {} ELSE task[v]
    BY DEF SendReply, push, history, Types, TypeOK
  <1>2. at[m] = "task" /\ by[m] = w
    BY DEF Placed
  <1>3. \A v \in Workers, n \in Requests :
           Has(replies'[v], n) <=> Has(replies[v], n) \/ (v = w /\ n = m)
    BY <1>1, HasAppend DEF Types, TypeOK
  <1>4. QED
    BY <1>1, <1>2, <1>3 DEF Placed

(* A worker fails.                                                         *)
LEMMA TaskFailsPlaced ==
    ASSUME Types, NEW at \in [Requests -> Places],
           NEW by \in [Requests -> Holders], Placed(at, by),
           NEW w \in Workers, TaskFails(w),
           NEW m \in Requests, task[w] = {m}
    PROVE  Placed([at EXCEPT ![m] = "dropped"], by)'
  <1>1. /\ UNCHANGED <<outgoing, requests, nreq, delivered, undelivered, replies>>
        /\ dropped' = dropped \cup {m}
        /\ \A v \in Workers : task'[v] = IF v = w THEN {} ELSE task[v]
    BY DEF TaskFails, push, pull, Types, TypeOK
  <1>2. at[m] = "task" /\ by[m] = w
    BY DEF Placed
  <1>3. QED
    BY <1>1, <1>2 DEF Placed

(* The event thread reads a reply: it is delivered or it is not.           *)
LEMMA OnReadPlaced ==
    ASSUME Types, Singles, NEW at \in [Requests -> Places],
           NEW by \in [Requests -> Holders], Placed(at, by),
           NEW w \in Workers, OnRead(w), NEW m, m = Head(replies[w])
    PROVE  /\ m \in Requests
           /\ OnReadDelivered(w) => Placed([at EXCEPT ![m] = "delivered"], by)'
           /\ OnReadFailed(w) => Placed([at EXCEPT ![m] = "undelivered"], by)'
  <1>1. /\ replies[w] \in Seq(Requests) /\ replies[w] # <<>>
        /\ Once(replies[w]) /\ m \in Requests
    BY HeadTailProperties DEF OnRead, Types, TypeOK, Singles
  <1>2. /\ UNCHANGED <<outgoing, requests, task, nreq, dropped>>
        /\ replies' = [replies EXCEPT ![w] = Tail(@)]
    BY DEF OnRead, push, threads
  <1>3. /\ \A v \in Workers, n \in Requests :
              Has(replies'[v], n) <=> Has(replies[v], n) /\ (v = w => n # m)
        /\ Has(replies[w], m)
    <2>1. Abort \notin Requests
      BY DEF Abort, Requests
    <2>2. QED
      BY <1>1, <1>2, <2>1, HasTail DEF Types, TypeOK
  <1>4. at[m] = "reply" /\ by[m] = w
    BY <1>1, <1>3 DEF Placed
  <1>5. ASSUME OnReadDelivered(w) PROVE Placed([at EXCEPT ![m] = "delivered"], by)'
    <2>1. delivered' = delivered \cup {m} /\ undelivered' = undelivered
      BY <1>5 DEF OnReadDelivered
    <2>2. QED
      BY <1>1, <1>2, <1>3, <1>4, <2>1 DEF Placed
  <1>6. ASSUME OnReadFailed(w) PROVE Placed([at EXCEPT ![m] = "undelivered"], by)'
    <2>1. undelivered' = undelivered \cup {m} /\ delivered' = delivered
      BY <1>6 DEF OnReadFailed
    <2>2. QED
      BY <1>1, <1>2, <1>3, <1>4, <2>1 DEF Placed
  <1>7. QED
    BY <1>1, <1>4, <1>5, <1>6

-----------------------------------------------------------------------------
(* Accounted is inductive.                                                 *)

(* Every step leaves every request in one place.                           *)
LEMMA NextOnePlace ==
    Types /\ Singles /\ OnePlace /\ [Next]_vars => OnePlace'
  <1> SUFFICES ASSUME Types, Singles, [Next]_vars,
                      NEW at \in [Requests -> Places],
                      NEW by \in [Requests -> Holders], Placed(at, by)
               PROVE  OnePlace'
    BY DEF OnePlace
  <1>1. ASSUME NEW p \in Places, NEW m \in Requests,
               Placed([at EXCEPT ![m] = p], by)'
        PROVE  OnePlace'
    <2>1. [at EXCEPT ![m] = p] \in [Requests -> Places]
      OBVIOUS
    <2>2. QED
      BY <1>1, <2>1 DEF OnePlace
  <1>2. ASSUME Placed(at, by)' PROVE OnePlace'
    BY <1>2 DEF OnePlace
  <1>3. ASSUME UNCHANGED places PROVE OnePlace'
    BY <1>2, <1>3, PlacedStays
  <1>4. CASE UNCHANGED vars
    BY <1>3, <1>4 DEF vars, push, threads, pull, history, places
  <1>5. CASE Sending
    <2>1. CASE SkipFull
      BY <1>3, <2>1 DEF SkipFull, threads, pull, places
    <2>2. CASE Write
      <3>1. outgoing # {}
        BY <2>2 DEF Write, Singles, Types, TypeOK
      <3>2. PICK m \in Messages : outgoing = {m}
        BY <3>1 DEF Singles
      <3>3. CASE m = Abort
        BY <1>2, <2>2, <3>2, <3>3, WritePlaced
      <3>4. CASE m # Abort
        <4>1. PICK w \in Workers : w = lb[current]
          BY <2>2, <3>2, WritePlaced
        <4>2. /\ m \in Requests
              /\ Placed([at EXCEPT ![m] = "request"], [by EXCEPT ![m] = w])'
          BY <2>2, <3>2, <3>4, <4>1, WritePlaced
        <4>3. /\ [at EXCEPT ![m] = "request"] \in [Requests -> Places]
              /\ [by EXCEPT ![m] = w] \in [Requests -> Holders]
          BY DEF Places, Holders
        <4>4. QED
          BY <4>2, <4>3 DEF OnePlace
      <3>5. QED
        BY <3>3, <3>4
    <2>3. CASE \E w \in Workers : Activate(w)
      BY <1>3, <2>3 DEF Activate, threads, pull, history, places
    <2>4. QED
      BY <1>5, <2>1, <2>2, <2>3 DEF Sending
  <1>6. ASSUME NEW w \in Workers, Worker(w) PROVE OnePlace'
    <2>1. CASE Initialize(w)
      BY <1>3, <2>1 DEF Initialize, ConnectRequest, history, places
    <2>2. CASE InitializeFails(w)
      BY <1>3, <2>2 DEF InitializeFails, ConnectRequest, push, history, places
    <2>3. CASE Receive(w)
      BY <1>1, <1>2, <2>3, ReceivePlaced DEF Places
    <2>4. CASE SendReply(w)
      <3>1. PICK m \in Requests : task[w] = {m}
        BY <2>4 DEF SendReply, Singles
      <3>2. Placed([at EXCEPT ![m] = "reply"], by)'
        BY <2>4, <3>1, SendReplyPlaced
      <3>3. QED
        BY <1>1, <3>2 DEF Places
    <2>5. CASE TaskFails(w)
      <3>1. PICK m \in Requests : task[w] = {m}
        BY <2>5 DEF TaskFails, Singles
      <3>2. Placed([at EXCEPT ![m] = "dropped"], by)'
        BY <2>5, <3>1, TaskFailsPlaced
      <3>3. QED
        BY <1>1, <3>2 DEF Places
    <2>6. QED
      BY <1>6, <2>1, <2>2, <2>3, <2>4, <2>5 DEF Worker
  <1>7. CASE EventThread
    <2>1. CASE OnRequest
      BY <1>1, <2>1, OnRequestPlaced DEF Places
    <2>2. CASE Select \/ OnReadEmpty \/ RunEnds
      BY <1>3, <2>2
         DEF Select, OnReadEmpty, RunEnds, push, threads, pull, history, places
    <2>3. ASSUME NEW w \in Workers, OnRead(w) PROVE OnePlace'
      BY <1>1, <2>3, OnReadPlaced DEF Places, OnRead
    <2>4. QED
      BY <1>7, <2>1, <2>2, <2>3 DEF EventThread
  <1>8. CASE MainThread
    <2>1. CASE Quit \/ AbortWorkers \/ JoinWorkers \/ WorkersJoined
      BY <1>3, <2>1
         DEF Quit, AbortWorkers, JoinWorkers, WorkersJoined, push, threads,
             pull, history, places
    <2>2. CASE AbortOneWorker
      <3>1. \A m \in Requests : m \notin outgoing /\ m \notin outgoing'
        BY <2>2 DEF AbortOneWorker, Abort, Requests
      <3>2. UNCHANGED <<requests, task, replies, nreq, delivered, undelivered,
                        dropped>>
        BY <2>2 DEF AbortOneWorker, threads, pull, history
      <3>3. Placed(at, by)'
        BY <3>1, <3>2 DEF Placed
      <3>4. QED
        BY <1>2, <3>3
    <2>3. QED
      BY <1>8, <2>1, <2>2 DEF MainThread
  <1>9. QED
    BY <1>4, <1>5, <1>6, <1>7, <1>8 DEF Next

(* No step puts a request twice into a pipe or two into a task.            *)
LEMMA NextSingles ==
    Types /\ Singles /\ OnePlace /\ [Next]_vars => Singles'
  <1> SUFFICES ASSUME Types, Singles, [Next]_vars,
                      NEW at \in [Requests -> Places],
                      NEW by \in [Requests -> Holders], Placed(at, by)
               PROVE  Singles'
    BY DEF OnePlace
  <1>1. ASSUME UNCHANGED <<outgoing, requests, replies, wstate, task>>
        PROVE  Singles'
    BY <1>1 DEF Singles
  <1>2. CASE UNCHANGED vars
    BY <1>1, <1>2 DEF vars, push, threads, pull
  <1>3. CASE Sending
    <2>1. CASE SkipFull \/ \E w \in Workers : Activate(w)
      BY <1>1, <2>1 DEF SkipFull, Activate, threads, pull
    <2>2. CASE Write
      <3>1. PICK m \in Messages : outgoing = {m}
        BY <2>2 DEF Write, Singles, Types, TypeOK
      <3>2. PICK w \in Workers : w = lb[current]
        BY <2>2, <3>1, WritePlaced
      <3>3. /\ requests' = [requests EXCEPT ![w] = Append(@, m)]
            /\ outgoing' = {}
            /\ UNCHANGED <<replies, wstate, task>>
        BY <2>2, <3>1, <3>2 DEF Write, threads, pull
      <3>4. ~Has(requests[w], m) \/ m = Abort
        BY <3>1 DEF Placed, Messages
      <3>5. Once(Append(requests[w], m))
        BY <3>4, OnceAppend DEF Singles, Types, TypeOK
      <3>6. \A v \in Workers : Once(requests'[v])
        BY <3>3, <3>5 DEF Singles, Types, TypeOK
      <3>7. QED
        BY <3>3, <3>6 DEF Singles
    <2>3. QED
      BY <1>3, <2>1, <2>2 DEF Sending
  <1>4. ASSUME NEW w \in Workers, Worker(w) PROVE Singles'
    <2>1. CASE Initialize(w)
      BY <2>1 DEF Initialize, ConnectRequest, Singles, Types, TypeOK
    <2>2. CASE InitializeFails(w)
      BY <2>2 DEF InitializeFails, ConnectRequest, push, Singles, Types, TypeOK
    <2>3. CASE Receive(w)
      <3>1. /\ requests[w] \in Seq(Messages) /\ requests[w] # <<>>
            /\ Head(requests[w]) \in Messages
        BY <2>3, HeadTailProperties DEF Receive, Types, TypeOK
      <3>2. Once(Tail(requests[w]))
        BY <3>1, HasTail DEF Singles
      <3>3. \A v \in Workers : Once(requests'[v])
        BY <2>3, <3>2 DEF Receive, Singles, Types, TypeOK
      <3>4. /\ UNCHANGED <<outgoing, replies>>
            /\ \A v \in Workers \ {w} :
                  wstate'[v] = wstate[v] /\ task'[v] = task[v]
        BY <2>3 DEF Receive, pull, Types, TypeOK
      <3>5. CASE Head(requests[w]) = Abort
        <4>1. wstate'[w] = "exited" /\ task'[w] = {}
          BY <2>3, <3>5 DEF Receive, Singles, Types, TypeOK
        <4>2. QED
          BY <3>3, <3>4, <4>1 DEF Singles
      <3>6. CASE Head(requests[w]) # Abort
        <4>1. wstate'[w] = "busy" /\ task'[w] = {Head(requests[w])}
          BY <2>3, <3>6 DEF Receive, Types, TypeOK
        <4>2. Head(requests[w]) \in Requests
          BY <3>1, <3>6 DEF Messages
        <4>3. QED
          BY <3>3, <3>4, <4>1, <4>2 DEF Singles
      <3>7. QED
        BY <3>5, <3>6
    <2>4. CASE SendReply(w)
      <3>1. PICK m \in Requests : task[w] = {m}
        BY <2>4 DEF SendReply, Singles
      <3>2. replies' = [replies EXCEPT ![w] = Append(@, m)]
        BY <2>4, <3>1 DEF SendReply
      <3>3. ~Has(replies[w], m)
        BY <3>1 DEF Placed
      <3>4. Once(Append(replies[w], m))
        BY <3>3, OnceAppend DEF Singles, Types, TypeOK
      <3>5. \A v \in Workers : Once(replies'[v])
        BY <3>2, <3>4 DEF Singles, Types, TypeOK
      <3>6. /\ UNCHANGED <<outgoing, requests>>
            /\ wstate' = [wstate EXCEPT ![w] = "waiting"]
            /\ task' = [task EXCEPT ![w] = {}]
        BY <2>4 DEF SendReply, push
      <3>7. QED
        BY <3>5, <3>6 DEF Singles, Types, TypeOK
    <2>5. CASE TaskFails(w)
      BY <2>5 DEF TaskFails, push, pull, Singles, Types, TypeOK
    <2>6. QED
      BY <1>4, <2>1, <2>2, <2>3, <2>4, <2>5 DEF Worker
  <1>5. CASE EventThread
    <2>1. CASE OnRequest
      <3>1. nreq + 1 \in Messages
        BY <2>1, PoolAssumption
           DEF OnRequest, Types, TypeOK, Messages, Requests
      <3>2. \E m \in Messages : outgoing' = {m}
        BY <2>1, <3>1 DEF OnRequest
      <3>3. UNCHANGED <<requests, replies, wstate, task>>
        BY <2>1 DEF OnRequest, threads, pull
      <3>4. QED
        BY <3>2, <3>3 DEF Singles
    <2>2. CASE Select \/ OnReadEmpty \/ RunEnds
      BY <1>1, <2>2 DEF Select, OnReadEmpty, RunEnds, push, threads, pull
    <2>3. ASSUME NEW w \in Workers, OnRead(w) PROVE Singles'
      <3>1. Once(Tail(replies[w]))
        BY <2>3, HasTail DEF OnRead, Singles, Types, TypeOK
      <3>2. \A v \in Workers : Once(replies'[v])
        BY <2>3, <3>1 DEF OnRead, Singles, Types, TypeOK
      <3>3. UNCHANGED <<outgoing, requests, wstate, task>>
        BY <2>3 DEF OnRead, push, threads
      <3>4. QED
        BY <3>2, <3>3 DEF Singles
    <2>4. QED
      BY <1>5, <2>1, <2>2, <2>3 DEF EventThread
  <1>6. CASE MainThread
    <2>1. CASE Quit \/ AbortWorkers \/ JoinWorkers \/ WorkersJoined
      BY <1>1, <2>1
         DEF Quit, AbortWorkers, JoinWorkers, WorkersJoined, push, threads, pull
    <2>2. CASE AbortOneWorker
      BY <2>2 DEF AbortOneWorker, Singles, threads, pull, Messages
    <2>3. QED
      BY <1>6, <2>1, <2>2 DEF MainThread
  <1>7. QED
    BY <1>2, <1>3, <1>4, <1>5, <1>6 DEF Next

(* No abort message is sent before the event loop has ended, and none of   *)
(* the workers runs once they are joined.                                  *)
LEMMA NextPhases ==
    Types /\ Singles /\ Phases /\ [Next]_vars => Phases'
  <1> SUFFICES ASSUME Types, Singles, Phases, [Next]_vars PROVE Phases'
    OBVIOUS
  <1>1. ASSUME UNCHANGED <<outgoing, requests, wstate, evt, main>>
        PROVE  Phases'
    BY <1>1 DEF Phases
  <1>2. CASE UNCHANGED vars
    BY <1>1, <1>2 DEF vars, push, threads, control
  <1>3. CASE Sending
    <2>1. CASE SkipFull \/ \E w \in Workers : Activate(w)
      BY <1>1, <2>1 DEF SkipFull, Activate, threads, control
    <2>2. CASE Write
      <3>1. PICK m \in Messages :
               /\ outgoing = {m}
               /\ requests' = [requests EXCEPT ![lb[current]] = Append(@, m)]
        BY <2>2 DEF Write, Singles, Types, TypeOK
      <3>2. outgoing' = {} /\ UNCHANGED <<wstate, evt, main>>
        BY <2>2 DEF Write, threads, control
      <3>3. ASSUME evt = "running", NEW v \in Workers
            PROVE  ~Has(requests'[v], Abort)
        <4>1. m # Abort /\ ~Has(requests[v], Abort)
          BY <3>1, <3>3 DEF Phases
        <4>2. ~Has(Append(requests[v], m), Abort)
          BY <4>1, HasAppend DEF Types, TypeOK
        <4>3. QED
          BY <3>1, <4>1, <4>2 DEF Types, TypeOK
      <3>4. QED
        BY <3>2, <3>3 DEF Phases
    <2>3. QED
      BY <1>3, <2>1, <2>2 DEF Sending
  <1>4. ASSUME NEW w \in Workers, Worker(w) PROVE Phases'
    <2>1. wstate[w] # "exited" /\ UNCHANGED <<outgoing, evt, main>>
      BY <1>4 DEF Worker, Initialize, InitializeFails, ConnectRequest, Receive,
                  SendReply, TaskFails, push, control
    <2>2. main' # "done"
      BY <2>1 DEF Phases
    <2>3. \A v \in Workers : Has(requests'[v], Abort) => Has(requests[v], Abort)
      <3>1. CASE Receive(w)
        <4>1. Has(Tail(requests[w]), Abort) => Has(requests[w], Abort)
          BY <3>1, HasTail DEF Receive, Singles, Types, TypeOK
        <4>2. QED
          BY <3>1, <4>1 DEF Receive, Types, TypeOK
      <3>2. CASE ~Receive(w)
        BY <1>4, <3>2
           DEF Worker, Initialize, InitializeFails, ConnectRequest, SendReply,
               TaskFails, push
      <3>3. QED
        BY <3>1, <3>2
    <2>4. QED
      BY <2>1, <2>2, <2>3 DEF Phases
  <1>5. CASE EventThread
    <2>1. CASE OnRequest
      <3>1. outgoing' = {nreq + 1} /\ nreq + 1 # Abort
        BY <2>1 DEF OnRequest, Abort, Types, TypeOK
      <3>2. UNCHANGED <<requests, wstate, evt, main>>
        BY <2>1 DEF OnRequest, threads, control
      <3>3. QED
        BY <3>1, <3>2 DEF Phases
    <2>2. CASE Select \/ OnReadEmpty \/ \E w \in Workers : OnRead(w)
      BY <1>1, <2>2 DEF Select, OnReadEmpty, OnRead, push, threads, control
    <2>3. CASE RunEnds
      BY <2>3 DEF RunEnds, Phases, push, threads
    <2>4. QED
      BY <1>5, <2>1, <2>2, <2>3 DEF EventThread
  <1>6. CASE MainThread
    BY <1>6
       DEF MainThread, Quit, AbortWorkers, AbortOneWorker, JoinWorkers,
           WorkersJoined, Phases, push, threads
  <1>7. QED
    BY <1>2, <1>3, <1>4, <1>5, <1>6 DEF Next

(* At first there are no requests.                                         *)
LEMMA InitAccounted == Init => Types /\ Accounted
  <1> SUFFICES ASSUME Init PROVE Types /\ Accounted
    OBVIOUS
  <1>1. \A n : ~Has(<<>>, n)
    BY DEF Has, Positions
  <1>2. OnePlace
    <2> DEFINE at == [m \in Requests |-> "none"]
    <2>1. at \in [Requests -> Places] /\ [m \in Requests |-> "none"] \in [Requests -> Holders]
      BY DEF Places, Holders
    <2>2. Placed(at, at)
      BY <1>1 DEF Placed, Init, Requests
    <2>3. QED
      BY <2>1, <2>2 DEF OnePlace
  <1>3. Singles
    BY DEF Init, Singles, Once
  <1>4. Phases
    BY <1>1 DEF Init, Phases
  <1>5. QED
    BY <1>2, <1>3, <1>4, InitTypes DEF Accounted

(* ... and every step accounts for all of them.                            *)
LEMMA NextAccounted ==
    Types /\ Accounted /\ [Next]_vars => (Types /\ Accounted)'
  BY NextTypes, NextOnePlace, NextSingles, NextPhases DEF Accounted

(* Every request that was distributed is in exactly one place for ever,    *)
(* whatever the threads do: in the send, in one request pipe once, in one  *)
(* task, in one reply pipe once, or settled in one of three ways           *)
(* (hitsuji.cc OnRequest and OnRead, worker.cc MainLoop and SendReply).    *)
THEOREM AccountedInvariant == Spec => [](Types /\ Accounted)
  BY InitAccounted, NextAccounted, PTL DEF Spec

-----------------------------------------------------------------------------
(* The gridlock and the open window.                                       *)

(* The request that cannot be sent and those of one full pipe are distinct *)
(* and unsettled: they are more than the pipe holds.                       *)
LEMMA FullPipeUnsettled ==
    ASSUME Types, Accounted, evt = "running", outgoing # {},
           NEW w \in Workers, Full(w)
    PROVE  Cardinality(Unsettled) > OpenWindow
  <1>1. PICK at \in [Requests -> Places], by \in [Requests -> Holders] :
           Placed(at, by)
    BY DEF Accounted, OnePlace
  <1>2. PICK m \in Messages : outgoing = {m}
    BY DEF Accounted, Singles
  <1>3. nreq \in Nat /\ 1..nreq \subseteq Requests
    BY PoolAssumption DEF Types, TypeOK, Requests
  <1>4. \A n \in Requests :
           at[n] \in {"outgoing", "request"} => n \in Unsettled
    <2> TAKE n \in Requests
    <2> HAVE at[n] \in {"outgoing", "request"}
    <2>1. /\ ~(n > nreq) /\ n \notin delivered /\ n \notin undelivered
          /\ n \notin dropped
      BY <1>1 DEF Placed
    <2>2. n \in 1..nreq
      BY <1>3, <2>1, PoolAssumption DEF Requests
    <2>3. QED
      BY <2>1, <2>2 DEF Unsettled, Settled
  <1>5. m \in Requests /\ at[m] = "outgoing" /\ m \in Unsettled
    <2>1. m \in Requests
      BY <1>2 DEF Accounted, Phases, Messages
    <2>2. at[m] = "outgoing"
      BY <1>1, <1>2, <2>1 DEF Placed
    <2>3. QED
      BY <1>4, <2>1, <2>2
  <1> DEFINE q == requests[w]
  <1>6. /\ q \in Seq(Messages) /\ Len(q) \in Nat /\ DOMAIN q = 1..Len(q)
        /\ HWM \in Nat /\ HWM <= Len(q) /\ Once(q) /\ ~Has(q, Abort)
    BY PoolAssumption, LenProperties
       DEF Types, TypeOK, Full, Accounted, Singles, Phases
  <1> HIDE DEF q
  <1>7. ASSUME NEW i \in 1..HWM
        PROVE  q[i] \in Unsettled /\ q[i] # m /\ i \in DOMAIN q /\ q[i] # Abort
    <2>1. i \in 1..Len(q)
      BY <1>6
    <2>2. Has(q, q[i])
      BY <1>6, <2>1 DEF Has, Positions
    <2>3. q[i] \in Messages /\ q[i] # Abort
      BY <1>6, <2>1, <2>2, ElementOfSeq
    <2>4. q[i] \in Requests
      BY <2>3 DEF Messages
    <2>5. at[q[i]] = "request"
      BY <1>1, <2>2, <2>4 DEF Placed, q
    <2>6. QED
      BY <1>4, <1>5, <1>6, <2>1, <2>3, <2>4, <2>5
  <1> DEFINE held == [i \in 1..(HWM + 1) |-> IF i <= HWM THEN q[i] ELSE m]
  <1>8. held \in Injection(1..(HWM + 1), Unsettled)
    <2>1. ASSUME NEW i \in 1..(HWM + 1) PROVE held[i] \in Unsettled
      BY <1>5, <1>6, <1>7
    <2>2. ASSUME NEW i \in 1..(HWM + 1), NEW j \in 1..(HWM + 1),
                 held[i] = held[j]
          PROVE  i = j
      <3>1. CASE i <= HWM /\ j <= HWM
        <4>1. i \in 1..HWM /\ j \in 1..HWM /\ q[i] = q[j]
          BY <1>6, <2>2, <3>1
        <4>2. QED
          BY <1>6, <1>7, <4>1 DEF Once
      <3>2. CASE i <= HWM /\ ~(j <= HWM)
        <4>1. i \in 1..HWM /\ q[i] = m
          BY <1>6, <2>2, <3>2
        <4>2. QED
          BY <1>7, <4>1
      <3>3. CASE ~(i <= HWM) /\ j <= HWM
        <4>1. j \in 1..HWM /\ q[j] = m
          BY <1>6, <2>2, <3>3
        <4>2. QED
          BY <1>7, <4>1
      <3>4. CASE ~(i <= HWM) /\ ~(j <= HWM)
        BY <1>6, <3>4
      <3>5. QED
        BY <3>1, <3>2, <3>3, <3>4
    <2>3. held \in [1..(HWM + 1) -> Unsettled]
      BY <2>1
    <2> HIDE DEF held
    <2>4. QED
      BY <2>2, <2>3 DEF Injection, IsInjective
  <1> HIDE DEF held
  <1>9. IsFiniteSet(Unsettled) /\ Cardinality(Unsettled) \in Nat
    <2>1. IsFiniteSet(1..nreq)
      BY <1>3, FS_Interval
    <2>2. Unsettled \in SUBSET (1..nreq)
      BY DEF Unsettled
    <2>3. IsFiniteSet(Unsettled)
      BY <2>1, <2>2, FS_Subset
    <2>4. QED
      BY <2>3, FS_CardinalityType
  <1>10. Cardinality(1..(HWM + 1)) = HWM + 1
    BY <1>6, FS_Interval
  <1>11. HWM + 1 <= Cardinality(Unsettled)
    BY <1>8, <1>9, <1>10, FS_Injection
  <1>12. QED
    BY <1>6, <1>9, <1>11, PoolAssumption

(* However many workers there are and whatever the capacity of the pipes,  *)
(* the event thread and the workers wait for each other only when more     *)
(* requests are outstanding than the open window the provider advertises,  *)
(* which is no more than a pipe holds (provider.cc 1868, hitsuji.cc        *)
(* OnRequest, worker.cc SendReply).                                        *)
THEOREM GridlockIsOverrun == Spec => []GridlockNeedsOverrun
  <1>1. Types /\ Accounted => GridlockNeedsOverrun
    <2> SUFFICES ASSUME Types, Accounted, evt = "running", Gridlock
                 PROVE  Cardinality(Unsettled) > OpenWindow
      BY DEF GridlockNeedsOverrun
    <2>1. PICK w \in connected : Full(w)
      BY DEF Gridlock
    <2>2. QED
      BY <2>1, FullPipeUnsettled DEF Gridlock, Types, TypeOK
  <1>2. QED
    BY <1>1, AccountedInvariant, PTL

-----------------------------------------------------------------------------
(* The refinement of Dispatcher.                                           *)

(* How far a request is, by its place.                                     *)
StageOf(p) ==
    IF p \in {"outgoing", "request"} THEN "pending"
    ELSE IF p = "task" THEN "taken"
    ELSE IF p = "reply" THEN "replied"
    ELSE p

(* The cases of Status exclude each other, and none is lost.               *)
StatusIsStage ==
    \A at \in [Requests -> Places], by \in [Requests -> Holders] :
        Types /\ Placed(at, by) =>
            \A m \in Requests : Status(m) = StageOf(at[m])

LEMMA StatusOfPlace == StatusIsStage
  <1> SUFFICES ASSUME NEW at \in [Requests -> Places],
                      NEW by \in [Requests -> Holders],
                      Types, Placed(at, by), NEW m \in Requests
               PROVE  Status(m) = StageOf(at[m])
    BY DEF StatusIsStage
  <1>1. at[m] \in Places
    OBVIOUS
  <1>2. CASE at[m] \in {"none", "delivered", "undelivered", "dropped"}
    <2>1. /\ at[m] = "none" <=> m > nreq
          /\ at[m] = "delivered" <=> m \in delivered
          /\ at[m] = "undelivered" <=> m \in undelivered
          /\ at[m] = "dropped" <=> m \in dropped
      BY DEF Placed
    <2>2. CASE at[m] = "none"
      BY <2>1, <2>2 DEF Status, StageOf
    <2>3. CASE at[m] \in {"delivered", "undelivered", "dropped"}
      BY <2>1, <2>3 DEF Status, StageOf
    <2>4. QED
      BY <1>2, <2>2, <2>3
  <1>3. CASE at[m] \in {"outgoing", "request", "task", "reply"}
    <2>1. ~(m > nreq) /\ m \notin delivered /\ m \notin undelivered /\ m \notin dropped
      BY <1>3 DEF Placed
    <2>2. /\ at[m] = "reply" <=> \E w \in Workers : Positions(replies[w], m) # {}
          /\ at[m] = "task" <=> \E w \in Workers : m \in task[w]
          /\ at[m] = "request" <=> \E w \in Workers : Positions(requests[w], m) # {}
          /\ at[m] = "outgoing" <=> m \in outgoing
      BY DEF Placed, Has
    <2>3. Status(m) = IF at[m] = "reply" THEN "replied"
                      ELSE IF at[m] = "task" THEN "taken"
                      ELSE IF at[m] \in {"outgoing", "request"} THEN "pending"
                      ELSE "lost"
      BY <2>1, <2>2 DEF Status
    <2>4. QED
      BY <1>3, <2>3 DEF StageOf
  <1>4. QED
    BY <1>1, <1>2, <1>3 DEF Places

(* It holds in every state, so after a step too.                           *)
LEMMA StatusOfPlaceNext == StatusIsStage'
  BY StatusOfPlace, PTL

statuses == [m \in Requests |-> Status(m)]

(* A request that changes places goes to another stage, and no other does. *)
LEMMA StatusMoves ==
    ASSUME Types, Types', NEW at \in [Requests -> Places],
           NEW by \in [Requests -> Holders], Placed(at, by),
           NEW m \in Requests, NEW p \in Places,
           NEW by2 \in [Requests -> Holders], Placed([at EXCEPT ![m] = p], by2)'
    PROVE  Dispatch!Moves(m, StageOf(at[m]), StageOf(p))
  <1> DEFINE at2 == [at EXCEPT ![m] = p]
  <1>1. at2 \in [Requests -> Places] /\ Placed(at2, by2)'
    OBVIOUS
  <1>2. at2[m] = p /\ \A n \in Requests : n # m => at2[n] = at[n]
    OBVIOUS
  <1> HIDE DEF at2
  <1>3. \A n \in Requests : Status(n) = StageOf(at[n])
    BY StatusOfPlace DEF StatusIsStage
  <1>4. \A n \in Requests : Status(n)' = StageOf(at2[n])
    BY <1>1, StatusOfPlaceNext DEF StatusIsStage
  <1>5. QED
    BY <1>2, <1>3, <1>4 DEF Dispatch!Moves

(* At first every request is none and the pool is as Dispatcher starts.    *)
LEMMA InitDispatches == Init => Dispatch!Init
  <1> SUFFICES ASSUME Init PROVE Dispatch!Init
    OBVIOUS
  <1>1. \A m \in Requests : m > nreq
    BY DEF Init, Requests
  <1>2. QED
    BY <1>1 DEF Init, Dispatch!Init, Status, Phase

(* A step that leaves the requests, the workers and the phase as they are. *)
LEMMA Stutters ==
    ASSUME UNCHANGED <<statuses, wstate, task, Phase>>
    PROVE  UNCHANGED Dispatch!vars
  BY DEF Dispatch!vars, statuses

(* Nothing that tells a request's stage has changed.                       *)
LEMMA StatusStays ==
    ASSUME UNCHANGED places PROVE UNCHANGED statuses
  BY DEF places, statuses, Status, Positions

(* A worker's step is one of Dispatcher's.                                 *)
LEMMA WorkerDispatches ==
    ASSUME Types, Types', Singles, Phases, NEW at \in [Requests -> Places],
           NEW by \in [Requests -> Holders], Placed(at, by),
           NEW w \in Workers, Worker(w)
    PROVE  Dispatch!Next
  <1>1. Phase' = Phase
    BY DEF Worker, Initialize, InitializeFails, Receive, SendReply, TaskFails,
           control, Phase
  <1>2. wstate \in [Workers -> {"starting", "waiting", "busy", "exited"}]
    BY DEF Types, TypeOK
  <1>3. CASE Initialize(w)
    <2>1. UNCHANGED statuses
      BY <1>3, StatusStays DEF Initialize, ConnectRequest, history, places
    <2>2. Dispatch!Start(w)
      BY <1>1, <1>3, <2>1
         DEF Initialize, Dispatch!Start, Dispatch!Becomes, statuses
    <2>3. QED
      BY <2>2 DEF Dispatch!Next
  <1>4. CASE InitializeFails(w)
    <2>1. UNCHANGED statuses
      BY <1>4, StatusStays
         DEF InitializeFails, ConnectRequest, push, history, places
    <2>2. Dispatch!Start(w)
      BY <1>1, <1>4, <2>1
         DEF InitializeFails, Dispatch!Start, Dispatch!Becomes, statuses
    <2>3. QED
      BY <2>2 DEF Dispatch!Next
  <1>5. CASE Receive(w)
    <2> DEFINE m == Head(requests[w])
    <2>1. CASE m = Abort
      <3>1. Has(requests[w], Abort)
        <4>1. requests[w] \in Seq(Messages) /\ requests[w] # <<>>
          BY <1>5 DEF Receive, Types, TypeOK
        <4>2. QED
          BY <2>1, <4>1, HasTail DEF Singles
      <3>2. evt = "stopped" /\ main # "done"
        BY <1>5, <3>1 DEF Phases, Receive, Types, TypeOK
      <3>3. UNCHANGED statuses
        <4>1. Placed(at, by)'
          BY <1>5, <2>1, ReceivePlaced
        <4>2. \A n \in Requests : Status(n) = StageOf(at[n]) /\ Status(n)' = StageOf(at[n])
          BY <4>1, StatusOfPlace, StatusOfPlaceNext DEF StatusIsStage
        <4>3. QED
          BY <4>2 DEF statuses
      <3>4. Dispatch!Retire(w)
        BY <1>1, <1>5, <2>1, <3>2, <3>3
           DEF Receive, Phase, Dispatch!Retire, Dispatch!Becomes, statuses
      <3>5. QED
        BY <3>4 DEF Dispatch!Next
    <2>2. CASE m # Abort
      <3>1. PICK n \in Requests : n = m
        BY <1>5, <2>2, ReceivePlaced
      <3>2. at[n] = "request"
        <4>1. requests[w] \in Seq(Messages) /\ requests[w] # <<>>
          BY <1>5 DEF Receive, Types, TypeOK
        <4>2. Has(requests[w], n)
          BY <3>1, <4>1, HasTail DEF Singles
        <4>3. QED
          BY <4>2 DEF Placed
      <3>3. Placed([at EXCEPT ![n] = "task"], by)'
        BY <1>5, <2>2, <3>1, ReceivePlaced
      <3>4. Dispatch!Moves(n, StageOf("request"), StageOf("task"))
        BY <3>2, <3>3, StatusMoves DEF Places
      <3>5. Dispatch!Take(w, n)
        BY <1>1, <1>5, <2>2, <3>1, <3>4
           DEF Receive, StageOf, Dispatch!Take, Dispatch!Becomes
      <3>6. QED
        BY <3>5 DEF Dispatch!Next
    <2>3. QED
      BY <2>1, <2>2
  <1>6. CASE SendReply(w)
    <2>1. PICK m \in Requests : task[w] = {m}
      BY <1>6 DEF SendReply, Singles
    <2>2. at[m] = "task"
      BY <2>1 DEF Placed
    <2>3. Placed([at EXCEPT ![m] = "reply"], by)'
      BY <1>6, <2>1, SendReplyPlaced
    <2>4. Dispatch!Moves(m, StageOf("task"), StageOf("reply"))
      BY <2>2, <2>3, StatusMoves DEF Places
    <2>5. Dispatch!Reply(w, m)
      BY <1>1, <1>6, <2>1, <2>4
         DEF SendReply, StageOf, Dispatch!Reply, Dispatch!Becomes
    <2>6. QED
      BY <2>5 DEF Dispatch!Next
  <1>7. CASE TaskFails(w)
    <2>1. PICK m \in Requests : task[w] = {m}
      BY <1>7 DEF TaskFails, Singles
    <2>2. at[m] = "task"
      BY <2>1 DEF Placed
    <2>3. Placed([at EXCEPT ![m] = "dropped"], by)'
      BY <1>7, <2>1, TaskFailsPlaced
    <2>4. Dispatch!Moves(m, StageOf("task"), StageOf("dropped"))
      BY <2>2, <2>3, StatusMoves DEF Places
    <2>5. Dispatch!Drop(w, m)
      BY <1>1, <1>7, <2>1, <2>4
         DEF TaskFails, StageOf, Dispatch!Drop, Dispatch!Becomes
    <2>6. QED
      BY <2>5 DEF Dispatch!Next
  <1>8. QED
    BY <1>3, <1>4, <1>5, <1>6, <1>7 DEF Worker

(* A step of the socket is none of Dispatcher's.                           *)
LEMMA SendingStutters ==
    ASSUME Types, Types', Singles, NEW at \in [Requests -> Places],
           NEW by \in [Requests -> Holders], Placed(at, by), Sending
    PROVE  UNCHANGED Dispatch!vars
  <1>1. UNCHANGED <<wstate, task, Phase>>
    BY DEF Sending, SkipFull, Write, Activate, threads, control, Phase
  <1>2. CASE SkipFull \/ \E w \in Workers : Activate(w)
    <2>1. UNCHANGED places
      BY <1>2 DEF SkipFull, Activate, threads, pull, history, places
    <2>2. QED
      BY <1>1, <2>1, StatusStays, Stutters
  <1>3. CASE Write
    <2>1. PICK m \in Messages : outgoing = {m}
      BY <1>3 DEF Write, Singles, Types, TypeOK
    <2>2. PICK w \in Workers : w = lb[current]
      BY <1>3, <2>1, WritePlaced
    <2>3. CASE m = Abort
      <3>1. Placed(at, by)'
        BY <1>3, <2>1, <2>2, <2>3, WritePlaced
      <3>2. \A n \in Requests : Status(n) = StageOf(at[n]) /\ Status(n)' = StageOf(at[n])
        BY <3>1, StatusOfPlace, StatusOfPlaceNext DEF StatusIsStage
      <3>3. QED
        BY <1>1, <3>2, Stutters DEF statuses
    <2>4. CASE m # Abort
      <3>1. /\ m \in Requests /\ at[m] = "outgoing"
            /\ Placed([at EXCEPT ![m] = "request"], [by EXCEPT ![m] = w])'
        BY <1>3, <2>1, <2>2, <2>4, WritePlaced
      <3>2. [by EXCEPT ![m] = w] \in [Requests -> Holders]
        BY DEF Holders
      <3>3. Dispatch!Moves(m, StageOf("outgoing"), StageOf("request"))
        BY <3>1, <3>2, StatusMoves DEF Places
      <3>4. UNCHANGED statuses
        BY <3>1, <3>3 DEF StageOf, statuses, Dispatch!Moves
      <3>5. QED
        BY <1>1, <3>4, Stutters
    <2>5. QED
      BY <2>3, <2>4
  <1>4. QED
    BY <1>2, <1>3 DEF Sending

(* The event thread accepts a request, answers one or ends.                *)
LEMMA EventThreadDispatches ==
    ASSUME Types, Types', Singles, Phases, NEW at \in [Requests -> Places],
           NEW by \in [Requests -> Holders], Placed(at, by), EventThread
    PROVE  Dispatch!Next \/ UNCHANGED Dispatch!vars
  <1>1. evt = "running" /\ main \in {"running", "quit"}
    BY DEF EventThread, OnRequest, Select, OnReadEmpty, RunEnds, OnRead,
           EventThreadFree, Phases, Types, TypeOK
  <1>2. UNCHANGED <<wstate, task>>
    BY DEF EventThread, OnRequest, Select, OnReadEmpty, RunEnds, OnRead, threads
  <1>3. CASE OnRequest
    <2>1. PICK m \in Requests : m = nreq + 1
      BY <1>3, OnRequestPlaced
    <2>2. at[m] = "none"
      BY <2>1 DEF Placed, Types, TypeOK
    <2>3. Placed([at EXCEPT ![m] = "outgoing"], by)'
      BY <1>3, <2>1, OnRequestPlaced
    <2>4. Dispatch!Moves(m, StageOf("none"), StageOf("outgoing"))
      BY <2>2, <2>3, StatusMoves DEF Places
    <2>5. Dispatch!Accept(m)
      BY <1>1, <1>2, <1>3, <2>4
         DEF OnRequest, control, Phase, StageOf, Dispatch!Accept
    <2>6. QED
      BY <2>5 DEF Dispatch!Next
  <1>4. CASE Select \/ OnReadEmpty
    <2>1. UNCHANGED <<places, Phase>>
      BY <1>4 DEF Select, OnReadEmpty, push, threads, control, history, places,
                  Phase
    <2>2. QED
      BY <1>2, <2>1, StatusStays, Stutters
  <1>5. CASE RunEnds
    <2>1. UNCHANGED places
      BY <1>5 DEF RunEnds, push, threads, pull, history, places
    <2>2. Phase = "serving" /\ Phase' = "stopping"
      BY <1>1, <1>5 DEF RunEnds, Phase
    <2>3. Dispatch!EventThreadEnds
      BY <1>2, <2>1, <2>2, StatusStays DEF Dispatch!EventThreadEnds, statuses
    <2>4. QED
      BY <2>3 DEF Dispatch!Next
  <1>6. ASSUME NEW w \in Workers, OnRead(w) PROVE Dispatch!Next
    <2>1. PICK m \in Requests : m = Head(replies[w])
      BY <1>6, OnReadPlaced
    <2>2. at[m] = "reply"
      <3>1. replies[w] \in Seq(Requests) /\ replies[w] # <<>>
        BY <1>6 DEF OnRead, Types, TypeOK
      <3>2. Has(replies[w], m)
        BY <2>1, <3>1, HasTail DEF Singles
      <3>3. QED
        BY <3>2 DEF Placed
    <2>3. \/ Placed([at EXCEPT ![m] = "delivered"], by)'
          \/ Placed([at EXCEPT ![m] = "undelivered"], by)'
      BY <1>6, <2>1, OnReadPlaced DEF OnRead
    <2>4. \/ Dispatch!Moves(m, StageOf("reply"), StageOf("delivered"))
          \/ Dispatch!Moves(m, StageOf("reply"), StageOf("undelivered"))
      BY <2>2, <2>3, StatusMoves DEF Places
    <2>5. Phase = "serving" /\ Phase' = Phase
      BY <1>1, <1>6 DEF OnRead, control, Phase
    <2>6. Dispatch!Answer(m)
      BY <1>2, <2>4, <2>5 DEF Dispatch!Answer, StageOf
    <2>7. QED
      BY <2>6 DEF Dispatch!Next
  <1>7. QED
    BY <1>3, <1>4, <1>5, <1>6 DEF EventThread

(* The main thread joins, or does what Dispatcher does not see.            *)
LEMMA MainThreadDispatches ==
    ASSUME Types, Types', Singles, Phases, NEW at \in [Requests -> Places],
           NEW by \in [Requests -> Holders], Placed(at, by), MainThread
    PROVE  Dispatch!Next \/ UNCHANGED Dispatch!vars
  <1>1. UNCHANGED <<wstate, task>>
    BY DEF MainThread, Quit, AbortWorkers, AbortOneWorker, JoinWorkers,
           WorkersJoined, threads
  <1>2. UNCHANGED statuses
    <2>1. CASE AbortOneWorker
      <3>1. \A m \in Requests : m \notin outgoing /\ m \notin outgoing'
        BY <2>1 DEF AbortOneWorker, Abort, Requests
      <3>2. UNCHANGED <<requests, task, replies, nreq, delivered, undelivered,
                        dropped>>
        BY <2>1 DEF AbortOneWorker, threads, pull, history
      <3>3. QED
        BY <3>1, <3>2 DEF statuses, Status, Positions
    <2>2. CASE ~AbortOneWorker
      BY <2>2, StatusStays
         DEF MainThread, Quit, AbortWorkers, JoinWorkers, WorkersJoined, push,
             threads, pull, history, places
    <2>3. QED
      BY <2>1, <2>2
  <1>3. CASE WorkersJoined
    <2>1. Phase = "stopping" /\ Phase' = "done"
      BY <1>3 DEF WorkersJoined, Phases, Phase
    <2>2. Dispatch!Join
      BY <1>1, <1>2, <1>3, <2>1 DEF WorkersJoined, Dispatch!Join, statuses
    <2>3. QED
      BY <2>2 DEF Dispatch!Next
  <1>4. CASE ~WorkersJoined
    <2>1. UNCHANGED Phase
      BY <1>4 DEF MainThread, Quit, AbortWorkers, AbortOneWorker, JoinWorkers,
                  Phase
    <2>2. QED
      BY <1>1, <1>2, <2>1, Stutters
  <1>5. QED
    BY <1>3, <1>4

(* Every step of the pool is a step of Dispatcher or none.                 *)
LEMMA NextDispatches ==
    /\ Types /\ Accounted /\ [Next]_vars
    => [Dispatch!Next]_(Dispatch!vars)
  <1> SUFFICES ASSUME Types, Accounted, [Next]_vars
               PROVE  Dispatch!Next \/ UNCHANGED Dispatch!vars
    OBVIOUS
  <1>1. Types'
    BY NextTypes
  <1>2. PICK at \in [Requests -> Places], by \in [Requests -> Holders] :
           Placed(at, by)
    BY DEF Accounted, OnePlace
  <1>3. Singles /\ Phases
    BY DEF Accounted
  <1>4. CASE UNCHANGED vars
    <2>1. UNCHANGED <<places, wstate, task, Phase>>
      BY <1>4 DEF vars, push, threads, pull, control, history, places, Phase
    <2>2. QED
      BY <2>1, StatusStays, Stutters
  <1>5. QED
    BY <1>1, <1>2, <1>3, <1>4, WorkerDispatches, SendingStutters,
       EventThreadDispatches, MainThreadDispatches DEF Next

(* The pool keeps the promise of Dispatcher for any number of workers,     *)
(* pipe capacity and number of requests: no request is lost, taken or      *)
(* answered twice, moved back, or answered after the event loop, and no    *)
(* worker ends for an abort before it (hitsuji.cc OnRequest and OnRead,    *)
(* worker.cc MainLoop and SendReply).                                      *)
THEOREM PoolImplementsDispatcher == Spec => Dispatches
  <1>1. Spec => Dispatch!Init
    BY InitDispatches, PTL DEF Spec
  <1>2. Spec => [][Dispatch!Next]_(Dispatch!vars)
    BY AccountedInvariant, NextDispatches, PTL DEF Spec
  <1>3. QED
    BY <1>1, <1>2, PTL DEF Dispatches, Dispatch!Spec

-----------------------------------------------------------------------------
(* The round of aborts.                                                    *)

(* A worker is in the rotation at most once, and only when connected.      *)
Rotation ==
    /\ \A i, j \in 1..Len(lb) : lb[i] = lb[j] => i = j
    /\ \A i \in 1..Len(lb) : lb[i] \in connected
    /\ \A w \in connected : wstate[w] # "starting"

(* Nothing is being sent when the round begins, and no abort is on its way *)
(* before it.                                                              *)
Quiet ==
    /\ main = "running" => evt = "running"
    /\ evt = "stopped" /\ main = "quit" => outgoing = {}
    /\ main \in {"aborting", "joining"} => outgoing \subseteq {Abort}
    /\ main \in {"running", "quit"} =>
          \A w \in Workers : Positions(requests[w], Abort) = {}

InRound == main \in {"aborting", "joining"} /\ ~skipped

(* How many writes ago the socket was at position i, all pipes active.     *)
Behind(i) == IF i < current THEN current - 1 - i ELSE Len(lb) + current - 1 - i

Unsent == aborts + (IF outgoing = {} THEN 0 ELSE 1)

HasOneAbort(w) == \E k \in Nat : Positions(requests[w], Abort) = {k}

Reached(w) == wstate[w] = "exited" \/ HasOneAbort(w)

Untouched(w) == Positions(requests[w], Abort) = {}

(* In the round the rotation holds every worker; those the socket has been *)
(* at have their abort or have ended, the others have none.                *)
Round ==
    /\ \A w \in Workers : \E i \in 1..Len(lb) : lb[i] = w
    /\ Unsent <= Len(lb)
    /\ main = "joining" => Unsent = 0
    /\ \A w \in Workers, i \in 1..Len(lb) : lb[i] = w =>
          IF Behind(i) < Len(lb) - Unsent THEN Reached(w) ELSE Untouched(w)

Aborting == Rotation /\ Quiet /\ (InRound => Round)

-----------------------------------------------------------------------------
(* The rotation.                                                           *)

(* A connected pipe that is not in the rotation joins it at the end.       *)
LEMMA RotationJoined ==
    ASSUME Types, Rotation, NEW w \in Workers, lb' = Append(lb, w),
           \A i \in 1..Len(lb) : lb[i] # w, w \in connected',
           connected \subseteq connected'
    PROVE  /\ \A i, j \in 1..Len(lb') : lb'[i] = lb'[j] => i = j
           /\ \A i \in 1..Len(lb') : lb'[i] \in connected'
  <1>1. /\ Len(lb) \in Nat /\ Len(lb') = Len(lb) + 1
        /\ \A i \in 1..Len(lb) : lb'[i] = lb[i]
        /\ lb'[Len(lb) + 1] = w
    BY AppendProperties, LenProperties DEF Types, TypeOK
  <1>2. \A i \in 1..Len(lb') : i \in 1..Len(lb) \/ i = Len(lb) + 1
    BY <1>1
  <1>3. QED
    BY <1>1, <1>2 DEF Rotation

(* A full pipe leaves the rotation: the last one takes its place.          *)
LEMMA RotationSkipped ==
    ASSUME Types, Rotation, SkipFull
    PROVE  /\ \A i, j \in 1..Len(lb') : lb'[i] = lb'[j] => i = j
           /\ \A i \in 1..Len(lb') : lb'[i] \in connected
  <1> DEFINE moved == [lb EXCEPT ![current] = lb[Len(lb)]]
  <1>1. Len(lb) \in Nat /\ Len(lb) > 0 /\ current \in 1..Len(lb) /\ lb \in Seq(Workers)
    BY DEF SkipFull, Types, TypeOK, CurrentInRange
  <1>2. lb[Len(lb)] \in Workers
    BY <1>1, ElementOfSeq
  <1>3. /\ moved \in Seq(Workers) /\ Len(moved) = Len(lb)
        /\ \A j \in 1..Len(lb) :
              moved[j] = IF j = current THEN lb[Len(lb)] ELSE lb[j]
    BY <1>1, <1>2, ExceptSeq
  <1>4. lb' = SubSeq(moved, 1, Len(lb) - 1)
    BY DEF SkipFull
  <1> HIDE DEF moved
  <1>5. /\ Len(lb') = Len(lb) - 1
        /\ \A j \in 1..(Len(lb) - 1) : lb'[j] = moved[j]
    <2>1. 1 \in 1..(Len(moved) + 1) /\ Len(lb) - 1 \in 0..Len(moved)
      BY <1>1, <1>3
    <2>2. /\ Len(SubSeq(moved, 1, Len(lb) - 1)) = Len(lb) - 1
          /\ \A j \in 1..(Len(lb) - 1) :
                SubSeq(moved, 1, Len(lb) - 1)[j] = moved[j]
      BY <1>1, <1>3, <2>1
    <2>3. QED
      BY <1>4, <2>2
  <1>6. \A j \in 1..Len(lb') :
           /\ j \in 1..Len(lb) /\ j # Len(lb) /\ Len(lb) \in 1..Len(lb)
           /\ lb'[j] = IF j = current THEN lb[Len(lb)] ELSE lb[j]
    BY <1>1, <1>3, <1>5
  <1>7. QED
    BY <1>6 DEF Rotation

(* A worker connects once, before it waits for a request.                  *)
LEMMA NextRotation == Types /\ Rotation /\ [Next]_vars => Rotation'
  <1> SUFFICES ASSUME Types, Rotation, [Next]_vars PROVE Rotation'
    OBVIOUS
  <1>1. ASSUME UNCHANGED <<lb, connected, wstate>> PROVE Rotation'
    BY <1>1 DEF Rotation
  <1>2. CASE UNCHANGED vars
    BY <1>1, <1>2 DEF vars, push, threads
  <1>3. CASE Sending
    <2>1. CASE SkipFull
      <3>1. UNCHANGED <<connected, wstate>>
        BY <2>1 DEF SkipFull, threads
      <3>2. /\ \A i, j \in 1..Len(lb') : lb'[i] = lb'[j] => i = j
            /\ \A i \in 1..Len(lb') : lb'[i] \in connected
        BY <2>1, RotationSkipped
      <3>3. QED
        BY <3>1, <3>2 DEF Rotation
    <2>2. CASE Write
      BY <1>1, <2>2 DEF Write, threads
    <2>3. ASSUME NEW w \in Workers, Activate(w) PROVE Rotation'
      <3>1. \A i \in 1..Len(lb) : lb[i] # w
        BY <2>3, LenProperties DEF Activate, Types, TypeOK
      <3>2. lb' = Append(lb, w) /\ UNCHANGED <<connected, wstate>> /\ w \in connected
        BY <2>3 DEF Activate, threads
      <3>3. QED
        BY <3>1, <3>2, RotationJoined DEF Rotation
    <2>4. QED
      BY <1>3, <2>1, <2>2, <2>3 DEF Sending
  <1>4. ASSUME NEW w \in Workers, Worker(w) PROVE Rotation'
    <2>1. ASSUME wstate[w] = "starting", ConnectRequest(w),
                 \A v \in Workers \ {w} : wstate'[v] = wstate[v],
                 wstate'[w] # "starting"
          PROVE  Rotation'
      <3>1. /\ w \notin connected /\ connected' = connected \cup {w}
            /\ lb' = Append(lb, w)
        BY <2>1 DEF Rotation, ConnectRequest
      <3>2. \A i \in 1..Len(lb) : lb[i] # w
        BY <3>1 DEF Rotation
      <3>3. \A v \in connected' : wstate'[v] # "starting"
        BY <2>1, <3>1 DEF Rotation, Types, TypeOK
      <3>4. QED
        BY <3>1, <3>2, <3>3, RotationJoined DEF Rotation
    <2>2. CASE Initialize(w)
      BY <2>1, <2>2 DEF Initialize, Types, TypeOK
    <2>3. CASE InitializeFails(w)
      <3>1. /\ \A v \in Workers \ {w} : wstate'[v] = wstate[v]
            /\ wstate[w] = "starting" /\ wstate'[w] = "exited"
        BY <2>3 DEF InitializeFails, Types, TypeOK
      <3>2. CASE ConnectRequest(w)
        BY <2>1, <3>1, <3>2
      <3>3. CASE UNCHANGED <<push, connected, reader>>
        BY <3>1, <3>3 DEF push, Rotation, Types, TypeOK
      <3>4. QED
        BY <2>3, <3>2, <3>3 DEF InitializeFails
    <2>4. CASE Receive(w) \/ SendReply(w) \/ TaskFails(w)
      <3>1. /\ UNCHANGED <<lb, connected>>
            /\ \A v \in Workers : wstate[v] # "starting" => wstate'[v] # "starting"
        BY <2>4 DEF Receive, SendReply, TaskFails, push, Types, TypeOK
      <3>2. QED
        BY <3>1 DEF Rotation, Types, TypeOK
    <2>5. QED
      BY <1>4, <2>2, <2>3, <2>4 DEF Worker
  <1>5. CASE EventThread \/ MainThread
    BY <1>1, <1>5
       DEF EventThread, OnRequest, Select, OnReadEmpty, OnRead, RunEnds,
           MainThread, Quit, AbortWorkers, AbortOneWorker, JoinWorkers,
           WorkersJoined, push, threads
  <1>6. QED
    BY <1>2, <1>3, <1>4, <1>5 DEF Next

(* What a pipe holds of aborts changes when one is written or read.        *)
LEMMA PositionsTail ==
    ASSUME NEW S, NEW q \in Seq(S), q # <<>>, NEW n
    PROVE  /\ Positions(q, n) = {} => Positions(Tail(q), n) = {}
           /\ Head(q) # n => \A k \in Nat :
                 Positions(q, n) = {k} => \E l \in Nat : Positions(Tail(q), n) = {l}
  <1>1. /\ Len(q) \in Nat /\ Len(q) > 0 /\ DOMAIN q = 1..Len(q)
        /\ DOMAIN Tail(q) = 1..(Len(q) - 1)
        /\ \A i \in 1..(Len(q) - 1) : Tail(q)[i] = q[i + 1]
        /\ Head(q) = q[1]
    BY HeadTailProperties, LenProperties, EmptySeq
  <1>2. \A i \in 1..(Len(q) - 1) : i + 1 \in 1..Len(q)
    BY <1>1
  <1>3. Positions(q, n) = {} => Positions(Tail(q), n) = {}
    BY <1>1, <1>2 DEF Positions
  <1>4. ASSUME Head(q) # n, NEW k \in Nat, Positions(q, n) = {k}
        PROVE  Positions(Tail(q), n) = {k - 1} /\ k - 1 \in Nat
    <2>1. k \in 1..Len(q) /\ q[k] = n /\ \A i \in 1..Len(q) : q[i] = n => i = k
      BY <1>1, <1>4 DEF Positions
    <2>2. k # 1
      BY <1>1, <1>4, <2>1
    <2>3. k - 1 \in 1..(Len(q) - 1) /\ (k - 1) + 1 = k
      BY <1>1, <2>1, <2>2
    <2>4. Tail(q)[k - 1] = n
      BY <1>1, <2>1, <2>3
    <2>5. \A i \in 1..(Len(q) - 1) : Tail(q)[i] = n => i = k - 1
      <3> TAKE i \in 1..(Len(q) - 1)
      <3> HAVE Tail(q)[i] = n
      <3>1. i + 1 = k
        BY <1>1, <1>2, <2>1
      <3>2. QED
        BY <3>1
    <2>6. QED
      BY <1>1, <2>3, <2>4, <2>5 DEF Positions
  <1>5. QED
    BY <1>3, <1>4

(* The event loop ends with nothing to send, and only the round sends      *)
(* aborts.                                                                 *)
LEMMA NextQuiet ==
    Types /\ Accounted /\ Quiet /\ [Next]_vars => Quiet'
  <1> SUFFICES ASSUME Types, Accounted, Quiet, [Next]_vars PROVE Quiet'
    OBVIOUS
  <1>1. ASSUME UNCHANGED <<outgoing, requests, evt, main>> PROVE Quiet'
    BY <1>1 DEF Quiet, Positions
  <1>2. CASE UNCHANGED vars
    BY <1>1, <1>2 DEF vars, push, control
  <1>3. CASE Sending
    <2>1. CASE SkipFull \/ \E w \in Workers : Activate(w)
      BY <1>1, <2>1 DEF SkipFull, Activate, threads, control
    <2>2. CASE Write
      <3>1. PICK m \in Messages :
               /\ outgoing = {m}
               /\ requests' = [requests EXCEPT ![lb[current]] = Append(@, m)]
        BY <2>2 DEF Write, Accounted, Singles, Types, TypeOK
      <3>2. outgoing' = {} /\ UNCHANGED <<evt, main>>
        BY <2>2 DEF Write, control
      <3>3. ASSUME main \in {"running", "quit"}, NEW v \in Workers
            PROVE  Positions(requests'[v], Abort) = {}
        <4>1. evt = "running"
          BY <3>1, <3>3 DEF Quiet, Accounted, Phases, Types, TypeOK
        <4>2. m # Abort
          BY <3>1, <4>1 DEF Accounted, Phases
        <4>3. Positions(requests[v], Abort) = {}
          BY <3>3 DEF Quiet
        <4>4. Positions(Append(requests[v], m), Abort) = {}
          BY <4>2, <4>3, PositionsAppend DEF Types, TypeOK
        <4>5. QED
          BY <3>1, <4>3, <4>4 DEF Types, TypeOK
      <3>4. QED
        BY <3>2, <3>3 DEF Quiet
    <2>3. QED
      BY <1>3, <2>1, <2>2 DEF Sending
  <1>4. ASSUME NEW w \in Workers, Worker(w) PROVE Quiet'
    <2>1. UNCHANGED <<outgoing, evt, main>>
      BY <1>4 DEF Worker, Initialize, InitializeFails, ConnectRequest, Receive,
                  SendReply, TaskFails, push, control
    <2>2. ASSUME NEW v \in Workers, Positions(requests[v], Abort) = {}
          PROVE  Positions(requests'[v], Abort) = {}
      <3>1. CASE Receive(w)
        <4>1. Positions(requests[w], Abort) = {}
                 => Positions(Tail(requests[w]), Abort) = {}
          BY <3>1, PositionsTail DEF Receive, Types, TypeOK
        <4>2. QED
          BY <2>2, <3>1, <4>1 DEF Receive, Types, TypeOK
      <3>2. CASE ~Receive(w)
        BY <1>4, <2>2, <3>2
           DEF Worker, Initialize, InitializeFails, ConnectRequest, SendReply,
               TaskFails, push
      <3>3. QED
        BY <3>1, <3>2
    <2>3. QED
      BY <2>1, <2>2 DEF Quiet
  <1>5. CASE EventThread
    <2>1. evt = "running" /\ main \in {"running", "quit"}
      BY <1>5 DEF EventThread, OnRequest, Select, OnReadEmpty, RunEnds, OnRead,
                  EventThreadFree, Accounted, Phases, Types, TypeOK
    <2>2. UNCHANGED <<requests, main>>
      BY <1>5 DEF EventThread, OnRequest, Select, OnReadEmpty, RunEnds, OnRead,
                  push, control
    <2>3. evt' # "running" => outgoing' = {} /\ main = "quit"
      BY <1>5, <2>1
         DEF EventThread, OnRequest, Select, OnReadEmpty, RunEnds, OnRead,
             EventThreadFree, push, control
    <2>4. QED
      BY <2>1, <2>2, <2>3 DEF Quiet
  <1>6. CASE MainThread
    <2>1. CASE Quit
      <3>1. main = "running" /\ main' = "quit" /\ UNCHANGED <<outgoing, requests, evt>>
        BY <2>1 DEF Quit, push
      <3>2. evt = "running"
        BY <3>1 DEF Quiet
      <3>3. QED
        BY <3>1, <3>2 DEF Quiet
    <2>2. CASE AbortWorkers
      BY <2>2 DEF AbortWorkers, push, Quiet
    <2>3. CASE AbortOneWorker
      BY <2>3 DEF AbortOneWorker, Quiet
    <2>4. CASE JoinWorkers \/ WorkersJoined
      BY <2>4 DEF JoinWorkers, WorkersJoined, push, Quiet
    <2>5. QED
      BY <1>6, <2>1, <2>2, <2>3, <2>4 DEF MainThread
  <1>7. QED
    BY <1>2, <1>3, <1>4, <1>5, <1>6 DEF Next

-----------------------------------------------------------------------------
(* The round.                                                              *)

(* A rotation that holds every worker has as many pipes as there are       *)
(* workers.                                                                *)
LEMMA RotationLength ==
    ASSUME Types, Rotation, \A w \in Workers : \E i \in 1..Len(lb) : lb[i] = w
    PROVE  Cardinality(Workers) = Len(lb)
  <1>1. lb \in [1..Len(lb) -> Workers] /\ Len(lb) \in Nat
    BY LenProperties DEF Types, TypeOK
  <1>2. lb \in Bijection(1..Len(lb), Workers)
    <2>1. lb \in Injection(1..Len(lb), Workers)
      BY <1>1 DEF Rotation, Injection, IsInjective
    <2>2. lb \in Surjection(1..Len(lb), Workers)
      BY <1>1 DEF Surjection
    <2>3. QED
      BY <2>1, <2>2 DEF Bijection
  <1>3. IsFiniteSet(1..Len(lb)) /\ Cardinality(1..Len(lb)) = Len(lb)
    <2>1. \A n \in Nat : IsFiniteSet(1..n) /\ Cardinality(1..n) = n
      <3> TAKE n \in Nat
      <3>1. IsFiniteSet(1..n)
        BY FS_Interval
      <3>2. Cardinality(1..n) = n
        BY FS_Interval
      <3>3. QED
        BY <3>1, <3>2
    <2>2. QED
      BY <1>1, <2>1
  <1>4. QED
    BY <1>2, <1>3, FS_Bijection DEF ExistsBijection

(* What a worker does in the round changes nothing of who was reached.     *)
LEMMA WorkerReached ==
    ASSUME Types, NEW w \in Workers,
           Receive(w) \/ SendReply(w) \/ TaskFails(w), NEW v \in Workers
    PROVE  /\ Reached(v) => Reached(v)'
           /\ Untouched(v) => Untouched(v)'
  <1>1. wstate[v] = "exited" => wstate'[v] = "exited"
    BY DEF Receive, SendReply, TaskFails, Types, TypeOK
  <1>2. CASE v = w /\ Receive(w)
    <2>1. /\ requests[w] \in Seq(Messages) /\ requests[w] # <<>>
          /\ requests'[w] = Tail(requests[w])
      BY <1>2 DEF Receive, Types, TypeOK
    <2>2. Untouched(v) => Untouched(v)'
      BY <1>2, <2>1, PositionsTail DEF Untouched
    <2>3. CASE Head(requests[w]) = Abort
      <3>1. wstate'[w] = "exited"
        BY <1>2, <2>3 DEF Receive, Types, TypeOK
      <3>2. QED
        BY <1>2, <2>2, <3>1 DEF Reached
    <2>4. CASE Head(requests[w]) # Abort
      <3>1. HasOneAbort(v) => HasOneAbort(v)'
        BY <1>2, <2>1, <2>4, PositionsTail DEF HasOneAbort
      <3>2. QED
        BY <1>1, <2>2, <3>1 DEF Reached
    <2>5. QED
      BY <2>3, <2>4
  <1>3. CASE ~(v = w /\ Receive(w))
    <2>1. requests'[v] = requests[v]
      BY <1>3 DEF Receive, SendReply, TaskFails, push, Types, TypeOK
    <2>2. QED
      BY <1>1, <2>1 DEF Reached, HasOneAbort, Untouched, Positions
  <1>4. QED
    BY <1>2, <1>3

(* The round begins with a rotation that holds every worker and no abort.  *)
LEMMA RoundBegins ==
    ASSUME Types, Rotation, Quiet, AbortWorkers, ~skipped'
    PROVE  Round'
  <1>1. /\ UNCHANGED <<lb, current, outgoing, requests, wstate>>
        /\ outgoing = {} /\ main' = "aborting"
        /\ aborts' = Cardinality(Workers)
        /\ \A w \in Workers : \E i \in DOMAIN lb : lb[i] = w
    BY DEF AbortWorkers, push, threads, Quiet
  <1>2. Len(lb) \in Nat /\ DOMAIN lb = 1..Len(lb)
    BY LenProperties DEF Types, TypeOK
  <1>3. Cardinality(Workers) = Len(lb)
    BY <1>1, <1>2, RotationLength
  <1>4. Unsent' = Len(lb)
    BY <1>1, <1>2, <1>3 DEF Unsent
  <1>5. \A i \in 1..Len(lb) : ~(Behind(i)' < Len(lb) - Unsent')
    <2> TAKE i \in 1..Len(lb)
    <2>1. lb # <<>>
      BY <1>2
    <2>2. current \in 1..Len(lb)
      BY <2>1 DEF Types, CurrentInRange
    <2>3. Behind(i)' \in Int /\ Behind(i)' >= 0
      BY <1>1, <1>2, <2>2 DEF Behind
    <2>4. QED
      BY <1>2, <1>4, <2>3
  <1>6. \A w \in Workers : Untouched(w)'
    BY <1>1 DEF Quiet, AbortWorkers, Untouched, Positions
  <1>7. QED
    BY <1>1, <1>2, <1>4, <1>5, <1>6 DEF Round

(* The socket writes an abort to the next pipe, which had none.            *)
LEMMA RoundWrites ==
    ASSUME Types, Rotation, Quiet, InRound, Round, Write, outgoing # {}
    PROVE  Round'
  <1>1. /\ Len(lb) \in Nat /\ current \in 1..Len(lb) /\ lb \in Seq(Workers)
        /\ aborts \in Nat
    BY LenProperties DEF Write, Types, TypeOK, CurrentInRange
  <1>2. outgoing = {Abort} /\ main \in {"aborting", "joining"}
    BY DEF InRound, Quiet
  <1> PICK w \in Workers : w = lb[current]
    BY <1>1, ElementOfSeq
  <1>3. /\ requests' = [requests EXCEPT ![w] = Append(@, Abort)]
        /\ outgoing' = {} /\ UNCHANGED <<lb, wstate, aborts, main>>
        /\ current' = IF current = Len(lb) THEN 1 ELSE current + 1
    BY <1>2 DEF Write, threads, control
  <1>4. Unsent = aborts + 1 /\ Unsent' = aborts /\ main = "aborting"
    BY <1>1, <1>2, <1>3 DEF Unsent, Round
  <1>5. \A i \in 1..Len(lb) :
           /\ Behind(i) \in 0..(Len(lb) - 1)
           /\ i # current => Behind(i)' = Behind(i) + 1
           /\ i = current => Behind(i) = Len(lb) - 1 /\ Behind(i)' = 0
    BY <1>1, <1>3 DEF Behind
  <1>6. ASSUME NEW v \in Workers, v # w
        PROVE  /\ Reached(v) => Reached(v)'
               /\ Untouched(v) => Untouched(v)'
    <2>1. requests'[v] = requests[v]
      BY <1>3, <1>6 DEF Types, TypeOK
    <2>2. QED
      BY <1>3, <2>1 DEF Reached, HasOneAbort, Untouched, Positions
  <1>7. Reached(w)'
    <2>1. Untouched(w)
      <3>1. ~(Behind(current) < Len(lb) - Unsent)
        BY <1>1, <1>4, <1>5
      <3>2. QED
        BY <1>1, <3>1 DEF Round
    <2>2. /\ requests[w] \in Seq(Messages) /\ Abort \in Messages
          /\ requests'[w] = Append(requests[w], Abort)
      BY <1>3 DEF Types, TypeOK, Messages
    <2>3. Positions(requests'[w], Abort) = {Len(requests[w]) + 1}
      BY <2>1, <2>2, PositionsAppend DEF Untouched
    <2>4. Len(requests[w]) + 1 \in Nat
      BY <2>2, LenProperties
    <2>5. QED
      BY <1>3, <2>3, <2>4 DEF Reached, HasOneAbort
  <1>8. \A v \in Workers, i \in 1..Len(lb) : lb[i] = v =>
           IF Behind(i)' < Len(lb) - aborts THEN Reached(v)' ELSE Untouched(v)'
    <2> TAKE v \in Workers, i \in 1..Len(lb)
    <2> HAVE lb[i] = v
    <2>1. CASE i = current
      <3>1. Behind(i)' < Len(lb) - aborts
        BY <1>1, <1>4, <1>5, <2>1 DEF Round
      <3>2. QED
        BY <1>7, <2>1, <3>1
    <2>2. CASE i # current
      <3>1. v # w
        BY <1>1, <2>2 DEF Rotation
      <3>2. Behind(i)' < Len(lb) - aborts <=> Behind(i) < Len(lb) - Unsent
        BY <1>1, <1>4, <1>5, <2>2
      <3>3. QED
        BY <1>6, <3>1, <3>2 DEF Round
    <2>3. QED
      BY <2>1, <2>2
  <1>9. QED
    BY <1>1, <1>3, <1>4, <1>8 DEF Round

(* Every step of the round keeps it.                                       *)
LEMMA NextRound ==
    /\ Types /\ Accounted /\ Rotation /\ Quiet /\ (InRound => Round)
    /\ [Next]_vars
    => (InRound => Round)'
  <1> SUFFICES ASSUME Types, Accounted, Rotation, Quiet, InRound => Round,
                      [Next]_vars, InRound'
               PROVE  Round'
    OBVIOUS
  <1>1. CASE AbortWorkers
    BY <1>1, RoundBegins DEF InRound
  <1>2. CASE ~AbortWorkers
    <2>1. InRound /\ evt = "stopped"
      <3>1. main' \in {"aborting", "joining"} => main \in {"aborting", "joining"}
        BY <1>2
           DEF Next, Sending, SkipFull, Write, Activate, Worker, Initialize,
               InitializeFails, Receive, SendReply, TaskFails, EventThread,
               OnRequest, Select, OnReadEmpty, OnRead, RunEnds, MainThread,
               Quit, AbortOneWorker, JoinWorkers, WorkersJoined, control, vars
      <3>2. ~skipped' => ~skipped
        BY <1>2
           DEF Next, Sending, SkipFull, Write, Activate, Worker, Initialize,
               InitializeFails, Receive, SendReply, TaskFails, EventThread,
               OnRequest, Select, OnReadEmpty, OnRead, RunEnds, MainThread,
               Quit, AbortOneWorker, JoinWorkers, WorkersJoined, history, vars
      <3>3. QED
        BY <3>1, <3>2 DEF InRound, Accounted, Phases
    <2>2. Round
      BY <2>1
    <2>3. ASSUME UNCHANGED <<lb, current, aborts, outgoing, requests, wstate, main>>
          PROVE  Round'
      BY <2>2, <2>3
         DEF Round, Unsent, Behind, Reached, HasOneAbort, Untouched, Positions
    <2>4. CASE UNCHANGED vars
      BY <2>3, <2>4 DEF vars, push, threads, control
    <2>5. CASE Sending
      <3>1. outgoing # {}
        BY <2>5 DEF Sending, SkipFull, Write, Activate
      <3>2. CASE SkipFull
        <4>1. Abort \in outgoing
          BY <2>1, <3>1 DEF InRound, Quiet
        <4>2. QED
          BY <3>2, <4>1 DEF SkipFull, InRound
      <3>3. CASE Write
        BY <2>1, <2>2, <3>1, <3>3, RoundWrites
      <3>4. ASSUME NEW w \in Workers, Activate(w) PROVE FALSE
        BY <2>2, <3>4, LenProperties DEF Activate, Round, Types, TypeOK
      <3>5. QED
        BY <2>5, <3>2, <3>3, <3>4 DEF Sending
    <2>6. ASSUME NEW w \in Workers, Worker(w) PROVE Round'
      <3>1. wstate[w] # "starting"
        BY <2>2 DEF Round, Rotation
      <3>2. Receive(w) \/ SendReply(w) \/ TaskFails(w)
        BY <2>6, <3>1 DEF Worker, Initialize, InitializeFails
      <3>3. UNCHANGED <<lb, current, aborts, outgoing, main>>
        BY <3>2 DEF Receive, SendReply, TaskFails, push, control
      <3>4. \A v \in Workers : /\ Reached(v) => Reached(v)'
                               /\ Untouched(v) => Untouched(v)'
        BY <3>2, WorkerReached
      <3>5. QED
        BY <2>2, <3>3, <3>4 DEF Round, Unsent, Behind
    <2>7. CASE EventThread
      BY <2>1, <2>7 DEF EventThread, OnRequest, Select, OnReadEmpty, OnRead,
                        RunEnds, EventThreadFree
    <2>8. CASE MainThread
      <3>1. CASE AbortOneWorker
        <4>1. /\ UNCHANGED <<lb, current, requests, wstate, main>>
              /\ outgoing = {} /\ outgoing' = {Abort} /\ aborts' = aborts - 1
              /\ main = "aborting" /\ aborts \in Nat
          BY <3>1 DEF AbortOneWorker, threads, Types, TypeOK
        <4>2. Unsent' = Unsent
          BY <4>1 DEF Unsent
        <4>3. QED
          BY <2>2, <4>1, <4>2
             DEF Round, Behind, Reached, HasOneAbort, Untouched, Positions
      <3>2. CASE JoinWorkers
        <4>1. /\ UNCHANGED <<lb, current, requests, wstate, outgoing, aborts>>
              /\ outgoing = {} /\ aborts = 0
          BY <3>2 DEF JoinWorkers, push, threads
        <4>2. Unsent' = Unsent /\ Unsent = 0
          BY <4>1 DEF Unsent
        <4>3. QED
          BY <2>2, <4>1, <4>2
             DEF Round, Behind, Reached, HasOneAbort, Untouched, Positions
      <3>3. CASE Quit \/ WorkersJoined
        BY <2>1, <3>3 DEF Quit, WorkersJoined, InRound
      <3>4. QED
        BY <1>2, <2>8, <3>1, <3>2, <3>3 DEF MainThread
    <2>9. QED
      BY <2>4, <2>5, <2>6, <2>7, <2>8 DEF Next
  <1>3. QED
    BY <1>1, <1>2

(* One round of aborts over a rotation that holds every worker and finds   *)
(* no full pipe reaches each one exactly once, however many workers there  *)
(* are and wherever the rotation stood when it began (hitsuji.cc           *)
(* AbortWorkers).                                                          *)
THEOREM AbortReachesEveryWorker == Spec => []AbortReachesAll
  <1>1. Init => Aborting
    <2> SUFFICES ASSUME Init PROVE Aborting
      OBVIOUS
    <2>1. Len(lb) = 0
      BY DEF Init
    <2>2. \A w \in Workers : Positions(requests[w], Abort) = {}
      BY DEF Init, Positions
    <2>3. QED
      BY <2>1, <2>2 DEF Init, Aborting, Rotation, Quiet, InRound
  <1>2. Types /\ Accounted /\ Aborting /\ [Next]_vars => Aborting'
    BY NextRotation, NextQuiet, NextRound DEF Aborting
  <1>3. Types /\ Accounted /\ Aborting => AbortReachesAll
    <2> SUFFICES ASSUME Types, Aborting, main = "joining", ~skipped,
                        NEW w \in Workers
                 PROVE  \/ wstate[w] = "exited"
                        \/ Cardinality(Positions(requests[w], Abort)) = 1
      BY DEF AbortReachesAll
    <2>1. Round
      BY DEF Aborting, InRound
    <2>2. PICK i \in 1..Len(lb) : lb[i] = w
      BY <2>1 DEF Round
    <2>3. Len(lb) \in Nat /\ current \in 1..Len(lb)
      <3>1. Len(lb) \in Nat /\ lb # <<>>
        BY <2>2, LenProperties DEF Types, TypeOK
      <3>2. QED
        BY <3>1 DEF Types, CurrentInRange
    <2>4. Unsent = 0 /\ Behind(i) < Len(lb)
      BY <2>1, <2>3 DEF Round, Behind
    <2>5. Reached(w)
      BY <2>1, <2>2, <2>3, <2>4 DEF Round
    <2>6. QED
      BY <2>5, FS_Singleton DEF Reached, HasOneAbort
  <1>4. QED
    BY <1>1, <1>2, <1>3, AccountedInvariant, PTL DEF Spec
=============================================================================
