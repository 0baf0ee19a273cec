--------------------------- MODULE ProviderProofs ---------------------------
(***************************************************************************)
(* Proofs about Provider: that its lists and the channels of RSSL agree    *)
(* (Core), the order of a pass (Order), the capacity (Fits), and which     *)
(* session a reply can reach (Numbered).                                   *)
(***************************************************************************)
EXTENDS Provider, FiniteSetTheorems, TLAPS

USE DEF CloseChannel

(* A channel in use is listed, and a session is above a channel that       *)
(* finished its handshake; only sessions have output.                      *)
Listed ==
    /\ \A c \in Channels : chan[c] # "free" => c \in connections
    /\ \A c \in Channels : HasClient(c) => chan[c] \in {"active", "closed"}
    /\ \A c \in queued : HasClient(c)

Core == TypeOK /\ ActiveHasClient /\ Listed

(* The provider starts with no connection and no channel in use.           *)
LEMMA InitCore == Init => Core
  <1> SUFFICES ASSUME Init PROVE Core
    OBVIOUS
  <1> USE DEF Init
  <1>1. clients \in [Channels -> 0..MaxSessions] /\ nsess \in 0..MaxSessions
    BY ProviderAssumption
  <1>2. TypeOK
    BY <1>1 DEF TypeOK
  <1>3. ActiveHasClient /\ Listed
    BY DEF ActiveHasClient, Listed, HasClient, ClientSet
  <1>4. QED
    BY <1>2, <1>3 DEF Core

(* Run, Quit and the stages that find nothing touch neither connections    *)
(* nor channels.                                                           *)
LEMMA LoopCore ==
    ASSUME Core,
           \/ SelectFails \/ SelectEvents \/ SelectTimeout \/ PassEnds
           \/ Quit \/ NoReply \/ OnReadEmpty \/ NoConnection \/ PumpEnds
    PROVE  Core'
  <1> USE ProviderAssumption
      DEF Core, TypeOK, ActiveHasClient, Listed, HasClient, ClientSet, Visit,
          directory, inSets, outSets, server, position, rssl, history
  <1>1. CASE SelectFails BY <1>1 DEF SelectFails
  <1>2. CASE SelectEvents BY <1>2 DEF SelectEvents
  <1>3. CASE SelectTimeout BY <1>3 DEF SelectTimeout
  <1>4. CASE PassEnds BY <1>4 DEF PassEnds
  <1>5. CASE Quit BY <1>5 DEF Quit
  <1>6. CASE NoReply BY <1>6 DEF NoReply
  <1>7. CASE OnReadEmpty BY <1>7 DEF OnReadEmpty
  <1>8. CASE NoConnection BY <1>8 DEF NoConnection
  <1>9. CASE PumpEnds BY <1>9 DEF PumpEnds
  <1>10. QED
    BY <1>1, <1>2, <1>3, <1>4, <1>5, <1>6, <1>7, <1>8, <1>9

(* Writing, keepalives and removal: a channel is released together with    *)
(* its connection and its session.                                         *)
LEMMA VisitCore ==
    ASSUME Core, NEW c \in Channels,
           \/ NextConnection(c) \/ NotReadable(c) \/ NotWritable(c)
           \/ OnCanWriteWithoutBlocking(c) \/ NoPing(c) \/ Ping(c)
           \/ PongTimeout(c) \/ KeepConnection(c) \/ RemoveConnection(c)
    PROVE  Core'
  <1> USE ProviderAssumption
      DEF Core, TypeOK, ActiveHasClient, Listed, HasClient, ClientSet, Proceed,
          directory, inSets, outSets, server, rssl, history, Fail
  <1>1. CASE NextConnection(c) BY <1>1 DEF NextConnection
  <1>2. CASE NotReadable(c) BY <1>2 DEF NotReadable
  <1>3. CASE NotWritable(c) BY <1>3 DEF NotWritable
  <1>4. CASE OnCanWriteWithoutBlocking(c)
    BY <1>4 DEF OnCanWriteWithoutBlocking, Flush
  <1>5. CASE NoPing(c) BY <1>5 DEF NoPing
  <1>6. CASE Ping(c) BY <1>6 DEF Ping, KeptAlive
  <1>7. CASE PongTimeout(c) BY <1>7 DEF PongTimeout, KeptAlive, Abort
  <1>8. CASE KeepConnection(c) BY <1>8 DEF KeepConnection
  <1>9. CASE RemoveConnection(c) BY <1>9 DEF RemoveConnection, ForgetSocket
  <1>10. QED
    BY <1>1, <1>2, <1>3, <1>4, <1>5, <1>6, <1>7, <1>8, <1>9

(* A reply is written only where a session was found.                      *)
LEMMA ReplyCore ==
    ASSUME Core, NEW r \in inflight, OnRead(r) \/ LoseTask(r)
    PROVE  Core'
  <1> USE ProviderAssumption
      DEF Core, TypeOK, ActiveHasClient, Listed, HasClient, ClientSet,
          directory, inSets, outSets, server, position, rssl, history, Fail
  <1>1. CASE OnRead(r)
    <2>1. r.handle \in Channels
      OBVIOUS
    <2>2. crossed' \in BOOLEAN
      BY <1>1 DEF OnRead
    <2>3. CASE HasClient(r.handle) /\ r.handle \in tokens
      BY <1>1, <2>1, <2>2, <2>3 DEF OnRead, Submit
    <2>4. CASE ~(HasClient(r.handle) /\ r.handle \in tokens)
      BY <1>1, <2>1, <2>2, <2>4 DEF OnRead
    <2>5. QED
      BY <2>3, <2>4
  <1>2. CASE LoseTask(r) BY <1>2 DEF LoseTask
  <1>3. QED
    BY <1>1, <1>2

(* Reading: a channel becomes active with its session, or is released, and *)
(* a request carries the number of the session above its channel.          *)
LEMMA ReadCore ==
    ASSUME Core, NEW c \in Channels, OnCanReadWithoutBlocking(c)
    PROVE  Core'
  <1> USE ProviderAssumption
      DEF Core, TypeOK, ActiveHasClient, Listed, HasClient, ClientSet, Proceed,
          inSets, outSets, server, rssl, history, Fail, Reading, Took, Abort
  <1>1. CASE ReadClosed(c) BY <1>1 DEF ReadClosed
  <1>2. CASE OnInitializingState(c) BY <1>2 DEF OnInitializingState
  <1>3. CASE OnActiveClientSession(c)
    <2> USE DEF OnActiveClientSession
    <2>1. CASE AcceptClientSession(c)
      <3>1. nsess + 1 \in 1..MaxSessions
        BY <2>1 DEF AcceptClientSession
      <3>2. TypeOK'
        BY <1>3, <2>1, <3>1 DEF AcceptClientSession
      <3>3. ActiveHasClient' /\ Listed'
        BY <1>3, <2>1, <3>1 DEF AcceptClientSession
      <3>4. QED
        BY <3>2, <3>3
    <2>2. CASE RejectClientSession(c)
      BY <1>3, <2>2 DEF RejectClientSession
    <2>3. QED
      BY <1>3, <2>1, <2>2
  <1>4. CASE ReadFdChange(c)
    <2>1. orphan' \in BOOLEAN
      BY <1>4 DEF ReadFdChange
    <2>2. QED
      BY <1>4, <2>1 DEF ReadFdChange
  <1>5. ASSUME NEW more \in BOOLEAN, OnActiveState(c, more)
        PROVE  Core'
    <2>1. CASE ReadQuietly(c, more) BY <2>1 DEF ReadQuietly
    <2>2. CASE OnMsgAborts(c, more) BY <2>2 DEF OnMsgAborts
    <2>3. CASE OnItemRequest(c, more) BY <2>3 DEF OnItemRequest, Sessions
    <2>4. CASE OnItemClose(c, more) BY <2>4 DEF OnItemClose
    <2>5. CASE OnMsgResponds(c, more) BY <2>5 DEF OnMsgResponds, Submit
    <2>6. QED
      BY <1>5, <2>1, <2>2, <2>3, <2>4, <2>5 DEF OnActiveState
  <1>6. QED
    BY <1>1, <1>2, <1>3, <1>4, <1>5 DEF OnCanReadWithoutBlocking

(* Accepting lists the channel; closing releases channels and connections  *)
(* together.                                                               *)
LEMMA ConnectionCore ==
    ASSUME Core, OnConnection \/ CloseBegins \/ Goodbye
    PROVE  Core'
  <1> USE ProviderAssumption
      DEF Core, TypeOK, ActiveHasClient, Listed, HasClient, ClientSet,
          directory, inSets, outSets, server, rssl, history
  <1>1. CASE OnConnection
    BY <1>1 DEF OnConnection, RejectConnection, AcceptConnection
  <1>2. CASE CloseBegins
    <2>1. PICK late \in SUBSET Active, failed \in SUBSET Active :
             /\ queued' = queued \cup late
             /\ chan' = [c \in Channels |-> IF c \in failed THEN "closed" ELSE chan[c]]
      BY <1>2 DEF CloseBegins
    <2>2. /\ mode' = "closing"
          /\ UNCHANGED <<directory, outSets, server, inflight, history>>
      BY <1>2 DEF CloseBegins
    <2>3. /\ watched' \subseteq Channels /\ pending' \subseteq Channels
          /\ orphan' \in BOOLEAN
      BY <1>2 DEF CloseBegins
    <2>4. /\ todo' \in {todo, connections} /\ cur' \in {cur, NoChannel}
          /\ pc' \in {"reply", "next", "goodbye"}
          /\ events' \in BOOLEAN /\ did_work' \in BOOLEAN
      BY <1>2 DEF CloseBegins, Visit
    <2>5. TypeOK'
      BY <2>1, <2>2, <2>3, <2>4 DEF Active
    <2>6. ActiveHasClient' /\ Listed'
      BY <2>1, <2>2 DEF Active
    <2>7. QED
      BY <2>5, <2>6
  <1>3. CASE Goodbye
    BY <1>3 DEF Goodbye, Active
  <1>4. QED
    BY <1>1, <1>2, <1>3

(* Every step of the event thread, of Quit and of the pool keeps Core.      *)
LEMMA NextCore ==
    ASSUME Core, [Next]_vars
    PROVE  Core'
  <1>1. CASE EventThread
    BY <1>1, LoopCore, VisitCore, ReplyCore, ReadCore, ConnectionCore
    DEF EventThread, Visits
  <1>2. CASE Quit
    BY <1>2, LoopCore
  <1>3. CASE \E r \in inflight : LoseTask(r)
    BY <1>3, ReplyCore
  <1>4. CASE UNCHANGED vars
    BY <1>4 DEF vars, directory, inSets, outSets, server, position, rssl,
                history, Core, TypeOK, ActiveHasClient, Listed, HasClient,
                ClientSet
  <1>5. QED
    BY <1>1, <1>2, <1>3, <1>4 DEF Next

(* The lists of provider_t and the channels of RSSL agree at all times.     *)
THEOREM CoreInvariant == Spec => []Core
  <1>1. QED
    BY InitCore, NextCore, PTL DEF Spec

(* The variables of provider_t keep their types for any set of channels    *)
(* and any capacity: a request always carries the number of a session.     *)
THEOREM ProviderTypeCorrect == Spec => []TypeOK
  <1>1. Core => TypeOK
    BY DEF Core
  <1>2. QED
    BY <1>1, CoreInvariant, PTL

(* An active channel always has its session in clients_, and a session is  *)
(* always above a listed connection: userSpecPtr can be followed           *)
(* (provider.cc DoWork, OnMsg, Ping).                                      *)
THEOREM SessionsLive == Spec => []ActiveHasClient
  <1>1. Core => ActiveHasClient
    BY DEF Core
  <1>2. QED
    BY <1>1, CoreInvariant, PTL

-----------------------------------------------------------------------------
(* The descriptor sets and the order of a pass.                            *)

CloseLast == pc \in {"goodbye", "closed"} => mode = "closing"

SocketsOpen ==
    mode # "closing" /\ ~rejected =>
        \A c \in watched \cup pending : chan[c] # "free"

(* A rejected channel breaks the next select, and until then the listening *)
(* socket is not looked at.                                                *)
RejectedWatched ==
    mode # "closing" => \A c \in connections : chan[c] = "free" => c \in watched

QuietPass ==
    ~events => pc \notin {"reply", "accept", "read", "write"} /\ ~did_work

ListenTaken ==
    events /\ pc \in {"next", "read", "write", "keepalive", "remove"} => ~listen

AcceptsClean ==
    pc \in {"reply", "accept"} /\ listen => \A c \in connections : chan[c] # "free"

Order ==
    /\ CloseLast /\ SocketsOpen /\ PendingWatched /\ RejectedWatched
    /\ QuietPass /\ ListenTaken /\ AcceptsClean

(* Run starts with empty sets, in a pass without events.                   *)
LEMMA InitOrder == Init => Order
  BY DEF Init, Order, CloseLast, SocketsOpen, PendingWatched, RejectedWatched,
         QuietPass, ListenTaken, AcceptsClean

(* select succeeds only on open sockets, hence with no rejected channel.   *)
LEMMA LoopOrder ==
    ASSUME Core, Order,
           \/ SelectFails \/ SelectEvents \/ SelectTimeout \/ PassEnds
           \/ Quit \/ NoReply \/ OnReadEmpty \/ NoConnection \/ PumpEnds
    PROVE  Order'
  <1> USE DEF Core, TypeOK, Order, CloseLast, SocketsOpen, PendingWatched,
          RejectedWatched, QuietPass, ListenTaken, AcceptsClean, Visit, Broken,
          directory, inSets, outSets, server, position, rssl, history
  <1>1. CASE SelectFails BY <1>1 DEF SelectFails
  <1>2. CASE SelectEvents BY <1>2 DEF SelectEvents
  <1>3. CASE SelectTimeout BY <1>3 DEF SelectTimeout
  <1>4. CASE PassEnds BY <1>4 DEF PassEnds
  <1>5. CASE Quit BY <1>5 DEF Quit
  <1>6. CASE NoReply BY <1>6 DEF NoReply
  <1>7. CASE OnReadEmpty BY <1>7 DEF OnReadEmpty
  <1>8. CASE NoConnection BY <1>8 DEF NoConnection
  <1>9. CASE PumpEnds BY <1>9 DEF PumpEnds
  <1>10. QED
    BY <1>1, <1>2, <1>3, <1>4, <1>5, <1>6, <1>7, <1>8, <1>9

(* A flush clears in_wfds_ with the output; a removal clears all sets.      *)
LEMMA VisitOrder ==
    ASSUME Core, Order, NEW c \in Channels,
           \/ NextConnection(c) \/ NotReadable(c) \/ NotWritable(c)
           \/ OnCanWriteWithoutBlocking(c) \/ NoPing(c) \/ Ping(c)
           \/ PongTimeout(c) \/ KeepConnection(c) \/ RemoveConnection(c)
    PROVE  Order'
  <1> USE DEF Core, TypeOK, Order, CloseLast, SocketsOpen, PendingWatched,
          RejectedWatched, QuietPass, ListenTaken, AcceptsClean, Proceed,
          directory, inSets, outSets, server, rssl, history, Fail
  <1>1. CASE NextConnection(c) BY <1>1 DEF NextConnection
  <1>2. CASE NotReadable(c) BY <1>2 DEF NotReadable
  <1>3. CASE NotWritable(c) BY <1>3 DEF NotWritable
  <1>4. CASE OnCanWriteWithoutBlocking(c)
    BY <1>4 DEF OnCanWriteWithoutBlocking, Flush
  <1>5. CASE NoPing(c) BY <1>5 DEF NoPing
  <1>6. CASE Ping(c) BY <1>6 DEF Ping, KeptAlive
  <1>7. CASE PongTimeout(c) BY <1>7 DEF PongTimeout, KeptAlive, Abort
  <1>8. CASE KeepConnection(c) BY <1>8 DEF KeepConnection
  <1>9. CASE RemoveConnection(c) BY <1>9 DEF RemoveConnection, ForgetSocket
  <1>10. QED
    BY <1>1, <1>2, <1>3, <1>4, <1>5, <1>6, <1>7, <1>8, <1>9

(* A reply that is queued has its socket watched.                          *)
LEMMA ReplyOrder ==
    ASSUME Core, Order, NEW r \in inflight, OnRead(r) \/ LoseTask(r)
    PROVE  Order'
  <1> USE DEF Core, TypeOK, ActiveHasClient, Listed, HasClient, ClientSet,
          Order, CloseLast, SocketsOpen, PendingWatched, RejectedWatched,
          QuietPass, ListenTaken, AcceptsClean,
          directory, inSets, outSets, server, position, rssl, history, Fail
  <1>1. CASE OnRead(r)
    <2>1. r.handle \in Channels
      OBVIOUS
    <2>2. CASE HasClient(r.handle) /\ r.handle \in tokens
      BY <1>1, <2>1, <2>2 DEF OnRead, Submit
    <2>3. CASE ~(HasClient(r.handle) /\ r.handle \in tokens)
      BY <1>1, <2>1, <2>3 DEF OnRead
    <2>4. QED
      BY <2>2, <2>3
  <1>2. CASE LoseTask(r) BY <1>2 DEF LoseTask
  <1>3. QED
    BY <1>1, <1>2

(* A session is rejected only after the listening socket was taken.        *)
LEMMA ReadOrder ==
    ASSUME Core, Order, NEW c \in Channels, OnCanReadWithoutBlocking(c)
    PROVE  Order'
  <1> USE DEF Core, TypeOK, ActiveHasClient, Listed, HasClient, ClientSet,
          Order, CloseLast, SocketsOpen, PendingWatched, RejectedWatched,
          QuietPass, ListenTaken, AcceptsClean, Proceed,
          inSets, outSets, server, rssl, history, Fail, Reading, Took, Abort
  <1>1. CASE ReadClosed(c) BY <1>1 DEF ReadClosed
  <1>2. CASE OnInitializingState(c) BY <1>2 DEF OnInitializingState
  <1>3. CASE OnActiveClientSession(c)
    <2> USE DEF OnActiveClientSession
    <2>1. CASE AcceptClientSession(c)
      BY <1>3, <2>1 DEF AcceptClientSession
    <2>2. CASE RejectClientSession(c)
      BY <1>3, <2>2 DEF RejectClientSession
    <2>3. QED
      BY <1>3, <2>1, <2>2
  <1>4. CASE ReadFdChange(c) BY <1>4 DEF ReadFdChange
  <1>5. ASSUME NEW more \in BOOLEAN, OnActiveState(c, more)
        PROVE  Order'
    <2>1. CASE ReadQuietly(c, more) BY <2>1 DEF ReadQuietly
    <2>2. CASE OnMsgAborts(c, more) BY <2>2 DEF OnMsgAborts
    <2>3. CASE OnItemRequest(c, more) BY <2>3 DEF OnItemRequest
    <2>4. CASE OnItemClose(c, more) BY <2>4 DEF OnItemClose
    <2>5. CASE OnMsgResponds(c, more) BY <2>5 DEF OnMsgResponds, Submit
    <2>6. QED
      BY <1>5, <2>1, <2>2, <2>3, <2>4, <2>5 DEF OnActiveState
  <1>6. QED
    BY <1>1, <1>2, <1>3, <1>4, <1>5 DEF OnCanReadWithoutBlocking

(* Accepting watches an open socket; closing needs no set any more.        *)
LEMMA ConnectionOrder ==
    ASSUME Core, Order, OnConnection \/ CloseBegins \/ Goodbye
    PROVE  Order'
  <1> USE DEF Core, TypeOK, ActiveHasClient, Listed, HasClient, ClientSet,
          Order, CloseLast, SocketsOpen, PendingWatched, RejectedWatched,
          QuietPass, ListenTaken, AcceptsClean,
          directory, inSets, outSets, server, rssl, history
  <1>1. CASE OnConnection
    BY <1>1 DEF OnConnection, RejectConnection, AcceptConnection
  <1>2. CASE CloseBegins
    BY <1>2 DEF CloseBegins, Active, Visit
  <1>3. CASE Goodbye
    BY <1>3 DEF Goodbye, Active
  <1>4. QED
    BY <1>1, <1>2, <1>3

(* Every step keeps Order.                                                 *)
LEMMA NextOrder ==
    ASSUME Core, Order, [Next]_vars
    PROVE  Order'
  <1>1. CASE EventThread
    BY <1>1, LoopOrder, VisitOrder, ReplyOrder, ReadOrder, ConnectionOrder
    DEF EventThread, Visits
  <1>2. CASE Quit
    BY <1>2, LoopOrder
  <1>3. CASE \E r \in inflight : LoseTask(r)
    BY <1>3, ReplyOrder
  <1>4. CASE UNCHANGED vars
    BY <1>4 DEF vars, directory, inSets, outSets, server, position, rssl,
                history, Order, CloseLast, SocketsOpen, PendingWatched,
                RejectedWatched, QuietPass, ListenTaken, AcceptsClean
  <1>5. QED
    BY <1>1, <1>2, <1>3, <1>4 DEF Next

(* The descriptor sets and the position in the pass agree at all times.    *)
THEOREM OrderInvariant == Spec => []Order
  <1>1. QED
    BY InitOrder, NextOrder, CoreInvariant, PTL DEF Spec

(* Run never selects on a closed socket, unless a session was rejected or  *)
(* a socket with output changed (provider.cc DoWork, RejectClientSession). *)
THEOREM SetsHoldOpenSockets == Spec => []SelectWorks
  <1>1. Order => SelectWorks
    BY DEF Order, SocketsOpen, SelectWorks, Broken
  <1>2. QED
    BY <1>1, OrderInvariant, PTL

(* Output that RSSL queued is waited for until it is flushed (provider.cc  *)
(* Submit, OnCanWriteWithoutBlocking).                                     *)
THEOREM OutputWaitedFor == Spec => []PendingWatched
  <1>1. Order => PendingWatched
    BY DEF Order
  <1>2. QED
    BY <1>1, OrderInvariant, PTL

(* No channel is listed twice (provider.cc AcceptConnection, and           *)
(* RejectClientSession, which leaves the closed channel in connections_).  *)
THEOREM ChannelsListedOnce == Spec => []AcceptedOnce
  <1>1. Order => AcceptedOnce
    BY DEF Order, AcceptsClean, AcceptedOnce
  <1>2. QED
    BY <1>1, OrderInvariant, PTL

-----------------------------------------------------------------------------
(* The capacity.                                                           *)

Fits == Cardinality(connections) <= Capacity

(* Only AcceptConnection adds a connection, below capacity.                *)
LEMMA NextFits ==
    ASSUME Core, Fits, [Next]_vars
    PROVE  Fits'
  <1> USE ProviderAssumption DEF Fits
  <1>1. IsFiniteSet(connections) /\ Cardinality(connections) \in Nat
    BY FS_Subset, FS_CardinalityType DEF Core, TypeOK
  <1>2. CASE connections' \subseteq connections
    BY <1>1, <1>2, FS_Subset, FS_CardinalityType
  <1>3. CASE OnConnection
    <2>1. CASE RejectConnection
      BY <2>1, <1>2 DEF RejectConnection
    <2>2. CASE AcceptConnection
      <3>1. CASE UNCHANGED connections
        BY <3>1
      <3>2. CASE \E c \in Channels : connections' = connections \cup {c}
        <4>1. Cardinality(connections) # Capacity
          BY <2>2 DEF AcceptConnection
        <4>2. PICK c \in Channels : connections' = connections \cup {c}
          BY <3>2
        <4>3. Cardinality(connections') \in
                {Cardinality(connections), Cardinality(connections) + 1}
          BY <1>1, <4>2, FS_AddElement
        <4>4. QED
          BY <1>1, <4>1, <4>3
      <3>3. QED
        BY <2>2, <3>1, <3>2 DEF AcceptConnection
    <2>3. QED
      BY <1>3, <2>1, <2>2 DEF OnConnection
  <1>4. CASE ~OnConnection
    <2> SUFFICES connections' \subseteq connections
      BY <1>2
    <2> USE DEF directory
    <2>1. CASE \E c \in Channels : OnCanReadWithoutBlocking(c)
      BY <2>1 DEF OnCanReadWithoutBlocking, OnActiveState, ReadClosed,
        OnInitializingState, OnActiveClientSession, ReadFdChange, ReadQuietly,
        OnMsgAborts, OnItemRequest, OnItemClose, OnMsgResponds, Reading
    <2>2. CASE \E c \in Channels : Visits(c) /\ ~OnCanReadWithoutBlocking(c)
      BY <2>2 DEF Visits, NextConnection, NotReadable, NotWritable,
        OnCanWriteWithoutBlocking, NoPing, Ping, PongTimeout, KeepConnection,
        RemoveConnection
    <2>3. CASE \E r \in inflight : OnRead(r) \/ LoseTask(r)
      BY <2>3 DEF OnRead, LoseTask
    <2>4. CASE \/ SelectFails \/ SelectEvents \/ SelectTimeout \/ PassEnds
               \/ Quit \/ NoReply \/ OnReadEmpty \/ NoConnection \/ PumpEnds
               \/ CloseBegins \/ Goodbye
      BY <2>4 DEF SelectFails, SelectEvents, SelectTimeout, PassEnds, Quit,
        NoReply, OnReadEmpty, NoConnection, PumpEnds, CloseBegins, Goodbye
    <2>5. CASE UNCHANGED vars
      BY <2>5 DEF vars
    <2>6. QED
      BY <1>4, <2>1, <2>2, <2>3, <2>4, <2>5 DEF Next, EventThread
  <1>5. QED
    BY <1>3, <1>4

(* A channel in its handshake has no session and holds a connection, so    *)
(* that there are fewer sessions than connections.                         *)
LEMMA RoomForSession == ASSUME Core, Fits PROVE ActivationFits
  <1> USE ProviderAssumption
  <1>1. IsFiniteSet(connections) /\ Cardinality(connections) \in Nat
    BY FS_Subset, FS_CardinalityType DEF Core, TypeOK
  <1>2. ASSUME NEW c \in connections, chan[c] = "initializing"
        PROVE  Cardinality(ClientSet) < Capacity
    <2>1. ClientSet \subseteq connections \ {c}
      BY <1>2 DEF Core, TypeOK, ActiveHasClient, Listed, HasClient, ClientSet
    <2>2. /\ IsFiniteSet(connections \ {c})
          /\ Cardinality(connections \ {c}) = Cardinality(connections) - 1
      BY <1>1, FS_RemoveElement
    <2>3. /\ Cardinality(ClientSet) \in Nat
          /\ Cardinality(ClientSet) <= Cardinality(connections \ {c})
      BY <2>1, <2>2, FS_Subset, FS_CardinalityType
    <2>4. QED
      BY <1>1, <2>2, <2>3 DEF Fits
  <1>3. QED
    BY <1>2 DEF ActivationFits, Fits

(* The capacity that OnConnection enforces on connections is enough for    *)
(* sessions: OnActiveClientSession never rejects one for want of room.     *)
THEOREM CapacityHolds == Spec => []ActivationFits
  <1>1. Init => Fits
    BY ProviderAssumption, FS_EmptySet DEF Init, Fits
  <1>2. Spec => []Fits
    BY <1>1, NextFits, CoreInvariant, PTL DEF Spec
  <1>3. QED
    BY <1>2, RoomForSession, CoreInvariant, PTL

-----------------------------------------------------------------------------
(* Sessions and the requests of theirs that are on the way.                *)

(* A session that was accepted and is above no channel any more.           *)
Ended(n) == n \in 1..nsess /\ \A c \in Channels : clients[c] # n

(* Numbers are given out once; the channel at a request's handle has the   *)
(* session that asked, none, or a later one, and no other channel has it.  *)
Numbered ==
    /\ \A c \in Channels : clients[c] <= nsess
    /\ \A c, d \in Channels : HasClient(c) /\ clients[c] = clients[d] => c = d
    /\ \A r \in inflight :
         /\ r.session <= nsess
         /\ \A c \in Channels : clients[c] = r.session => c = r.handle
         /\ HasClient(r.handle) => r.session <= clients[r.handle]

(* All that a step can do to sessions and requests.                        *)
Accepts(c) ==
    /\ ~HasClient(c) /\ nsess < MaxSessions
    /\ clients' = [clients EXCEPT ![c] = nsess + 1] /\ nsess' = nsess + 1
    /\ UNCHANGED <<inflight, crossed>>

Asks(c) ==
    /\ HasClient(c)
    /\ inflight' = inflight \cup {[session |-> clients[c], handle |-> c]}
    /\ UNCHANGED <<clients, nsess, crossed>>

Ends(D) ==
    /\ clients' = [c \in Channels |-> IF c \in D THEN 0 ELSE clients[c]]
    /\ UNCHANGED <<nsess, inflight, crossed>>

Answers(r) ==
    /\ inflight' = inflight \ {r}
    /\ crossed' = (crossed \/ (/\ HasClient(r.handle) /\ r.handle \in tokens
                               /\ clients[r.handle] # r.session))
    /\ r.handle \notin tokens'
    /\ UNCHANGED <<clients, nsess>>

Loses(r) == inflight' = inflight \ {r} /\ UNCHANGED <<clients, nsess, crossed>>

NumberStep ==
    \/ UNCHANGED <<clients, nsess, inflight, crossed>>
    \/ \E c \in Channels : Accepts(c) \/ Asks(c)
    \/ \E D \in SUBSET Channels : Ends(D)
    \/ \E r \in inflight : Answers(r) \/ Loses(r)

(* A read accepts the session of a channel that has none, or records a     *)
(* request of the one it has.                                              *)
LEMMA ReadNumbers ==
    ASSUME Core, NEW c \in Channels, OnCanReadWithoutBlocking(c)
    PROVE  NumberStep
  <1> USE DEF Reading
  <1>1. CASE ReadClosed(c) \/ OnInitializingState(c) \/ ReadFdChange(c)
    BY <1>1 DEF ReadClosed, OnInitializingState, ReadFdChange, NumberStep
  <1>2. CASE OnActiveClientSession(c)
    <2>1. ~HasClient(c)
      BY <1>2 DEF OnActiveClientSession, Core, Listed
    <2>2. CASE AcceptClientSession(c)
      <3>1. Accepts(c)
        BY <1>2, <2>1, <2>2 DEF OnActiveClientSession, AcceptClientSession, Accepts
      <3>2. QED
        BY <3>1 DEF NumberStep
    <2>3. CASE RejectClientSession(c)
      BY <1>2, <2>3 DEF OnActiveClientSession, RejectClientSession, NumberStep
    <2>4. QED
      BY <1>2, <2>2, <2>3 DEF OnActiveClientSession
  <1>3. ASSUME NEW more \in BOOLEAN, OnActiveState(c, more)
        PROVE  NumberStep
    <2>1. CASE OnItemRequest(c, more)
      <3>1. Asks(c)
        BY <2>1 DEF OnItemRequest, Asks, Core, ActiveHasClient
      <3>2. QED
        BY <3>1 DEF NumberStep
    <2>2. CASE ~OnItemRequest(c, more)
      BY <1>3, <2>2 DEF OnActiveState, ReadQuietly, OnMsgAborts, OnItemClose,
        OnMsgResponds, NumberStep
    <2>3. QED
      BY <2>1, <2>2
  <1>4. QED
    BY <1>1, <1>2, <1>3 DEF OnCanReadWithoutBlocking

(* A reply takes its request from the channel at its handle, if any; a     *)
(* removal ends one session, the end of Close all of them; and no other    *)
(* step knows sessions or requests.                                        *)
LEMMA NextNumbers == ASSUME Core, [Next]_vars PROVE NumberStep
  <1> USE DEF directory, history
  <1>1. CASE \E c \in Channels : OnCanReadWithoutBlocking(c)
    BY <1>1, ReadNumbers
  <1>2. ASSUME NEW c \in Channels, Visits(c), ~OnCanReadWithoutBlocking(c)
        PROVE  NumberStep
    <2>1. CASE RemoveConnection(c)
      <3>1. clients' = [d \in Channels |-> IF d \in {c} THEN 0 ELSE clients[d]]
        BY <2>1 DEF RemoveConnection, Core, TypeOK
      <3>2. Ends({c})
        BY <2>1, <3>1 DEF RemoveConnection, Ends
      <3>3. QED
        BY <3>2 DEF NumberStep
    <2>2. CASE ~RemoveConnection(c)
      BY <1>2, <2>2 DEF Visits, NextConnection, NotReadable, NotWritable,
        OnCanWriteWithoutBlocking, NoPing, Ping, PongTimeout, KeepConnection,
        NumberStep
    <2>3. QED
      BY <2>1, <2>2
  <1>3. ASSUME NEW r \in inflight, OnRead(r)
        PROVE  NumberStep
    <2>1. /\ inflight' = inflight \ {r}
          /\ crossed' = (crossed \/ (/\ HasClient(r.handle) /\ r.handle \in tokens
                                     /\ clients[r.handle] # r.session))
          /\ UNCHANGED <<clients, nsess>>
      BY <1>3 DEF OnRead
    <2>2. r.handle \notin tokens'
      <3>1. r.handle \in Channels /\ (r.handle \in tokens => HasClient(r.handle))
        BY DEF Core, TypeOK, ActiveHasClient, ClientSet
      <3>2. QED
        BY <1>3, <3>1 DEF OnRead
    <2>3. Answers(r)
      BY <2>1, <2>2 DEF Answers
    <2>4. QED
      BY <2>3 DEF NumberStep
  <1>4. CASE \E r \in inflight : LoseTask(r)
    BY <1>4 DEF LoseTask, Loses, NumberStep
  <1>5. CASE Goodbye
    <2>1. Ends(Channels)
      BY <1>5 DEF Goodbye, Ends
    <2>2. QED
      BY <2>1 DEF NumberStep
  <1>6. CASE \/ SelectFails \/ SelectEvents \/ SelectTimeout \/ PassEnds
             \/ Quit \/ NoReply \/ OnReadEmpty \/ NoConnection \/ PumpEnds
             \/ OnConnection \/ CloseBegins
    BY <1>6 DEF SelectFails, SelectEvents, SelectTimeout, PassEnds, Quit,
      NoReply, OnReadEmpty, NoConnection, PumpEnds, OnConnection, CloseBegins,
      NumberStep
  <1>7. CASE UNCHANGED vars
    BY <1>7 DEF vars, NumberStep
  <1>8. QED
    BY <1>1, <1>2, <1>3, <1>4, <1>5, <1>6, <1>7 DEF Next, EventThread

(* The next number is above every session and every request there is.      *)
LEMMA NumbersKept == ASSUME Core, Numbered, NumberStep PROVE Numbered'
  <1> USE DEF Numbered, HasClient
  <1>1. /\ clients \in [Channels -> 0..MaxSessions] /\ nsess \in 0..MaxSessions
        /\ MaxSessions \in Nat
        /\ \A r \in inflight : r.session \in 1..MaxSessions /\ r.handle \in Channels
    BY ProviderAssumption DEF Core, TypeOK, Sessions
  <1>2. CASE UNCHANGED <<clients, nsess, inflight, crossed>>
    BY <1>2
  <1>3. ASSUME NEW c \in Channels, Accepts(c) PROVE Numbered'
    <2>1. /\ clients'[c] = nsess + 1
          /\ \A d \in Channels : d # c => clients'[d] = clients[d]
          /\ nsess' = nsess + 1 /\ inflight' = inflight
      BY <1>1, <1>3 DEF Accepts
    <2>2. QED
      BY <1>1, <2>1
  <1>4. ASSUME NEW c \in Channels, Asks(c) PROVE Numbered'
    <2> DEFINE q == [session |-> clients[c], handle |-> c]
    <2>1. q.session = clients[c] /\ q.handle = c OBVIOUS
    <2>2. clients' = clients /\ nsess' = nsess /\ \A r \in inflight' : r \in inflight \/ r = q
      BY <1>4 DEF Asks
    <2>3. HasClient(c) BY <1>4 DEF Asks
    <2> HIDE DEF q
    <2>4. QED
      BY <1>1, <2>1, <2>2, <2>3
  <1>5. ASSUME NEW D \in SUBSET Channels, Ends(D) PROVE Numbered'
    <2>1. /\ \A c \in Channels : clients'[c] = IF c \in D THEN 0 ELSE clients[c]
          /\ nsess' = nsess /\ inflight' = inflight
      BY <1>5 DEF Ends
    <2>2. QED
      BY <1>1, <2>1
  <1>6. ASSUME NEW r \in inflight, Answers(r) \/ Loses(r) PROVE Numbered'
    BY <1>6 DEF Answers, Loses
  <1>7. QED
    BY <1>2, <1>3, <1>4, <1>5, <1>6 DEF NumberStep

(* Numbered holds of every behaviour: the first session gets number one,   *)
(* and 0 is no session.                                                    *)
LEMMA NumberedInvariant == Spec => []Numbered
  <1>1. Init => Numbered
    BY ProviderAssumption DEF Init, Numbered, HasClient
  <1>2. Core /\ Numbered /\ [Next]_vars => Numbered'
    BY NextNumbers, NumbersKept
  <1>3. QED
    BY <1>1, <1>2, CoreInvariant, PTL DEF Spec

(* A session that has ended is not brought back by any later connection    *)
(* (provider.cc AcceptClientSession, RemoveConnection).                    *)
EndedStays == \A n \in Sessions : Ended(n) => Ended(n)'

THEOREM SessionsEndForGood == Spec => [][EndedStays]_vars
  <1>1. ASSUME Core, Numbered, NumberStep, NEW n \in Sessions, Ended(n)
        PROVE  Ended(n)'
    <2>1. /\ clients \in [Channels -> 0..MaxSessions] /\ nsess \in 0..MaxSessions
          /\ MaxSessions \in Nat /\ n \in 1..nsess /\ \A c \in Channels : clients[c] # n
      BY <1>1, ProviderAssumption DEF Core, TypeOK, Ended
    <2>2. nsess' \in {nsess, nsess + 1}
      BY <1>1 DEF NumberStep, Accepts, Asks, Ends, Answers, Loses
    <2>3. \A c \in Channels : clients'[c] \in {clients[c], 0, nsess + 1}
      <3>1. CASE \E c \in Channels : Accepts(c)
        BY <2>1, <3>1 DEF Accepts
      <3>2. CASE \E D \in SUBSET Channels : Ends(D)
        BY <3>2 DEF Ends
      <3>3. CASE UNCHANGED clients
        BY <3>3
      <3>4. QED
        BY <1>1, <3>1, <3>2, <3>3 DEF NumberStep, Asks, Answers, Loses
    <2>4. QED
      BY <2>1, <2>2, <2>3 DEF Ended
  <1>2. Core /\ Numbered /\ [Next]_vars => [EndedStays]_vars
    BY <1>1, NextNumbers DEF EndedStays
  <1>3. QED
    BY <1>2, CoreInvariant, NumberedInvariant, PTL DEF Spec

(* A reply is written to a session that did not ask only when the one that *)
(* asked has ended and a later one has its channel and an open request of  *)
(* its own, which the reply takes: what the run of ReplyRouted shows is    *)
(* the only way (hitsuji.cc OnRead, provider.cc SendReply).                *)
CrossesAfterEnd ==
    ~crossed /\ crossed' =>
        \E r \in inflight :
            /\ inflight' = inflight \ {r}
            /\ Ended(r.session) /\ r.session < clients[r.handle]
            /\ r.handle \in tokens \ tokens'

THEOREM RepliesCrossAfterEnd == Spec => [][CrossesAfterEnd]_vars
  <1>1. ASSUME Core, Numbered, NumberStep, ~crossed, crossed'
        PROVE  CrossesAfterEnd
    <2>1. PICK r \in inflight : Answers(r)
      BY <1>1 DEF NumberStep, Accepts, Asks, Ends, Loses
    <2>2. /\ HasClient(r.handle) /\ r.handle \in tokens
          /\ clients[r.handle] # r.session /\ r.handle \notin tokens'
          /\ inflight' = inflight \ {r}
      BY <1>1, <2>1 DEF Answers
    <2>3. /\ r.session \in 1..MaxSessions /\ r.handle \in Channels
          /\ clients[r.handle] \in 0..MaxSessions /\ nsess \in 0..MaxSessions
          /\ MaxSessions \in Nat
      BY <1>1, ProviderAssumption DEF Core, TypeOK, Sessions
    <2>4. /\ r.session <= nsess /\ r.session <= clients[r.handle]
          /\ \A c \in Channels : clients[c] = r.session => c = r.handle
      BY <1>1, <2>2 DEF Numbered
    <2>5. Ended(r.session)
      BY <2>2, <2>3, <2>4 DEF Ended
    <2>6. r.session < clients[r.handle]
      BY <2>2, <2>3, <2>4
    <2>7. QED
      BY <2>2, <2>5, <2>6 DEF CrossesAfterEnd
  <1>2. Core /\ Numbered /\ [Next]_vars => [CrossesAfterEnd]_vars
    BY <1>1, NextNumbers DEF CrossesAfterEnd
  <1>3. QED
    BY <1>2, CoreInvariant, NumberedInvariant, PTL DEF Spec
=============================================================================
