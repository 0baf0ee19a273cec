------------------------------ MODULE Provider ------------------------------
(***************************************************************************)
(* The event loop of provider_t (provider.cc): the connections it accepts, *)
(* the client sessions above them, the descriptor sets it selects on, the  *)
(* replies it routes to sessions, and its close at shutdown.               *)
(*                                                                         *)
(* Run calls select, then DoWork until a pass finds no work.  A pass that  *)
(* follows events takes a reply, accepts a connection and then visits each *)
(* connection: read, write, keepalive, removal.  A pass that follows a     *)
(* timeout or an error of select visits them for keepalive and removal     *)
(* only.  pc is the position in the pass.                                  *)
(*                                                                         *)
(* A client's socket is named by its channel.  in_rfds_ and in_efds_ hold  *)
(* the same client sockets and are one variable.  Timers are abstracted: a *)
(* ping may be due and a pong may be overdue at any visit.  Of a session   *)
(* only its unanswered request is kept, one at a time.                     *)
(***************************************************************************)
EXTENDS Naturals, FiniteSets

CONSTANTS Channels,     \* addresses of RsslChannel
          NoChannel,    \* not a channel
          Capacity,     \* config_.session_capacity
          MaxSessions   \* bound: client sessions accepted

ASSUME ProviderAssumption ==
    /\ NoChannel \notin Channels
    /\ IsFiniteSet(Channels)
    /\ Capacity \in Nat \ {0}
    /\ MaxSessions \in Nat

VARIABLES
    connections,  \* connections_
    clients,      \* clients_: per channel the session above it, 0 for none
    tokens,       \* channels whose session has an unanswered request
    watched,      \* in_rfds_ and in_efds_
    pending,      \* in_wfds_
    orphan,       \* a closed socket that is no channel's is in these sets
    out_rfds_, out_wfds_, out_efds_,
    listen,       \* rssl_sock_ is set in out_rfds_
    reply,        \* reply_sock_ is set in out_rfds_
    pc, cur, todo,  \* position in DoWork, and in its iteration
    events,       \* out_nfds_ > 0
    did_work,
    mode,         \* "running", "quit" (keep_running_ is false) or "closing"
    chan,         \* RSSL: the state of a channel, "free" when not in use
    queued,       \* RSSL: channels with output that is not flushed
    inflight,     \* requests at the worker pool: session and handle
    nsess,        \* sessions accepted so far; numbers them
    rejected,     \* a session was rejected when it became active
    crossed       \* a reply was written to a session that did not ask

directory == <<connections, clients, tokens, nsess>>
inSets == <<watched, pending, orphan>>
outSets == <<out_rfds_, out_wfds_, out_efds_>>
server == <<listen, reply>>
position == <<pc, cur, todo, events, did_work>>
rssl == <<chan, queued>>
history == <<rejected, crossed>>
vars == <<directory, inSets, outSets, server, position, mode, rssl, inflight,
          history>>

Sessions == 1..MaxSessions

TypeOK ==
    /\ connections \subseteq Channels
    /\ clients \in [Channels -> 0..MaxSessions]
    /\ tokens \subseteq Channels
    /\ watched \subseteq Channels /\ pending \subseteq Channels
    /\ orphan \in BOOLEAN
    /\ out_rfds_ \subseteq Channels
    /\ out_wfds_ \subseteq Channels
    /\ out_efds_ \subseteq Channels
    /\ listen \in BOOLEAN /\ reply \in BOOLEAN
    /\ pc \in {"select", "reply", "accept", "next", "read", "write",
               "keepalive", "remove", "stopped", "goodbye", "closed"}
    /\ cur \in Channels \cup {NoChannel}
    /\ todo \subseteq Channels
    /\ events \in BOOLEAN /\ did_work \in BOOLEAN
    /\ mode \in {"running", "quit", "closing"}
    /\ chan \in [Channels -> {"free", "initializing", "active", "closed"}]
    /\ queued \subseteq Channels
    /\ inflight \subseteq [session : Sessions, handle : Channels]
    /\ nsess \in 0..MaxSessions
    /\ rejected \in BOOLEAN /\ crossed \in BOOLEAN

Init ==
    /\ connections = {} /\ clients = [c \in Channels |-> 0]
    /\ tokens = {} /\ nsess = 0
    /\ watched = {} /\ pending = {} /\ orphan = FALSE
    /\ out_rfds_ = {} /\ out_wfds_ = {} /\ out_efds_ = {}
    /\ listen = FALSE /\ reply = FALSE
    /\ pc = "next" /\ cur = NoChannel /\ todo = {}
    /\ events = FALSE /\ did_work = FALSE
    /\ mode = "running"
    /\ chan = [c \in Channels |-> "free"] /\ queued = {}
    /\ inflight = {}
    /\ rejected = FALSE /\ crossed = FALSE

-----------------------------------------------------------------------------
HasClient(c) == clients[c] # 0

ClientSet == {c \in Channels : HasClient(c)}

Fail(c) == [chan EXCEPT ![c] = "closed"]

(* Submit: sent; queued, or no buffer, with the socket watched for output; *)
(* or failed, which may close the channel.                                 *)
Submit(c, ok) ==
    \/ ok /\ UNCHANGED <<rssl, pending>>
    \/ /\ ok
       /\ pending' = pending \cup {c}
       /\ queued' \in {queued, queued \cup {c}}
       /\ UNCHANGED chan
    \/ /\ ~ok
       /\ chan' \in {chan, Fail(c)}
       /\ UNCHANGED <<queued, pending>>

(* Mutant of Abort: the exception flag is not raised.                      *)
AbortQuietly(c, more) ==
    /\ out_rfds_' = IF more THEN out_rfds_ \cup {c} ELSE out_rfds_ \ {c}
    /\ out_wfds_' = out_wfds_ \ {c}
    /\ UNCHANGED out_efds_

(* more: the caller then puts the socket back, for input RSSL has buffered. *)
Abort(c, more) ==
    /\ out_rfds_' = IF more THEN out_rfds_ \cup {c} ELSE out_rfds_ \ {c}
    /\ out_wfds_' = out_wfds_ \ {c}
    /\ out_efds_' = out_efds_ \cup {c}

-----------------------------------------------------------------------------
(* The loop of Run.                                                        *)

(* select fails when a set holds a closed socket.                          *)
Broken == orphan \/ \E c \in watched \cup pending : chan[c] = "free"

Visit(ev) ==
    /\ events' = ev
    /\ did_work' = FALSE
    /\ cur' = NoChannel
    /\ IF ev THEN pc' = "reply" /\ UNCHANGED todo
             ELSE pc' = "next" /\ todo' = connections

(* Mutant of SelectFails: the pass takes an error for events.              *)
SelectFailsAsEvents ==
    /\ pc = "select"
    /\ Broken \/ mode = "closing"
    /\ out_rfds_' = watched /\ out_wfds_' = pending /\ out_efds_' = watched
    /\ listen' = TRUE /\ reply' = TRUE
    /\ Visit(TRUE)
    /\ UNCHANGED <<directory, inSets, mode, rssl, inflight, history>>

(* The sets are passed as copies and an error leaves them as they are.  In *)
(* Close the reply socket, closed by hitsuji_t::Reset, is one of them.     *)
SelectFails ==
    /\ pc = "select"
    /\ Broken \/ mode = "closing"
    /\ out_rfds_' = watched /\ out_wfds_' = pending /\ out_efds_' = watched
    /\ listen' = TRUE /\ reply' = TRUE
    /\ Visit(FALSE)
    /\ UNCHANGED <<directory, inSets, mode, rssl, inflight, history>>

ClosedByPeer == {c \in watched : chan[c] = "closed"}

(* The socket of a channel that RSSL took as closed is always readable.    *)
(* Bound: at most one socket has an exception.                             *)
SelectEvents ==
    /\ pc = "select"
    /\ ~Broken /\ mode # "closing"
    /\ out_rfds_' \in {r \in SUBSET watched : ClosedByPeer \subseteq r}
    /\ out_wfds_' \in SUBSET pending
    /\ out_efds_' \in {{}} \cup {{c} : c \in watched}
    /\ listen' \in BOOLEAN
    /\ reply' \in BOOLEAN
    /\ out_rfds_' \cup out_wfds_' \cup out_efds_' # {} \/ listen' \/ reply'
    /\ Visit(TRUE)
    /\ UNCHANGED <<directory, inSets, mode, rssl, inflight, history>>

SelectTimeout ==
    /\ pc = "select"
    /\ ~Broken /\ mode # "closing"
    /\ ClosedByPeer = {}
    /\ out_rfds_' = {} /\ out_wfds_' = {} /\ out_efds_' = {}
    /\ listen' = FALSE /\ reply' = FALSE
    /\ Visit(FALSE)
    /\ UNCHANGED <<directory, inSets, mode, rssl, inflight, history>>

(* The end of a pass: Run stops, calls DoWork again, or selects.           *)
PassEnds ==
    /\ pc = "next"
    /\ todo = {}
    /\ mode # "closing"
    /\ IF mode = "quit"
         THEN pc' = "stopped" /\ UNCHANGED <<cur, todo, events, did_work>>
         ELSE IF did_work
                THEN Visit(events)
                ELSE pc' = "select" /\ UNCHANGED <<cur, todo, events, did_work>>
    /\ UNCHANGED <<directory, inSets, outSets, server, mode, rssl, inflight,
                   history>>

Quit ==
    /\ mode = "running"
    /\ mode' = "quit"
    /\ UNCHANGED <<directory, inSets, outSets, server, position, rssl,
                   inflight, history>>

-----------------------------------------------------------------------------
(* DoWork after events: the reply socket, then the listening socket.       *)

NoReply ==
    /\ pc = "reply" /\ ~reply
    /\ pc' = "accept"
    /\ UNCHANGED <<directory, inSets, outSets, server, cur, todo, events,
                   did_work, mode, rssl, inflight, history>>

(* The descriptor of the reply socket may be readable with no reply there. *)
OnReadEmpty ==
    /\ pc = "reply" /\ reply
    /\ reply' = FALSE
    /\ did_work' = TRUE
    /\ pc' = "accept"
    /\ UNCHANGED <<directory, inSets, outSets, listen, cur, todo, events, mode,
                   rssl, inflight, history>>

(* OnRead takes one reply and hands it to the session found at its handle; *)
(* it asks to be called again if there are more, unless that failed.       *)
OnRead(r) ==
    LET c == r.handle
        wanted == HasClient(c) /\ c \in tokens
    IN  /\ pc = "reply" /\ reply
        /\ inflight' = inflight \ {r}
        /\ tokens' = tokens \ (IF wanted THEN {c} ELSE {})
        /\ crossed' = (crossed \/ (wanted /\ clients[c] # r.session))
        /\ \E ok \in BOOLEAN :
              /\ IF wanted THEN Submit(c, ok)
                           ELSE ok = HasClient(c) /\ UNCHANGED <<rssl, pending>>
              /\ reply' \in (IF ok /\ inflight' # {} THEN BOOLEAN ELSE {FALSE})
        /\ did_work' = TRUE
        /\ pc' = "accept"
        /\ UNCHANGED <<connections, clients, nsess, watched, orphan, outSets,
                       listen, cur, todo, events, mode, rejected>>

NoConnection ==
    /\ pc = "accept" /\ ~listen
    /\ pc' = "next" /\ todo' = connections
    /\ UNCHANGED <<directory, inSets, outSets, server, cur, events, did_work,
                   mode, rssl, inflight, history>>

(* RejectConnection refuses the mount; rsslAccept may fail in both cases.  *)
RejectConnection ==
    /\ mode = "closing" \/ Cardinality(connections) = Capacity
    /\ UNCHANGED <<connections, watched, chan>>

AcceptConnection ==
    /\ mode # "closing" /\ Cardinality(connections) # Capacity
    /\ \/ UNCHANGED <<connections, watched, chan>>
       \/ \E c \in Channels :
            /\ chan[c] = "free"
            /\ connections' = connections \cup {c}
            /\ watched' = watched \cup {c}
            /\ chan' = [chan EXCEPT ![c] = "initializing"]

(* Mutant of OnConnection: the capacity is not looked at.                  *)
OnConnectionUncounted ==
    /\ pc = "accept" /\ listen
    /\ listen' = FALSE
    /\ \E c \in Channels :
         /\ chan[c] = "free"
         /\ connections' = connections \cup {c}
         /\ watched' = watched \cup {c}
         /\ chan' = [chan EXCEPT ![c] = "initializing"]
    /\ did_work' = TRUE
    /\ pc' = "next" /\ todo' = connections'
    /\ UNCHANGED <<clients, tokens, nsess, pending, orphan, outSets, reply, cur,
                   events, mode, queued, inflight, history>>

(* A connection that is accepted is visited in the same pass.              *)
OnConnection ==
    /\ pc = "accept" /\ listen
    /\ listen' = FALSE
    /\ RejectConnection \/ AcceptConnection
    /\ did_work' = TRUE
    /\ pc' = "next" /\ todo' = connections'
    /\ UNCHANGED <<clients, tokens, nsess, pending, orphan, outSets, reply, cur,
                   events, mode, queued, inflight, history>>

-----------------------------------------------------------------------------
(* The visit of one connection.                                            *)

NextConnection(c) ==
    /\ pc = "next" /\ c \in todo
    /\ cur' = c /\ todo' = todo \ {c}
    /\ pc' = IF events THEN "read" ELSE "keepalive"
    /\ UNCHANGED <<directory, inSets, outSets, server, events, did_work, mode,
                   rssl, inflight, history>>

Proceed(stage) == pc' = stage /\ UNCHANGED <<cur, todo, events>>

NotReadable(c) ==
    /\ pc = "read" /\ c = cur /\ c \notin out_rfds_
    /\ Proceed("write")
    /\ UNCHANGED <<directory, inSets, outSets, server, did_work, mode, rssl,
                   inflight, history>>

(* What every read does, besides what it finds; more: input is buffered.   *)
Reading(c) ==
    /\ pc = "read" /\ c = cur /\ c \in out_rfds_
    /\ did_work' = TRUE
    /\ Proceed("write")
    /\ UNCHANGED <<connections, server, mode, crossed>>

Took(c, more) ==
    /\ out_rfds_' = IF more THEN out_rfds_ ELSE out_rfds_ \ {c}
    /\ UNCHANGED <<out_wfds_, out_efds_>>

ReadClosed(c) ==
    /\ chan[c] = "closed"
    /\ Reading(c)
    /\ Abort(c, FALSE)
    /\ UNCHANGED <<clients, tokens, nsess, inSets, rssl, inflight, rejected>>

(* The handshake goes on or fails, which may close the channel.            *)
OnInitializingState(c) ==
    /\ chan[c] = "initializing"
    /\ Reading(c)
    /\ Took(c, FALSE)
    /\ chan' \in {chan, Fail(c)}
    /\ UNCHANGED <<clients, tokens, nsess, inSets, queued, inflight, rejected>>

AcceptClientSession(c) ==
    /\ nsess < MaxSessions
    /\ clients' = [clients EXCEPT ![c] = nsess + 1]
    /\ nsess' = nsess + 1
    /\ chan' = [chan EXCEPT ![c] = "active"]
    /\ UNCHANGED rejected

(* Close: RSSL releases the channel, and its address may come back.        *)
CloseChannel(c) == chan' = [chan EXCEPT ![c] = "free"]

(* Mutant of RejectClientSession: the channel is not closed.               *)
RejectClientSessionOpen(c) ==
    /\ chan' = [chan EXCEPT ![c] = "active"]
    /\ rejected' = TRUE
    /\ UNCHANGED <<clients, nsess>>

RejectClientSession(c) ==
    /\ CloseChannel(c)
    /\ rejected' = TRUE
    /\ UNCHANGED <<clients, nsess>>

(* The session is rejected at capacity, or when its Initialize fails.  The *)
(* caller then puts the socket into the sets, also that of a rejected one. *)
OnActiveClientSession(c) ==
    /\ chan[c] = "initializing"
    /\ Reading(c)
    /\ Took(c, FALSE)
    /\ \/ /\ mode # "closing" /\ Cardinality(ClientSet) # Capacity
          /\ AcceptClientSession(c)
       \/ RejectClientSession(c)
    /\ watched' = watched \cup {c}
    /\ UNCHANGED <<tokens, pending, orphan, queued, inflight>>

(* rsslReadEx gave a ping, a fragment, a warning or a failure, or a message *)
(* whose handler keeps no state and could not respond.                      *)
ReadQuietly(c, more) ==
    /\ chan[c] = "active"
    /\ Reading(c)
    /\ Took(c, more)
    /\ chan' \in {chan, Fail(c)}
    /\ UNCHANGED <<clients, tokens, nsess, inSets, queued, inflight, rejected>>

(* The socket of the channel changed.  in_wfds_ keeps the old one.         *)
ReadFdChange(c) ==
    /\ chan[c] = "active"
    /\ Reading(c)
    /\ Took(c, FALSE)
    /\ watched' = watched \cup {c}
    /\ pending' = pending \ {c}
    /\ orphan' = (orphan \/ c \in pending)
    /\ UNCHANGED <<clients, tokens, nsess, rssl, inflight, rejected>>

(* A message that cannot be decoded, or whose handler returns false: it    *)
(* may have recorded the token of a request that it could not dispatch.    *)
OnMsgAborts(c, more) ==
    /\ chan[c] = "active"
    /\ Reading(c)
    /\ Abort(c, more)
    /\ tokens' \in {tokens, tokens \cup {c}}
    /\ chan' \in {chan, Fail(c)}
    /\ UNCHANGED <<clients, nsess, inSets, queued, inflight, rejected>>

OnItemRequest(c, more) ==
    /\ chan[c] = "active" /\ c \notin tokens
    /\ Reading(c)
    /\ Took(c, more)
    /\ tokens' = tokens \cup {c}
    /\ inflight' = inflight \cup {[session |-> clients[c], handle |-> c]}
    /\ UNCHANGED <<clients, nsess, inSets, rssl, rejected>>

OnItemClose(c, more) ==
    /\ chan[c] = "active" /\ c \in tokens
    /\ Reading(c)
    /\ Took(c, more)
    /\ tokens' = tokens \ {c}
    /\ UNCHANGED <<clients, nsess, inSets, rssl, inflight, rejected>>

(* A message that is answered at once: login, directory, a refusal.        *)
OnMsgResponds(c, more) ==
    /\ chan[c] = "active"
    /\ Reading(c)
    /\ Took(c, more)
    /\ Submit(c, TRUE)
    /\ UNCHANGED <<clients, tokens, nsess, watched, orphan, inflight, rejected>>

OnActiveState(c, more) ==
    \/ ReadQuietly(c, more)
    \/ OnMsgAborts(c, more)
    \/ OnItemRequest(c, more)
    \/ OnItemClose(c, more)
    \/ OnMsgResponds(c, more)

OnCanReadWithoutBlocking(c) ==
    \/ ReadClosed(c)
    \/ OnInitializingState(c)
    \/ OnActiveClientSession(c)
    \/ ReadFdChange(c)
    \/ \E more \in BOOLEAN : OnActiveState(c, more)

NotWritable(c) ==
    /\ pc = "write" /\ c = cur /\ c \notin out_wfds_
    /\ Proceed("keepalive")
    /\ UNCHANGED <<directory, inSets, outSets, server, did_work, mode, rssl,
                   inflight, history>>

(* Mutant of Flush: the socket is not watched for the rest of the output.  *)
FlushOnce(c) ==
    /\ pending' = pending \ {c}
    /\ queued' \in {queued, queued \ {c}}
    /\ UNCHANGED chan

(* All output is written; some is left; or the channel failed.             *)
Flush(c) ==
    \/ /\ chan[c] = "active"
       /\ pending' = pending \ {c} /\ queued' = queued \ {c}
       /\ UNCHANGED chan
    \/ UNCHANGED <<pending, rssl>>
    \/ chan[c] = "active" /\ chan' = Fail(c) /\ UNCHANGED <<pending, queued>>

OnCanWriteWithoutBlocking(c) ==
    /\ pc = "write" /\ c = cur /\ c \in out_wfds_
    /\ out_wfds_' = out_wfds_ \ {c}
    /\ Flush(c)
    /\ did_work' = TRUE
    /\ Proceed("keepalive")
    /\ UNCHANGED <<directory, watched, orphan, out_rfds_, out_efds_, server,
                   mode, inflight, history>>

KeptAlive(c) == HasClient(c) /\ chan[c] = "active"

(* No session above the connection, or no ping is due.                     *)
NoPing(c) ==
    /\ pc = "keepalive" /\ c = cur
    /\ Proceed("remove")
    /\ UNCHANGED <<directory, inSets, outSets, server, did_work, mode, rssl,
                   inflight, history>>

(* A ping flushes the channel's output; if it cannot, the connection is    *)
(* given up; if it fails, RSSL may close the channel.                      *)
Ping(c) ==
    /\ pc = "keepalive" /\ c = cur /\ KeptAlive(c)
    /\ \/ queued' = queued \ {c} /\ UNCHANGED <<chan, out_efds_>>
       \/ out_efds_' = out_efds_ \cup {c} /\ UNCHANGED <<chan, queued>>
       \/ chan' \in {chan, Fail(c)} /\ UNCHANGED <<queued, out_efds_>>
    /\ Proceed("remove")
    /\ UNCHANGED <<directory, inSets, out_rfds_, out_wfds_, server, did_work,
                   mode, inflight, history>>

(* No pong arrived in time; a ping sent just before may have failed.       *)
PongTimeout(c) ==
    /\ pc = "keepalive" /\ c = cur /\ KeptAlive(c)
    /\ Abort(c, FALSE)
    /\ chan' \in {chan, Fail(c)}
    /\ Proceed("remove")
    /\ UNCHANGED <<directory, inSets, server, did_work, mode, queued, inflight,
                   history>>

KeepConnection(c) ==
    /\ pc = "remove" /\ c = cur /\ c \notin out_efds_
    /\ Proceed("next")
    /\ UNCHANGED <<directory, inSets, outSets, server, did_work, mode, rssl,
                   inflight, history>>

(* Mutant of ForgetSocket: the write set is not cleared.                   *)
ForgetReadSocket(c) ==
    watched' = watched \ {c} /\ UNCHANGED pending

ForgetSocket(c) ==
    watched' = watched \ {c} /\ pending' = pending \ {c}

(* Mutant of RemoveConnection: the session stays in the map.               *)
RemoveConnectionOnly(c) ==
    /\ pc = "remove" /\ c = cur /\ c \in out_efds_
    /\ connections' = connections \ {c}
    /\ ForgetSocket(c)
    /\ CloseChannel(c)
    /\ queued' = queued \ {c}
    /\ Proceed("next")
    /\ UNCHANGED <<clients, tokens, nsess, orphan, outSets, server, did_work,
                   mode, inflight, history>>

(* The connection, its session and its sockets go; RSSL releases the       *)
(* channel, whose address a later connection may get.                      *)
RemoveConnection(c) ==
    /\ pc = "remove" /\ c = cur /\ c \in out_efds_
    /\ connections' = connections \ {c}
    /\ clients' = [clients EXCEPT ![c] = 0]
    /\ tokens' = tokens \ {c}
    /\ ForgetSocket(c)
    /\ CloseChannel(c)
    /\ queued' = queued \ {c}
    /\ Proceed("next")
    /\ UNCHANGED <<nsess, orphan, outSets, server, did_work, mode, inflight,
                   history>>

-----------------------------------------------------------------------------
(* Close, called by hitsuji_t::Reset when Run has ended and the workers    *)
(* have been joined.                                                       *)

Active == {c \in ClientSet : chan[c] = "active"}

(* The directory update of each session is sent, queued or fails; then the *)
(* sets are emptied and DoWork is called as after a timeout.               *)
CloseBegins ==
    /\ pc = "stopped"
    /\ mode' = "closing"
    /\ \E late \in SUBSET Active, failed \in SUBSET Active :
         /\ late \cap failed = {}
         /\ queued' = queued \cup late
         /\ chan' = [c \in Channels |->
                       IF c \in failed THEN "closed" ELSE chan[c]]
         /\ IF ClientSet # {}
              THEN /\ watched' = {} /\ pending' = {} /\ orphan' = FALSE
                   /\ Visit(FALSE)
              ELSE /\ pc' = "goodbye"
                   /\ UNCHANGED <<inSets, cur, todo, events, did_work>>
    /\ UNCHANGED <<directory, outSets, server, inflight, history>>

(* A pass of the pump ends: are there tokens left?                         *)
PumpEnds ==
    /\ pc = "next" /\ todo = {} /\ mode = "closing"
    /\ pc' = IF tokens = {} THEN "goodbye" ELSE "select"
    /\ UNCHANGED <<directory, inSets, outSets, server, cur, todo, events,
                   did_work, mode, rssl, inflight, history>>

(* Each session that is logged in sends a close; the active channels that  *)
(* are watched for output are flushed, or fail; and all are released.      *)
Goodbye ==
    /\ pc = "goodbye"
    /\ \E failed \in SUBSET Active : pending' = (pending \ Active) \cup failed
    /\ connections' = {}
    /\ clients' = [c \in Channels |-> 0]
    /\ tokens' = {}
    /\ chan' = [c \in Channels |-> "free"]
    /\ queued' = {}
    /\ pc' = "closed"
    /\ UNCHANGED <<nsess, watched, orphan, outSets, server, cur, todo, events,
                   did_work, mode, inflight, rejected, crossed>>

(* A worker that fails does not answer its request.                        *)
LoseTask(r) ==
    /\ mode # "closing"
    /\ inflight' = inflight \ {r}
    /\ UNCHANGED <<directory, inSets, outSets, server, position, mode, rssl,
                   history>>

Visits(c) ==
    \/ NextConnection(c)
    \/ NotReadable(c) \/ OnCanReadWithoutBlocking(c)
    \/ NotWritable(c) \/ OnCanWriteWithoutBlocking(c)
    \/ NoPing(c) \/ Ping(c) \/ PongTimeout(c)
    \/ KeepConnection(c) \/ RemoveConnection(c)

EventThread ==
    \/ SelectFails \/ SelectEvents \/ SelectTimeout \/ PassEnds
    \/ NoReply \/ OnReadEmpty \/ \E r \in inflight : OnRead(r)
    \/ NoConnection \/ OnConnection
    \/ \E c \in Channels : Visits(c)
    \/ CloseBegins \/ PumpEnds \/ Goodbye

Next == EventThread \/ Quit \/ \E r \in inflight : LoseTask(r)

Spec == Init /\ [][Next]_vars

(* The thread runs; the input of a connection that RSSL has buffered ends; *)
(* and in Close, where nothing is read, a pong becomes overdue.            *)
Fairness ==
    /\ WF_vars(EventThread)
    /\ \A c \in Channels : SF_vars(OnActiveState(c, FALSE))
    /\ \A c \in Channels : SF_vars(mode = "closing" /\ PongTimeout(c))

FairSpec == Spec /\ Fairness

-----------------------------------------------------------------------------
(* A connection that finishes its handshake finds room in clients_: the    *)
(* capacity checked by OnConnection is enough, and OnActiveClientSession   *)
(* rejects a session only when its Initialize fails.                       *)
ActivationFits ==
    /\ Cardinality(connections) <= Capacity
    /\ (\E c \in connections : chan[c] = "initializing") =>
          Cardinality(ClientSet) < Capacity

(* userSpecPtr is never null or dangling where DoWork, OnMsg and Ping      *)
(* follow it: an active channel has its session in clients_, and a session *)
(* is above a connection that is still listed.                             *)
ActiveHasClient ==
    /\ \A c \in Channels : chan[c] = "active" => HasClient(c)
    /\ ClientSet \subseteq connections
    /\ tokens \subseteq ClientSet

(* rsslAccept never gets an address that connections_ still holds, so that *)
(* no channel is listed twice: a channel that OnActiveClientSession closed *)
(* is removed before the next connection is accepted.                      *)
AcceptedOnce ==
    pc = "accept" /\ listen => \A c \in connections : chan[c] # "free"

(* The sets that Run selects on hold no closed socket, unless a session    *)
(* was rejected or a socket with output changed: RemoveConnection clears   *)
(* all three before the channel is closed.                                 *)
SelectWorks ==
    pc = "select" /\ mode # "closing" /\ ~rejected /\ ~orphan => ~Broken

(* Output that RSSL has queued is waited for until it is flushed: Submit   *)
(* sets in_wfds_ and only a complete flush or a removal clears it.         *)
PendingWatched ==
    mode # "closing" /\ ~orphan =>
        \A c \in queued : chan[c] = "active" => c \in pending

(* A connection that RSSL has closed is removed while Run runs: its socket *)
(* stays readable, and the read of a closed channel aborts it.             *)
ClosedRemoved ==
    \A c \in Channels :
        (c \in connections /\ chan[c] = "closed") ~>
            (c \notin connections \/ mode # "running")

(* Close ends by pong timeouts, unless a channel with tokens was closed by *)
(* RSSL: DoWork then neither reads it nor looks at its pong.               *)
CloseEndsUnlessStuck ==
    mode = "closing" ~>
        (pc = "closed" \/ \E c \in tokens : chan[c] = "closed")

-----------------------------------------------------------------------------
(* provider.cc: "client may have disconnected before reply is available".  *)
(* A reply is written to the session that asked, or to none.               *)
ReplyRouted == ~crossed
=============================================================================
