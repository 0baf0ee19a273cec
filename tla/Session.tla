------------------------------ MODULE Session ------------------------------
(***************************************************************************)
(* One client session of the provider: client_t (client.cc), driven by the *)
(* messages of its consumer, by the replies of the worker pool and by the  *)
(* provider that owns it.                                                  *)
(*                                                                         *)
(* client_t keeps four variables: is_logged_in_, login_token_,             *)
(* directory_token_ and tokens_, the stream ids of the item requests that  *)
(* a worker still has to answer.  All handlers run on the event thread, so *)
(* a handler is one step.  The worker pool answers in any order.           *)
(*                                                                         *)
(* A handler that returns FALSE makes provider_t::OnMsg abort the channel; *)
(* provider_t::DoWork then drops the client in the same iteration, before  *)
(* any other message or reply of this session, so both are one step here.  *)
(*                                                                         *)
(* The remaining variables are the consumer's view of its own streams and  *)
(* the history the properties need; no handler reads them.  A stream id    *)
(* names one stream of the session, in whichever domain a message carries  *)
(* it; the consumer closes a stream in the domain it opened it in, and its *)
(* other messages may name any stream.                                     *)
(***************************************************************************)
EXTENDS Naturals, FiniteSets

CONSTANTS Streams,      \* stream ids a consumer uses
          NoStream,     \* the value 0 of login_token_ and directory_token_
          MaxRequests   \* bound: item requests accepted in a session

ASSUME SessionAssumption ==
    /\ NoStream \notin Streams
    /\ MaxRequests \in Nat

VARIABLES
    is_logged_in_, login_token_, directory_token_, tokens_,   \* client_t
    state,        \* "active", "closing" (provider_t::Close began) or "gone"
    inflight,     \* requests the worker pool has and has not answered
    lost,         \* requests the pool gave up without an answer
    nreq,         \* item requests accepted so far; numbers them
    owner,        \* per stream, the last request that put it in tokens_
    waiting,      \* item streams the consumer waits on
    undelivered,  \* ... of these, the ones whose answer never reached it
    refused,      \* item streams client_t closed while it kept their token
    cancelled,    \* unanswered requests whose stream the consumer closed
    staleSent,    \* a request was answered after its close, on its own token
    logins,       \* login streams the consumer holds as accepted
    loginView,    \* the consumer's view of login_token_: "held", "closed" by
                  \* client_t on that stream later, or "untold" of the login
    loggedOut     \* the consumer closed a login of this session

client == <<is_logged_in_, login_token_, directory_token_, tokens_>>
pool == <<inflight, lost, nreq, owner>>
items == <<waiting, undelivered, refused, cancelled, staleSent>>
admin == <<logins, loginView, loggedOut>>
streams == <<waiting, undelivered, refused, logins, loginView>>
vars == <<client, state, pool, items, admin>>

Requests == 1..MaxRequests

Tasks == [req : Requests, token : Streams]

TypeOK ==
    /\ is_logged_in_ \in BOOLEAN
    /\ login_token_ \in Streams \cup {NoStream}
    /\ directory_token_ \in Streams \cup {NoStream}
    /\ tokens_ \subseteq Streams
    /\ state \in {"active", "closing", "gone"}
    /\ inflight \subseteq Tasks
    /\ lost \subseteq Requests
    /\ nreq \in 0..MaxRequests
    /\ owner \in [Streams -> 0..MaxRequests]
    /\ waiting \subseteq Streams /\ undelivered \subseteq Streams
    /\ refused \subseteq Streams
    /\ cancelled \subseteq Requests
    /\ staleSent \in BOOLEAN
    /\ logins \subseteq Streams
    /\ loginView \in {"held", "closed", "untold"}
    /\ loggedOut \in BOOLEAN

-----------------------------------------------------------------------------
(* Submission.  provider_t::Submit answers nonzero when rsslWriteEx sent or *)
(* queued the message, and also when the buffer pool was empty and the     *)
(* message was neither sent nor queued.                                    *)

SubmitResults == {"sent", "no_buffers", "failed"}

Submitted(rc) == rc # "failed"

(* A handler ends with TRUE when its response was submitted, with FALSE    *)
(* otherwise; FALSE ends the session.                                      *)
Return(ok) == state' = IF ok THEN state ELSE "gone"

(* A message that ends stream s reached the consumer, which takes the      *)
(* stream as closed whatever it was open for; client_t keeps its state.    *)
StreamClosed(s) ==
    /\ waiting' = waiting \ {s}
    /\ undelivered' = undelivered \ {s}
    /\ refused' = refused \cup ({s} \cap tokens_)
    /\ logins' = logins \ {s}
    /\ loginView' = IF s = login_token_ THEN "closed" ELSE loginView

(* A status message that closes stream s, encoded and submitted.           *)
SendClose(s, rc) ==
    /\ Return(Submitted(rc))
    /\ IF rc = "sent" THEN StreamClosed(s) ELSE UNCHANGED streams

-----------------------------------------------------------------------------
(* client_t does not initialise directory_token_: any value.               *)
Init ==
    /\ is_logged_in_ = FALSE
    /\ login_token_ = NoStream
    /\ directory_token_ \in Streams \cup {NoStream}
    /\ tokens_ = {}
    /\ state = "active"
    /\ inflight = {} /\ lost = {} /\ nreq = 0
    /\ owner = [t \in Streams |-> 0]
    /\ waiting = {} /\ undelivered = {} /\ refused = {} /\ cancelled = {}
    /\ staleSent = FALSE
    /\ logins = {} /\ loginView = "held"
    /\ loggedOut = FALSE

-----------------------------------------------------------------------------
(* Request messages.                                                       *)

AcceptLogin(s, rc) ==
    /\ IF Submitted(rc)
         THEN /\ is_logged_in_' = TRUE
              /\ login_token_' = s
              /\ loginView' = IF rc = "sent" THEN "held" ELSE "untold"
         ELSE UNCHANGED <<is_logged_in_, login_token_, loginView>>
    /\ logins' = IF rc = "sent" THEN logins \cup {s} ELSE logins
    /\ Return(Submitted(rc))
    /\ UNCHANGED <<waiting, undelivered, refused>>

(* The status message closes the login stream.                             *)
RejectLogin(s, rc) ==
    /\ SendClose(s, rc)
    /\ UNCHANGED <<is_logged_in_, login_token_>>

OnLoginRequest(s, valid, rc) ==
    /\ state = "active"
    /\ IF valid THEN AcceptLogin(s, rc) ELSE RejectLogin(s, rc)
    /\ UNCHANGED <<directory_token_, tokens_, pool, cancelled, staleSent,
                   loggedOut>>

(* Mutant of OnDirectoryRequest: the token takes the result of the call.   *)
OnDirectoryRequestResult(s, rc) ==
    /\ state = "active"
    /\ directory_token_' = rc
    /\ Return(Submitted(rc))
    /\ UNCHANGED <<is_logged_in_, login_token_, tokens_, pool, items, admin>>

(* The refresh is encoded and submitted; client_t keeps no record of it.   *)
SendDirectoryRefresh(rc) == Return(Submitted(rc))

OnDirectoryRequest(s, rc) ==
    /\ state = "active"
    /\ directory_token_' = s
    /\ SendDirectoryRefresh(rc)
    /\ UNCHANGED <<is_logged_in_, login_token_, tokens_, pool, items, admin>>

(* A message class or a request domain that a provider does not take: the  *)
(* response closes the message's own stream, be it an open item stream or  *)
(* the login stream, and client_t keeps its token and its login.           *)
OnUnsupportedMsg(s, rc) ==
    /\ state = "active"
    /\ SendClose(s, rc)
    /\ UNCHANGED <<client, pool, cancelled, staleSent, loggedOut>>

(* A dictionary request is answered alike.                                 *)
OnDictionaryRequest(s, rc) == OnUnsupportedMsg(s, rc)

(* The request is answered by a close of its stream.                       *)
ItemBeforeLogin(t, rc) ==
    /\ ~is_logged_in_
    /\ Return(Submitted(rc))
    /\ IF rc = "sent"
         THEN StreamClosed(t)
         ELSE /\ waiting' = waiting \cup {t}
              /\ undelivered' = undelivered \cup {t}
              /\ UNCHANGED <<refused, logins, loginView>>
    /\ UNCHANGED <<client, pool, cancelled, staleSent, loggedOut>>

ItemReissue(t) ==
    /\ is_logged_in_
    /\ t \in tokens_
    /\ waiting' = waiting \cup {t}
    /\ undelivered' = undelivered \ {t}
    /\ refused' = refused \ {t}
    /\ UNCHANGED <<client, state, pool, cancelled, staleSent, admin>>

(* Mutant of ItemDispatch: the result of OnRequest is ignored.             *)
ItemDispatchUnchecked(t, dispatched) ==
    /\ is_logged_in_
    /\ t \notin tokens_
    /\ nreq < MaxRequests
    /\ tokens_' = tokens_ \cup {t}
    /\ nreq' = IF dispatched THEN nreq + 1 ELSE nreq
    /\ inflight' = IF dispatched
                     THEN inflight \cup {[req |-> nreq + 1, token |-> t]}
                     ELSE inflight
    /\ owner' = IF dispatched THEN [owner EXCEPT ![t] = nreq + 1] ELSE owner
    /\ waiting' = waiting \cup {t}
    /\ undelivered' = undelivered \ {t}
    /\ refused' = refused \ {t}
    /\ UNCHANGED <<is_logged_in_, login_token_, directory_token_, state, lost,
                   cancelled, staleSent, admin>>

(* The token is recorded before the request is handed to the pool; when    *)
(* hitsuji_t::OnRequest fails it stays recorded, in a session that ends.   *)
ItemDispatch(t, dispatched) ==
    /\ is_logged_in_
    /\ t \notin tokens_
    /\ nreq < MaxRequests
    /\ tokens_' = tokens_ \cup {t}
    /\ Return(dispatched)
    /\ nreq' = IF dispatched THEN nreq + 1 ELSE nreq
    /\ inflight' = IF dispatched
                     THEN inflight \cup {[req |-> nreq + 1, token |-> t]}
                     ELSE inflight
    /\ owner' = IF dispatched THEN [owner EXCEPT ![t] = nreq + 1] ELSE owner
    /\ waiting' = waiting \cup {t}
    /\ undelivered' = undelivered \ {t}
    /\ refused' = refused \ {t}
    /\ UNCHANGED <<is_logged_in_, login_token_, directory_token_, lost,
                   cancelled, staleSent, admin>>

OnItemRequest(t) ==
    /\ state = "active"
    /\ \/ \E rc \in SubmitResults : ItemBeforeLogin(t, rc)
       \/ ItemReissue(t)
       \/ \E dispatched \in BOOLEAN : ItemDispatch(t, dispatched)

-----------------------------------------------------------------------------
(* Close messages.                                                         *)

(* Mutant of OnLoginClose: the login flag is not toggled.                  *)
OnLoginCloseUntoggled(s) ==
    /\ state = "active"
    /\ logins' = logins \ {s}
    /\ UNCHANGED <<client, state, pool, items, loginView, loggedOut>>

(* Mutant of OnLoginClose: the tokens are dropped, the streams left open.  *)
OnLoginCloseDropsTokens(s) ==
    /\ state = "active"
    /\ is_logged_in_' = FALSE
    /\ login_token_' = NoStream
    /\ loggedOut' = (loggedOut \/ is_logged_in_)
    /\ tokens_' = {}
    /\ logins' = logins \ {s}
    /\ UNCHANGED <<directory_token_, state, pool, items, loginView>>

(* Any close in the login domain logs the session out, whichever stream it *)
(* names; tokens_ keeps its members.                                       *)
OnLoginClose(s) ==
    /\ state = "active"
    /\ IF is_logged_in_
         THEN /\ is_logged_in_' = FALSE
              /\ login_token_' = NoStream
              /\ loggedOut' = TRUE
         ELSE UNCHANGED <<is_logged_in_, login_token_, loggedOut>>
    /\ logins' = logins \ {s}
    /\ UNCHANGED <<directory_token_, tokens_, state, pool, items,
                   loginView>>

(* directory_token_ stays: the update of a closing provider goes to it.     *)
OnDirectoryClose(s) ==
    /\ state = "active"
    /\ UNCHANGED vars

(* Mutant of OnItemClose: the token is not removed.                        *)
OnItemCloseKeepsToken(t) ==
    /\ state = "active"
    /\ waiting' = waiting \ {t}
    /\ undelivered' = undelivered \ {t}
    /\ refused' = refused \ {t}
    /\ cancelled' = cancelled \cup {r.req : r \in {q \in inflight : q.token = t}}
    /\ UNCHANGED <<client, state, pool, staleSent, admin>>

OnItemClose(t) ==
    /\ state = "active"
    /\ tokens_' = IF is_logged_in_ THEN tokens_ \ {t} ELSE tokens_
    /\ waiting' = waiting \ {t}
    /\ undelivered' = undelivered \ {t}
    /\ refused' = refused \ {t}
    /\ cancelled' = cancelled \cup {r.req : r \in {q \in inflight : q.token = t}}
    /\ UNCHANGED <<is_logged_in_, login_token_, directory_token_, state, pool,
                   staleSent, admin>>

-----------------------------------------------------------------------------
(* Replies.                                                                *)

Stale(r, rc) == rc = "sent" /\ r.req \in cancelled /\ owner[r.token] = r.req

(* The consumer's view of the answer to stream t: a refresh, which ends a  *)
(* snapshot's stream, or a status message that closes the stream.          *)
Answered(t, rc, ends) ==
    /\ refused' = refused \ {t}
    /\ IF rc = "sent"
         THEN /\ waiting' = waiting \ {t}
              /\ undelivered' = undelivered \ {t}
         ELSE /\ undelivered' = undelivered \cup {t}
              /\ UNCHANGED waiting
    /\ IF rc = "sent" /\ ends
         THEN /\ logins' = logins \ {t}
              /\ loginView' = IF t = login_token_ THEN "closed" ELSE loginView
         ELSE UNCHANGED <<logins, loginView>>

(* Mutant of SendReply: a reply is written whether its token is known.     *)
SendReplyUnchecked(r, rc, ends) ==
    /\ tokens_' = tokens_ \ {r.token}
    /\ staleSent' = (staleSent \/ Stale(r, rc))
    /\ Answered(r.token, rc, ends)

(* The token goes before the write is tried: a reply that fails is not     *)
(* tried again, and the session goes on.                                   *)
SendReply(r, rc, ends) ==
    IF r.token \notin tokens_
      THEN UNCHANGED <<tokens_, staleSent, streams>>
      ELSE /\ tokens_' = tokens_ \ {r.token}
           /\ staleSent' = (staleSent \/ Stale(r, rc))
           /\ Answered(r.token, rc, ends)

(* Once the client has left the provider's map the reply is dropped.  In   *)
(* "closing" there are none: hitsuji_t::Reset closed the reply socket.     *)
OnReply(r, rc, ends) ==
    /\ r \in inflight
    /\ state # "closing"
    /\ inflight' = inflight \ {r}
    /\ IF state = "active"
         THEN SendReply(r, rc, ends)
         ELSE UNCHANGED <<tokens_, staleSent, streams>>
    /\ cancelled' = cancelled \ {r.req}
    /\ UNCHANGED <<is_logged_in_, login_token_, directory_token_, state, lost,
                   nreq, owner, loggedOut>>

(* A worker whose OnTask fails leaves its loop without a reply.            *)
LoseTask(r) ==
    /\ r \in inflight
    /\ inflight' = inflight \ {r}
    /\ lost' = lost \cup {r.req}
    /\ UNCHANGED <<client, state, nreq, owner, items, admin>>

-----------------------------------------------------------------------------
(* The provider.                                                           *)

(* The peer leaves, or misses its pong: provider_t::DoWork drops it.       *)
Disconnect ==
    /\ state # "gone"
    /\ state' = "gone"
    /\ UNCHANGED <<client, pool, items, admin>>

(* provider_t::Close, first pass: a directory update on directory_token_,  *)
(* its result ignored; from here on the client's socket is not read.       *)
OnSourceDirectoryUpdate ==
    /\ state = "active"
    /\ state' = "closing"
    /\ UNCHANGED <<client, pool, items, admin>>

(* provider_t::Close, third pass, once no client has tokens left.          *)
Close(rc) ==
    /\ state = "closing"
    /\ tokens_ = {}
    /\ state' = "gone"
    /\ is_logged_in_' = FALSE
    /\ logins' = IF is_logged_in_ /\ rc = "sent"
                   THEN logins \ {login_token_} ELSE logins
    /\ UNCHANGED <<login_token_, directory_token_, tokens_, pool, items,
                   loginView, loggedOut>>

-----------------------------------------------------------------------------
OnMsg ==
    \E s \in Streams :
        \/ OnLoginClose(s)
        \/ OnDirectoryClose(s)
        \/ OnItemClose(s)
        \/ OnItemRequest(s)
        \/ \E rc \in SubmitResults :
              \/ \E valid \in BOOLEAN : OnLoginRequest(s, valid, rc)
              \/ OnDirectoryRequest(s, rc)
              \/ OnDictionaryRequest(s, rc)
              \/ OnUnsupportedMsg(s, rc)

Next ==
    \/ OnMsg
    \/ \E rc \in SubmitResults :
          \/ Close(rc)
          \/ \E r \in inflight, ends \in BOOLEAN : OnReply(r, rc, ends)
    \/ \E r \in inflight : LoseTask(r)
    \/ Disconnect
    \/ OnSourceDirectoryUpdate

Spec == Init /\ [][Next]_vars

-----------------------------------------------------------------------------
(* Every token of a live session belongs to a request that the pool still  *)
(* holds, or gave up: provider_t::Close waits for tokens_ to drain, and a  *)
(* token nobody will answer would be refused as a reissue for ever         *)
(* (client.cc OnItemRequest and SendReply).                                *)
TokenOwnerInFlight ==
    state = "active" =>
        \A t \in tokens_ :
            \/ [req |-> owner[t], token |-> t] \in inflight
            \/ owner[t] \in lost

(* A consumer that waits on an item stream is known to client_t: the       *)
(* stream is in tokens_, unless the answer itself failed to be written     *)
(* (client.cc SendReply erases the token before it submits).               *)
WaitingAccounted ==
    state = "active" => waiting \subseteq tokens_ \cup undelivered

(* As long as the consumer has not logged out, a reply goes only to a      *)
(* stream the consumer waits on: closing an item, reissuing it and         *)
(* answering it keep tokens_ within the consumer's own view.  The one      *)
(* exception is a stream that client_t itself closed and the consumer has  *)
(* not asked for again: a message of an unsupported class or domain, or a  *)
(* malformed login, that names an open item stream (client.cc OnMsg,       *)
(* OnRequestMsg, OnDictionaryRequest, RejectLogin, OnItemClose, SendReply).*)
TokensWanted ==
    state = "active" /\ ~loggedOut => tokens_ \subseteq waiting \cup refused

(* As long as the consumer has not logged out, a request that it closed is *)
(* not answered on the token it owns (client.cc OnItemClose, SendReply).   *)
ClosedNotAnswered == ~loggedOut => ~staleSent

(* client_t takes a session as logged in only on a login stream that the   *)
(* consumer holds too, save for a login stream that client_t itself closed *)
(* later, by a rejection, by the close that answers an unsupported message *)
(* or by an item's answer, and for an acceptance that was not sent         *)
(* (client.cc OnLoginRequest, OnMsg, SendReply and OnCloseMsg).            *)
LoginHeldByConsumer ==
    state = "active" /\ is_logged_in_ =>
        login_token_ \in logins \/ loginView # "held"

=============================================================================
