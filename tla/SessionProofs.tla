--------------------------- MODULE SessionProofs ---------------------------
(***************************************************************************)
(* Session's invariants, for any set of streams and any number of          *)
(* requests.  The inductive invariant adds to the properties that requests *)
(* are numbered by nreq, that a reply in flight names the request that     *)
(* asked for it, and that a token's own request is not cancelled before a  *)
(* logout.                                                                 *)
(***************************************************************************)
EXTENDS Session, TLAPS

(* Requests are numbered by nreq, and a request in flight that owns some   *)
(* token carries that token.                                               *)
Numbered ==
    /\ \A t \in Streams : owner[t] <= nreq
    /\ \A q \in lost \cup cancelled : q <= nreq
    /\ \A r \in inflight : /\ r.req <= nreq
                           /\ \A t \in Streams : owner[t] = r.req => r.token = t

(* Before a logout the request that owns a token is not cancelled.         *)
OwnerNotCancelled ==
    state = "active" /\ ~loggedOut =>
        \A t \in tokens_ : owner[t] \notin cancelled

(* A session that is not logged in and never logged out has no tokens.     *)
TokensNeedLogin ==
    state = "active" /\ ~is_logged_in_ /\ ~loggedOut => tokens_ = {}

(* The initial states are well typed, the uninitialised directory_token_   *)
(* included.                                                               *)
LEMMA InitTypeOK == Init => TypeOK
  <1> SUFFICES ASSUME Init PROVE TypeOK
    OBVIOUS
  <1>1. /\ is_logged_in_ \in BOOLEAN /\ loggedOut \in BOOLEAN
        /\ staleSent \in BOOLEAN
    BY DEF Init
  <1>2. nreq \in 0..MaxRequests /\ owner \in [Streams -> 0..MaxRequests]
    BY SessionAssumption DEF Init
  <1>3. QED
    BY <1>1, <1>2 DEF Init, TypeOK

(* Every step of client_t, of its consumer, of the pool and of the         *)
(* provider keeps the types.                                               *)
LEMMA NextTypeOK == TypeOK /\ [Next]_vars => TypeOK'
  <1> SUFFICES ASSUME TypeOK, [Next]_vars PROVE TypeOK'
    OBVIOUS
  <1> USE SessionAssumption DEF TypeOK, Tasks, Requests, Return, Submitted,
        SendClose, StreamClosed, SendDirectoryRefresh, SubmitResults,
        client, pool, items, admin, streams
  <1>1. ASSUME NEW s \in Streams, OnLoginClose(s) PROVE TypeOK'
    BY <1>1 DEF OnLoginClose
  <1>2. ASSUME NEW s \in Streams, OnDirectoryClose(s) PROVE TypeOK'
    BY <1>2 DEF OnDirectoryClose, vars
  <1>3. ASSUME NEW s \in Streams, OnItemClose(s) PROVE TypeOK'
    BY <1>3 DEF OnItemClose
  <1>4. ASSUME NEW s \in Streams, OnItemRequest(s) PROVE TypeOK'
    <2>1. ASSUME NEW rc \in SubmitResults, ItemBeforeLogin(s, rc)
          PROVE TypeOK'
      BY <1>4, <2>1 DEF OnItemRequest, ItemBeforeLogin
    <2>2. CASE ItemReissue(s)
      BY <1>4, <2>2 DEF OnItemRequest, ItemReissue
    <2>3. ASSUME NEW dispatched \in BOOLEAN, ItemDispatch(s, dispatched)
          PROVE TypeOK'
      BY <1>4, <2>3 DEF OnItemRequest, ItemDispatch
    <2>4. QED
      BY <1>4, <2>1, <2>2, <2>3 DEF OnItemRequest
  <1>5. ASSUME NEW s \in Streams, NEW rc \in SubmitResults,
               NEW valid \in BOOLEAN, OnLoginRequest(s, valid, rc)
        PROVE TypeOK'
    BY <1>5 DEF OnLoginRequest, AcceptLogin, RejectLogin
  <1>6. ASSUME NEW s \in Streams, NEW rc \in SubmitResults,
               OnDirectoryRequest(s, rc)
        PROVE TypeOK'
    BY <1>6 DEF OnDirectoryRequest
  <1>7. ASSUME NEW s \in Streams, NEW rc \in SubmitResults,
               OnUnsupportedMsg(s, rc) \/ OnDictionaryRequest(s, rc)
        PROVE TypeOK'
    BY <1>7 DEF OnUnsupportedMsg, OnDictionaryRequest
  <1>8. ASSUME NEW rc \in SubmitResults, Close(rc) PROVE TypeOK'
    BY <1>8 DEF Close
  <1>9. ASSUME NEW rc \in SubmitResults, NEW r \in inflight,
               NEW ends \in BOOLEAN, OnReply(r, rc, ends)
        PROVE TypeOK'
    BY <1>9 DEF OnReply, SendReply, Answered, Stale
  <1>10. ASSUME NEW r \in inflight, LoseTask(r) PROVE TypeOK'
    BY <1>10 DEF LoseTask
  <1>11. CASE Disconnect
    BY <1>11 DEF Disconnect
  <1>12. CASE OnSourceDirectoryUpdate
    BY <1>12 DEF OnSourceDirectoryUpdate
  <1>13. CASE UNCHANGED vars
    BY <1>13 DEF vars
  <1>14. QED
    BY <1>1, <1>2, <1>3, <1>4, <1>5, <1>6, <1>7, <1>8, <1>9, <1>10, <1>11,
       <1>12, <1>13 DEF Next, OnMsg

(* The types hold in every reachable state of client_t's session.          *)
THEOREM TypeCorrect == Spec => []TypeOK
  BY InitTypeOK, NextTypeOK, PTL DEF Spec

-----------------------------------------------------------------------------
(* The inductive invariant is TypeOK and Core.                             *)
Core ==
    /\ Numbered
    /\ TokensNeedLogin
    /\ TokenOwnerInFlight
    /\ WaitingAccounted
    /\ TokensWanted
    /\ OwnerNotCancelled
    /\ ClosedNotAnswered
    /\ LoginHeldByConsumer

(* A session starts without tokens, requests and logins.                   *)
LEMMA InitCore == Init => Core
  BY DEF Init, Core, Numbered, TokensNeedLogin, TokenOwnerInFlight,
         WaitingAccounted, TokensWanted, OwnerNotCancelled,
         ClosedNotAnswered, LoginHeldByConsumer

(* An item request: refused before a login, ignored when its stream is in  *)
(* tokens_, else recorded and handed to the pool under a fresh number.     *)
LEMMA ItemRequestCore ==
  ASSUME TypeOK, Core, NEW t \in Streams, OnItemRequest(t)
  PROVE  Core'
  <1> USE SessionAssumption DEF TypeOK, Core, Return, StreamClosed, client,
        pool, admin, Tasks, Requests
  <1>1. ASSUME NEW rc \in SubmitResults, ItemBeforeLogin(t, rc) PROVE Core'
    BY <1>1 DEF OnItemRequest, ItemBeforeLogin, Submitted, SubmitResults,
         Numbered, TokensNeedLogin, TokenOwnerInFlight, WaitingAccounted,
         TokensWanted, OwnerNotCancelled, ClosedNotAnswered, LoginHeldByConsumer
  <1>2. CASE ItemReissue(t)
    BY <1>2 DEF OnItemRequest, ItemReissue, Numbered, TokensNeedLogin,
         TokenOwnerInFlight, WaitingAccounted, TokensWanted, OwnerNotCancelled,
         ClosedNotAnswered, LoginHeldByConsumer
  <1>3. ASSUME NEW dispatched \in BOOLEAN, ItemDispatch(t, dispatched)
        PROVE Core'
    <2> USE <1>3 DEF OnItemRequest, ItemDispatch
    <2>1. Numbered' /\ TokensNeedLogin'
      BY DEF Numbered, TokensNeedLogin
    <2>2. TokenOwnerInFlight'
      BY DEF TokenOwnerInFlight
    <2>3. WaitingAccounted' /\ TokensWanted'
      BY DEF WaitingAccounted, TokensWanted
    <2>4. OwnerNotCancelled'
      BY DEF OwnerNotCancelled, Numbered
    <2>5. ClosedNotAnswered' /\ LoginHeldByConsumer'
      BY DEF ClosedNotAnswered, LoginHeldByConsumer
    <2>6. QED
      BY <2>1, <2>2, <2>3, <2>4, <2>5
  <1>4. QED
    BY <1>1, <1>2, <1>3 DEF OnItemRequest

(* A reply takes its token with it; when the token's own request was       *)
(* cancelled there was a logout.                                           *)
LEMMA ReplyCore ==
  ASSUME TypeOK, Core, NEW r \in inflight, NEW rc \in SubmitResults,
         NEW ends \in BOOLEAN, OnReply(r, rc, ends)
  PROVE  Core'
  <1> USE SessionAssumption DEF TypeOK, Core, streams, Tasks, Requests, OnReply,
        Answered
  <1>1. Numbered' /\ TokensNeedLogin'
    BY DEF Numbered, TokensNeedLogin, SendReply
  <1>2. TokenOwnerInFlight'
    BY DEF TokenOwnerInFlight, SendReply
  <1>3. WaitingAccounted' /\ TokensWanted'
    BY DEF WaitingAccounted, TokensWanted, SendReply
  <1>4. OwnerNotCancelled'
    BY DEF OwnerNotCancelled, SendReply
  <1>5. ClosedNotAnswered'
    BY DEF ClosedNotAnswered, OwnerNotCancelled, SendReply, Stale
  <1>6. LoginHeldByConsumer'
    BY DEF LoginHeldByConsumer, SendReply
  <1>7. QED
    BY <1>1, <1>2, <1>3, <1>4, <1>5, <1>6

(* A task the pool gives up moves from inflight to lost.                   *)
LEMMA LoseCore ==
  ASSUME TypeOK, Core, NEW r \in inflight, LoseTask(r)
  PROVE  Core'
  BY SessionAssumption DEF TypeOK, Core, LoseTask, client, items, admin,
     Tasks, Requests, Numbered, TokensNeedLogin, TokenOwnerInFlight, WaitingAccounted,
     TokensWanted, OwnerNotCancelled, ClosedNotAnswered, LoginHeldByConsumer

(* Closing an item cancels the requests in flight on its stream, and takes *)
(* the stream from tokens_ unless the consumer has logged out.             *)
LEMMA ItemCloseCore ==
  ASSUME TypeOK, Core, NEW t \in Streams, OnItemClose(t)
  PROVE  Core'
  <1> USE SessionAssumption DEF TypeOK, Core, pool, admin, Tasks, Requests,
        OnItemClose
  <1>1. Numbered' /\ TokensNeedLogin'
    BY DEF Numbered, TokensNeedLogin
  <1>2. TokenOwnerInFlight'
    BY DEF TokenOwnerInFlight
  <1>3. WaitingAccounted' /\ TokensWanted'
    BY DEF WaitingAccounted, TokensWanted, TokensNeedLogin
  <1>4. OwnerNotCancelled'
    BY DEF OwnerNotCancelled, TokensNeedLogin, Numbered
  <1>5. ClosedNotAnswered' /\ LoginHeldByConsumer'
    BY DEF ClosedNotAnswered, LoginHeldByConsumer
  <1>6. QED
    BY <1>1, <1>2, <1>3, <1>4, <1>5

(* A close that client_t sends takes its stream from the consumer's view:  *)
(* its token, if there is one, is refused, its login, if it is the         *)
(* session's, is closed.                                                   *)
LEMMA SendCloseCore ==
  ASSUME TypeOK, Core, NEW s \in Streams, NEW rc \in SubmitResults,
         state = "active", SendClose(s, rc),
         UNCHANGED <<client, pool, cancelled, staleSent, loggedOut>>
  PROVE  Core'
  <1> USE DEF Core, client, pool, Return, SendClose, StreamClosed, streams
  <1>1. Numbered' /\ TokensNeedLogin' /\ TokenOwnerInFlight'
    BY DEF Numbered, TokensNeedLogin, TokenOwnerInFlight
  <1>2. WaitingAccounted' /\ TokensWanted'
    BY DEF WaitingAccounted, TokensWanted
  <1>3. OwnerNotCancelled' /\ ClosedNotAnswered'
    BY DEF OwnerNotCancelled, ClosedNotAnswered
  <1>4. LoginHeldByConsumer'
    BY DEF LoginHeldByConsumer
  <1>5. QED
    BY <1>1, <1>2, <1>3, <1>4

(* The login handlers: the flag follows the consumer's own view.           *)
LEMMA LoginCore ==
  ASSUME TypeOK, Core, NEW s \in Streams,
         \/ OnLoginClose(s)
         \/ \E rc \in SubmitResults, valid \in BOOLEAN :
                OnLoginRequest(s, valid, rc)
  PROVE  Core'
  <1> USE SessionAssumption DEF TypeOK, Core, pool
  <1>1. CASE OnLoginClose(s)
    BY <1>1 DEF OnLoginClose, items, Numbered, TokensNeedLogin, TokenOwnerInFlight,
         WaitingAccounted, TokensWanted, OwnerNotCancelled,
         ClosedNotAnswered, LoginHeldByConsumer
  <1>2. ASSUME NEW rc \in SubmitResults, NEW valid \in BOOLEAN,
               OnLoginRequest(s, valid, rc)
        PROVE Core'
    <2>1. CASE valid
      BY <1>2, <2>1 DEF OnLoginRequest, AcceptLogin, Return, Submitted,
         SubmitResults, Numbered, TokensNeedLogin, TokenOwnerInFlight,
         WaitingAccounted, TokensWanted, OwnerNotCancelled, ClosedNotAnswered,
         LoginHeldByConsumer
    <2>2. CASE ~valid
      BY <1>2, <2>2, SendCloseCore DEF OnLoginRequest, RejectLogin, client
    <2>3. QED
      BY <2>1, <2>2
  <1>3. QED
    BY <1>1, <1>2

(* Every other step leaves tokens_, the pool and the logins alone, or ends *)
(* the session's active life.                                              *)
LEMMA OtherCore ==
  ASSUME TypeOK, Core,
         \/ \E s \in Streams : OnDirectoryClose(s)
         \/ \E s \in Streams, rc \in SubmitResults : OnDirectoryRequest(s, rc)
         \/ \E rc \in SubmitResults : Close(rc)
         \/ Disconnect
         \/ OnSourceDirectoryUpdate
         \/ UNCHANGED vars
  PROVE  Core'
  <1>1. /\ UNCHANGED <<tokens_, login_token_, pool, items, loginView, loggedOut>>
        /\ \/ UNCHANGED <<is_logged_in_, logins>>
           \/ state' # "active"
        /\ state' = "active" => state = "active"
    BY DEF OnDirectoryClose, OnDirectoryRequest, Close,
       Disconnect, OnSourceDirectoryUpdate, Return, SendDirectoryRefresh, vars, client, pool, items, admin
  <1>2. QED
    BY <1>1 DEF Core, pool, items, Numbered, TokensNeedLogin,
       TokenOwnerInFlight, WaitingAccounted, TokensWanted, OwnerNotCancelled,
       ClosedNotAnswered, LoginHeldByConsumer

(* TypeOK and Core are inductive.                                          *)
LEMMA NextCore == TypeOK /\ Core /\ [Next]_vars => Core'
  <1> SUFFICES ASSUME TypeOK, Core, [Next]_vars PROVE Core'
    OBVIOUS
  <1>1. CASE OnMsg
    <2>1. ASSUME NEW s \in Streams, NEW rc \in SubmitResults,
                 OnUnsupportedMsg(s, rc) \/ OnDictionaryRequest(s, rc)
          PROVE Core'
      BY <2>1, SendCloseCore DEF OnUnsupportedMsg, OnDictionaryRequest
    <2>2. QED
      BY <1>1, <2>1, LoginCore, ItemCloseCore, ItemRequestCore, OtherCore
         DEF OnMsg
  <1>2. CASE \E rc \in SubmitResults :
                \E r \in inflight, ends \in BOOLEAN : OnReply(r, rc, ends)
    BY <1>2, ReplyCore
  <1>3. CASE \E r \in inflight : LoseTask(r)
    BY <1>3, LoseCore
  <1>4. QED
    BY <1>1, <1>2, <1>3, OtherCore DEF Next

(* Core holds in every reachable state.                                    *)
LEMMA CoreInvariant == Spec => []Core
  BY InitTypeOK, NextTypeOK, InitCore, NextCore, PTL DEF Spec

(* No token of a live client_t is orphaned: its own request is with the    *)
(* workers or was given up by one.                                         *)
THEOREM TokensAnswerable == Spec => []TokenOwnerInFlight
  BY CoreInvariant, PTL DEF Core

(* Consumer and client_t agree on what is outstanding: whoever waits is    *)
(* recorded in tokens_ or had its answer fail.                             *)
THEOREM WaitersKnown == Spec => []WaitingAccounted
  BY CoreInvariant, PTL DEF Core

(* Before a logout client_t answers only streams its consumer waits on, or *)
(* that client_t itself closed in the meantime.                            *)
THEOREM AnswersWanted == Spec => []TokensWanted
  BY CoreInvariant, PTL DEF Core

(* Before a logout an item close is final: the closed request is not       *)
(* answered on its own token.                                              *)
THEOREM ClosesFinal == Spec => []ClosedNotAnswered
  BY CoreInvariant, PTL DEF Core

(* A logged-in client_t is logged in on a stream its consumer holds, or    *)
(* client_t closed that stream or never told of it.                        *)
THEOREM LoginsHeld == Spec => []LoginHeldByConsumer
  BY CoreInvariant, PTL DEF Core
=============================================================================
