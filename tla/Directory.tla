----------------------------- MODULE Directory -----------------------------
(***************************************************************************)
(* The source directory one consumer is given: client_t::SendDirectory-    *)
(* Refresh and SendDirectoryUpdate (client.cc) and the encoder below       *)
(* provider_t::GetDirectoryMap (provider.cc).                              *)
(*                                                                         *)
(* A message is encoded into a pooled buffer by a nested series of RSSL    *)
(* calls (Init ... Complete), each of which may fail.  The code rolls      *)
(* nothing back: a function whose call failed returns false, so do all its *)
(* callers, and SendDirectory... releases the buffer.  An encoding is the  *)
(* sequence of calls it makes, and a step makes the next call of `todo`.   *)
(*                                                                         *)
(* A refresh that fails aborts the channel (provider_t::OnMsg); the result *)
(* of an update, which provider_t::Close sends, is ignored.                *)
(***************************************************************************)
EXTENDS Naturals, Sequences, FiniteSets

CONSTANTS ServiceId,    \* service_id_, 0 when it is not assigned
          MaxRequests   \* bound: directory requests of the consumer

ASSUME DirectoryAssumption ==
    /\ ServiceId \in Nat
    /\ MaxRequests \in Nat

VARIABLES
    is_accepting_requests_,  \* provider_t: cleared by Close
    phase,     \* what SendDirectory... runs for: "refresh", "update", or
               \* "idle", and "gone" when the channel is aborted
    closing,   \* provider_t::Close sent its update
    todo,      \* calls the encoding still makes
    open,      \* containers open in the encode iterator, innermost last
    written,   \* what the buffer holds: entries with the path they are at
    asked,     \* filter mask of the request being answered
    header,    \* msgKey.filter of the message being encoded
    out,       \* buffers taken from the pool that are still out of it
    lost,      \* ... of these, dropped by a write that found the pool empty
    view,      \* what the consumer knows of the service
    sent,      \* the message last given to RSSL, with what was asked for
    nreq       \* requests so far

encoder == <<todo, open, written, asked, header>>
buffers == <<out, lost>>
vars == <<is_accepting_requests_, phase, closing, encoder, buffers, view, sent, nreq>>

Provided == {"INFO", "STATE", "LOAD"}
Filters == Provided \cup {"GROUP"}       \* GROUP: any filter not provided
None == [class |-> "none"]

-----------------------------------------------------------------------------
(* Calls of the RSSL encoder.  Open and Close are the Init and Complete of *)
(* one container, Put an entry without one.                                *)

Open(kind, value) == [call |-> "open", kind |-> kind, value |-> value]
Put(kind, value) == [call |-> "put", kind |-> kind, value |-> value]
Close(kind) == [call |-> "close", kind |-> kind, value |-> 0]
Call(name) == [call |-> "plain", kind |-> name, value |-> 0]
ReturnFalse == [call |-> "false", kind |-> "", value |-> 0]

(* An element, a filter entry: a container around the calls of `body`.     *)
Within(kind, value, body) == <<Open(kind, value)>> \o body \o <<Close(kind)>>

Array(values) ==
    Within("array", Len(values), [i \in 1..Len(values) |-> Put("entry", values[i])])

GetServiceCapabilities == Array(<<"MARKET_PRICE">>)
GetServiceDictionaries == Array(<<"RWFFld", "RWFEnum">>)
GetServiceQoS == Array(<<"TICK_BY_TICK">>)

(* GetServiceInformation: the elements that are arrays, then the rest.     *)
ServiceArrays ==
       Within("element", "Capabilities", GetServiceCapabilities)
    \o Within("element", "DictionariesUsed", GetServiceDictionaries)
    \o Within("element", "QoS", GetServiceQoS)

GetServiceInformation ==
    Within("elements", 0,
        <<Put("Name", 0)>> \o ServiceArrays
        \o <<Put("SupportsOutOfBandSnapshots", 0), Put("AcceptingConsumerStatus", 0)>>)

(* Mutant of GetServiceState: the flag is a static like its neighbours and *)
(* keeps the value of the first call.                                      *)
GetServiceStateStatic(accepting) ==
    Within("elements", 0, <<Put("ServiceState", 1), Put("AcceptingRequests", 1)>>)

GetServiceState(accepting) ==
    Within("elements", 0,
        <<Put("ServiceState", 1), Put("AcceptingRequests", IF accepting THEN 1 ELSE 0)>>)

GetServiceLoad == Within("elements", 0, <<Put("OpenWindow", 1000)>>)

FilterEntry(f, mask, body) ==
    IF f \in mask THEN Within("filter_entry", f, body) ELSE <<>>

GetServiceFilterList(mask, accepting) ==
    Within("filters", Cardinality(mask \cap Provided),
           FilterEntry("INFO", mask, GetServiceInformation)
        \o FilterEntry("STATE", mask, GetServiceState(accepting))
        \o FilterEntry("LOAD", mask, GetServiceLoad))

(* A service name that is not ours fails inside the map entry.             *)
GetServiceDirectory(matches, mask, accepting) ==
    IF matches THEN GetServiceFilterList(mask, accepting) ELSE <<ReturnFalse>>

GetDirectoryMap(matches, mask, action, accepting) ==
    Within("map", 0,
        IF ServiceId = 0 THEN <<ReturnFalse>>
        ELSE Within("map_entry", <<ServiceId, action>>,
                    GetServiceDirectory(matches, mask, accepting)))

(* The body SendDirectoryRefresh and SendDirectoryUpdate share.            *)
Message(map) ==
    <<Call("rsslSetEncodeIteratorBuffer"), Call("rsslSetEncodeIteratorRWFVersion")>>
    \o Within("message", 0, map)
    \o <<Call("rsslValidateMsg")>>

-----------------------------------------------------------------------------
Init ==
    /\ is_accepting_requests_ = TRUE
    /\ phase = "idle" /\ closing = FALSE
    /\ todo = <<>> /\ open = <<>> /\ written = <<>> /\ asked = {} /\ header = {}
    /\ out = 0 /\ lost = 0
    /\ view = None /\ sent = None /\ nreq = 0

(* Returning to the caller: a refresh's failure aborts the channel.        *)
Returned(ok) == IF phase = "refresh" /\ ~ok THEN "gone" ELSE "idle"

(* rsslGetBuffer: without a buffer the function returns at once.           *)
Begin(kind, mask, filter, program) ==
    /\ asked' = mask /\ header' = filter
    /\ open' = <<>> /\ written' = <<>>
    /\ \/ phase' = kind /\ todo' = program /\ out' = out + 1
       \/ phase' = (IF kind = "refresh" THEN "gone" ELSE "idle")
          /\ todo' = <<>> /\ UNCHANGED out

SendDirectoryRefresh(matches, mask) ==
    Begin("refresh", mask, mask \cap Provided,
          Message(GetDirectoryMap(matches, mask, "ADD", is_accepting_requests_)))

SendDirectoryUpdate(accepting) ==
    Begin("update", {"STATE"}, {"STATE"},
          Message(GetDirectoryMap(TRUE, {"STATE"}, "UPDATE", accepting)))

(* msgKey.name is not terminated and strcmp reads on after its end, so     *)
(* whether a name is ours depends on the bytes that follow it.  A request  *)
(* by id is for our service, or for all services when the id is unknown:   *)
(* both are this one service.                                              *)
OnDirectoryRequest(named, mask) ==
    /\ phase = "idle" /\ nreq < MaxRequests
    /\ nreq' = nreq + 1
    /\ \E matches \in IF named THEN BOOLEAN ELSE {TRUE} :
          SendDirectoryRefresh(matches, mask)
    /\ UNCHANGED <<is_accepting_requests_, closing, lost, view, sent>>

(* provider_t::Close, first pass; requests are still read in the second.   *)
OnSourceDirectoryUpdate ==
    /\ phase = "idle" /\ ~closing
    /\ closing' = TRUE /\ is_accepting_requests_' = FALSE
    /\ SendDirectoryUpdate(is_accepting_requests_')
    /\ UNCHANGED <<lost, view, sent, nreq>>

(* The encode iterator: a Complete must be that of the innermost container *)
Accepts(c) ==
    \/ c.call \in {"open", "put", "plain"}
    \/ c.call = "close" /\ open # <<>> /\ open[Len(open)][1] = c.kind

Encode ==
    /\ phase \in {"refresh", "update"} /\ todo # <<>>
    /\ LET c == Head(todo) IN
       /\ Accepts(c)
       /\ open' = CASE c.call = "open" -> Append(open, <<c.kind, c.value>>)
                    [] c.call = "close" -> SubSeq(open, 1, Len(open) - 1)
                    [] OTHER -> open
       /\ written' = IF c.call \in {"open", "put"}
                     THEN Append(written, [path |-> open, kind |-> c.kind, value |-> c.value])
                     ELSE written
    /\ todo' = Tail(todo)
    /\ UNCHANGED <<is_accepting_requests_, phase, closing, asked, header, buffers,
                   view, sent, nreq>>

(* Mutant of Cleanup: the early return of the functions without a buffer.  *)
CleanupReturns ==
    /\ phase' = Returned(FALSE) /\ todo' = <<>>
    /\ UNCHANGED out

(* cleanup: the buffer goes back to the pool, whatever it holds.           *)
Cleanup ==
    /\ phase' = Returned(FALSE) /\ todo' = <<>>
    /\ out' = out - 1

(* Mutant of EncodeFails: the result of the call is not looked at.         *)
EncodeFailsUnseen ==
    /\ phase \in {"refresh", "update"} /\ todo # <<>>
    /\ todo' = Tail(todo)
    /\ UNCHANGED <<is_accepting_requests_, phase, closing, open, written, asked, header,
                   buffers, view, sent, nreq>>

EncodeFails ==
    /\ phase \in {"refresh", "update"} /\ todo # <<>>
    /\ Cleanup
    /\ UNCHANGED <<is_accepting_requests_, closing, open, written, asked, header, lost,
                   view, sent, nreq>>

-----------------------------------------------------------------------------
(* What a consumer reads in a message.                                     *)

Entries(msg) == {msg.written[i] : i \in 1..Len(msg.written)}
FiltersIn(msg) == {e.value : e \in {e \in Entries(msg) : e.kind = "filter_entry"}}
AtFilter(e, f) == \E i \in 1..Len(e.path) : e.path[i] = <<"filter_entry", f>>
ElementsOf(msg, f) ==
    {IF e.kind = "element" THEN e.value ELSE e.kind :
        e \in {e \in Entries(msg) : AtFilter(e, f)}} \ {"elements", "array", "entry"}
AcceptingIn(msg) ==
    {e.value : e \in {e \in Entries(msg) : e.kind = "AcceptingRequests"}}
Actions(msg) ==
    {e.value[2] : e \in {e \in Entries(msg) : e.kind = "map_entry"}}

(* A refresh replaces the image of the service; an update of a service the *)
(* consumer has no image of is dropped.                                    *)
Read(msg) ==
    IF Actions(msg) = {"ADD"}
    THEN [class |-> "image", has |-> FiltersIn(msg), accepting |-> AcceptingIn(msg)]
    ELSE IF view.class = "none" \/ Actions(msg) # {"UPDATE"} THEN view
    ELSE [view EXCEPT !.has = @ \cup FiltersIn(msg), !.accepting = AcceptingIn(msg)]

SubmitResults == {"sent", "no_buffers", "failed"}

(* provider_t::Submit answers nonzero when the message was sent or queued, *)
(* and also when the pool was empty: then nothing is sent, and the buffer  *)
(* is not released.                                                        *)
Submit(rc) ==
    /\ phase \in {"refresh", "update"} /\ todo = <<>>
    /\ \/ /\ rc = "sent"
          /\ sent' = [class |-> phase, open |-> open, written |-> written,
                      asked |-> asked, filter |-> header,
                      accepting |-> is_accepting_requests_]
          /\ view' = Read(sent')
          /\ phase' = Returned(TRUE) /\ out' = out - 1 /\ UNCHANGED <<todo, lost>>
       \/ /\ rc = "no_buffers"
          /\ phase' = Returned(TRUE) /\ lost' = lost + 1
          /\ UNCHANGED <<todo, out, view, sent>>
       \/ rc = "failed" /\ Cleanup /\ UNCHANGED <<lost, view, sent>>
    /\ UNCHANGED <<is_accepting_requests_, closing, open, written, asked, header, nreq>>

Request ==
    \E named \in BOOLEAN, mask \in SUBSET Filters : OnDirectoryRequest(named, mask)

Next ==
    \/ Request
    \/ OnSourceDirectoryUpdate
    \/ Encode
    \/ EncodeFails
    \/ \E rc \in SubmitResults : Submit(rc)

Spec == Init /\ [][Next]_vars

-----------------------------------------------------------------------------
Elements(f) ==
    CASE f = "INFO" -> {"Name", "Capabilities", "DictionariesUsed", "QoS",
                        "SupportsOutOfBandSnapshots", "AcceptingConsumerStatus"}
      [] f = "STATE" -> {"ServiceState", "AcceptingRequests"}
      [] f = "LOAD" -> {"OpenWindow"}

(* A message given to RSSL is a whole one, whatever call of its encoding    *)
(* failed: every container is complete, it holds the one service, the       *)
(* filters that were asked for and are provided, each with all its          *)
(* elements, and its header and its count hint say so (SendDirectory...,    *)
(* GetDirectoryMap and below: no rollback, so nothing after a failure may   *)
(* be submitted).                                                           *)
SentWhole ==
    sent.class # "none" =>
        /\ sent.open = <<>>
        /\ {e.value[1] : e \in {e \in Entries(sent) : e.kind = "map_entry"}} = {ServiceId}
        /\ FiltersIn(sent) = sent.asked \cap Provided
        /\ FiltersIn(sent) = sent.filter
        /\ \A e \in Entries(sent) :
              e.kind = "filters" => e.value = Cardinality(FiltersIn(sent))
        /\ \A f \in FiltersIn(sent) : ElementsOf(sent, f) = Elements(f)

(* A buffer taken from the pool is submitted or released, once, on every    *)
(* path out of SendDirectoryRefresh and SendDirectoryUpdate (the one a      *)
(* write with an empty pool drops is counted in lost).                      *)
BufferEndsOnce ==
    out = lost + (IF phase \in {"refresh", "update"} THEN 1 ELSE 0)

(* What the consumer last read of AcceptingRequests is what it was when     *)
(* that message was sent, and 0 in an update and after (provider_t::Close   *)
(* clears the flag before it sends the update).                             *)
ViewCurrent ==
    sent.class # "none" =>
        /\ view.class = "image" /\ "STATE" \in FiltersIn(sent) =>
              view.accepting = {IF sent.accepting THEN 1 ELSE 0}
        /\ sent.class = "update" => ~sent.accepting
=============================================================================
