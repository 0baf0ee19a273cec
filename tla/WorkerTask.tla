----------------------------- MODULE WorkerTask -----------------------------
(***************************************************************************)
(* One worker_t and the tasks it serves one after the other: OnTask takes  *)
(* a request apart, resets the analytic its reference selects, reads the   *)
(* permission data and the records of the item, writes a refresh or a      *)
(* close into rssl_buf_, and SendReply wraps it for the event thread.      *)
(*                                                                         *)
(* What outlives a task is the point of the module: the analytics, the     *)
(* lock and the length of the buffer are members used again by the next.   *)
(*                                                                         *)
(* A request is what parsing its item name yields (Url models how): the    *)
(* symbol, the reference and the query.  Arguments with side effects are   *)
(* evaluated from the right, as the compiler of this program does.         *)
(***************************************************************************)
EXTENDS Analytics, FiniteSets

CONSTANTS Symbols,       \* names an item can have
          Inventory,     \* ... those the SearchEngine knows
          Histories,     \* sequences of trades an item can have
          Requests,      \* the requests a consumer makes
          NoFile,        \* a request without a file name
          NoQuery,       \* a request without a query
          LockLength,    \* bytes of a DACS lock
          RefreshLength, \* bytes of a refresh but for its names and its lock
          StatusLength   \* bytes of a status but for its names

ASSUME TaskAssumption ==
    /\ Inventory \subseteq Symbols
    /\ NoFile \notin Symbols
    /\ \A r \in Requests :
          /\ r.file \in Symbols \cup {NoFile}
          /\ r.query = NoQuery \/ r.query \in Seq([key : STRING, value : Int])
          /\ r.length \in 0..255
    /\ LockLength \in Nat /\ RefreshLength \in Nat /\ StatusLength \in Nat

(* Trades carry prices and volumes of their types; there are fewer than a  *)
(* counter counts, and none at the second an unset time becomes (in 2035), *)
(* nor at the next.                                                        *)
ASSUME HistoryAssumption ==
    \A h \in Histories :
        /\ h \in Seq([time : Int, price : Int, volume : 0..(Word - 1)])
        /\ Len(h) < Word
        /\ \A i \in 1..Len(h) : h[i].time \notin {Never, Never + 1}

VARIABLES
    plugin,         \* built as a plugin: the database is there
    trades,         \* per symbol, its trades in the database
    permdata,       \* symbols with a PermData record
    pc,             \* where OnTask is
    task,           \* the request being served
    analytic,       \* the kind of analytic it selected
    vta,            \* per kind, the accumulators
    params,         \* per kind, the request parameters
    dacs_lock_,     \* whose lock, "" when empty
    rssl_buf_,      \* the message in the buffer
    rssl_length_,   \* capacity of the buffer, then length of the message
    why,            \* the check that failed, "" when none did
    reply           \* the last reply as the event thread decodes it

db == <<plugin, trades, permdata>>
members == <<vta, params, dacs_lock_>>
buffer == <<rssl_buf_, rssl_length_>>
vars == <<db, pc, task, analytic, members, buffer, why, reply>>

Kinds == {"bar", "rollup", "close", "test"}
MAX_MSG_SIZE == 4096
NoTask == [file |-> NoFile, ref |-> "", query |-> NoQuery, length |-> 0]
NoMessage == [kind |-> "none"]

TypeOK ==
    /\ plugin \in BOOLEAN
    /\ trades \in [Symbols -> Histories]
    /\ permdata \subseteq Symbols
    /\ pc \in {"recv", "decompose", "symbol", "query", "lock", "calculate",
               "write", "reply", "exited"}
    /\ task \in Requests \cup {NoTask}
    /\ analytic \in Kinds
    /\ DOMAIN vta = Kinds
    /\ params \in [Kinds -> [open_time : Int, close_time : Int]]
    /\ dacs_lock_ \in Symbols \cup {""}
    /\ rssl_buf_.kind \in {"none", "refresh", "status"}
    /\ rssl_length_ \in 0..MAX_MSG_SIZE
    /\ why \in {"", "malformed", "unknown", "permission", "calculate", "write"}

Init ==
    /\ plugin \in BOOLEAN
    /\ trades \in [Symbols -> Histories]
    /\ permdata \in SUBSET Inventory
    /\ pc = "recv" /\ task = NoTask /\ analytic = "bar"
    /\ vta = [bar |-> NullBar, rollup |-> NullRollup, close |-> NullClose,
              test |-> <<>>]
    /\ params = [k \in Kinds |-> Unset]
    /\ dacs_lock_ = ""
    /\ rssl_buf_ = NoMessage /\ rssl_length_ = 0
    /\ why = "" /\ reply = NoMessage

-----------------------------------------------------------------------------
(* The wire between the threads: a length is one byte.                     *)

PutVarData(length) == length % 256

(* What the event thread takes from a reply: the message, cut to the       *)
(* length the byte says.                                                   *)
DecodeReply(t, message, length) ==
    [handle |-> t.handle, token |-> t.token, message |-> message,
     length |-> PutVarData(length), written |-> length]

-----------------------------------------------------------------------------
(* provider_t::WriteRawClose, as a last resort of every failed check.  It  *)
(* starts again at the beginning of the buffer; if it too fails, the task  *)
(* is lost and the worker with it.                                         *)

Status(code, recover) ==
    [kind |-> "status", code |-> code, recover |-> recover,
     named |-> task.attrib]

StatusBytes == StatusLength + (IF task.attrib THEN task.length ELSE 0)

WriteRawClose(code, recover, reason) ==
    /\ why' = reason
    /\ \/ /\ StatusBytes <= rssl_length_
          /\ rssl_buf_' = Status(code, recover)
          /\ rssl_length_' = StatusBytes
          /\ pc' = "reply"
       \/ /\ pc' = "exited"
          /\ UNCHANGED buffer

-----------------------------------------------------------------------------
(* Mutant of Receive: the buffer is taken to hold a terminator as well.    *)
ReceiveOneMore(r) ==
    /\ pc = "recv"
    /\ task' = r
    /\ rssl_length_' = MAX_MSG_SIZE + 1
    /\ why' = ""
    /\ pc' = "decompose"
    /\ UNCHANGED <<db, analytic, members, rssl_buf_, reply>>

(* A message is received and decoded, and the buffer is whole again.       *)
Receive(r) ==
    /\ pc = "recv"
    /\ task' = r
    /\ rssl_length_' = MAX_MSG_SIZE
    /\ why' = ""
    /\ pc' = "decompose"
    /\ UNCHANGED <<db, analytic, members, rssl_buf_, reply>>

(* The abort flag, or a message that cannot be received.                   *)
ReceiveAbort ==
    /\ pc = "recv"
    /\ pc' = "exited"
    /\ UNCHANGED <<db, task, analytic, members, buffer, why, reply>>

Select(ref) ==
    IF ref \in {"test", "rollup", "close"} THEN ref ELSE "bar"

ResetAnalytic(kind) ==
    CASE kind = "bar"    -> BarReset(vta.bar)
      [] kind = "rollup" -> RollupReset(vta.rollup)
      [] kind = "close"  -> CloseReset(vta.close)
      [] kind = "test"   -> vta.test

(* The parts of the item name; the analytic is reset before it is used.    *)
Decompose ==
    /\ pc = "decompose"
    /\ IF task.file = NoFile
         THEN /\ WriteRawClose("NOT_FOUND", FALSE, "malformed")
              /\ UNCHANGED <<analytic, vta, params>>
         ELSE /\ analytic' = Select(task.ref)
              /\ vta' = [vta EXCEPT ![Select(task.ref)] =
                            ResetAnalytic(Select(task.ref))]
              /\ params' = [params EXCEPT ![Select(task.ref)] = Unset]
              /\ pc' = IF plugin THEN "symbol" ELSE "query"
              /\ UNCHANGED <<buffer, why>>
    /\ UNCHANGED <<db, task, dacs_lock_, reply>>

CheckSymbol ==
    /\ pc = "symbol"
    /\ IF task.file \in Inventory
         THEN pc' = "query" /\ UNCHANGED <<buffer, why>>
         ELSE WriteRawClose("NOT_FOUND", FALSE, "unknown")
    /\ UNCHANGED <<db, task, analytic, members, reply>>

(* Without a query ParseRequest is not called; no analytic refuses one,    *)
(* and test_t takes no parameter.                                          *)
ParseQuery ==
    /\ pc = "query"
    /\ params' = IF task.query = NoQuery \/ analytic = "test" THEN params
                 ELSE [params EXCEPT ![analytic] = ParseRequest(@, task.query)]
    /\ pc' = "lock"
    /\ UNCHANGED <<db, task, analytic, vta, dacs_lock_, buffer, why, reply>>

(* Mutant of GetDacsLock: a lock that is there is kept.                    *)
GetDacsLockOnce ==
    /\ pc = "lock"
    /\ dacs_lock_' = IF plugin /\ task.file \in permdata /\ dacs_lock_ = ""
                       THEN task.file ELSE dacs_lock_
    /\ pc' = "calculate"
    /\ UNCHANGED <<db, task, analytic, vta, params, buffer, why, reply>>

(* GetFlexRecords calls back with the newest record, if there is one: the  *)
(* string is assigned then and only then.                                  *)
GetDacsLock ==
    /\ pc = "lock"
    /\ \/ /\ dacs_lock_' = IF plugin /\ task.file \in permdata THEN task.file
                                                               ELSE dacs_lock_
          /\ pc' = "calculate"
          /\ UNCHANGED <<buffer, why>>
       \/ /\ plugin
          /\ WriteRawClose("NOT_ENTITLED", FALSE, "permission")
          /\ UNCHANGED dacs_lock_
    /\ UNCHANGED <<db, task, analytic, vta, params, reply>>

Calculated(kind, cuts) ==
    CASE kind = "bar"    -> BarCalculate(vta.bar, params.bar, trades[task.file])
      [] kind = "rollup" -> RollupCalculate(vta.rollup, params.rollup,
                                            trades[task.file], cuts)
      [] kind = "close"  -> CloseCalculate(vta.close, params.close,
                                           trades[task.file])
      [] kind = "test"   -> vta.test

(* The cursor reads the records, or cannot be opened.  The application has *)
(* no database.                                                            *)
Calculate ==
    /\ pc = "calculate"
    /\ \/ /\ \E cuts \in Cuts(RollupPeriod(params[analytic], trades[task.file])) :
                vta' = IF plugin
                         THEN [vta EXCEPT ![analytic] = Calculated(analytic, cuts)]
                         ELSE vta
          /\ pc' = "write"
          /\ UNCHANGED <<buffer, why>>
       \/ /\ plugin /\ analytic # "test"
          /\ WriteRawClose("ERROR", TRUE, "calculate")
          /\ UNCHANGED vta
    /\ UNCHANGED <<db, task, analytic, params, dacs_lock_, reply>>

Message ==
    CASE analytic = "bar"    -> BarWriteRaw(vta.bar, dacs_lock_)
      [] analytic = "rollup" -> RollupWriteRaw(vta.rollup, dacs_lock_)
      [] analytic = "close"  -> CloseWriteRaw(vta.close, dacs_lock_)
      [] analytic = "test"   -> TestWriteRaw

RefreshBytes ==
    RefreshLength + task.length + (IF Message.lock = "" THEN 0 ELSE LockLength)

(* Encoding ends with the length of the message, or fails on the way, for  *)
(* want of room or otherwise, and leaves rssl_length_ alone.               *)
WriteRaw ==
    /\ pc = "write"
    /\ \/ /\ RefreshBytes <= rssl_length_
          /\ rssl_buf_' = Message
          /\ rssl_length_' = RefreshBytes
          /\ pc' = "reply"
          /\ UNCHANGED why
       \/ WriteRawClose("ERROR", TRUE, "write")
    /\ UNCHANGED <<db, task, analytic, members, reply>>

SendReply ==
    /\ pc = "reply"
    /\ \/ /\ reply' = DecodeReply(task, rssl_buf_, rssl_length_)
          /\ pc' = "recv"
       \/ /\ pc' = "exited"
          /\ UNCHANGED reply
    /\ UNCHANGED <<db, task, analytic, members, buffer, why>>

-----------------------------------------------------------------------------

Next ==
    \/ \E r \in Requests : Receive(r)
    \/ ReceiveAbort
    \/ Decompose \/ CheckSymbol \/ ParseQuery \/ GetDacsLock \/ Calculate
    \/ WriteRaw \/ SendReply

Spec == Init /\ [][Next]_vars

-----------------------------------------------------------------------------
(* What a reply must say, from the request and the database alone.         *)

Replied == pc = "recv" /\ reply # NoMessage

Parameter(query, key) ==
    LET at == {i \in 1..Len(query) : query[i].key = key}
    IN  IF at = {} THEN Never
        ELSE query[CHOOSE i \in at : \A j \in at : j <= i].value

AskedTime(key) ==
    IF task.query = NoQuery THEN Never ELSE Parameter(task.query, key)

(* vta_rollup_bar.hh: a rollup matches the period from the second after    *)
(* open to the second after close, unless BarGenPreference is 1.           *)
Moved == IF analytic = "rollup" THEN Shift ELSE 0

Wanted ==
    IF ~plugin \/ task.query = NoQuery THEN {}
    ELSE {i \in 1..Len(trades[task.file]) :
            /\ AskedTime("open") + Moved <= trades[task.file][i].time
            /\ trades[task.file][i].time <= AskedTime("close") + Moved}

(* A rollup adds to the times it was asked for, and the sums may wrap.     *)
Wraps == /\ plugin /\ analytic = "rollup"
         /\ ~RollupFits([open_time |-> AskedTime("open"), close_time |-> AskedTime("close")])

IsPrice(field, i) ==
    ~field.blank /\ field.value = RoundHalfUp(trades[task.file][i].price)

OwnClose(fields) ==
    IF Wanted = {} THEN fields.HST_CLOSE.blank
    ELSE IsPrice(fields.HST_CLOSE, CHOOSE i \in Wanted : \A j \in Wanted : j <= i)

OwnBar(fields) ==
    /\ fields.NUM_MOVES.value = Cardinality(Wanted)
    /\ IF Wanted = {} THEN fields.HIGH_1.blank /\ fields.LOW_1.blank
                           /\ fields.OPEN_PRC.blank
       ELSE /\ IsPrice(fields.OPEN_PRC,
                       CHOOSE i \in Wanted : \A j \in Wanted : i <= j)
            /\ \E i \in Wanted : IsPrice(fields.HIGH_1, i)
            /\ \E i \in Wanted : IsPrice(fields.LOW_1, i)
            /\ \A i \in Wanted :
                 LET p == RoundHalfUp(trades[task.file][i].price)
                 IN  fields.LOW_1.value <= p /\ p <= fields.HIGH_1.value

(* A reply answers its own request: whatever the worker served before, bar *)
(* and close state the prices of the trades in the requested period, and a *)
(* rollup, however the database cut its bars, those of the period the      *)
(* header says it matches; a close says why.  The exception is a rollup    *)
(* whose sums of times wrap in 32 bits: an end so late that its distance   *)
(* to the start leads past the last second of the word.                    *)
(* The analytics are members that every request finds as the last left     *)
(* them.                                                                   *)
AnswersOwnRequest ==
    Replied =>
        /\ reply.handle = task.handle /\ reply.token = task.token
        /\ (reply.message.kind = "refresh") <=> why = ""
        /\ why = "" /\ analytic # "test" /\ ~Wraps =>
              /\ OwnClose(reply.message.fields)
              /\ analytic # "close" => OwnBar(reply.message.fields)

VolumeOf(i) == trades[task.file][i].volume
WantedVolume ==
    FoldLeft(LAMBDA a, i : IF i \in Wanted THEN a + VolumeOf(i) ELSE a,
             0, [i \in 1..Len(trades[task.file]) |-> i])

(* ACVOL_1 holds the volume of the requested trades whenever a uint64_t    *)
(* can: to the last unit when a seven byte real can, and otherwise to less *)
(* than a unit of the exponent above or below, though it is rounded twice, *)
(* to a double and to the exponent; it never asks for more bytes.  The     *)
(* exception is that of AnswersOwnRequest.                                 *)
VolumeFaithful ==
    Replied /\ why = "" /\ analytic \in {"bar", "rollup"} =>
        LET v == reply.message.fields.ACVOL_1
        IN  /\ v.value <= RealMax
            /\ WantedVolume <= RealMax /\ ~Wraps =>
                  v.hint = 0 /\ v.value = WantedVolume
            /\ RealMax < WantedVolume /\ WantedVolume < Word /\ ~Wraps =>
                  /\ v.hint = 7
                  /\ WantedVolume - Exponent7 < v.value * Exponent7
                  /\ v.value * Exponent7 < WantedVolume + Exponent7

(* A refresh carries the lock of its item if that has one.                 *)
LockWhenRecorded ==
    Replied /\ why = "" /\ plugin /\ task.file \in permdata
        => reply.message.lock = IF analytic = "test" THEN "" ELSE task.file

(* "Fetch DACS lock from PermData FlexRecord history: string is cleared."  *)
LockOfItem ==
    Replied /\ why = "" => reply.message.lock \in {"", task.file}

(* "Maximum encoded size of an RSSL provider to client message": 4096.     *)
ReplyWhole == Replied => reply.length = reply.written
=============================================================================
