# Hitsuji in TLA+

Hitsuji is an interactive snapshot provider for a market-data network: consumers
connect over RSSL, log in, and request items whose value is an analytic (a bar, a
rollup of bars, a closing value) computed from the tick history of a Velocity
Analytics engine. This directory specifies how the program moves requests and
replies between its threads and its client sessions, model-checks small instances
with TLC and proves the main safety properties with TLAPS.

## The system

| Part | State it keeps | Operations | Hard because |
|---|---|---|---|
| `hitsuji_t` (hitsuji.cc) | ZeroMQ sockets, worker threads, `mainloop_shutdown_`, `shutting_down_` | `Start`, `Stop`, `Run`, `Quit`, `Reset`, `OnRequest`, `OnRead`, `AbortWorkers` | three kinds of threads; an edge-triggered descriptor; a shutdown that must reach every worker |
| `worker_t` (worker.cc) | two sockets, `dacs_lock_`, analytics | `Initialize`, `MainLoop`, `OnTask`, `SendReply` | blocks on a full reply pipe; ends on any failure |
| `provider_t` (provider.cc) | `connections_`, `clients_`, descriptor sets, `keep_running_` | `Run`, `DoWork`, `OnConnection`, `OnActiveState`, `Submit`, `Ping`, `SendReply`, `Close` | descriptor sets edited while they are iterated; keepalives; capacity; a close that waits |
| `client_t` (client.cc) | `is_logged_in_`, `login_token_`, `directory_token_`, `tokens_` | login, directory, item requests and closes, `SendReply`, `Close` | replies arrive in any order, after closes, logouts and reissues |
| analytics (vta_*.cc) | request parameters, accumulators | `Reset`, `ParseRequest`, `Calculate`, `WriteRaw` | the same objects serve every request of a worker; reals of seven bytes |
| permission data (permdata.cc) | none | `GetDacsLock` | leaves its result alone when there is no record |
| directory encoding (provider.cc, client.cc) | a pooled buffer, the flag `is_accepting_requests_` | `SendDirectoryRefresh`, `SendDirectoryUpdate`, `GetDirectoryMap` and below | some fifty calls, each of which may fail, and no rollback |
| message codecs (include/sbe) | a cursor in a message | `wrapForEncode`, `wrapForDecode`, the accessors | uninitialised memory, one byte of length, arguments evaluated in an order of the compiler's |
| request parsing (googleurl) | none | `ParseStandardURL`, `ParsePort`, `ExtractFileName`, `ExtractQueryKeyValue` | delimiters that are missing, repeated or at the ends |
| strings and switches (chromium) | the command line | numbers, splitting, vmodule patterns, `AppendSwitchesAndArguments` | limits of a type, recursion over stars, the switch terminator |

All handlers of `provider_t`, `client_t` and the `OnRequest` and `OnRead` of
`hitsuji_t` run on the event thread. `client_t::OnItemRequest` calls
`hitsuji_t::OnRequest`, which sends to the worker pool; a worker answers through
the reply socket, whose descriptor `provider_t::Run` selects on; `OnRead` hands
the reply to `provider_t::SendReply`, which finds the session and calls
`client_t::SendReply`. The main thread starts all of it and, at shutdown, stops
the event loop, aborts and joins the workers and closes the provider. In an
application that is asked for by console handler threads, in a plugin by the thread
that calls `destroy`.

## Modules

| Module | Models | Used by |
|---|---|---|
| `Session` | one `client_t` | `MCSession`, `SessionProofs` |
| `Dispatcher` | what the pool promises to `provider_t` | instantiated by `WorkerPool` |
| `WorkerPool` | event thread, workers and main thread around the ZeroMQ sockets | `MCWorkerPool`, `WorkerPoolProofs` |
| `Provider` | the event loop of `provider_t` | `MCProvider`, `ProviderProofs` |
| `Lifecycle` | `Start`, `Run`, `Stop`, `Quit`, `Reset` | `MCLifecycle`, `LifecycleProofs` |
| `Analytics` | the four analytics, as functions | extended by `WorkerTask` |
| `WorkerTask` | `worker_t::OnTask`, one request after another | `MCWorkerTask`, `WorkerTaskProofs` |
| `Directory` | the encoder of the source directory and its consumer | `MCDirectory`, `DirectoryProofs` |
| `Url`, `Strings`, `Codec` | parsers, text helpers and codecs, as functions | extended by `Parsing` |
| `Parsing` | the loops over a query and over a command line; the functions at work | `MCParsing`, `ParsingProofs` |
| `Loops` | no part of the code: lemmas about loops, folds and the loops of `Strings` | `WorkerTaskProofs`, `ParsingProofs` |

The MC modules give the constants their values; the Proofs modules hold the
theorems, `Loops` what several of them rest on. In each module a definition that begins a comment with "Mutant of" is a
wrong version of the next one, which the property named in PROJECT.json refutes.

### Session

`Session` is one `client_t` with its consumer, the worker pool as a bag of
unanswered requests, and the provider that may drop or close the session. A
handler runs to its end on the event thread, so it is one step. `SubmitResults`
are the three outcomes of `provider_t::Submit`: sent (or queued by RSSL), no
buffers (counted as submitted, but not sent) and failed. A handler that returns
false makes `provider_t::OnMsg` abort the channel; `DoWork` drops the client later
in the same iteration, before it reads another message, so both are one step
(`Return`). Message classes and domains that the provider refuses are one action,
`OnUnsupportedMsg`: they are answered by a close on the stream the message names,
which may be an open item or login stream. The consumer then gives that stream up,
while `tokens_`, `is_logged_in_` and `login_token_` keep it; `refused` and `loginView`
follow which streams `client_t` itself closed, and the properties name them as
exceptions. Message contents, statistics and wire encoding are abstracted:
whether a login is valid and whether a response is submitted are free choices.
The variables after `state` are the consumer's own view and the history that the
properties need; no handler reads them.

### WorkerPool

`WorkerPool` is the event thread, the worker threads and the main thread around
the two ZeroMQ sockets. ZeroMQ is not part of the repository and is modelled from
how the code uses it: a PUSH socket writes to its pipes in rotation, drops a full
one from the rotation, and blocks when none is left; the descriptor of a PULL
socket signals only when a pipe that the reader put to sleep gets a message (or
connects). The thread that sends does nothing else until the message is written.
Sessions are left out: whether a reply can be delivered is a choice
(`OnReadDelivered`, `OnReadFailed`). Errors of ZeroMQ calls other than a full pipe
(no memory, a terminated context) are left out.

`Dispatcher` says the same without sockets: a request is accepted, taken by one
worker, replied or dropped, and answered while the event thread runs; workers retire
after it ended. `WorkerPool` ends with the refinement mapping: `Status` finds a
request in a pipe, a worker or the history, and would answer "lost" for one that is
nowhere; `Phase` is read off the main and the event thread; a worker is itself.

### Provider

`Provider` is the event loop of `provider_t`: `Run`, `DoWork` and what they call,
and `Close`. `pc` is the position in a pass of `DoWork`, one stage of a visit per
step, so that every mixture of a read, a write, a keepalive and a removal on
several connections is reached. `clients_` is kept as a session number per
channel, so that a later session at the same address is told apart from the one
that asked. Of a session only its unanswered request is kept; `Session` has the
rest. The times of pings and pongs are free choices at each visit. RSSL is not
part of the repository and is modelled from how the code uses it: a channel is
initializing, active, closed or released, a call that fails may close it, and the
socket of a closed one is readable. `select` fails when a set holds a closed
socket and then leaves the sets as they were passed, which are copies of all
sockets; other errors of `select` are left out. `orphan` stands for a closed
socket that no channel has any more (`RSSL_RET_READ_FD_CHANGE` clears it from two
of the three sets). Exceptions thrown inside `OnActiveClientSession`, and an
`rsslFlush` in `Close` that never ends, are left out.

### Lifecycle

`Lifecycle` is the process around `hitsuji_t`, from `main()` or a plugin's `init` to
its return: the WinSock and timer set-up of main.cc and plugin.cc, then `Start` to the
return of `Run` or `Stop`, and the release of both. `main` is
the position of the main thread in `Initialize`, the wait and `Reset`; `held` are the
pointers it has set; any step of `Initialize` may fail, before or after its pointer
is set. The event loop is reduced to whether it runs, a worker to its reference on
the ZeroMQ context, an abort round to its three outcomes (all joined, given up,
hanging in a join). `provider_t::Close`, which `Reset` calls, ends or pumps for ever
(`pumping`): which of the two it is, is decided in `Provider`. The event thread may
block in the send of a request (`SendBlocks`), and may stay there when nobody reads.
Console handler threads test the weak pointer, lock it, and take
`Quit` apart into its reads and writes, so that `Reset` runs between any two. What a
write to a destroyed provider does is open. `threw` is an exception out of
`provider_t::Run`, which `MainLoop` catches.

### Analytics and WorkerTask

`Analytics` has, for each analytic, the null value, `Reset`, the parameters a query
sets, the records the FlexRecord reader delivers for them, one step of accumulation
and the fields it writes. Prices are integers in halves of the precision of a reply.
Parsing a query and accumulating the records are folds over sequences, which the
proofs follow turn by turn. `InPeriod` are the trades of the period asked for; a bar
and a close read these. A rollup asks the database for the bars named in the period
shifted by its own width, three sums in 32 bits that may wrap (`RollupWidth`,
`RollupFrom`, `RollupTill`). What that answers depends on how the database names its
bars: vta_rollup_bar.hh:1-16 says that with TREP-VA's BarGenPreference of 0, the
default, a rollup matches the period a second later, and with 1 the period itself.
`Shift` is that second and `InRollup` are the trades a rollup counts. The database may
end its bars after any of them (`Cuts`), and a bar reaches the accumulator with the
trade that ends it (`RollupOnTrade`). A volume that a real cannot hold goes through a
double and then to the exponent, and is rounded to the nearest both times
(`NearestDouble`, `VolumeReal`); `Spacing` is the distance of the doubles about it.
`WorkerTask` is the decision tree of `OnTask` with everything a worker keeps from one
task to the next: accumulators, parameters, `dacs_lock_`, the buffer and its length.
A request is what parsing its name yields. The database is external: histories and
permission records are chosen once. Texts are not written out, only their lengths.

### Directory

An encoding is the sequence of RSSL calls that `GetDirectoryMap` and the functions
below it make for a filter mask (`GetServiceInformation`, ... are these sequences), a
step is the next call, and any may fail. A call that completes a container must find
it innermost. `view` is what a consumer knows that reads every message it is sent.
`strcmp` on the requested service name, which RSSL does not terminate, is a choice.

### Url, Strings, Codec and Parsing

Functions on sequences of characters or bytes: a loop of the code is a fold or a
recursive function, so that it can be followed by a proof. `Url` is url_parse.cc: standard, path
and mailto URLs, ports, file names and queries. `Strings` holds the number
conversions for types of any range and base (`IteratorRangeToNumber`), splitting as
folds over the text, the vmodule patterns of vlog.cc by their positions, the rules of command_line.cc and what the two entry
points make of their switches (`ApplicationEnvironment`, `PluginEnvironment`,
`DetermineLogMode`). `Codec` writes and
reads the two SBE messages byte by byte in memory that is not cleared. `Parsing`
gives each its inputs; `NextParameter` is a turn of the loop in
`vta::bar_t::ParseRequest`, `NextWord` a turn of `AppendSwitchesAndArguments`.
`LineSplit` has three parts: `LineKept` compares the line with the words read so far
(`InOrder` says that a sequence has the values of a function in the order of its
arguments), `Reusable` what other lines can be made of it, `ReadAlike` the readers of
a text with each other.

Where the code does not do what a comment in it says, the model follows the code:

- url_parse.h:302-306 defines the file name as everything from the last slash to the
  end of the path. `ExtractFileName` first cuts the path at its last semicolon, in
  whatever segment that is (url_parse.cc:499-510), and takes what is behind the last
  slash before it: of "/a;b/c" the code makes "a", the header "c". A request of that
  form is answered for the item "a". `FileNameBeforeParameter` states the code.
- url_parse.h:192-193 says that the last of several hash signs begins the reference.
  The code takes the first. `NothingLost` does not depend on it.
- string_number_conversions.hh:47-48 says that an underflow, like an overflow, sets
  the output to the maximum. The code sets it to the minimum
  (string_number_conversions.cc:263), and `NumbersExact` states the code.

None of these has a run that refutes the comment. Two more remarks: `itemName()` and
`itemNameLength()` are arguments of one call and work only because the compiler
evaluates the last one first; `StringToUint("-5")` returns true, and `NumbersExact` is
about signed types only; a vmodule pair without a level gets level 0.

The program itself calls `ParseStandardURL`, `ExtractFileName` and
`ExtractQueryKeyValue`, and reads its command line and the vmodule switch. The parsers
of path and mailto URLs, `ParsePort`, the number conversions, `PrependWrapper` and
`CopySwitchesFrom` are library code beside these which it never calls; they are
modelled since they share the helpers, and weigh nothing for the program. `atoi` is
scaled to a byte. `InitFromArgv` starts from an empty line, though the code does not
clear `switches_` (command_line.cc:136-140): main.cc:31 initialises a new line, and
plugin.cc:52 one that plugin.cc:38 initialised with no words.

## Runs

| Run | Instance and question |
|---|---|
| `session` | two streams, two item requests: all orders of requests, reissues, closes, logins, logouts, replies, failed writes, lost tasks, disconnect and provider close. `TokenOwnerInFlight`, `WaitingAccounted`, `TokensWanted`, `ClosedNotAnswered`, `LoginHeldByConsumer` |
| `pool` | two workers, pipes of one message, four requests: full pipes, blocked senders on both sides, workers that fail at start or in a task, aborts that find a full pipe. `NoLostWakeup`, `AbortReachesAll`, `GridlockNeedsOverrun`; under fairness `RequestsSettle`, `ShutdownEnds`; `Dispatches`, the refinement of `Dispatcher` |
| `provider` | three channel addresses, a capacity of two, two sessions: connections that come, fail, time out, are refused, are rejected on activation, change sockets, and addresses that are used again. `ActivationFits`, `ActiveHasClient`, `AcceptedOnce`, `SelectWorks`, `PendingWatched` |
| `provider_live` | two connections and one session under fairness: `ClosedRemoved`, `CloseEndsUnlessStuck` |
| `lifecycle` | application and plugin, two console handlers, two workers, every failure of `Initialize`, a `Close` that pumps for ever, a send that blocks. `NothingOutlivesItsOwner`, `FirstQuitIsSafe`, `ReturnsReleased`; under fairness `StopsWhenTold` |
| `task` | twelve requests over three items, one of them a rollup whose times wrap, two histories with halves, a negative price and volumes that pass the limits, every permission table, any number of tasks. `AnswersOwnRequest`, `VolumeFaithful`, `LockWhenRecorded` |
| `directory` | two requests with every filter mask and the update of a closing provider, every call failing in turn. `SentWhole`, `BufferEndsOnce`, `ViewCurrent` |
| `parsing` | every text up to a length over the characters a parser tells apart. `NothingLost`, `FileNameIsLast`, `NumbersExact`, `MessagesArrive`, `PatternMeans`, `LineSplit`, `QueryConsumed` |
| `provider_routed`, `lifecycle_quit`, `task_lock`, `task_reply` | each refutes what a comment of the code says; PROJECT.json quotes it |

What the refuting runs show:

- `provider_routed`: a reply that outlives its connection is written to a new
  session at the same channel address, if that one uses the same token.
- `lifecycle_quit`: a `Quit` that comes before the provider exists is lost, and
  `Run` waits for ever; so it does when `Initialize` failed, since `Start` reports
  success all the same.
- `task_lock`: an item without a permission record is sent with the DACS lock of the
  item before it, because `GetDacsLock` does not touch its result.
- `task_reply`: the length of a reply is one byte of the message; a refresh of more
  than 255 bytes reaches the consumer cut short.

The properties name further behaviour as their exceptions: a message of an unsupported
class or domain, or a malformed login, that names an open item or login stream closes
it for the consumer and not for `client_t`, which may still answer the item and goes on
taking the session as logged in (`TokensWanted`, `LoginHeldByConsumer`); an item that
is closed after a logout is still answered; the late reply of a cancelled request answers a
later one that reuses the token; a reply that meets an empty buffer pool is lost and
counted as submitted, and its buffer with it; when a reply cannot be delivered,
`OnRead` leaves the others on an edge-triggered descriptor; `Close` never ends when a
channel that RSSL closed has tokens; a session whose `Initialize` fails makes
`select` fail, and the error pass removes every connection; a `Reset` whose abort
message cannot be sent ends in a failed CHECK; a quit does not end the program while
`AbortWorkers` waits for a dead worker, `Close` pumps or the event thread is blocked in
a send (`StopsWhenTold`); a rollup whose times wrap in 32 bits answers another period
(`AnswersOwnRequest`, `VolumeFaithful`).

Bounds. Two streams let a login, a directory and an item stream coincide or
differ, and two requests are what it takes for a reply to meet a token that was
reused. Two workers are the smallest pool in which an abort can reach the wrong
one; four requests fill the pipes of both workers, or one worker's pipes, its hands
and the sender's. Two connections are the fewest in which one can harm another; a
third address lets a connection arrive at capacity; two sessions are what it takes
for a reply to find the wrong one. At most one socket has an exception in a call of
`select`. Two console handlers are what it takes for one to come late. A worker's
tasks are not bounded: its state is finite. The widths of `uint64_t` and of a real
are scaled down (16 values, 9, a factor of 4) so that every volume is reached; doubles
are exact below 8 and two apart above, so that a volume is rounded up and down, at
each of the two conversions. A time has 256 values, read as signed, and an unset one
is far from the others: a rollup without a close wraps, those with both do not. The
database has the default preference; `ReaderAssumption` and the proofs admit both. The
number type of `parsing` is a signed byte. Texts are as long as it takes to have
every delimiter before, after and between two characters.

The runs do not check deadlock: a session that is gone, a pool that is joined, a
provider that is closed and a parse that is done have nothing left to do, and the
wedges the code has are named by the properties (`Gridlock`, `Blocked`,
`CloseEndsUnlessStuck`, `Ended`). Symmetry is used where no liveness is checked.

Fairness. `WorkerPool!Fairness` is weak fairness of each thread's own steps: the
operating system runs a thread that can run. Nothing makes a consumer send, a
shutdown begin or a failure happen. A worker's reply is fair together with its
receive: `OnTask` ends. `Provider!Fairness` is weak fairness of the event thread,
strong fairness of a read that leaves no buffered input (a consumer that always has
more data keeps `DoWork` from returning to `select`, which the code allows), and
strong fairness of a pong timeout in `Close`: no input is read there, so the time
of the next pong is never moved and passes. `Lifecycle!FairSpec` is weak fairness of
the main thread, of the event thread (a pass of its loop that is not blocked in a send
ends and looks at `keep_running_`, which `ClosedRemoved` assumes as well; one that is
blocked stays so, there is no fairness for it) and of a handler thread that
is inside `Quit`; nobody has to press ctrl-c, and no sleeper has to wake by itself.

## Proofs

`SessionProofs` proves all six invariants of the session run for every set of
streams and every number of requests. None but the type invariant is inductive
alone. The strengthening (`Core`) adds that a request in flight has a number that
was given out, that its token is in no two places (`Numbered`), that an owner is
not among the cancelled while its token stands (`OwnerNotCancelled`), and that
tokens exist only after a login (`TokensNeedLogin`).

`WorkerPoolProofs` proves type correctness and `NoLostWakeup` for every set of
workers, pipe capacity and number of requests. `NoLostWakeup` says nothing of why
a pipe that holds a reply is awake; the proof adds `AwakeWhileFull` (a pipe with a
reply is not asleep) and `WaitsWithAllAsleep` (when the event thread waits, no
pipe is half read), which are inductive.

The same module proves the other two invariants of the pool run and the
refinement of `Dispatcher`, for every set of workers, every pipe capacity and number of
requests. All three rest on `AccountedInvariant`: a request that was distributed is in
exactly one place, the event thread's hands, one position of one pipe, one worker, one
reply pipe or the history. `Status` looks in these places, so the invariant makes it
change where `Dispatcher` says it does; each action of the pool is a step of one
request or a stutter. `GridlockIsOverrun` counts: in a gridlock every pipe is full and
every hand holds a request, and no two hold the same. For `AbortReachesEveryWorker` the
invariant (`Aborting`) follows the rotation: every worker is in it once, and while a
round has passed over nobody, those the socket has been at since it began (`Behind`)
hold one abort or have ended, the others none.

`ProviderProofs` proves all six invariants of the provider run for every finite
set of channels, every capacity and every number of sessions. Type correctness
needs `ActiveHasClient` (a request carries the number of a session) and `Listed`
(a channel in use is listed, a session is above a channel that finished its
handshake). `ActivationFits` follows from these and from the bound on connections
by counting: the channel in its handshake has no session. `AcceptedOnce` is the
longest argument (`Order`): a rejected channel is watched, so the next `select`
fails and its pass does not look at the listening socket; until then the listening
socket was already taken in the pass that rejected. Two action properties say which
session a reply can reach, by reducing every step to what it does to sessions and
requests (`NumberStep`) and keeping their numbers in order (`Numbered`):
`SessionsEndForGood`, a session that ended never returns; and `RepliesCrossAfterEnd`, a
reply reaches a session that did not ask only when the one that asked has ended and a
later one at its address waits for a reply of its own, so that what `provider_routed`
finds is the only way. TLC has checked both, and `Numbered`, on the instance of
`provider`; no run repeats it.

`LifecycleProofs` proves the four invariants of the lifecycle run for any number of
workers and of console handler threads. `Order` states, for each position of the main
thread, what is held, how far the event thread is and how often RSSL was initialised
(`Building`, `Waiting`, `Releasing`, `Released`); type correctness,
`NothingOutlivesItsOwner` and `ReturnsReleased` are read off it. `FirstQuitIsSafe`
needs to know why the provider is gone: because the loop ended, and it ended because a
handler thread called `Quit` to its end (`SomebodyQuit`); a second one that found the
provider before finds it gone only late in `Reset` (`FoundProvider`).

`WorkerTaskProofs` begins with what the folds of `Analytics` return. `FoldLeft` is
defined in the community modules by recursion on a sequence, which no installed prover
unfolds for any length; `Loops` shows that the accumulators form a chain, one per turn
(`FoldSteps`), and follows it by an induction that is itself derived from the theorems
on finite sets (`InductionOver`: a bounded set closed under successor would be as large
as it is without its zero). `BarCovers` and `RollupCovers` say that a bar
accumulates the trades of its period and no others, for every history and wherever the
database cuts; for a rollup the period is the shifted one, and its times must not wrap
(`RollupFits`). Then the module proves the four invariants of the task run for every
set of items, histories and requests. `WorkerAnswers` is the inductive one: `Answers`
states at each position of `OnTask` what the analytic holds, so that a parameter or a
total which survived an earlier request would break it. `VolumeIsFaithful` adds the
arithmetic: a volume that a real cannot hold is rounded to a double, by less than half
of `Exponent7`, and divided, which rounds by half of it at most; the quotient fits since
`Word` is at most `RealMax * Exponent7`.

`DirectoryProofs` proves the three invariants of the directory run for every service id
and number of requests. An encoding is a program, the sequence of its calls. `Does`
says what a program adds wherever it is called and that it leaves the open containers
as it found them; two rules, one for programs in turn (`DoesBoth`) and one for a
program in a container (`DoesWithin`), carry this from the single call out to the
message, one lemma for each function of `provider_t`. `Encoding` is the inductive
invariant of a message in the making: the calls left complete what the buffer holds to
a whole message, or one of them returns false and it is never sent. It quantifies over
the states a program goes through, so that TLC cannot evaluate it; what follows from it
(`SentWhole`, `ViewCurrent`) TLC checks. `BufferEndsOnce` is inductive once both counts
are natural numbers.

`ParsingProofs` proves the six invariants and the action property of the parsing run for
texts of any length over any alphabet, for a signed number type of any range and for
every message. Few of the facts it needs are about steps; most are about one loop each, and
its recursive function is shown to exist (`RecursionExists`) and followed turn by turn.

- Requests. A scan stops at the first or the last delimiter (`FirstAtIs`, `LastAtIs`).
  A range of the text is tiled (`Tiles`) by components that lie side by side with one
  delimiter between them at most; each parser takes a tiled range and tiles it further
  (`AuthorityTiles`, `PathTiles`, ...), which gives `NothingLost`, with the length the
  offsets add up to (`LengthIsEnd`). `QueryConsumed` needs `QueryInText`: the query that
  is left is a piece of the request.
- Messages. A `Put` leaves every byte outside its field alone, so that fields written
  in any memory hold together; `Quotients` are the values the loop over the bytes
  divides down to, and a number `Fits` when the last is zero. `RequestArrives` and
  `ReplyArrives` assume only that the numbers are of the width of their fields and the
  text is shorter than 256 bytes.
- Numbers. `Right` is the invariant of the loop over the digits: the value is the sum of
  the digits so far (`Sums`) or the loop has refused it, and then the sum is out of
  range, at either end and for each sign. `NumberToString` writes the digits by
  division, and they sum to the number again (`SpellingWrites`).
- Patterns. `IsMatch` goes forward by what the beginning of a pattern can stand for
  (`Meanings`), `MatchVlogPattern` goes by the rests of the text (`Rests`); the two meet
  at every position of the pattern (`MeetInTheMiddle`), and the shortcuts of the code
  over stars and equal characters change nothing (`StarsMatch`, `InPlaceMatches`).
- Command lines. `LineRead` is inductive: after k words argv_ has the switches among
  them, then the arguments, each in the order of the words, and each switch its last
  value. For the second half, `LineBack` says that at every turn the line is made of
  switches and arguments such that (`Kept`): no word has a blank in it; a switch is
  stored in the form in which it is read again; an argument that looks like a switch
  stands behind a terminator. From this follows that the line is read again from its own
  words, hence from what it writes, that its switches copied into an empty line make the
  same switches, and that a wrapper in front changes no argument. A fold over a text that
  is joined at a delimiter is the folds over both sides (`SplitBoth`), which is why the
  three splitters agree.

Assumptions, each checked by TLC on the instances of the runs:

| Name | What it says |
|---|---|
| `SessionAssumption` | the zero token is not a stream; the bound is a number |
| `PoolAssumption` | finitely many workers, a positive pipe capacity, a window within it |
| `ProviderAssumption` | finitely many channels, a positive capacity |
| `LifecycleAssumption` | at least one worker |
| `DirectoryAssumption` | the service id and the bound are numbers; an id of zero is allowed |
| `AnalyticsAssumption` | a real holds less than a word; a word divided by `Exponent7` fits a real (2^64, 2^56 - 1 and 10^7 satisfy it); `Never`, the second an unset time stands for, is a number |
| `SpacingAssumption` | doubles are less than `Exponent7` apart at every volume (at most 2048, where a `uint64_t` ends) |
| `ReaderAssumption` | the reader's times are one word, signed or not; `BarGenPreference` is 0 or 1 |
| `TaskAssumption` | names of files, query values and lengths are of the types the code gives them |
| `ParsingAssumption` | texts are sequences of characters, names and replies sequences of fewer than 256 bytes; the number type is signed and has all numbers of one digit, with either sign |
| `HistoryAssumption` | prices and volumes are of their types, a history has fewer trades than a counter counts, and no trade carries the time `Never` or the second after it |

Only model-checked: liveness (`RequestsSettle`, `ShutdownEnds`, `ClosedRemoved`,
`CloseEndsUnlessStuck`, `StopsWhenTold`), which needs fairness. Every other property of
a passing run is proved.

## Not modelled

- Of `provider_t`: the addresses of interfaces, `min_rwf_version_`, and the times of
  pings and pongs, which are free choices.
- `hitsuji_t::OnRequest` with a view list, `bar_t::Calculate` by handle and
  `GetDacsLock` by name, which nothing calls, and with the first the View group of a
  request and the dynamic decoder of the codecs.
- `config.cc` (default values written once), `upaostream.cc`, statistics and logging:
  no behaviour depends on them. Of `main.cc` and `plugin.cc` the texts of the
  log and the resource that names a plugin's version are left out.
- Vendored code that the program does not reach: Chromium's histograms, values, JSON
  and string pieces, file URLs in googleurl.
- How the database aligns its bars to the bounds of a rollup: what a rollup answers is
  taken from the examples of vta_rollup_bar.hh, for either preference.

`provider_t::Close` empties `in_wfds_` after it queued the directory updates, so that
a session that is not logged in is closed without the flush of pass 4; and `client_t`
accepts a second login beside the first. Neither has a run.

## Plan

1. `Keepalive`: one session with a clock: pings sent in time, a peer that answers
   is not dropped, and the cases of a blocked event thread and a stalled peer.
2. `Service`: sessions, provider and `Dispatcher` composed, refining an abstract
   snapshot service in which a request is answered at most once, to the session that
   made it, save the cases `provider_routed` and the exceptions above name.
