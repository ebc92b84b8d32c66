# A TLA+ model of alpaca-cpp

This directory holds TLA+ modules, TLC configurations and TLAPS proofs about alpaca-cpp, the
C++ client of the Alpaca trading and market data APIs: its streams, its rate limiter, its
request loop, the two pairs of REST clients on top of it, and the MessagePack decoder of its
option streams. Paths such as `stream_base.cpp` are relative to `core/src/`,
`core/src/streaming/`, `core/src/detail/` or `core/include/alpaca/`.

## 1. The system

### Components

| Component | State | Operations | Modelled by |
|---|---|---|---|
| stream lifecycle (`stream_base`) | `state_`, `closing_`, `stopping_`, `auth_failed_`, `reconnect_*`, the socket, a reconnect thread | `connect`, `disconnect`, `shutdown`, `set_reconnect_policy`; socket callbacks; `mark_ready`, `report_error`, `schedule_reconnect`, `reconnect_loop` | `StreamBase`, implementing `Session` |
| subscriptions (`data_stream_base`) | `channels_` | `subscribe`, `unsubscribe`, `on_ready`, `handle_payload` | `DataStream`, implementing `Session`; `Streams` |
| stock, crypto, news and trade update streams | handlers | `handle_payload`, `dispatch` by message type, `on_ready` | `Streams` |
| option stream, frame decoder | the visitor's position in a frame | MessagePack visitor, `handle_frame`, `on_message` | `FrameDecoder` over `Document` and `Slots`, implementing `FrameReading`; `Streams` |
| rate limiter (`rate_limiter`) | five atomics | `acquire`, `try_acquire`, `wait_time_ns`, `set_rate`, `notify_rate_limited` | `RateLimiter`, implementing `Pacer` |
| request loop (`request_context`) | attempt and backoff of each call; one limiter per context | `execute_raw`, `async_execute_raw`; the verbs, `parse_body`, `throw_api_error` | `RequestContext` (the loop and its waits), `Calls` (what is sent and returned) |
| paging (`paginate`, `response.hpp`) | the token, the accumulated result | `paginate`, `append_page`, `merge_symbol_page`, `to_symbol_map` | `Responses`, `QueryBuilder`, `Calls` |
| trading clients | one `request_context` each | 50 methods, each written twice | `TradingClient`, `TradingClientAwaitable`, `Endpoints` |
| data clients | one `request_context` each | 46 methods, each written twice | `DataClient`, `DataClientAwaitable`, `Endpoints` |
| credentials, environments | none | `from_env`, `resolve`, `trading_headers`, base URLs | `Credentials` |
| orders and query structs | none | `order_request`, its factories, its JSON; `to_query` | `OrderRequest`, `Queries` |
| timestamps and text | none | `to_nanoseconds`, `query_builder`, `url_encode` | `QueryBuilder` in part |
| JSON models, errors | none | field by field mappings | not modelled |

### How they interact

A *caller* thread uses a stream. The *service* thread of the websocket library runs the four
socket callbacks one at a time, and through them the handshake, the replay of subscriptions
and every user handler. The *reconnect* thread sleeps, opens the socket and never touches a
frame. They share `mutex_`, `cv_`, the atomic `state_` (read without the mutex by
`is_ready()`) and, in the data streams, `subs_mutex_`. A REST client's callers share a
limiter that has no mutex; blocking calls sleep in it, coroutines poll it. A method of a
client is a call of the request loop per page, and the loop does not know which method it
serves.

### What is hard, and what makes each component correct

* *Stream.* `state_` is written by three threads outside the mutex, and `closing_` and
  `reconnect_pending_` are tested in one critical section and used after it. Correct means
  that no wake-up is lost, the limit on attempts holds, a shutdown is final, a closed stream
  is not reopened, and a dropped one comes back.
* *Subscriptions.* Recording, looking at `is_ready()` and sending are three steps; so are
  building the replay and sending it. Correct means that what the client wants is carried
  by every live session.
* *Messages.* A frame is a batch; handlers run while it is walked, a message may throw out of
  it, a frame may break off, and the first success of a session is not the one that counts.
  Correct means that handlers see what was sent, once and in order, and that only the
  server's verdict on the credentials makes a stream ready.
* *Decoder.* One pass, two depth counters and a flag stand for the nesting of the document.
  Correct means that it reads what the nesting says.
* *Limiter.* All words are read separately and combined. Correct means no over-admission, a
  barrier that is only ever extended and is waited for, a wait time that agrees with the
  admission it predicts, and calls that take effect one at a time.
* *Requests.* Retries, barriers and polling compose. Correct means every call ends, a 429
  is waited out, and retries are paced like first attempts.
* *Clients.* 96 methods are written by hand, twice. Correct means that the twins agree, that
  pages follow tokens and are merged whole, that no part of a failed result is returned, that
  a request carries the keys of one account, and that an order is placed once.

## 2. Modules

| Module | Content |
|---|---|
| `Session` | what a caller is shown of a connection: the abstract specification of both stream modules |
| `StreamBase` | lifecycle: callers, service thread, reconnect thread, socket, server |
| `DataStream` | topics, deltas and replays over an abstract connection |
| `Streams` | the five streams' messages, errors and handshakes, one event after another |
| `Document`, `Slots` | the MessagePack parser's steps; the fields of an option message |
| `FrameReading` | what a frame means, by the nesting of the document: abstract |
| `FrameDecoder` | the visitor with its counters, a step per callback |
| `RateLimiter` | the limiter, one atomic access per step |
| `Pacer` | an atomic bucket and barrier and the requests on them: what a limiter promises the threads that share it |
| `RequestContext` | the request loop over the limiter at the grain of its operations |
| `Credentials`, `OrderRequest`, `QueryBuilder`, `Queries`, `Responses` | pure operators: keys and hosts, orders, query strings, query structs, the shapes of answers |
| `Endpoints` | how a client method is written: verb, path, query, body, reply |
| `TradingClient`, `DataClient`, `TradingClientAwaitable`, `DataClientAwaitable` | tables of the methods of each client, each translated from its own file |
| `Calls` | a call of any method, on a blocking client and then on its coroutine twin |
| `Tables` | one table on top of another (`++`), for the client modules |
| `MC...` | instances for TLC, one `.cfg` per run |
| `StreamBaseProofs`, `DataStreamProofs`, `StreamsProofs`, `RateLimiterProofs`, `RequestContextProofs`, `FrameDecoderProofs`, `CallsProofs` | theorems |
| `Recursion` | lemmas on induction and on functions defined by recursion, for the proofs |

An operator under the comment "Mutant of X" is X with a plausible bug. No specification uses
it; each property is known to fail when its mutant takes X's place.

### StreamBase

One action per critical section and per access outside one. `pc[c]` is the line a caller is
at (`connect_store` is line 93, `connect_open` 94, and so on), `svc` the service thread's,
`loop` the reconnect thread's. `connect()` holds `mutex_` from its predicate to the wait and
to the return; `MutexFree` says that nobody does. A condition variable is the set `waiting`:
`cv_.notify_all()` empties it, and a thread not in it evaluates its predicate again. A
timeout may strike at any moment of a wait.

The websocket library is not in the repository, so it is modelled by what the code assumes:
`open()` and `close()` return at once; a socket comes up or is lost, and the callbacks run
later, in order, on the service thread; `close()` may or may not be followed by a
disconnected callback; `open()` on a socket that is not closed does nothing or starts afresh.
The server answers credentials with success or an error, may send an error at any later
time, and drops what it refused. JSON, handlers and transport errors (which change nothing)
are left out; the backoff's length is abstracted to "at some time".

### DataStream

A topic is one symbol of one channel, `channels_` a set of topics. A caller's delta is
recorded under the mutex (`Subscribe`, `Unsubscribe`), then `Check` reads `is_ready()`, then
`SendDelta` sends. `HandleAuthenticated`, `Snapshot`, `SendReplay`, `OnConnected` are the
parts of `mark_ready()` on the service thread. A socket that is down loses what is sent, a
drop loses the frames under way, and each session starts with an empty server set. A new
session begins only after the drop of the last was handled: that is `StreamBase`'s
`ReconnectOpensClosedSocket`, checked and proved for a stream connected once. The properties are stated
for topics with one owner: two threads that change one topic race by design.

### Session

`StreamBase` and `DataStream` both implement `Session`, by mappings in the modules
themselves: its `conn` is the connection as the server sees it, `shown` what `state_` tells
the caller, `events` the callbacks not yet run. That the finer module implements the same
`Session` the coarser one implements is what entitles `DataStream` to its abstract
connection. Both refinements are proved. That of `StreamBase` is for a stream connected once,
as its other session properties are: after a `disconnect()` a second `connect()` may open a
socket over a callback that is still to come.

### Streams

The service thread handles one event after another, so that a frame is taken, its messages
are handled one by one, and it is finished or thrown out of. `Settings` is which of the five
streams it is and which handlers the caller installed; `dispatch` is the five `dispatch()`
functions as tables. `Throws` is `from_json()` meeting a timestamp that is no string: the
exception leaves the loop over the batch and the rest of the frame is lost. The decoder of
the option stream never throws; it delivers what it read before a break and the frame is
reported at its end (`FinishFrame`). `mark_ready()` is three steps, with `marking` the one to
come: the state is stored and `connect()` released (`mark_ready`), the replay or the listen
request is sent (`OnReady`), `on_connected` is called (`OnConnected`). Frames and drops fall
between them, and `is_ready()` is true before anything has been asked for. `calls` is the history of handlers called, each with the
frame and the place in it.

### FrameDecoder

`Document` is the library's parser as a generator: it opens containers, reads scalars, keys
and values, closes them, breaks off anywhere, and begins the next frame. `FrameDecoder` gives
each parser step the visitor's callback. `FrameReading` gives the same step its meaning by
the stack of open containers, without counters. The refinement `ReadsAsNested` is the
identity on the document and on what is delivered; the visitor's message is compared while
one is being built.

It is checked and proved for frames all of whose map keys are scalars (`ScalarKeys`). For a
key that is itself a container the comment at `frame_decoder.hpp:244` promises that nothing
lands in the previous key's slot, and the slot is indeed reset; but `end_map_key()` of a map
inside the key clears `expecting_key_` while the outer key is still being read. Setting
`ScalarKeys = FALSE` produces the trace. No server sends such a frame.

### RateLimiter

Every load, store and compare-exchange, and every reading of the clock, is a step, and `loc`
holds each thread's possibly stale copies. Memory orders are not modelled: each atomic is
sequentially consistent. A clock of a few ticks a minute replaces nanoseconds. `granted` is a
history of the slots reserved since the last `set_rate()`, and `loc[t].floor` of the barrier
at the start of a call. `wait_time_ns()` is an operator on one state, not a sequence of loads.

`Pacer` is the same limiter with a fixed rate and every operation one step. A request is
dated by a moment `at` within its call and not under the barrier its call began with:
`try_acquire()` is admitted if the slot after the bucket, or after `at`, is within a burst of
`at` (`Admit`), and refused only if it is not or if the barrier stands at `at` (`Refuse`);
`acquire()` takes the slot in any case and sleeps until it is due (`Reserve`, `Wake`);
`notify_rate_limited()` makes the barrier the later of itself and what it asks for
(`Raise`); with rate 0 a request passes (`Pass`). The steps are the successful
compare-exchanges and the early returns; all others show nothing. A date may be past, since
the clock is read before the exchange: a call may be refused for the barrier or the bucket
that stands at its step with a reading of the clock from before, which no single instant
would give. `loc[t].since`, a history like `floor`, is when a call began.

### RequestContext

The limiter's words appear as the time from now to them, which makes the state space
finite without a bound on the clock; `Tick` shortens everything that is waited for. The
test of the barrier and the reservation are separate steps, the compare-exchange loop is
one (that is what the refinement of `Pacer` by `RateLimiter` shows it amounts to). `cooling` is a history: what is left of the
second after a call's last 429. Which request is sent, and what the server did with it, is
left out here and is the subject of `Calls`.

### Calls

The four client modules are tables with one row per method, each read off its own source
file: verb, path, how the query is built, the body, and what is made of the answer
(`Responses`: a raw body, an object, a list, a list under a field, a map by symbol or of codes, pages
that are appended, merged, or of which the first wins; `Symbols` are the keys of the maps in an answer, and
`Wanted` the one a method that returns the entry of one symbol asks for). `Calls` runs a row: `Init` resolves the
credentials and builds the query, `Exchange` sends a request and takes an answer, `Retry`,
`GiveUp`, `Unparsable`, `RefuseString`, `NextPage` and `Return` are the ways the answer is
dealt with. An entry of another shape than expected is passed over in a history or among the
corporate actions, becomes a default value in a map of models and in a chain, and throws in a
map of codes, as a token that is no string does (`RefuseString`). When the blocking client is done, `Mirror` makes the same call on the awaitable
one, which is given the same answers for as long as it sends as many requests. A method that
returns a single page is called again by the caller while there is a token
(`README.md:291`). The server is external: it answers anything, and may carry out an order
it then answers with 5xx; but it does not place a second order under a `client_order_id`.

Waiting is left out of `Calls` and content out of `RequestContext`; the two meet in the loop
over attempts, which each has whole.

## 3. Runs

Bounds are constants of the modules (`MaxCalls`, `MaxFaults`, `MaxDrops`, `MaxTime`,
`MaxFrames`, `MaxObjects`, ...) or the sizes of the sets; every one is given in the `.cfg`.

| Run | Instance | Shows |
|---|---|---|
| `MCStreamBase_lifecycle` | 2 callers, 3 calls, 2 faults, limits 1 and 2 | `AttemptsBounded`, `CloseCancelsPending`, `ShutdownIsFinal` |
| `MCStreamBase_wakeup` | 2 callers, 3 calls, 1 fault, overlapping shutdown | `ConnectNotStranded`, `ShutdownReturns` |
| `MCStreamBase_reconnect` | 1 connect, 4 faults | `ReconnectOpensClosedSocket`, `ReadyIsLive`, `SessionShown`, `ImplementsSession`, `Reestablished` |
| `MCDataStream_replay` | 2 callers, 4 calls, 2 drops | `IntentCarried`, `ImplementsSession`, `NoTopicReturns`, `EventuallyCarried` |
| `MCStreams_streams` | 5 kinds of stream, several sets of handlers, 3 frames, 2 sessions | `HandedOverInOrder`, `HandshakeDecides` |
| `MCFrameDecoder_frames` | containers 4 deep, 7 objects, 2 frames | `ReadsAsNested` |
| `MCRateLimiter_fixed` | 2 threads, 3 calls, 4 ticks | `SlotsSpaced`, `BurstBound`, `HonoursBarrier`, `WaitTimeExact`, `ImplementsPacer` |
| `MCRateLimiter_change` | 2 threads, one change of rate | `RateChangeBounded` |
| `MCRequestContext_retries` | 2 blocking calls and a coroutine, 2 attempts | `RetryWaitsOutBarrier`, `DebtIsSleptFor`, `GivesUpInTime`, `EveryCallEnds` |
| `MCCalls_calls` | all 96 methods on both clients, 2 attempts, up to 3 pages | `PagesFollowTokens`, `ReturnedIsWhole`, `MirrorsBlocking`, `KeysOfOneAccount`, `PlacedOnce`, `OrdersComplete` |

Why the bounds are enough: the races of the stream are between one caller, the service
thread and the reconnect thread, or between two callers, and each needs at most two socket
failures (one to start a reconnect, one to interrupt it); the limiter's races are between a
reader of a word and a writer that may come in twice, and its theorems hold for any number
of threads; a topic's fate is decided by a delta on either side of one
replay, and two drops give a replay that is itself lost; the visitor's counters tell apart
the message, what is around it, a list in it and anything deeper, which four levels reach,
and a second frame shows what the first leaves behind; a session of a stream is decided by
the frames before, with and after its handshake; a chain of pages has a first, a middle and a
last. In `MCCalls` every method meets a small set of answers, one method of each shape of
reply (`Rich`) every answer, `Failing` every failure and `Signed` every assignment of the
credentials: the shapes are shared code, so that one method of each stands for the others.

Deadlock is checked for the stream lifecycle, the subscriptions, the requests and the calls:
`Rest` and `Over` stutter exactly in the states in which the program may stop. It is not
checked for the limiter, whose clock stops at `MaxTime` with threads asleep, for the decoder,
which ends with its last frame, and for `Streams`, whose server stops at its bounds.

### What comments and tests say, and the code does not do

Two runs end in a counterexample to a sentence of the repository (`findings` in
`PROJECT.json` has the quotes):

* `MCStreamBase_disconnect_open`: the reconnect loop, past its wait, opens the socket after
  `disconnect()` has returned.
* `MCDataStream_forgotten`: an unsubscribe that overtakes the replay built before it is
  undone by the replay, and the server goes on sending the topic.

Some more that the models contain have no run of their own:

* `mark_ready()` stores `ready` without looking at `closing_` (`stream_base.cpp:190`). The
  service thread takes the success frame; the caller runs `disconnect()`, which stores
  `disconnected`; the service thread stores `ready`. The stream is closed and says it is
  ready, where `tests/streaming_integration_tests.cpp:70` expects a disconnected stream not
  to be. It is the interleaving of `disconnect_open` with the other thread.
* A call asleep for its slot does not look at the barrier again when it wakes
  (`rate_limiter.cpp:142`), so that it goes out while the barrier of another call's 429
  stands. `RetryWaitsOutBarrier` is therefore stated for the call that was told to wait.
* `connect()` can return false before its timeout, because the state may drop between its
  predicate and its verdict (`stream_base.cpp:101`).
* With rate 0 the limiter does not wait for a barrier (`rate_limiter.cpp:107`).

### Fairness

Threads that can move do (weak fairness of each thread's steps: the operating system's
scheduler); sleeps and backoffs end (their lengths are finite); an open socket comes up or
fails, and the server answers credentials, requests and closes what it refused, which is the
network the code's own timeouts assume. The timeout of `connect()` is given no fairness:
`ConnectNotStranded` must hold without it. Calls, faults and drops are never forced.
`Reestablished` and `EventuallyCarried` need the faults to end, which their bounds provide.
`Streams`, `FrameDecoder`, `RateLimiter` and `Calls` state safety only and have no fairness.

## 4. Proofs

TLAPS checks, for every value of the constants:

* `TypeCorrect` of every component's proofs: the type invariants. For the limiter this
  includes that no subtraction underflows, for the decoder that no counter goes below zero,
  for the streams that a place in a batch never outlives its frame, for the request loop that
  the backoff, a recursion over the attempts, is a number whatever the policy, and for the
  calls that neither client takes more answers than there were.
* `AttemptsStayBounded`. `AttemptsBounded` is not inductive: a request may be pending when
  the counter stands at the limit. `AttemptLeft` adds that a pending request implies room for
  one more attempt: `schedule_reconnect()` tests what `reconnect_loop()` uses up later.
* `CloseCancels`: inductive as it stands, because both flags change under `mutex_`.
* `ShutdownFinal`, assuming that calls do not overlap `shutdown()`. `ShutdownInv` says where
  the stopping thread is, and that after its join the reconnect thread is gone.
* `ReconnectOpensClosed`, `ReadyStaysLive` and `SessionStaysShown`, assuming that the callers
  make one call of `connect()` and no other (`OneConnect`). The three are proved from one
  invariant, `OnceInv`: the socket is up, or its drop is under way, or being scheduled, or
  with the loop, one of these at a time (`OneAtATime`); a connection's events begin with its
  opening and end with its drop (`EventsInOrder`); and whoever is about to open the socket
  has stored a state that is not `ready` (`OpensUnready`).
* `SessionImplemented` of `StreamBaseProofs`, the refinement of `Session` by `StreamBase`,
  under `OneConnect` too. To `OnceInv` it adds `ShownInv`: while no connection is up or
  coming, and also while somebody is about to open one, `state_` says so; it says
  `authenticating` while the credentials are under way. The events of the `Session` are the
  inbox without the server's errors (`LifecycleEvents`, a recursion along it);
  `LifecycleArrives` and `LifecycleTaken` say what becomes of them when an event joins the
  inbox and when one is taken from it.
* `SessionImplemented` of `DataStreamProofs`, the refinement by `DataStream`. `SessionInv` says what the
  mapping needs of the queues: the credentials are on the wire at most once and only while
  they are awaited, a connection's opening is its first event, and its drop ends the session
  and empties the wire.
* `IntentAlwaysCarried` and `NoTopicEverReturns`, assuming that no two threads share a topic
  (`OneOwner`). `Owned` says that a change under way agrees with `channels_`; `CarriedInv`
  that, in a session shown as ready, each wanted topic is carried once the replay was built,
  or stands in the replay or in a delta still to be sent. The last frame that names a topic decides what the server
  makes of it, so that sending is a matter of that frame alone.
* `HandshakeDecided`. The property speaks of a ready stream, of the moment before
  `on_connected` and of an idle thread, and says nothing of what was asked for between the
  store of `ready` and `on_ready()`; the invariant `HandshakeInv` accounts for the verdict on its way: the connection's first event
  comes before every frame and its drop after (`Ends`), a frame that confirms is in the queue
  only if the server accepted (`ConfirmedByServer`), and an accepted or refused connection
  has either drawn its consequence or still `Awaits` the answer; a ready session that is up
  has been asked unless `mark_ready()` is still at its `on_ready()` (`ReadyConfirmed`). It
  assumes of the server only `FrameAssumption`: no frame but the handshake's confirms the
  credentials.
* `HandoverOrdered`. `HandoverInv` puts the frames not yet taken behind the service thread's
  place, the calls of handlers before it, and says of a batch half walked that what is
  behind the place was handed over. `MarkedTaken` adds that the message which made the
  stream ready is the protocol's own, so that the call of `on_connected` keeps the order.
* `ReadsCorrectly`, the refinement of `FrameReading` by the visitor, for documents of any
  depth and length whose keys are scalars. The invariant ties the two counters, the slot and
  the list to the stack of open containers.
* `NeverOverAdmits`, assuming no thread calls `set_rate()`: `LoadedInv` bounds every stale
  copy by the words it was read from, `GrantInv` ties the history to `tat_`; a successful
  compare-exchange then extends the history by a slot an interval later. `SlotsStaySpaced` is
  a part of it, and `WaitExact` follows too: `wait_time_ns()` subtracts the burst from what
  an admission would make of `tat_`, which needs an interval no longer than the burst.
* `RateChange`, with no assumption on who calls `set_rate()`. `MixedInv` says that each copy
  of an interval or a burst is of some rate in use, though perhaps of two; `SpacedInv` is
  the budget kept in the shortest of their intervals.
* `BarrierExtends` (`BarrierOnlyExtends`, which `ImplementsPacer` contains for a fixed rate,
  with any changes of rate), and `BarrierHonoured` unless limiting is disabled.
* `PacerImplemented`, the refinement of `Pacer`, assuming no thread calls `set_rate()`. To
  `LoadedInv` it adds `PaceInv`, which says how stale a copy may be: a reading of the clock
  is no older than its call, and not under the barrier the call began with once the call is
  past its test; the `tat_` that `try_acquire()` compares is no later than the word
  (`BucketGrows`), so that what is refused on an old copy is refused on the word; the barrier
  a notification compares is no later than the word either, so that one that returns without
  a store has nothing to raise.
* `RetryWaits`: what is left of the second after a call's 429 never exceeds the barrier
  (`BarrierOutlasts`), and a call on its way out has nothing left of it (`Cooled`). The
  argument says nothing of sleeps, so it needs no typing of the backoff.
* `GivesUp`: a call in its backoff has an attempt left (`AttemptInv`).
* `DebtSleptFor`. The property speaks of now, and a tick shortens both the debt and the sleeps;
  `DebtInv` therefore says for every `x` that the debt left in `x` ticks is slept for by the
  calls still asleep then. A tick turns `x + 1` into `x`, and a reservation adds one interval
  and one sleeper on every `x` before its slot.

* The theorems of `CallsProofs`, for every caller (`SessionAssumption`: a method there is,
  values that are not empty, an order a factory made), every body a server may answer with
  (`BodyAssumption`: entries are under symbols), any list of tokens that are not empty
  (`TokenAssumption`) and any number of attempts. What a call does is decided by the answers
  it gets, so that the answers determine a *course*: a list of places (the query, the page,
  the attempt, what is gathered, how it ended, the orders placed), each reached from the one
  before by `Goes`. The invariant `IInv` says that there is a course of the answers given so
  far, that each client has sent what the course sends up to the place its requests have
  brought it to (`Follows`), and that the variables are those of that place (`OnCourse`). It
  is needed because the two clients run one after the other and share nothing but the
  answers: a relation between their variables alone would not survive a step of the second.
  `CourseKept` proves it. The rest is about courses, without twins or time:
  - `TwinsAgree`: a course cannot go on from a place where it has ended, and two calls that
    stand at one place of a course have sent and made the same. What is left to compare are
    the rows of the four tables, which a lemma does method by method.
  - `TokensAreFollowed`: every query of a course asks for what the caller gave and for the
    token of the page before (`Asks`); the number of its page is that of the 2xx answers
    before it (`CoursePages`), which is how the property counts. `set` replaces a key that is
    there and adds one that is not, and the query `build` makes gives no key twice
    (`BuildQuery`, an induction over the fields).
  - `ResultsAreWhole`: what a course has gathered at a place is the concatenation, the merge
    or the first entries of the pages up to it, by an induction along the course for each
    shape of reply, and it goes on exactly while there is a token.
  - `OrderPlacedOnce`: the orders placed are counted along the course, and never exceed its
    attempts; under an identifier the second is refused. `KeysAreOfOneAccount` and
    `OrdersAreComplete` need of the course only that every request is signed and filled as
    the call determines; the first is then a matter of `resolve`, the second of the factories.

Assumptions about the constants are named in the modules that declare them and evaluated in
every run. `Recursion` has the inductions: a property is passed as the set of the numbers
that have it, since a theorem whose parameter is an operator cannot be instantiated.

Every invariant, action property and refinement of the passing runs is proved. Only
model-checked: liveness (`ConnectNotStranded`, `ShutdownReturns`, `Reestablished`,
`EventuallyCarried`, `EveryCallEnds`), which is out of the prover's reach, and the two
counterexamples. Some theorems have a hypothesis on the callers, which the runs' instances
satisfy and which is named above: `ShutdownFinal` (no call overlaps `shutdown()`), those under
`OneConnect`, those under `OneOwner`, and those of the limiter at a fixed or a positive rate.

## 5. Not modelled

* JSON of the response models and the error types: field by field mappings without behaviour
  over time. Tests compare them with recorded answers.
* RFC 3339 parsing and formatting (`to_nanoseconds`, `from_nanoseconds`): arithmetic on 64-bit
  counts of nanoseconds over characters, beyond TLC's 32-bit integers; its edge at 1970
  (`utils.cpp:119`) is listed under `hazards`.
* `set_base_url()` and `set_credentials()`, which the headers say are not for use while calls
  run; copies of a client and of its limiter.
* `url_encode`, `base64_encode`, `basic_auth_headers`, the URLs of the streams, the bytes of
  outgoing frames.
* The websocket, HTTP, JSON and MessagePack libraries and the server are external and appear
  only through what the code assumes of them. In particular `Calls` lets no server repeat a
  page token, for which `paginate()` has no test.
* Memory orders weaker than sequential consistency, spurious compare-exchange failures
  (stuttering steps), the lifetime of handlers set on a live stream, and callbacks after
  destruction.

What would come next: `DataStream` composed with `Streams`, so that the error that answers an
early delta is a message of the session; `RequestContext` over `Pacer` itself instead of the
waits it keeps; copies of a limiter.
