# Verification of notstd async-lib

TLA+ models, TLC runs and TLAPS proofs for the library under `src/`: a header-mostly C++
library of asynchronous building blocks over Boost.Asio (a multi-producer queue, a join of
events, a one-shot event, a type-erased completion handler with work guards) and their users, a websocket
connection written as a set of C++20 coroutines, JSON-RPC calls over it, and a request table with
authentication.
Paths below are relative to `src/`; `async/` stands for `include/notstd/util/async/`,
`json_rpc/` for `include/notstd/util/json_rpc/`.

## 1. The system

### Components

| component | file | state | operations |
|---|---|---|---|
| `async_queue`, `async_queue_impl` | `async/async_queue.hpp`, `async/detail/async_queue_impl.hpp` | `state_` (atomic), `handler_`, `values_`, `ec_` | `push`, `stop`, `async_pop`, destructor; the tasks they post |
| `async_join_impl` | `async/async_join_impl.hpp` | `state_`, `events_`, `handler_`, `error_`, under `mutex_` | `set_event`, `unset_event`, `async_wait`, `cancel`, `triggered`, `events` |
| `async_event` | `async/async_join_impl.hpp` | `state_`, `event_set_`, `handler_`, `error_` | `set_event`, `async_wait`, `cancel` |
| `poly_handler` | `async/poly_handler.hpp` | `kind_` (a vtable), inline or heap storage | assignment, move, destruction, `operator()`, `post_completion`, `emplace_with_guards` |
| `queue_impl` | `async/queue_impl.hpp` | `queue_`, `handler_` | `push`, `async_pop`, `cancel` |
| connect states | `async/{websocket,ssl_stream,tcp_socket}_connect_state_impl.hpp`, `tcp_resolve_state_impl.hpp` | `on_cancel_`, the coroutine's `my_error` | `operator()`, `cancel` |
| `websocket_state_impl` | `async/websocket_state_impl.hpp` | `connect_latch_`, `connected_signal_`, `on_close_`, `on_send_text_`, frame handlers; the frames of the run, write, close and read states | `operator()` (the run), `connect`, `close`, `send_text` |
| `request_map` | `json_rpc/request_map.hpp`, `src/json_rpc/request_map.cpp` | `auth_state_`, `pending_authentication_`, `outstanding_`, `current_id_` | `add_async_request`, `notify_autenticated`, `async_complete`, `cancel` |
| `json_rpc::websocket_state_impl` | `json_rpc/websocket_state_impl.hpp` | `request_id_`, `call_handlers_` and a websocket | `operator()`, `async_call`, `close` |
| work guards | `async/cheap_work_guard.hpp`, `async/wrap_work_guard.hpp` | `context_`, and the outstanding work of an `io_context` | construction, copy, move, assignment, `reset`, destruction |
| values, errors, printing, traits | the rest | none that changes at run time | |

### How they interact

* **Callbacks.** Every asynchronous operation stores its handler in a `poly_handler`, together
  with work guards for the executors it will need, and gives it up exactly once: by calling it,
  by posting it to its executor, or by dropping it.
* **Tasks.** `async_queue` never touches its state from the caller's thread, except that
  `async_pop` stores the handler and raises `state_`. Everything else is a task posted to the
  default executor.
* **Locks.** `async_join_impl` holds `mutex_` from its first look at the state to its last
  assignment, and posts completions instead of calling them; `async_event` likewise.
* **Coroutines.** The websocket's run waits for a connect request on `connect_latch_`, runs
  the nest of connect states (websocket over ssl over tcp over resolver), forks the write and the
  close state, announces the connection on `connected_signal_` and reads. Client calls reach the
  coroutines through `std::function` hooks (`on_close_`, `on_send_text_`, `on_cancel_`) that each
  coroutine installs for the time of a suspension and that refer to variables of its frame.
* **Calls.** `json_rpc::websocket_state_impl::async_call` stores the handler under a new id, sends the request
  by `send_text`, and `on_rx`, which the read state calls for each frame, completes it.
* **Shared state.** The write and close states and `connected_join` live in the run's frame. The
  write state takes frames from a `queue_impl`, the close state waits on an `async_join_impl`.

### What is hard here, and what makes each part correct

* **Queue**: the client's thread and the executor interleave inside `async_pop`; a completion on
  its way to another executor uses the handler slot later. Correct: the slot has one owner at a time,
  no pop is forgotten or completed twice, values arrive in push order, `stop` clears what came
  before it and only that.
* **Join, event**: the last `set_event`, the wait and a `cancel` race. Correct: no wake-up is
  missed, each wait has one result and one its history justifies, the first cancel of a join is
  final, and an error wins over an event.
* **Handler**: the body of a handler reuses the slot it was invoked from. Correct: one place, one
  call, no object leaked or destroyed twice.
* **Work guards**: handlers that own guards are moved, posted, run and dropped, and guards are assigned to
  each other. Correct: a context counts exactly the guards that exist, and never comes to zero, which stops
  it, while one does.
* **Connect states**: a cancel comes between, or too late for, an operation. Correct: hooks never
  outlive their frames, a cancelled connect ends and never succeeds.
* **Websocket**: a `close` in every phase, a connection that comes up after it, a read error
  while the writer writes, forks that outlive the run. Correct: every coroutine has exactly one
  thing that will resume it, `connect()` and the run agree, a close ends the run, nothing refers to a
  destroyed frame.
* **Calls**: an id from an uninitialised counter that overflows, a send that is refused after the
  entry is made, a response that is read before its request's write has completed. Correct: each call is in
  the table or has one result, and that is its own response or an error; a refused request is never sent.
* **Requests**: ids that collide, answers that repeat, a send that throws half-way. Correct: each
  handler is in one place, is completed once and by the response to its own id, and is lost in the two ways
  the code has (section 3) and no other.

`PROJECT.json` lists the hazards one by one, each at its line, with the properties that cover it.

## 2. The modules

| module | models | abstract specification it is checked against |
|---|---|---|
| `AsyncQueue` | the queue and its wrapper | `Mailbox` |
| `AsyncJoin` | the join | `Latch` |
| `AsyncEvent` | the event | `Latch` |
| `PolyHandler` | handler slots, their C++ objects and the guards they carry, over `WorkGuard` | |
| `WorkGuard` | work guards and the count of their contexts | |
| `QueueImpl` | the frame queue | |
| `ConnectChain` | the nested connect states | `Cancellable` |
| `WebsocketState` | run, write, close and read states, and a client | `Latch`, for `connected_signal_` |
| `JsonRpcState` | JSON-RPC calls, over the actions of `WebsocketState` | `WebsocketState` |
| `RequestMap` | JSON-RPC requests with authentication | |
| `MCAsyncJoin`, `MCAsyncEvent`, `MCPolyHandler` | sets of model values and symmetry for TLC | |
| `AsyncQueueProofs`, `AsyncJoinProofs`, `AsyncEventProofs`, `ConnectChainProofs`, `QueueImplProofs`, `RequestMapProofs`, `JsonRpcStateProofs`, `PolyHandlerProofs` | theorems, those of `WorkGuard` with those of `PolyHandler` | |

Variables keep the names of the members they stand for (`state_`, `handler_`, `on_cancel_`), and
actions those of the functions. A definition whose comment begins "Mutant of" is a wrong version of
the definition after it, kept to show that a property notices the difference; no specification uses it.

### AsyncQueue

A value is the number of the push that carried it, a handler the number of the pop that stored it.
`Push`, `Stop` and `Destroy` append a task to `tasks`, the queue of the default executor; `RunPush`,
`RunStop` and `RunCheck` run the task at its head, with the whole of `maybe_complete()` in the
same step. `AsyncPop` is the part of `async_pop` up to the store to `state_`, `PostCheck` the post
that follows: a task may run between them and complete the pop, and the handler may start the next pop
before the first call has posted its check (`unposted` counts such calls). A handler whose executor is the
default one is called in the task; the completion of any other goes to `posted`, and `RunPosted` takes
the handler from the slot and calls it. The default executor is a strand or an `io_context` run by one
thread, which is what the source relies on for `values_` and `ec_`. The client keeps one pop
outstanding: there is one slot. It does not destroy the wrapper while `async_pop` runs on it.

### AsyncJoin and AsyncEvent, and the Latch

Each operation holds the mutex throughout, so each is one action; `RunHandler` is an executor calling
a posted handler, in any order. The model is of the release build: after an
assertion on the caller (a second wait, an event set twice) the code goes on, and so does the model.
`Latch` says what both promise: a wait gets its result in the step that fires or fails the
event, or at once if that has happened. A join of no events has fired from the start, which is why
`Latch` does.

### PolyHandler

`live[h]` counts the C++ objects of handler `h`: moving a small handler makes a second and destroys
the first, invoking a big one frees the memory without the destructor, as `poly_handler.hpp:127`
does. `running` is the stack of handlers being invoked: while it is not empty any action may
happen, as the body of a handler may do it. Completions in `posted` run when it is empty. A slot is moved only if it holds a
handler and not to itself, the callers' precondition: the move assignment uses `kind_` untested.

`emplace_with_guards` assigns a wrapper of the handler with work guards for its own executor and a default
one. A moved-from guard is null and counts for nothing, so a handler's guards are in the one place where
the handler is: `io` changes where the code constructs or destroys a wrapper that is not moved from, and
`CountExact` compares it with the places. `io` is that of `WorkGuard`, whose `tasks` are here
the handlers' guards, the queued completions and the one being run (`Tasks`); guards outside handlers
(`FreeGuards`) act in the same contexts. A handler assigned without guards is given the default executor.

### WorkGuard

`context_[g]` is the pointer, as a set of one context or none. `add` and `finish` are `on_work_started` and
`on_work_finished`; the one that takes a count to zero stops its context, from which nothing brings it back
here. Guards are made for contexts that still run. Each operation is one action although assignment
changes two counts: `finish(add(..))` keeps their order, which is what the mutant `copyAssignNaive` swaps.
`GuardSpec` is the module alone, with any other work of the contexts (`Task`).

### QueueImpl

One executor, one consumer. `0` is an empty frame: what a moved-from `std::string` at the front holds,
and what a cancelled pop is given.

### ConnectChain

Layer 1 is the outermost, layer `Depth` the resolver. A layer's coroutine awaits the layer
below, then runs its own operation. Coroutines that await each other resume without a pause, so a
step leads from the end of one operation to the start of the next one or to the end of the run, and all
state is: the layer whose operation runs (`at`), each layer's hook and recorded code, and the
operation. `OperationEnds` is external: a cancelled operation may still succeed, as
`async_connect` does that goes on to the next endpoint. The ssl layer sets the server name before its
handshake, which may throw (`SniLayers`).

### WebsocketState

Four coroutines: R the run, W the write state, C the close state, K the client's `connect()`. `ready`
is the executor's queue: which coroutine is resumed, with what result; an action of
a coroutine is what it does from one suspension to the next. The read state is part of R, which awaits
it. The frame queue is reduced to whether it holds a frame, the latches to their state and event.
The connect states are one operation that fails if a close was requested, which `ConnectChain` shows of them.
A frame handler that throws is a read that ends with an error.

Two things need an explanation.

* `inline`. `net::co_spawn` may enter the coroutine at once or post its first step, depending on
  the version of Boost.Asio and the executor. `inline` is chosen in the initial state and never
  changes, so one run checks both programs.
* `dangling`. Once the run has ended, W, C and the hooks refer to a destroyed frame. The
  model sets `dangling` when such an object is used and stops there: the program may do anything.
  Properties about progress are stated up to that point; that it is reached is what
  `websocket_join` is about.

One run and one `connect()` per object are modelled (`connect()` asserts the latter).

### JsonRpcState

The module EXTENDS `WebsocketState` and adds to its actions what the JSON-RPC layer does in the same step:
`async_call` is `SendText`, or the exception it throws when there is no connection; a frame that arrives is a
response (`Response`) or anything else (`OtherFrame`). A call is named by its number, and its request too:
`tx`, `carried` and `wire` follow a request through the write state's queue, its hands and the network
(`0` is a frame that was moved from, as in `QueueImpl`). The peer has a request while the write still waits for its
completion (`Received`), so a response may be read first. `call_handlers_` is a function of the id with `0`
for no entry. Ids are taken modulo `IdModulus`, for 2^64, from `FirstId`, for the value of the
uninitialised `request_id_`; there are fewer calls than ids. A frame with neither result nor error completes its
call with a code, and so is a response as well. An exception in `on_rx` (a method without `params`,
an id that is no integer) is a read that ends with an error, as in `WebsocketState`.

### RequestMap

A request is the number of its call; its id is its place in `issued`. `outstanding_` is keyed by
`Key(id)`: the map's key is an `int` and the ids are 64 bits wide, so `KeyModulus` stands for 2^32.
The continuation that sends a frame may throw, in `notify_autenticated` at any of the held-back
requests. Posting a completion is taken as completing it.

## 3. The runs

### Passing

| run | states | what it shows |
|---|---|---|
| `queue` | 79 225 | `PopsAccounted`, `NoLostWakeup`: the handler slot has one owner, each pop completes once and in turn, no waiting pop is left without a task that completes it. `PopsAnswered`: an outstanding pop ends once there is news. `MailboxSpec`: the queue implements the mailbox in the order of the calls, so values are delivered first in, first out, and a stop discards exactly what came before it. |
| `join` | 3 974 | `WaitAccounted`, `CancelIsFinal`: one result per wait, the first cancel decides. `OkMeansTriggered`: a handler called with success may call `events()`, when it runs and not only when it was posted, however often events were set and unset before; `withdrawn` records the two cases in which an event is unset too late for that. `LatchSpec`: no wake-up is missed and no result lacks its cause. |
| `event` | 3 643 | `WaitAccounted`, `LatchSpec`: one result per wait, no wake-up missed, no success after a cancel. |
| `handler` | 592 037 | `OnePlace`: a handler is called once at most, whatever its body does to the slot it came from. `ObjectsBalanced`: its C++ objects are destroyed exactly once each, but for one that an invoked heap-allocated handler leaves. `CountExact`: the contexts count the guards of handlers that are somewhere, and no others. `GuardsKeepRunning`: the executors of a stored, posted or running handler have not stopped. |
| `frames` | 627 | `PopAccounted`: a pop or frames are stored, never both, and each pop is answered at most once. `PopsAnswered`: it is answered if frames are queued when it starts, or a frame is pushed or the pops are cancelled while it waits. The last two leave no trace in the queue, so the property counts these calls. |
| `connect` | 124 | `HooksOwned`, `NothingStartsAfterCancel`, `CancelEnds`, `CancellableSpec`: a cancel at any stage reaches the operation in progress, no other is started, the connect ends and does not succeed. |
| `json_rpc` | 180 736 | Of the websocket: `OneWakeup`: each suspended coroutine has exactly one thing that will resume it. `ConnectedMeansForked`, `ConnectAgreesWithRun`, `SenderHasWriter`, `SignalSpec`: client and run agree. `CloseEndsRun`, `CancelledWriterStops`: a close, or a cancel, takes effect; a close is heard at any time but in the window named below. Of the calls: `CallInOnePlace`: in the table under the id its request carries, or given one result. `OwnResponse`: its own response, or an error. `RequestsAccounted`: no request is sent twice, and none whose call was refused. `CallsAnswered`: a request that has reached the peer is answered, or the connection ends. |
| `requests` | 52 517 | `RequestAccounted`: every handler is in one place and none completes twice, with colliding keys and sends that throw. `NoneLostSilently`: a handler is lost in two ways only, with a held-back request that is dropped unissued when a send before it throws, or to one in flight with the same key. `ResponseMatches`: a response completes a request of its own key, so of its own id while ids fit the keys. `PrivateInOrder`: held-back requests go out in the order of the calls. |

The types of the event, the frame queue and the request map, and `NoSuccessAfterCancel` of the event, are
in no run: they are proved (section 4).

### Violated: where the code and its own words disagree

| run | what the code does |
|---|---|
| `queue_stop` | `stop()` is documented to make all later waits fail; only the first does (`async_queue_impl.hpp:164` clears the error). |
| `frames_order` | `async_pop` moves the front frame out and does not remove it (`queue_impl.hpp:61`): frames behind it are never sent, empty ones are. |
| `websocket_join` | The join of the forks is started and not awaited (`websocket_state_impl.hpp:310`): the run returns while they live in its frame. |
| `websocket_read_error` | On a read error while a frame is being written `write_state.cancel()` calls an empty `std::function`, and the close state is not cancelled. |

Further disagreements are visible in the models; the passing properties are stated with the condition
that sets them apart.

* After `unset_event()` a wait on a join in state complete succeeds although an event is missing
  (`async_join_impl.hpp:275`); `events()` in its handler would fail its assertion. So would it if the event is
  unset while the success is on its way to the handler. `OkMeansTriggered` says `~withdrawn`, which is these two cases.
* A heap-allocated handler's moved-from object is not destroyed when the handler is invoked
  (`poly_handler.hpp:127` frees the memory, and `destroy()` then finds nothing), against "invoke implies
  destroy" at `:245`. `ObjectsBalanced` counts that object: one per invoked handler of the kind.
* Where `co_spawn` posts, a `close()` between the fork and the first step of the close state is dropped.
  `closeCalled` leaves out a call in that window and no other; `CloseEndsRun` is about it.
* After the peer has closed and the run has returned, `send_text()` still finds its hook
  (`websocket_state_impl.hpp:560`); this follows from the missing join. The
  frame goes to the write state's queue, which its coroutine still owns; the step that takes it from there
  touches the destroyed `write_state` (`Orphaned`).
* Calls in flight when the connection ends are never completed, as the table of calls is looked at only when a
  frame arrives (`json_rpc/websocket_state_impl.hpp:86`), and the guards in their handlers keep the executors
  running. `CallsAnswered` says `~Unanswered \/ Ended`. A call made after the run has returned may be
  accepted all the same, by the hook that was left set.
* A request that is queued behind another never reaches the peer, as the frame queue keeps its moved-from
  front (`frames_order`). `CallsAnswered` speaks of the requests that did.
* `outstanding_` is keyed by `int` (`request_map.hpp:106`), so once 2^32 ids have been given out `emplace()` may find
  the key of a request still in flight, and the new handler is destroyed uncompleted; a response then completes the
  request that has the key. `NoneLostSilently` and `ResponseMatches` allow this and nothing beyond it.
* A send that throws in `notify_autenticated` (`request_map.hpp:91`) takes the handlers of the requests behind it down
  with the vector they were moved to, uncompleted. `NoneLostSilently` says that these requests get no id.
* A second `close()` before the close state resumes sets its latch again, against the assertion at
  `async_join_impl.hpp:342`. In the release build nothing more happens: `OneWakeup` holds through it.
* A response to no request is documented to throw (`request_map.hpp:71`); it is logged
  (`RespondUnmatched`).

### Bounds, and why they are enough

* `MaxPushes = 4`, `MaxPops = 3`, `MaxStops = 2`, and the destructor's stop: values on every
  stage of the pipeline at once (delivered, posted, stored, in a task), a pop that fails between two
  that get values, a second stop before the first is reported.
* `MaxWaits = 3` with two events and `MaxUnsets = 2` for the join: a wait before, between and after
  the events, one rejected because another waits, an unset after the join is complete.
  The event allows four waits.
* Two slots, three handlers, two contexts and two free guards: a handler that assigns to its own slot while the
  other slot is moved into it, nested invocations, a handler with guards for two contexts posted to one of
  them, guards assigned to each other and to themselves, a context that stops while the other runs. Slots
  and free guards are symmetric; every property of the run is an invariant.
* Three calls, four ids and `FirstId = 2`: the counter overflows at the second call, one call is written while a
  second is queued and a third waits for its response, and one id belongs to no call.
* `Depth = 4` is the source's own number of layers. Three runs: a run after a cancelled one and after a
  successful one, that leftovers of either would disturb.
* Four requests and three keys: the first three ids have keys of their own and the fourth collides
  with the first, and an id that was not issued yet can be answered in both cases.
* `WebsocketState` needs no bound: its state is finite, and reads, writes, frames and
  calls of `close` are unlimited. Under `JsonRpcState` each `send_text` is a call, so there are three;
  the runs `websocket_join` and `websocket_read_error` are of the websocket alone.

`CHECK_DEADLOCK FALSE` stands in the configurations of systems that stop when the client's calls are
used up, or whose run has ended.

### Fairness

* An executor runs what was posted to it: weak fairness of tasks, completions and coroutine steps. The
  queue stores work guards with each handler (`guarded_handler`), which keep both executors running while
  a pop is pending. Join and event assume no fairness: what they owe a wait they do in one step, the post of
  its result, and `LatchSpec` says when.
* A call of `async_pop` that has begun returns: weak fairness of `PostCheck`.
* A cancelled operation ends: the contract of Boost.Asio. In `ConnectChain` it is weak fairness of
  `OperationEnds` once cancelled, never of an operation that nobody cancelled, which may wait
  for its peer for ever. In `WebsocketState` it is weak fairness of the end of a connect after a close
  request, which `CancelEnds` shows of the chain.
* A peer that was sent a close frame answers it (`PeerCloses`), even if frames come first and so the read is
  under way again and again: strong fairness. This one is an assumption about the peer; Beast's close timeout stands behind it.
* A peer that has received a request goes on sending frames while it is unanswered (weak fairness of a read that
  ends with a frame), and the response is among them in the end (strong fairness of `Response`): `PeerFairness`, an
  assumption about the peer that only `CallsAnswered` rests on.
* The client is under no obligation: no fairness is assumed of its calls.

## 4. What is proved

TLAPS proves the following for every value of the constants: any number of pushes, pops, stops, waits,
runs, calls and requests, any set of events, of error codes, of handler slots and of contexts, any number of
handlers, any finite set of guards, any number of keys, any first id, any depth of the nest of connect states. The only
assumptions are the named ones on the constants: bounds are natural numbers, the error codes of callers
differ from the codes the model uses itself, the nest has at least one layer, there are fewer calls than
ids, the set of free guards is finite, handlers are small or big, and the default executor's context is one of the
contexts.

| module | theorems |
|---|---|
| `AsyncQueueProofs` | `TypeCorrect`, `PopsCompleteOnce`, `WakeupsKept`, `ImplementsMailbox` |
| `AsyncJoinProofs` | `TypeCorrect`, `OneResultPerWait`, `TriggerNotMissed`, `FirstCancelWins`, `EventsReadable`, `ImplementsLatch` |
| `AsyncEventProofs` | `TypeCorrect`, `OneResultPerWait`, `NoMissedWakeup`, `CancelBeatsSet`, `ImplementsLatch` |
| `PolyHandlerProofs` | `WorkIsCounted`, `GuardedContextRuns` of guards alone; `TypeCorrect`, `HandlersInOnePlace`, `ObjectsReleasedOnce`, `ContextsCountWork`, `GuardedHandlersRun` of handlers |
| `QueueImplProofs` | `TypeCorrect`, `PopsInOnePlace` |
| `JsonRpcStateProofs` | `WebsocketTypes`, `ResumedOnce`, `SenderRefersToWriter`, `ConnectMatchesRun`, `ForkedWhenConnected`, `SignalIsLatch` of the connection; `CallTypes`, `EveryCallHasOnePlace`, `ResponsesGoToTheirCalls`, `RequestsInOnePlace`, `CallsKeepTheWebsocket` of the calls |
| `RequestMapProofs` | `TypeCorrect`, `HandlersInOnePlace`, `PrivateRequestsInOrder`, `LossIsNoticed`, `ResponsesMatch` |
| `ConnectChainProofs` | `TypeCorrect`, `HooksMatchFrames`, `CancelReachesOperation`, `ImplementsCancellable` |

Each module has one inductive invariant `IInv` (`JsonRpcStateProofs` has a second one, `WsInv`, of the connection,
and `PolyHandlerProofs` one of guards alone, `AloneOK`), a lemma that the initial states satisfy it and one that
every step preserves it.

* **Queue**: `TypeOK /\ HandlerAccounted /\ CompletionsInOrder /\ NoLostWakeup`. None is inductive alone:
  that a posted completion finds its handler needs the count of pops against completions, and that a
  check is still under way needs to know when the pop it is for was started. Completing a pop is one
  lemma (`CompleteStep`), used by all three tasks through `MaybeCompleteStep`.
* **Queue as a mailbox**: the mailbox's box is `Pushed(values_) \o Sent(tasks)`, the values held and behind them
  what the tasks in the executor's queue will bring; `Sent` leaves the checks out. A call appends to `tasks` and so to
  the box; the task that brings a value, and one that only checks, leave the box as it is (`PushMaps`, `CheckMaps`); a stop is
  the first in the box behind the values it clears, which is where the mailbox lets it take effect (`StopMaps`). The answers
  are the completions called and the one posted, so running a posted completion is no step of the mailbox.
  `Sent` is a recursive function; that it gives `Append` for an appended task, and one message less for a task taken, is
  proved from the least index at which it would not (`LeastIndex`, which rests on the library's `WFMin`).
* **Join**: `TypeOK /\ WaitAccounted /\ NoMissedTrigger /\ CancelIsFinal /\ OkJustified`. `OkJustified`
  is needed for `EventsReadable`: success is decided when the result is posted and must still be
  justified when the handler runs, so the events stay set in between, and while the join is complete, or an unset
  has set `withdrawn`.
* **Event**: `TypeOK /\ WaitAccounted /\ StoredMeansUntouched`. The last part is what makes a pending wait
  and a past `set_event` or `cancel` exclude each other, without which no step maps to a step of the latch.
* **Connect states**: `TypeOK /\ HooksOwned /\ NothingStartsAfterCancel /\ CancelRecorded`.
  `CancelRecorded`, that after a cancel every frame which still exists has recorded a code, is what
  `error_check` relies on: an operation that succeeds too late is stopped by its own layer, and every later
  one would be stopped by the layer above.

* **Work guards**: the count equals the number of guards and tasks, and a context that has stopped has no guard.
  The second needs the first: a context stops when its count is one, and only the count says that the last
  guard is the one that goes. An operation on guards changes the work of a context by as much as the number of
  guards that refer to it (`GuardsCounted`), whatever else the context counts, so the lemma serves here for `GuardSpec`
  and in `PolyHandler` for the free guards.
* **Handlers**: `Types /\ Once /\ Staged /\ Objects /\ TaskRuns`, with the counts. `Staged` is the life of a handler,
  from a slot to a completion and from either to a call, which it makes once; it is what keeps a handler that is
  moved, posted or replaced inside its own body in one place. `Objects` is `ObjectsBalanced`, and that a handler has
  one of the two sizes from its assignment on. `CountExact` and `GuardsKeepRunning` are proved together
  and need both: a handler in two places would be counted twice, and a context stops when its count, which must be exact,
  comes to zero.
* **Frame queue**: `TypeOK /\ OneAtATime /\ PopAccounted`: that no pop starts while one is outstanding is
  what keeps the stored handler and the posted completion apart.
* **Websocket**: `WsInv` says for each of the four coroutines what will resume it: a handler in a latch, an
  operation, or a place in the ready queue, where nobody is twice. This is the set of `OneWakeup` as a choice of
  one, and each action moves one coroutine from one place to another. Two parts are about the order in the queue:
  the posted first steps of W and C are ahead of the news for K, without which `connect()` could return before
  they ran (`ConnectedMeansForked`), and an `ok` for K is in the queue only if the run connected. Nothing is asked of
  the queue once a destroyed object has been used, as no step follows.
  The signal is a latch because K, waiting or told, has exactly one result to come, which the invariant says is `ok` or
  an error and agrees with what the signal was set or failed with.
* **Calls**: ids that differ. Two calls have the same id only if a whole round of ids lies between them, which
  there are too few calls for; so an entry under an id is that of one call, and a response finds it or
  nothing. The id of the n-th call is written out as a sum modulo `IdModulus` in the invariant.
* **Requests**: `TypeOK /\ Apart /\ Ordered`. The count of `RequestAccounted` is proved from a partition: the
  places are disjoint, hold each request once and together hold all of them. Issuing requests, one or all that
  were held back, is one lemma (`IssueHolds`), whatever keys collide. `Ordered` says what `PrivateInOrder` does
  not: before the authentication no private request has been issued, after it none is held back.
  `LossIsNoticed` and `ResponsesMatch` rest on `Keyed`: an entry is that of a request whose id has its key. Whether or
  not `emplace()` stores a request, its key is in the map afterwards (the first of those issued with it that has the
  key was stored, unless the key was there before), so `Keyed` names the one in flight it gave way to. Those dropped by a
  throw were not issued, by `Ordered`.

`CallsKeepTheWebsocket` shows that the JSON-RPC layer does to the websocket what `WebsocketState` allows, fairness
included, so the theorems of the connection hold under the calls as well.

`ImplementsMailbox`, `ImplementsLatch`, `SignalIsLatch` and `ImplementsCancellable` map each step to a step of
the abstract specification or to none; they cover safety, which is all the abstract specifications state.

Every invariant and every action property of the passing runs is a theorem, and every refinement. Only
model-checked: the liveness properties, `PopsAnswered` (of the queue and of the frame queue), `CancelEnds`,
`CloseEndsRun`, `CancelledWriterStops` and `CallsAnswered`. They rest on fairness, and the prover has no rules for
`ENABLED`.

## 5. What is not modelled

* Exceptions of a handler's move constructor, and `poly_handler`'s move assignment from an empty slot or to itself,
  which is undefined in the code.
* Restarting a stopped `io_context`, and one guard used by two threads at a time.
* A second run, or a second `connect()`, of one `websocket_state_impl`.
* Result and error types (values, whose outcomes `RequestMap` and `JsonRpcState` tell apart), printing, compile-time traits, the empty `json_rpc::stream`: no state that changes.
* Several threads calling one `io_context`'s queue without a strand, and destroying an object while a call on it
  is under way: outside what the source supports.

## 6. Plan

1. `AsyncQueue`, `AsyncJoin`, `AsyncEvent` with `Mailbox` and `Latch`; their proofs. Done.
2. `ConnectChain` with `Cancellable`; its proofs. Done.
3. `QueueImpl`, `PolyHandler`, `WebsocketState`, `RequestMap`. Done.
4. `JsonRpcState` over `WebsocketState`, `WorkGuard` under `PolyHandler`; proofs of both. Done.
5. Proofs of `QueueImpl` and `RequestMap`. Done.
6. Proofs of the safety invariants of `WebsocketState`. Done.
7. Proofs: the queue implements `Mailbox`; the safety of `PolyHandler` and the guards in it; the signal as a latch; the
   action properties of `RequestMap`. Done.
8. Proofs of what the liveness properties rest on and safety can say: in `QueueImpl` and `JsonRpcState`, that what is
   waited for has its cause in the state.
9. A second run of one websocket object.
