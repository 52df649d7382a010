# Verification project for kizzasi

TLA+ models of the stateful core of kizzasi (`src/crates/*`), model-checked with TLC, and theorems
about them checked with TLAPS. Paths below are relative to `src/crates/`; a line number is a line
of the file named in the same section.

Contents: 1 the system, 2 the modules, 3 the checks, 4 bounds, 5 fairness, 6 proofs, 7 where
code and documentation disagree, 8 what is not modelled, 9 what is left.

## 1. The system

Kizzasi predicts signals with autoregressive models (state-space models, RWKV, transformers). The
workspace has the numeric crates (`kizzasi-core`, `-model`, `-tokenizer`, `-logic`, `-embedded`,
`-webgpu`, `-metal`), the inference crate that drives a model (`kizzasi-inference`), the I/O crate
(`kizzasi-io`) and the facade with its services (`kizzasi`). Numeric work is sequential and over
floating point; the protocols are in `kizzasi`, `kizzasi-inference` and `kizzasi-io`, and in the
few places of the numeric crates where threads, files or a history of calls meet.

### Inventory

**Connection pool** (`kizzasi/src/pool.rs`). State: a deque of idle connections and statistics
behind one async mutex; a fair semaphore of `max_connections` permits. Operations: `acquire`
(permit, up to four rounds of idle-or-create and validate, account), `release` (validate, push,
permit), `shrink` with `ensure_min_connections`. Hard: the permit is *forgotten* when it is granted
and returned by hand on seven paths; the lock is released between popping a connection and counting
it, and a connection is made before the lock is taken to count it; a future may be dropped at every
await. Correct when: a connection has one owner; permits are neither minted nor lost; the statistics
say what the pool holds, but for a connection whose maker has not got the lock yet; live connections
stay within `max_connections`; whoever queues is served.

**Distributed predictor** (`kizzasi/src/distributed.rs`). State: per worker a health flag, a
pending count and a bounded channel; a round-robin counter; the installed guardrails. Operations:
`predict` (scan the flags, select by strategy, reserve a slot, send, await, settle, retry),
`set_guardrails`/`clear_guardrails` (broadcast), the worker tasks. Hard: flags and loads are read
one lock at a time and acted upon later; workers fail to start or panic with requests queued behind
the one they ran; retries; dropped futures. Correct when: the counts are the slots in use and never
miss a request; only dead workers leave rotation, and are not chosen again by a call that saw them
dead; a request runs under the guardrails it was sent under; every call returns.

**Model registry** (`kizzasi/src/versioning.rs`). State: versions with their strategies, the active
one, a canary, and the progress of a rolling deployment. Operations: `register`, `deploy`,
`promote_canary`, `rollback`, `remove`, `advance_rollout`, `set_rollout_instances`,
`select_for_request`. Hard:
a rollout is interrupted by other deployments and begun again. Correct when: what is active is
registered; a rollout never migrates more instances than it has, moves requests only forward, and
starts from none.

**Hot swap** (`kizzasi-inference/src/hotswap.rs`). State: active, staged and previous model, traffic
split and history, one `RwLock` each; an atomic request count per model shared by its clones.
Operations: `prepare_swap`, `activate` (immediate, graceful, gradual), `rollback`, `active_model`,
`select_model`, `acquire`/`release`. Hard: every method takes several locks one after the other and
uses what it read under an earlier one. Correct when: no model is lost on its way between the
fields; a candidate has one owner; the history replays to the active model; a graceful swap ends.

**Batch scheduler** (`kizzasi-inference/src/batch.rs`). State: pending and active requests with
their own hidden states, completed records, one engine. Operations: `submit`,
`submit_with_priority`, `step`, `process_all`, `set_model`, `reset`, `engine_mut`. Hard: the loop of
`step` swaps states in and out of the shared engine, removes finished requests under its own index
and may leave in the middle with an error. Correct when: states never mix; every request advances
one step per call and is returned after exactly its steps; nothing is lost or duplicated by an
error; the queue is ordered by priority and age; all requests complete.

**Version manager** (`kizzasi-inference/src/versioning.rs`). State: versions with a stability mark and
request statistics, the active one, the time of the last check. Operations: registration, recording
of requests, `run_health_checks`, fallback under four strategies. Hard: auto-recovery clears what a
judgement was made from. Correct when: a fallback never chooses the version that failed, and a
failed request is held against a version once.

**Speculative decoder** (`kizzasi-inference/src/speculative.rs`). State: a draft and a main model,
both recurrent, and snapshots of the draft. Operation: `generate`, in rounds of drafting, verifying
and rolling back. Hard: a snapshot off by one leaves plausible output. Correct when: the draft model
never keeps a token that was rejected, and the main model judges every position after exactly the
tokens before it.

**Streaming engine** (`kizzasi-inference/src/streaming.rs`). State: the engine behind an async mutex;
per batched stream a task with a batch, an adaptive target, a deadline, and a bounded channel to
its consumer; per transformer its buffer and timer. Operations: `predict_stream` (spawns the task),
`step_async` and its relatives, `set_model`, the stream transformers. Hard: the timer races the
inputs; the engine is locked across a send that waits for room; the consumer may leave; a
transformer's timer is only looked at when the consumer comes back. Correct when: predictions keep
the order of inputs with none lost; a full batch is never parked; everybody gets the engine; every
input is delivered; chunks, pauses and rates are what the transformers promise.

**MQTT adapter** (`kizzasi-inference/src/adapters/mqtt.rs`). State: the flag that stops it, the table
of callers that wait, the request channel of the MQTT client. Operations: `run`, `request`, `stop`.
Hard: `run` is the only one who empties the channel into which it publishes itself; answers are
matched by request id. Correct when: an answer reaches a caller that asked for it, nothing is left
in the table, every call returns and a stop ends the loop.

**MQTT client** (`kizzasi-io/src/mqtt.rs`). State: an active flag, a sample buffer, the batch of the
event-loop task, per connection a bounded request channel. Operations: `connect`, `disconnect`,
`publish`, `subscribe_all`, the task, `drain_buffer`, `read`. Hard: the task fills the channel it
alone empties; two tasks may live at once. Correct when: messages arrive in order and once; every
connection is subscribed again; tasks end.

**WebSocket stream** (`kizzasi-io/src/websocket.rs`). State: the connection, the backoff delay, a
local buffer. Operations: `next`, `fill_buffer`, `try_recv`, `close`, the ping task. Hard: connections
break with messages on their way; calls are dropped. Correct when: what is received is in order over
all connections and lacks only what went down with one; the delay doubles up to its limit.

**Multiplexer** (`kizzasi-io/src/multiplex.rs`). State: a buffer per stream, the index of the next.
Operations: `add_stream`, `push`, `next_sample`, `clear`, under four strategies. Correct when:
streams take turns and the samples of each come out in order, the earliest first under `TimeOrdered`.

**Lock-free structures** (`kizzasi-io/src/lockfree.rs`). `LockFreeRingBuffer` (two atomic
positions, an overwrite flag), `UnboundedQueue` (a segmented queue and a counter), `SignalQueue`
(a bounded queue, three loss counters). Every method is a sequence of atomic steps that others see
half done. Correct when: the ring is an overwriting FIFO queue; the counter settles to the length;
no sample vanishes without being counted.

**Embedded allocators** (`kizzasi-core/src/embedded_alloc.rs`). `FixedPool`, `BumpAllocator`,
`StackAllocator` and the `EmbeddedAllocator` that combines two: a buffer and one atomic each. Hard:
between the load of an offset and its swap others allocate and pop. Correct when: blocks in use are
disjoint and within the buffer.

**Trainer and checkpoints** (`kizzasi-core/src/training_loop.rs`, `training_checkpoint.rs`,
`metrics.rs`). State: weights, optimiser, metrics; a checkpoint of three files written in place.
Operations: `fit`, `train_epoch`, save, load, save the best. Hard: a crash or an error between two
files; epochs numbered twice. Correct when: what loads was a checkpoint.

**Gradient exchange** (`kizzasi-model/src/distributed.rs`). `ThreadedGradientSync` (a barrier of two
phases over one mutex and two condition variables) and `SharedGradientStore` with
`DataParallelModel::step`. Hard: a fast worker is in the next round while a slow one leaves the
last; gradients of the wrong length fail the round for all, but a mean whose buffers do not have the
lengths of the weights breaks off the update of rank 0 alone, with some buffers written. Correct when:
each round is one all-reduce, its mean is taken to the weights once, and what `step` returns tells each
rank what became of the round.

**LTL checker** (`kizzasi-logic/src/constraint/ltl.rs`). State: a bounded trace. Operations: push,
check, reset. Correct when: its verdict is the meaning of the formula on the trace it kept.

How they meet: the streaming engine and the batch scheduler each own one inference engine and appear
to it as callers under a lock (`StreamBatcher`) or as the single owner (`BatchScheduler`). The
adapter and the client meet the MQTT broker, each through a client library of its own. The other
parts are used by applications and share no state, so the composed modules put them side by side
rather than connect them; a part and the abstract specification it implements are composed by
refinement.

The remaining components are numeric, file formats, or wrappers of a library; `PROJECT.json` lists
each with its reason and section 8 groups them.

## 2. The modules

| Module | Models | Role |
|---|---|---|
| `LeasePool` | what a pool promises its callers | abstract specification |
| `ConnectionPool` | `kizzasi/src/pool.rs` | implements `LeasePool` |
| `ConnectionPoolProofs` | | theorems about `ConnectionPool` |
| `DistributedPredictor` | `kizzasi/src/distributed.rs` | |
| `ModelRegistry`, `ModelRegistryProofs` | `kizzasi/src/versioning.rs` | and its theorems |
| `ModelSwitch` | an atomic switch of active and remembered model | abstract specification |
| `HotSwap` | `kizzasi-inference/src/hotswap.rs` | implements `ModelSwitch` while operators do not overlap |
| `BatchScheduler` | `kizzasi-inference/src/batch.rs` | |
| `ModelVersions` | `kizzasi-inference/src/versioning.rs` | |
| `SpeculativeDecoder` | `kizzasi-inference/src/speculative.rs` | |
| `StreamBatcher`, `StreamTransformers` | `kizzasi-inference/src/streaming.rs` | batched streams; transformers that keep something |
| `MqttAdapter` | `kizzasi-inference/src/adapters/mqtt.rs` | |
| `MqttClient`, `WebSocketStream` | `kizzasi-io/src/mqtt.rs`, `websocket.rs` | |
| `Multiplexer` | `kizzasi-io/src/multiplex.rs` | |
| `OverwriteQueue` | a bounded FIFO queue that overwrites | abstract specification |
| `RingBuffer`, `RingBufferProofs` | `kizzasi-io/src/lockfree.rs` | implements `OverwriteQueue`, proved |
| `UnboundedQueue`, `SignalQueue` | the same file | |
| `EmbeddedAlloc` | `kizzasi-core/src/embedded_alloc.rs` | |
| `TrainerCheckpoint` | `kizzasi-core/src/training_*.rs`, `metrics.rs` | |
| `AllReduce` | a round in which all get the same mean | abstract specification |
| `GradientBarrier`, `GradientStore` | `kizzasi-model/src/distributed.rs` | both implement `AllReduce` |
| `LTLChecker` | `kizzasi-logic/src/constraint/ltl.rs` | checker against a reference definition |
| `MCServices`, `MCDistributed`, `MCServing`, `MCStreams` | | compose the parts for the passing runs |
| `ServicesProofs`, `SampleProofs` | | theorems about the parts of `MCServices`; the second has the parts that keep samples or the memory for them |
| `DistributedProofs`, `ServingProofs`, `StreamsProofs` | | theorems about the parts of `MCDistributed`, `MCServing` and `MCStreams` |
| `MCConnectionPool`, `MCBatchScheduler`, `MCStreamBatcher`, `MCMqttClient`, `MCEmbeddedAlloc` | | instances for the runs that end in a counterexample |

Conventions. Variables have the names of the fields they stand for. A `pc` variable says at which
await or between which two critical sections a task is; its values are explained where they are
defined. A variable marked *history* exists for a property only and guards nothing but a bound. A
definition whose comment begins "Mutant of" is a plausible bug in the definition that follows it and
is used by no specification: it shows that a property notices.

A composed `MC` module has a variable `unit`, chosen in the initial state and never changed: the
part that is at work in this behaviour. The others rest in an initial state. Safety properties are
stated for the part they are about, and fairness is of actions joined with `unit = …`, so the part
at work is exactly its own specification. Closely related invariants of a module are conjoined under
one name (`SlotsInv`, `SwapInv`, `SchedulerInv`, `AdapterInv`, `StreamInv`, …); each conjunct has a
definition and a comment of its own.

**ConnectionPool.** One step per critical section of the mutex or call of the factory. `acquire`:
`BeginAcquire` joins the queue of the semaphore, `GetPermit` takes and forgets the permit,
`AcquireTimeout` leaves the queue; `LookupExpired`, `LookupIdle` and `LookupNone` are the rounds of
`try_acquire_idle`; `CreateOk` (the factory answers) and `CountCreated` (the lock is taken to count),
`CreateErr`, `ValidateOk/Bad`, `Discarded`, `Account` and `CountFailure`
are the rest of the loop. `release`: `BeginRelease` to `ReleasePermit`. `shrink`: `BeginShrink`,
`ShrinkPop`, `ShrinkDone`, and for `ensure_min_connections` `CountLive`, `FillOk` (the factory
answers; the connection is `spare`), `FillPut` (under the lock it is queued and counted), `FillErr`.
`Cancel` drops a future of `acquire` or `release`: what it held goes with it. Whether an idle connection has expired, and
what the factory answers, are choices. `stats()` only reads.

**DistributedPredictor.** One step per lock of a flag or a counter. `Scan`, `Pick…`, `StartLoads`
and `ReadLoad` are `select_worker` for the three strategies; `Reserve`, `TrySendOk`, `TrySendErr`
are `send_request`; `Saturated`, `Closed`, `Mark`, `Receive`, `Settle…` the outcomes, with `Retry`
as the end of the loop body. `WorkerDies` drops the channel with its requests and thereby their
response channels. `Cancel` drops a call at one of its awaits; between the reservation and `try_send`
there is none. `BeginBroadcast`, `BroadcastSend` and `BroadcastFails` replace the guardrails;
they need `&mut self`, hence no running `predict`. A prediction is its outcome, a guardrail set its
version.

**ModelRegistry.** One step per call. A request is its hash modulo 10000; the canary test takes it
modulo 100, the rolling test compares it with the migrated share, a rational in the model.

**HotSwap.** One step per lock. `TakeStaged` and `ReadActive` begin `activate`; `Drained` and
`DrainTimeout` are the polling loop; `WritePrevious`, `WriteActive`, `ClearSplit`, `Restage`,
`WriteSplit`, `Record` the rest. The lock of the split is tokio's fair queue: `QueueSplit` puts a
writer in it, and readers that come later wait (`WriterQueued`). `TakePrevious`, `RollbackRead` and
`RollbackWrite` are `rollback`. A request selects (`ActiveModel` or `SelectModel` to `SelectDraw`),
counts itself in (`Acquire`) and out (`Release`). The weighted draw is a choice among entries of
positive weight. `overlapped` records whether two operators were ever at work at once.

**BatchScheduler.** One step per call, but one per turn of the loop of `step`, so that an error
between two turns leaves what it leaves: `StartStep` forms the batch, `Advance` and `Fail` are a
turn, `EndStep` returns. A hidden state is the model it belongs to, the set of requests whose input
it saw, and how many. Forming a batch that is not due models `max_wait_ms`.

**ModelVersions, SpeculativeDecoder, TrainerCheckpoint, Multiplexer, LTLChecker.** One owner each.
`ModelVersions` has a step per method (each is one critical section). The decoder's steps are one
token drafted, one candidate verified, the extra token, the end of the round, and an error of a
model in any of them; a model's state is the sequence it consumed. The trainer's steps are an epoch,
one file of a save (`WriteFile`, `WriteFails`), `Load`, `Crash` and `Restart`; weights and moments
are tags of the training they come from. A sample of the multiplexer is its timestamp. The LTL
module has the checker as the code walks the formula, and as a reference the set of positions at
which a formula holds; `Nested` builds the formulas level by level, and functions over them
(`CheckFormula`, `CountViolations`, `Where`) take the place of the code's recursion.

**StreamBatcher.** `TakeInput`, `Deadline` and `SourceEnds` are the branches of `select!`;
`LockEngine`, `StepInput`, `Send`/`SendFails` and `Processed` are `process_batch` and what follows
it. `Tick` lets the deadline pass. `Receive`, `ReceiveEnd`, `DropStream` are the consumer; `Want`,
`UserLock`, `UserUse` any other method that locks the engine.

**StreamTransformers.** `BufferItem`, `DebounceItem` and `ThrottleItem` read an item;
`DebounceTick` and `ThrottleTick` are a tick of `tokio::time::interval`, which catches up with missed
ticks (`Burst`) or skips them (`Skip`); `Flush` and `Close` are the end. They move only while the
consumer waits (`Poll`), as an `async_stream` does. Time is the time until the next tick.

**MqttAdapter, MqttClient, WebSocketStream.** One step per await. The client library and the broker
are external: a bounded channel that only polling empties, connections that break, a broker that
forgets the subscriptions of a clean session. `Run` (adapter) and `Loop` (client) are the polling
loops; `Register`, `Publish`, `Return`, `Cancel` a call of `request`. `WebSocketStream` has the loop
of `next` and `fill_buffer` as `Loop`, `DialOk/Err`, `ReceiveData`, `ReceiveOther` and `Pong`; a
broken connection loses the last of its frames (`Break`).

**RingBuffer, UnboundedQueue, SignalQueue, EmbeddedAlloc.** One step per atomic access.
`RingBuffer!Write` takes `&mut self` and is one step; `read` takes `&self` and is three. `SegQueue`
and `ArrayQueue` of crossbeam are external and taken as linearizable queues.

**GradientBarrier, GradientStore.** One step per critical section or wait; a sleeper wakes when it
is notified or spuriously. A gradient of the barrier is who brought it, in which round, and its
length; a list of the store adds which of its buffers, if any, has not the length of its weight
(`Odds`). `Apply` is `sgd_step` under the write lock of the weights: it writes buffers up to the first
that does not fit (`Landed`), and then returns the error to rank 0. The history `errors` has the
rounds in which `step` returned an error to a rank.

## 3. The checks

Runs that pass:

| Run | Parts | Shows |
|---|---|---|
| `services` | pool and predictor with dropped futures, ring, counted queue, signal queue, allocators, decoder, trainer, multiplexer, LTL checker, version manager | `TypeOK`, `Ownership`, `PermitsConserved` (pool); `SlotsInv`, `DeadNotRetried`, `ServedUnderSet` (predictor); `QueueContract`, `CountSettles`, `LossesCounted` (queues); `AllocInv`, `DecoderInv`, `CheckpointInv`, `LTLInv`, `VersionsInv`, `MuxContract` |
| `dist_live` | pool and predictor without dropped futures, both gradient exchanges, WebSocket stream | `StatsExact`, `LiveWithinMax`, `LeaseContract`, `WaitersServed` (pool); `ExchangeInv`, `ReduceContract`, `StoreContract` (exchanges); `SocketInv`; `AllReturn`: every call of predictor and exchanges returns, and what arrives at the WebSocket is received |
| `serving` | hot swap, batch scheduler, model registry | `SwapInv`, `NoModelLost`, `SwitchContract`, `OperatorReturns` (swap); `SchedulerInv`, `StatesOwn`, `AllComplete` (batch); `RegistryInv`, `TrafficShifts` (registry) |
| `streams` | prediction stream, its transformers, MQTT adapter, MQTT client | `StreamInv`, `UserReturns`, `AllDelivered` (stream, transformers); `AdapterInv`, `CallsEnd` (adapter); `ClientInv`, `TasksSettle` (client) |

They have about 1.51 million, 119 thousand, 309 thousand and 106 thousand distinct states. Each property is
stated in a comment above its definition, in the module of its part. For each property of these
runs `PROJECT.json` names a mutant of the code's translation that breaks it.

What the names stand for where one name bundles several:

* `SlotsInv`: the pending counts are the slots in use, never fewer than the requests in flight, and
  a worker that is out of rotation is gone.
* `SwapInv`: request counts are exact, a candidate has one owner, and (until two operators overlap)
  the history replays to the active model.
* `SchedulerInv`: no request is lost or returned twice, each is advanced once per `step`, the queue is
  in order, and what ended is returned unless a later engine step failed.
* `StreamInv`: predictions in the order of inputs, no full batch parked; the transformers keep order,
  chunks are full, a debounced item follows a pause, a throttled stream has one item per period.
* `SocketInv`: order over all connections, what is missing went down with one, the delay is exact.
* `ExchangeInv`: the fill and drain phases of the barrier never overlap; the ranks of the store are
  in lock step, each mean is taken to the weights once, and what `step` returns tells each rank what
  became of its round (`Reported`): an error on all ranks if it failed and nothing is written, an error
  on rank 0 alone if the update broke off, and Ok otherwise.
* `ClientInv`, `AdapterInv`, `DecoderInv`, `CheckpointInv`, `AllocInv`, `VersionsInv`, `LTLInv`,
  `MuxContract`: the sentence "Correct when" of section 1 in the form their modules give it.

Runs that end in a counterexample, each a disagreement of section 7: `pool_max`, `dist_leak`,
`batch_returned`, `stream_stuck`, `client_dark`, `alloc_overlap`, `draft_behind`, `best_lost`.

Conditions in the statements. `LiveWithinMax` is in a passing run with `min_connections = 0`, where
`ensure_min_connections` creates nothing; `pool_max` has the case where it does. `StatsExact` is
checked without dropped futures: one dropped after its connection left the deque leaves it counted
as created for ever. It leaves out the connection the factory has just handed over, until the lock is
taken to count it (pcs `made` and `put`). `ServedUnderSet` excepts broadcasts that were cut off, `NoModelLost` excepts a
refused percentage (`activate` takes the candidate before it looks at the percentage,
`hotswap.rs:333`), `HistoryReplays`, `NoModelLost` and `SwitchContract` hold until two operators
overlap, and `StatesOwn` and `ReturnedUnlessFailed` except requests a failed engine step has
touched. `AnswersOwn` is about ids nobody else uses at the time, `CallsEnd` excepts the adapter that
waits for room only itself can make (section 7). `Interleaves` needs weights that are not zero.
`PoolCounted` holds until `dealloc` of the pool is given a block of the bump allocator.
`CHECK_DEADLOCK FALSE` is set where the system really stops: a stream that has ended, and parts
whose bounds are used up.

## 4. Bounds

| Bound | Value | Why it is enough |
|---|---|---|
| pool with liveness: callers / permits / connections / calls | 3 / 1 / 2 / 3 | a queue forms behind one permit; a connection is destroyed and another created. Its lease properties are proved for every value |
| pool with dropped futures: callers / permits / connections / calls | 2 / 2 / 3 / 3 | a permit and a connection go with a future while another caller and a shrinker are at work |
| pool: validation attempts | 2 (4 in the code) | one round that retries and one that gives up |
| predictor: callers / workers / room | 2 / 2 / 1 | both callers on one worker saturate it, and a dead worker leaves another |
| predictor: calls, attempts, updates, counter | 2, 2, 1, 4 values (2^64 in the code) | a call after a failure, one retry, a broadcast between calls; the counter wraps. With liveness only random selection, which allows what the other two choose |
| barrier: threads / lengths / calls | 3 / 2 / 2 | two fast threads in the next round while a third leaves the last |
| store: ranks / lengths / steps | 3 / 2 / 2 | a rank pushes its next list while another has not read the mean |
| store: odd buffers | 0 (none), 2 | the second buffer of a mean does not fit, when the first has landed |
| WebSocket: buffer / fill / messages / faults / failures | 1 / 2 / 3 / 1 / 2 | a fill that stops at the buffer's capacity, a connection lost between buffered and later messages, a delay that reaches its limit |
| swap: operators, requests, ids, loads, swaps | 2, 1, 2, 2, 2 | two overlapping activations of the same id and of different ids, over a request; a rollback follows an activation |
| swap: percentages | 50, 100, 101 | some, all, refused |
| batch: batch / steps / requests / models / failures | 2 / 2 / 3 / 2 / 1 | a third request joins a batch that runs; the model changes between two steps of one |
| registry: versions / percentages / batch sizes / totals / requests | 3 / 50, 101 / 0, 5 / 4 / 3 | a rollout interrupted by a third version and begun again; a batch as large as the fleet and one of none; hashes at both ends and in the middle |
| stream: batch / buffer / inputs / calls | 2 / 1 / 3 / 1 | the target changes, the channel fills in the middle of a batch |
| transformers: chunk / period / inputs / late | 2 / 2 / 3 / 3 | a full and a partial chunk; more than one tick missed |
| adapter: callers / ids / room / requests / faults | 2 / 2 / 1 / 2 / 1 | equal and different ids, a full channel, one lost connection |
| client: topics / room / batch / sessions / events | 1 / 2 / 2 / 2 / 2 | two tasks at once; a batch that is full and one that is not |
| ring: capacity, items | 3, 7 | the positions wrap twice |
| counted queue: threads, items, width | 3, 5, 3 bits | the counter goes below zero and back |
| signal queue: capacity, batch, samples, blocks | 2, 2, 5, 1 and 3 | a block longer than the queue; a batch that fills while it is read |
| allocators: threads / blocks / pool | 2 / 3 / 16 bytes in blocks of 5 | a pop and an allocation between a load and its swap |
| decoder: draft length / tokens asked / calls / errors | 2 / 2 / 2 / 1 | none, some and all accepted, an error inside a round, a call after it |
| trainer: epochs / trained / fits / saves / faults | 2 / 3 / 2 / 2 / 1 | an overwritten checkpoint that is interrupted; a fit after a load |
| multiplexer: streams / buffer / stamps / pushes / reads | 3 / 2 / 2 / 4 / 3 | a full buffer, late and equal stamps, a stream added between two reads; weights 0, 1, 2 |
| LTL: atoms / trace / nested operators | 2 / 3 / 2 | every operator over every operator, on the left, on the right and on both sides; a trace that is full |
| versions: releases / requests / checks | 2 / 3 / 2 | a second check after auto-recovery |

Each bound is a constant named in its module's CONSTANTS with the word *bound*.

## 5. Fairness

* Pool: weak fairness of a task inside `acquire` or `release`. The runtime polls a task that can
  run, the factory answers, and a caller releases what it got. The semaphore is first come first
  served, so the head of its queue stays enabled. No timeout, new call or shrink is forced.
* Predictor: weak fairness of a call, of a worker (which answers or dies) and of the broadcast. A
  worker whose predictor could not be created ends. No failure is forced.
* Gradient exchanges: weak fairness of each thread's next step, its next call included, since a round
  ends only when all have come. A sleeper has no step before it was woken, so fairness does not make
  good a forgotten notification; spurious wakeups are not forced.
* Hot swap: weak fairness of every operator and every request that has begun. That suffices for the
  write lock of the split since a queued writer stops new readers, and for draining since its
  60-second deadline passes.
* Scheduler: weak fairness of `step` alone, which is what the loop of `process_all` does. Nothing
  forces a failure, and failures are bounded.
* Stream: weak fairness of time, of the task and of a consumer that keeps reading; strong fairness
  of taking the mutex, which is a first-come-first-served queue. Nobody is forced to call, or to
  drop the stream. Transformers: weak fairness of time, of a consumer that keeps reading, and of
  the transformer.
* Adapter: weak fairness of the loop of `run` and of a call's own steps, including its timeout.
  Client: weak fairness of the owner inside `disconnect` and of each task.
* WebSocket: the owner comes back to `next` and is handed a frame that keeps arriving (strong
  fairness: it may call other things, or drop the call, any number of times in between); weak
  fairness of what the call does by itself. No attempt is forced to fail, and failures in a row are
  bounded.

## 6. Proofs

Every invariant, action property and refinement of the passing runs is a theorem: TLC shows it on
the small instance of section 4, the proof for every value of the constants that satisfies the
assumption of the part's module. A composed module joins the assumptions of its parts
(`ServicesAssumption`, …). `AllSpec` and `AllFair` are its specifications; only the part at work
moves, so a theorem about one part is the theorem of that part's own specification, and
`HotSwapCorrect`, `BatchCorrect`, `BarrierCorrect`, `StoreCorrect`, `StreamCorrect` and `RingIsQueue`
state it in that form as well.

| Module | Theorem | States | Inductive invariant |
|---|---|---|---|
| `ConnectionPoolProofs` | `PoolTypeCorrect`, `PoolOwnership`, `PoolPermits` | `Spec => []TypeOK`, `[]Ownership`, `[]PermitsConserved` | `PoolInv` |
| | `PoolRefinesLease` | `Spec => LeaseContract`, a refinement | `PoolInv` |
| | `PoolStatsExact` | `Spec => []StatsExact`, if futures are not dropped | `CountsInv` |
| | `PoolLiveWithinMax` | `Spec => []LiveWithinMax`, if `MinConnections = 0` | `RoomInv` |
| `ModelRegistryProofs` | `RegistryConsistent` | `Spec => []RegistryInv` | itself |
| | `RolloutMovesForward` | `Spec => TrafficShifts`, an action property | `RegistryInv` |
| `RingBufferProofs` | `RingIsQueue` | `Spec => QueueContract`, a refinement, with one reader | `RingInv` |
| `ServicesProofs` | `SlotsExact`, `RulesServed` | `AllSpec => []SlotsInv`, `[]ServedUnderSet` | `PredictorSafe` |
| | `DeadLeftAlone` | `AllSpec => []DeadNotRetried` | `PredictorSafe` |
| | `RejectedNeverKept` | `AllSpec => []DecoderInv` | `DecoderSafe` |
| | `CheckpointsWhole` | `AllSpec => []CheckpointInv` | `TrainerSafe` |
| | `FallbacksCorrect` | `AllSpec => []VersionsInv` | `ManagedSafe` |
| `SampleProofs` | `RingBufferIsQueue` | `AllSpec => QueueContract`, a refinement, with one reader | imported |
| | `QueueCountSettles` | `AllSpec => []CountSettles` | itself, with the types |
| | `NoSampleUnaccounted` | `AllSpec => []LossesCounted` | `SignalSafe` |
| | `BlocksDisjoint` | `AllSpec => []AllocInv` | `AllocSafe` |
| | `StreamsTakeTurns` | `AllSpec => MuxContract`, an invariant and an action property | `MuxSafe` |
| | `VerdictIsMeaning` | `AllSpec => []LTLInv` | `LtlSafe` |
| `DistributedProofs` | `ExchangesCorrect` | `AllFair => []ExchangeInv` | `BarrierInv`, `StoreInv` |
| | `BarrierIsAllReduce`, `StoreIsAllReduce` | `AllFair => ReduceContract`, `StoreContract`, refinements | the same |
| | `SocketCorrect` | `AllFair => []SocketInv` | `SocketSafe` |
| `ServingProofs` | `SwapCorrect`, `SwapLosesNoModel` | `AllFair => []SwapInv`, `NoModelLost` (an action property) | `HotSwapInv` |
| | `SwapSwitchesAtomically` | `AllFair => SwitchContract`, a refinement | `HotSwapInv` |
| | `SchedulerCorrect`, `StatesIsolated` | `AllFair => []SchedulerInv`, `[]StatesOwn` | `BatchInv` |
| `StreamsProofs` | `StreamsKeepOrder` | `AllFair => []StreamInv` | `StreamSafe`, `TransformSafe` |
| | `AnswersReachTheirCaller` | `AllFair => []AdapterInv` | `AdapterSafe` |
| | `SamplesKeptInOrder` | `AllFair => []ClientInv` | `ClientSafe` |

Assumptions. They say that sets of tasks are finite, that numbers are natural, and that a marker for
"none" (`NoConn`, `NoVersion`, `NoModel`, `NoOne`, `NoBest`, `NoFile`) is not one of the things it
stands in for. Beyond that:

* Pool: `max_connections` is at least `min_connections`, and there is at least one validation attempt.
* Registry: percentages are bytes, requests are hashes below 10000. Hot swap: percentages are bytes.
* Ring: a capacity of at least 2 (a ring of one slot never holds an item). `RingIsQueue` and
  `RingBufferIsQueue` assume one reader: two may return an item twice.
* Counted queue: fewer items than the counter can count. Allocators: a counter wider than the pool.
* Adapter: there is at least one id, and room for one message. Client, stream, multiplexer,
  WebSocket, signal queue: buffers, batches and channels hold at least one item.
* Gradient store: at least two ranks; with one there is no store (`kizzasi-model/src/distributed.rs:900`).
* Trainer: the name of the best checkpoint is one of the names, and every epoch has a batch.

The *bounds* of section 4 are constants too; the theorems hold for every value of them, so nothing
proved depends on how many calls, faults or messages there are.

Each proof has the same shape: constants' types, the initial states, one lemma per action (or group of
actions that touch the same conjuncts), a lemma that the invariant implies the property, and a last
step in temporal logic. What the inductive invariants add, and why it is needed:

**The pool.** `TypeOK` is not inductive: `LookupExpired` and `ShrinkPop` subtract from `stats.idle`,
which stays a natural number only because it is the length of the deque, and `FillPut` subtracts from
`need`, which is positive only while a shrinker fills. `PoolInv` therefore joins `TypeOK`,
`IdleCounted`, `FillPending`, `Ownership` and `PermitsConserved`. `MoveCount` gives the change of the
cardinality of a set of tasks when one task moves between `pc` values, `PopFront` and `PopBack` say
what the deque keeps, and `NothingMoves`, `HandEmptied`, `HandFilled`, `SpareFilled`, `DequePushed`
and `DequePopped` are the six ways in which an action touches ownership. The refinement uses the
invariant twice: when a caller's `Account` becomes a `Lend`, the connection is held by nobody else by
`Ownership`, and there is room because every borrower owes a permit and `PermitsConserved` bounds
those that do. `CountsInv` says that `active` is the number of tasks that lend, and created less
destroyed the connections in the deque and in tasks that have counted theirs (`CountedPcs`); `RoomInv` that the deque and the tasks that
have, or are about to make, a connection fit in `max_connections`. Only `LookupNone` adds one, when
the deque is empty; then every task in that set owes a permit.

**The registry.** `RegistryInv` is inductive as it stands; `RolloutMovesForward` uses it at both ends
of a step, to know that the migrated count is within the total that divides it.

**The queues.** `RingInv` joins the types to `ReadConsistent`: a read that has begun has the position
of the oldest item, and stores its successor only if there is one, since `write` borrows the ring
exclusively. The queue it maps to is the slots from `read_pos` to `write_pos`. `CountSettles` is
inductive with the types; the lemmas are about counting modulo the width. `SignalSafe` adds to the
accounts that what is still to be written fits in the bound and that a reset in progress was begun; the
samples that blocks in progress still owe are the cardinality of a set of pairs, whose change
`TotalExcept` gives when one producer moves.

**The predictor.** `PredictorSafe` has what is true of one call wherever it is (the worker it selected
is none it found gone, and is dead when it is about to be marked), that the sender of a queued
request waits for it and sent no other (so an answer settles one slot), the counts as cardinalities of
the calls in the places that hold a slot, and for the guardrails a chain: each request in a channel
carries the version that the messages ahead of it leave installed, and behind the last message the
version is the coordinator's, for the workers the broadcast has reached.

**The allocators.** `AllocSafe` orders the blocks of a buffer by claim: each ends at or below what the
offset was when the next was claimed, and all below the offset now. That is what makes a pop of the
stack safe for the blocks below it. A thread about to swap has read an offset at which its block
fits; whether the offset is still that one is the swap's own test.

**The decoder.** `DecoderSafe` says of a round what each model has consumed in it, token by token, that
snapshot *i* is the draft model before step *i*, and that the draft model follows the main model as far
as both consumed the round, without the positions it lacks. `Place` counts the positions that are not
skipped; a round in which all candidates were accepted adds the last one to those.

**The trainer.** `TrainerSafe` keeps for every record of metrics, in memory and in files, how it
numbers epochs (`Numbered`), as a fit may resume from either; that metadata is written last, so a name
that was never completed has none; and that the files of a name whose last save was not
interrupted carry one tag.

**The version manager.** `ManagedSafe` ties what was held against a version to its statistics: they
still show it, unless auto-recovery has cleared them.

**The multiplexer.** `MuxSafe` says that a stream which waits comes up after as many turns as the number
of streams less the reads that passed it (`Turns`), which bounds the reads that may pass it yet. A
stream added between two reads only lengthens the way (`OnTurn` over one more index), and under
weights the turns tried are those of the same order.

**The LTL checker.** The state needs its type only. That the verdict is the meaning is a statement
about every formula, and rests on induction over the nesting of operators. The prover cannot
instantiate an induction principle, but can use that a set of numbers has a least element: the
least depth with a formula on which checker and reference differ contradicts the lemma for one
operator (`AgreeOver`, one case per operator). The three functions over formulas unfold through
`CheckIs`, `ScoreIs` and `WhereIs`, which show, level by level in the same way, that a function with
the recursive equation exists.

**The gradient exchanges.** `BarrierInv` is inductive as it stands: `Filling \/ Draining` says which
workers are where in either phase, and what the accumulator and the counters are then. `StoreInv`
adds to the model's own invariants that all ranks have seen the same rounds and been given the same
means (`Level`), that a published mean has one list of each rank, of one round, and that the rounds
in the weights increase. Its part `Told` is for `Reported`: a rank has an error for exactly the rounds
behind it that failed, rank 0 also for those whose mean did not land as a whole; a round that is
published but not applied is judged by its `failed` flag. The refinements take the contributions of a round as the input of
`AllReduce`, and its publication as the step in which all get the mean.

**The WebSocket stream.** `SocketSafe` describes one line: read, buffered and still on the wire are in
order, and together the numbers sent without those lost. It adds that the buffer is empty while
`next` waits, as it would otherwise overtake what is buffered.

**The hot swap.** `HotSwapInv` has the locals of each operator and request by where it is, `OwnerInv`
(a candidate is not in service, not staged, and nobody else's), `FreshInv` (the next model loaded is
a new one), and, until two operators overlap, `SoloInv`: what the fields hold at each place of the one
operator at work. The refinement and `NoModelLost` are read off `SoloInv`.

**The batch scheduler.** `BatchInv` has every request in one of three places, once (`Places`), what is
true of a request while it waits or runs (`Sound`), and `LoopInv`, that the loop of `step` has advanced
the requests below its index and none from there on, whatever it removed. `EndStep` and `Fail`
leave in the middle of that loop, and need it.

**The stream and its transformers.** `Numbered` says of every place in the line consumer – channel –
result – batch which input it is. `Busy` says that the task holds a prediction exactly while it
sends it. `TransformSafe` adds to what the transformers promise that the debounce and the throttle
keep one item at most (`OneHeld`), that the debounce timer cannot be due before the item kept is as
old as the period (`PauseDue`), and that the throttle's ticks are at multiples of its period
(`InStep`).

**The MQTT adapter and client.** `AdapterSafe` adds that calls in progress have different numbers, and
that a request anywhere (in a channel, resent, in the engine) has been counted under its id, so that
an id counted once belongs to one call. `ClientSafe` says where each sample is, once, that only a
task that is alive has a batch, and that the flow followed by any batch rises unless two tasks
overlapped.

Only model-checked: liveness (`WaitersServed`, `AllReturn`, `OperatorReturns`, `AllComplete`,
`UserReturns`, `AllDelivered`, `CallsEnd`, `TasksSettle`), since reasoning under fairness and about
ENABLED is outside what the prover does; and the counterexamples of section 7, which are behaviours
and need no proof. The sums in the model (`Total`, `TotalWeight`, `Sum`) are cardinalities of sets of
pairs, and recursion is written as functions, because a proof can use these and not a fold or a
RECURSIVE operator.

## 7. Where code and documentation disagree

Each of these is a run with a counterexample:

* `pool_max`: `max_connections` is the "Maximum number of connections allowed." (`pool.rs:81`), but
  a `shrink` that refills while an `acquire` has a connection in hand that is neither idle nor yet
  active creates one more (`pool.rs:398`).
* `dist_leak`: "Exactly one decrement per accepted request" (`distributed.rs:555`); a `predict`
  dropped while it waits never decrements, and the worker looks loaded for good.
* `batch_returned`: requests that reach `max_steps` "are returned (and recorded…)" (`batch.rs:394`);
  the `?` at line 432 drops the responses of those that finished earlier in the same loop.
* `stream_stuck`: "Non-blocking inference" (`streaming.rs:5`); the task holds the engine while it
  waits for room in the channel, and a consumer that calls `step_async` between two reads waits for
  the engine: neither moves again.
* `client_dark`: a reconnect "actually resumes the stream instead of going quietly dark"
  (`kizzasi-io/src/mqtt.rs:600`); with 6 to 10 topics the task waits on its first connection for room
  in the channel it alone empties, and nothing is ever received or reported.
* `alloc_overlap`: the pool "Provides O(1) allocation and deallocation" (`embedded_alloc.rs:28`);
  `dealloc` ignores which block it is given, and after freeing the older of two blocks `alloc` returns the
  newer one while it is in use.
* `draft_behind`: "When every candidate is accepted the live state is already correct"
  (`speculative.rs:280`); the draft model has not consumed the last of them, and stays a token behind
  for good.
* `best_lost`: "Save checkpoint if this is the best epoch" (`training_checkpoint.rs:210`); training
  and validation losses are numbered by different counts once `fit` is called on a trainer that was
  trained before, and the best epoch is not saved.

Noticed while modelling, and not runs of their own:

* Pool: a future of `acquire` dropped with a connection in hand leaves the statistics wrong for good;
  between the factory's answer and the lock (`pool.rs:307-310`, `405-410`) a live connection is in none.
* Gradient store: when a buffer of the mean has not the length of its weight, rank 0 alone gets the
  error, the buffers before it stay written, and the other ranks return Ok
  (`kizzasi-model/src/distributed.rs:1045-1065`).
* MQTT adapter: `run` waits for room in the request channel to publish a response; when callers have
  filled it, nothing polls the event loop or looks at the stop flag again. A stop that comes before
  `run` sets its flag (line 110) is overwritten.
* MQTT client: `connect` with more than 10 topics never returns; a batch is lost with its task, and
  `batch_timeout` is only looked at when a message arrives; `disconnect` and `connect` in quick succession leave two
  tasks.
* WebSocket: `next` returns `None` after one failed attempt, so the `while let` loop of the module's own
  example (lines 24-27) ends at the first one, and the "exponential backoff" (line 9) only happens if
  the caller calls again. `next` after `close` connects anew.
* Multiplexer: `next_weighted` takes streams in turn, the weights only bound how many are tried; with
  a weight of 0 it may return nothing while samples wait; `AsyncMultiplexer::next` always starts with
  the first receiver, so a busy one starves the others.
* Synchroniser (`kizzasi-io/src/sync.rs`, not modelled): the target is the least of the streams' newest
  timestamps, so a stream that stalls pins it, and `try_sync` returns the same result again.
* LTL: the laws of the documentation (`ltl.rs:17-33`) fail at the end of a finite trace.
* Version manager: auto-recovery judges the window it has just emptied, which is always healthy
  (`kizzasi-inference/src/versioning.rs:455-460`); `PreviousStable` may return a newer version.
* Decoder: a result cut at `max_tokens` leaves the main model ahead of it; an error skips the rollback.
* Trainer: an interrupted overwrite of a checkpoint loads as a mixture of two; early stopping may end
  a re-fit right after an improvement; "early stopping on training loss" (`training_loop.rs:683`)
  never happens; `track_metrics = false` disables early stopping; another number of batches renumbers the epochs.
* Registry: `deploy` raises a fleet size that was set before to at least 10
  (`kizzasi/src/versioning.rs:416`, `487-488`).

## 8. Not modelled

* Numeric kernels, models, tokenizers, constraint solvers, signal processing, GPU backends: floating
  point, no protocol.
* File formats and loaders; macros and language bindings.
* Pools, caches and registries of which every operation is one critical section (`ArrayPool`,
  `TensorPool`, plugins, telemetry, lazy initialisation): nothing to interleave.
* Network servers and connectors that wrap a library call (REST, gRPC, ZeroMQ, OSC, ROS 2, serial).
* Within modelled components: `filter` and `map` transformers, `CallbackStream` and the unbatched path
  of `streaming.rs`; dropped `activate` and `rollback` futures of `hotswap.rs`; `get_mut` of the
  registry, which lets a caller overwrite the metadata; dropped futures of the pool's `shrink`; an error
of the decoder's own roll back; a second `connect` without a `disconnect` of
  the MQTT client; the FSDP shards and `clear` of the gradient store; the router and the
  demultiplexer of `multiplex.rs`, which are a queue per output; read-only accessors.

## 9. What is left

Every part that has a protocol of its own is modelled, and every safety, action and refinement
property of the passing runs is a theorem. What could come next:

1. Liveness: the fairness of section 5 and the safety theorems are the premises of well-founded
   arguments (the queue of the semaphore for `WaitersServed`, the phases of a round for the barrier,
   the steps left of a request for `AllComplete`) that would have to be done on paper, or with a
   prover that knows ENABLED.
2. The parts section 8 leaves out within the modelled components: the unbatched path of
   `streaming.rs`, dropped futures of `hotswap.rs`, the FSDP shards of the gradient store.
3. The synchroniser of `kizzasi-io/src/sync.rs`, whose behaviour section 7 describes.
