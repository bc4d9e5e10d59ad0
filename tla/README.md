# A TLA+ model of SGLang-Omni's serving runtime

SGLang-Omni serves multi-modal models as a *pipeline of stages*.  A coordinator
process admits requests and collects their results; every stage is an asyncio
event loop in a worker process around a scheduler thread; stages hand data to
each other through relays (CUDA IPC, shared memory, RDMA) and talk over ZeroMQ.
A router spreads requests over several such servers.  This directory models
runtime and router in TLA+, checks the models with TLC on small instances and
proves their central facts with TLAPS for every instance.

## 1. Inventory

| part | source (`sglang_omni/...`) | state it keeps | operations | talks to | what is hard |
|---|---|---|---|---|---|
| Coordinator | `pipeline/coordinator.py` | four tables keyed by request id (requests, futures, stream queues, abort tasks), partial results | submit, stream, abort, completion loop, fail_pending_requests, stop | stages (ZeroMQ), client, runner | coroutines that interleave at awaits, ids used again, cancelled callers, failing broadcasts |
| Administrative control | `pipeline/coordinator.py` (admin), `pipeline/stage/runtime.py`, `pipeline/tp_control.py`, `scheduling/omni_scheduler.py` | a lock, pending operations, per-rank queues | admin, fan-out, collect, run, aggregate | coordinator, stage leaders, followers, scheduler threads | three nested timeouts, late answers, partial failure |
| Stage runtime | `pipeline/stage/runtime.py`, `stage/input.py`, `stage/stream_queue.py`, `local_dispatch.py` | active and aborted ids, fan-in, stream queues, receive lanes, replica bindings | submit, data, chunk, signal, abort, drain, crash | coordinator, other stages, relays, scheduler | reads that end out of order, aborts during reads and between hops |
| Communication engine | `comm/*.py` | pending transfers, KV handshakes, leases | send, read, ack, cleanup, close | relays, stages | acks against timeouts, leases across failures |
| Relays | `relay/*.py` | slot pools, registered memory | put, get, release | peers in other processes | waiting for contiguous slots, release exactly once |
| Simple schedulers | `scheduling/simple_scheduler.py`, `threaded_...`, `streaming_...` | inbox, pending work, abort tombstones | enqueue, run, finish, abort | stage | threads, aborts that come before, during or after the work |
| Autoregressive scheduler | `scheduling/omni_scheduler.py`, `generation_batch_policy.py` | waiting and running batches, pause state | admit, batch, decode, retract, abort, admin | stage, SGLang | pause against abort, async decode |
| Caches and reference encoder | `scheduling/*cache.py`, `reference_encoder.py` | LRU tables, in-flight encodes | lookup, insert, evict | schedulers | deduplication against cancellation |
| Runner | `pipeline/mp_runner.py`, `stage_workers.py` | child processes, MPS leases | start, monitor, fail, stop | coordinator, stages, MPS | start failures, cancellation during teardown |
| MPS manager | `mps/*.py` | owner files, leases | acquire, verify, retire, release | runner, CUDA MPS daemon | crashes of owners, dirty state |
| Serving | `client/`, `serve/` | sessions, turns | generate, cancel, truncate | coordinator | cancellation against completion |
| Router | `sglang_omni_router/python/` | admission slots in shared memory, worker health, update journal | admit, select, proxy, update | workers | seqlocks, fencing, crash recovery |

Models (`models/`, `model_runner/`), configuration, CLI, profiler and platform
code hold no protocol state of their own and are not modelled.  The Rust router
is a second implementation of the Python one.

What makes each part correct: the **coordinator** never mixes two requests that
use one id, answers every caller once, and forgets nothing and nobody; an
**admin operation** that reports success was run by every rank, in the same order
everywhere; a **stage** gives its scheduler what was sent, in order, nothing of an
aborted request, and gives back every buffer and all state; the **engine and
relays** release every slot and lease exactly once, never while a peer may read;
**schedulers** answer each request once and never an aborted one; the **router**
admits no more than its limit and never serves from workers with different
weights.

## 2. Modules

| module | what it models |
|---|---|
| `RequestLifecycle` | what the coordinator promises to its callers, without its tables, tasks and messages |
| `Coordinator` | the request side of the coordinator, its callers, and the stages as it sees them; implements `RequestLifecycle` |
| `AdminControl` | administrative operations end to end |
| `Stage` | one stage between its upstream stages, its scheduler and the stages after it |
| `KVTransfer` | paged KV transfers between the communication engines of two stages |
| `SlotRelay` | payloads and stream chunks on their way through the slot pool of the CUDA IPC relay |
| `ThreadedScheduler` | a scheduler with a thread pool: the threads of the stage, the scheduler and the pool |
| `AdmissionSlots` | one in-flight bound over several router processes, in shared memory |
| `WeightUpdate` | a weight update of the multi-process router across crashes |
| `MC...` | instances of the module of that name for TLC |
| `...Proofs` | inductive invariants and the theorems of section 6 |

The modules meet at assumptions.  `Stage` sees a relay read as something that ends
or fails, which `SlotRelay` and `KVTransfer` model from the sender's side; that every
buffer is acknowledged (`BuffersAcknowledged`) is what frees the slots of
`SlotRelay`.  `ThreadedScheduler` is one of the schedulers that `Stage` sees as a thread between an inbox and an outbox.

A definition named `Faulty...` is its successor with a plausible bug put in.  No
specification uses it; putting it in the place of its successor breaks the
property named in `PROJECT.json`, which shows that the property depends on that
piece of code.

### Coordinator

Coroutines of one event loop interleave only at awaits that suspend.  An action is
the code between two of them: the submit send, an abort broadcast, the wait for a
future, the read of a stream queue, the wait for a shielded abort task.  The four
tables are functions from ids to the *caller* (one call of `submit()` or
`stream()`) whose object is registered, so object identity in the code
(`self._stream_queues.get(request_id) is queue`) is equality of callers, and two
uses of one id are two callers.

| code | actions |
|---|---|
| `_submit_request` | `CallRejected`, `Admit`, `SubmitSent`, `SendFails` |
| `submit` | `SubmitReturns`, `CancelSubmit` |
| `stream` and its nested `finally` | `ReadEvent`, `CloseStream`, `LeaveStream`, `LeaveAbort` |
| `abort`, `_run_abort`, `_on_abort_task_done` | `Abort`, `AbortTaskEnds`, `AbortTaskFails` |
| `run_completion_loop`, `_handle_stream`, `_handle_completion` | `HandleStream`, `HandleSuccess`, `HandleFailure`, `FinishFailure`, `LoopDies` |
| `fail_pending_requests`, `stop` | `FailPendingRequests`, `Stop` |

The stages are an environment: each stage answers a request that was delivered at
most once, at any later time, after any number of chunks.  Payloads, errors and
results are left out; of a message the model keeps its kind, its stage and (as
history the coordinator cannot see) the call it belongs to.

### AdminControl

`admin()` calls queue at `_admin_lock`, send to their stages and wait.  A rank takes
an operation into `_on_admin`; a leader first mirrors it to its followers.  The
scheduler thread runs what is in its admin queue whether or not anybody still
waits.  `TimesOut`, `RunTimesOut` and `CollectTimesOut` are the three waits that
expire: of `admin()`, of `_enqueue_admin` and of the leader on a follower's queue.
A result is its success and whether it says "skipped".  When one of several
followers is late, what the others gave is dropped with it.

### Stage

Messages are submits, chunks, done signals and payloads.  Each data message gets a
receive task: `Schedule` (up to the read), `EndRead` (the read ends and is
acknowledged), `Advance` (its turn in the lane has come).  Data may also come with
the message itself (inline, CUDA IPC), or by a call of a stage in the same process
(`ReceiveLocal`).  The discard of an aborted request's CUDA IPC data may raise, which
stops the stage (`DiscardRaises`).  `Drain` and `HopOn` are the outbox coroutine, which is suspended
between the hops of `_route_result`.  The scheduler is an environment: it streams,
ends or fails what it was given, or crashes (`SchedulerCrash`).  Only the head of a lane
leaves it, so the end of a receive task takes away the first element.

Not in this module: ids used twice (they are used once; the composition of
coordinator and stage is where reuse matters), KV page transfers, TP followers and
profiler messages, and what a pipeline with a wrong configuration does: the warning
and the `ValueError`s of `AggregatedInput.receive`, for a payload of a stage outside
`wait_for` or outside what the resolver said.  `EarlyResult` says whether a scheduler may end a request before
its input streams have ended; where it is false the run assumes what the streaming
schedulers do.

### RequestLifecycle

An id has one owner at a time; the request of an admitted call is released once,
completed or dropped; a call ends once, with a result only after its own request was
completed and with an error only if it was dropped or never sent.  `Coordinator`
maps `owner` to its `requests` and `verdict` to `Verdict`, which reads the state of
the RequestInfo that was released.

### KVTransfer

The sender (`send_kv_pages`) announces a transfer, waits for the receiver's
reservation, publishes the pages and waits for the answer; the receiver copies
straight out of the sender's memory.  Who holds the page lease is one variable: the
call, the pending transfer, the list of retained ones, or nobody.  The reservation
of the receiver and the copy on the GPU are separate, because `cleanup()` and
`close()` come while the copy runs and cannot stop it.  Every await of the sender may
time out or be cancelled, every send may raise with its message on its way all the
same, and messages may never arrive.

The receiver calls `cleanup()` when the request is aborted or fails there, or its
scheduler crashes; the normal end of a request (`_clear_request_state`) does not.  So a
reservation whose data never comes -- the sender gave up, or the request was forgotten
among those that are over -- stays until one of these, or until `close()`.
`PagesSettle` is about the others: if the read of the data has begun, `cleanup()` was
called for the request or the engine is closed, the pages are committed or given back.

### SlotRelay

One worker and one bounded queue per target; a send takes one range of slots per
tensor, publishes them, and the watch of the transfer releases them when the peer has
answered.  `acquire_async` has no await between the failed attempt and the wait, so an
attempt and the start of its wait are one action, and a release wakes all waiters.
A tensor that is larger than the pool is refused (`Refuse`).

### ThreadedScheduler

A step is a section under the scheduler's lock (the lock of the inbox is only taken
inside it or alone), or what a thread does between two sections.  What is enqueued is
a *life* of a request id, so that a future of a former use of an id is told from the
present one, as `_finish` does by identity.

### AdmissionSlots

Each action has at most one access to the shared memory.  A slot is even or odd
(`odd`), a read takes effect at an instant at which the slot is even, or raises.  What
a data plane adds up is a sum over different instants.

### WeightUpdate

The transaction of `_broadcast_admin_request` in its order: journal, disable, publish,
barrier, broadcast, resolve the journal, publish.  Between any two of them the control
plane, a data plane or the host may die, the handler may be cancelled or raise
(`BroadcastRaises`), and a write of the journal may fail with the file replaced or not.
`out` holds the updates a worker was sent and has not run, also when nobody waits for
the answer any more.  `vouched` is emptied when an update is sent: what an operator has
said about a worker before does not count for it.

## 3. Runs

Instances are small but have what each question needs: a second id for the cap, a
second call for reuse, a second terminal for partial results, a second chunk for
order, a third request to overflow a bounded set.

| run | instance | shows |
|---|---|---|
| `Coordinator_live` | 1 id, 2 calls, 1 terminal; cancel, abort, failure, fatal error, stop; fairness | `TypeOK`, `OwnersAgree`, `SubmitIsServed`, `SettledForGood`, `ImplementsLifecycle`, `CallEnds`, `RequestReleased` |
| `Coordinator_terminals` | 1 id, 2 calls, 2 terminals; abort, failure and failing I/O | `StreamIsServed`, `PartialsBelongToRequest`, `NoForeignCompletion`: a result left over from a former use of an id comes from a request that did not complete (or was itself given such a result) -- such a one *is* applied to the new request, which is why the client draws a fresh `uuid4` per request |
| `AdminControl` | 2 operations, a TP stage with one follower, a stage without admin support; fairness | `SuccessIsTruthful`, `RanksAgreeOnOrder`, `AdminEnds`, `StageComesBack` |
| `Stage_join` | fan-in of a same-process source, which decides it, and a remote one with two chunks; read failures, aborts, crash; fairness | `LaneOrder`, `NothingLeftBehind`, `BuffersAnsweredOnce`, `NothingAfterAbort`, `BuffersAcknowledged`, `RequestLeaves` |
| `Stage_entry` | 3 requests at an entry stage, `_aborted` limited to 2 | `HandedIsTracked` |
| `KVTransfer` | 2 transfers of one request; every timeout, cancellation, lost message, cleanup and close; fairness | `LeaseCoversCopy`, `CopyHasItsPages`, `TransferIsTruthful`, `NoLateReservation`, `SendEnds`, `PagesSettle` |
| `SlotRelay` | 4 sends to 2 targets through 3 slots, one a chunk of two tensors of which the second is larger than the pool; fairness | `ReadSlotsAreKept`, `SlotsAreAccountedFor`, `NobodyWaitsInVain`, `SendEnds` |
| `AdmissionSlots` | 3 data planes, a bound of 3, one death | `SoftBound`, `OwnersKeepTheirSlots` |
| `WeightUpdate` | 2 workers, 2 data planes, 2 updates, 1 operator request, 1 death; failing writes; fairness | `UpdatedIsNotRouted`, `NoMixedWeights`, `ViewsConverge` |
| `ThreadedScheduler` | 3 requests, two with one id, 2 aborts, one tombstone at a time; fairness | `AbortsAreExact`, `NothingIsLeft`, `AnsweredUnlessAborted` |

Deadlock is checked for `AdmissionSlots`, whose processes go on for ever.  Elsewhere it
is not: an instance has finitely many calls, operations or messages and may stop when
they are over.  Symmetry over calls and operations is
used in safety runs only.

Bounds: one chunk on its way to the coordinator at a time (`StageStreams`), one
stream item in an outbox at a time (`SchedStreams`), `MaxChunks` per source,
`AbortCap` and `AbortKeep` for the 10000 and 5000 of `_record_bounded_request_id` and
`cleanup()`, `Limit` and `Retained` for those of the threaded scheduler, `MaxAborts`
calls of its `abort()`, `MaxUpdates`, `MaxPuts` and `MaxCrashes` in the router.  One
death is enough for a restart to meet everything its predecessor has left; two updates
are needed for an update that meets the journal or a late run of the one before.
The run of `KVTransfer` never has more ended requests than `AbortCap`; the theorems
of section 6 hold for every cap, so its safety is known at an overflow too.  `Keepalive`
publishes only what differs from the file by more than its number.

### Disagreements between the code and what it says

Two runs end in a violation, each of a sentence the repository itself states.

* `AdminControl_stale`: the answer of a follower that comes after the leader has
  given up stays in the queue and makes the next operation, and each one after it,
  fail on an operation id that does not match.
* `Stage_unbound`: an abort between two hops of a result takes away the replica
  binding that the next hop needs; the hop raises, and the stage stops.

Exceptions that the properties make on purpose, because the code does so:

* With a `terminal_stages_resolver` (`HasResolver = TRUE`) `StreamIsServed` does not
  hold: `stream()` looks its terminals up after the send, and if its request has gone
  by then, completed by a late completion of a former use of its id, it waits for the
  static set instead of its own subset.  For the same reason the theorem about
  `NoForeignCompletion` is about coordinators without one.
* `close()` of a receiving engine interrupts a wait that had timed out before and gives
  the destination pages back under a running copy (`read[t] = "torn"`).  Every other
  copy keeps its pages under `close()` too.
* A reservation whose data never comes may stay until `close()` (`PagesSettle`, see
  section 2), and a request whose submit failed to be sent stays registered (`NeverSent`
  in `RequestReleased`).
* An id that was evicted from `_aborted` may be received again; `NothingAfterAbort` is
  about the ids that are in it.
* The tensors of a stream chunk take their slots one after another without a timeout:
  two chunks may hold up each other (`HeldUp`), and a chunk that fails at a later
  tensor leaves the slots of the earlier ones behind (`BrokenOff`).
* The admission bound is soft: `SoftBound` says by how much.
* A tombstone for an id that the threaded scheduler has already answered suppresses the
  next use of that id.
* A death of the control plane between the clearing of the journal and the publication
  leaves workers disabled that could be enabled; `ViewsConverge` and the safety
  properties hold.

One gap is not stated as a property.  The completion loop, suspended in the broadcast
of a failure, still works on the id of the failed request, and nothing reserves the
id for it.  If an abort task of that request ends meanwhile and the id is used again
at once, the new request is rejected in the name of the old one: it is dropped while
its state still says pending.  It takes three calls of one id and a broadcast that
suspends; a PUB socket normally completes inline.  The runs have two calls, and it was
the proof of `NoForeignCompletion` that did not go through.  The property therefore
speaks of requests that did not complete, not of aborted or failed ones, and of results
only: a late failure fails the new request and gives it nothing.

## 4. Fairness

* `Coordinator`: weak fairness of every coroutine step that is ready (asyncio runs
  ready callbacks), of sends and broadcasts (unbounded ZeroMQ queues), and of every
  terminal stage answering what it was given.  Nothing makes a caller cancel, a stage
  fail or the runner stop.
* `AdminControl`: event loops run, sends end and timeouts expire.  *No* fairness for
  scheduler threads: the properties hold even if one never runs an operation.
* `Stage`: reads end (the relays have timeouts), ready tasks run, upstream stages
  finish what they began, the scheduler ends what it was given.
* `KVTransfer`: event loops run, sends end, timeouts expire and copies end.  Nothing
  makes a message arrive or calls `cleanup()` or `close()`.
* `SlotRelay`: event loops run, and a wait for an answer ends by the answer or its
  timeout.  Nothing makes a peer answer.
* `ThreadedScheduler`: threads run, a compute function ends.
* `WeightUpdate`: a transaction goes on to its end (requests time out), the supervisor
  restarts what has died, snapshots are published and read again.  Nothing makes the
  barrier pass or an operator act.

## 5. What the properties are about

`PROJECT.json` lists the hazards with the line at which each bites and the
properties that would catch it; a hazard that the code is exposed to, and that the
properties therefore make an exception for, has a note instead.  Most need several actors: `OwnersAgree` fails only
if a second call is admitted under an id whose abort task still runs;
`NothingLeftBehind` only if an abort falls between the start of a read and its end;
`SuccessIsTruthful` only if an answer of an earlier operation is counted for a later
one.

## 6. Proofs

Every theorem is proved from the named assumption on the constants of its module,
hence for all sets of ids, calls, stages, transfers, sends and data planes.  Four have
a hypothesis more, which the table names.  The assumptions are what the code's
configuration guarantees: that the terminal stages are finitely many, that every TP
follower belongs to a stage, that a stage sends to downstream stages.

| module | theorem | statement |
|---|---|---|
| `CoordinatorProofs` | `TypeCorrect` | `Spec => []TypeOK` |
| | `OneOwner` | `Spec => []OwnersAgree` |
| | `SubmitServed` | `Spec => []SubmitIsServed` |
| | `PartialsOwned` | `Spec => []PartialsBelongToRequest` |
| | `OutcomesFinal` | `Spec => SettledForGood` |
| | `Refinement` | `Spec => ImplementsLifecycle` |
| | `StreamServed` | `Spec => []StreamIsServed`, if `~HasResolver` |
| | `NoneForeign` | `Spec => []NoForeignCompletion`, if `~HasResolver` |
| `AdminControlProofs` | `TypeCorrect` | `Spec => []TypeOK` |
| | `SuccessTruthful` | `Spec => []SuccessIsTruthful` |
| | `OrderAgreed` | `Spec => []RanksAgreeOnOrder` |
| `KVTransferProofs` | `TypeCorrect` | `Spec => []TypeOK` |
| | `SourcePagesPinned` | `Spec => []LeaseCoversCopy` |
| | `DestinationPagesKept` | `Spec => []CopyHasItsPages` |
| | `SuccessIsTrue` | `Spec => []TransferIsTruthful` |
| | `NothingReservedLate` | `Spec => []NoLateReservation` |
| `SlotRelayProofs` | `TypeCorrect` | `Spec => []TypeOK` |
| | `ReadersKeepSlots` | `Spec => []ReadSlotsAreKept` |
| | `PoolIsPartition` | `Spec => []SlotsAreAccountedFor` |
| | `NoReleaseMissed` | `Spec => []NoRoom`: while a send waits there is no room for it |
| | `WaitersAreServed` | `Spec => []NobodyWaitsInVain` |
| | `PayloadsAreNotHeldUp` | `Spec => [](~HeldUp)`, if every send has one tensor |
| `AdmissionSlotsProofs` | `TypeCorrect` | `Spec => []TypeOK` |
| | `NobodyIsFenced` | `Spec => []OwnersKeepTheirSlots` |
| | `Bounded` | `Spec => []SoftBound` |
| `StageProofs` | `HandedStaysTracked` | `Spec => []HandedIsTracked` |
| | `AbortIsHeard` | `Spec => NothingAfterAbort` |
| | `LanesOrdered` | `Spec => []LaneOrder` |
| | `TypeCorrect` | `Spec => []TypeOK` |
| | `AnsweredOnce` | `Spec => []BuffersAnsweredOnce` |
| | `NoLaneStuck` | `Spec => []LanesMove`: the head of a lane reads or may go on |
| | `NothingLeft` | `Spec => []NothingLeftBehind`, if `Roomy` |
| `ThreadedSchedulerProofs` | `AbortsExact` | `Spec => []AbortsAreExact` |
| | `AllCleanedUp` | `Spec => []NothingIsLeft` |
| `WeightUpdateProofs` | `TypeCorrect` | `Spec => []TypeOK` |
| | `NoneRoutedInUpdate` | `Spec => []UpdatedIsNotRouted` |
| | `WeightsNotMixed` | `Spec => []NoMixedWeights` |

Each module has a theorem `Inductive == Spec => []IInv`, one lemma per action (or group
of actions with the same effect) and, under it, one step per conjunct the action can
disturb.

**Coordinator.**  `IInv == TypeOK /\ CallsInOrder /\ OwnersAgree /\
PartialsBelongToRequest`.  `OwnersAgree` alone is not inductive: when an abort task
ends, the code acts on whatever is registered under the id, and when a stream leaves
it unregisters the future of that id.  `CallsInOrder` says where each call is and
what must be registered for it there: a call that has begun has an id, one that has
not is tracked nowhere, `submit` calls await their own future, only `stream` calls
read and wait for aborts, and a `submit` that sends or waits has its future
registered, settled or with its request still tracked.  With it, every step of
another call leaves the entries of this one alone, because all entries of an id have
one owner; `SubmitIsServed` follows from it.  `OutcomesFinal` is an action property.  It needs one more invariant, `MessagesKnown`: every message in
an inbox is of a call that has an id.  Without it a completion could name no id at all,
and the request info it is applied to would be anybody's.

`Refinement` needs to know what each call and its request have come to.  `Life` is a
second invariant on top of `IInv`: what there is of a call at each point (`Phases`), that
all that is registered under an id is of a call that passed this id (`Registered`), what
a future says became of the request (`Futures`), that nothing completes under an id whose
failure is being broadcast (`Failing`), and what the queue of a stream may hold: the end
of all its results only when its request has completed, a failure only when it was
dropped (`Streams`, `Queues`).  With `Life`, each action maps to a step of
`RequestLifecycle` (the id is admitted, released, or a call ends) or to a stutter.
`StreamServed` adds `Ended`: once its request is released, the queue of a stream holds
what ends it.  Without a resolver the terminals are the same for all (`Static`); that is
what fails with one.  `NoneForeign` counts answers without counting: a stage answers a call
once, so if a request got all its results, and all of them its own, every one of them is
`Spent` and none can be left over (`Consumed`, `GivenAway`).

**AdminControl.**  Two ranks agree on an order although each has its own queue, because
each rank's log, its queue and what is on its way to it form one sequence, and this
sequence grows at its end only, under the lock (`LockInv`, `LineInv`).  For a follower
the leader's inbox is part of it, since the leader passes on what it takes out.  While a call
has the lock its operation is the last of every line it is in, so any two lines have the same
order, and a log is the front of its line.  `SuccessIsTruthful` follows an
answer back from the aggregate to the run that made it: a result with the id of an
operation is of that operation, whoever gave up on it meanwhile (`Called`, `Truthful`).

**KVTransfer.**  Whether the sender may release its lease depends on what has happened
at the receiver, which it sees through messages only.  `LeaseInv` says that a lease is
released only if the receiver has answered, or the data message never left; `OrderInv`
that a transfer goes through data message, read, copy and answer in this order, so that
an answer exists only when nothing is read any more; `PagesInv` does the same for the
reservation, which is committed before anybody says so and never after `cleanup()` has
met it.

**SlotRelay.**  `PoolInv` is the partition.  To see that a release gives back only
slots of the send itself, `SendInv` says what a send holds at each point: nothing before
its first acquire, the range of its last acquire while it is written, and no watch
before it is published.  That needs a send to go one way, and it does because a job is
in one queue at most once and only before it has begun (`QueueInv`).

That every send ends is liveness and left to TLC, but the state it rests on is proved.
`NoRoom` says that a waiter has missed nothing: the failed attempt and the start of the
wait are one step, others only take slots until the next release, and that one wakes all.
With the partition it follows that a pool in which somebody waits has either a worker or
a watch that will release something (`Moving`), or is `HeldUp`.  The latter takes a chunk
with several tensors: a send of one tensor that waits holds nothing, so if nobody else
does either the pool is empty and has room for it (`PayloadsAreNotHeldUp`).

**AdmissionSlots.**  The supervisor reclaims the slot of a process it has reaped, and a
slot that is being reclaimed belongs to a process that is down; so a live one that is
not inside a write finds its own generation in its slot.

For `SoftBound`, take, of the data planes that have a request, the one whose last admission
comes from the sum that *began* last.  Nobody else admitted twice after the beginning of that
sum (a second admission would come from a sum that began later), so each data plane has at
most one request more than this sum counted for it, and the sum was below `MaxInflight`: with
one more for each of the N, at most `MaxInflight - 1 + N`.  When sums began and what they read
is no state of the program; `BoundInv` says that a history of these (`Explains`) exists, and
the proof continues it over every step: a read copies a count that its owner is at most one
admission ahead of (`Published`), and an admission turns what its sum has read into what it
has seen.  Crashes, fresh generations and sums that are given up only lower the counts
(`Shrinks`).  Requests are counted as the elements of a set, so that the sum over the slots
needs the facts of the library on cardinality and no recursion.

**Stage.**  `HandedIsTracked` alone is not inductive: when the scheduler thread dies,
the crash handler skips the active requests that are in `_aborted`.  `AbortedIsKnown`
says that this is right, because what is in `_aborted` was aborted by the coordinator or
the coordinator was told of its failure.  Both hold for every cap of `_aborted`, which
forgets arbitrary ids when it overflows.  `AbortIsHeard` is an action property.

`LaneOrder` is about what the scheduler has seen; what keeps it is how messages get into
the lanes and out of them.  `LaneInv` says that messages arrive in the order in which they
were sent (`Arrivals`), that a lane holds exactly those of its messages that have a task,
sorted (`Tasks`, `LaneHolds`, `LaneSorted`), and that what was handed on was sent before all
that still waits (`Handed`, `HandedBefore`).  A message that arrives is behind all its mates
(`ArrivalLast`), and only the head of a lane goes on.  The same invariant shows that no
buffer is acknowledged twice, which is the part of `TypeOK` that is not obvious.

Two theorems are the safe half of `BuffersAcknowledged`.  `AnsweredOnce`: a buffer that was
announced has its one acknowledgement exactly when its task is past the read, so no path of
the receiver (abort, failure, drain) goes on without it.  `NoLaneStuck`: ahead of a message
that waits for its turn there is one, sent before it, that is read or may go on.

`NothingLeft` needs two arguments.  What is in `_aborted` was cleared when it came in, and
every step looks there before it keeps anything (`AbortedIsClean`).  For a request that was
routed, `AllLeave` follows it backwards: a result is routed only of a request whose messages
have all been handled or can never come (`Settled`), because the scheduler ended it after
its streams had ended, and was given it when its fan-in was complete (`Fed`, `Collected`).
`Roomy` says that `_aborted` never overflows and that the scheduler waits for the streams.
Both are needed: a request that was evicted from `_aborted`, or whose result was early, is
tracked again when one of its messages comes late, and nothing takes it away any more.

**ThreadedScheduler.**  A tombstone names an id, so it must not meet the wrong use of it:
`OneLive` says that at most one use of an id may still be answered, `PendingIsExact` that
`_pending` has it, `Progress` that what has begun and is not finished is there or among the
aborted futures, and `Marked` where each abort has left its trace.  That every tombstone of
an enqueued request has a request to meet (`TombstonesMeet`) is why none is left over.

The other half of `AbortsAreExact` is that nobody else is silenced (`SilenceInv`): a
speculative tombstone never has a request to meet, since `enqueue` turns it into one of the
other kind (`Speculative`); one of the other kind meets only the request whose abort has
left it, since an id has at most one request in the inbox or in hand (`Aimed`); and all
that leads to a drop comes from an abort of that future or from the end of the scheduler
(`Justified`).  `_speculative_aborts` is a dict, so its keys are distinct, and the lemmas
on its sequence say what `pop` and the eviction of the oldest leave.

**WeightUpdate.**  `Protected` is the core: either no worker has an update before it and all
have the same weights (`Settled`), or no data plane, no snapshot, no registry and no successor
of the control plane has an affected worker enabled (`Guarded`).  That the switch between the
two is safe is the order of the transaction (`InOrder`: journal, disable, publish, barrier),
and that the barrier means something is `Numbered`: a data plane that acknowledges the
sequence number of a snapshot has this very snapshot, also after a restart, because epochs
only grow.

Only model-checked: all liveness (fairness and `ENABLED` are out of the prover's reach).
For `SlotRelay`, `Stage` and `ThreadedScheduler` the invariants it rests on are proved, as
said above: whoever waits has somebody to wait for, and nothing is dropped on the way.
Every safety invariant and action property of the runs is proved.  `StreamIsServed` and
`NoForeignCompletion` are not claimed with a resolver, nor `NothingLeftBehind` without `Roomy`:
they do not hold there.

## 7. Not modelled

Two thirds of the source is numerical: the model definitions under `models/`, the
model runner, audio and image codecs, request builders and prompt templates.  They
compute tensors from tensors, keep no state that two actors share, and what they compute
is beyond a model checker.  Configuration, CLI, platform and profiler code is run once
at start, or only observes.  The modules here are about the part in which order,
failure and sharing decide whether the program is right.  That part is not complete
either:

* the *autoregressive scheduler*, except for its admin queue.  `OmniScheduler` drives the
  scheduler of SGLang, which is not in the repository, and its own steps mean something
  only together with what that one does to the batches;
* the *batching and streaming schedulers*, TP followers of a stage, and mirrored aborts;
* the *composition* of coordinator and stages: an id that is used again while a stage
  still has it in `_aborted`;
* *runner*, *MPS manager* and *realtime session*;
* *caches*: in-flight deduplication and eviction;
* the router's *health probing, selection and proxying*, and the folding of counters of
  a dead data plane; the *Rust router*, a second implementation of the Python one;
* the *mooncake, nixl, nccl and shm relays*, which have credits or files in place of
  slots.

## 8. Plan

1. *Theorems.*  All safety properties of the runs are proved, and the invariants behind
   three of the liveness properties.  Next: what a module
   assumes of another one, stated as a property of that one (the slots that
   `BuffersAcknowledged` frees).
2. *Schedulers.*  `OmniScheduler`, with the batches of SGLang as an external part.  First
   questions: the part of `abort()` that runs without the lock against the forming of a
   batch, and `pause_generation` with `mode=retract`, which retracts `running_batch`, against
   a weight update, for a request that sits in `last_batch`.  Then the concurrent
   `SimpleScheduler`.  Each as an implementation of the scheduler that `Stage` assumes.
3. *Composition.*  Coordinator and stages in one module, with ids used again.
4. *Processes.*  Start, failure and stop of the runner; owner files and leases of the MPS
   manager; the realtime session.
