-------------------------------- MODULE Stage --------------------------------
(***************************************************************************)
(* One pipeline stage, sglang_omni/pipeline/stage/runtime.py (role         *)
(* "single"), with its fan-in (stage/input.py) and its stream queues       *)
(* (stage/stream_queue.py).                                                *)
(*                                                                         *)
(* The stage is an asyncio process: a message loop, an abort listener, a   *)
(* task per data message and a coroutine that drains the scheduler's       *)
(* outbox, interleaved at awaits.  The awaits that may suspend are the     *)
(* read of a relay buffer, the wait for the predecessor in a receive lane, *)
(* and every hop of _route_result; a put into a socket does not.  The      *)
(* scheduler is a thread behind its inbox and its outbox.                  *)
(*                                                                         *)
(* A request id is used once.                                              *)
(***************************************************************************)
EXTENDS Naturals, Sequences, FiniteSets

CONSTANTS
    Ids,             \* request ids
    Sources,         \* upstream stages
    PayloadSources,  \* those that send payloads: wait_for
    StreamSources,   \* those that send stream chunks
    LocalSources,    \* those in the same process (local_dispatch.py)
    Wanted,          \* id -> the sources its fan-in needs (wait_for_fn)
    Deciders,        \* sources whose payload lets wait_for_fn answer
    Downstream,      \* downstream stages
    StreamTo,        \* sequence of the stages it streams to
    NextStages,      \* sequence of get_next's stages; empty: it is terminal
    Replicated,      \* those with replicas
    AcceptEarly,     \* can_accept_stream_before_payload
    EarlyResult,     \* may the scheduler end a request before its streams end?
    MaxChunks,       \* bound: chunks of a source for a request
    AbortCap, AbortKeep,  \* 10000 and 5000 in _record_bounded_request_id
    MayFail,         \* may a read, or a request in the scheduler, fail?
    None

ASSUME StageAssumption ==
    /\ Sources = PayloadSources \cup StreamSources
    /\ LocalSources \subseteq Sources
    /\ Wanted \in [Ids -> SUBSET PayloadSources]
    /\ PayloadSources # {} => \A r \in Ids : Wanted[r] \cap Deciders # {}
    /\ StreamTo \in Seq(Downstream) /\ NextStages \in Seq(Downstream)
    /\ MaxChunks \in Nat /\ AbortCap \in Nat /\ AbortKeep \in 0..AbortCap
    /\ {AcceptEarly, EarlyResult, MayFail} \subseteq BOOLEAN
    /\ None \notin Sources \cup Ids

\* A SubmitMessage or a DataReadyMessage; n is the chunk id of a chunk.
Msg ==
    [kind : {"submit"}, id : Ids, src : {None}, n : {0}]
    \cup [kind : {"chunk"}, id : Ids, src : StreamSources, n : 1..MaxChunks]
    \cup [kind : {"done"}, id : Ids, src : StreamSources, n : {0}]
    \cup [kind : {"payload"}, id : Ids, src : PayloadSources, n : {0}]

VARIABLES
    aborted,     \* _aborted
    active,      \* _active_requests
    bindings,    \* ids with _replica_bindings
    opened,      \* ids with a queue in _stream_queue
    pending,     \* id -> sources in AggregatedInput._pending
    decided,     \* ids in AggregatedInput._expected_sources
    lane,        \* <<id, source>> -> messages whose completion is not set
    task,        \* message -> state of its receive task
    arrived,     \* messages the control plane has delivered
    relayed,     \* those whose data is in a relay buffer of the sender
    acked,       \* message -> DataAckMessages sent for it
    sched,       \* id -> state in the scheduler
    seen,        \* id -> what was put into the scheduler's inbox; the message
                 \* that completed the fan-in stands for the new_request
    outbox,      \* the scheduler's outbox
    route,       \* hops the drain coroutine has left, and for which message
    told,        \* id -> CompleteMessages sent to the coordinator
    finished,    \* history: ids whose result was routed
    aborts,      \* history: ids the coordinator has aborted
    alive        \* "running", or why the stage has died

tables == <<aborted, active, bindings, opened, pending, decided>>
receiving == <<lane, task, arrived, relayed, acked>>
sending == <<outbox, route, told, finished>>
vars == <<tables, receiving, sched, seen, sending, aborts, alive>>

TaskState == {"none", "reading", "draining", "read", "failed", "over", "done"}

TypeOK ==
    /\ aborted \in SUBSET Ids /\ active \in SUBSET Ids
    /\ bindings \in SUBSET Ids /\ opened \in SUBSET Ids
    /\ decided \in SUBSET Ids
    /\ pending \in [Ids -> SUBSET PayloadSources]
    /\ lane \in [Ids \X Sources -> Seq(Msg)]
    /\ task \in [Msg -> TaskState]
    /\ arrived \in SUBSET Msg /\ relayed \in SUBSET Msg
    /\ acked \in [Msg -> 0..1]
    /\ sched \in [Ids -> {"none", "busy", "over"}]
    /\ seen \in [Ids -> Seq(Msg)]
    /\ outbox \in Seq([id : Ids, kind : {"stream", "result", "error"}])
    /\ \/ route = None
       \/ /\ route.id \in Ids /\ route.kind \in {"stream", "result"}
          /\ Len(route.hops) <= Len(StreamTo) + Len(NextStages)
    /\ told \in [Ids -> SUBSET {"ok", "fail"}]
    /\ finished \in SUBSET Ids /\ aborts \in SUBSET Ids
    /\ alive \in {"running", "crashed", "unbound", "raised"}

Init ==
    /\ aborted = {} /\ active = {} /\ bindings = {} /\ opened = {}
    /\ pending = [r \in Ids |-> {}] /\ decided = {}
    /\ lane = [l \in Ids \X Sources |-> <<>>]
    /\ task = [m \in Msg |-> "none"]
    /\ arrived = {} /\ relayed = {}
    /\ acked = [m \in Msg |-> 0]
    /\ sched = [r \in Ids |-> "none"]
    /\ seen = [r \in Ids |-> <<>>]
    /\ outbox = <<>> /\ route = None
    /\ told = [r \in Ids |-> {}]
    /\ finished = {} /\ aborts = {}
    /\ alive = "running"

-----------------------------------------------------------------------------
\* Per-request state.  A definition named Faulty... is what its successor would
\* be with a plausible bug; only the mutation runs use it.

\* _record_replica_bindings
WithBindings(r) == IF r \in aborted THEN bindings ELSE bindings \cup {r}

\* _record_bounded_request_id: the possible new values of _aborted.  A set has
\* no order, so any ids may go when it is over its cap, the new one too.
Recorded(r) ==
    LET ids == aborted \cup {r}
    IN  IF Cardinality(ids) <= AbortCap THEN {ids}
        ELSE {kept \in SUBSET ids : Cardinality(kept) = AbortKeep}

\* The stream queue is left open.
FaultyClear(r) ==
    /\ active' = active \ {r}
    /\ pending' = [pending EXCEPT ![r] = {}]
    /\ decided' = decided \ {r}
    /\ bindings' = bindings \ {r}
    /\ UNCHANGED opened

\* _clear_request_state
Clear(r) ==
    /\ active' = active \ {r}
    /\ pending' = [pending EXCEPT ![r] = {}]
    /\ decided' = decided \ {r}
    /\ bindings' = bindings \ {r}
    /\ opened' = opened \ {r}

\* _send_failure
SendFailure(r) ==
    /\ aborted' \in Recorded(r)
    /\ told' = [told EXCEPT ![r] = @ \cup {"fail"}]
    /\ Clear(r)

\* scheduler.abort, as the new value of sched.
SchedAborted(r) == [sched EXCEPT ![r] = "over"]

-----------------------------------------------------------------------------
\* What becomes of a message once its turn has come.  Each of these sets
\* tables, sched, seen and told; `bound` is the new value of bindings.

Ignore == UNCHANGED <<tables, sched, seen, told>>

\* _execute
Execute(m) ==
    /\ seen' = [seen EXCEPT ![m.id] = Append(@, m)]
    /\ sched' = [sched EXCEPT ![m.id] = IF @ = "none" THEN "busy" ELSE @]

HasStreamQueue == StreamSources # {}

\* What the resolver once said is not kept.
FaultyKnown(r, s) == s \in Deciders

\* Are the expected sources of r known when the payload of s comes?
Known(r, s) == r \in decided \/ s \in Deciders

\* _receive_payload_from_stage and AggregatedInput.receive.  What the pipeline
\* is configured with is consistent: only stages in wait_for send payloads, the
\* resolver answers with some of them, and no other stage sends one for the
\* request (Arrives), so that the warning and the ValueErrors of receive() do
\* not happen.
ReceivePayload(m, bound) ==
    LET r   == m.id
        got == pending[r] \cup {m.src}
        known == Known(r, m.src)
    IN  /\ active' = active \cup {r}
        /\ opened' = IF HasStreamQueue THEN opened \cup {r} ELSE opened
        /\ \/ /\ known /\ got = Wanted[r]
              /\ pending' = [pending EXCEPT ![r] = {}]
              /\ decided' = decided \ {r}
              /\ Execute(m)
           \/ /\ ~(known /\ got = Wanted[r])
              /\ pending' = [pending EXCEPT ![r] = got]
              /\ decided' = IF known THEN decided \cup {r} ELSE decided
              /\ UNCHANGED <<seen, sched>>
        /\ bindings' = bound
        /\ UNCHANGED <<aborted, told>>

\* A chunk (_route_stream_item_or_fail) or a done signal
\* (_receive_stream_signal): into the scheduler's inbox, unless it comes
\* before the payload at a stage that is not prepared for that.
ReceiveStream(m, bound) ==
    LET r == m.id
        open == HasStreamQueue /\ (r \in opened \/ AcceptEarly)
    IN  \/ /\ open
           /\ active' = active \cup {r}
           /\ opened' = opened \cup {r}
           /\ seen' = [seen EXCEPT ![r] = Append(@, m)]
           /\ bindings' = bound
           /\ UNCHANGED <<aborted, pending, decided, sched, told>>
        \/ /\ ~open
           /\ SendFailure(r)
           /\ sched' = SchedAborted(r)
           /\ UNCHANGED seen

\* The check before the read is taken to be enough.
FaultyDropped(m) == FALSE

\* `if request_id in self._aborted: return`, after the read.
Dropped(m) == m.id \in aborted

Deliver(m, bound) ==
    \/ Dropped(m) /\ Ignore
    \/ ~Dropped(m) /\ m.kind = "payload" /\ ReceivePayload(m, bound)
    \/ ~Dropped(m) /\ m.kind \in {"chunk", "done"} /\ ReceiveStream(m, bound)

\* The read has failed: _send_failure for a payload, even of an aborted
\* request; _queue_stream_error for a chunk.
Failure(m) ==
    \/ /\ m.kind = "payload"
       /\ SendFailure(m.id)
       /\ UNCHANGED <<sched, seen>>
    \/ /\ m.kind = "chunk" /\ m.id \in aborted
       /\ Ignore
    \/ /\ m.kind = "chunk" /\ m.id \notin aborted
       /\ SendFailure(m.id)
       /\ sched' = SchedAborted(m.id)
       /\ UNCHANGED seen

-----------------------------------------------------------------------------
\* The message loop and the receive tasks.

\* The order in which an upstream stage sends: its chunks, then the done
\* signal, then (_route_result) its payload.
Arrives(m) ==
    LET sentBefore(k, n) == [kind |-> k, id |-> m.id, src |-> m.src, n |-> n] \in arrived
    IN  /\ alive = "running"
        /\ m \notin arrived
        /\ m.kind = "chunk" => /\ m.n > 1 => sentBefore("chunk", m.n - 1)
                               /\ ~sentBefore("done", 0)
        /\ m.kind = "payload" => /\ m.src \in Wanted[m.id]
                                 /\ m.src \in StreamSources => sentBefore("done", 0)
        /\ arrived' = arrived \cup {m}

\* _on_submit, at the entry stage.
Submit(m) ==
    /\ m.kind = "submit" /\ PayloadSources = {}
    /\ Arrives(m)
    /\ \/ /\ m.id \in aborted
          /\ Ignore
       \/ /\ m.id \notin aborted
          /\ active' = active \cup {m.id}
          /\ bindings' = WithBindings(m.id)
          /\ opened' = IF HasStreamQueue THEN opened \cup {m.id} ELSE opened
          /\ Execute(m)
          /\ UNCHANGED <<aborted, pending, decided, told>>
    /\ UNCHANGED <<lane, task, relayed, acked, outbox, route, finished, aborts,
                   alive>>

\* A message of a stage in the same process is delivered by the sender.
ReceiveLocal(m) ==
    /\ m.src \in LocalSources
    /\ Arrives(m)
    /\ Deliver(m, WithBindings(m.id))
    /\ UNCHANGED <<lane, task, relayed, acked, outbox, route, finished, aborts,
                   alive>>

\* Nobody reads what an aborted request was sent.
FaultyAbortedRead == "over"

\* _discard_data, _discard_stream_chunk_data: the buffer is read all the same.
AbortedRead == "draining"

\* _schedule_receive_task and the handler up to its first wait.  Data comes in
\* a relay buffer, or with the message (inline, CUDA IPC).
Schedule(m) ==
    /\ m.src \in Sources \ LocalSources
    /\ Arrives(m)
    /\ bindings' = WithBindings(m.id)
    /\ lane' = [lane EXCEPT ![<<m.id, m.src>>] = Append(@, m)]
    /\ active' = IF m.kind = "chunk" /\ m.id \notin aborted
                 THEN active \cup {m.id} ELSE active
    /\ \/ /\ m.kind = "done"
          /\ task' = [task EXCEPT ![m] = "read"]
          /\ UNCHANGED relayed
       \/ /\ m.kind # "done"
          /\ task' = [task EXCEPT ![m] =
                         IF m.id \in aborted THEN AbortedRead ELSE "reading"]
          /\ relayed' = relayed \cup {m}
       \/ /\ m.kind # "done"
          /\ \E result \in IF m.id \in aborted THEN {"over"}
                            ELSE IF MayFail THEN {"read", "failed"} ELSE {"read"} :
                task' = [task EXCEPT ![m] = result]
          /\ UNCHANGED relayed
    /\ UNCHANGED <<aborted, opened, pending, decided, acked, sched, seen,
                   sending, aborts, alive>>

\* What is drained is acknowledged by the drain and by its caller.
FaultyAcknowledged(m) ==
    [acked EXCEPT ![m] = @ + IF task[m] = "draining" THEN 2 ELSE 1]

\* _send_data_ack, as the new value of acked.
Acknowledged(m) == [acked EXCEPT ![m] = @ + 1]

\* A read, or the draining of one, ends and is acknowledged; the reads of
\* different messages end in any order.
EndRead(m) ==
    /\ alive = "running"
    /\ \/ /\ task[m] = "reading"
          /\ \E result \in IF MayFail THEN {"read", "failed"} ELSE {"read"} :
                task' = [task EXCEPT ![m] = result]
       \/ /\ task[m] = "draining"
          /\ task' = [task EXCEPT ![m] = "over"]
    /\ acked' = Acknowledged(m)
    /\ UNCHANGED <<tables, lane, arrived, relayed, sched, seen, sending,
                   aborts, alive>>

\* Whoever has read its data goes on.
FaultyItsTurn(m) == TRUE

\* _wait_for_receive_predecessor
ItsTurn(m) == Head(lane[m.id, m.src]) = m

\* The handler goes on after its wait, and _run_receive_task ends.
Advance(m) ==
    /\ alive = "running"
    /\ task[m] \in {"read", "failed", "over"}
    /\ ItsTurn(m)
    /\ \/ task[m] = "over" /\ Ignore
       \/ task[m] = "failed" /\ Failure(m)
       \/ task[m] = "read" /\ Deliver(m, bindings)
    /\ task' = [task EXCEPT ![m] = "done"]
    /\ lane' = [lane EXCEPT ![<<m.id, m.src>>] = Tail(@)]
    /\ UNCHANGED <<arrived, relayed, acked, outbox, route, finished, aborts, alive>>

\* The discard of data that came by CUDA IPC raises out of its receive task.
\* When the tasks before it in the lane are over, _on_background_task_done
\* stops the stage.
DiscardRaises ==
    /\ MayFail
    /\ alive = "running"
    /\ \E m \in Msg : task[m] = "over" /\ m \notin relayed /\ ItsTurn(m)
    /\ alive' = "raised"
    /\ UNCHANGED <<tables, receiving, sched, seen, sending, aborts>>

\* _on_abort
Abort(r) ==
    /\ alive = "running"
    /\ r \notin aborts
    /\ aborts' = aborts \cup {r}
    /\ aborted' \in Recorded(r)
    /\ Clear(r)
    /\ sched' = SchedAborted(r)
    /\ UNCHANGED <<receiving, seen, sending, alive>>

-----------------------------------------------------------------------------
\* The scheduler thread, as far as the stage sees it.

\* StreamingSimpleScheduler ends a request at the done signal of its stream.  A
\* scheduler that may end one sooner has EarlyResult.
StreamsEnded(r) ==
    \A s \in StreamSources : \E i \in 1..Len(seen[r]) :
        seen[r][i].kind = "done" /\ seen[r][i].src = s

\* Bound: one stream item is in the outbox at a time.
SchedStreams(r) ==
    /\ alive = "running"
    /\ sched[r] = "busy"
    /\ \A i \in 1..Len(outbox) : outbox[i].kind # "stream"
    /\ outbox' = Append(outbox, [id |-> r, kind |-> "stream"])
    /\ UNCHANGED <<tables, receiving, sched, seen, route, told, finished,
                   aborts, alive>>

SchedEnds(r) ==
    /\ alive = "running"
    /\ sched[r] = "busy"
    /\ EarlyResult \/ StreamsEnded(r)
    /\ \E k \in IF MayFail THEN {"result", "error"} ELSE {"result"} :
          outbox' = Append(outbox, [id |-> r, kind |-> k])
    /\ sched' = [sched EXCEPT ![r] = "over"]
    /\ UNCHANGED <<tables, receiving, seen, route, told, finished, aborts, alive>>

\* Only the requests the scheduler has not ended are told.
FaultyCrashed == {r \in active \ aborted : sched[r] = "busy"}

\* active_request_ids in _handle_scheduler_crash
Crashed == active \ aborted

\* The thread dies: _handle_scheduler_crash.  Ids may be evicted from _aborted
\* at each of the requests that are failed.
SchedulerCrash ==
    /\ MayFail
    /\ alive = "running"
    /\ alive' = "crashed"
    /\ told' = [r \in Ids |-> IF r \in Crashed THEN told[r] \cup {"fail"} ELSE told[r]]
    /\ LET ids == aborted \cup Crashed
       IN  aborted' \in IF Cardinality(ids) <= AbortCap THEN {ids}
                        ELSE {kept \in SUBSET ids : Cardinality(kept) \in AbortKeep..AbortCap}
    /\ active' = active \ Crashed
    /\ bindings' = bindings \ Crashed
    /\ opened' = opened \ Crashed
    /\ decided' = decided \ Crashed
    /\ pending' = [r \in Ids |-> IF r \in Crashed THEN {} ELSE pending[r]]
    /\ sched' = [r \in Ids |-> IF r \in Crashed THEN "over" ELSE sched[r]]
    /\ UNCHANGED <<receiving, seen, outbox, route, finished, aborts>>

-----------------------------------------------------------------------------
\* _drain_outbox_external

\* _resolve_target_instance: RuntimeError "no replica binding for target".
Unresolvable(r, target) == target \in Replicated /\ r \notin bindings

\* The first of `hops` begins; if it raises, the drain task dies and
\* _on_background_task_done stops the stage.
TakeHop(r, kind, hops) ==
    \/ /\ Unresolvable(r, Head(hops))
       /\ alive' = "unbound"
       /\ route' = None
    \/ /\ ~Unresolvable(r, Head(hops))
       /\ route' = [id |-> r, kind |-> kind, hops |-> Tail(hops)]
       /\ UNCHANGED alive

\* The end of _route_result; at a terminal stage, the coordinator is told.
FinishRoute(r) ==
    /\ told' = IF NextStages = <<>> THEN [told EXCEPT ![r] = @ \cup {"ok"}] ELSE told
    /\ finished' = finished \cup {r}
    /\ route' = None
    /\ Clear(r)
    /\ UNCHANGED <<aborted, alive>>

\* The next message of the outbox.
Drain ==
    LET r == Head(outbox).id
        kind == Head(outbox).kind
        hops == StreamTo \o NextStages
    IN  /\ alive = "running"
        /\ route = None
        /\ outbox # <<>>
        /\ outbox' = Tail(outbox)
        /\ \/ /\ r \notin active \/ (kind = "stream" /\ StreamTo = <<>>)
              /\ UNCHANGED <<tables, route, told, finished, alive>>
           \/ /\ r \in active /\ kind = "error"
              /\ SendFailure(r)
              /\ UNCHANGED <<route, finished, alive>>
           \/ /\ r \in active /\ kind = "stream" /\ StreamTo # <<>>
              /\ route' = [id |-> r, kind |-> kind, hops |-> StreamTo]
              /\ UNCHANGED <<tables, told, finished, alive>>
           \/ /\ r \in active /\ kind = "result" /\ hops # <<>>
              /\ TakeHop(r, kind, hops)
              /\ UNCHANGED <<tables, told, finished>>
           \/ /\ r \in active /\ kind = "result" /\ hops = <<>>
              /\ FinishRoute(r)
        /\ UNCHANGED <<receiving, sched, seen, aborts>>

\* The drain coroutine goes on after the await of a hop.  The sends of a stream
\* chunk are tasks of their own, so the first one too is behind an await.
HopOn ==
    /\ alive = "running"
    /\ route # None
    /\ outbox' = outbox
    /\ \/ /\ route.hops # <<>>
          /\ TakeHop(route.id, route.kind, route.hops)
          /\ UNCHANGED <<tables, told, finished>>
       \/ /\ route.hops = <<>> /\ route.kind = "result"
          /\ FinishRoute(route.id)
       \/ /\ route.hops = <<>> /\ route.kind = "stream"
          /\ route' = None
          /\ UNCHANGED <<tables, told, finished, alive>>
    /\ UNCHANGED <<receiving, sched, seen, aborts>>

-----------------------------------------------------------------------------
Next ==
    \/ \E m \in Msg : Submit(m) \/ ReceiveLocal(m) \/ Schedule(m)
                                \/ EndRead(m) \/ Advance(m)
    \/ \E r \in Ids : Abort(r) \/ SchedStreams(r) \/ SchedEnds(r)
    \/ DiscardRaises \/ SchedulerCrash \/ Drain \/ HopOn

Spec == Init /\ [][Next]_vars

(***************************************************************************)
(* Fairness: reads end (the relays have timeouts), the event loop runs     *)
(* what is ready, upstream stages send what they have begun and the        *)
(* scheduler ends the requests it was given.                               *)
(***************************************************************************)
Fairness ==
    /\ \A m \in Msg :
          /\ WF_vars(EndRead(m))
          /\ WF_vars(Advance(m))
          /\ m.kind # "chunk" => WF_vars(Submit(m) \/ ReceiveLocal(m) \/ Schedule(m))
    /\ \A r \in Ids : WF_vars(SchedEnds(r))
    /\ WF_vars(Drain \/ HopOn)

FairSpec == Spec /\ Fairness

-----------------------------------------------------------------------------
\* Properties.

\* The place of a message among those of its lane.
Rank(m) == IF m.kind = "chunk" THEN m.n ELSE IF m.kind = "done" THEN MaxChunks + 1
                                                              ELSE MaxChunks + 2

\* The scheduler is given what one source sent for a request in the order in
\* which it was sent -- the chunks by number, the done signal after them, the
\* payload last -- though the reads behind it end in any order.
LaneOrder ==
    \A r \in Ids : \A i, j \in 1..Len(seen[r]) :
        i < j /\ seen[r][i].src = seen[r][j].src
            => Rank(seen[r][i]) < Rank(seen[r][j])

\* Nothing of a request that the stage knows to be aborted or failed reaches
\* the scheduler, whatever was being read when it was aborted.
NothingAfterAbort ==
    [][\A r \in aborted : seen'[r] = seen[r]]_vars

Pending(r) == \E m \in Msg : m.id = r /\ task[m] \notin {"none", "done"}

\* When a request is over at this stage and none of its messages is being
\* received, the stage keeps nothing of it: neither a fan-in that would take a
\* payload, nor a stream queue, nor a replica binding, nor its place among the
\* active requests.
NothingLeftBehind ==
    \A r \in finished \cup aborted :
        ~Pending(r) /\ (route # None => route.id # r) =>
            /\ r \notin active \cup opened \cup bindings \cup decided
            /\ pending[r] = {}

\* A request that was handed to the scheduler is active until it was aborted,
\* it was failed or its result was routed, so that the drain coroutine never
\* drops the result of a live request; and when the scheduler crashes, the
\* coordinator hears of every request it held.
HandedIsTracked ==
    \A r \in Ids : seen[r] # <<>> =>
        \/ r \in active /\ alive # "crashed"
        \/ r \in aborts \cup finished
        \/ "fail" \in told[r]

\* _resolve_target_instance raises "no replica binding for target": a request
\* that is routed to a replicated stage has its binding, whoever aborts it
\* meanwhile.
RoutedIsBound == alive # "unbound"

\* A relay buffer is acknowledged once, when its read or its draining is over,
\* and nothing else is: whatever was aborted, failed or came out of order, no
\* task that had a buffer to read is past that without an acknowledgement.
BuffersAnsweredOnce ==
    \A m \in Msg :
        acked[m] = IF m \in relayed /\ task[m] \notin {"reading", "draining"} THEN 1 ELSE 0

\* Every relay buffer that was announced to the stage is read and
\* acknowledged, so that the sender gets its slot back -- also when the
\* request was aborted in between.
BuffersAcknowledged ==
    \A m \in Msg : m \in relayed ~> acked[m] = 1 \/ alive # "running"

\* A request comes to an end at this stage: what it was given to hold is
\* routed, failed or aborted.
RequestLeaves ==
    \A r \in Ids : r \in active ~> r \notin active \/ alive # "running"

=============================================================================
