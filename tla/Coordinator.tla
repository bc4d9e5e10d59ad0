----------------------------- MODULE Coordinator -----------------------------
(***************************************************************************)
(* The request side of sglang_omni/pipeline/coordinator.py.                *)
(*                                                                         *)
(* The coordinator is one asyncio process.  Its coroutines interleave only *)
(* at awaits, so an action of this module is the code of one coroutine     *)
(* between two awaits that may suspend: the submit send, the abort         *)
(* broadcast, the wait for the completion future, the read of the stream   *)
(* queue and the wait for an abort task.  Puts into the (unbounded) stream *)
(* queues never suspend.                                                   *)
(*                                                                         *)
(* A caller is one call of submit() or stream().  The request id it passes *)
(* is not unique: a later caller may pass the id of an earlier one, so a   *)
(* caller is also the incarnation of its request id, and the identity of   *)
(* the RequestInfo, future and queue objects it creates.                   *)
(***************************************************************************)
EXTENDS Naturals, Sequences, FiniteSets

CONSTANTS
    Ids,          \* request ids
    Callers,      \* calls of submit() and stream()
    Stages,       \* logical stage names
    Terminals,    \* Coordinator(terminal_stages=...)
    None,         \* a missing dict entry; also the stage name "coordinator"
    MaxInFlight,  \* Coordinator(max_in_flight=...); a large number is "no cap"
    HasResolver,  \* is a terminal_stages_resolver configured?
    FreshIds,     \* do callers always pass a fresh id (the client's uuid4)?
    MayCancel,    \* may a caller be cancelled or its stream be closed?
    MayAbort,     \* may somebody call abort()?
    MayFail,      \* may a stage report a failure, and the runner fail all?
    FaultyIO      \* may a send or a broadcast raise?

ASSUME ConstAssumption ==
    /\ None \notin Callers \cup Stages
    /\ Terminals \subseteq Stages
    /\ IsFiniteSet(Terminals)
    /\ MaxInFlight \in Nat
    /\ {HasResolver, FreshIds, MayCancel, MayAbort, MayFail, FaultyIO}
           \subseteq BOOLEAN

VARIABLES
    requests,           \* id -> incarnation whose RequestInfo is tracked
    state,              \* RequestInfo.state of an incarnation
    completion_futures, \* id -> incarnation whose future is registered
    fut,                \* what became of an incarnation's future
    stream_queues,      \* id -> incarnation whose queue is registered
    queue,              \* contents of an incarnation's queue
    abort_tasks,        \* id -> incarnation a running abort task was made for
    partial_results,    \* id -> terminals whose results were collected
    failing,            \* failure whose broadcast the completion loop awaits
    running,            \* _running
    fatal,              \* is _fatal_error set?
    closed,             \* are the control plane's sockets closed?
    loop,               \* where run_completion_loop is
    pc, outcome,        \* where a caller's coroutine is, and how it ended
    rid, method, terms,     \* a caller's id, its method, its request's terminals
    expected, completed,    \* stream(): terminals it waits for, and has seen
    awaited,                \* submit(): the future it awaits
    delivered,          \* callers whose request the entry stage has got
    inbox,              \* stage -> its messages on their way to recv_event
    answered,           \* stages that have answered an incarnation for good
    applied             \* history: whose results a request was given

tables == <<requests, completion_futures, stream_queues, abort_tasks,
            partial_results>>
objects == <<state, fut, queue>>
service == <<running, fatal, closed, loop>>
args == <<rid, method, terms>>
waits == <<expected, completed, awaited, delivered>>
call == <<pc, outcome, args, waits>>
network == <<inbox, answered>>
vars == <<tables, objects, failing, service, call, network, applied>>

RequestState == {"pending", "running", "completed", "failed", "aborted"}
FutureState == {"pending", "result", "error", "cancelled"}
Method == {"submit", "stream"}
PC == {"idle", "sending", "await", "reading", "aborting", "abort_over", "done"}
Outcome == {"none", "rejected", "result", "error", "cancelled", "closed"}

\* A StreamMessage ("chunk") or CompleteMessage ("ok", "fail").  `inc` is
\* history: the code sees IdOf(m) only.
Message == [kind : {"chunk", "ok", "fail"}, stage : Stages \cup {None},
            inc : Callers]

TypeOK ==
    /\ requests \in [Ids -> Callers \cup {None}]
    /\ state \in [Callers -> RequestState]
    /\ completion_futures \in [Ids -> Callers \cup {None}]
    /\ fut \in [Callers -> FutureState]
    /\ stream_queues \in [Ids -> Callers \cup {None}]
    /\ queue \in [Callers -> Seq(Message)]
    /\ abort_tasks \in [Ids -> Callers \cup {None}]
    /\ partial_results \in [Ids -> SUBSET Terminals]
    /\ failing \in Message \cup {None}
    /\ running \in BOOLEAN /\ fatal \in BOOLEAN /\ closed \in BOOLEAN
    /\ loop \in {"recv", "broadcast", "ended"}
    /\ pc \in [Callers -> PC]
    /\ outcome \in [Callers -> Outcome]
    /\ rid \in [Callers -> Ids \cup {None}]
    /\ method \in [Callers -> Method]
    /\ terms \in [Callers -> SUBSET Terminals]
    /\ expected \in [Callers -> SUBSET Terminals]
    /\ completed \in [Callers -> SUBSET Stages]
    /\ awaited \in [Callers -> Callers \cup {None}]
    /\ delivered \in SUBSET Callers
    /\ inbox \in [Stages -> Seq(Message)]
    /\ answered \in [Callers -> SUBSET Stages]
    /\ applied \in [Callers -> SUBSET Callers]

Init ==
    /\ requests = [r \in Ids |-> None]
    /\ state = [c \in Callers |-> "pending"]
    /\ completion_futures = [r \in Ids |-> None]
    /\ fut = [c \in Callers |-> "pending"]
    /\ stream_queues = [r \in Ids |-> None]
    /\ queue = [c \in Callers |-> <<>>]
    /\ abort_tasks = [r \in Ids |-> None]
    /\ partial_results = [r \in Ids |-> {}]
    /\ failing = None
    /\ running = TRUE /\ fatal = FALSE /\ closed = FALSE /\ loop = "recv"
    /\ pc = [c \in Callers |-> "idle"]
    /\ outcome = [c \in Callers |-> "none"]
    /\ rid = [c \in Callers |-> None]
    /\ method = [c \in Callers |-> "submit"]
    /\ terms = [c \in Callers |-> {}]
    /\ expected = [c \in Callers |-> {}]
    /\ completed = [c \in Callers |-> {}]
    /\ awaited = [c \in Callers |-> None]
    /\ delivered = {}
    /\ inbox = [t \in Stages |-> <<>>]
    /\ answered = [c \in Callers |-> {}]
    /\ applied = [c \in Callers |-> {}]

-----------------------------------------------------------------------------
\* Helpers.  A definition named Faulty... is what its successor would be with a
\* plausible bug; only the mutation runs use it.

IdOf(m) == rid[m.inc]

Tracked == {r \in Ids : requests[r] # None}

\* The fourth dict is not looked up.
FaultyReserved(r) ==
    \/ requests[r] # None
    \/ completion_futures[r] # None
    \/ stream_queues[r] # None

\* _request_id_is_reserved
Reserved(r) ==
    \/ requests[r] # None
    \/ completion_futures[r] # None
    \/ stream_queues[r] # None
    \/ abort_tasks[r] # None

\* _resolve_terminal_stages: the static set, or a resolver's non-empty subset.
ResolvedTerminals ==
    IF HasResolver /\ Terminals # {} THEN SUBSET Terminals \ {{}}
                                     ELSE {Terminals}

\* _expected_terminal_stages: the static set once the request is not tracked.
ExpectedTerminals(r) ==
    IF requests[r] = None THEN Terminals ELSE terms[requests[r]]

\* The first result is taken for the last.
FaultyStillWaiting(partials, goal) == partials = {}

\* set(partials) < expected_terminal_stages
StillWaiting(partials, goal) == partials \subseteq goal /\ partials # goal

\* A second copy of the dict is popped, not the coordinator's.
FaultyWithoutPartials(r) == partial_results

\* _partial_results.pop, as the new value of partial_results.
WithoutPartials(r) == [partial_results EXCEPT ![r] = {}]

\* The caller that waits is not told.
FaultyRejected(r) == fut

\* _reject_completion_future, as the new value of fut.
Rejected(r) ==
    LET f == completion_futures[r]
    IN  IF f = None \/ fut[f] # "pending" THEN fut
        ELSE [fut EXCEPT ![f] = IF stream_queues[r] # None THEN "cancelled"
                                                           ELSE "error"]

\* future.set_result unless it is done, as the new value of fut.
Resolved(r) ==
    LET f == completion_futures[r]
    IN  IF f = None \/ fut[f] # "pending" THEN fut
        ELSE [fut EXCEPT ![f] = "result"]

\* Only the first message reaches the queue.
FaultyPut(r, m) ==
    IF stream_queues[r] = None \/ queue[stream_queues[r]] # <<>> THEN queue
    ELSE [queue EXCEPT ![stream_queues[r]] = Append(@, m)]

\* A put into the queue registered for r, if there is one.
Put(r, m) ==
    IF stream_queues[r] = None THEN queue
    ELSE [queue EXCEPT ![stream_queues[r]] = Append(@, m)]

\* The name is not one of the logical stage names the callers know.
FaultyGivenUp(c) == [kind |-> "fail", stage |-> "coordinator-0", inc |-> c]

\* The CompleteMessage the coordinator itself puts when it gives up on c.
GivenUp(c) == [kind |-> "fail", stage |-> None, inc |-> c]

InTerminalState(c) == state[c] \in {"completed", "failed", "aborted"}

-----------------------------------------------------------------------------
\* submit() and stream() up to the send: _submit_request.

\* len(self._requests) >= self.max_in_flight
InFlightFull == Cardinality(Tracked) >= MaxInFlight

\* The ids a caller may pass: any, or one no earlier caller has passed.
Passable(r) == FreshIds => \A d \in Callers : rid[d] # r

\* A fatal error, a reserved id, a full coordinator or a request the resolver
\* or the replica binding rejects (`valid` is false): nothing is registered.
CallRejected(c) ==
    /\ pc[c] = "idle"
    /\ \E r \in Ids, valid \in BOOLEAN :
          /\ Passable(r)
          /\ fatal \/ Reserved(r) \/ InFlightFull \/ ~valid
          /\ rid' = [rid EXCEPT ![c] = r]
    /\ pc' = [pc EXCEPT ![c] = "done"]
    /\ outcome' = [outcome EXCEPT ![c] = "rejected"]
    /\ UNCHANGED <<method, terms, waits, tables, objects, failing, service,
                   network, applied>>

\* _submit_request up to the send.
Admit(c) ==
    /\ pc[c] = "idle"
    /\ pc' = [pc EXCEPT ![c] = "sending"]
    /\ \E r \in Ids, T \in ResolvedTerminals, k \in Method :
          /\ Passable(r)
          /\ ~fatal
          /\ ~Reserved(r)
          /\ ~InFlightFull
          /\ rid' = [rid EXCEPT ![c] = r]
          /\ terms' = [terms EXCEPT ![c] = T]
          /\ method' = [method EXCEPT ![c] = k]
          /\ requests' = [requests EXCEPT ![r] = c]
          /\ completion_futures' = [completion_futures EXCEPT ![r] = c]
          /\ stream_queues' =
                IF k = "stream" THEN [stream_queues EXCEPT ![r] = c]
                                 ELSE stream_queues
    /\ UNCHANGED <<outcome, waits, objects, abort_tasks, partial_results,
                   failing, service, network, applied>>

\* The state is set on a RequestInfo looked up before the await.
FaultyMarkRunning(c) == [state EXCEPT ![c] = "running"]

\* The RequestInfo that is tracked after the await, if any, becomes RUNNING.
MarkRunning(c) ==
    IF requests[rid[c]] = None THEN state
    ELSE [state EXCEPT ![requests[rid[c]]] = "running"]

\* The send completes: the stage gets the request, and the caller looks up
\* what it will wait for.  (submit() would die of a KeyError if its future were
\* gone: awaited[c] would be None, which SubmitIsServed excludes.)
SubmitSent(c) ==
    LET r == rid[c]
    IN  /\ pc[c] = "sending"
        /\ ~closed
        /\ delivered' = delivered \cup {c}
        /\ state' = MarkRunning(c)
        /\ \/ /\ method[c] = "stream"
              /\ pc' = [pc EXCEPT ![c] = "reading"]
              /\ expected' = [expected EXCEPT ![c] = ExpectedTerminals(r)]
              /\ UNCHANGED awaited
           \/ /\ method[c] = "submit"
              /\ pc' = [pc EXCEPT ![c] = "await"]
              /\ awaited' = [awaited EXCEPT ![c] = completion_futures[r]]
              /\ UNCHANGED expected
        /\ UNCHANGED <<outcome, args, completed, tables, fut, queue, failing, service,
                       network, applied>>

-----------------------------------------------------------------------------
\* submit() after the send.

\* The future is done; finally: it is unregistered.
SubmitReturns(c) ==
    /\ pc[c] = "await"
    /\ fut[awaited[c]] # "pending"
    /\ pc' = [pc EXCEPT ![c] = "done"]
    /\ outcome' = [outcome EXCEPT ![c] = fut[awaited[c]]]
    /\ completion_futures' = [completion_futures EXCEPT ![rid[c]] = None]
    /\ UNCHANGED <<args, waits, requests, stream_queues, abort_tasks,
                   partial_results, objects, failing, service, network,
                   applied>>

\* Cancelling a task that awaits a future cancels the future too; only the
\* future is unregistered, the request is left to the pipeline.
CancelSubmit(c) ==
    /\ MayCancel
    /\ pc[c] = "await"
    /\ fut' = [fut EXCEPT ![awaited[c]] =
                  IF @ = "pending" THEN "cancelled" ELSE @]
    /\ pc' = [pc EXCEPT ![c] = "done"]
    /\ outcome' = [outcome EXCEPT ![c] = "cancelled"]
    /\ completion_futures' = [completion_futures EXCEPT ![rid[c]] = None]
    /\ UNCHANGED <<args, waits, requests, stream_queues, abort_tasks,
                   partial_results, state, queue, failing, service, network,
                   applied>>

-----------------------------------------------------------------------------
\* stream() after the send.

\* The innermost finally of stream(): the queue, if it is still this call's,
\* and the future are unregistered.
Unregister(c) ==
    IF stream_queues[rid[c]] = c
    THEN /\ stream_queues' = [stream_queues EXCEPT ![rid[c]] = None]
         /\ completion_futures' = [completion_futures EXCEPT ![rid[c]] = None]
    ELSE UNCHANGED <<stream_queues, completion_futures>>

\* The finally block of stream(), entered with outcome `how`, up to the wait
\* for the abort task if a tracked request is left behind.
LeaveStream(c, how) ==
    LET r == rid[c]
        joins == /\ stream_queues[r] = c
                 /\ requests[r] # None
                 /\ abort_tasks[r] # None \/ ~InTerminalState(requests[r])
    IN  /\ outcome' = [outcome EXCEPT ![c] = how]
        /\ \/ /\ joins
              /\ pc' = [pc EXCEPT ![c] = "aborting"]
              /\ abort_tasks' = [abort_tasks EXCEPT ![r] =
                                    IF @ = None THEN requests[r] ELSE @]
              /\ UNCHANGED <<stream_queues, completion_futures>>
           \/ /\ ~joins
              /\ pc' = [pc EXCEPT ![c] = "done"]
              /\ Unregister(c)
              /\ UNCHANGED abort_tasks

StayInStream ==
    UNCHANGED <<pc, outcome, stream_queues, completion_futures, abort_tasks>>

\* One turn of the loop in stream().
ReadEvent(c) ==
    /\ pc[c] = "reading"
    /\ queue[c] # <<>>
    /\ queue' = [queue EXCEPT ![c] = Tail(@)]
    /\ LET m    == Head(queue[c])
           done == completed[c] \cup ({m.stage} \ {None})
       IN  \/ /\ m.kind = "chunk"
              /\ StayInStream
              /\ UNCHANGED completed
           \/ /\ m.kind = "fail"
              /\ LeaveStream(c, "error")
              /\ UNCHANGED completed
           \/ /\ m.kind = "ok"
              /\ completed' = [completed EXCEPT ![c] = done]
              /\ IF expected[c] \subseteq done THEN LeaveStream(c, "result")
                                               ELSE StayInStream
    /\ UNCHANGED <<args, expected, awaited, delivered, requests,
                   partial_results, state, fut, failing, service, network,
                   applied>>

\* The consumer closes the generator, or its task is cancelled.
CloseStream(c) ==
    /\ MayCancel
    /\ pc[c] = "reading"
    /\ LeaveStream(c, "closed")
    /\ UNCHANGED <<args, waits, requests, partial_results, objects, failing,
                   service, network, applied>>

\* The send raises or its task is cancelled meanwhile.  stream() cleans up in
\* its finally block; submit() has not reached its own.
SendFails(c) ==
    /\ FaultyIO \/ MayCancel \/ closed
    /\ pc[c] = "sending"
    /\ \/ method[c] = "stream" /\ LeaveStream(c, "error")
       \/ /\ method[c] = "submit"
          /\ pc' = [pc EXCEPT ![c] = "done"]
          /\ outcome' = [outcome EXCEPT ![c] = "error"]
          /\ UNCHANGED <<stream_queues, completion_futures, abort_tasks>>
    /\ UNCHANGED <<args, waits, requests, partial_results, objects, failing,
                   service, network, applied>>

\* The awaited abort task is over, or the caller is cancelled again while it
\* waits: the task is shielded, the innermost finally still unregisters.
LeaveAbort(c) ==
    /\ \/ pc[c] = "abort_over"
       \/ MayCancel /\ pc[c] = "aborting"
    /\ Unregister(c)
    /\ pc' = [pc EXCEPT ![c] = "done"]
    /\ UNCHANGED <<outcome, args, waits, requests, abort_tasks,
                   partial_results, objects, failing, service, network,
                   applied>>

-----------------------------------------------------------------------------
\* abort() and its task.

\* abort() of a request that has no abort task yet.
Abort(r) ==
    /\ MayAbort
    /\ requests[r] # None
    /\ abort_tasks[r] = None
    /\ ~InTerminalState(requests[r])
    /\ abort_tasks' = [abort_tasks EXCEPT ![r] = requests[r]]
    /\ UNCHANGED <<requests, completion_futures, stream_queues,
                   partial_results, objects, failing, service, call, network,
                   applied>>

\* Waiters are not woken.
FaultyWakeWaiters(r) == pc

\* The callers that await the shielded task of r, as the new value of pc.
WakeWaiters(r) ==
    [c \in Callers |-> IF pc[c] = "aborting" /\ rid[c] = r THEN "abort_over"
                                                           ELSE pc[c]]

\* _run_abort after its broadcast, and _on_abort_task_done.
AbortTaskEnds(r) ==
    LET c == requests[r]
    IN  /\ abort_tasks[r] # None
        /\ ~closed
        /\ abort_tasks' = [abort_tasks EXCEPT ![r] = None]
        /\ pc' = WakeWaiters(r)
        /\ \/ /\ c = None
              /\ UNCHANGED <<requests, partial_results, objects>>
           \/ /\ c # None
              /\ state' = [state EXCEPT ![c] = "aborted"]
              /\ fut' = Rejected(r)
              /\ queue' = Put(r, GivenUp(c))
              /\ requests' = [requests EXCEPT ![r] = None]
              /\ partial_results' = WithoutPartials(r)
        /\ UNCHANGED <<outcome, args, waits, completion_futures,
                       stream_queues, failing, service, network, applied>>

\* The broadcast raises: the task fails, the request stays tracked.
AbortTaskFails(r) ==
    /\ FaultyIO \/ closed
    /\ abort_tasks[r] # None
    /\ abort_tasks' = [abort_tasks EXCEPT ![r] = None]
    /\ pc' = WakeWaiters(r)
    /\ UNCHANGED <<outcome, args, waits, requests, completion_futures,
                   stream_queues, partial_results, objects, failing, service,
                   network, applied>>

-----------------------------------------------------------------------------
\* run_completion_loop.

\* The loop looks at _running only between two messages.
Resume ==
    /\ loop' = IF running THEN "recv" ELSE "ended"
    /\ UNCHANGED <<running, fatal, closed>>

Receive(t) ==
    /\ loop = "recv"
    /\ ~closed
    /\ inbox[t] # <<>>
    /\ inbox' = [inbox EXCEPT ![t] = Tail(@)]
    /\ UNCHANGED answered

\* _handle_stream
HandleStream(t) ==
    /\ Receive(t)
    /\ Head(inbox[t]).kind = "chunk"
    /\ queue' = Put(IdOf(Head(inbox[t])), Head(inbox[t]))
    /\ Resume
    /\ UNCHANGED <<tables, state, fut, failing, call, applied>>

\* _handle_completion of a success: ignored (not tracked, or not a terminal of
\* the request), one of several and not the last, or the one that completes it.
HandleSuccess(t) ==
    LET m == Head(inbox[t])
        r == IdOf(m)
        c == requests[r]
        goal == ExpectedTerminals(r)
        partials == partial_results[r] \cup {t}
        ignored == c = None \/ (goal # {} /\ t \notin goal)
        waiting == Cardinality(goal) > 1 /\ StillWaiting(partials, goal)
    IN  /\ Receive(t)
        /\ m.kind = "ok"
        /\ \/ /\ ignored
              /\ UNCHANGED <<requests, partial_results, objects, applied>>
           \/ /\ ~ignored
              /\ applied' = [applied EXCEPT ![c] = @ \cup {m.inc}]
              /\ queue' = Put(r, m)
              /\ \/ /\ waiting
                    /\ partial_results' =
                          [partial_results EXCEPT ![r] = partials]
                    /\ UNCHANGED <<requests, state, fut>>
                 \/ /\ ~waiting
                    /\ state' = [state EXCEPT ![c] = "completed"]
                    /\ fut' = Resolved(r)
                    /\ requests' = [requests EXCEPT ![r] = None]
                    /\ partial_results' =
                          IF Cardinality(goal) > 1 THEN WithoutPartials(r)
                                                   ELSE partial_results
        /\ Resume
        /\ UNCHANGED <<completion_futures, stream_queues, abort_tasks,
                       failing, call>>

\* _handle_completion of a failure, up to its broadcast.
HandleFailure(t) ==
    LET m == Head(inbox[t])
        c == requests[IdOf(m)]
    IN  /\ Receive(t)
        /\ m.kind = "fail"
        /\ \/ /\ c = None
              /\ Resume
              /\ UNCHANGED <<state, failing>>
           \/ /\ c # None
              /\ state' = [state EXCEPT ![c] = "failed"]
              /\ failing' = m
              /\ loop' = "broadcast"
              /\ UNCHANGED <<running, fatal, closed>>
        /\ UNCHANGED <<tables, fut, queue, call, applied>>

\* The failed request is not popped.
FaultyWithoutRequest(r) == requests

\* _requests.pop at the end of the failure path, as the new value of requests.
WithoutRequest(r) == [requests EXCEPT ![r] = None]

\* _handle_completion of a failure, after its broadcast.
FinishFailure ==
    /\ failing # None
    /\ ~closed
    /\ partial_results' = WithoutPartials(IdOf(failing))
    /\ fut' = Rejected(IdOf(failing))
    /\ queue' = Put(IdOf(failing), failing)
    /\ requests' = WithoutRequest(IdOf(failing))
    /\ failing' = None
    /\ Resume
    /\ UNCHANGED <<completion_futures, stream_queues, abort_tasks, state,
                   call, network, applied>>

\* The broadcast of a failure raises: the completion loop is over.
LoopDies ==
    /\ FaultyIO \/ closed
    /\ failing # None
    /\ loop' = "ended"
    /\ failing' = None
    /\ UNCHANGED <<running, fatal, closed, tables, objects, call, network,
                   applied>>

-----------------------------------------------------------------------------
\* The runner.

\* fail_pending_requests
FailPendingRequests ==
    /\ MayFail
    /\ ~fatal
    /\ running' = FALSE /\ fatal' = TRUE
    /\ state' = [c \in Callers |->
          IF \E r \in Ids : requests[r] = c THEN "failed" ELSE state[c]]
    /\ fut' = [f \in Callers |->
          IF /\ fut[f] = "pending"
             /\ \E r \in Tracked : completion_futures[r] = f
          THEN IF \E r \in Tracked : stream_queues[r] = f
               THEN "cancelled" ELSE "error"
          ELSE fut[f]]
    /\ queue' = [q \in Callers |->
          IF \E r \in Tracked : stream_queues[r] = q
          THEN Append(queue[q], GivenUp(q)) ELSE queue[q]]
    /\ requests' = [r \in Ids |-> None]
    /\ partial_results' = [r \in Ids |-> {}]
    /\ UNCHANGED <<closed, loop, completion_futures, stream_queues,
                   abort_tasks, failing, call, network, applied>>

\* stop: after _fail_runtime has failed the requests, or at shutdown.
Stop ==
    /\ MayFail
    /\ ~closed
    /\ running' = FALSE /\ closed' = TRUE
    /\ UNCHANGED <<fatal, loop, tables, objects, failing, call, network,
                   applied>>

-----------------------------------------------------------------------------
\* The stages, as the coordinator sees them: every request that was delivered
\* to the entry stage is answered at most once by each stage, possibly long
\* after the coordinator has forgotten it; chunks precede the answer.

StageSends(c, t, kind) ==
    /\ c \in delivered
    /\ t \notin answered[c]
    /\ inbox' = [inbox EXCEPT ![t] =
                    Append(@, [kind |-> kind, stage |-> t, inc |-> c])]
    /\ answered' = IF kind = "chunk" THEN answered
                   ELSE [answered EXCEPT ![c] = @ \cup {t}]
    /\ UNCHANGED <<tables, objects, failing, service, call, applied>>

HasChunk(seq) == \E i \in 1..Len(seq) : seq[i].kind = "chunk"

\* Bound: one chunk is on its way or unread at a time.
StageStreams(c, t) ==
    /\ ~ \E u \in Stages : HasChunk(inbox[u])
    /\ ~ \E d \in Callers : HasChunk(queue[d])
    /\ StageSends(c, t, "chunk")

StageCompletes(c, t) == t \in Terminals /\ StageSends(c, t, "ok")

StageFails(c, t) == MayFail /\ StageSends(c, t, "fail")

-----------------------------------------------------------------------------
CallerStep(c) ==
    \/ CallRejected(c) \/ Admit(c) \/ SubmitSent(c) \/ SendFails(c)
    \/ SubmitReturns(c) \/ CancelSubmit(c)
    \/ ReadEvent(c) \/ CloseStream(c) \/ LeaveAbort(c)

AbortStep(r) == Abort(r) \/ AbortTaskEnds(r) \/ AbortTaskFails(r)

LoopStep ==
    \/ \E t \in Stages : HandleStream(t) \/ HandleSuccess(t) \/ HandleFailure(t)
    \/ FinishFailure \/ LoopDies

StageStep(c, t) ==
    StageStreams(c, t) \/ StageCompletes(c, t) \/ StageFails(c, t)

Next ==
    \/ \E c \in Callers : CallerStep(c)
    \/ \E r \in Ids : AbortStep(r)
    \/ LoopStep
    \/ FailPendingRequests \/ Stop
    \/ \E c \in Callers, t \in Stages : StageStep(c, t)

Spec == Init /\ [][Next]_vars

-----------------------------------------------------------------------------
(***************************************************************************)
(* Fairness.  The event loop runs every ready coroutine, the entry stage   *)
(* drains its socket, broadcasts end, and every terminal stage of a        *)
(* delivered request answers it.  Nothing makes a caller cancel, a stage   *)
(* fail or the runner stop.                                                *)
(***************************************************************************)
Progress(c) == SubmitSent(c) \/ SubmitReturns(c) \/ ReadEvent(c)
                             \/ (pc[c] = "abort_over" /\ LeaveAbort(c))

Fairness ==
    /\ \A c \in Callers : WF_vars(Progress(c)) /\ WF_vars(SendFails(c))
    /\ \A r \in Ids : WF_vars(AbortTaskEnds(r) \/ AbortTaskFails(r))
    /\ \A t \in Stages :
          WF_vars(HandleStream(t) \/ HandleSuccess(t) \/ HandleFailure(t))
    /\ WF_vars(FinishFailure \/ LoopDies)
    /\ \A c \in Callers, t \in Terminals :
          WF_vars(StageCompletes(c, t) \/ StageFails(c, t))

FairSpec == Spec /\ Fairness

-----------------------------------------------------------------------------
\* Properties.

\* Whatever is registered under a request id -- the tracked request, the
\* future, the stream queue, the target of the running abort task -- belongs
\* to one and the same call: _request_id_is_reserved never lets two
\* incarnations of an id share the coordinator's tables.
OwnersAgree ==
    \A r \in Ids :
        LET owners == {requests[r], completion_futures[r], stream_queues[r],
                       abort_tasks[r]} \ {None}
        IN  \A c, d \in owners : c = d

\* A submit() that waits has its own future registered, and the future is
\* settled or its request is still tracked, so something can still settle it:
\* no interleaving of abort, failure, cancellation and fail_pending_requests
\* drops the request and leaves the waiter behind, or finds the future gone.
SubmitIsServed ==
    \A c \in Callers :
        pc[c] = "await" =>
            /\ awaited[c] = c
            /\ completion_futures[rid[c]] = c
            /\ fut[c] # "pending" \/ requests[rid[c]] = c

\* What the queue of c still holds ends its stream: a failure, or every
\* terminal completion that is still missing.
QueueEnds(c) ==
    LET left == {queue[c][i] : i \in 1..Len(queue[c])}
    IN  \/ \E m \in left : m.kind = "fail"
        \/ /\ \E m \in left : m.kind = "ok"
           /\ expected[c] \subseteq completed[c]
                 \cup {m.stage : m \in {n \in left : n.kind = "ok"}}

\* A stream() that reads its queue will be fed to its end: its queue is
\* registered, and its request is tracked or the queue holds what ends it.
StreamIsServed ==
    \A c \in Callers :
        pc[c] = "reading" =>
            /\ stream_queues[rid[c]] = c
            /\ requests[rid[c]] = c \/ QueueEnds(c)

\* Results are collected for a tracked request with several terminals only,
\* never all of them: no path out of a request leaves its partial results
\* behind for the next request with its id.
PartialsBelongToRequest ==
    \A r \in Ids :
        partial_results[r] # {} =>
            /\ requests[r] # None
            /\ Cardinality(terms[requests[r]]) > 1
            /\ partial_results[r] \subseteq terms[requests[r]]
            /\ partial_results[r] # terms[requests[r]]

\* A request is given a result of another call with its id only if the request
\* of that call did not complete, or was itself given such a result: as long as
\* requests complete, an id can be used again at once and no result is left over
\* from its former use.
NoForeignCompletion ==
    \A c \in Callers : \A d \in applied[c] \ {c} :
        state[d] # "completed" \/ applied[d] \ {d} # {}

\* A settled future keeps its outcome, a call that is over stays over with the
\* outcome it has, and a RequestInfo that is no longer tracked never changes.
SettledForGood ==
    [][\A c \in Callers :
          /\ fut[c] # "pending" => fut'[c] = fut[c]
          /\ pc[c] = "done" => pc'[c] = "done" /\ outcome'[c] = outcome[c]
          /\ /\ pc[c] # "idle"
             /\ \A r \in Ids : requests[r] # c
             => state'[c] = state[c] ]_vars

\* An admitted call comes to its end, unless the coordinator is shut down
\* without failing its requests.
CallEnds ==
    \A c \in Callers :
        pc[c] = "sending" ~>
            (pc[c] = "done" \/ (closed /\ ~fatal))

\* The send of a submit() failed: its request was registered, no stage has it
\* and nobody will abort it.
NeverSent(c) ==
    pc[c] = "done" /\ method[c] = "submit" /\ c \notin delivered

\* Every tracked request is eventually released, so that its id and its share
\* of max_in_flight become free again; submit() makes an exception when its
\* send fails.
RequestReleased ==
    \A r \in Ids :
        requests[r] # None ~>
            \/ requests[r] = None
            \/ NeverSent(requests[r])
            \/ closed

\* What became of the request of a call, as RequestLifecycle sees it.  Only
\* "completed" tells the states of a released RequestInfo apart: a failure may
\* meet a request that is just being sent and then marked RUNNING.
Verdict ==
    [c \in Callers |->
        IF \E r \in Ids : requests[r] = c THEN "open"
        ELSE IF pc[c] = "idle" \/ outcome[c] = "rejected" THEN "none"
        ELSE IF state[c] = "completed" THEN "completed" ELSE "dropped"]

Lifecycle == INSTANCE RequestLifecycle
             WITH Calls <- Callers, owner <- requests, verdict <- Verdict

\* The coordinator implements RequestLifecycle: in particular, a call returns a
\* result only after its own request was released as completed, whatever
\* aborts, failures and completions of other calls with its id come between.
ImplementsLifecycle == Lifecycle!Spec

=============================================================================
