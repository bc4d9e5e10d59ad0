------------------------------ MODULE StageProofs ------------------------------
(***************************************************************************)
(* Theorems about Stage, for any topology around the stage, any number of  *)
(* requests and, unless the theorem says otherwise, every cap of _aborted: *)
(* what the scheduler was given is tracked; nothing of an aborted request  *)
(* gets through; the lanes keep their order; types; and nothing is left of *)
(* a request that is over.                                                 *)
(***************************************************************************)
EXTENDS Stage, TLAPS, FiniteSetTheorems

\* What the scheduler puts into its outbox.
Item == [id : Ids, kind : {"stream", "result", "error"}]

\* The shapes that tracking needs; the other types come further down.
Shapes ==
    /\ aborted \subseteq Ids /\ active \subseteq Ids
    /\ told \in [Ids -> SUBSET {"ok", "fail"}]
    /\ seen \in [Ids -> Seq(Msg)]
    /\ outbox \in Seq(Item)
    /\ route # None => route.id \in Ids

\* What is in _aborted was aborted by the coordinator, or the coordinator was
\* told of its failure.
AbortedIsKnown == \A r \in aborted : r \in aborts \/ "fail" \in told[r]

\* HandedIsTracked is not inductive by itself: the crash handler skips active
\* requests that are in _aborted.
IInv == Shapes /\ AbortedIsKnown /\ HandedIsTracked

\* A message is about one request.
LEMMA IdOfMessage == \A m \in Msg : m.id \in Ids
BY DEF Msg

\* The first states.
LEMMA InitIInv == Init => IInv
BY DEF Init, IInv, Shapes, AbortedIsKnown, HandedIsTracked

\* Nothing but the request itself comes into _aborted.
LEMMA RecordedIds ==
    ASSUME NEW r, NEW S \in Recorded(r)
    PROVE  S \subseteq aborted \cup {r}
BY DEF Recorded

\* A step that leaves these variables alone keeps the invariant.
LEMMA Untouched ==
    ASSUME IInv,
           UNCHANGED <<aborted, active, told, seen, outbox, route, aborts, finished, alive>>
    PROVE  IInv'
BY DEF IInv, Shapes, AbortedIsKnown, HandedIsTracked

\* _send_failure tells the coordinator before it forgets the request.
LEMMA SendFailureKeeps ==
    ASSUME IInv, NEW r \in Ids, SendFailure(r),
           UNCHANGED <<seen, aborts, finished>>,
           alive' = alive,
           outbox' \in Seq(Item),
           route' # None => route'.id \in Ids
    PROVE  IInv'
<1>1. /\ aborted' \subseteq aborted \cup {r}
      /\ told' = [told EXCEPT ![r] = @ \cup {"fail"}]
      /\ active' = active \ {r}
    BY RecordedIds DEF SendFailure, Clear
<1>2. /\ told' \in [Ids -> SUBSET {"ok", "fail"}]
      /\ "fail" \in told'[r]
      /\ \A i \in Ids : told[i] \subseteq told'[i]
    BY <1>1 DEF IInv, Shapes
<1>3. Shapes'
    BY <1>1, <1>2 DEF IInv, Shapes
<1>4. AbortedIsKnown'
    BY <1>1, <1>2 DEF IInv, Shapes, AbortedIsKnown
<1>5. HandedIsTracked'
    BY <1>1, <1>2 DEF IInv, HandedIsTracked
<1> QED
    BY <1>3, <1>4, <1>5 DEF IInv

\* What is put into the scheduler's inbox is active from then on.
LEMMA HandKeeps ==
    ASSUME IInv, NEW r \in Ids, NEW m \in Msg,
           active' = active \cup {r},
           seen' = [seen EXCEPT ![r] = Append(@, m)] \/ seen' = seen,
           alive = "running",
           UNCHANGED <<aborted, told, outbox, route, aborts, finished, alive>>
    PROVE  IInv'
<1>1. /\ seen' \in [Ids -> Seq(Msg)]
      /\ \A i \in Ids \ {r} : seen'[i] = seen[i]
    <2>1. seen \in [Ids -> Seq(Msg)] /\ seen[r] \in Seq(Msg)
        BY DEF IInv, Shapes
    <2>2. Append(seen[r], m) \in Seq(Msg)
        BY <2>1
    <2> QED
        BY <2>1, <2>2
<1>2. Shapes' /\ AbortedIsKnown'
    BY <1>1 DEF IInv, Shapes, AbortedIsKnown
<1>3. HandedIsTracked'
    BY <1>1 DEF IInv, HandedIsTracked
<1> QED
    BY <1>2, <1>3 DEF IInv

\* A message whose turn has come.
LEMMA DeliverKeeps ==
    ASSUME IInv, NEW m \in Msg, NEW bound, Deliver(m, bound), alive = "running",
           UNCHANGED <<outbox, route, aborts, finished, alive>>
    PROVE  IInv'
<1>1. m.id \in Ids
    BY IdOfMessage
<1>2. CASE Ignore
    BY <1>2, Untouched DEF Ignore, tables
<1>3. CASE ReceivePayload(m, bound)
    BY <1>1, <1>3, HandKeeps DEF ReceivePayload, Execute
<1>4. CASE ReceiveStream(m, bound)
    <2>1. CASE SendFailure(m.id) /\ UNCHANGED seen
        BY <1>1, <2>1, SendFailureKeeps DEF IInv, Shapes
    <2> QED
        BY <1>1, <1>4, <2>1, HandKeeps DEF ReceiveStream
<1> QED
    BY <1>2, <1>3, <1>4 DEF Deliver

\* The message loop and the receive tasks.
LEMMA MessageKeeps ==
    ASSUME IInv, NEW m \in Msg,
           Submit(m) \/ ReceiveLocal(m) \/ Schedule(m) \/ EndRead(m) \/ Advance(m)
    PROVE  IInv'
<1>1. m.id \in Ids
    BY IdOfMessage
<1>2. CASE Submit(m)
    <2>1. alive = "running" /\ UNCHANGED <<outbox, route, aborts, finished, alive>>
        BY <1>2 DEF Submit, Arrives
    <2>2. CASE Ignore
        BY <2>1, <2>2, Untouched DEF Ignore, tables
    <2> QED
        BY <1>1, <1>2, <2>1, <2>2, HandKeeps DEF Submit, Execute
<1>3. CASE ReceiveLocal(m)
    BY <1>3, DeliverKeeps DEF ReceiveLocal, Arrives
<1>4. CASE Schedule(m)
    <2>1. /\ alive = "running"
          /\ UNCHANGED <<aborted, seen, outbox, route, told, aborts, finished, alive>>
        BY <1>4 DEF Schedule, Arrives, sending
    <2>2. active' = active \cup {m.id} \/ active' = active
        BY <1>4 DEF Schedule
    <2> QED
        BY <1>1, <2>1, <2>2, HandKeeps, Untouched
<1>5. CASE EndRead(m)
    BY <1>5, Untouched DEF EndRead, tables, sending
<1>6. CASE Advance(m)
    <2>1. alive = "running" /\ UNCHANGED <<outbox, route, aborts, finished, alive>>
        BY <1>6 DEF Advance
    <2>2. CASE Ignore
        BY <2>1, <2>2, Untouched DEF Ignore, tables
    <2>3. CASE Failure(m)
        BY <1>1, <2>1, <2>2, <2>3, SendFailureKeeps DEF Failure, IInv, Shapes
    <2>4. CASE Deliver(m, bindings)
        BY <2>1, <2>4, DeliverKeeps
    <2> QED
        BY <1>6, <2>2, <2>3, <2>4 DEF Advance
<1> QED
    BY <1>2, <1>3, <1>4, <1>5, <1>6

\* _on_abort, and the scheduler between its inbox and its outbox.
LEMMA RequestKeeps ==
    ASSUME IInv, NEW r \in Ids, Abort(r) \/ SchedStreams(r) \/ SchedEnds(r)
    PROVE  IInv'
<1>1. CASE Abort(r)
    <2>1. /\ aborted' \subseteq aborted \cup {r} /\ active' = active \ {r}
          /\ aborts' = aborts \cup {r}
          /\ UNCHANGED <<seen, outbox, route, told, finished, alive>>
        BY <1>1, RecordedIds DEF Abort, Clear, sending
    <2> QED
        BY <2>1 DEF IInv, Shapes, AbortedIsKnown, HandedIsTracked
<1>2. CASE SchedStreams(r) \/ SchedEnds(r)
    <2>1. UNCHANGED <<aborted, active, told, seen, route, aborts, finished, alive>>
        BY <1>2 DEF SchedStreams, SchedEnds, tables
    <2>2. outbox' \in Seq(Item)
        <3>1. PICK k \in {"stream", "result", "error"} :
                 outbox' = Append(outbox, [id |-> r, kind |-> k])
            BY <1>2 DEF SchedStreams, SchedEnds
        <3>2. outbox \in Seq(Item)
            BY DEF IInv, Shapes
        <3>3. [id |-> r, kind |-> k] \in Item
            BY DEF Item
        <3> QED
            BY <3>1, <3>2, <3>3
    <2> QED
        BY <2>1, <2>2 DEF IInv, Shapes, AbortedIsKnown, HandedIsTracked
<1> QED
    BY <1>1, <1>2

\* _handle_scheduler_crash
LEMMA CrashKeeps ==
    ASSUME IInv, SchedulerCrash
    PROVE  IInv'
<1>1. /\ aborted' \subseteq aborted \cup Crashed
      /\ active' = active \ Crashed /\ Crashed = active \ aborted
      /\ told' = [r \in Ids |-> IF r \in Crashed THEN told[r] \cup {"fail"} ELSE told[r]]
      /\ UNCHANGED <<seen, outbox, route, finished, aborts>>
    BY DEF SchedulerCrash, Crashed
<1>2. /\ told' \in [Ids -> SUBSET {"ok", "fail"}]
      /\ \A r \in Ids : told[r] \subseteq told'[r]
      /\ \A r \in active \ aborted : "fail" \in told'[r]
    BY <1>1 DEF IInv, Shapes
<1>3. Shapes'
    BY <1>1, <1>2 DEF IInv, Shapes
<1>4. AbortedIsKnown'
    BY <1>1, <1>2 DEF IInv, Shapes, AbortedIsKnown
<1>5. HandedIsTracked'
    BY <1>1, <1>2 DEF IInv, Shapes, AbortedIsKnown, HandedIsTracked
<1> QED
    BY <1>3, <1>4, <1>5 DEF IInv

\* The end of _route_result.
LEMMA FinishKeeps ==
    ASSUME IInv, NEW r \in Ids, FinishRoute(r), UNCHANGED <<seen, aborts>>,
           outbox' \in Seq(Item)
    PROVE  IInv'
<1>1. /\ active' = active \ {r} /\ finished' = finished \cup {r} /\ route' = None
      /\ UNCHANGED <<aborted, alive>>
      /\ told' = told \/ told' = [told EXCEPT ![r] = @ \cup {"ok"}]
    BY DEF FinishRoute, Clear
<1>2. /\ told' \in [Ids -> SUBSET {"ok", "fail"}]
      /\ \A i \in Ids : told[i] \subseteq told'[i]
    BY <1>1 DEF IInv, Shapes
<1> QED
    BY <1>1, <1>2 DEF IInv, Shapes, AbortedIsKnown, HandedIsTracked

\* A hop begins, or raises.
LEMMA HopKeeps ==
    ASSUME IInv, NEW r \in Ids, NEW kind, NEW hops, TakeHop(r, kind, hops),
           alive = "running",
           UNCHANGED <<aborted, active, told, seen, aborts, finished>>,
           outbox' \in Seq(Item)
    PROVE  IInv'
<1>1. alive' # "crashed" /\ (route' # None => route'.id \in Ids)
    BY DEF TakeHop
<1> QED
    BY <1>1 DEF IInv, Shapes, AbortedIsKnown, HandedIsTracked

\* _drain_outbox_external
LEMMA DrainKeeps ==
    ASSUME IInv, Drain
    PROVE  IInv'
<1> DEFINE r == Head(outbox).id
           kind == Head(outbox).kind
           hops == StreamTo \o NextStages
<1>1. /\ outbox \in Seq(Item)
      /\ outbox # <<>> /\ outbox' = Tail(outbox) /\ alive = "running" /\ route = None
      /\ UNCHANGED <<seen, aborts>>
    BY DEF Drain, IInv, Shapes
<1>2. r \in Ids /\ outbox' \in Seq(Item)
    <2>1. Head(outbox) \in Item /\ Tail(outbox) \in Seq(Item)
        BY <1>1
    <2> QED
        BY <1>1, <2>1 DEF Item
<1>3. \/ UNCHANGED <<tables, route, told, finished, alive>>
      \/ SendFailure(r) /\ UNCHANGED <<route, finished, alive>>
      \/ /\ route' = [id |-> r, kind |-> kind, hops |-> StreamTo]
         /\ UNCHANGED <<tables, told, finished, alive>>
      \/ TakeHop(r, kind, hops) /\ UNCHANGED <<tables, told, finished>>
      \/ FinishRoute(r)
    BY DEF Drain
<1> HIDE DEF r, kind, hops
<1>4. CASE UNCHANGED <<tables, route, told, finished, alive>>
    BY <1>1, <1>2, <1>4 DEF tables, IInv, Shapes, AbortedIsKnown, HandedIsTracked
<1>5. CASE SendFailure(r) /\ UNCHANGED <<route, finished, alive>>
    BY <1>1, <1>2, <1>5, SendFailureKeeps
<1>6. CASE /\ route' = [id |-> r, kind |-> kind, hops |-> StreamTo]
           /\ UNCHANGED <<tables, told, finished, alive>>
    BY <1>1, <1>2, <1>6 DEF tables, IInv, Shapes, AbortedIsKnown, HandedIsTracked
<1>7. CASE TakeHop(r, kind, hops) /\ UNCHANGED <<tables, told, finished>>
    BY <1>1, <1>2, <1>7, HopKeeps DEF tables
<1>8. CASE FinishRoute(r)
    BY <1>1, <1>2, <1>8, FinishKeeps
<1> QED
    BY <1>3, <1>4, <1>5, <1>6, <1>7, <1>8

\* The drain coroutine goes on with a result or a chunk.
LEMMA HopOnKeeps ==
    ASSUME IInv, HopOn
    PROVE  IInv'
<1>1. /\ alive = "running" /\ route.id \in Ids /\ UNCHANGED <<outbox, seen, aborts>>
      /\ outbox' \in Seq(Item)
    BY DEF HopOn, IInv, Shapes
<1>2. CASE TakeHop(route.id, route.kind, route.hops) /\ UNCHANGED <<tables, told, finished>>
    BY <1>1, <1>2, HopKeeps DEF tables
<1>3. CASE FinishRoute(route.id)
    BY <1>1, <1>3, FinishKeeps
<1>4. CASE route' = None /\ UNCHANGED <<tables, told, finished, alive>>
    BY <1>1, <1>4 DEF tables, IInv, Shapes, AbortedIsKnown, HandedIsTracked
<1> QED
    BY <1>2, <1>3, <1>4 DEF HopOn

\* The stage stops, and keeps what it has.
LEMMA RaiseKeeps ==
    ASSUME IInv, DiscardRaises
    PROVE  IInv'
<1>1. /\ alive' = "raised"
      /\ UNCHANGED <<aborted, active, told, seen, outbox, route, aborts, finished>>
    BY DEF DiscardRaises, tables, sending
<1> QED
    BY <1>1 DEF IInv, Shapes, AbortedIsKnown, HandedIsTracked

\* The invariant holds in every reachable state.
THEOREM Inductive == Spec => []IInv
<1>1. ASSUME IInv, [Next]_vars
      PROVE  IInv'
    <2>1. CASE UNCHANGED vars
        BY <1>1, <2>1, Untouched DEF vars, tables, sending
    <2> QED
        BY <1>1, <2>1, MessageKeeps, RequestKeeps, CrashKeeps, RaiseKeeps, DrainKeeps,
           HopOnKeeps DEF Next
<1> QED
    BY InitIInv, <1>1, PTL DEF Spec

\* A request the scheduler was given is tracked until it was aborted, finished
\* or failed with word to the coordinator, also when _aborted overflows and when
\* the scheduler crashes.
THEOREM HandedStaysTracked == Spec => []HandedIsTracked
<1>1. IInv => HandedIsTracked
    BY DEF IInv
<1> QED
    BY <1>1, Inductive, PTL

\* The only steps that give the scheduler something look into _aborted after the
\* read, so nothing of a request that is in it gets through.
THEOREM AbortIsHeard == Spec => NothingAfterAbort
<1>1. ASSUME IInv, [Next]_vars
      PROVE  [\A r \in aborted : seen'[r] = seen[r]]_vars
    <2>1. ASSUME NEW m \in Msg, m.id \notin aborted,
                 seen' = [seen EXCEPT ![m.id] = Append(@, m)] \/ seen' = seen
          PROVE  \A r \in aborted : seen'[r] = seen[r]
        BY <1>1, <2>1 DEF IInv, Shapes
    <2>2. ASSUME NEW m \in Msg, NEW bound, Deliver(m, bound)
          PROVE  \A r \in aborted : seen'[r] = seen[r]
        BY <2>1, <2>2 DEF Deliver, Dropped, Ignore, ReceivePayload, Execute, ReceiveStream
    <2>3. ASSUME NEW m \in Msg,
                 Submit(m) \/ ReceiveLocal(m) \/ Schedule(m) \/ EndRead(m) \/ Advance(m)
          PROVE  \A r \in aborted : seen'[r] = seen[r]
        BY <2>1, <2>2, <2>3 DEF Submit, Ignore, Execute, ReceiveLocal, Schedule, EndRead,
              Advance, Failure
    <2>4. ASSUME NEW r \in Ids, Abort(r) \/ SchedStreams(r) \/ SchedEnds(r)
          PROVE  seen' = seen
        BY <2>4 DEF Abort, SchedStreams, SchedEnds
    <2>5. DiscardRaises \/ SchedulerCrash \/ Drain \/ HopOn => seen' = seen
        BY DEF DiscardRaises, SchedulerCrash, Drain, HopOn
    <2> QED
        BY <1>1, <2>3, <2>4, <2>5 DEF Next
<1> QED
    BY <1>1, Inductive, PTL DEF Spec, NothingAfterAbort

-----------------------------------------------------------------------------
\* The order of the lanes.

\* Of the same request, from the same source.
Mates(x, m) == x.id = m.id /\ x.src = m.src

\* The types of what receiving is about.
Receiving ==
    /\ lane \in [Ids \X Sources -> Seq(Msg)]
    /\ task \in [Msg -> TaskState]
    /\ arrived \subseteq Msg /\ relayed \subseteq Msg
    /\ acked \in [Msg -> 0..1]
    /\ seen \in [Ids -> Seq(Msg)]

\* The control plane is in order: what has arrived did so after what its source
\* sent before.
Arrivals ==
    \A m \in arrived, x \in Msg : Mates(x, m) =>
        /\ m.kind = "chunk" /\ x.kind = "chunk" /\ x.n < m.n => x \in arrived
        /\ m.kind = "payload" /\ x.kind = "done" => x \in arrived

\* A message is in its lane from its arrival until its task is done, and is not
\* acknowledged while its buffer is read.
Tasks ==
    \A m \in Msg :
        /\ m \notin arrived => task[m] = "none"
        /\ task[m] \in {"none", "reading", "draining"} => acked[m] = 0
        /\ task[m] \notin {"none", "done"} =>
              /\ m.src \in Sources \ LocalSources
              /\ \E i \in 1..Len(lane[<<m.id, m.src>>]) : lane[<<m.id, m.src>>][i] = m

\* A lane holds messages of its request and source that have tasks.
LaneHolds ==
    \A k \in Ids \X Sources : \A i \in 1..Len(lane[k]) :
        /\ lane[k][i] \in arrived
        /\ <<lane[k][i].id, lane[k][i].src>> = k
        /\ task[lane[k][i]] \notin {"none", "done"}

\* They wait in the order in which they were sent.
LaneSorted ==
    \A k \in Ids \X Sources : \A i, j \in 1..Len(lane[k]) :
        i < j => Rank(lane[k][i]) < Rank(lane[k][j])

\* What the scheduler was given is through with its lane ...
Handed ==
    \A r \in Ids : \A i \in 1..Len(seen[r]) :
        /\ seen[r][i] \in arrived
        /\ seen[r][i].id = r
        /\ task[seen[r][i]] \in {"none", "done"}

\* ... and was sent before all that waits there.
HandedBefore ==
    \A r \in Ids : \A i \in 1..Len(seen[r]) : \A s \in Sources :
        seen[r][i].src = s =>
            \A j \in 1..Len(lane[<<r, s>>]) : Rank(seen[r][i]) < Rank(lane[<<r, s>>][j])

\* LaneOrder is about the scheduler's inbox only; what keeps it is the order in
\* which the lanes are entered, and that only their heads leave them.
LaneInv ==
    /\ Receiving /\ Arrivals /\ Tasks /\ LaneHolds /\ LaneSorted
    /\ Handed /\ HandedBefore /\ LaneOrder

\* Two messages with the same fields are one.
LEMMA MsgFields ==
    ASSUME NEW x \in Msg, NEW m \in Msg, Mates(x, m), x.kind = m.kind, x.n = m.n
    PROVE  x = m
<1> DEFINE M(k, S, N) == [kind : {k}, id : Ids, src : S, n : N]
<1>1. ASSUME NEW S, NEW N, NEW k, x \in M(k, S, N), m \in M(k, S, N)
      PROVE  x = m
    BY <1>1 DEF Mates
<1>2. /\ x.kind = "submit" => x \in M("submit", {None}, {0}) 
      /\ x.kind = "chunk" => x \in M("chunk", StreamSources, 1..MaxChunks) 
      /\ x.kind = "done" => x \in M("done", StreamSources, {0}) 
      /\ x.kind = "payload" => x \in M("payload", PayloadSources, {0}) 
      /\ x.kind \in {"submit", "chunk", "done", "payload"}
    BY DEF Msg
<1>3. /\ m.kind = "submit" => m \in M("submit", {None}, {0}) 
      /\ m.kind = "chunk" => m \in M("chunk", StreamSources, 1..MaxChunks) 
      /\ m.kind = "done" => m \in M("done", StreamSources, {0}) 
      /\ m.kind = "payload" => m \in M("payload", PayloadSources, {0}) 
    BY DEF Msg
<1> HIDE DEF M
<1> QED
    BY <1>1, <1>2, <1>3

\* What the fields of a message may be.
LEMMA MsgKinds ==
    ASSUME NEW m \in Msg
    PROVE  /\ m.kind \in {"submit", "chunk", "done", "payload"}
           /\ m.id \in Ids
           /\ m.kind = "submit" => m.src = None /\ m.n = 0
           /\ m.kind = "chunk" => m.src \in StreamSources /\ m.n \in 1..MaxChunks
           /\ m.kind = "done" => m.src \in StreamSources /\ m.n = 0
           /\ m.kind = "payload" => m.src \in PayloadSources /\ m.n = 0
           /\ m.kind # "submit" => m.src \in Sources
           /\ m.src # None => m.kind # "submit"
BY StageAssumption DEF Msg

\* A chunk, or the done signal, that a source sent before a message of its.
LEMMA MsgBefore ==
    ASSUME NEW m \in Msg, m.src \in StreamSources,
           NEW k, NEW n, \/ k = "chunk" /\ n \in 1..MaxChunks
                         \/ k = "done" /\ n = 0
    PROVE  LET x == [kind |-> k, id |-> m.id, src |-> m.src, n |-> n]
           IN  x \in Msg /\ Mates(x, m) /\ x.kind = k /\ x.n = n
BY MsgKinds DEF Mates, Msg

\* The place of a message is a number.
LEMMA RankIsNat == \A m \in Msg : Rank(m) \in Nat
BY MsgKinds, StageAssumption DEF Rank

\* What arrives is behind all of its mates that have arrived.
LEMMA ArrivalLast ==
    ASSUME LaneInv, NEW m \in Msg, Arrives(m), NEW x \in arrived, Mates(x, m)
    PROVE  Rank(x) < Rank(m)
<1>1. /\ x \in Msg /\ x # m /\ m \notin arrived
    BY DEF LaneInv, Receiving, Arrives
<1>2. /\ m.kind \in {"submit", "chunk", "done", "payload"}
      /\ x.kind \in {"submit", "chunk", "done", "payload"}
      /\ ~(x.kind = m.kind /\ x.n = m.n)
      /\ MaxChunks \in Nat
    BY <1>1, MsgKinds, MsgFields, StageAssumption
<1>3. ASSUME NEW y \in Msg, NEW z \in arrived, Mates(y, z), y \notin arrived
      PROVE  /\ ~(z.kind = "chunk" /\ y.kind = "chunk" /\ y.n < z.n)
             /\ ~(z.kind = "payload" /\ y.kind = "done")
    BY <1>3 DEF LaneInv, Arrivals
<1>4. Mates(m, x)
    BY DEF Mates
<1>5. CASE m.kind = "chunk"
    <2> DEFINE d == [kind |-> "done", id |-> m.id, src |-> m.src, n |-> 0]
    <2>1. d \notin arrived
        BY <1>5 DEF Arrives
    <2>2. d \in Msg /\ Mates(d, m) /\ d.kind = "done" /\ d.n = 0
        BY <1>5, MsgKinds, MsgBefore
    <2>3. x.kind # "done"
        <3>1. Mates(x, d)
            BY <2>2 DEF Mates
        <3>2. x.kind = "done" => x.n = 0
            BY <1>1, MsgKinds
        <3> HIDE DEF d
        <3> QED
            BY <1>1, <2>1, <2>2, <3>1, <3>2, MsgFields
    <2>4. x.kind # "payload"
        <3>1. Mates(d, x)
            BY <2>2 DEF Mates
        <3> HIDE DEF d
        <3> QED
            BY <1>3, <2>1, <2>2, <3>1
    <2>5. x.kind # "submit"
        BY <1>1, <1>5, MsgKinds, StageAssumption DEF Mates
    <2>6. x.kind = "chunk" /\ ~(m.n < x.n) /\ x.n # m.n /\ x.n \in Nat /\ m.n \in Nat
        BY <1>1, <1>2, <1>3, <1>4, <1>5, <2>3, <2>4, <2>5, MsgKinds, StageAssumption
    <2> QED
        BY <1>5, <2>6 DEF Rank
<1>6. CASE m.kind = "done"
    <2>1. x.kind # "done"
        BY <1>1, <1>2, <1>6, MsgKinds
    <2>2. x.kind # "payload"
        BY <1>1, <1>3, <1>4, <1>6
    <2>3. x.kind # "submit"
        BY <1>1, <1>6, MsgKinds, StageAssumption DEF Mates
    <2>4. x.kind = "chunk" /\ x.n \in 1..MaxChunks
        BY <1>1, <1>2, <2>1, <2>2, <2>3, MsgKinds
    <2> QED
        BY <1>2, <1>6, <2>4 DEF Rank
<1>7. CASE m.kind = "payload"
    <2>1. x.kind # "payload"
        BY <1>1, <1>2, <1>7, MsgKinds
    <2>3. x.kind # "submit"
        BY <1>1, <1>7, MsgKinds, StageAssumption DEF Mates
    <2>4. (x.kind = "chunk" /\ x.n \in 1..MaxChunks) \/ x.kind = "done"
        BY <1>1, <1>2, <2>1, <2>3, MsgKinds
    <2> QED
        BY <1>2, <1>7, <2>4 DEF Rank
<1>8. CASE m.kind = "submit"
    BY <1>1, <1>2, <1>8, MsgKinds, StageAssumption DEF Mates
<1> QED
    BY <1>2, <1>5, <1>6, <1>7, <1>8

\* The control plane stays in order.
LEMMA ArrivalsKept ==
    ASSUME LaneInv, NEW m \in Msg, Arrives(m)
    PROVE  Arrivals'
<1>1. arrived' = arrived \cup {m} /\ MaxChunks \in Nat
    BY StageAssumption DEF Arrives
<1>2. SUFFICES ASSUME NEW x \in Msg, Mates(x, m)
               PROVE  /\ m.kind = "chunk" /\ x.kind = "chunk" /\ x.n < m.n => x \in arrived
                      /\ m.kind = "payload" /\ x.kind = "done" => x \in arrived
    BY <1>1 DEF Arrivals, LaneInv, Mates
<1>3. ASSUME m.kind = "chunk", x.kind = "chunk", x.n < m.n
      PROVE  x \in arrived
    <2> DEFINE p == [kind |-> "chunk", id |-> m.id, src |-> m.src, n |-> m.n - 1]
    <2>1. m.n \in 1..MaxChunks /\ x.n \in 1..MaxChunks
        BY <1>3, MsgKinds
    <2>2. p \in arrived
        BY <1>1, <1>3, <2>1 DEF Arrives
    <2>3. p \in Msg /\ Mates(p, m) /\ p.kind = "chunk" /\ p.n = m.n - 1
        <3>1. m.n - 1 \in 1..MaxChunks
            BY <1>1, <1>3, <2>1
        <3> QED
            BY <1>3, <3>1, MsgKinds, MsgBefore
    <2>4. Mates(x, p)
        BY <1>2, <2>3 DEF Mates
    <2> HIDE DEF p
    <2>5. CASE x.n = p.n
        BY <1>3, <2>2, <2>3, <2>4, <2>5, MsgFields
    <2>6. CASE x.n < p.n
        BY <1>3, <2>2, <2>3, <2>4, <2>6 DEF LaneInv, Arrivals
    <2> QED
        BY <1>3, <2>1, <2>3, <2>5, <2>6
<1>4. ASSUME m.kind = "payload", x.kind = "done"
      PROVE  x \in arrived
    <2> DEFINE d == [kind |-> "done", id |-> m.id, src |-> m.src, n |-> 0]
    <2>1. m.src \in StreamSources /\ x.n = 0
        BY <1>2, <1>4, MsgKinds DEF Mates
    <2>2. d \in arrived
        BY <1>4, <2>1 DEF Arrives
    <2>3. d \in Msg /\ Mates(d, m) /\ d.kind = "done" /\ d.n = 0
        BY <2>1, MsgBefore
    <2>4. Mates(x, d)
        BY <1>2, <2>3 DEF Mates
    <2> HIDE DEF d
    <2> QED
        BY <1>4, <2>1, <2>2, <2>3, <2>4, MsgFields
<1> QED
    BY <1>3, <1>4


\* The first states.
LEMMA InitLanes == Init => LaneInv
<1> SUFFICES ASSUME Init PROVE LaneInv
    OBVIOUS
<1>1. Receiving
    BY DEF Init, Receiving, TaskState
<1>2. /\ \A k \in Ids \X Sources : Len(lane[k]) = 0
      /\ \A r \in Ids : Len(seen[r]) = 0
    BY DEF Init
<1>3. Arrivals /\ Tasks
    BY DEF Init, Arrivals, Tasks
<1> QED
    BY <1>1, <1>2, <1>3
       DEF LaneInv, LaneHolds, LaneSorted, Handed, HandedBefore, LaneOrder

\* A step that receives nothing and hands nothing on.
LEMMA LanesUntouched ==
    ASSUME LaneInv, UNCHANGED <<lane, task, arrived, relayed, acked, seen>>
    PROVE  LaneInv'
BY DEF LaneInv, Receiving, Arrivals, Tasks, LaneHolds, LaneSorted, Handed,
       HandedBefore, LaneOrder

\* What the scheduler's inbox is after a message was put into it.
LEMMA Inbox ==
    ASSUME LaneInv, NEW m \in Msg,
           seen' = seen \/ seen' = [seen EXCEPT ![m.id] = Append(@, m)]
    PROVE  /\ seen' \in [Ids -> Seq(Msg)]
           /\ \A r \in Ids : \A i \in 1..Len(seen'[r]) :
                 \/ i \in 1..Len(seen[r]) /\ seen'[r][i] = seen[r][i]
                 \/ r = m.id /\ i = Len(seen'[r]) /\ seen'[r][i] = m /\ i = Len(seen[r]) + 1
<1>1. seen \in [Ids -> Seq(Msg)] /\ m.id \in Ids
    BY IdOfMessage DEF LaneInv, Receiving
<1>2. CASE seen' = seen
    BY <1>1, <1>2
<1>3. CASE seen' = [seen EXCEPT ![m.id] = Append(@, m)]
    <2>1. /\ seen'[m.id] = Append(seen[m.id], m)
          /\ \A r \in Ids : r # m.id => seen'[r] = seen[r]
          /\ seen[m.id] \in Seq(Msg)
        BY <1>1, <1>3
    <2>2. Append(seen[m.id], m) \in Seq(Msg)
        BY <2>1
    <2>3. seen' \in [Ids -> Seq(Msg)]
        BY <1>1, <1>3, <2>2
    <2>4. /\ Len(Append(seen[m.id], m)) = Len(seen[m.id]) + 1
          /\ Append(seen[m.id], m)[Len(seen[m.id]) + 1] = m
          /\ \A i \in 1..Len(seen[m.id]) : Append(seen[m.id], m)[i] = seen[m.id][i]
          /\ Len(seen[m.id]) \in Nat
        BY <2>1
    <2>5. \A i \in 1..(Len(seen[m.id]) + 1) : i \in 1..Len(seen[m.id]) \/ i = Len(seen[m.id]) + 1
        BY <2>4
    <2>6. ASSUME NEW r \in Ids, NEW i \in 1..Len(seen'[r])
          PROVE  \/ i \in 1..Len(seen[r]) /\ seen'[r][i] = seen[r][i]
                 \/ r = m.id /\ i = Len(seen'[r]) /\ seen'[r][i] = m /\ i = Len(seen[r]) + 1
        <3>1. CASE r # m.id
            BY <2>1, <3>1
        <3>2. CASE r = m.id
            BY <2>1, <2>4, <2>5, <3>2
        <3> QED
            BY <3>1, <3>2
    <2> QED
        BY <2>3, <2>6
<1> QED
    BY <1>2, <1>3

\* A message m is put at the end of the inbox, or nothing is.
TakesIn(m) == seen' = seen \/ seen' = [seen EXCEPT ![m.id] = Append(@, m)]

\* The same, of one place in the inbox.
LEMMA InboxAt ==
    ASSUME LaneInv, NEW m \in Msg, TakesIn(m),
           NEW r \in Ids, NEW i \in 1..Len(seen'[r])
    PROVE  \/ i \in 1..Len(seen[r]) /\ seen'[r][i] = seen[r][i]
           \/ r = m.id /\ seen'[r][i] = m
BY Inbox DEF TakesIn

\* The order of the inbox is kept when a message is put behind all of its mates.
LEMMA InboxOrder ==
    ASSUME LaneInv, NEW m \in Msg,
           seen' = seen \/ /\ seen' = [seen EXCEPT ![m.id] = Append(@, m)]
                           /\ \A i \in 1..Len(seen[m.id]) :
                                 seen[m.id][i].src = m.src => Rank(seen[m.id][i]) < Rank(m)
    PROVE  LaneOrder'
<1>1. SUFFICES ASSUME seen' # seen PROVE LaneOrder'
    BY DEF LaneInv, LaneOrder
<1>2. \A i \in 1..Len(seen[m.id]) : seen[m.id][i].src = m.src => Rank(seen[m.id][i]) < Rank(m)
    BY <1>1
<1>3. SUFFICES ASSUME NEW r \in Ids, NEW i \in 1..Len(seen'[r]), NEW j \in 1..Len(seen'[r]),
                      i < j, seen'[r][i].src = seen'[r][j].src
               PROVE  Rank(seen'[r][i]) < Rank(seen'[r][j])
    BY DEF LaneOrder, Rank
<1>4. seen \in [Ids -> Seq(Msg)] /\ m.id \in Ids /\ Len(seen[r]) \in Nat
    BY IdOfMessage DEF LaneInv, Receiving
<1>5. i \in Nat /\ j \in Nat /\ Len(seen'[r]) \in Nat
    BY <1>4, Inbox
<1>6. i \in 1..Len(seen[r]) /\ seen'[r][i] = seen[r][i]
    <2>1. i # Len(seen'[r])
        BY <1>3, <1>5
    <2>2. \/ i \in 1..Len(seen[r]) /\ seen'[r][i] = seen[r][i]
          \/ r = m.id /\ i = Len(seen'[r]) /\ seen'[r][i] = m /\ i = Len(seen[r]) + 1
        BY Inbox
    <2> QED
        BY <2>1, <2>2
<1>7. CASE j \in 1..Len(seen[r]) /\ seen'[r][j] = seen[r][j]
    BY <1>3, <1>6, <1>7 DEF LaneInv, LaneOrder
<1>8. CASE r = m.id /\ seen'[r][j] = m
    BY <1>2, <1>3, <1>6, <1>8
<1> QED
    BY <1>7, <1>8, Inbox

\* A message that comes without a task of its own: from the coordinator, or from
\* a stage in the same process.
LEMMA NoTaskKeeps ==
    ASSUME LaneInv, NEW m \in Msg, Arrives(m), m.src \in LocalSources \cup {None},
           seen' = seen \/ seen' = [seen EXCEPT ![m.id] = Append(@, m)],
           UNCHANGED <<lane, task, relayed, acked>>
    PROVE  LaneInv'
<1>1. /\ arrived' = arrived \cup {m} /\ m \notin arrived
      /\ arrived \subseteq Msg
    BY DEF Arrives, LaneInv, Receiving
<1>2. Receiving'
    BY <1>1, Inbox DEF LaneInv, Receiving
<1>3. Arrivals'
    BY ArrivalsKept
<1>4. Tasks' /\ LaneHolds' /\ LaneSorted'
    BY <1>1 DEF LaneInv, Tasks, LaneHolds, LaneSorted, Rank
<1>5. task[m] = "none"
    BY <1>1 DEF LaneInv, Tasks
<1>6. Handed'
    BY <1>1, <1>5, Inbox DEF LaneInv, Handed
<1>7. \A s \in Sources : m.src = s => Len(lane[<<m.id, s>>]) = 0
    <2> SUFFICES ASSUME m.src \in Sources, Len(lane[<<m.id, m.src>>]) # 0 PROVE FALSE
        OBVIOUS
    <2>1. <<m.id, m.src>> \in Ids \X Sources
        BY IdOfMessage
    <2>2. lane[<<m.id, m.src>>] \in Seq(Msg) /\ 1 \in 1..Len(lane[<<m.id, m.src>>])
        BY <2>1 DEF LaneInv, Receiving
    <2>3. PICK x : x = lane[<<m.id, m.src>>][1]
        OBVIOUS
    <2>4. x \in Msg /\ <<x.id, x.src>> = <<m.id, m.src>> /\ task[x] \notin {"none", "done"}
        BY <2>1, <2>2, <2>3 DEF LaneInv, LaneHolds
    <2>5. x.src = m.src /\ x.src \in Sources \ LocalSources
        BY <2>4 DEF LaneInv, Tasks
    <2> QED
        BY <2>5, StageAssumption
<1>8. HandedBefore'
    <2> SUFFICES ASSUME NEW r \in Ids, NEW i \in 1..Len(seen'[r]), NEW s \in Sources,
                        seen'[r][i].src = s, NEW j \in 1..Len(lane[<<r, s>>])
                 PROVE  Rank(seen'[r][i]) < Rank(lane[<<r, s>>][j])
        BY DEF HandedBefore, Rank
    <2>1. CASE i \in 1..Len(seen[r]) /\ seen'[r][i] = seen[r][i]
        BY <2>1 DEF LaneInv, HandedBefore
    <2>2. CASE r = m.id /\ seen'[r][i] = m
        BY <1>7, <2>2
    <2>3. \/ i \in 1..Len(seen[r]) /\ seen'[r][i] = seen[r][i]
          \/ r = m.id /\ seen'[r][i] = m
        <3>1. TakesIn(m)
            BY DEF TakesIn
        <3> QED
            BY <3>1, InboxAt
    <2> QED
        BY <2>1, <2>2, <2>3
<1>9. LaneOrder'
    <2>1. \A i \in 1..Len(seen[m.id]) :
             seen[m.id][i].src = m.src => Rank(seen[m.id][i]) < Rank(m)
        <3> SUFFICES ASSUME NEW i \in 1..Len(seen[m.id]), seen[m.id][i].src = m.src
                     PROVE  Rank(seen[m.id][i]) < Rank(m)
            OBVIOUS
        <3>1. seen[m.id][i] \in arrived /\ seen[m.id][i].id = m.id
            BY IdOfMessage DEF LaneInv, Handed
        <3> QED
            BY <3>1, ArrivalLast DEF Mates
    <2> QED
        BY <2>1, InboxOrder
<1> QED
    BY <1>2, <1>3, <1>4, <1>6, <1>8, <1>9 DEF LaneInv

\* Lane l of k has become a, with message m at its end if it is the lane of m.
Grown(l, a, m, k) ==
    /\ l \in Seq(Msg) /\ a \in Seq(Msg) /\ Len(l) \in Nat /\ Len(a) \in Nat
    /\ 1..Len(l) \subseteq 1..Len(a)
    /\ \A i \in 1..Len(l) : a[i] = l[i]
    /\ \A i \in 1..Len(a) :
          \/ i \in 1..Len(l)
          \/ k = <<m.id, m.src>> /\ i = Len(a) /\ a[i] = m
    /\ k = <<m.id, m.src>> => \E i \in 1..Len(a) : a[i] = m

\* The lanes after a message was put into its own.
LEMMA Queued ==
    ASSUME LaneInv, NEW m \in Msg, m.src \in Sources,
           lane' = [lane EXCEPT ![<<m.id, m.src>>] = Append(@, m)],
           NEW k \in Ids \X Sources
    PROVE  Grown(lane[k], lane'[k], m, k)
<1>0. PICK l, a : l = lane[k] /\ a = lane'[k]
    OBVIOUS
<1>1. lane \in [Ids \X Sources -> Seq(Msg)] /\ l \in Seq(Msg)
    BY <1>0 DEF LaneInv, Receiving
<1>2. CASE k # <<m.id, m.src>>
    <2>1. a = l
        BY <1>0, <1>1, <1>2
    <2>2. Len(l) \in Nat
        BY <1>1
    <2> QED
        BY <1>0, <1>1, <1>2, <2>1, <2>2 DEF Grown
<1>3. CASE k = <<m.id, m.src>>
    <2>1. a = Append(l, m)
        BY <1>0, <1>1, <1>3
    <2>2. /\ a \in Seq(Msg) /\ Len(l) \in Nat /\ Len(a) = Len(l) + 1
          /\ \A i \in 1..Len(l) : a[i] = l[i]
          /\ a[Len(l) + 1] = m
        BY <1>1, <2>1
    <2>3. /\ 1..Len(l) \subseteq 1..Len(a) /\ Len(a) \in 1..Len(a) /\ a[Len(a)] = m
          /\ \A i \in 1..Len(a) : i \in 1..Len(l) \/ i = Len(a)
          /\ Len(a) \in Nat
        BY <2>2
    <2> QED
        BY <1>0, <1>1, <1>3, <2>2, <2>3 DEF Grown
<1> QED
    BY <1>2, <1>3

\* _schedule_receive_task
LEMMA ScheduleKeepsLanes ==
    ASSUME LaneInv, NEW m \in Msg, Schedule(m)
    PROVE  LaneInv'
<1>1. /\ m.src \in Sources \ LocalSources /\ m \notin arrived /\ Arrives(m)
      /\ arrived' = arrived \cup {m}
      /\ lane' = [lane EXCEPT ![<<m.id, m.src>>] = Append(@, m)]
      /\ relayed' = relayed \/ relayed' = relayed \cup {m}
      /\ UNCHANGED <<acked, seen>>
    BY DEF Schedule, Arrives
<1>2. PICK t \in {"reading", "draining", "read", "failed", "over"} :
         task' = [task EXCEPT ![m] = t]
    BY DEF Schedule, AbortedRead
<1>3. Receiving
    BY DEF LaneInv
<1>4. task'[m] = t /\ \A x \in Msg : x # m => task'[x] = task[x]
    BY <1>2, <1>3 DEF Receiving
<1>5. m.id \in Ids /\ <<m.id, m.src>> \in Ids \X Sources
    BY <1>1, IdOfMessage
<1>6. task[m] = "none" /\ acked[m] = 0
    BY <1>1 DEF LaneInv, Tasks
<1>7. Receiving'
    <2>1. \A k \in Ids \X Sources : lane'[k] \in Seq(Msg)
        BY <1>1, Queued DEF Grown
    <2>2. lane' \in [Ids \X Sources -> Seq(Msg)]
        BY <1>1, <1>3, <2>1 DEF Receiving
    <2> QED
        BY <1>1, <1>2, <1>3, <2>2 DEF Receiving, TaskState
<1>8. Arrivals'
    BY <1>1, ArrivalsKept
<1>9. Tasks'
    <2> SUFFICES ASSUME NEW x \in Msg
                 PROVE  /\ x \notin arrived' => task'[x] = "none"
                        /\ task'[x] \in {"none", "reading", "draining"} => acked[x] = 0
                        /\ task'[x] \notin {"none", "done"} =>
                              /\ x.src \in Sources \ LocalSources
                              /\ \E i \in 1..Len(lane'[<<x.id, x.src>>]) :
                                    lane'[<<x.id, x.src>>][i] = x
        BY <1>1 DEF Tasks
    <2>1. CASE x = m
        <3>1. Grown(lane[<<m.id, m.src>>], lane'[<<m.id, m.src>>], m, <<m.id, m.src>>)
            BY <1>1, <1>5, Queued
        <3> QED
            BY <1>1, <1>4, <1>6, <2>1, <3>1 DEF Grown
    <2>2. CASE x # m
        <3>1. task'[x] = task[x]
            BY <1>4, <2>2
        <3>2. /\ x \notin arrived' => task'[x] = "none"
              /\ task'[x] \in {"none", "reading", "draining"} => acked[x] = 0
            BY <1>1, <3>1 DEF LaneInv, Tasks
        <3>3. ASSUME task[x] \notin {"none", "done"}
              PROVE  /\ x.src \in Sources \ LocalSources
                     /\ \E i \in 1..Len(lane'[<<x.id, x.src>>]) :
                           lane'[<<x.id, x.src>>][i] = x
            <4>1. x.src \in Sources \ LocalSources
                BY <3>3 DEF LaneInv, Tasks
            <4>2. PICK i \in 1..Len(lane[<<x.id, x.src>>]) : lane[<<x.id, x.src>>][i] = x
                BY <3>3 DEF LaneInv, Tasks
            <4>3. PICK k \in Ids \X Sources : k = <<x.id, x.src>>
                BY <4>1, IdOfMessage
            <4>4. Grown(lane[k], lane'[k], m, k)
                BY <1>1, Queued
            <4>5. i \in 1..Len(lane'[k]) /\ lane'[k][i] = x
                BY <4>2, <4>3, <4>4 DEF Grown
            <4> QED
                BY <4>1, <4>3, <4>5
        <3> QED
            BY <3>1, <3>2, <3>3
    <2> QED
        BY <2>1, <2>2
<1>10. ASSUME NEW k \in Ids \X Sources, NEW i \in 1..Len(lane[k])
       PROVE  /\ lane[k][i] \in arrived /\ lane[k][i] \in Msg /\ lane[k][i] # m
              /\ <<lane[k][i].id, lane[k][i].src>> = k
              /\ task[lane[k][i]] \notin {"none", "done"}
    BY <1>1, <1>3 DEF LaneInv, LaneHolds, Receiving
<1>11. LaneHolds'
    <2> SUFFICES ASSUME NEW k \in Ids \X Sources, NEW i \in 1..Len(lane'[k])
                 PROVE  /\ lane'[k][i] \in arrived'
                        /\ <<lane'[k][i].id, lane'[k][i].src>> = k
                        /\ task'[lane'[k][i]] \notin {"none", "done"}
        BY DEF LaneHolds
    <2>1. PICK l, a : l = lane[k] /\ a = lane'[k] /\ Grown(l, a, m, k)
        BY <1>1, Queued
    <2>2. CASE i \in 1..Len(l)
        <3>1. a[i] = l[i]
            BY <2>1, <2>2 DEF Grown
        <3> QED
            BY <1>1, <1>4, <1>10, <2>1, <2>2, <3>1
    <2>3. CASE k = <<m.id, m.src>> /\ a[i] = m
        BY <1>1, <1>4, <2>1, <2>3
    <2> QED
        BY <2>1, <2>2, <2>3 DEF Grown
<1>12. LaneSorted'
    <2> SUFFICES ASSUME NEW k \in Ids \X Sources, NEW a, a = lane'[k],
                        NEW i \in 1..Len(a), NEW j \in 1..Len(a), i < j
                 PROVE  Rank(a[i]) < Rank(a[j])
        BY DEF LaneSorted, Rank
    <2>1. PICK l : l = lane[k] /\ Grown(l, a, m, k)
        BY <1>1, Queued
    <2>2. i \in 1..Len(l) /\ a[i] = l[i]
        <3>1. Len(a) \in Nat
            BY <2>1 DEF Grown
        <3>2. i # Len(a)
            BY <3>1
        <3>3. i \in 1..Len(l)
            BY <2>1, <3>2 DEF Grown
        <3> QED
            BY <2>1, <3>3 DEF Grown
    <2>3. CASE j \in 1..Len(l)
        <3>1. a[j] = l[j]
            BY <2>1, <2>3 DEF Grown
        <3> QED
            BY <2>1, <2>2, <2>3, <3>1 DEF LaneInv, LaneSorted
    <2>4. CASE k = <<m.id, m.src>> /\ a[j] = m
        <3>1. l[i] \in arrived /\ Mates(l[i], m)
            BY <1>10, <2>1, <2>2, <2>4 DEF Mates
        <3> QED
            BY <1>1, <2>2, <2>4, <3>1, ArrivalLast
    <2> QED
        BY <2>1, <2>3, <2>4 DEF Grown
<1>13. Handed'
    BY <1>1, <1>3, <1>4 DEF LaneInv, Handed, Receiving
<1>14. HandedBefore'
    <2> SUFFICES ASSUME NEW r \in Ids, NEW i \in 1..Len(seen[r]), NEW s \in Sources,
                        seen[r][i].src = s, NEW a, a = lane'[<<r, s>>], NEW j \in 1..Len(a)
                 PROVE  Rank(seen[r][i]) < Rank(a[j])
        <3>1. seen' = seen
            BY <1>1
        <3>2. \A r \in Ids : \A i \in 1..Len(seen[r]) : \A s \in Sources :
                seen[r][i].src = s =>
                   \A j \in 1..Len(lane'[<<r, s>>]) : Rank(seen[r][i]) < Rank(lane'[<<r, s>>][j])
            OBVIOUS
        <3> QED
            BY <3>1, <3>2 DEF HandedBefore, Rank
    <2>0. PICK k \in Ids \X Sources : k = <<r, s>>
        OBVIOUS
    <2>1. PICK l : l = lane[k] /\ Grown(l, a, m, k)
        BY <1>1, <2>0, Queued
    <2>2. CASE j \in 1..Len(l)
        <3>1. a[j] = l[j]
            BY <2>1, <2>2 DEF Grown
        <3> QED
            BY <2>0, <2>1, <2>2, <3>1 DEF LaneInv, HandedBefore
    <2>3. CASE k = <<m.id, m.src>> /\ a[j] = m
        <3>1. seen[r][i] \in arrived /\ Mates(seen[r][i], m)
            BY <2>0, <2>1, <2>3 DEF LaneInv, Handed, Mates
        <3> QED
            BY <1>1, <2>3, <3>1, ArrivalLast
    <2> QED
        BY <2>1, <2>2, <2>3 DEF Grown
<1>15. LaneOrder'
    BY <1>1 DEF LaneInv, LaneOrder, Rank
<1> QED
    BY <1>7, <1>8, <1>9, <1>11, <1>12, <1>13, <1>14, <1>15 DEF LaneInv

\* The end of a read.
LEMMA EndReadKeepsLanes ==
    ASSUME LaneInv, NEW m \in Msg, EndRead(m)
    PROVE  LaneInv'
<1>1. /\ task[m] \in {"reading", "draining"}
      /\ acked' = [acked EXCEPT ![m] = @ + 1]
      /\ UNCHANGED <<lane, arrived, relayed, seen>>
    BY DEF EndRead, Acknowledged
<1>2. PICK t \in {"read", "failed", "over"} : task' = [task EXCEPT ![m] = t]
    BY DEF EndRead
<1>3. /\ task \in [Msg -> TaskState] /\ acked \in [Msg -> 0..1] /\ acked[m] = 0
    BY <1>1 DEF LaneInv, Receiving, Tasks
<1>4. /\ task'[m] = t /\ acked'[m] = 1
      /\ \A x \in Msg : x # m => task'[x] = task[x] /\ acked'[x] = acked[x]
    BY <1>1, <1>2, <1>3
<1>5. Receiving'
    <2>1. acked' \in [Msg -> 0..1]
        BY <1>1, <1>3
    <2>2. task' \in [Msg -> TaskState]
        BY <1>2, <1>3 DEF TaskState
    <2> QED
        BY <1>1, <2>1, <2>2 DEF LaneInv, Receiving
<1>6. \A x \in Msg : task'[x] \in {"none", "done"} <=> task[x] \in {"none", "done"}
    BY <1>1, <1>4
<1>7. Arrivals' /\ LaneSorted' /\ HandedBefore' /\ LaneOrder'
    BY <1>1 DEF LaneInv, Arrivals, LaneSorted, HandedBefore, LaneOrder, Rank
<1>8. Tasks'
    BY <1>1, <1>4, <1>6 DEF LaneInv, Tasks
<1>9. LaneHolds'
    <2>1. ASSUME NEW k \in Ids \X Sources, NEW i \in 1..Len(lane[k])
          PROVE  lane[k][i] \in Msg
        BY DEF LaneInv, Receiving
    <2> QED
        BY <1>1, <1>6, <2>1 DEF LaneInv, LaneHolds
<1>10. Handed'
    <2>1. ASSUME NEW r \in Ids, NEW i \in 1..Len(seen[r])
          PROVE  seen[r][i] \in Msg
        BY DEF LaneInv, Receiving
    <2> QED
        BY <1>1, <1>6, <2>1 DEF LaneInv, Handed
<1> QED
    BY <1>5, <1>7, <1>8, <1>9, <1>10 DEF LaneInv

\* Only what a task gives it gets into the scheduler's inbox.
LEMMA Delivered ==
    ASSUME NEW m \in Msg, NEW bound, Deliver(m, bound) \/ Failure(m) \/ Ignore
    PROVE  seen' = seen \/ seen' = [seen EXCEPT ![m.id] = Append(@, m)]
BY DEF Deliver, Failure, Ignore, ReceivePayload, Execute, ReceiveStream

\* The lane l of k has become a, without m if m was at its head.
Shrunk(l, a, m, k) ==
    /\ l \in Seq(Msg) /\ a \in Seq(Msg) /\ Len(l) \in Nat /\ Len(a) \in Nat
    /\ k # <<m.id, m.src>> => a = l
    /\ k = <<m.id, m.src>> =>
          /\ l[1] = m /\ 1 \in 1..Len(l)
          /\ \A i \in 1..Len(a) : i + 1 \in 1..Len(l) /\ a[i] = l[i + 1] /\ 1 < i + 1
          /\ \A i \in 1..Len(l) : i = 1 \/ (i - 1 \in 1..Len(a) /\ a[i - 1] = l[i])

\* The lanes after the head of one has left it.
LEMMA HeadLeft ==
    ASSUME LaneInv, NEW m \in Msg, Advance(m), NEW k \in Ids \X Sources
    PROVE  Shrunk(lane[k], lane'[k], m, k)
<1>1. PICK l, a : l = lane[k] /\ a = lane'[k]
    OBVIOUS
<1>2. /\ lane \in [Ids \X Sources -> Seq(Msg)] /\ l \in Seq(Msg) /\ Len(l) \in Nat
      /\ lane' = [lane EXCEPT ![<<m.id, m.src>>] = Tail(@)]
    BY <1>1 DEF LaneInv, Receiving, Advance
<1>3. CASE k # <<m.id, m.src>>
    <2>1. a = l
        BY <1>1, <1>2, <1>3
    <2> QED
        BY <1>1, <1>2, <1>3, <2>1 DEF Shrunk
<1>4. CASE k = <<m.id, m.src>>
    <2>1. a = Tail(l) /\ Head(l) = m
        BY <1>1, <1>2, <1>4 DEF Advance, ItsTurn
    <2>2. l # <<>>
        <3>1. \E i \in 1..Len(l) : l[i] = m
            BY <1>1, <1>4 DEF Advance, LaneInv, Tasks
        <3> QED
            BY <1>2, <3>1
    <2>3. /\ a \in Seq(Msg) /\ Len(a) = Len(l) - 1 /\ l[1] = m /\ Len(l) # 0
          /\ \A i \in 1..Len(a) : a[i] = l[i + 1]
        BY <1>2, <2>1, <2>2
    <2>4. /\ Len(a) \in Nat /\ 1 \in 1..Len(l)
          /\ \A i \in 1..Len(a) : i + 1 \in 1..Len(l) /\ 1 < i + 1
          /\ \A i \in 1..Len(l) : i = 1 \/ (i - 1 \in 1..Len(a) /\ (i - 1) + 1 = i)
        BY <1>2, <2>3
    <2>5. \A i \in 1..Len(l) : i = 1 \/ (i - 1 \in 1..Len(a) /\ a[i - 1] = l[i])
        BY <2>3, <2>4
    <2> QED
        BY <1>1, <1>2, <1>4, <2>3, <2>4, <2>5 DEF Shrunk
<1> QED
    BY <1>3, <1>4

\* The handler goes on after its wait.
LEMMA AdvanceKeepsLanes ==
    ASSUME LaneInv, NEW m \in Msg, Advance(m)
    PROVE  LaneInv'
<1>1. /\ task[m] \in {"read", "failed", "over"}
      /\ task' = [task EXCEPT ![m] = "done"]
      /\ UNCHANGED <<arrived, relayed, acked>>
      /\ seen' = seen \/ seen' = [seen EXCEPT ![m.id] = Append(@, m)]
      /\ lane' = [lane EXCEPT ![<<m.id, m.src>>] = Tail(@)]
    BY Delivered DEF Advance
<1>2. Receiving
    BY DEF LaneInv
<1>3. task'[m] = "done" /\ \A x \in Msg : x # m => task'[x] = task[x]
    BY <1>1, <1>2 DEF Receiving
<1>4. PICK q \in Ids \X Sources : q = <<m.id, m.src>>
    BY <1>1, IdOfMessage DEF LaneInv, Tasks
<1>5. m \in arrived /\ m.id \in Ids /\ m.src \in Sources
    BY <1>1, IdOfMessage DEF LaneInv, Tasks
<1>6. \A k \in Ids \X Sources : Shrunk(lane[k], lane'[k], m, k)
    BY HeadLeft
<1>7. Receiving'
    <2>1. \A k \in Ids \X Sources : lane'[k] \in Seq(Msg)
        BY <1>6 DEF Shrunk
    <2>2. lane' \in [Ids \X Sources -> Seq(Msg)]
        BY <1>1, <1>2, <2>1 DEF Receiving
    <2>3. task' \in [Msg -> TaskState]
        BY <1>1, <1>2 DEF Receiving, TaskState
    <2> QED
        BY <1>1, <1>2, <2>2, <2>3, Inbox DEF Receiving
<1>8. Arrivals'
    BY <1>1 DEF LaneInv, Arrivals
<1>9. Tasks'
    <2> SUFFICES ASSUME NEW x \in Msg
                 PROVE  /\ x \notin arrived => task'[x] = "none"
                        /\ task'[x] \in {"none", "reading", "draining"} => acked[x] = 0
                        /\ task'[x] \notin {"none", "done"} =>
                              /\ x.src \in Sources \ LocalSources
                              /\ \E i \in 1..Len(lane'[<<x.id, x.src>>]) :
                                    lane'[<<x.id, x.src>>][i] = x
        BY <1>1 DEF Tasks
    <2>1. CASE x = m
        BY <1>3, <1>5, <2>1
    <2>2. CASE x # m
        <3>1. task'[x] = task[x]
            BY <1>3, <2>2
        <3>2. /\ x \notin arrived => task'[x] = "none"
              /\ task'[x] \in {"none", "reading", "draining"} => acked[x] = 0
            BY <3>1 DEF LaneInv, Tasks
        <3>3. ASSUME task[x] \notin {"none", "done"}
              PROVE  /\ x.src \in Sources \ LocalSources
                     /\ \E i \in 1..Len(lane'[<<x.id, x.src>>]) :
                           lane'[<<x.id, x.src>>][i] = x
            <4>1. x.src \in Sources \ LocalSources
                BY <3>3 DEF LaneInv, Tasks
            <4>0. PICK k \in Ids \X Sources : k = <<x.id, x.src>>
                BY <4>1, IdOfMessage
            <4>2. PICK l : k = <<x.id, x.src>> /\ l = lane[k]
                BY <4>0
            <4>3. PICK i \in 1..Len(l) : l[i] = x
                BY <3>3, <4>2 DEF LaneInv, Tasks
            <4>4. PICK a : a = lane'[k] /\ Shrunk(l, a, m, k)
                BY <1>6, <4>2
            <4>5. \E j \in 1..Len(a) : a[j] = x
                BY <2>2, <4>3, <4>4 DEF Shrunk
            <4> QED
                BY <4>1, <4>2, <4>4, <4>5
        <3> QED
            BY <3>1, <3>2, <3>3
    <2> QED
        BY <2>1, <2>2
<1>10. ASSUME NEW k \in Ids \X Sources, NEW a, a = lane'[k], NEW i \in 1..Len(a)
       PROVE  /\ a[i] \in arrived /\ a[i] \in Msg /\ a[i] # m
              /\ <<a[i].id, a[i].src>> = k
              /\ task[a[i]] \notin {"none", "done"}
    <2>1. PICK l : l = lane[k] /\ Shrunk(l, a, m, k)
        BY <1>6, <1>10
    <2>2. \A j \in 1..Len(l) : /\ l[j] \in arrived /\ l[j] \in Msg
                               /\ <<l[j].id, l[j].src>> = k
                               /\ task[l[j]] \notin {"none", "done"}
        BY <1>2, <2>1 DEF LaneInv, LaneHolds, Receiving
    <2>3. CASE k # <<m.id, m.src>>
        <3>1. a = l
            BY <2>1, <2>3 DEF Shrunk
        <3> QED
            BY <1>10, <2>2, <2>3, <3>1
    <2>4. CASE k = <<m.id, m.src>>
        <3>1. l[1] = m /\ 1 \in 1..Len(l) /\ i + 1 \in 1..Len(l) /\ a[i] = l[i + 1] /\ 1 < i + 1
            BY <1>10, <2>1, <2>4 DEF Shrunk
        <3>2. Rank(l[1]) < Rank(l[i + 1])
            BY <2>1, <3>1 DEF LaneInv, LaneSorted
        <3>3. l[i + 1] # m
            BY <3>1, <3>2, RankIsNat
        <3> QED
            BY <2>2, <3>1, <3>3
    <2> QED
        BY <2>3, <2>4
<1>11. LaneHolds'
    <2> SUFFICES ASSUME NEW k \in Ids \X Sources, NEW a, a = lane'[k], NEW i \in 1..Len(a)
                 PROVE  /\ a[i] \in arrived'
                        /\ <<a[i].id, a[i].src>> = k
                        /\ task'[a[i]] \notin {"none", "done"}
        BY DEF LaneHolds
    <2>1. /\ a[i] \in arrived /\ a[i] \in Msg /\ a[i] # m
          /\ <<a[i].id, a[i].src>> = k
          /\ task[a[i]] \notin {"none", "done"}
        BY <1>10
    <2> QED
        BY <1>1, <1>3, <2>1
<1>12. LaneSorted'
    <2> SUFFICES ASSUME NEW k \in Ids \X Sources, NEW a, a = lane'[k],
                        NEW i \in 1..Len(a), NEW j \in 1..Len(a), i < j
                 PROVE  Rank(a[i]) < Rank(a[j])
        BY DEF LaneSorted, Rank
    <2>1. PICK l : l = lane[k] /\ Shrunk(l, a, m, k)
        BY <1>6
    <2>2. \A x, y \in 1..Len(l) : x < y => Rank(l[x]) < Rank(l[y])
        BY <2>1 DEF LaneInv, LaneSorted
    <2>3. CASE k # <<m.id, m.src>>
        BY <2>1, <2>2, <2>3 DEF Shrunk
    <2>4. CASE k = <<m.id, m.src>>
        <3>1. /\ i + 1 \in 1..Len(l) /\ a[i] = l[i + 1]
              /\ j + 1 \in 1..Len(l) /\ a[j] = l[j + 1]
            BY <2>1, <2>4 DEF Shrunk
        <3>2. i + 1 < j + 1
            BY <2>1 DEF Shrunk
        <3> QED
            BY <2>2, <3>1, <3>2
    <2> QED
        BY <2>3, <2>4
<1>13. ASSUME NEW r \in Ids, NEW i \in 1..Len(seen[r])
       PROVE  seen[r][i] \in Msg
    BY <1>2 DEF Receiving
<1>14. Handed'
    <2>1. \A x \in Msg : task[x] \in {"none", "done"} => task'[x] \in {"none", "done"}
        BY <1>3
    <2> QED
        BY <1>1, <1>3, <1>5, <1>13, <2>1, Inbox DEF LaneInv, Handed
<1>15. HandedBefore'
    <2> SUFFICES ASSUME NEW r \in Ids, NEW x, NEW i \in 1..Len(seen'[r]), x = seen'[r][i],
                        NEW s \in Sources, x.src = s,
                        NEW a, a = lane'[<<r, s>>], NEW j \in 1..Len(a)
                 PROVE  Rank(x) < Rank(a[j])
        BY DEF HandedBefore, Rank
    <2>0. PICK k \in Ids \X Sources : k = <<r, s>>
        OBVIOUS
    <2>1. PICK l : l = lane[k] /\ Shrunk(l, a, m, k)
        BY <1>6, <2>0
    <2>2. PICK z \in 1..Len(l) : a[j] = l[z] /\ (k = <<m.id, m.src>> => 1 < z)
        <3>1. CASE k # <<m.id, m.src>>
            BY <2>1, <3>1 DEF Shrunk
        <3>2. CASE k = <<m.id, m.src>>
            BY <2>1, <3>2 DEF Shrunk
        <3> QED
            BY <3>1, <3>2
    <2>3. CASE i \in 1..Len(seen[r]) /\ x = seen[r][i]
        BY <2>0, <2>1, <2>2, <2>3 DEF LaneInv, HandedBefore
    <2>4. CASE r = m.id /\ x = m
        <3>1. k = <<m.id, m.src>> /\ l[1] = m /\ 1 \in 1..Len(l)
            BY <2>0, <2>1, <2>4 DEF Shrunk
        <3>2. Rank(l[1]) < Rank(l[z])
            BY <2>1, <2>2, <3>1 DEF LaneInv, LaneSorted
        <3> QED
            BY <2>2, <2>4, <3>1, <3>2
    <2>5. \/ i \in 1..Len(seen[r]) /\ seen'[r][i] = seen[r][i]
          \/ r = m.id /\ seen'[r][i] = m
        <3>1. TakesIn(m)
            BY <1>1 DEF TakesIn
        <3> QED
            BY <3>1, InboxAt
    <2> QED
        BY <2>3, <2>4, <2>5
<1>16. LaneOrder'
    <2>1. PICK l, a : l = lane[q] /\ Shrunk(l, a, m, q)
        BY <1>6
    <2>2. l[1] = m /\ 1 \in 1..Len(l)
        BY <1>4, <2>1 DEF Shrunk
    <2>3. \A i \in 1..Len(seen[m.id]) :
             seen[m.id][i].src = m.src => Rank(seen[m.id][i]) < Rank(m)
        BY <1>4, <1>5, <2>1, <2>2 DEF LaneInv, HandedBefore
    <2> QED
        BY <1>1, <2>3, InboxOrder
<1> QED
    BY <1>7, <1>8, <1>9, <1>11, <1>12, <1>14, <1>15, <1>16 DEF LaneInv

\* The lanes are in order in every reachable state.
THEOREM LanesInductive == Spec => []LaneInv
<1>1. ASSUME LaneInv, [Next]_vars
      PROVE  LaneInv'
    <2>1. ASSUME NEW m \in Msg, Submit(m) PROVE LaneInv'
        <3>1. m.src = None /\ Arrives(m) /\ UNCHANGED <<lane, task, relayed, acked>>
            BY <2>1, MsgKinds DEF Submit
        <3>2. seen' = seen \/ seen' = [seen EXCEPT ![m.id] = Append(@, m)]
            BY <2>1 DEF Submit, Ignore, Execute
        <3> QED
            BY <1>1, <3>1, <3>2, NoTaskKeeps
    <2>2. ASSUME NEW m \in Msg, ReceiveLocal(m) PROVE LaneInv'
        <3>1. /\ m.src \in LocalSources /\ Arrives(m)
              /\ UNCHANGED <<lane, task, relayed, acked>>
              /\ Deliver(m, WithBindings(m.id))
            BY <2>2 DEF ReceiveLocal
        <3>2. seen' = seen \/ seen' = [seen EXCEPT ![m.id] = Append(@, m)]
            BY <3>1, Delivered
        <3> QED
            BY <1>1, <3>1, <3>2, NoTaskKeeps
    <2>3. ASSUME NEW r \in Ids, Abort(r) \/ SchedStreams(r) \/ SchedEnds(r)
          PROVE  LaneInv'
        BY <1>1, <2>3, LanesUntouched DEF Abort, SchedStreams, SchedEnds, receiving
    <2>4. CASE DiscardRaises \/ SchedulerCrash \/ Drain \/ HopOn
        BY <1>1, <2>4, LanesUntouched DEF DiscardRaises, SchedulerCrash, Drain, HopOn, receiving
    <2>5. CASE UNCHANGED vars
        BY <1>1, <2>5, LanesUntouched DEF vars, receiving
    <2> QED
        BY <1>1, <2>1, <2>2, <2>3, <2>4, <2>5, ScheduleKeepsLanes, EndReadKeepsLanes,
           AdvanceKeepsLanes DEF Next
<1> QED
    BY InitLanes, <1>1, PTL DEF Spec

\* The scheduler is given what one source sent for a request in the order in
\* which it was sent, whatever the order in which the reads end.
THEOREM LanesOrdered == Spec => []LaneOrder
<1>1. LaneInv => LaneOrder
    BY DEF LaneInv
<1> QED
    BY <1>1, LanesInductive, PTL

\* _wait_for_receive_predecessor waits for nobody who is gone: ahead of every
\* message that is being received, the head of its lane reads or may go on.
LanesMove ==
    \A m \in Msg : task[m] \notin {"none", "done"} =>
        \E h \in arrived : /\ h.id = m.id /\ h.src = m.src /\ ItsTurn(h)
                          /\ task[h] \in {"reading", "draining", "read", "failed", "over"}
                          /\ Rank(h) <= Rank(m)

\* A message that is being received is behind the head of its lane, and that one
\* has a task which is not done: no receive task waits for ever for a predecessor.
THEOREM NoLaneStuck == Spec => []LanesMove
<1>1. ASSUME LaneInv
      PROVE  LanesMove
    <2> SUFFICES ASSUME NEW m \in Msg, task[m] \notin {"none", "done"}
                 PROVE  \E h \in arrived :
                           /\ h.id = m.id /\ h.src = m.src /\ ItsTurn(h)
                           /\ task[h] \in {"reading", "draining", "read", "failed", "over"}
                           /\ Rank(h) <= Rank(m)
        BY DEF LanesMove
    <2>1. PICK k : k = <<m.id, m.src>>
        OBVIOUS
    <2>2. k \in Ids \X Sources /\ lane[k] \in Seq(Msg)
        BY <1>1, <2>1, MsgKinds DEF LaneInv, Receiving, Tasks
    <2>3. PICK i \in 1..Len(lane[k]) : lane[k][i] = m
        BY <1>1, <2>1 DEF LaneInv, Tasks
    <2>4. PICK h : h = lane[k][1]
        OBVIOUS
    <2>5. 1 \in 1..Len(lane[k]) /\ i \in Nat /\ (i = 1 \/ 1 < i)
        BY <2>2, <2>3
    <2>6. /\ h \in arrived /\ <<h.id, h.src>> = k /\ task[h] \notin {"none", "done"}
        BY <1>1, <2>2, <2>4, <2>5 DEF LaneInv, LaneHolds
    <2>7. h \in Msg /\ task[h] \in TaskState
        BY <1>1, <2>6 DEF LaneInv, Receiving
    <2>8. h.id = m.id /\ h.src = m.src
        BY <2>1, <2>6
    <2>9. ItsTurn(h)
        <3>1. Head(lane[k]) = h
            BY <2>2, <2>4
        <3> QED
            BY <2>6, <3>1 DEF ItsTurn
    <2>10. Rank(h) <= Rank(m)
        <3>1. CASE i = 1
            BY <2>3, <2>4, <3>1, RankIsNat
        <3>2. CASE 1 < i
            <4>1. Rank(lane[k][1]) < Rank(lane[k][i])
                BY <1>1, <2>2, <2>3, <2>5, <3>2 DEF LaneInv, LaneSorted
            <4> QED
                BY <2>3, <2>4, <2>7, <4>1, RankIsNat
        <3> QED
            BY <2>5, <3>1, <3>2
    <2> QED
        BY <2>6, <2>7, <2>8, <2>9, <2>10 DEF TaskState
<1> QED
    BY <1>1, LanesInductive, PTL

\* Where the buffers are: one that is read was announced, and what was announced
\* has arrived.
Buffers ==
    /\ relayed \subseteq arrived
    /\ \A m \in Msg : task[m] \in {"reading", "draining"} => m \in relayed
    /\ BuffersAnsweredOnce

\* Each step changes the state of one message only, and there the count of its
\* acknowledgements agrees with its task.
THEOREM AnsweredOnce == Spec => []BuffersAnsweredOnce
<1>1. Init => Buffers
    BY DEF Init, Buffers, BuffersAnsweredOnce
<1>2. ASSUME LaneInv, Buffers, UNCHANGED <<task, relayed, acked>>, arrived \subseteq arrived'
      PROVE  Buffers'
    BY <1>2 DEF Buffers, BuffersAnsweredOnce
<1>3. ASSUME LaneInv, Buffers, NEW m \in Msg, Schedule(m)
      PROVE  Buffers'
    <2>1. /\ m \notin arrived /\ arrived' = arrived \cup {m}
          /\ acked' = acked
        BY <1>3 DEF Schedule, Arrives
    <2>2. task \in [Msg -> TaskState] /\ acked[m] = 0 /\ m \notin relayed
        BY <1>3, <2>1 DEF LaneInv, Receiving, Tasks, Buffers
    <2>3. \/ relayed' = relayed /\ \E t \in {"read", "failed", "over"} :
                task' = [task EXCEPT ![m] = t]
          \/ relayed' = relayed \cup {m} /\ \E t \in {"reading", "draining"} :
                task' = [task EXCEPT ![m] = t]
        BY <1>3 DEF Schedule, AbortedRead
    <2>4. CASE relayed' = relayed /\ \E t \in {"read", "failed", "over"} :
                task' = [task EXCEPT ![m] = t]
        BY <1>3, <2>1, <2>2, <2>4 DEF Buffers, BuffersAnsweredOnce
    <2>5. CASE relayed' = relayed \cup {m} /\ \E t \in {"reading", "draining"} :
                task' = [task EXCEPT ![m] = t]
        BY <1>3, <2>1, <2>2, <2>5 DEF Buffers, BuffersAnsweredOnce
    <2> QED
        BY <2>3, <2>4, <2>5
<1>4. ASSUME LaneInv, Buffers, NEW m \in Msg, EndRead(m)
      PROVE  Buffers'
    <2>1. /\ task[m] \in {"reading", "draining"}
          /\ acked' = [acked EXCEPT ![m] = @ + 1]
          /\ UNCHANGED <<arrived, relayed>>
        BY <1>4 DEF EndRead, Acknowledged
    <2>2. PICK t \in {"read", "failed", "over"} : task' = [task EXCEPT ![m] = t]
        BY <1>4 DEF EndRead
    <2>3. /\ task \in [Msg -> TaskState] /\ acked \in [Msg -> 0..1] /\ acked[m] = 0
          /\ m \in relayed
        BY <1>4, <2>1 DEF LaneInv, Receiving, Tasks, Buffers
    <2>4. /\ task'[m] = t /\ acked'[m] = 1
          /\ \A x \in Msg : x # m => task'[x] = task[x] /\ acked'[x] = acked[x]
        BY <2>1, <2>2, <2>3
    <2> QED
        BY <1>4, <2>1, <2>3, <2>4 DEF Buffers, BuffersAnsweredOnce
<1>5. ASSUME LaneInv, Buffers, NEW m \in Msg, Advance(m)
      PROVE  Buffers'
    <2>1. /\ task[m] \in {"read", "failed", "over"}
          /\ task' = [task EXCEPT ![m] = "done"]
          /\ UNCHANGED <<arrived, relayed, acked>>
        BY <1>5 DEF Advance
    <2>2. task \in [Msg -> TaskState]
        BY <1>5 DEF LaneInv, Receiving
    <2> QED
        BY <1>5, <2>1, <2>2 DEF Buffers, BuffersAnsweredOnce
<1>6. ASSUME LaneInv, Buffers, [Next]_vars
      PROVE  Buffers'
    <2>1. ASSUME NEW m \in Msg, Submit(m) \/ ReceiveLocal(m)
          PROVE  Buffers'
        BY <1>2, <1>6, <2>1 DEF Submit, ReceiveLocal, Arrives
    <2>2. ASSUME NEW r \in Ids, Abort(r) \/ SchedStreams(r) \/ SchedEnds(r)
          PROVE  Buffers'
        BY <1>2, <1>6, <2>2 DEF Abort, SchedStreams, SchedEnds, receiving
    <2>3. CASE DiscardRaises \/ SchedulerCrash \/ Drain \/ HopOn
        BY <1>2, <1>6, <2>3 DEF DiscardRaises, SchedulerCrash, Drain, HopOn, receiving
    <2>4. CASE UNCHANGED vars
        BY <1>2, <1>6, <2>4 DEF vars, receiving
    <2> QED
        BY <1>3, <1>4, <1>5, <1>6, <2>1, <2>2, <2>3, <2>4 DEF Next
<1>7. Buffers => BuffersAnsweredOnce
    BY DEF Buffers
<1> QED
    BY <1>1, <1>6, <1>7, LanesInductive, PTL DEF Spec

-----------------------------------------------------------------------------
\* Type correctness.

\* The tables of a request.
TableTypes ==
    /\ bindings \subseteq Ids /\ opened \subseteq Ids /\ decided \subseteq Ids
    /\ pending \in [Ids -> SUBSET PayloadSources]
    /\ sched \in [Ids -> {"none", "busy", "over"}]

\* A route has no more hops than there are targets.
IsHops(hops) == hops \in Seq(Downstream) /\ Len(hops) <= Len(StreamTo) + Len(NextStages)

RouteTypes ==
    /\ route # None => route.kind \in {"stream", "result"} /\ IsHops(route.hops)
    /\ finished \subseteq Ids /\ aborts \subseteq Ids
    /\ alive \in {"running", "crashed", "unbound", "raised"}

\* _clear_request_state
LEMMA ClearTyped ==
    ASSUME TableTypes, NEW r \in Ids, Clear(r), sched' = sched \/ sched' = SchedAborted(r)
    PROVE  TableTypes'
BY DEF TableTypes, Clear, SchedAborted

\* A message whose turn has come.
LEMMA DeliverTyped ==
    ASSUME TableTypes, NEW m \in Msg, NEW bound \in SUBSET Ids,
           Deliver(m, bound) \/ Failure(m) \/ Ignore
    PROVE  TableTypes'
<1>1. m.id \in Ids /\ (m.kind = "payload" => m.src \in PayloadSources)
    BY MsgKinds
<1>2. CASE Ignore
    BY <1>2 DEF Ignore, tables, TableTypes
<1>3. CASE Failure(m)
    BY <1>1, <1>2, <1>3, ClearTyped DEF Failure, SendFailure
<1>4. CASE m.kind = "payload" /\ ReceivePayload(m, bound)
    <2>1. /\ bindings' = bound
          /\ opened' = opened \/ opened' = opened \cup {m.id}
          /\ \/ decided' = decided \ {m.id}
             \/ decided' = decided \/ decided' = decided \cup {m.id}
        BY <1>4 DEF ReceivePayload
    <2>2. \/ pending' = [pending EXCEPT ![m.id] = {}]
          \/ pending' = [pending EXCEPT ![m.id] = pending[m.id] \cup {m.src}]
        BY <1>4 DEF ReceivePayload
    <2>3. pending[m.id] \cup {m.src} \in SUBSET PayloadSources
        BY <1>1, <1>4 DEF TableTypes
    <2>4. pending' \in [Ids -> SUBSET PayloadSources]
        BY <2>2, <2>3 DEF TableTypes
    <2>5. sched' = sched \/ sched' = [sched EXCEPT ![m.id] = IF @ = "none" THEN "busy" ELSE @]
        BY <1>4 DEF ReceivePayload, Execute
    <2>6. sched' \in [Ids -> {"none", "busy", "over"}]
        BY <1>1, <2>5 DEF TableTypes
    <2> QED
        BY <1>1, <2>1, <2>4, <2>6 DEF TableTypes
<1>5. CASE ReceiveStream(m, bound)
    <2>1. CASE SendFailure(m.id) /\ sched' = SchedAborted(m.id)
        BY <1>1, <2>1, ClearTyped DEF SendFailure
    <2>2. CASE /\ opened' = opened \cup {m.id} /\ bindings' = bound
               /\ UNCHANGED <<pending, decided, sched>>
        BY <1>1, <2>2 DEF TableTypes
    <2> QED
        BY <1>5, <2>1, <2>2 DEF ReceiveStream
<1> QED
    BY <1>2, <1>3, <1>4, <1>5 DEF Deliver

\* The message loop and the receive tasks.
LEMMA MessageTyped ==
    ASSUME TableTypes, RouteTypes, NEW m \in Msg,
           Submit(m) \/ ReceiveLocal(m) \/ Schedule(m) \/ EndRead(m) \/ Advance(m)
    PROVE  TableTypes' /\ RouteTypes'
<1>1. m.id \in Ids /\ WithBindings(m.id) \in SUBSET Ids /\ bindings \in SUBSET Ids
    BY MsgKinds DEF TableTypes, WithBindings
<1>2. UNCHANGED <<route, finished, aborts, alive>>
    BY DEF Submit, ReceiveLocal, Schedule, EndRead, Advance, sending
<1>3. RouteTypes'
    BY <1>2 DEF RouteTypes
<1>4. CASE Submit(m)
    <2>1. CASE Ignore
        BY <1>3, <2>1 DEF Ignore, tables, TableTypes
    <2>2. CASE ~Ignore
        <3>1. /\ bindings' = WithBindings(m.id)
              /\ opened' = opened \/ opened' = opened \cup {m.id}
              /\ sched' = [sched EXCEPT ![m.id] = IF @ = "none" THEN "busy" ELSE @]
              /\ UNCHANGED <<pending, decided>>
            BY <1>4, <2>2 DEF Submit, Execute
        <3>2. sched' \in [Ids -> {"none", "busy", "over"}]
            BY <1>1, <3>1 DEF TableTypes
        <3> QED
            BY <1>1, <1>3, <3>1, <3>2 DEF TableTypes
    <2> QED
        BY <1>3, <2>1, <2>2
<1>5. CASE ReceiveLocal(m)
    BY <1>1, <1>3, <1>5, DeliverTyped DEF ReceiveLocal
<1>6. CASE Schedule(m)
    BY <1>1, <1>3, <1>6 DEF Schedule, TableTypes
<1>7. CASE EndRead(m)
    BY <1>3, <1>7 DEF EndRead, tables, TableTypes
<1>8. CASE Advance(m)
    BY <1>1, <1>3, <1>8, DeliverTyped DEF Advance
<1> QED
    BY <1>4, <1>5, <1>6, <1>7, <1>8

\* A hop begins, or raises.
LEMMA HopTyped ==
    ASSUME NEW r, NEW kind \in {"stream", "result"}, NEW hops, IsHops(hops), hops # <<>>,
           TakeHop(r, kind, hops), alive = "running"
    PROVE  /\ route' # None => route'.kind \in {"stream", "result"} /\ IsHops(route'.hops)
           /\ alive' \in {"running", "unbound"}
<1>1. Len(StreamTo) \in Nat /\ Len(NextStages) \in Nat
    BY StageAssumption
<1>2. IsHops(Tail(hops))
    <2>1. Tail(hops) \in Seq(Downstream) /\ Len(Tail(hops)) = Len(hops) - 1 /\ Len(hops) \in Nat
        BY DEF IsHops
    <2> QED
        BY <1>1, <2>1 DEF IsHops
<1>3. CASE route' = None /\ alive' = "unbound"
    BY <1>3
<1>4. CASE route' = [id |-> r, kind |-> kind, hops |-> Tail(hops)] /\ alive' = alive
    <2>1. route'.kind = kind /\ route'.hops = Tail(hops)
        BY <1>4
    <2> QED
        BY <1>2, <1>4, <2>1
<1> QED
    BY <1>3, <1>4 DEF TakeHop

\* The end of _route_result.
LEMMA FinishTyped ==
    ASSUME TableTypes, RouteTypes, NEW r \in Ids, FinishRoute(r), UNCHANGED <<sched, aborts>>
    PROVE  TableTypes' /\ RouteTypes'
<1>1. Clear(r) /\ route' = None /\ finished' = finished \cup {r} /\ alive' = alive
    BY DEF FinishRoute
<1> QED
    BY <1>1, ClearTyped DEF RouteTypes

\* _drain_outbox_external
LEMMA DrainTyped ==
    ASSUME IInv, TableTypes, RouteTypes, Drain
    PROVE  TableTypes' /\ RouteTypes'
<1> DEFINE r == Head(outbox).id
           kind == Head(outbox).kind
           hops == StreamTo \o NextStages
<1>1. /\ outbox \in Seq(Item) /\ outbox # <<>> /\ alive = "running"
      /\ UNCHANGED <<sched, aborts>>
    BY DEF Drain, IInv, Shapes
<1>2. r \in Ids /\ kind \in {"stream", "result", "error"}
    <2>1. Head(outbox) \in Item
        BY <1>1
    <2> QED
        BY <2>1 DEF Item
<1>3. IsHops(hops) /\ IsHops(StreamTo)
    <2>1. /\ StreamTo \in Seq(Downstream) /\ NextStages \in Seq(Downstream)
          /\ Len(StreamTo) \in Nat /\ Len(NextStages) \in Nat
        BY StageAssumption
    <2>2. hops \in Seq(Downstream) /\ Len(hops) = Len(StreamTo) + Len(NextStages)
        BY <2>1
    <2> QED
        BY <2>1, <2>2 DEF IsHops
<1>4. \/ UNCHANGED <<tables, route, finished, alive>>
      \/ SendFailure(r) /\ UNCHANGED <<route, finished, alive>>
      \/ /\ kind = "stream" /\ route' = [id |-> r, kind |-> kind, hops |-> StreamTo]
         /\ UNCHANGED <<tables, finished, alive>>
      \/ /\ kind = "result" /\ hops # <<>> /\ TakeHop(r, kind, hops)
         /\ UNCHANGED <<tables, finished>>
      \/ FinishRoute(r)
    BY DEF Drain
<1> HIDE DEF r, kind, hops
<1>5. CASE UNCHANGED <<tables, route, finished, alive>>
    BY <1>1, <1>5 DEF tables, TableTypes, RouteTypes
<1>6. CASE SendFailure(r) /\ UNCHANGED <<route, finished, alive>>
    BY <1>1, <1>2, <1>6, ClearTyped DEF SendFailure, RouteTypes
<1>7. CASE /\ kind = "stream" /\ route' = [id |-> r, kind |-> kind, hops |-> StreamTo]
           /\ UNCHANGED <<tables, finished, alive>>
    BY <1>1, <1>3, <1>7 DEF tables, TableTypes, RouteTypes
<1>8. CASE /\ kind = "result" /\ hops # <<>> /\ TakeHop(r, kind, hops)
           /\ UNCHANGED <<tables, finished>>
    <2>1. TableTypes'
        BY <1>1, <1>8 DEF tables, TableTypes
    <2> QED
        BY <1>1, <1>3, <1>8, <2>1, HopTyped DEF RouteTypes
<1>9. CASE FinishRoute(r)
    BY <1>1, <1>2, <1>9, FinishTyped
<1> QED
    BY <1>4, <1>5, <1>6, <1>7, <1>8, <1>9

\* The drain coroutine goes on with a result or a chunk.
LEMMA HopOnTyped ==
    ASSUME IInv, TableTypes, RouteTypes, HopOn
    PROVE  TableTypes' /\ RouteTypes'
<1>1. /\ alive = "running" /\ route.id \in Ids /\ UNCHANGED <<sched, aborts>>
      /\ route.kind \in {"stream", "result"} /\ IsHops(route.hops)
    BY DEF HopOn, IInv, Shapes, RouteTypes
<1>2. CASE /\ route.hops # <<>> /\ TakeHop(route.id, route.kind, route.hops)
           /\ UNCHANGED <<tables, told, finished>>
    <2>1. TableTypes'
        BY <1>1, <1>2 DEF tables, TableTypes
    <2>2. /\ route' # None => route'.kind \in {"stream", "result"} /\ IsHops(route'.hops)
          /\ alive' \in {"running", "unbound"}
        BY <1>1, <1>2, HopTyped
    <2> QED
        BY <1>1, <1>2, <2>1, <2>2 DEF RouteTypes
<1>3. CASE FinishRoute(route.id)
    BY <1>1, <1>3, FinishTyped
<1>4. CASE route' = None /\ UNCHANGED <<tables, told, finished, alive>>
    BY <1>1, <1>4 DEF tables, TableTypes, RouteTypes
<1> QED
    BY <1>2, <1>3, <1>4 DEF HopOn

\* The types of what the lanes and the tracking are not about.
THEOREM TypesInductive == Spec => [](IInv /\ TableTypes /\ RouteTypes)
<1>1. Init => TableTypes /\ RouteTypes
    BY DEF Init, TableTypes, RouteTypes
<1>2. ASSUME IInv, TableTypes, RouteTypes, [Next]_vars
      PROVE  TableTypes' /\ RouteTypes'
    <2>1. ASSUME NEW r \in Ids, Abort(r)
          PROVE  TableTypes' /\ RouteTypes'
        <3>1. TableTypes'
            BY <1>2, <2>1, ClearTyped DEF Abort
        <3>2. RouteTypes'
            BY <1>2, <2>1 DEF Abort, RouteTypes, sending
        <3> QED
            BY <3>1, <3>2
    <2>2. ASSUME NEW r \in Ids, SchedStreams(r) \/ SchedEnds(r)
          PROVE  TableTypes' /\ RouteTypes'
        BY <1>2, <2>2 DEF SchedStreams, SchedEnds, tables, TableTypes, RouteTypes
    <2>3. CASE SchedulerCrash
        <3>1. /\ bindings' \subseteq bindings /\ opened' \subseteq opened
              /\ decided' \subseteq decided
              /\ pending' = [r \in Ids |-> IF r \in Crashed THEN {} ELSE pending[r]]
              /\ sched' = [r \in Ids |-> IF r \in Crashed THEN "over" ELSE sched[r]]
              /\ alive' = "crashed"
              /\ UNCHANGED <<route, finished, aborts>>
            BY <2>3 DEF SchedulerCrash
        <3>2. /\ pending' \in [Ids -> SUBSET PayloadSources]
              /\ sched' \in [Ids -> {"none", "busy", "over"}]
            BY <1>2, <3>1 DEF TableTypes
        <3> QED
            BY <1>2, <3>1, <3>2 DEF TableTypes, RouteTypes
    <2>4. CASE UNCHANGED vars
        BY <1>2, <2>4 DEF vars, tables, sending, TableTypes, RouteTypes
    <2>5. CASE DiscardRaises
        BY <1>2, <2>5 DEF DiscardRaises, tables, sending, TableTypes, RouteTypes
    <2> QED
        BY <1>2, <2>1, <2>2, <2>3, <2>4, <2>5, MessageTyped, DrainTyped, HopOnTyped DEF Next
<1> QED
    BY <1>1, <1>2, Inductive, PTL DEF Spec

\* Every variable keeps its type; with it, no buffer is acknowledged twice.
THEOREM TypeCorrect == Spec => []TypeOK
<1>1. IInv /\ TableTypes /\ RouteTypes /\ LaneInv => TypeOK
    BY DEF IInv, Shapes, TableTypes, RouteTypes, IsHops, LaneInv, Receiving, Item, TypeOK
<1> QED
    BY <1>1, TypesInductive, LanesInductive, PTL

-----------------------------------------------------------------------------
\* What is left of a request that is over.

\* The tables hold nothing of the request.
Clean(r) ==
    r \notin active \cup opened \cup bindings \cup decided /\ pending[r] = {}

\* The stage is through with the message ...
Handled(m) == m \in arrived /\ task[m] \in {"none", "done"}

\* ... or will never get it: the fan-in does not want it, or its source has
\* ended its stream.
Barred(m) ==
    /\ m \notin arrived
    /\ \/ m.kind = "submit" /\ PayloadSources # {}
       \/ m.kind = "payload" /\ m.src \notin Wanted[m.id]
       \/ m.kind = "chunk" /\ \E x \in arrived : Mates(x, m) /\ x.kind = "done"

\* No message of the request, or none that carries an input, is still to come.
Settled(r) == \A m \in Msg : m.id = r => Handled(m) \/ Barred(m)
Fed(r) == \A m \in Msg :
             m.id = r /\ m.kind \in {"submit", "payload"} => Handled(m) \/ Barred(m)

\* The fan-in holds payloads the stage is through with.
Collected(r) == \A m \in Msg :
                   m.id = r /\ m.kind = "payload" /\ m.src \in pending[r] => Handled(m)

\* What is put into _aborted is cleared, and nothing of it is kept later.
AbortedIsClean == \A r \in aborted : Clean(r)

\* The scheduler gets a request when its fan-in is complete, and ends it when its
\* streams are: when its result is routed, no message is left that could bring
\* anything back.
Leaving(r) ==
    /\ Collected(r)
    /\ sched[r] = "busy" => Fed(r)
    /\ \A i \in 1..Len(outbox) : outbox[i].id = r /\ outbox[i].kind = "result" => Settled(r)
    /\ route # None /\ route.id = r /\ route.kind = "result" => Settled(r)
    /\ r \in finished => Settled(r) /\ Clean(r)

AllLeave == \A r \in Ids \ aborted : Leaving(r)

\* A step of the message loop or of a receive task.
MessageStep(m) ==
    Submit(m) \/ ReceiveLocal(m) \/ Schedule(m) \/ EndRead(m) \/ Advance(m)

\* Such a step is about a message that was neither handled nor barred, and no
\* other message is touched by it.
LEMMA MessageStepFresh ==
    ASSUME LaneInv, NEW m \in Msg, MessageStep(m)
    PROVE  /\ ~Handled(m) /\ ~Barred(m)
           /\ arrived' = arrived \cup {m}
           /\ \A x \in Msg : x # m => task'[x] = task[x]
<1>1. task \in [Msg -> TaskState]
    BY DEF LaneInv, Receiving
<1>2. CASE Submit(m) \/ ReceiveLocal(m) \/ Schedule(m)
    <2>1. Arrives(m)
        BY <1>2 DEF Submit, ReceiveLocal, Schedule
    <2>2. m \notin arrived /\ arrived' = arrived \cup {m}
        BY <2>1 DEF Arrives
    <2>3. \A x \in Msg : x # m => task'[x] = task[x]
        BY <1>1, <1>2 DEF Submit, ReceiveLocal, Schedule
    <2>4. ~(m.kind = "submit" /\ PayloadSources # {})
        BY <1>2, MsgKinds, StageAssumption DEF Submit, ReceiveLocal, Schedule
    <2>5. ~(m.kind = "payload" /\ m.src \notin Wanted[m.id])
        BY <2>1 DEF Arrives
    <2>6. ASSUME m.kind = "chunk", NEW x \in arrived, Mates(x, m), x.kind = "done"
          PROVE  FALSE
        <3> DEFINE d == [kind |-> "done", id |-> m.id, src |-> m.src, n |-> 0]
        <3>1. d \notin arrived
            BY <2>1, <2>6 DEF Arrives
        <3>2. d \in Msg /\ Mates(d, m) /\ d.kind = "done" /\ d.n = 0
            BY <2>6, MsgKinds, MsgBefore
        <3>3. x \in Msg /\ x.n = 0 /\ Mates(x, d)
            BY <2>6, <3>2, MsgKinds DEF LaneInv, Receiving, Mates
        <3> HIDE DEF d
        <3> QED
            BY <2>6, <3>1, <3>2, <3>3, MsgFields
    <2> QED
        BY <2>2, <2>3, <2>4, <2>5, <2>6 DEF Handled, Barred
<1>3. CASE EndRead(m) \/ Advance(m)
    <2>1. task[m] \notin {"none", "done"}
        BY <1>3 DEF EndRead, Advance
    <2>2. m \in arrived
        BY <2>1 DEF LaneInv, Tasks
    <2>3. arrived' = arrived /\ \A x \in Msg : x # m => task'[x] = task[x]
        BY <1>1, <1>3 DEF EndRead, Advance
    <2> QED
        BY <2>1, <2>2, <2>3 DEF Handled, Barred
<1> QED
    BY <1>2, <1>3 DEF MessageStep

\* What is handled or barred stays so.
LEMMA HandledStays ==
    ASSUME LaneInv, NEW m \in Msg, MessageStep(m) \/ UNCHANGED <<arrived, task>>,
           NEW x \in Msg
    PROVE  /\ Handled(x) => Handled(x)'
           /\ Barred(x) => Barred(x)'
<1>1. CASE UNCHANGED <<arrived, task>>
    BY <1>1 DEF Handled, Barred
<1>2. CASE MessageStep(m)
    <2>1. /\ ~Handled(m) /\ ~Barred(m) /\ arrived' = arrived \cup {m}
          /\ \A y \in Msg : y # m => task'[y] = task[y]
        BY <1>2, MessageStepFresh
    <2>2. Handled(x) => Handled(x)'
        BY <2>1 DEF Handled
    <2>3. ASSUME Barred(x) PROVE Barred(x)'
        <3>1. x # m
            BY <2>1, <2>3
        <3> QED
            BY <2>1, <2>3, <3>1 DEF Barred
    <2> QED
        BY <2>2, <2>3
<1> QED
    BY <1>1, <1>2

\* So does a request that is settled or fed.
LEMMA SettledStays ==
    ASSUME LaneInv, NEW m \in Msg, MessageStep(m) \/ UNCHANGED <<arrived, task>>,
           NEW r \in Ids
    PROVE  /\ Settled(r) => Settled(r)'
           /\ Fed(r) => Fed(r)'
           /\ Collected(r) /\ pending'[r] = pending[r] => Collected(r)'
<1>1. \A x \in Msg : (Handled(x) => Handled(x)') /\ (Barred(x) => Barred(x)')
    BY HandledStays
<1>2. Settled(r) => Settled(r)'
    BY <1>1 DEF Settled
<1>3. Fed(r) => Fed(r)'
    BY <1>1 DEF Fed
<1>4. Collected(r) /\ pending'[r] = pending[r] => Collected(r)'
    BY <1>1 DEF Collected
<1> QED
    BY <1>2, <1>3, <1>4

\* A request the step is not about.
Same(r) ==
    /\ r \in active' => r \in active
    /\ r \in opened' => r \in opened
    /\ r \in bindings' => r \in bindings
    /\ r \in decided' => r \in decided
    /\ pending'[r] = pending[r]
    /\ sched'[r] = sched[r]

LEMMA ClearsOthers ==
    ASSUME TableTypes, NEW i \in Ids, Clear(i), sched' = sched \/ sched' = SchedAborted(i),
           NEW r \in Ids, r # i
    PROVE  Same(r)
BY DEF TableTypes, Clear, SchedAborted, Same

LEMMA DeliversOthers ==
    ASSUME TableTypes, NEW m \in Msg, NEW bound \in {bindings, bindings \cup {m.id}},
           Deliver(m, bound) \/ Failure(m) \/ Ignore,
           NEW r \in Ids, r # m.id
    PROVE  Same(r)
<1>1. m.id \in Ids
    BY MsgKinds
<1>2. CASE Ignore
    BY <1>2 DEF Ignore, tables, Same
<1>3. CASE Failure(m)
    BY <1>1, <1>2, <1>3, ClearsOthers DEF Failure, SendFailure
<1>4. CASE ReceivePayload(m, bound)
    <2>1. /\ bindings' = bound /\ active' = active \cup {m.id}
          /\ opened' = opened \/ opened' = opened \cup {m.id}
          /\ \/ decided' = decided \ {m.id}
             \/ decided' = decided \/ decided' = decided \cup {m.id}
        BY <1>4 DEF ReceivePayload
    <2>2. \/ pending' = [pending EXCEPT ![m.id] = {}]
          \/ pending' = [pending EXCEPT ![m.id] = pending[m.id] \cup {m.src}]
        BY <1>4 DEF ReceivePayload
    <2>3. sched' = sched \/ sched' = [sched EXCEPT ![m.id] = IF @ = "none" THEN "busy" ELSE @]
        BY <1>4 DEF ReceivePayload, Execute
    <2>4. pending'[r] = pending[r] /\ sched'[r] = sched[r]
        BY <2>2, <2>3 DEF TableTypes
    <2> QED
        BY <2>1, <2>4 DEF Same
<1>5. CASE ReceiveStream(m, bound)
    <2>1. CASE SendFailure(m.id) /\ sched' = SchedAborted(m.id)
        BY <1>1, <2>1, ClearsOthers DEF SendFailure
    <2>2. CASE /\ opened' = opened \cup {m.id} /\ bindings' = bound
               /\ active' = active \cup {m.id}
               /\ UNCHANGED <<pending, decided, sched>>
        BY <2>2 DEF Same
    <2> QED
        BY <1>5, <2>1, <2>2 DEF ReceiveStream
<1> QED
    BY <1>2, <1>3, <1>4, <1>5 DEF Deliver

LEMMA StepsOthers ==
    ASSUME TableTypes, NEW m \in Msg, MessageStep(m), NEW r \in Ids, r # m.id
    PROVE  Same(r)
<1>1. /\ m.id \in Ids /\ bindings \in {bindings, bindings \cup {m.id}}
      /\ WithBindings(m.id) \in {bindings, bindings \cup {m.id}}
    BY MsgKinds DEF WithBindings
<1>2. CASE Submit(m)
    <2>1. CASE Ignore
        BY <2>1 DEF Ignore, tables, Same
    <2>2. CASE ~Ignore
        <3>1. /\ bindings' = WithBindings(m.id) /\ active' = active \cup {m.id}
              /\ opened' = opened \/ opened' = opened \cup {m.id}
              /\ sched' = [sched EXCEPT ![m.id] = IF @ = "none" THEN "busy" ELSE @]
              /\ UNCHANGED <<pending, decided>>
            BY <1>2, <2>2 DEF Submit, Execute
        <3>2. sched'[r] = sched[r]
            BY <3>1 DEF TableTypes
        <3> QED
            BY <1>1, <3>1, <3>2 DEF Same
    <2> QED
        BY <2>1, <2>2
<1>3. CASE ReceiveLocal(m)
    BY <1>1, <1>3, DeliversOthers DEF ReceiveLocal
<1>4. CASE Schedule(m)
    BY <1>1, <1>4 DEF Schedule, Same
<1>5. CASE EndRead(m)
    BY <1>5 DEF EndRead, tables, Same
<1>6. CASE Advance(m)
    BY <1>1, <1>6, DeliversOthers DEF Advance
<1> QED
    BY <1>2, <1>3, <1>4, <1>5, <1>6 DEF MessageStep

\* _clear_request_state
LEMMA ClearCleans ==
    ASSUME TableTypes, NEW r \in Ids, Clear(r)
    PROVE  Clean(r)'
BY DEF TableTypes, Clear, Clean

LEMMA SameStaysClean ==
    ASSUME NEW r, Same(r), Clean(r)
    PROVE  Clean(r)'
BY DEF Same, Clean

\* What a message does to its request if the request is aborted then.
LEMMA DeliverAborts ==
    ASSUME TableTypes, AbortedIsClean, NEW m \in Msg, NEW bound,
           Deliver(m, bound) \/ Failure(m) \/ Ignore
    PROVE  /\ aborted' \subseteq aborted \cup {m.id}
           /\ m.id \in aborted' => Clean(m.id)'
<1>1. m.id \in Ids
    BY MsgKinds
<1>2. CASE Ignore
    BY <1>2 DEF Ignore, tables, AbortedIsClean, Clean
<1>3. CASE SendFailure(m.id)
    BY <1>1, <1>3, ClearCleans, RecordedIds DEF SendFailure
<1>4. CASE m.id \notin aborted /\ aborted' = aborted
    BY <1>4
<1> QED
    BY <1>2, <1>3, <1>4
       DEF Deliver, Dropped, Failure, ReceivePayload, ReceiveStream

LEMMA MessageAborts ==
    ASSUME TableTypes, AbortedIsClean, NEW m \in Msg, MessageStep(m)
    PROVE  /\ aborted' \subseteq aborted \cup {m.id}
           /\ m.id \in aborted' => Clean(m.id)'
<1>1. CASE Submit(m)
    <2>1. CASE Ignore
        BY <2>1, DeliverAborts
    <2> QED
        BY <1>1, <2>1 DEF Submit
<1>2. CASE ReceiveLocal(m)
    BY <1>2, DeliverAborts DEF ReceiveLocal
<1>3. CASE Schedule(m)
    BY <1>3 DEF Schedule, WithBindings, AbortedIsClean, Clean
<1>4. CASE EndRead(m)
    BY <1>4 DEF EndRead, tables, AbortedIsClean, Clean
<1>5. CASE Advance(m)
    BY <1>5, DeliverAborts DEF Advance
<1> QED
    BY <1>1, <1>2, <1>3, <1>4, <1>5 DEF MessageStep

\* A step that clears one request, and may abort it.
LEMMA ClearAborts ==
    ASSUME TableTypes, AbortedIsClean, aborted \subseteq Ids, NEW r \in Ids, Clear(r),
           sched' = sched \/ sched' = SchedAborted(r),
           aborted' \subseteq aborted \cup {r}
    PROVE  AbortedIsClean'
<1>1. Clean(r)'
    BY ClearCleans
<1>2. ASSUME NEW i \in aborted, i # r PROVE Clean(i)'
    BY <1>2, ClearsOthers, SameStaysClean DEF AbortedIsClean
<1> QED
    BY <1>1, <1>2 DEF AbortedIsClean

\* What the steps of the drain coroutine do to the tables.
LEMMA DrainClears ==
    ASSUME IInv, TableTypes, Drain \/ HopOn
    PROVE  /\ UNCHANGED <<sched, seen, arrived, task, lane, aborts>>
           /\ \/ UNCHANGED tables
              \/ \E r \in Ids : Clear(r) /\ aborted' \in Recorded(r)
              \/ \E r \in Ids : Clear(r) /\ aborted' = aborted
<1>1. CASE Drain
    <2> DEFINE r == Head(outbox).id
    <2>1. r \in Ids
        <3>1. outbox \in Seq(Item) /\ outbox # <<>>
            BY <1>1 DEF Drain, IInv, Shapes
        <3>2. Head(outbox) \in Item
            BY <3>1
        <3> QED
            BY <3>2 DEF Item
    <2>2. UNCHANGED tables \/ SendFailure(r) \/ FinishRoute(r)
        BY <1>1 DEF Drain
    <2>3. UNCHANGED <<sched, seen, arrived, task, lane, aborts>>
        BY <1>1 DEF Drain, receiving
    <2> HIDE DEF r
    <2> QED
        BY <2>1, <2>2, <2>3 DEF SendFailure, FinishRoute
<1>2. CASE HopOn
    <2>1. route.id \in Ids
        BY <1>2 DEF HopOn, IInv, Shapes
    <2>2. UNCHANGED tables \/ FinishRoute(route.id)
        BY <1>2 DEF HopOn
    <2>3. UNCHANGED <<sched, seen, arrived, task, lane, aborts>>
        BY <1>2 DEF HopOn, receiving
    <2> QED
        BY <2>1, <2>2, <2>3 DEF FinishRoute
<1> QED
    BY <1>1, <1>2

\* Nothing of an aborted request is kept.
LEMMA AbortedStaysClean ==
    ASSUME IInv, TableTypes, AbortedIsClean, [Next]_vars
    PROVE  AbortedIsClean'
<1>0. aborted \subseteq Ids /\ active \subseteq Ids
    BY DEF IInv, Shapes
<1>1. ASSUME NEW m \in Msg, MessageStep(m)
      PROVE  AbortedIsClean'
    <2>1. aborted' \subseteq aborted \cup {m.id} /\ (m.id \in aborted' => Clean(m.id)')
        BY <1>1, MessageAborts
    <2>2. ASSUME NEW r \in aborted, r # m.id PROVE Clean(r)'
        BY <1>0, <1>1, <2>2, StepsOthers, SameStaysClean DEF AbortedIsClean
    <2> QED
        BY <2>1, <2>2 DEF AbortedIsClean
<1>2. ASSUME NEW r \in Ids, Abort(r)
      PROVE  AbortedIsClean'
    BY <1>0, <1>2, ClearAborts, RecordedIds DEF Abort
<1>3. ASSUME UNCHANGED tables PROVE AbortedIsClean'
    BY <1>3 DEF tables, AbortedIsClean, Clean
<1>4. CASE SchedulerCrash
    <2>1. /\ aborted' \subseteq aborted \cup Crashed /\ Crashed \subseteq Ids
          /\ active' = active \ Crashed /\ bindings' = bindings \ Crashed
          /\ opened' = opened \ Crashed /\ decided' = decided \ Crashed
          /\ pending' = [r \in Ids |-> IF r \in Crashed THEN {} ELSE pending[r]]
        BY <1>0, <1>4 DEF SchedulerCrash, Crashed
    <2>2. ASSUME NEW r \in aborted' PROVE Clean(r)'
        <3>1. r \in Ids /\ (r \in aborted \/ r \in Crashed)
            BY <1>0, <2>1, <2>2
        <3>2. pending'[r] = IF r \in Crashed THEN {} ELSE pending[r]
            BY <2>1, <3>1
        <3>3. r \in aborted => Clean(r)
            BY DEF AbortedIsClean
        <3> QED
            BY <2>1, <3>1, <3>2, <3>3 DEF Clean
    <2> QED
        BY <2>2 DEF AbortedIsClean
<1>5. CASE Drain \/ HopOn
    <2>1. CASE UNCHANGED tables
        BY <1>3, <2>1
    <2>2. CASE \E r \in Ids : Clear(r) /\ (aborted' \in Recorded(r) \/ aborted' = aborted)
        <3>1. PICK r \in Ids : Clear(r) /\ (aborted' \in Recorded(r) \/ aborted' = aborted)
            BY <2>2
        <3>2. aborted' \subseteq aborted \cup {r}
            BY <3>1, RecordedIds
        <3>3. sched' = sched
            BY <1>5, DrainClears
        <3> QED
            BY <1>0, <3>1, <3>2, <3>3, ClearAborts
    <2> QED
        BY <1>5, <2>1, <2>2, DrainClears
<1> QED
    BY <1>1, <1>2, <1>3, <1>4, <1>5
       DEF Next, MessageStep, DiscardRaises, SchedStreams, SchedEnds, vars

\* _aborted has room for every request, and the scheduler ends a request when
\* its streams have ended.  Else an id that was evicted from _aborted, or a
\* request whose result is early, is tracked again by its late messages.
Roomy == ~EarlyResult /\ IsFiniteSet(Ids) /\ Cardinality(Ids) <= AbortCap

\* Then no id is evicted.
LEMMA NothingEvicted ==
    ASSUME Roomy, aborted \subseteq Ids, NEW R \in SUBSET Ids
    PROVE  Cardinality(aborted \cup R) <= AbortCap
<1>1. aborted \cup R \in SUBSET Ids
    OBVIOUS
<1>2. /\ IsFiniteSet(aborted \cup R)
      /\ Cardinality(aborted \cup R) <= Cardinality(Ids)
    BY <1>1, FS_Subset DEF Roomy
<1>3. /\ Cardinality(aborted \cup R) \in Nat /\ Cardinality(Ids) \in Nat
      /\ AbortCap \in Nat /\ Cardinality(Ids) <= AbortCap
    BY <1>2, FS_CardinalityType, StageAssumption DEF Roomy
<1> QED
    BY <1>2, <1>3

LEMMA AllRecorded ==
    ASSUME Roomy, aborted \subseteq Ids, NEW r \in Ids, aborted' \in Recorded(r)
    PROVE  aborted' = aborted \cup {r}
<1>1. Cardinality(aborted \cup {r}) <= AbortCap
    BY NothingEvicted
<1> QED
    BY <1>1 DEF Recorded

\* An upstream stage sends a payload only to a fan-in that wants it.
OnlyWanted == \A m \in arrived : m.kind = "payload" => m.src \in Wanted[m.id]

LEMMA WantedStays ==
    ASSUME OnlyWanted, NEW m \in Msg, MessageStep(m)
    PROVE  OnlyWanted'
<1>1. CASE Arrives(m)
    BY <1>1 DEF Arrives, OnlyWanted
<1>2. CASE arrived' = arrived
    BY <1>2 DEF OnlyWanted
<1> QED
    BY <1>1, <1>2 DEF MessageStep, Submit, ReceiveLocal, Schedule, EndRead, Advance

\* The fan-in after a payload.
LEMMA PayloadGathers ==
    ASSUME LaneInv, TableTypes, OnlyWanted, NEW m \in Msg, MessageStep(m), Handled(m)',
           m.kind = "payload", NEW bound, ReceivePayload(m, bound),
           Collected(m.id), sched[m.id] = "busy" => Fed(m.id)
    PROVE  Collected(m.id)' /\ (sched'[m.id] = "busy" => Fed(m.id)')
<1> DEFINE r == m.id
           got == pending[r] \cup {m.src}
<1>1. r \in Ids /\ m.src \in PayloadSources /\ m.n = 0
    BY MsgKinds
<1>2. ASSUME NEW x \in Msg, x.id = r, x.kind = "payload", x.src \in got
      PROVE  Handled(x)'
    <2>1. CASE x.src = m.src
        <3>1. x = m
            BY <1>1, <1>2, <2>1, MsgKinds, MsgFields DEF Mates
        <3> QED
            BY <3>1
    <2>2. CASE x.src \in pending[r]
        BY <1>2, <2>2, HandledStays DEF Collected
    <2> QED
        BY <1>2, <2>1, <2>2
<1>3. CASE /\ got = Wanted[r] /\ pending' = [pending EXCEPT ![r] = {}]
    <2>1. pending'[r] = {}
        BY <1>1, <1>3 DEF TableTypes
    <2>2. Collected(r)'
        BY <2>1 DEF Collected
    <2>3. ASSUME NEW x \in Msg, x.id = r, x.kind \in {"submit", "payload"}
          PROVE  Handled(x)' \/ Barred(x)'
        <3>1. CASE x.kind = "submit"
            <4>1. x # m
                BY <3>1
            <4>2. task[x] \in {"none", "done"}
                <5>1. x.src = None
                    BY <3>1, MsgKinds
                <5>2. x.src \notin Sources \ LocalSources
                    BY <5>1, StageAssumption
                <5> QED
                    BY <5>2 DEF LaneInv, Tasks
            <4>3. arrived' = arrived \cup {m} /\ task'[x] = task[x]
                BY <4>1, MessageStepFresh
            <4> QED
                BY <1>1, <3>1, <4>1, <4>2, <4>3 DEF Handled, Barred
        <3>2. CASE x.kind = "payload" /\ x.src \in Wanted[r]
            BY <1>2, <1>3, <2>3, <3>2
        <3>3. CASE x.kind = "payload" /\ x.src \notin Wanted[r]
            <4>1. x # m /\ x \notin arrived
                BY <1>3, <2>3, <3>3 DEF OnlyWanted
            <4>2. arrived' = arrived \cup {m}
                BY MessageStepFresh
            <4> QED
                BY <2>3, <3>3, <4>1, <4>2 DEF Barred
        <3> QED
            BY <2>3, <3>1, <3>2, <3>3
    <2> QED
        BY <2>2, <2>3 DEF Fed
<1>4. CASE pending' = [pending EXCEPT ![r] = got] /\ sched' = sched
    <2>1. pending'[r] = got
        BY <1>1, <1>4 DEF TableTypes
    <2>2. Collected(r)'
        BY <1>2, <2>1 DEF Collected
    <2> QED
        BY <1>1, <1>4, <2>2, SettledStays
<1> QED
    BY <1>3, <1>4 DEF ReceivePayload

\* The same for any message of the request, unless it fails the request.
LEMMA MessageGathers ==
    ASSUME LaneInv, TableTypes, OnlyWanted, NEW m \in Msg, MessageStep(m),
           Collected(m.id), sched[m.id] = "busy" => Fed(m.id)
    PROVE  \/ Collected(m.id)' /\ (sched'[m.id] = "busy" => Fed(m.id)')
           \/ SendFailure(m.id)
<1>1. m.id \in Ids
    BY MsgKinds
<1>2. ASSUME pending'[m.id] = pending[m.id], sched'[m.id] = sched[m.id]
      PROVE  Collected(m.id)' /\ (sched'[m.id] = "busy" => Fed(m.id)')
    BY <1>1, <1>2, SettledStays
<1>3. ASSUME NEW bound, Deliver(m, bound) \/ Failure(m) \/ Ignore, Handled(m)'
      PROVE  \/ Collected(m.id)' /\ (sched'[m.id] = "busy" => Fed(m.id)')
             \/ SendFailure(m.id)
    <2>1. CASE Ignore
        BY <1>2, <2>1 DEF Ignore, tables
    <2>2. CASE m.kind = "payload" /\ ReceivePayload(m, bound)
        BY <1>3, <2>2, PayloadGathers
    <2>3. CASE ReceiveStream(m, bound)
        BY <1>2, <2>3 DEF ReceiveStream
    <2> QED
        BY <1>3, <2>1, <2>2, <2>3 DEF Deliver, Failure
<1>4. CASE Submit(m)
    <2>1. CASE Ignore
        BY <1>2, <2>1 DEF Ignore, tables
    <2>2. CASE ~Ignore
        <3>1. pending' = pending /\ PayloadSources = {} /\ task' = task /\ m.kind = "submit"
            BY <1>4, <2>2 DEF Submit
        <3>2. m \in arrived' /\ task'[m] = "none"
            BY <1>4, <3>1 DEF Submit, Arrives, LaneInv, Tasks
        <3>3. Collected(m.id)'
            BY <1>1, <3>1, SettledStays
        <3>4. ASSUME NEW x \in Msg, x.id = m.id, x.kind \in {"submit", "payload"}
              PROVE  Handled(x)'
            <4>1. x.kind = "submit"
                BY <3>1, <3>4, MsgKinds
            <4>2. x = m
                BY <3>1, <3>4, <4>1, MsgKinds, MsgFields DEF Mates
            <4> QED
                BY <3>2, <4>2 DEF Handled
        <3> QED
            BY <3>3, <3>4 DEF Fed
    <2> QED
        BY <2>1, <2>2
<1>5. CASE ReceiveLocal(m)
    <2>1. m \in arrived' /\ task'[m] = "none"
        BY <1>5 DEF ReceiveLocal, Arrives, LaneInv, Tasks
    <2> QED
        BY <1>3, <1>5, <2>1 DEF ReceiveLocal, Handled
<1>6. CASE Schedule(m)
    BY <1>2, <1>6 DEF Schedule
<1>7. CASE EndRead(m)
    BY <1>2, <1>7 DEF EndRead, tables
<1>8. CASE Advance(m)
    <2>1. m \in arrived' /\ task'[m] = "done"
        BY <1>8 DEF Advance, LaneInv, Tasks, Receiving
    <2> QED
        BY <1>3, <1>8, <2>1 DEF Advance, Handled
<1> QED
    BY <1>4, <1>5, <1>6, <1>7, <1>8 DEF MessageStep

\* What a step of the message loop or of a receive task leaves of _aborted.
LEMMA MessageRecords ==
    ASSUME Roomy, aborted \subseteq Ids, NEW m \in Msg, MessageStep(m)
    PROVE  /\ aborted \subseteq aborted'
           /\ SendFailure(m.id) => m.id \in aborted'
           /\ UNCHANGED <<outbox, route, finished>>
<1>1. m.id \in Ids
    BY MsgKinds
<1>2. SendFailure(m.id) => aborted' = aborted \cup {m.id}
    BY <1>1, AllRecorded DEF SendFailure
<1>3. aborted' = aborted \/ SendFailure(m.id)
    BY DEF MessageStep, Submit, ReceiveLocal, Schedule, EndRead, Advance, Deliver, Failure,
           Ignore, ReceivePayload, ReceiveStream, tables
<1>4. UNCHANGED <<outbox, route, finished>>
    BY DEF MessageStep, Submit, ReceiveLocal, Schedule, EndRead, Advance, sending
<1> QED
    BY <1>2, <1>3, <1>4

LEMMA MessageLeaves ==
    ASSUME Roomy, IInv, LaneInv, TableTypes, OnlyWanted, AllLeave, NEW m \in Msg, MessageStep(m)
    PROVE  AllLeave'
<1>1. aborted \subseteq aborted' /\ UNCHANGED <<outbox, route, finished>>
    BY MessageRecords DEF IInv, Shapes
<1>2. SUFFICES ASSUME NEW r \in Ids \ aborted'
               PROVE  Leaving(r)'
    BY DEF AllLeave
<1>3. Leaving(r) /\ r \in Ids
    BY <1>1, <1>2 DEF AllLeave
<1>4. (Settled(r) => Settled(r)') /\ (Fed(r) => Fed(r)')
    BY SettledStays
<1>5. CASE r # m.id
    <2>1. Same(r)
        BY <1>3, <1>5, StepsOthers
    <2>2. Collected(r)' /\ (Clean(r) => Clean(r)') /\ sched'[r] = sched[r]
        BY <1>3, <2>1, SettledStays, SameStaysClean DEF Same, Leaving
    <2> QED
        BY <1>1, <1>3, <1>4, <2>2 DEF Leaving
<1>6. CASE r = m.id
    <2>1. ~Settled(r)
        BY <1>6, MessageStepFresh DEF Settled
    <2>2. Collected(r)' /\ (sched'[r] = "busy" => Fed(r)')
        <3>1. ~SendFailure(m.id)
            BY <1>2, <1>6, MessageRecords DEF IInv, Shapes
        <3> QED
            BY <1>2, <1>3, <1>6, <3>1, MessageGathers DEF Leaving
    <2> QED
        BY <1>1, <1>3, <2>1, <2>2 DEF Leaving
<1> QED
    BY <1>5, <1>6

\* When the streams of a request have ended, nothing of them is on its way.
LEMMA EndedIsSettled ==
    ASSUME LaneInv, NEW r \in Ids, Fed(r), StreamsEnded(r)
    PROVE  Settled(r)
<1>1. SUFFICES ASSUME NEW x \in Msg, x.id = r, x.kind \in {"chunk", "done"}
               PROVE  Handled(x) \/ Barred(x)
    BY MsgKinds DEF Fed, Settled
<1>2. x.src \in StreamSources /\ x.src \in Sources
    BY <1>1, MsgKinds
<1>3. PICK i \in 1..Len(seen[r]) : seen[r][i].kind = "done" /\ seen[r][i].src = x.src
    BY <1>2 DEF StreamsEnded
<1>4. PICK d : d = seen[r][i]
    OBVIOUS
<1>5. d \in arrived /\ d \in Msg /\ d.id = r /\ task[d] \in {"none", "done"}
    BY <1>4 DEF LaneInv, Handed, Receiving
<1>6. Mates(d, x) /\ d.kind = "done" /\ d.n = 0
    BY <1>1, <1>3, <1>4, <1>5, MsgKinds DEF Mates
<1>7. CASE x.kind = "done"
    <2>1. x = d
        BY <1>5, <1>6, <1>7, MsgKinds, MsgFields DEF Mates
    <2> QED
        BY <1>5, <2>1 DEF Handled
<1>8. CASE x.kind = "chunk" /\ x \notin arrived
    BY <1>5, <1>6, <1>8 DEF Barred
<1>9. CASE x.kind = "chunk" /\ x \in arrived
    <2>1. ASSUME task[x] \notin {"none", "done"} PROVE FALSE
        <3>1. PICK j \in 1..Len(lane[<<r, x.src>>]) : lane[<<r, x.src>>][j] = x
            BY <1>1, <2>1 DEF LaneInv, Tasks
        <3>2. Rank(d) < Rank(x)
            BY <1>2, <1>3, <1>4, <3>1 DEF LaneInv, HandedBefore
        <3>3. Rank(d) = MaxChunks + 1 /\ Rank(x) = x.n /\ x.n \in 1..MaxChunks
            BY <1>6, <1>9, MsgKinds DEF Rank
        <3> QED
            BY <3>2, <3>3, StageAssumption
    <2> QED
        BY <1>9, <2>1 DEF Handled
<1> QED
    BY <1>1, <1>7, <1>8, <1>9

\* The scheduler between its inbox and its outbox.
LEMMA SchedLeaves ==
    ASSUME Roomy, IInv, LaneInv, TableTypes, AllLeave, NEW i \in Ids,
           SchedStreams(i) \/ SchedEnds(i)
    PROVE  AllLeave'
<1>1. UNCHANGED <<tables, arrived, task, route, finished>>
    BY DEF SchedStreams, SchedEnds, receiving
<1>2. SUFFICES ASSUME NEW r \in Ids \ aborted
               PROVE  Leaving(r)'
    BY <1>1 DEF AllLeave, tables
<1>3. Leaving(r) /\ r \in Ids
    BY DEF AllLeave
<1>4. /\ Settled(r)' <=> Settled(r)
      /\ Fed(r)' <=> Fed(r)
      /\ Collected(r)' <=> Collected(r)
      /\ Clean(r)' <=> Clean(r)
    BY <1>1 DEF tables, Settled, Fed, Collected, Clean, Handled, Barred
<1>5. sched'[r] = "busy" => sched[r] = "busy"
    BY <1>3 DEF SchedStreams, SchedEnds, TableTypes
<1>6. PICK k \in {"stream", "result", "error"} :
         /\ outbox' = Append(outbox, [id |-> i, kind |-> k])
         /\ k = "result" => SchedEnds(i)
    BY DEF SchedStreams, SchedEnds
<1>7. ASSUME NEW j \in 1..Len(outbox'), outbox'[j].id = r, outbox'[j].kind = "result"
      PROVE  Settled(r)
    <2>1. outbox \in Seq(Item) /\ Len(outbox) \in Nat
        BY DEF IInv, Shapes
    <2>2. CASE j \in 1..Len(outbox)
        <3>1. outbox'[j] = outbox[j]
            BY <1>6, <2>1, <2>2
        <3> QED
            BY <1>3, <1>7, <2>2, <3>1 DEF Leaving
    <2>3. CASE j = Len(outbox) + 1
        <3>1. outbox'[j] = [id |-> i, kind |-> k]
            BY <1>6, <2>1, <2>3
        <3>2. i = r /\ SchedEnds(i)
            BY <1>6, <1>7, <3>1
        <3>3. Fed(r) /\ StreamsEnded(r)
            BY <1>3, <3>2 DEF SchedEnds, Leaving, Roomy
        <3> QED
            BY <1>3, <3>3, EndedIsSettled
    <2>4. Len(outbox') = Len(outbox) + 1
        BY <1>6, <2>1
    <2> QED
        BY <2>1, <2>2, <2>3, <2>4
<1> QED
    BY <1>1, <1>3, <1>4, <1>5, <1>7 DEF Leaving

\* A step that leaves a request, and the messages, alone.
LEMMA SameLeaves ==
    ASSUME NEW r \in Ids, Leaving(r), Same(r), UNCHANGED <<arrived, task, route, finished>>,
           \A j \in 1..Len(outbox') : \E i \in 1..Len(outbox) : outbox'[j] = outbox[i]
    PROVE  Leaving(r)'
<1>1. (Settled(r) => Settled(r)') /\ (Fed(r) => Fed(r)')
    BY DEF Settled, Fed, Handled, Barred
<1>2. Collected(r)' /\ (Clean(r) => Clean(r)') /\ sched'[r] = sched[r]
    BY SameStaysClean DEF Leaving, Same, Collected, Handled
<1> QED
    BY <1>1, <1>2 DEF Leaving

\* _on_abort and _handle_scheduler_crash
LEMMA AbortLeaves ==
    ASSUME Roomy, IInv, TableTypes, AllLeave, (\E i \in Ids : Abort(i)) \/ SchedulerCrash
    PROVE  AllLeave'
<1>0. aborted \subseteq Ids /\ active \subseteq Ids
    BY DEF IInv, Shapes
<1>1. CASE \E i \in Ids : Abort(i)
    <2>1. PICK i \in Ids : Abort(i)
        BY <1>1
    <2>2. /\ aborted' = aborted \cup {i}
          /\ UNCHANGED <<arrived, task, route, finished, outbox>>
        BY <1>0, <2>1, AllRecorded DEF Abort, receiving, sending
    <2>3. ASSUME NEW r \in Ids \ aborted' PROVE Leaving(r)'
        <3>1. Same(r)
            BY <2>1, <2>2, ClearsOthers DEF Abort
        <3> QED
            BY <2>2, <3>1, SameLeaves DEF AllLeave
    <2> QED
        BY <2>3 DEF AllLeave
<1>2. CASE SchedulerCrash
    <2>1. Crashed \in SUBSET Ids
        BY <1>0 DEF Crashed
    <2>2. /\ aborted' = aborted \cup Crashed
          /\ UNCHANGED <<arrived, task, route, finished, outbox>>
        BY <1>0, <1>2, <2>1, NothingEvicted DEF SchedulerCrash, receiving
    <2>3. ASSUME NEW r \in Ids \ aborted' PROVE Leaving(r)'
        <3>1. Same(r)
            BY <1>2, <2>2 DEF SchedulerCrash, Same
        <3> QED
            BY <2>2, <3>1, SameLeaves DEF AllLeave
    <2> QED
        BY <2>3 DEF AllLeave
<1> QED
    BY <1>1, <1>2

\* A request whose result is routed leaves nothing.
LEMMA FinishLeaves ==
    ASSUME IInv, TableTypes, AllLeave, NEW i \in Ids, FinishRoute(i),
           i \in aborted \/ Settled(i),
           UNCHANGED <<sched, arrived, task>>,
           \A j \in 1..Len(outbox') : \E k \in 1..Len(outbox) : outbox'[j] = outbox[k]
    PROVE  AllLeave'
<1>1. Clear(i) /\ finished' = finished \cup {i} /\ route' = None /\ aborted' = aborted
    BY DEF FinishRoute
<1>2. SUFFICES ASSUME NEW r \in Ids \ aborted
               PROVE  Leaving(r)'
    BY <1>1 DEF AllLeave
<1>3. Leaving(r)
    BY DEF AllLeave
<1>4. (Settled(r) => Settled(r)') /\ (Fed(r) => Fed(r)')
    BY DEF Settled, Fed, Handled, Barred
<1>5. CASE r # i
    <2>1. Same(r)
        BY <1>1, <1>5, ClearsOthers
    <2>2. Collected(r)' /\ (Clean(r) => Clean(r)') /\ sched'[r] = sched[r]
        BY <1>3, <2>1, SameStaysClean DEF Leaving, Same, Collected, Handled
    <2> QED
        BY <1>1, <1>3, <1>4, <1>5, <2>2 DEF Leaving
<1>6. CASE r = i
    <2>1. Clean(r)' /\ Settled(r)'
        BY <1>1, <1>2, <1>4, <1>6, ClearCleans
    <2>2. Collected(r)'
        BY <2>1 DEF Clean, Collected
    <2> QED
        BY <1>1, <1>3, <1>4, <2>1, <2>2 DEF Leaving
<1> QED
    BY <1>5, <1>6

\* A route begins, goes on or ends with the stage.
LEMMA HopLeaves ==
    ASSUME IInv, AllLeave, NEW i \in Ids, NEW kind,
           kind # "result" \/ i \in aborted \/ Settled(i),
           route' \in {route, None} \/ (route'.id = i /\ route'.kind = kind),
           UNCHANGED <<tables, finished, sched, arrived, task>>,
           \A j \in 1..Len(outbox') : \E k \in 1..Len(outbox) : outbox'[j] = outbox[k]
    PROVE  AllLeave'
<1>1. SUFFICES ASSUME NEW r \in Ids \ aborted
               PROVE  Leaving(r)'
    BY DEF AllLeave, tables
<1>2. Leaving(r)
    BY DEF AllLeave
<1>3. /\ Settled(r)' <=> Settled(r)
      /\ Fed(r)' <=> Fed(r)
      /\ Collected(r)' <=> Collected(r)
      /\ Clean(r)' <=> Clean(r)
    BY DEF tables, Settled, Fed, Collected, Clean, Handled, Barred
<1>4. ASSUME route' # None, route'.id = r, route'.kind = "result"
      PROVE  Settled(r)
    <2>1. CASE route' = route
        BY <1>2, <1>4, <2>1 DEF Leaving
    <2>2. CASE route'.id = i /\ route'.kind = kind
        BY <1>1, <1>4, <2>2
    <2> QED
        BY <1>4, <2>1, <2>2
<1> QED
    BY <1>2, <1>3, <1>4 DEF Leaving

\* _drain_outbox_external
LEMMA DrainLeaves ==
    ASSUME Roomy, IInv, TableTypes, AllLeave, Drain
    PROVE  AllLeave'
<1> DEFINE r == Head(outbox).id
           kind == Head(outbox).kind
           hops == StreamTo \o NextStages
<1>1. /\ outbox \in Seq(Item) /\ outbox # <<>> /\ outbox' = Tail(outbox)
      /\ UNCHANGED <<sched, arrived, task>>
    BY DEF Drain, IInv, Shapes, receiving
<1>2. Head(outbox) \in Item /\ Head(outbox) = outbox[1] /\ 1 \in 1..Len(outbox)
    BY <1>1
<1>3. r \in Ids
    BY <1>2 DEF Item
<1>4. \A j \in 1..Len(outbox') : \E k \in 1..Len(outbox) : outbox'[j] = outbox[k]
    <2>1. /\ Len(outbox) \in Nat /\ Len(outbox') = Len(outbox) - 1
          /\ \A j \in 1..Len(outbox') : outbox'[j] = outbox[j + 1]
        BY <1>1
    <2>2. \A j \in 1..Len(outbox') : j + 1 \in 1..Len(outbox)
        BY <2>1
    <2> QED
        BY <2>1, <2>2
<1>5. kind # "result" \/ r \in aborted \/ Settled(r)
    BY <1>2, <1>3 DEF AllLeave, Leaving
<1>6. \/ UNCHANGED <<tables, route, finished>>
      \/ SendFailure(r) /\ UNCHANGED <<route, finished>>
      \/ /\ route' = [id |-> r, kind |-> kind, hops |-> StreamTo]
         /\ UNCHANGED <<tables, finished>>
      \/ TakeHop(r, kind, hops) /\ UNCHANGED <<tables, finished>>
      \/ kind = "result" /\ FinishRoute(r)
    BY DEF Drain
<1> HIDE DEF r, kind, hops
<1>7. CASE UNCHANGED <<tables, route, finished>>
    <2>1. route' = route /\ UNCHANGED <<tables, finished, sched, arrived, task>>
        BY <1>1, <1>7
    <2> QED
        BY <1>3, <1>4, <1>5, <2>1, HopLeaves
<1>8. CASE SendFailure(r) /\ UNCHANGED <<route, finished>>
    <2>1. Clear(r) /\ aborted' = aborted \cup {r}
        BY <1>3, <1>8, AllRecorded DEF SendFailure, IInv, Shapes
    <2>2. ASSUME NEW i \in Ids \ aborted' PROVE Leaving(i)'
        <3>1. i \in Ids \ aborted /\ i # r
            BY <2>1
        <3>2. Same(i)
            BY <1>1, <1>3, <2>1, <3>1, ClearsOthers
        <3> QED
            BY <1>1, <1>4, <1>8, <3>1, <3>2, SameLeaves DEF AllLeave
    <2> QED
        BY <2>2 DEF AllLeave
<1>9. CASE /\ route' = [id |-> r, kind |-> kind, hops |-> StreamTo]
           /\ UNCHANGED <<tables, finished>>
    BY <1>1, <1>3, <1>4, <1>5, <1>9, HopLeaves
<1>10. CASE TakeHop(r, kind, hops) /\ UNCHANGED <<tables, finished>>
    <2>1. route' \in {route, None} \/ (route'.id = r /\ route'.kind = kind)
        BY <1>10 DEF TakeHop
    <2>2. r \in Ids /\ UNCHANGED <<tables, finished, sched, arrived, task>>
        BY <1>1, <1>3, <1>10
    <2> QED
        BY <1>4, <1>5, <2>1, <2>2, HopLeaves
<1>11. CASE kind = "result" /\ FinishRoute(r)
    BY <1>1, <1>3, <1>4, <1>5, <1>11, FinishLeaves
<1> QED
    BY <1>6, <1>7, <1>8, <1>9, <1>10, <1>11

\* The drain coroutine goes on with a result or a chunk.
LEMMA HopOnLeaves ==
    ASSUME IInv, TableTypes, AllLeave, HopOn
    PROVE  AllLeave'
<1>1. /\ route # None /\ route.id \in Ids /\ UNCHANGED <<outbox, sched, arrived, task>>
    BY DEF HopOn, IInv, Shapes, receiving
<1>2. route.kind # "result" \/ route.id \in aborted \/ Settled(route.id)
    BY <1>1 DEF AllLeave, Leaving
<1>3. \A j \in 1..Len(outbox') : \E k \in 1..Len(outbox) : outbox'[j] = outbox[k]
    BY <1>1
<1>4. PICK r, kind, hops :
         r \in Ids /\ r = route.id /\ kind = route.kind /\ hops = route.hops
    BY <1>1
<1>5. kind # "result" \/ r \in aborted \/ Settled(r)
    BY <1>2, <1>4
<1>6. CASE TakeHop(r, kind, hops) /\ UNCHANGED <<tables, finished>>
    <2>1. route' \in {route, None} \/ (route'.id = r /\ route'.kind = kind)
        BY <1>6 DEF TakeHop
    <2> QED
        <3>1. r \in Ids /\ UNCHANGED <<tables, finished, sched, arrived, task>>
            BY <1>1, <1>4, <1>6
        <3> QED
            BY <1>3, <1>5, <2>1, <3>1, HopLeaves
<1>7. CASE route' = None /\ UNCHANGED <<tables, finished>>
    BY <1>1, <1>3, <1>4, <1>5, <1>7, HopLeaves
<1>8. CASE kind = "result" /\ FinishRoute(r)
    BY <1>1, <1>2, <1>3, <1>4, <1>8, FinishLeaves
<1> QED
    BY <1>4, <1>6, <1>7, <1>8 DEF HopOn

\* The stage keeps nothing of a request that is over, once its last message is
\* received: for as many requests as _aborted has room for, where the scheduler
\* does not end a request before its streams have ended.
THEOREM NothingLeft ==
    ASSUME Roomy
    PROVE  Spec => []NothingLeftBehind
<1> DEFINE LeaveInv == AbortedIsClean /\ OnlyWanted /\ AllLeave
<1>1. Init => LeaveInv
    <2> SUFFICES ASSUME Init PROVE LeaveInv
        OBVIOUS
    <2>1. AbortedIsClean /\ OnlyWanted
        BY DEF Init, AbortedIsClean, OnlyWanted
    <2>2. ASSUME NEW r \in Ids PROVE Leaving(r)
        <3>1. /\ pending[r] = {} /\ sched[r] = "none" /\ Len(outbox) = 0
              /\ route = None /\ finished = {}
            BY DEF Init
        <3> QED
            BY <3>1 DEF Leaving, Collected
    <2> QED
        BY <2>1, <2>2 DEF AllLeave
<1>2. ASSUME IInv, LaneInv, TableTypes, LeaveInv, [Next]_vars
      PROVE  LeaveInv'
    <2>1. AbortedIsClean'
        BY <1>2, AbortedStaysClean
    <2>2. ASSUME NEW m \in Msg, MessageStep(m) PROVE OnlyWanted' /\ AllLeave'
        BY <1>2, <2>2, MessageLeaves, WantedStays
    <2>3. ASSUME NEW r \in Ids, Abort(r) \/ SchedStreams(r) \/ SchedEnds(r)
          PROVE  OnlyWanted' /\ AllLeave'
        <3>1. arrived' = arrived
            BY <2>3 DEF Abort, SchedStreams, SchedEnds, receiving
        <3>2. OnlyWanted'
            BY <1>2, <3>1 DEF OnlyWanted
        <3> QED
            BY <1>2, <2>3, <3>2, AbortLeaves, SchedLeaves
    <2>4. CASE SchedulerCrash \/ Drain \/ HopOn
        <3>1. arrived' = arrived
            BY <2>4 DEF SchedulerCrash, Drain, HopOn, receiving
        <3>2. OnlyWanted'
            BY <1>2, <3>1 DEF OnlyWanted
        <3> QED
            BY <1>2, <2>1, <2>4, <3>2, AbortLeaves, DrainLeaves, HopOnLeaves
    <2>5. CASE DiscardRaises \/ UNCHANGED vars
        <3>1. UNCHANGED <<tables, arrived, task, route, finished, outbox, sched>>
            BY <2>5 DEF DiscardRaises, vars, receiving, sending
        <3>2. OnlyWanted'
            BY <1>2, <3>1 DEF OnlyWanted
        <3>3. ASSUME NEW r \in Ids \ aborted PROVE Leaving(r)'
            BY <1>2, <3>1, SameLeaves DEF AllLeave, Same, tables
        <3> QED
            BY <2>1, <3>1, <3>2, <3>3 DEF AllLeave, tables
    <2> QED
        BY <1>2, <2>1, <2>2, <2>3, <2>4, <2>5 DEF Next, MessageStep
<1>3. IInv /\ LeaveInv /\ RouteTypes => NothingLeftBehind
    BY DEF IInv, Shapes, RouteTypes, AbortedIsClean, AllLeave, Leaving, Clean,
           NothingLeftBehind
<1> HIDE DEF LeaveInv
<1> QED
    BY <1>1, <1>2, <1>3, TypesInductive, LanesInductive, PTL DEF Spec

=============================================================================
