-------------------------- MODULE CoordinatorProofs --------------------------
(***************************************************************************)
(* Proofs about Coordinator, for any number of ids, callers and stages.    *)
(***************************************************************************)
EXTENDS Coordinator, SequenceTheorems, FiniteSetTheorems, TLAPS

-----------------------------------------------------------------------------
\* What the operators that return a new value of a variable return.

\* Rejected, the new value of fut in _reject_completion_future, is again a
\* function to future states, and settles exactly the future registered for r.
LEMMA RejectedFact ==
    ASSUME TypeOK, NEW r
    PROVE  /\ Rejected(r) \in [Callers -> FutureState]
           /\ \A f \in Callers : fut[f] # "pending" => Rejected(r)[f] = fut[f]
           /\ completion_futures[r] \in Callers
                 => Rejected(r)[completion_futures[r]] # "pending"
  BY ConstAssumption DEF TypeOK, Rejected, FutureState

\* The same for Resolved, the new value of fut when a result is set.
LEMMA ResolvedFact ==
    ASSUME TypeOK, NEW r
    PROVE  /\ Resolved(r) \in [Callers -> FutureState]
           /\ \A f \in Callers : fut[f] # "pending" => Resolved(r)[f] = fut[f]
           /\ completion_futures[r] \in Callers
                 => Resolved(r)[completion_futures[r]] # "pending"
  BY ConstAssumption DEF TypeOK, Resolved, FutureState

\* Put, the new value of the stream queues, keeps them sequences of messages.
LEMMA PutFact ==
    ASSUME TypeOK, NEW r, NEW m \in Message
    PROVE  Put(r, m) \in [Callers -> Seq(Message)]
  <1> DEFINE q == stream_queues[r]
  <1>1. CASE q \in Callers
    <2>1. Append(queue[q], m) \in Seq(Message)
      BY <1>1 DEF TypeOK
    <2> QED BY <2>1, <1>1 DEF TypeOK, Put
  <1>2. CASE q \notin Callers
    BY <1>2 DEF TypeOK, Put
  <1> QED BY <1>1, <1>2

\* The message at the head of a stage's inbox is a message.
LEMMA HeadFact ==
    ASSUME TypeOK, NEW t \in Stages, inbox[t] # <<>>
    PROVE  /\ Head(inbox[t]) \in Message
           /\ [inbox EXCEPT ![t] = Tail(@)] \in [Stages -> Seq(Message)]
  BY DEF TypeOK

\* The message with which the coordinator gives up on a call is a message.
LEMMA GivenUpFact ==
    ASSUME NEW c \in Callers
    PROVE  GivenUp(c) \in Message
  BY DEF GivenUp, Message

\* Recording whose completion a request was given keeps the record's type.
LEMMA AppliedFact ==
    ASSUME TypeOK, NEW c, NEW i \in Callers
    PROVE  [applied EXCEPT ![c] = @ \cup {i}] \in [Callers -> SUBSET Callers]
  <1>1. CASE c \in Callers
    BY <1>1 DEF TypeOK
  <1>2. CASE c \notin Callers
    BY <1>2 DEF TypeOK
  <1> QED BY <1>1, <1>2

\* Waking the waiters of an abort task moves callers from one wait to another.
LEMMA WakeFact ==
    ASSUME TypeOK, NEW r
    PROVE  /\ WakeWaiters(r) \in [Callers -> PC]
           /\ \A c \in Callers :
                \/ WakeWaiters(r)[c] = pc[c]
                \/ pc[c] = "aborting" /\ WakeWaiters(r)[c] = "abort_over"
  BY DEF TypeOK, WakeWaiters, PC

-----------------------------------------------------------------------------
\* Type correctness.

\* What holds of a call wherever it is: it has its id, a submit() that has not
\* ended has its future registered, and the future is settled or the request
\* still tracked; what it awaits is its own future.
CallsInOrder ==
    \A c \in Callers :
        /\ pc[c] # "idle" => rid[c] \in Ids
        /\ pc[c] = "idle" => \A r \in Ids : requests[r] # c
        /\ pc[c] = "await" => method[c] = "submit" /\ awaited[c] = c
        /\ pc[c] \in {"reading", "aborting", "abort_over"}
              => method[c] = "stream"
        /\ pc[c] \in {"sending", "await"} /\ method[c] = "submit" =>
              /\ completion_futures[rid[c]] = c
              /\ fut[c] # "pending" \/ requests[rid[c]] = c

IInv == TypeOK /\ CallsInOrder /\ OwnersAgree /\ PartialsBelongToRequest

\* The types hold initially.
LEMMA InitTyped == Init => TypeOK
  <1> SUFFICES ASSUME Init PROVE TypeOK
    OBVIOUS
  <1>1. queue \in [Callers -> Seq(Message)] /\ inbox \in [Stages -> Seq(Message)]
    BY DEF Init
  <1> QED
    BY <1>1, ConstAssumption DEF Init, TypeOK, RequestState, FutureState, PC,
       Outcome, Method

\* Leaving a stream keeps the types of what it changes.
LEMMA LeaveStreamTyped ==
    ASSUME TypeOK, NEW c \in Callers, rid[c] \in Ids, NEW how \in Outcome,
           LeaveStream(c, how)
    PROVE  /\ pc' \in [Callers -> PC]
           /\ outcome' \in [Callers -> Outcome]
           /\ abort_tasks' \in [Ids -> Callers \cup {None}]
           /\ stream_queues' \in [Ids -> Callers \cup {None}]
           /\ completion_futures' \in [Ids -> Callers \cup {None}]
  <1>1. outcome' \in [Callers -> Outcome]
    BY DEF TypeOK, LeaveStream
  <1>2. CASE pc' = [pc EXCEPT ![c] = "aborting"]
    BY <1>1, <1>2 DEF TypeOK, LeaveStream, Unregister, PC
  <1>3. CASE pc' = [pc EXCEPT ![c] = "done"] /\ Unregister(c) /\ UNCHANGED abort_tasks
    BY <1>1, <1>3 DEF TypeOK, Unregister, PC
  <1> QED BY <1>2, <1>3 DEF LeaveStream

\* Every step of a caller keeps the types.
LEMMA CallerTyped ==
    ASSUME TypeOK, CallsInOrder, NEW c \in Callers, CallerStep(c)
    PROVE  TypeOK'
  <1> USE DEF tables, objects, network, service, args, waits, call
  <1>a. pc[c] # "idle" => rid[c] \in Ids
    BY DEF CallsInOrder
  <1>b. pc[c] = "await" => awaited[c] = c
    BY DEF CallsInOrder
  <1>1. CASE CallRejected(c)
    BY <1>1 DEF TypeOK, CallRejected, PC, Outcome
  <1>2. CASE Admit(c)
    BY <1>2 DEF TypeOK, Admit, ResolvedTerminals, PC, Method
  <1>3. CASE SubmitSent(c)
    <2>1. ExpectedTerminals(rid[c]) \subseteq Terminals
      BY <1>3, <1>a DEF TypeOK, SubmitSent, ExpectedTerminals
    <2>2. MarkRunning(c) \in [Callers -> RequestState]
      BY DEF TypeOK, MarkRunning, RequestState
    <2>3. pc' \in [Callers -> PC] /\ delivered' \in SUBSET Callers
      BY <1>3 DEF TypeOK, SubmitSent, PC
    <2>4. expected' \in [Callers -> SUBSET Terminals]
      BY <1>3, <2>1 DEF TypeOK, SubmitSent
    <2>5. awaited' \in [Callers -> Callers \cup {None}]
      BY <1>3, <1>a DEF TypeOK, SubmitSent
    <2> QED
      BY <2>2, <2>3, <2>4, <2>5, <1>3 DEF TypeOK, SubmitSent
  <1>4. CASE SubmitReturns(c)
    <2>1. fut[awaited[c]] \in Outcome
      BY <1>b, <1>4 DEF TypeOK, SubmitReturns, FutureState, Outcome
    <2> QED BY <2>1, <1>4, <1>a DEF TypeOK, SubmitReturns, PC
  <1>5. CASE CancelSubmit(c)
    BY <1>5, <1>a, <1>b DEF TypeOK, CancelSubmit, FutureState, PC, Outcome
  <1>6. CASE ReadEvent(c)
    <2> DEFINE m    == Head(queue[c])
               done == completed[c] \cup ({m.stage} \ {None})
    <2>1. queue[c] \in Seq(Message) /\ queue[c] # <<>>
      BY <1>6 DEF TypeOK, ReadEvent
    <2>2. m \in Message /\ Tail(queue[c]) \in Seq(Message)
      BY <2>1
    <2>3. queue' \in [Callers -> Seq(Message)]
      BY <2>2, <1>6 DEF TypeOK, ReadEvent
    <2>4. completed' \in [Callers -> SUBSET Stages]
      <3>1. done \in SUBSET Stages
        BY <2>2 DEF TypeOK, Message
      <3>2. completed' \in {completed, [completed EXCEPT ![c] = done]}
        BY <1>6 DEF ReadEvent
      <3> QED BY <3>1, <3>2 DEF TypeOK
    <2>5. rid[c] \in Ids
      BY <1>6, <1>a DEF ReadEvent
    <2>6. ASSUME NEW how \in Outcome, LeaveStream(c, how)
          PROVE  TypeOK'
      BY <2>3, <2>4, <2>5, <2>6, <1>6, LeaveStreamTyped DEF TypeOK, ReadEvent
    <2>7. CASE StayInStream
      BY <2>3, <2>4, <2>7, <1>6 DEF TypeOK, ReadEvent, StayInStream
    <2> QED BY <2>6, <2>7, <1>6 DEF ReadEvent, Outcome
  <1>7. CASE CloseStream(c)
    <2>1. "closed" \in Outcome /\ rid[c] \in Ids
      BY <1>7, <1>a DEF CloseStream, Outcome
    <2> QED BY <2>1, <1>7, LeaveStreamTyped DEF TypeOK, CloseStream
  <1>8. CASE SendFails(c)
    <2>1. "error" \in Outcome /\ rid[c] \in Ids
      BY <1>8, <1>a DEF SendFails, Outcome
    <2>2. CASE method[c] = "stream"
      BY <2>1, <2>2, <1>8, LeaveStreamTyped DEF TypeOK, SendFails
    <2>3. CASE method[c] = "submit"
      BY <2>3, <1>8 DEF TypeOK, SendFails, PC, Outcome
    <2> QED BY <2>2, <2>3 DEF TypeOK, Method
  <1>9. CASE LeaveAbort(c)
    BY <1>9 DEF TypeOK, LeaveAbort, Unregister, PC
  <1> QED
    BY <1>1, <1>2, <1>3, <1>4, <1>5, <1>6, <1>7, <1>8, <1>9 DEF CallerStep

\* Every step of an abort task, of the completion loop, of the runner and of a
\* stage keeps the types.
LEMMA OtherTyped ==
    ASSUME TypeOK,
           \/ \E r \in Ids : AbortStep(r)
           \/ LoopStep
           \/ FailPendingRequests
           \/ Stop
           \/ \E c \in Callers, t \in Stages : StageStep(c, t)
    PROVE  TypeOK'
  <1> USE DEF tables, objects, network, service, args, waits, call
  <1>1. ASSUME NEW r \in Ids, Abort(r)
        PROVE  TypeOK'
    BY <1>1 DEF TypeOK, Abort
  <1>2. ASSUME NEW r \in Ids, AbortTaskEnds(r)
        PROVE  TypeOK'
    <2>1. WakeWaiters(r) \in [Callers -> PC]
      BY WakeFact
    <2>2. CASE requests[r] = None
      BY <1>2, <2>1, <2>2 DEF TypeOK, AbortTaskEnds
    <2>3. CASE requests[r] # None
      <3>1. requests[r] \in Callers
        BY <2>3 DEF TypeOK
      <3>2. Put(r, GivenUp(requests[r])) \in [Callers -> Seq(Message)]
        BY <3>1, GivenUpFact, PutFact
      <3>3. Rejected(r) \in [Callers -> FutureState]
        BY RejectedFact
      <3>4. WithoutPartials(r) \in [Ids -> SUBSET Terminals]
        BY DEF TypeOK, WithoutPartials
      <3>5. state' \in [Callers -> RequestState]
        BY <2>3, <1>2 DEF TypeOK, AbortTaskEnds, RequestState
      <3> QED BY <2>1, <2>3, <3>2, <3>3, <3>4, <3>5, <1>2
              DEF TypeOK, AbortTaskEnds
    <2> QED BY <2>2, <2>3
  <1>3. ASSUME NEW r \in Ids, AbortTaskFails(r)
        PROVE  TypeOK'
    BY <1>3, WakeFact DEF TypeOK, AbortTaskFails
  <1>4. ASSUME NEW t \in Stages, Receive(t)
        PROVE  /\ Head(inbox[t]) \in Message
               /\ inbox' \in [Stages -> Seq(Message)]
               /\ answered' \in [Callers -> SUBSET Stages]
    BY <1>4, HeadFact DEF TypeOK, Receive
  <1>5. ASSUME Resume
        PROVE  /\ running' \in BOOLEAN /\ fatal' \in BOOLEAN
               /\ closed' \in BOOLEAN
               /\ loop' \in {"recv", "broadcast", "ended"}
    BY <1>5 DEF TypeOK, Resume
  <1>6. ASSUME NEW t \in Stages, HandleStream(t)
        PROVE  TypeOK'
    <2>1. queue' \in [Callers -> Seq(Message)]
      BY <1>4, <1>6, PutFact DEF HandleStream
    <2> QED BY <2>1, <1>4, <1>5, <1>6 DEF TypeOK, HandleStream
  <1>7. ASSUME NEW t \in Stages, HandleSuccess(t)
        PROVE  TypeOK'
    <2> DEFINE m == Head(inbox[t])
               r == IdOf(m)
               c == requests[r]
    <2>1. m \in Message /\ m.inc \in Callers
      BY <1>4, <1>7 DEF HandleSuccess, Message
    <2>2. queue' \in [Callers -> Seq(Message)]
      BY <2>1, <1>7, PutFact DEF TypeOK, HandleSuccess
    <2>3. applied' \in [Callers -> SUBSET Callers]
      BY <2>1, <1>7, AppliedFact DEF TypeOK, HandleSuccess
    <2>4. partial_results' \in [Ids -> SUBSET Terminals]
      <3>1. CASE r \in Ids
        <4>1. ExpectedTerminals(r) \subseteq Terminals
          BY <3>1 DEF TypeOK, ExpectedTerminals
        <4>2. WithoutPartials(r) \in [Ids -> SUBSET Terminals]
          BY DEF TypeOK, WithoutPartials
        <4>3. partial_results[r] \subseteq Terminals
          BY <3>1 DEF TypeOK
        <4>4. \/ partial_results' = partial_results
              \/ partial_results' = WithoutPartials(r)
              \/ /\ StillWaiting(partial_results[r] \cup {t},
                                  ExpectedTerminals(r))
                 /\ \/ ExpectedTerminals(r) = {}
                    \/ t \in ExpectedTerminals(r)
                 /\ partial_results' =
                      [partial_results EXCEPT ![r] = partial_results[r] \cup {t}]
          BY <1>7 DEF HandleSuccess
        <4>5. ASSUME StillWaiting(partial_results[r] \cup {t},
                                  ExpectedTerminals(r)),
                     ExpectedTerminals(r) = {} \/ t \in ExpectedTerminals(r)
              PROVE  t \in Terminals
          BY <4>1, <4>5 DEF StillWaiting
        <4> HIDE DEF m, r, c
        <4>6. CASE partial_results' = partial_results
          BY <4>6 DEF TypeOK
        <4>7. CASE partial_results' = WithoutPartials(r)
          BY <4>2, <4>7
        <4>8. ASSUME t \in Terminals,
                     partial_results' =
                      [partial_results EXCEPT ![r] = partial_results[r] \cup {t}]
              PROVE  partial_results' \in [Ids -> SUBSET Terminals]
          BY <3>1, <4>3, <4>8 DEF TypeOK
        <4> QED BY <4>4, <4>5, <4>6, <4>7, <4>8
      <3>2. CASE r \notin Ids
        BY <3>2, <1>7 DEF TypeOK, HandleSuccess, WithoutPartials
      <3> QED BY <3>1, <3>2
    <2>5. requests' \in [Ids -> Callers \cup {None}]
      BY <1>7 DEF TypeOK, HandleSuccess
    <2>6. fut' \in [Callers -> FutureState]
      BY <1>7, ResolvedFact DEF TypeOK, HandleSuccess
    <2>7. state' \in [Callers -> RequestState]
      BY <1>7 DEF TypeOK, HandleSuccess, RequestState
    <2> QED BY <2>2, <2>3, <2>4, <2>5, <2>6, <2>7, <1>4, <1>5, <1>7
            DEF TypeOK, HandleSuccess
  <1>8. ASSUME NEW t \in Stages, HandleFailure(t)
        PROVE  TypeOK'
    <2>1. Head(inbox[t]) \in Message /\ Head(inbox[t]).inc \in Callers
      BY <1>4, <1>8 DEF HandleFailure, Message
    <2>2. failing' \in Message \cup {None}
      BY <2>1, <1>8 DEF TypeOK, HandleFailure
    <2>3. applied' \in [Callers -> SUBSET Callers]
      BY <2>1, <1>8, AppliedFact DEF TypeOK, HandleFailure
    <2>4. state' \in [Callers -> RequestState]
      BY <1>8 DEF TypeOK, HandleFailure, RequestState
    <2>5. /\ running' \in BOOLEAN /\ fatal' \in BOOLEAN /\ closed' \in BOOLEAN
          /\ loop' \in {"recv", "broadcast", "ended"}
      BY <1>5, <1>8 DEF TypeOK, HandleFailure
    <2> QED BY <2>2, <2>3, <2>4, <2>5, <1>4, <1>8 DEF TypeOK, HandleFailure
  <1>9. CASE FinishFailure
    <2>1. failing \in Message
      BY <1>9 DEF TypeOK, FinishFailure
    <2>2. queue' \in [Callers -> Seq(Message)]
      BY <2>1, <1>9, PutFact DEF FinishFailure
    <2>3. fut' \in [Callers -> FutureState]
      BY <1>9, RejectedFact DEF FinishFailure
    <2>4. /\ partial_results' \in [Ids -> SUBSET Terminals]
          /\ requests' \in [Ids -> Callers \cup {None}]
      BY <1>9 DEF TypeOK, FinishFailure, WithoutPartials, WithoutRequest
    <2> QED BY <2>2, <2>3, <2>4, <1>5, <1>9 DEF TypeOK, FinishFailure
  <1>10. CASE LoopDies
    BY <1>10 DEF TypeOK, LoopDies
  <1>11. CASE FailPendingRequests
    <2>1. \A q \in Callers : Append(queue[q], GivenUp(q)) \in Seq(Message)
      BY GivenUpFact DEF TypeOK
    <2>2. queue' \in [Callers -> Seq(Message)]
      BY <2>1, <1>11 DEF TypeOK, FailPendingRequests
    <2>3. fut' \in [Callers -> FutureState] /\ state' \in [Callers -> RequestState]
      BY <1>11 DEF TypeOK, FailPendingRequests, FutureState, RequestState
    <2> QED BY <2>2, <2>3, <1>11 DEF TypeOK, FailPendingRequests
  <1>12. CASE Stop
    BY <1>12 DEF TypeOK, Stop
  <1>13. ASSUME NEW c \in Callers, NEW t \in Stages, NEW kind,
                kind \in {"chunk", "ok", "fail"}, StageSends(c, t, kind)
         PROVE  TypeOK'
    <2>1. [kind |-> kind, stage |-> t, inc |-> c] \in Message
      BY <1>13 DEF Message
    <2>2. inbox' \in [Stages -> Seq(Message)]
      BY <2>1, <1>13 DEF TypeOK, StageSends
    <2> QED BY <2>2, <1>13 DEF TypeOK, StageSends
  <1> QED
    BY <1>1, <1>2, <1>3, <1>6, <1>7, <1>8, <1>9, <1>10, <1>11, <1>12, <1>13
    DEF AbortStep, LoopStep, StageStep, StageStreams, StageCompletes, StageFails

-----------------------------------------------------------------------------
\* The tables have one owner per id.

\* Popping entries cannot make two owners disagree.
LEMMA OwnersShrink ==
    ASSUME OwnersAgree,
           \A r \in Ids :
               /\ requests'[r] \in {requests[r], None}
               /\ completion_futures'[r] \in {completion_futures[r], None}
               /\ stream_queues'[r] \in {stream_queues[r], None}
               /\ abort_tasks'[r] \in {abort_tasks[r], None}
    PROVE  OwnersAgree'
  BY DEF OwnersAgree

\* Entries for one id may be set, if all of them are set to the same call.
LEMMA OwnersSet ==
    ASSUME OwnersAgree, NEW o, NEW q \in Ids,
           /\ requests'[q] \in {o, None}
           /\ completion_futures'[q] \in {o, None}
           /\ stream_queues'[q] \in {o, None}
           /\ abort_tasks'[q] \in {o, None},
           \A r \in Ids \ {q} :
               /\ requests'[r] = requests[r]
               /\ completion_futures'[r] = completion_futures[r]
               /\ stream_queues'[r] = stream_queues[r]
               /\ abort_tasks'[r] = abort_tasks[r]
    PROVE  OwnersAgree'
  BY DEF OwnersAgree

\* The tracked request of an id is the owner of all its other entries.
LEMMA TrackedOwns ==
    ASSUME TypeOK, OwnersAgree, NEW r \in Ids, requests[r] # None
    PROVE  /\ completion_futures[r] \in {requests[r], None}
           /\ stream_queues[r] \in {requests[r], None}
           /\ abort_tasks[r] \in {requests[r], None}
  BY DEF TypeOK, OwnersAgree

\* Leaving a stream starts an abort task for the tracked request or pops.
LEMMA LeaveStreamOwners ==
    ASSUME TypeOK, OwnersAgree, NEW c \in Callers, rid[c] \in Ids, NEW how,
           LeaveStream(c, how), UNCHANGED requests
    PROVE  OwnersAgree'
  <1>1. CASE Unregister(c) /\ UNCHANGED abort_tasks
    BY <1>1, OwnersShrink DEF TypeOK, Unregister
  <1>2. CASE /\ requests[rid[c]] # None
             /\ abort_tasks' = [abort_tasks EXCEPT ![rid[c]] =
                                   IF @ = None THEN requests[rid[c]] ELSE @]
             /\ UNCHANGED <<stream_queues, completion_futures>>
    <2> DEFINE r == rid[c]
               o == requests[r]
    <2>1. /\ completion_futures'[r] \in {o, None}
          /\ stream_queues'[r] \in {o, None}
          /\ abort_tasks[r] \in {o, None}
      BY <1>2, TrackedOwns
    <2>2. abort_tasks'[r] \in {o, None} /\ requests'[r] \in {o, None}
      BY <1>2, <2>1 DEF TypeOK
    <2>3. \A q \in Ids \ {r} :
              /\ requests'[q] = requests[q]
              /\ completion_futures'[q] = completion_futures[q]
              /\ stream_queues'[q] = stream_queues[q]
              /\ abort_tasks'[q] = abort_tasks[q]
      BY <1>2 DEF TypeOK
    <2> HIDE DEF r, o
    <2> QED BY <2>1, <2>2, <2>3, OwnersSet DEF r
  <1> QED BY <1>1, <1>2 DEF LeaveStream

\* Every step keeps the owners of every id in agreement.
LEMMA OwnersStep ==
    ASSUME TypeOK, CallsInOrder, OwnersAgree, [Next]_vars
    PROVE  OwnersAgree'
  <1> USE DEF tables, objects, network, service, args, waits, call
  <1>1. ASSUME NEW c \in Callers, CallerStep(c)
        PROVE  OwnersAgree'
    <2>1. CASE CallRejected(c)
      BY <2>1, OwnersShrink DEF CallRejected
    <2>2. CASE Admit(c)
      <3>1. PICK r \in Ids :
               /\ ~Reserved(r)
               /\ requests' = [requests EXCEPT ![r] = c]
               /\ completion_futures' = [completion_futures EXCEPT ![r] = c]
               /\ \/ stream_queues' = [stream_queues EXCEPT ![r] = c]
                  \/ stream_queues' = stream_queues
        BY <2>2 DEF Admit
      <3>2. UNCHANGED abort_tasks
        BY <2>2 DEF Admit
      <3>3. /\ requests'[r] = c /\ completion_futures'[r] = c
            /\ stream_queues'[r] \in {c, None} /\ abort_tasks'[r] = None
        BY <3>1, <3>2 DEF TypeOK, Reserved
      <3>4. \A q \in Ids \ {r} :
                /\ requests'[q] = requests[q]
                /\ completion_futures'[q] = completion_futures[q]
                /\ stream_queues'[q] = stream_queues[q]
                /\ abort_tasks'[q] = abort_tasks[q]
        BY <3>1, <3>2 DEF TypeOK
      <3> QED BY <3>3, <3>4, OwnersSet
    <2>3. CASE SubmitSent(c)
      BY <2>3, OwnersShrink DEF SubmitSent
    <2>4. CASE SubmitReturns(c)
      BY <2>4, OwnersShrink DEF TypeOK, SubmitReturns
    <2>5. CASE CancelSubmit(c)
      BY <2>5, OwnersShrink DEF TypeOK, CancelSubmit
    <2>6. CASE ReadEvent(c)
      BY <2>6, OwnersShrink, LeaveStreamOwners
      DEF CallsInOrder, ReadEvent, StayInStream
    <2>7. CASE CloseStream(c)
      BY <2>7, LeaveStreamOwners DEF CallsInOrder, CloseStream
    <2>8. CASE SendFails(c)
      BY <2>8, OwnersShrink, LeaveStreamOwners
      DEF CallsInOrder, SendFails
    <2>9. CASE LeaveAbort(c)
      BY <2>9, OwnersShrink DEF TypeOK, LeaveAbort, Unregister
    <2> QED
      BY <1>1, <2>1, <2>2, <2>3, <2>4, <2>5, <2>6, <2>7, <2>8, <2>9
      DEF CallerStep
  <1>2. ASSUME NEW r \in Ids, AbortStep(r)
        PROVE  OwnersAgree'
    <2>1. CASE Abort(r)
      <3> DEFINE o == requests[r]
      <3>1. /\ completion_futures'[r] \in {o, None}
            /\ stream_queues'[r] \in {o, None}
        BY <2>1, TrackedOwns DEF Abort
      <3>2. abort_tasks'[r] \in {o, None} /\ requests'[r] \in {o, None}
        BY <2>1 DEF TypeOK, Abort
      <3>3. \A q \in Ids \ {r} :
                /\ requests'[q] = requests[q]
                /\ completion_futures'[q] = completion_futures[q]
                /\ stream_queues'[q] = stream_queues[q]
                /\ abort_tasks'[q] = abort_tasks[q]
        BY <2>1 DEF TypeOK, Abort
      <3> HIDE DEF o
      <3> QED BY <3>1, <3>2, <3>3, OwnersSet
    <2>2. CASE AbortTaskEnds(r)
      BY <2>2, OwnersShrink DEF TypeOK, AbortTaskEnds
    <2>3. CASE AbortTaskFails(r)
      BY <2>3, OwnersShrink DEF TypeOK, AbortTaskFails
    <2> QED BY <1>2, <2>1, <2>2, <2>3 DEF AbortStep
  <1>3. CASE LoopStep
    <2>1. ASSUME NEW t \in Stages, HandleStream(t) \/ HandleFailure(t)
          PROVE  OwnersAgree'
      BY <2>1, OwnersShrink DEF HandleStream, HandleFailure
    <2>2. ASSUME NEW t \in Stages, HandleSuccess(t)
          PROVE  OwnersAgree'
      BY <2>2, OwnersShrink DEF TypeOK, HandleSuccess
    <2>3. CASE FinishFailure
      BY <2>3, OwnersShrink DEF TypeOK, FinishFailure, WithoutRequest
    <2>4. CASE LoopDies
      BY <2>4, OwnersShrink DEF LoopDies
    <2> QED BY <1>3, <2>1, <2>2, <2>3, <2>4 DEF LoopStep
  <1>4. CASE FailPendingRequests \/ Stop
    BY <1>4, OwnersShrink DEF TypeOK, FailPendingRequests, Stop
  <1>5. ASSUME NEW c \in Callers, NEW t \in Stages, StageStep(c, t)
        PROVE  OwnersAgree'
    BY <1>5, OwnersShrink
    DEF StageStep, StageStreams, StageCompletes, StageFails, StageSends
  <1>6. CASE UNCHANGED vars
    BY <1>6, OwnersShrink DEF vars
  <1> QED
    BY <1>1, <1>2, <1>3, <1>4, <1>5, <1>6 DEF Next

-----------------------------------------------------------------------------
\* Every call is in order.

\* A step of another coroutine registers no future and moves no call.
CallsStay ==
    /\ rid' = rid /\ method' = method /\ awaited' = awaited
    /\ completion_futures' = completion_futures

PcsStay ==
    \A c \in Callers :
        \/ pc'[c] = pc[c]
        \/ pc[c] = "aborting" /\ pc'[c] = "abort_over"

\* It reopens no future, and settles the future of a request it pops.
PopsSettle ==
    /\ \A f \in Callers : fut[f] # "pending" => fut'[f] # "pending"
    /\ \A r \in Ids :
          \/ requests'[r] = requests[r]
          \/ /\ requests'[r] = None
             /\ \A f \in Callers : completion_futures[r] = f => fut'[f] # "pending"

\* Such a step keeps the calls in order.
LEMMA CallsSettle ==
    ASSUME CallsInOrder, CallsStay, PcsStay, PopsSettle
    PROVE  CallsInOrder'
  <1> SUFFICES ASSUME NEW c \in Callers
               PROVE  /\ pc'[c] # "idle" => rid[c] \in Ids
                      /\ pc'[c] = "idle" => \A r \in Ids : requests'[r] # c
                      /\ pc'[c] = "await" => method[c] = "submit" /\ awaited[c] = c
                      /\ pc'[c] \in {"reading", "aborting", "abort_over"}
                            => method[c] = "stream"
                      /\ pc'[c] \in {"sending", "await"} /\ method[c] = "submit" =>
                            /\ completion_futures[rid[c]] = c
                            /\ fut'[c] # "pending" \/ requests'[rid[c]] = c
    BY DEF CallsInOrder, CallsStay
  <1>2. CASE pc'[c] = pc[c]
    BY <1>2, ConstAssumption DEF CallsInOrder, CallsStay, PopsSettle
  <1>3. CASE pc[c] = "aborting" /\ pc'[c] = "abort_over"
    BY <1>3 DEF CallsInOrder
  <1> QED BY <1>2, <1>3 DEF PcsStay

\* A caller that unregisters takes nobody else's future with it.
LEMMA CallsUnregister ==
    ASSUME TypeOK, CallsInOrder, OwnersAgree, NEW c \in Callers,
           rid[c] \in Ids, method[c] = "stream",
           \/ Unregister(c)
           \/ UNCHANGED completion_futures,
           UNCHANGED <<rid, method, awaited, fut, requests>>,
           pc' \in {pc, [pc EXCEPT ![c] = "done"], [pc EXCEPT ![c] = "aborting"]}
    PROVE  CallsInOrder'
  <1> SUFFICES ASSUME NEW d \in Callers
               PROVE  /\ pc'[d] # "idle" => rid[d] \in Ids
                      /\ pc'[d] = "idle" => \A r \in Ids : requests[r] # d
                      /\ pc'[d] = "await" => method[d] = "submit" /\ awaited[d] = d
                      /\ pc'[d] \in {"reading", "aborting", "abort_over"}
                            => method[d] = "stream"
                      /\ pc'[d] \in {"sending", "await"} /\ method[d] = "submit" =>
                            /\ completion_futures'[rid[d]] = d
                            /\ fut[d] # "pending" \/ requests[rid[d]] = d
    BY DEF CallsInOrder
  <1>1. CASE d = c
    BY <1>1 DEF TypeOK, CallsInOrder
  <1>2. CASE d # c
    <2>1. pc'[d] = pc[d]
      BY <1>2 DEF TypeOK
    <2>2. ASSUME pc[d] \in {"sending", "await"}, method[d] = "submit"
          PROVE  completion_futures'[rid[d]] = d
      <3>1. completion_futures[rid[d]] = d /\ rid[d] \in Ids
        BY <2>2 DEF CallsInOrder
      <3>2. CASE rid[d] # rid[c]
        BY <3>1, <3>2 DEF TypeOK, Unregister
      <3>3. CASE rid[d] = rid[c]
        <4>1. stream_queues[rid[c]] # c
          BY <3>1, <3>3, <1>2, ConstAssumption DEF OwnersAgree
        <4> QED BY <3>1, <3>3, <4>1 DEF Unregister
      <3> QED BY <3>2, <3>3
    <2> QED BY <2>1, <2>2 DEF CallsInOrder
  <1> QED BY <1>1, <1>2

\* Every step keeps the calls in order.
LEMMA CallsStep ==
    ASSUME TypeOK, CallsInOrder, OwnersAgree, [Next]_vars
    PROVE  CallsInOrder'
  <1> USE DEF tables, objects, network, service, args, waits, call
  <1>1. ASSUME NEW c \in Callers, CallerStep(c)
        PROVE  CallsInOrder'
    <2>1. CASE CallRejected(c)
      BY <2>1 DEF TypeOK, CallsInOrder, CallRejected
    <2>2. CASE Admit(c)
      <3>1. PICK r \in Ids, k \in Method :
               /\ ~Reserved(r)
               /\ requests' = [requests EXCEPT ![r] = c]
               /\ completion_futures' = [completion_futures EXCEPT ![r] = c]
               /\ rid' = [rid EXCEPT ![c] = r]
               /\ method' = [method EXCEPT ![c] = k]
        BY <2>2 DEF Admit
      <3>2. pc' = [pc EXCEPT ![c] = "sending"] /\ UNCHANGED <<awaited, fut>>
        BY <2>2 DEF Admit
      <3>3. \A d \in Callers : d # c /\ completion_futures[rid[d]] = d
                                 => rid[d] # r
        BY <3>1, ConstAssumption DEF Reserved
      <3> QED BY <3>1, <3>2, <3>3 DEF TypeOK, CallsInOrder
    <2>3. CASE SubmitSent(c)
      <3>1. CASE method[c] = "stream"
        BY <3>1, <2>3 DEF TypeOK, CallsInOrder, SubmitSent
      <3>2. CASE method[c] = "submit"
        BY <3>2, <2>3 DEF TypeOK, CallsInOrder, SubmitSent
      <3> QED BY <3>1, <3>2, <2>3 DEF SubmitSent
    <2>4. CASE SubmitReturns(c)
      BY <2>4 DEF TypeOK, CallsInOrder, SubmitReturns
    <2>5. CASE CancelSubmit(c)
      BY <2>5 DEF TypeOK, CallsInOrder, CancelSubmit
    <2>6. ASSUME pc[c] \in {"reading", "sending"}, method[c] = "stream",
                 NEW how, LeaveStream(c, how),
                 UNCHANGED <<rid, method, awaited, fut, requests>>
          PROVE  CallsInOrder'
      BY <2>6, CallsUnregister DEF CallsInOrder, LeaveStream
    <2>7. CASE ReadEvent(c)
      <3>1. pc[c] = "reading" /\ method[c] = "stream"
        BY <2>7 DEF ReadEvent, CallsInOrder
      <3>2. UNCHANGED <<rid, method, awaited, fut, requests>>
        BY <2>7 DEF ReadEvent
      <3>3. ASSUME NEW how, LeaveStream(c, how)
            PROVE  CallsInOrder'
        BY <3>1, <3>2, <3>3, <2>6
      <3>4. CASE StayInStream
        BY <3>2, <3>4 DEF CallsInOrder, StayInStream
      <3> QED BY <3>3, <3>4, <2>7 DEF ReadEvent
    <2>8. CASE CloseStream(c)
      BY <2>8, <2>6 DEF CallsInOrder, CloseStream
    <2>9. CASE SendFails(c)
      <3>1. CASE method[c] = "stream"
        BY <3>1, <2>9, <2>6 DEF SendFails
      <3>2. CASE method[c] = "submit"
        BY <3>2, <2>9 DEF TypeOK, CallsInOrder, SendFails
      <3> QED BY <3>1, <3>2, <2>9 DEF SendFails
    <2>10. CASE LeaveAbort(c)
      BY <2>10, CallsUnregister DEF CallsInOrder, LeaveAbort
    <2> QED
      BY <1>1, <2>1, <2>2, <2>3, <2>4, <2>5, <2>7, <2>8, <2>9, <2>10
      DEF CallerStep
  <1>2. ASSUME NEW r \in Ids, AbortStep(r)
        PROVE  CallsInOrder'
    <2>1. CASE Abort(r)
      <3>1. CallsStay BY <2>1 DEF Abort, CallsStay
      <3>p. PcsStay
        <4>1. pc' = pc BY <2>1 DEF Abort
        <4> QED BY <4>1 DEF PcsStay
      <3>2. PopsSettle BY <2>1 DEF Abort, PopsSettle
      <3> QED BY <3>1, <3>2, <3>p, CallsSettle
    <2>2. CASE AbortTaskEnds(r)
      <3>1. CallsStay BY <2>2, WakeFact DEF AbortTaskEnds, CallsStay
      <3>p. PcsStay
        <4>1. pc' = WakeWaiters(r) BY <2>2 DEF AbortTaskEnds
        <4> QED BY <4>1, WakeFact DEF PcsStay
      <3>2. PopsSettle BY <2>2, RejectedFact DEF TypeOK, AbortTaskEnds, PopsSettle
      <3> QED BY <3>1, <3>2, <3>p, CallsSettle
    <2>3. CASE AbortTaskFails(r)
      <3>1. CallsStay BY <2>3, WakeFact DEF AbortTaskFails, CallsStay
      <3>p. PcsStay
        <4>1. pc' = WakeWaiters(r) BY <2>3 DEF AbortTaskFails
        <4> QED BY <4>1, WakeFact DEF PcsStay
      <3>2. PopsSettle BY <2>3 DEF AbortTaskFails, PopsSettle
      <3> QED BY <3>1, <3>2, <3>p, CallsSettle
    <2> QED BY <1>2, <2>1, <2>2, <2>3 DEF AbortStep
  <1>3. CASE LoopStep
    <2>1. ASSUME NEW t \in Stages, HandleStream(t) \/ HandleFailure(t)
          PROVE  CallsInOrder'
      <3>1. CallsStay BY <2>1 DEF HandleStream, HandleFailure, CallsStay
      <3>p. PcsStay
        <4>1. pc' = pc BY <2>1 DEF HandleStream, HandleFailure
        <4> QED BY <4>1 DEF PcsStay
      <3>2. PopsSettle BY <2>1 DEF HandleStream, HandleFailure, PopsSettle
      <3> QED BY <3>1, <3>2, <3>p, CallsSettle
    <2>2. ASSUME NEW t \in Stages, HandleSuccess(t)
          PROVE  CallsInOrder'
      <3>1. CallsStay BY <2>2 DEF HandleSuccess, CallsStay
      <3>p. PcsStay
        <4>1. pc' = pc BY <2>2 DEF HandleSuccess
        <4> QED BY <4>1 DEF PcsStay
      <3>2. PopsSettle
        <4> DEFINE r == IdOf(Head(inbox[t]))
        <4>1. CASE UNCHANGED <<requests, fut>>
          BY <4>1 DEF PopsSettle
        <4>2. CASE fut' = Resolved(r) /\ requests' = [requests EXCEPT ![r] = None]
          BY <4>2, ResolvedFact DEF TypeOK, PopsSettle
        <4> QED BY <2>2, <4>1, <4>2 DEF HandleSuccess
      <3> QED BY <3>1, <3>2, <3>p, CallsSettle
    <2>3. CASE FinishFailure
      <3>1. CallsStay BY <2>3 DEF FinishFailure, CallsStay
      <3>p. PcsStay
        <4>1. pc' = pc BY <2>3 DEF FinishFailure
        <4> QED BY <4>1 DEF PcsStay
      <3>2. PopsSettle
        BY <2>3, RejectedFact DEF TypeOK, FinishFailure, WithoutRequest, PopsSettle
      <3> QED BY <3>1, <3>2, <3>p, CallsSettle
    <2>4. CASE LoopDies
      <3>1. CallsStay BY <2>4 DEF LoopDies, CallsStay
      <3>p. PcsStay
        <4>1. pc' = pc BY <2>4 DEF LoopDies
        <4> QED BY <4>1 DEF PcsStay
      <3>2. PopsSettle BY <2>4 DEF LoopDies, PopsSettle
      <3> QED BY <3>1, <3>2, <3>p, CallsSettle
    <2> QED BY <1>3, <2>1, <2>2, <2>3, <2>4 DEF LoopStep
  <1>4. CASE FailPendingRequests
    <2>1. CallsStay BY <1>4 DEF FailPendingRequests, CallsStay
    <2>p. PcsStay
      <3>1. pc' = pc BY <1>4 DEF FailPendingRequests
      <3> QED BY <3>1 DEF PcsStay
    <2>2. PopsSettle
      <3> SUFFICES ASSUME NEW r \in Ids, requests[r] # None, NEW f \in Callers,
                          completion_futures[r] = f
                   PROVE  fut'[f] # "pending"
        BY <1>4 DEF TypeOK, FailPendingRequests, PopsSettle
      <3>1. r \in Tracked
        BY DEF Tracked
      <3> QED BY <3>1, <1>4 DEF FailPendingRequests
    <2> QED BY <2>1, <2>2, <2>p, CallsSettle
  <1>5. CASE Stop
    <2>1. CallsStay BY <1>5 DEF Stop, CallsStay
    <2>p. PcsStay
      <3>1. pc' = pc BY <1>5 DEF Stop
      <3> QED BY <3>1 DEF PcsStay
    <2>2. PopsSettle BY <1>5 DEF Stop, PopsSettle
    <2> QED BY <2>1, <2>2, <2>p, CallsSettle
  <1>6. ASSUME NEW c \in Callers, NEW t \in Stages, StageStep(c, t)
        PROVE  CallsInOrder'
    <2>1. UNCHANGED <<tables, objects, call>>
      BY <1>6
      DEF StageStep, StageStreams, StageCompletes, StageFails, StageSends
    <2>2. CallsStay BY <2>1 DEF CallsStay
    <2>p. PcsStay
      <3>1. pc' = pc BY <2>1
      <3> QED BY <3>1 DEF PcsStay
    <2>3. PopsSettle BY <2>1 DEF PopsSettle
    <2> QED BY <2>2, <2>3, <2>p, CallsSettle
  <1>7. CASE UNCHANGED vars
    <2>1. CallsStay BY <1>7 DEF vars, CallsStay
    <2>p. PcsStay
      <3>1. pc' = pc BY <1>7 DEF vars
      <3> QED BY <3>1 DEF PcsStay
    <2>2. PopsSettle BY <1>7 DEF vars, PopsSettle
    <2> QED BY <2>1, <2>2, <2>p, CallsSettle
  <1> QED
    BY <1>1, <1>2, <1>3, <1>4, <1>5, <1>6, <1>7 DEF Next

-----------------------------------------------------------------------------
\* Partial results belong to a tracked request.

\* Clearing partial results, and popping requests that have none, is harmless
\* as long as no request that stays changes its terminals.
PartialsShrink ==
    \A r \in Ids :
        \/ partial_results'[r] = {}
        \/ /\ partial_results'[r] = partial_results[r]
           /\ requests[r] # None => /\ requests'[r] = requests[r]
                                    /\ terms'[requests[r]] = terms[requests[r]]

\* A step that only drops partial results, or leaves them with their request,
\* keeps PartialsBelongToRequest.
LEMMA PartialsKept ==
    ASSUME PartialsBelongToRequest, PartialsShrink
    PROVE  PartialsBelongToRequest'
  BY DEF PartialsBelongToRequest, PartialsShrink

\* Every step keeps partial results with their request.
LEMMA PartialsStep ==
    ASSUME TypeOK, CallsInOrder, PartialsBelongToRequest, [Next]_vars
    PROVE  PartialsBelongToRequest'
  <1> USE DEF tables, objects, network, service, args, waits, call
  <1>0. ASSUME UNCHANGED <<requests, partial_results, terms>>
        PROVE  PartialsBelongToRequest'
    BY <1>0 DEF PartialsBelongToRequest
  <1>1. ASSUME NEW c \in Callers, CallerStep(c)
        PROVE  PartialsBelongToRequest'
    <2>1. CASE Admit(c)
      <3>1. PICK r \in Ids, T \in ResolvedTerminals :
               /\ requests[r] = None
               /\ requests' = [requests EXCEPT ![r] = c]
               /\ terms' = [terms EXCEPT ![c] = T]
        BY <2>1 DEF Admit, Reserved
      <3>2. partial_results' = partial_results
        BY <2>1 DEF Admit
      <3>3. partial_results[r] = {}
        BY <3>1 DEF PartialsBelongToRequest
      <3>4. \A q \in Ids : requests[q] # c
        BY <2>1 DEF Admit, CallsInOrder
      <3>5. PartialsShrink
        BY <3>1, <3>2, <3>3, <3>4 DEF TypeOK, PartialsShrink
      <3> QED BY <3>5, PartialsKept
    <2>2. CASE ~Admit(c)
      <3>1. UNCHANGED <<requests, partial_results>>
        BY <1>1, <2>2
        DEF CallerStep, CallRejected, SubmitSent, SubmitReturns, CancelSubmit,
            ReadEvent, CloseStream, SendFails, LeaveAbort
      <3>2. UNCHANGED terms
        BY <1>1, <2>2
        DEF CallerStep, CallRejected, SubmitSent, SubmitReturns, CancelSubmit,
            ReadEvent, CloseStream, SendFails, LeaveAbort
      <3> QED BY <3>1, <3>2, <1>0
    <2> QED BY <2>1, <2>2
  <1>2. ASSUME NEW r \in Ids, AbortStep(r)
        PROVE  PartialsBelongToRequest'
    <2>1. CASE Abort(r) \/ AbortTaskFails(r)
      BY <2>1, <1>0 DEF Abort, AbortTaskFails
    <2>2. CASE AbortTaskEnds(r)
      <3>1. PartialsShrink
        BY <2>2 DEF TypeOK, AbortTaskEnds, WithoutPartials, PartialsShrink
      <3> QED BY <3>1, PartialsKept
    <2> QED BY <1>2, <2>1, <2>2 DEF AbortStep
  <1>3. CASE LoopStep
    <2>1. ASSUME NEW t \in Stages, HandleStream(t) \/ HandleFailure(t)
          PROVE  PartialsBelongToRequest'
      BY <2>1, <1>0 DEF HandleStream, HandleFailure
    <2>2. ASSUME NEW t \in Stages, HandleSuccess(t)
          PROVE  PartialsBelongToRequest'
      <3> DEFINE r == IdOf(Head(inbox[t]))
                 goal == ExpectedTerminals(r)
                 partials == partial_results[r] \cup {t}
      <3>1. UNCHANGED terms
        BY <2>2 DEF HandleSuccess
      <3>2. CASE UNCHANGED <<requests, partial_results>>
        BY <3>1, <3>2, <1>0
      <3>3. CASE /\ requests[r] # None
                 /\ Cardinality(goal) > 1
                 /\ StillWaiting(partials, goal)
                 /\ partial_results' = [partial_results EXCEPT ![r] = partials]
                 /\ UNCHANGED requests
        <4>1. goal = terms[requests[r]]
          BY <3>3 DEF ExpectedTerminals
        <4> HIDE DEF r, goal, partials
        <4> QED BY <3>1, <3>3, <4>1
                DEF TypeOK, PartialsBelongToRequest, StillWaiting
      <3>4. CASE /\ Cardinality(goal) > 1
                 /\ requests' = [requests EXCEPT ![r] = None]
                 /\ partial_results' = WithoutPartials(r)
        <4>1. PartialsShrink
          BY <3>1, <3>4 DEF TypeOK, WithoutPartials, PartialsShrink
        <4> QED BY <4>1, PartialsKept
      <3>5. CASE /\ requests[r] # None
                 /\ ~(Cardinality(goal) > 1)
                 /\ requests' = [requests EXCEPT ![r] = None]
                 /\ partial_results' = partial_results
        <4>1. goal = terms[requests[r]]
          BY <3>5 DEF ExpectedTerminals
        <4>2. r \in Ids => partial_results[r] = {}
          BY <3>5, <4>1 DEF PartialsBelongToRequest
        <4>3. PartialsShrink
          BY <3>1, <3>5, <4>2 DEF TypeOK, PartialsShrink
        <4> QED BY <4>3, PartialsKept
      <3> QED BY <2>2, <3>2, <3>3, <3>4, <3>5 DEF HandleSuccess
    <2>3. CASE FinishFailure
      <3>1. PartialsShrink
        BY <2>3
        DEF TypeOK, FinishFailure, WithoutPartials, WithoutRequest, PartialsShrink
      <3> QED BY <3>1, PartialsKept
    <2>4. CASE LoopDies
      BY <2>4, <1>0 DEF LoopDies
    <2> QED BY <1>3, <2>1, <2>2, <2>3, <2>4 DEF LoopStep
  <1>4. CASE FailPendingRequests
    <2>1. PartialsShrink
      BY <1>4 DEF FailPendingRequests, PartialsShrink
    <2> QED BY <2>1, PartialsKept
  <1>5. CASE Stop
    BY <1>5, <1>0 DEF Stop
  <1>6. ASSUME NEW c \in Callers, NEW t \in Stages, StageStep(c, t)
        PROVE  PartialsBelongToRequest'
    BY <1>6, <1>0
    DEF StageStep, StageStreams, StageCompletes, StageFails, StageSends
  <1>7. CASE UNCHANGED vars
    BY <1>7, <1>0 DEF vars
  <1> QED
    BY <1>1, <1>2, <1>3, <1>4, <1>5, <1>6, <1>7 DEF Next

-----------------------------------------------------------------------------
\* The theorems.

\* IInv is inductive.
THEOREM Inductive == Spec => []IInv
  <1>1. Init => IInv
    <2> SUFFICES ASSUME Init PROVE IInv
      OBVIOUS
    <2>1. TypeOK BY InitTyped
    <2>2. CallsInOrder BY ConstAssumption DEF Init, CallsInOrder
    <2>3. OwnersAgree BY DEF Init, OwnersAgree
    <2>4. PartialsBelongToRequest BY DEF Init, PartialsBelongToRequest
    <2> QED BY <2>1, <2>2, <2>3, <2>4 DEF IInv
  <1>2. IInv /\ [Next]_vars => IInv'
    <2> SUFFICES ASSUME IInv, [Next]_vars PROVE IInv'
      OBVIOUS
    <2> USE DEF IInv
    <2>1. TypeOK'
      <3>1. CASE UNCHANGED vars
        BY <3>1 DEF TypeOK, vars, tables, objects, network, service, args,
           waits, call
      <3>2. CASE \E c \in Callers : CallerStep(c)
        BY <3>2, CallerTyped
      <3>3. CASE \/ \E r \in Ids : AbortStep(r)
                 \/ LoopStep
                 \/ FailPendingRequests
                 \/ Stop
                 \/ \E c \in Callers, t \in Stages : StageStep(c, t)
        BY <3>3, OtherTyped
      <3> QED BY <3>1, <3>2, <3>3 DEF Next
    <2>2. CallsInOrder' BY CallsStep
    <2>3. OwnersAgree' BY OwnersStep
    <2>4. PartialsBelongToRequest' BY PartialsStep
    <2> QED BY <2>1, <2>2, <2>3, <2>4
  <1> QED BY <1>1, <1>2, PTL DEF Spec

\* The type invariant, for any number of ids, callers and stages.
THEOREM TypeCorrect == Spec => []TypeOK
  BY Inductive, PTL DEF IInv

\* Two incarnations of an id never share the coordinator's tables.
THEOREM OneOwner == Spec => []OwnersAgree
  BY Inductive, PTL DEF IInv

\* A waiting submit() is never left without a future or without a request
\* that will settle it.
THEOREM SubmitServed == Spec => []SubmitIsServed
  <1>1. IInv => SubmitIsServed
    BY DEF IInv, CallsInOrder, SubmitIsServed
  <1> QED BY <1>1, Inductive, PTL

\* Partial results never outlive their request.
THEOREM PartialsOwned == Spec => []PartialsBelongToRequest
  BY Inductive, PTL DEF IInv

-----------------------------------------------------------------------------
\* What is settled stays settled.

\* Only calls that have an id are delivered, and only they are answered.
MessagesKnown ==
    /\ \A c \in delivered : rid[c] \in Ids
    /\ \A t \in Stages : \A i \in 1..Len(inbox[t]) : rid[inbox[t][i].inc] \in Ids

\* The id of a call may be chosen, but is never lost.
IdsStay == \A c \in Callers : rid[c] \in Ids => rid'[c] \in Ids

\* Messages that are neither sent nor received stay known.
LEMMA KnownKept ==
    ASSUME TypeOK, MessagesKnown, IdsStay,
           \A c \in delivered' : c \in delivered \/ rid'[c] \in Ids,
           inbox' = inbox
    PROVE  MessagesKnown'
  <1>1. \A t \in Stages : \A i \in 1..Len(inbox[t]) : inbox[t][i].inc \in Callers
    <2> TAKE t \in Stages
    <2> TAKE i \in 1..Len(inbox[t])
    <2>1. inbox[t][i] \in Message
      BY DEF TypeOK
    <2> QED BY <2>1 DEF Message
  <1> QED BY <1>1 DEF TypeOK, MessagesKnown, IdsStay

\* A message that is received leaves the others known.
LEMMA KnownReceived ==
    ASSUME TypeOK, MessagesKnown, NEW t \in Stages, Receive(t),
           UNCHANGED <<rid, delivered>>
    PROVE  MessagesKnown'
  <1>1. inbox[t] \in Seq(Message) /\ inbox[t] # <<>>
    BY DEF TypeOK, Receive
  <1>2. /\ Len(Tail(inbox[t])) = Len(inbox[t]) - 1
        /\ \A i \in 1..Len(Tail(inbox[t])) :
              /\ i + 1 \in 1..Len(inbox[t])
              /\ Tail(inbox[t])[i] = inbox[t][i + 1]
    BY <1>1
  <1>3. /\ inbox'[t] = Tail(inbox[t])
        /\ \A u \in Stages \ {t} : inbox'[u] = inbox[u]
    BY DEF TypeOK, Receive
  <1>4. \A i \in 1..Len(inbox'[t]) : rid'[inbox'[t][i].inc] \in Ids
    BY <1>2, <1>3 DEF MessagesKnown
  <1>5. \A u \in Stages \ {t} :
           \A i \in 1..Len(inbox'[u]) : rid'[inbox'[u][i].inc] \in Ids
    BY <1>3 DEF MessagesKnown
  <1> QED BY <1>4, <1>5 DEF MessagesKnown

\* The message at the head of a queue is of a call with an id.
LEMMA HeadKnown ==
    ASSUME TypeOK, MessagesKnown, NEW t \in Stages, inbox[t] # <<>>
    PROVE  IdOf(Head(inbox[t])) \in Ids
  <1>1. Head(inbox[t]) = inbox[t][1] /\ 1 \in 1..Len(inbox[t])
    BY DEF TypeOK
  <1> QED BY <1>1 DEF MessagesKnown, IdOf

\* Every step keeps messages known.
LEMMA KnownStep ==
    ASSUME TypeOK, CallsInOrder, MessagesKnown, [Next]_vars
    PROVE  MessagesKnown'
  <1> USE DEF tables, objects, network, service, args, waits, call
  <1>0. ASSUME UNCHANGED <<rid, delivered, inbox>>
        PROVE  MessagesKnown'
    BY <1>0, KnownKept DEF IdsStay
  <1>1. ASSUME NEW c \in Callers, CallerStep(c)
        PROVE  MessagesKnown'
    <2>1. CASE CallRejected(c)
      BY <2>1, KnownKept DEF CallRejected, IdsStay, TypeOK
    <2>2. CASE Admit(c)
      BY <2>2, KnownKept DEF Admit, IdsStay, TypeOK
    <2>3. CASE SubmitSent(c)
      BY <2>3, KnownKept DEF SubmitSent, IdsStay, CallsInOrder
    <2>4. CASE SubmitReturns(c) \/ CancelSubmit(c)
      BY <2>4, <1>0 DEF SubmitReturns, CancelSubmit
    <2>5. CASE ReadEvent(c)
      BY <2>5, <1>0 DEF ReadEvent
    <2>6. CASE CloseStream(c) \/ SendFails(c) \/ LeaveAbort(c)
      BY <2>6, <1>0 DEF CloseStream, SendFails, LeaveAbort
    <2> QED
      BY <1>1, <2>1, <2>2, <2>3, <2>4, <2>5, <2>6 DEF CallerStep
  <1>2. ASSUME NEW r \in Ids, AbortStep(r)
        PROVE  MessagesKnown'
    BY <1>0, <1>2 DEF AbortStep, Abort, AbortTaskEnds, AbortTaskFails
  <1>3. CASE LoopStep
    <2>1. ASSUME NEW t \in Stages,
                 HandleStream(t) \/ HandleSuccess(t) \/ HandleFailure(t)
          PROVE  MessagesKnown'
      BY <2>1, KnownReceived DEF HandleStream, HandleSuccess, HandleFailure
    <2>2. CASE FinishFailure \/ LoopDies
      BY <2>2, <1>0 DEF FinishFailure, LoopDies
    <2> QED BY <1>3, <2>1, <2>2 DEF LoopStep
  <1>4. CASE FailPendingRequests \/ Stop
    BY <1>0, <1>4 DEF FailPendingRequests, Stop
  <1>5. ASSUME NEW c \in Callers, NEW t \in Stages, StageStep(c, t)
        PROVE  MessagesKnown'
    <2>1. PICK kind \in {"chunk", "ok", "fail"} : StageSends(c, t, kind)
      BY <1>5 DEF StageStep, StageStreams, StageCompletes, StageFails
    <2> DEFINE m == [kind |-> kind, stage |-> t, inc |-> c]
    <2>2. rid[c] \in Ids /\ m.inc = c
      BY <2>1 DEF StageSends, MessagesKnown
    <2>3. /\ inbox'[t] = Append(inbox[t], m)
          /\ \A u \in Stages \ {t} : inbox'[u] = inbox[u]
      BY <2>1 DEF TypeOK, StageSends
    <2>4. UNCHANGED <<rid, delivered>>
      BY <2>1 DEF StageSends
    <2> HIDE DEF m
    <2>5. inbox[t] \in Seq(Message)
      BY DEF TypeOK
    <2>6. /\ Len(Append(inbox[t], m)) = Len(inbox[t]) + 1
          /\ \A i \in 1..Len(inbox[t]) : Append(inbox[t], m)[i] = inbox[t][i]
          /\ Append(inbox[t], m)[Len(inbox[t]) + 1] = m
      BY <2>5
    <2>7. \A i \in 1..Len(inbox'[t]) : rid'[inbox'[t][i].inc] \in Ids
      <3> SUFFICES ASSUME NEW i \in 1..(Len(inbox[t]) + 1)
                   PROVE  rid[inbox'[t][i].inc] \in Ids
        BY <2>3, <2>4, <2>6
      <3>1. CASE i \in 1..Len(inbox[t])
        BY <3>1, <2>3, <2>6 DEF MessagesKnown
      <3>2. CASE i = Len(inbox[t]) + 1
        BY <3>2, <2>2, <2>3, <2>6
      <3>3. Len(inbox[t]) \in Nat
        BY <2>5
      <3> QED BY <3>1, <3>2, <3>3
    <2>8. \A u \in Stages \ {t} :
             \A i \in 1..Len(inbox'[u]) : rid'[inbox'[u][i].inc] \in Ids
      BY <2>3, <2>4 DEF MessagesKnown
    <2> QED BY <2>4, <2>7, <2>8 DEF MessagesKnown
  <1>6. CASE UNCHANGED vars
    BY <1>0, <1>6 DEF vars
  <1> QED
    BY <1>1, <1>2, <1>3, <1>4, <1>5, <1>6 DEF Next

\* The three parts of SettledForGood, for one step.
FutsSettled == \A c \in Callers : fut[c] # "pending" => fut'[c] = fut[c]

CallsOver ==
    \A c \in Callers :
        pc[c] = "done" => pc'[c] = "done" /\ outcome'[c] = outcome[c]

InfosFrozen ==
    \A c \in Callers :
        pc[c] # "idle" /\ (\A r \in Ids : requests[r] # c) => state'[c] = state[c]

\* The finally block of a stream that is not over touches no other call.
LEMMA LeaveStreamOver ==
    ASSUME TypeOK, NEW c \in Callers, pc[c] # "done", NEW how,
           LeaveStream(c, how)
    PROVE  CallsOver
  BY DEF TypeOK, LeaveStream, CallsOver

\* A step of one call leaves what is settled alone.
LEMMA CallerSettled ==
    ASSUME TypeOK, CallsInOrder, NEW c \in Callers, CallerStep(c)
    PROVE  FutsSettled /\ CallsOver /\ InfosFrozen
  <1> USE DEF tables, objects, network, service, args, waits, call
  <1>0. ASSUME UNCHANGED <<fut, state>>
        PROVE  FutsSettled /\ InfosFrozen
    BY <1>0 DEF FutsSettled, InfosFrozen
  <1>1. CASE CallRejected(c)
    BY <1>0, <1>1 DEF TypeOK, CallRejected, CallsOver
  <1>2. CASE Admit(c)
    BY <1>0, <1>2 DEF TypeOK, Admit, CallsOver
  <1>3. CASE SubmitSent(c)
    <2>1. FutsSettled
      BY <1>3 DEF SubmitSent, FutsSettled
    <2>2. CallsOver
      BY <1>3 DEF TypeOK, SubmitSent, CallsOver
    <2>3. rid[c] \in Ids /\ state' = MarkRunning(c)
      BY <1>3 DEF SubmitSent, CallsInOrder
    <2>4. InfosFrozen
      BY <2>3 DEF TypeOK, MarkRunning, InfosFrozen
    <2> QED BY <2>1, <2>2, <2>4
  <1>4. CASE SubmitReturns(c)
    BY <1>0, <1>4 DEF TypeOK, SubmitReturns, CallsOver
  <1>5. CASE CancelSubmit(c)
    <2>1. CallsOver
      BY <1>5 DEF TypeOK, CancelSubmit, CallsOver
    <2>2. FutsSettled
      BY <1>5 DEF TypeOK, CancelSubmit, FutsSettled
    <2>3. InfosFrozen
      BY <1>5 DEF CancelSubmit, InfosFrozen
    <2> QED BY <2>1, <2>2, <2>3
  <1>6. CASE ReadEvent(c)
    <2>1. pc[c] # "done" /\ UNCHANGED <<fut, state>>
      BY <1>6 DEF ReadEvent
    <2>2. \/ UNCHANGED <<pc, outcome>>
          \/ LeaveStream(c, "error")
          \/ LeaveStream(c, "result")
      BY <1>6 DEF ReadEvent, StayInStream
    <2>3. CallsOver
      BY <2>1, <2>2, LeaveStreamOver DEF CallsOver
    <2> QED BY <1>0, <2>1, <2>3
  <1>7. CASE CloseStream(c)
    BY <1>0, <1>7, LeaveStreamOver DEF CloseStream
  <1>8. CASE SendFails(c)
    <2>1. pc[c] # "done" /\ UNCHANGED <<fut, state>>
      BY <1>8 DEF SendFails
    <2>2. CASE LeaveStream(c, "error")
      BY <1>0, <2>1, <2>2, LeaveStreamOver
    <2>3. CASE /\ pc' = [pc EXCEPT ![c] = "done"]
               /\ outcome' = [outcome EXCEPT ![c] = "error"]
      BY <1>0, <2>1, <2>3 DEF TypeOK, CallsOver
    <2> QED BY <1>8, <2>2, <2>3 DEF SendFails
  <1>9. CASE LeaveAbort(c)
    BY <1>0, <1>9 DEF TypeOK, LeaveAbort, CallsOver
  <1> QED
    BY <1>1, <1>2, <1>3, <1>4, <1>5, <1>6, <1>7, <1>8, <1>9 DEF CallerStep

\* A step of the coordinator's other coroutines, the runner or a stage leaves
\* what is settled alone.
LEMMA OtherSettled ==
    ASSUME TypeOK, MessagesKnown,
           \/ \E r \in Ids : AbortStep(r)
           \/ LoopStep
           \/ FailPendingRequests
           \/ Stop
           \/ \E c \in Callers, t \in Stages : StageStep(c, t)
    PROVE  FutsSettled /\ CallsOver /\ InfosFrozen
  <1> USE DEF tables, objects, network, service, args, waits, call
  <1>0. ASSUME UNCHANGED <<fut, state, pc, outcome>>
        PROVE  FutsSettled /\ CallsOver /\ InfosFrozen
    BY <1>0 DEF FutsSettled, CallsOver, InfosFrozen
  <1>1. ASSUME NEW r \in Ids, Abort(r)
        PROVE  FutsSettled /\ CallsOver /\ InfosFrozen
    BY <1>0, <1>1 DEF Abort
  <1>2. ASSUME NEW r \in Ids, AbortTaskEnds(r)
        PROVE  FutsSettled /\ CallsOver /\ InfosFrozen
    <2>1. FutsSettled
      BY <1>2, RejectedFact DEF AbortTaskEnds, FutsSettled
    <2>2. CallsOver
      BY <1>2, WakeFact DEF AbortTaskEnds, CallsOver
    <2>3. InfosFrozen
      BY <1>2 DEF TypeOK, AbortTaskEnds, InfosFrozen
    <2> QED BY <2>1, <2>2, <2>3
  <1>3. ASSUME NEW r \in Ids, AbortTaskFails(r)
        PROVE  FutsSettled /\ CallsOver /\ InfosFrozen
    <2>1. CallsOver
      BY <1>3, WakeFact DEF AbortTaskFails, CallsOver
    <2>2. FutsSettled /\ InfosFrozen
      BY <1>3 DEF AbortTaskFails, FutsSettled, InfosFrozen
    <2> QED BY <2>1, <2>2
  <1>4. ASSUME NEW t \in Stages, HandleStream(t)
        PROVE  FutsSettled /\ CallsOver /\ InfosFrozen
    BY <1>0, <1>4 DEF HandleStream
  <1>5. ASSUME NEW t \in Stages, HandleSuccess(t)
        PROVE  FutsSettled /\ CallsOver /\ InfosFrozen
    <2> DEFINE r == IdOf(Head(inbox[t]))
    <2>1. r \in Ids
      BY <1>5, HeadKnown DEF HandleSuccess, Receive
    <2>2. FutsSettled
      BY <1>5, ResolvedFact DEF HandleSuccess, FutsSettled
    <2>3. CallsOver
      BY <1>5 DEF HandleSuccess, CallsOver
    <2>4. state' \in {state, [state EXCEPT ![requests[r]] = "completed"]}
      BY <1>5 DEF HandleSuccess
    <2> HIDE DEF r
    <2>5. InfosFrozen
      BY <2>1, <2>4 DEF TypeOK, InfosFrozen
    <2> QED BY <2>2, <2>3, <2>5
  <1>6. ASSUME NEW t \in Stages, HandleFailure(t)
        PROVE  FutsSettled /\ CallsOver /\ InfosFrozen
    <2> DEFINE r == IdOf(Head(inbox[t]))
    <2>1. r \in Ids
      BY <1>6, HeadKnown DEF HandleFailure, Receive
    <2>2. FutsSettled /\ CallsOver
      BY <1>6 DEF HandleFailure, FutsSettled, CallsOver
    <2>3. state' \in {state, [state EXCEPT ![requests[r]] = "failed"]}
      BY <1>6 DEF HandleFailure
    <2> HIDE DEF r
    <2>4. InfosFrozen
      BY <2>1, <2>3 DEF TypeOK, InfosFrozen
    <2> QED BY <2>2, <2>4
  <1>7. CASE FinishFailure
    <2>1. FutsSettled
      BY <1>7, RejectedFact DEF FinishFailure, FutsSettled
    <2>2. CallsOver /\ InfosFrozen
      BY <1>7 DEF FinishFailure, CallsOver, InfosFrozen
    <2> QED BY <2>1, <2>2
  <1>8. CASE LoopDies \/ Stop
    BY <1>0, <1>8 DEF LoopDies, Stop
  <1>9. CASE FailPendingRequests
    BY <1>9 DEF FailPendingRequests, FutsSettled, CallsOver, InfosFrozen
  <1>10. ASSUME NEW c \in Callers, NEW t \in Stages, StageStep(c, t)
         PROVE  FutsSettled /\ CallsOver /\ InfosFrozen
    BY <1>0, <1>10
    DEF StageStep, StageStreams, StageCompletes, StageFails, StageSends
  <1> QED
    BY <1>1, <1>2, <1>3, <1>4, <1>5, <1>6, <1>7, <1>8, <1>9, <1>10
    DEF AbortStep, LoopStep

\* No outcome is ever taken back: futures, calls and untracked requests keep
\* what they have.
THEOREM OutcomesFinal == Spec => SettledForGood
  <1>1. Init => MessagesKnown
    BY DEF Init, MessagesKnown
  <1>2. IInv /\ MessagesKnown /\ [Next]_vars => MessagesKnown'
    BY KnownStep DEF IInv
  <1>3. Spec => []MessagesKnown
    BY <1>1, <1>2, Inductive, PTL DEF Spec
  <1> DEFINE Step ==
        \A c \in Callers :
          /\ fut[c] # "pending" => fut'[c] = fut[c]
          /\ pc[c] = "done" => pc'[c] = "done" /\ outcome'[c] = outcome[c]
          /\ /\ pc[c] # "idle"
             /\ \A r \in Ids : requests[r] # c
             => state'[c] = state[c]
  <1>4. IInv /\ MessagesKnown /\ [Next]_vars => [Step]_vars
    <2> SUFFICES ASSUME IInv, MessagesKnown, Next PROVE Step
      OBVIOUS
    <2>1. TypeOK /\ CallsInOrder
      BY DEF IInv
    <2>2. FutsSettled /\ CallsOver /\ InfosFrozen
      BY <2>1, CallerSettled, OtherSettled DEF Next
    <2> QED BY <2>2 DEF FutsSettled, CallsOver, InfosFrozen
  <1> QED BY <1>3, <1>4, Inductive, PTL DEF Spec, SettledForGood

-----------------------------------------------------------------------------
\* What a call has been told, and what became of its request.

Untracked(c) == \A r \in Ids : requests[r] # c

\* Every message on its way is of a request that was delivered, and a stage
\* answers a request for good once.
SentTo(t) ==
    /\ \A i \in 1..Len(inbox[t]) :
          /\ inbox[t][i].stage = t /\ inbox[t][i].inc \in delivered
          /\ inbox[t][i].kind # "chunk" => t \in answered[inbox[t][i].inc]
          /\ inbox[t][i].kind = "ok" => t \in Terminals
    /\ \A i, j \in 1..Len(inbox[t]) :
          /\ inbox[t][i].inc = inbox[t][j].inc
          /\ inbox[t][i].kind # "chunk" /\ inbox[t][j].kind # "chunk"
          => i = j

Sent == \A t \in Stages : SentTo(t)

\* What there is of a call at each point.
Phases ==
    \A c \in Callers :
        /\ pc[c] = "idle" =>
              /\ state[c] = "pending" /\ fut[c] = "pending" /\ outcome[c] = "none"
              /\ queue[c] = <<>> /\ completed[c] = {} /\ terms[c] = {}
              /\ c \notin delivered /\ applied[c] = {}
        /\ pc[c] = "sending" => outcome[c] = "none" /\ c \notin delivered
        /\ pc[c] \in {"await", "reading"} => outcome[c] = "none" /\ c \in delivered
        /\ outcome[c] = "rejected" => pc[c] = "done" /\ Untracked(c)

\* What is registered under an id is of a call that passed this id.  A request
\* that is tracked has not completed, and a future is settled or its request
\* is tracked.
Registered ==
    \A c \in Callers : \A r \in Ids :
        /\ requests[r] = c => rid[c] = r /\ state[c] # "completed"
        /\ completion_futures[r] = c =>
              rid[c] = r /\ pc[c] # "idle" /\ (fut[c] # "pending" \/ requests[r] = c)
        /\ stream_queues[r] = c => rid[c] = r /\ pc[c] # "idle"

\* A stream that is sent or read has its queue, and waits for no less than the
\* terminals of its request.
Streams ==
    \A c \in Callers :
        /\ pc[c] \in {"sending", "reading"} /\ method[c] = "stream"
              => stream_queues[rid[c]] = c
        /\ pc[c] = "reading" => terms[c] \subseteq expected[c]

\* What a future says became of the request.
Futures ==
    \A c \in Callers :
        /\ fut[c] = "result" => state[c] = "completed"
        /\ fut[c] = "error" => state[c] # "completed" /\ Untracked(c)

\* While the failure of a request is broadcast, nothing that is registered
\* under its id completes.
Failing ==
    failing # None =>
        /\ loop = "broadcast"
        /\ failing.kind = "fail"
        /\ failing.inc \in delivered
        /\ \A q \in Callers :
              stream_queues[rid[failing.inc]] = q => state[q] # "completed"

HasOk(c) == \E i \in 1..Len(queue[c]) : queue[c][i].kind = "ok"

HasFail(c) == \E i \in 1..Len(queue[c]) : queue[c][i].kind = "fail"

\* Stream c has been sent the result of t, read or unread.
Told(c, t) ==
    \/ t \in completed[c]
    \/ \E i \in 1..Len(queue[c]) : queue[c][i].kind = "ok" /\ queue[c][i].stage = t

\* A stream is told of a failure when its request was dropped, of the results
\* that were collected for it, and of all of them only when it has completed.
Queues ==
    \A c \in Callers :
        /\ HasFail(c) => state[c] # "completed" /\ Untracked(c)
        /\ HasOk(c) /\ state[c] # "completed" => terms[c] # {}
        /\ \A r \in Ids : requests[r] = c =>
              \A t \in Stages : Told(c, t) => t \in partial_results[r]
        /\ state[c] # "completed" /\ terms[c] # {} => \E t \in terms[c] : ~Told(c, t)

Life == Sent /\ Phases /\ Registered /\ Streams /\ Futures /\ Failing /\ Queues

\* Where a put goes.
LEMMA PutGoes ==
    ASSUME TypeOK, NEW r \in Ids, NEW m, NEW q \in Callers
    PROVE  Put(r, m)[q] = IF stream_queues[r] = q THEN Append(queue[q], m) ELSE queue[q]
  BY ConstAssumption DEF TypeOK, Put

\* What one more message tells a stream.
LEMMA QueueGrows ==
    ASSUME TypeOK, NEW q \in Callers, NEW m \in Message, queue'[q] = Append(queue[q], m),
           completed'[q] = completed[q]
    PROVE  /\ HasOk(q)' <=> HasOk(q) \/ m.kind = "ok"
           /\ HasFail(q)' <=> HasFail(q) \/ m.kind = "fail"
           /\ \A t \in Stages : Told(q, t)' <=> Told(q, t) \/ (m.kind = "ok" /\ m.stage = t)
  <1>1. queue[q] \in Seq(Message) /\ Len(queue[q]) \in Nat
    BY DEF TypeOK
  <1>2. /\ Len(queue'[q]) = Len(queue[q]) + 1
        /\ \A i \in 1..Len(queue[q]) : queue'[q][i] = queue[q][i]
        /\ queue'[q][Len(queue[q]) + 1] = m
    BY <1>1
  <1>3. 1..Len(queue'[q]) = 1..Len(queue[q]) \cup {Len(queue[q]) + 1}
    BY <1>1, <1>2
  <1> QED BY <1>2, <1>3 DEF HasOk, HasFail, Told

\* A stream whose queue stays is told nothing.
LEMMA QueueStays ==
    ASSUME NEW q \in Callers, queue'[q] = queue[q], completed'[q] = completed[q]
    PROVE  /\ HasOk(q)' <=> HasOk(q)
           /\ HasFail(q)' <=> HasFail(q)
           /\ \A t \in Stages : Told(q, t)' <=> Told(q, t)
  BY DEF HasOk, HasFail, Told

\* A message that is read has been told; what is left is what was there.
LEMMA QueueRead ==
    ASSUME TypeOK, NEW q \in Callers, queue[q] # <<>>, queue'[q] = Tail(queue[q]),
           completed'[q] = IF Head(queue[q]).kind = "ok"
                           THEN completed[q] \cup ({Head(queue[q]).stage} \ {None})
                           ELSE completed[q]
    PROVE  /\ HasOk(q)' => HasOk(q)
           /\ HasFail(q)' => HasFail(q)
           /\ Head(queue[q]).kind = "ok" => HasOk(q)
           /\ Head(queue[q]).kind = "fail" => HasFail(q)
           /\ \A t \in Stages : Told(q, t)' <=> Told(q, t)
  <1>1. queue[q] \in Seq(Message) /\ Len(queue[q]) \in Nat
    BY DEF TypeOK
  <1>2. /\ Len(queue'[q]) = Len(queue[q]) - 1 /\ 1 \in 1..Len(queue[q])
        /\ \A i \in 1..Len(queue'[q]) : queue'[q][i] = queue[q][i + 1]
        /\ Head(queue[q]) = queue[q][1]
    BY <1>1
  <1>3. \A i \in 1..Len(queue'[q]) : i + 1 \in 1..Len(queue[q])
    BY <1>1, <1>2
  <1>4. \A i \in 1..Len(queue[q]) : i = 1 \/ (i - 1 \in 1..Len(queue'[q]) /\ (i - 1) + 1 = i)
    BY <1>1, <1>2
  <1>5. \A i \in 1..Len(queue[q]) :
            i = 1 \/ \E j \in 1..Len(queue'[q]) : queue'[q][j] = queue[q][i]
    BY <1>2, <1>4
  <1>6. /\ HasOk(q)' => HasOk(q)
        /\ HasFail(q)' => HasFail(q)
    BY <1>2, <1>3 DEF HasOk, HasFail
  <1>7. /\ Head(queue[q]).kind = "ok" => HasOk(q)
        /\ Head(queue[q]).kind = "fail" => HasFail(q)
    BY <1>2 DEF HasOk, HasFail
  <1>8. ASSUME NEW t \in Stages
        PROVE  Told(q, t)' <=> Told(q, t)
    <2>1. t # None
      BY ConstAssumption
    <2>2. Told(q, t)' => Told(q, t)
      BY <1>2, <1>3 DEF Told
    <2>3. ASSUME NEW i \in 1..Len(queue[q]), queue[q][i].kind = "ok", queue[q][i].stage = t
          PROVE  Told(q, t)'
      <3>1. CASE i = 1
        BY <2>1, <2>3, <3>1, <1>2 DEF Told
      <3>2. CASE i # 1
        <4>1. PICK j \in 1..Len(queue'[q]) : queue'[q][j] = queue[q][i]
          BY <1>5, <3>2
        <4> QED BY <2>3, <4>1 DEF Told
      <3> QED BY <3>1, <3>2
    <2>4. t \in completed[q] => Told(q, t)'
      BY <1>2, <2>1 DEF Told
    <2>5. Told(q, t) => Told(q, t)'
      BY <2>3, <2>4 DEF Told
    <2> QED BY <2>2, <2>5
  <1> QED BY <1>6, <1>7, <1>8

\* The first states.
LEMMA InitLife == Init => Life
  BY ConstAssumption DEF Init, Life, Sent, SentTo, Phases, Registered, Streams, Futures, Failing,
     Queues, HasOk, HasFail, Told, Untracked

\* Every step keeps what is known of the messages on their way.
LEMMA SentStep ==
    ASSUME TypeOK, Sent, Next
    PROVE  Sent'
  <1> USE DEF tables, objects, network, service, args, waits, call
  <1>0. ASSUME UNCHANGED <<inbox, answered>>, delivered \subseteq delivered'
        PROVE  Sent'
    BY <1>0 DEF Sent, SentTo
  <1>1. ASSUME NEW c \in Callers, CallerStep(c)
        PROVE  Sent'
    <2>1. UNCHANGED <<inbox, answered>> /\ delivered \subseteq delivered'
      BY <1>1 DEF CallerStep, CallRejected, Admit, SubmitSent, SubmitReturns, CancelSubmit,
         ReadEvent, CloseStream, SendFails, LeaveAbort
    <2> QED BY <1>0, <2>1
  <1>2. ASSUME NEW r \in Ids, AbortStep(r)
        PROVE  Sent'
    <2>1. UNCHANGED <<inbox, answered, delivered>>
      BY <1>2 DEF AbortStep, Abort, AbortTaskEnds, AbortTaskFails
    <2> QED BY <1>0, <2>1
  <1>3. CASE FinishFailure \/ LoopDies \/ FailPendingRequests \/ Stop
    <2>1. UNCHANGED <<inbox, answered, delivered>>
      BY <1>3 DEF FinishFailure, LoopDies, FailPendingRequests, Stop
    <2> QED BY <1>0, <2>1
  <1>4. ASSUME NEW t \in Stages, Receive(t), UNCHANGED delivered
        PROVE  Sent'
    <2>1. inbox[t] \in Seq(Message) /\ inbox[t] # <<>>
      BY <1>4 DEF TypeOK, Receive
    <2>2. /\ Len(Tail(inbox[t])) = Len(inbox[t]) - 1 /\ Len(inbox[t]) \in Nat
          /\ \A i \in 1..Len(Tail(inbox[t])) :
                /\ i + 1 \in 1..Len(inbox[t])
                /\ Tail(inbox[t])[i] = inbox[t][i + 1]
      BY <2>1
    <2>3. /\ inbox'[t] = Tail(inbox[t])
          /\ \A u \in Stages \ {t} : inbox'[u] = inbox[u]
          /\ UNCHANGED answered
      BY <1>4 DEF TypeOK, Receive
    <2>4. ASSUME NEW u \in Stages \ {t}
          PROVE  SentTo(u)'
      BY <1>4, <2>3 DEF Sent, SentTo
    <2>5. \A i \in 1..Len(inbox'[t]) :
                /\ inbox'[t][i].stage = t /\ inbox'[t][i].inc \in delivered
                /\ inbox'[t][i].kind # "chunk" => t \in answered[inbox'[t][i].inc]
                /\ inbox'[t][i].kind = "ok" => t \in Terminals
      BY <2>2, <2>3 DEF Sent, SentTo
    <2>6. ASSUME NEW i \in 1..Len(inbox'[t]), NEW j \in 1..Len(inbox'[t]),
                 inbox'[t][i].inc = inbox'[t][j].inc,
                 inbox'[t][i].kind # "chunk", inbox'[t][j].kind # "chunk"
          PROVE  i = j
      <3>1. i + 1 = j + 1
        BY <2>2, <2>3, <2>6 DEF Sent, SentTo
      <3> QED BY <3>1, <2>2, <2>3
    <2>7. SentTo(t)'
      BY <1>4, <2>3, <2>5, <2>6 DEF SentTo
    <2> QED BY <2>4, <2>7 DEF Sent
  <1>5. ASSUME NEW t \in Stages, HandleStream(t) \/ HandleSuccess(t) \/ HandleFailure(t)
        PROVE  Sent'
    <2>1. Receive(t) /\ UNCHANGED delivered
      BY <1>5 DEF HandleStream, HandleSuccess, HandleFailure
    <2> QED BY <1>4, <2>1
  <1>6. ASSUME NEW c \in Callers, NEW t \in Stages, NEW kind \in {"chunk", "ok", "fail"},
               kind = "ok" => t \in Terminals, StageSends(c, t, kind)
        PROVE  Sent'
    <2> DEFINE m == [kind |-> kind, stage |-> t, inc |-> c]
    <2>1. m.inc = c /\ m.kind = kind /\ m.stage = t
      OBVIOUS
    <2>2. /\ inbox'[t] = Append(inbox[t], m)
          /\ \A u \in Stages \ {t} : inbox'[u] = inbox[u]
          /\ UNCHANGED delivered /\ c \in delivered
          /\ t \notin answered[c]
      BY <1>6 DEF TypeOK, StageSends
    <2>3. /\ \A d \in Callers : answered[d] \subseteq answered'[d]
          /\ kind # "chunk" => t \in answered'[c]
      BY <1>6 DEF TypeOK, StageSends
    <2> HIDE DEF m
    <2>4. inbox[t] \in Seq(Message) /\ Len(inbox[t]) \in Nat
      BY DEF TypeOK
    <2>5. /\ Len(inbox'[t]) = Len(inbox[t]) + 1
          /\ \A i \in 1..Len(inbox[t]) : inbox'[t][i] = inbox[t][i]
          /\ inbox'[t][Len(inbox[t]) + 1] = m
      BY <2>2, <2>4
    <2>6. \A u \in Stages : \A i \in 1..Len(inbox[u]) : inbox[u][i].inc \in Callers
      BY DEF TypeOK, Sent, SentTo
    <2>7. ASSUME NEW u \in Stages \ {t}
          PROVE  SentTo(u)'
      <3>1. SentTo(u) /\ inbox'[u] = inbox[u]
        BY <2>2 DEF Sent
      <3>2. ASSUME NEW i \in 1..Len(inbox[u]), inbox[u][i].kind # "chunk"
            PROVE  u \in answered'[inbox[u][i].inc]
        BY <3>1, <3>2, <2>3, <2>6 DEF SentTo
      <3> QED BY <3>1, <3>2, <2>2 DEF SentTo
    <2>8. ASSUME NEW i \in 1..Len(inbox'[t])
          PROVE  /\ inbox'[t][i].stage = t /\ inbox'[t][i].inc \in delivered
                 /\ inbox'[t][i].kind # "chunk" => t \in answered'[inbox'[t][i].inc]
                 /\ inbox'[t][i].kind = "ok" => t \in Terminals
      <3>1. CASE i = Len(inbox[t]) + 1
        BY <3>1, <1>6, <2>1, <2>2, <2>3, <2>5
      <3>2. CASE i \in 1..Len(inbox[t])
        <4>1. /\ inbox'[t][i] = inbox[t][i] /\ inbox[t][i].inc \in Callers /\ SentTo(t)
              /\ answered[inbox[t][i].inc] \subseteq answered'[inbox[t][i].inc]
          BY <3>2, <2>3, <2>5, <2>6 DEF Sent
        <4> QED BY <3>2, <4>1, <2>2 DEF SentTo
      <3> QED BY <3>1, <3>2, <2>4, <2>5
    <2>9. ASSUME NEW i \in 1..Len(inbox'[t]), NEW j \in 1..Len(inbox'[t]),
                 inbox'[t][i].inc = inbox'[t][j].inc,
                 inbox'[t][i].kind # "chunk", inbox'[t][j].kind # "chunk"
          PROVE  i = j
      <3>1. CASE i \in 1..Len(inbox[t]) /\ j \in 1..Len(inbox[t])
        BY <3>1, <2>5, <2>9 DEF Sent, SentTo
      <3>2. CASE i \in 1..Len(inbox[t]) /\ j = Len(inbox[t]) + 1
        BY <3>2, <2>1, <2>2, <2>5, <2>9 DEF Sent, SentTo
      <3>3. CASE j \in 1..Len(inbox[t]) /\ i = Len(inbox[t]) + 1
        BY <3>3, <2>1, <2>2, <2>5, <2>9 DEF Sent, SentTo
      <3> QED BY <3>1, <3>2, <3>3, <2>4, <2>5
    <2>10. SentTo(t)'
      BY <2>2, <2>8, <2>9 DEF SentTo
    <2> QED BY <2>7, <2>10 DEF Sent
  <1>7. ASSUME NEW c \in Callers, NEW t \in Stages, StageStep(c, t)
        PROVE  Sent'
    BY <1>6, <1>7 DEF StageStep, StageStreams, StageCompletes, StageFails
  <1> QED BY <1>1, <1>2, <1>3, <1>5, <1>7 DEF Next, LoopStep

\* The message that is received is of a delivered request.
LEMMA HeadSent ==
    ASSUME TypeOK, CallsInOrder, Sent, Phases, NEW t \in Stages, inbox[t] # <<>>
    PROVE  /\ Head(inbox[t]) \in Message /\ Head(inbox[t]).inc \in delivered
           /\ IdOf(Head(inbox[t])) \in Ids
           /\ Head(inbox[t]).stage = t /\ (Head(inbox[t]).kind = "ok" => t \in Terminals)
  <1>1. Head(inbox[t]) = inbox[t][1] /\ 1 \in 1..Len(inbox[t]) /\ Head(inbox[t]) \in Message
    BY DEF TypeOK
  <1>2. Head(inbox[t]).inc \in delivered /\ Head(inbox[t]).inc \in Callers
    BY <1>1 DEF Sent, SentTo, TypeOK
  <1>3. pc[Head(inbox[t]).inc] # "idle"
    BY <1>2 DEF Phases
  <1> QED BY <1>1, <1>2, <1>3 DEF IdOf, CallsInOrder, Sent, SentTo

\* Requests are only dropped, but for Admit.
Drops == \A r \in Ids : requests'[r] \in {requests[r], None}

\* A call that is nobody's stays so.
LEMMA UntrackedStays ==
    ASSUME Drops, NEW c \in Callers, Untracked(c)
    PROVE  Untracked(c)'
  BY ConstAssumption DEF Drops, Untracked

\* The finally block of a stream.
LEMMA LeaveStreamEffect ==
    ASSUME TypeOK, NEW c \in Callers, rid[c] \in Ids, NEW how, LeaveStream(c, how)
    PROVE  /\ outcome' = [outcome EXCEPT ![c] = how]
           /\ pc' \in {[pc EXCEPT ![c] = "aborting"], [pc EXCEPT ![c] = "done"]}
           /\ \A r \in Ids :
                 /\ stream_queues'[r] = stream_queues[r] \/ (stream_queues[r] = c /\ stream_queues'[r] = None)
                 /\ completion_futures'[r] \in {completion_futures[r], None}
  BY DEF TypeOK, LeaveStream, Unregister

\* Nothing is registered for a call that has not begun.
LEMMA IdleUnknown ==
    ASSUME TypeOK, CallsInOrder, Registered, NEW d \in Callers, pc[d] = "idle",
           NEW r \in Ids
    PROVE  /\ requests[r] # d /\ completion_futures[r] # d /\ stream_queues[r] # d
           /\ Rejected(r)[d] = fut[d] /\ Resolved(r)[d] = fut[d]
           /\ \A m : Put(r, m)[d] = queue[d]
  <1>1. requests[r] # d /\ completion_futures[r] # d /\ stream_queues[r] # d
    BY DEF CallsInOrder, Registered
  <1>2. Rejected(r)[d] = fut[d] /\ Resolved(r)[d] = fut[d]
    BY <1>1 DEF TypeOK, Rejected, Resolved
  <1> QED BY <1>1, <1>2, PutGoes

\* A step that moves no call, but for waking it up, and touches no call that
\* has not begun.
LEMMA PhasesKept ==
    ASSUME Phases, Drops, UNCHANGED <<outcome, delivered, terms, completed>>,
           \A d \in Callers : pc'[d] = pc[d] \/ (pc[d] = "aborting" /\ pc'[d] = "abort_over"),
           \A d \in Callers : pc[d] = "idle" =>
              state'[d] = state[d] /\ fut'[d] = fut[d] /\ queue'[d] = queue[d]
                 /\ applied'[d] = applied[d]
    PROVE  Phases'
  BY UntrackedStays DEF Phases

\* A step of one call that drops no request.
LEMMA PhasesMoved ==
    ASSUME TypeOK, Phases, UNCHANGED <<requests, terms, applied>>, NEW c \in Callers,
           pc[c] # "idle",
           \A d \in Callers \ {c} :
              /\ pc'[d] = pc[d] /\ outcome'[d] = outcome[d] /\ fut'[d] = fut[d]
              /\ queue'[d] = queue[d] /\ completed'[d] = completed[d]
              /\ d \in delivered' <=> d \in delivered
              /\ pc[d] = "idle" => state'[d] = state[d],
           \/ /\ pc'[c] \in {"aborting", "done"} /\ outcome'[c] # "rejected"
           \/ /\ pc'[c] \in {"await", "reading"} /\ outcome'[c] = "none" /\ c \in delivered'
           \/ /\ pc[c] \in {"aborting", "abort_over"} /\ pc'[c] = "done" /\ outcome'[c] = outcome[c]
    PROVE  Phases'
  <1>1. ASSUME NEW d \in Callers \ {c}
        PROVE  /\ pc'[d] = "idle" =>
                     /\ state'[d] = "pending" /\ fut'[d] = "pending" /\ outcome'[d] = "none"
                     /\ queue'[d] = <<>> /\ completed'[d] = {} /\ terms'[d] = {}
                     /\ d \notin delivered' /\ applied'[d] = {}
               /\ pc'[d] = "sending" => outcome'[d] = "none" /\ d \notin delivered'
               /\ pc'[d] \in {"await", "reading"} => outcome'[d] = "none" /\ d \in delivered'
               /\ outcome'[d] = "rejected" => pc'[d] = "done" /\ Untracked(d)'
    BY <1>1 DEF Phases, Untracked
  <1>2. outcome[c] = "rejected" => pc[c] = "done" /\ Untracked(c)
    BY DEF Phases
  <1>3. outcome'[c] = "rejected" => pc'[c] = "done" /\ Untracked(c)'
    BY <1>2 DEF Untracked
  <1>4. pc'[c] # "idle" /\ pc'[c] # "sending"
        /\ (pc'[c] \in {"await", "reading"} => outcome'[c] = "none" /\ c \in delivered')
    OBVIOUS
  <1> QED BY <1>1, <1>3, <1>4 DEF Phases

\* Every step of a call keeps the phases.
LEMMA CallerPhases ==
    ASSUME TypeOK, CallsInOrder, Phases, Registered, NEW c \in Callers, CallerStep(c)
    PROVE  Phases'
  <1> USE DEF tables, objects, network, service, args, waits, call
  <1>a. pc[c] # "idle" => rid[c] \in Ids
    BY DEF CallsInOrder
  <1>1. CASE CallRejected(c)
    <2>1. Untracked(c) /\ pc[c] = "idle"
      BY <1>1 DEF CallsInOrder, CallRejected, Untracked
    <2> QED BY <1>1, <2>1 DEF TypeOK, CallRejected, Phases, Untracked
  <1>2. CASE Admit(c)
    <2>1. \A d \in Callers \ {c} : Untracked(d) => Untracked(d)'
      BY <1>2 DEF TypeOK, Admit, Untracked
    <2>2. /\ pc'[c] = "sending" /\ UNCHANGED <<outcome, delivered, state, fut, queue, completed, applied>>
          /\ pc[c] = "idle"
          /\ \A d \in Callers \ {c} : pc'[d] = pc[d] /\ terms'[d] = terms[d]
      BY <1>2 DEF TypeOK, Admit
    <2> QED BY <2>1, <2>2 DEF Phases
  <1>3. CASE SubmitSent(c)
    <2>1. \A d \in Callers : pc[d] = "idle" => state'[d] = state[d]
      BY <1>a, <1>3, IdleUnknown DEF TypeOK, SubmitSent, MarkRunning
    <2>2. pc[c] # "idle" /\ pc'[c] \in {"await", "reading"} /\ outcome'[c] = "none" /\ c \in delivered'
      BY <1>3 DEF TypeOK, SubmitSent, Phases
    <2>3. /\ UNCHANGED <<requests, terms, applied, outcome, fut, queue, completed>>
          /\ \A d \in Callers \ {c} : pc'[d] = pc[d] /\ (d \in delivered' <=> d \in delivered)
      BY <1>3 DEF TypeOK, SubmitSent
    <2> QED BY <2>1, <2>2, <2>3, PhasesMoved
  <1>4. CASE SubmitReturns(c)
    <2>a. awaited[c] = c
      BY <1>4 DEF SubmitReturns, CallsInOrder
    <2>b. fut[c] \in FutureState
      BY DEF TypeOK
    <2>1. fut[awaited[c]] # "rejected"
      BY <2>a, <2>b DEF FutureState
    <2>2. pc[c] # "idle" /\ pc'[c] = "done" /\ outcome'[c] # "rejected"
      BY <1>4, <2>1 DEF TypeOK, SubmitReturns
    <2>3. /\ UNCHANGED <<requests, terms, applied, state, fut, queue, completed, delivered>>
          /\ \A d \in Callers \ {c} : pc'[d] = pc[d] /\ outcome'[d] = outcome[d]
      BY <1>4 DEF TypeOK, SubmitReturns
    <2> QED BY <2>2, <2>3, PhasesMoved
  <1>5. CASE CancelSubmit(c)
    <2>1. awaited[c] = c
      BY <1>5 DEF CancelSubmit, CallsInOrder
    <2>2. pc[c] # "idle" /\ pc'[c] = "done" /\ outcome'[c] # "rejected"
      BY <1>5 DEF TypeOK, CancelSubmit
    <2>3. /\ UNCHANGED <<requests, terms, applied, state, queue, completed, delivered>>
          /\ \A d \in Callers \ {c} :
                pc'[d] = pc[d] /\ outcome'[d] = outcome[d] /\ fut'[d] = fut[d]
      BY <1>5, <2>1 DEF TypeOK, CancelSubmit
    <2> QED BY <2>2, <2>3, PhasesMoved
  <1>6. ASSUME NEW how \in {"error", "result", "closed"}, pc[c] # "idle", LeaveStream(c, how),
               UNCHANGED <<requests, terms, applied, state, fut, delivered>>,
               \A d \in Callers \ {c} : queue'[d] = queue[d] /\ completed'[d] = completed[d]
        PROVE  Phases'
    <2>1. /\ outcome' = [outcome EXCEPT ![c] = how]
          /\ pc' \in {[pc EXCEPT ![c] = "aborting"], [pc EXCEPT ![c] = "done"]}
      BY <1>a, <1>6, LeaveStreamEffect
    <2>2. pc'[c] \in {"aborting", "done"} /\ outcome'[c] # "rejected"
      BY <2>1 DEF TypeOK
    <2>3. \A d \in Callers \ {c} : pc'[d] = pc[d] /\ outcome'[d] = outcome[d]
      BY <2>1 DEF TypeOK
    <2> QED BY <1>6, <2>2, <2>3, PhasesMoved
  <1>7. CASE ReadEvent(c)
    <2>1. /\ pc[c] = "reading" /\ UNCHANGED <<requests, terms, applied, state, fut, delivered>>
          /\ \A d \in Callers \ {c} : queue'[d] = queue[d] /\ completed'[d] = completed[d]
      BY <1>7 DEF TypeOK, ReadEvent
    <2>2. CASE StayInStream
      <3>1. UNCHANGED <<pc, outcome>>
        BY <2>2 DEF StayInStream
      <3>2. outcome[c] = "none" /\ c \in delivered
        BY <2>1 DEF Phases
      <3> QED BY <2>1, <3>1, <3>2, PhasesMoved
    <2>3. CASE LeaveStream(c, "error") \/ LeaveStream(c, "result")
      BY <2>1, <2>3, <1>6
    <2> QED BY <1>7, <2>2, <2>3 DEF ReadEvent
  <1>8. CASE CloseStream(c)
    BY <1>6, <1>8 DEF CloseStream
  <1>9. CASE SendFails(c)
    <2>1. CASE LeaveStream(c, "error")
      BY <1>6, <1>9, <2>1 DEF SendFails
    <2>2. CASE /\ pc' = [pc EXCEPT ![c] = "done"]
               /\ outcome' = [outcome EXCEPT ![c] = "error"]
      <3>1. /\ pc[c] # "idle" /\ pc'[c] = "done" /\ outcome'[c] # "rejected"
            /\ \A d \in Callers \ {c} : pc'[d] = pc[d] /\ outcome'[d] = outcome[d]
        BY <1>9, <2>2 DEF TypeOK, SendFails
      <3>2. UNCHANGED <<requests, terms, applied, state, fut, queue, completed, delivered>>
        BY <1>9 DEF SendFails
      <3> QED BY <3>1, <3>2, PhasesMoved
    <2> QED BY <1>9, <2>1, <2>2 DEF SendFails
  <1>10. CASE LeaveAbort(c)
    <2>1. /\ pc[c] \in {"aborting", "abort_over"} /\ pc'[c] = "done" /\ outcome'[c] = outcome[c]
          /\ \A d \in Callers \ {c} : pc'[d] = pc[d] /\ outcome'[d] = outcome[d]
      BY <1>10 DEF TypeOK, LeaveAbort
    <2>2. UNCHANGED <<requests, terms, applied, state, fut, queue, completed, delivered>>
      BY <1>10 DEF LeaveAbort
    <2> QED BY <2>1, <2>2, PhasesMoved
  <1> QED
    BY <1>1, <1>2, <1>3, <1>4, <1>5, <1>7, <1>8, <1>9, <1>10 DEF CallerStep

\* The failure that is broadcast is of a call with an id.
LEMMA FailingId ==
    ASSUME TypeOK, CallsInOrder, Phases, Failing, failing # None
    PROVE  failing \in Message /\ failing.inc \in Callers /\ IdOf(failing) \in Ids
  <1>1. failing \in Message /\ failing.inc \in delivered /\ failing.inc \in Callers
    BY DEF Failing, TypeOK
  <1>2. pc[failing.inc] # "idle"
    BY <1>1 DEF Phases
  <1> QED BY <1>1, <1>2 DEF IdOf, CallsInOrder

\* What a step of the coordinator's other coroutines, the runner or a stage does
\* to the requests and the calls.
OthersMove ==
    /\ Drops
    /\ UNCHANGED <<outcome, args, waits, stream_queues, completion_futures>>
    /\ \A d \in Callers :
          /\ pc'[d] = pc[d] \/ (pc[d] = "aborting" /\ pc'[d] = "abort_over")
          /\ pc[d] = "idle" =>
                state'[d] = state[d] /\ fut'[d] = fut[d] /\ queue'[d] = queue[d]
                   /\ applied'[d] = applied[d]

\* Every step of others is such a step.
LEMMA OtherEffect ==
    ASSUME TypeOK, CallsInOrder, Sent, Phases, Registered, Failing,
           \/ \E r \in Ids : AbortStep(r)
           \/ LoopStep
           \/ FailPendingRequests
           \/ Stop
           \/ \E c \in Callers, t \in Stages : StageStep(c, t)
    PROVE  OthersMove
  <1> USE DEF OthersMove, tables, objects, network, service, call
  <1>0. ASSUME UNCHANGED <<requests, call, stream_queues, completion_futures, state, fut, queue, applied>>
        PROVE  OthersMove
    BY <1>0 DEF Drops
  <1>1. ASSUME NEW r \in Ids, AbortStep(r)
        PROVE  OthersMove
    <2>1. CASE Abort(r)
      BY <1>0, <2>1 DEF Abort
    <2>2. CASE AbortTaskEnds(r)
      <3>1. Drops
        BY <2>2 DEF TypeOK, AbortTaskEnds, Drops
      <3>2. UNCHANGED <<outcome, args, waits, stream_queues, completion_futures, applied>>
        BY <2>2 DEF AbortTaskEnds
      <3>3. \A d \in Callers : pc'[d] = pc[d] \/ (pc[d] = "aborting" /\ pc'[d] = "abort_over")
        BY <2>2, WakeFact DEF AbortTaskEnds
      <3>4. \A d \in Callers : pc[d] = "idle" =>
                state'[d] = state[d] /\ fut'[d] = fut[d] /\ queue'[d] = queue[d]
        BY <2>2, IdleUnknown DEF TypeOK, AbortTaskEnds
      <3> QED BY <3>1, <3>2, <3>3, <3>4
    <2>3. CASE AbortTaskFails(r)
      BY <2>3, WakeFact DEF AbortTaskFails, Drops
    <2> QED BY <1>1, <2>1, <2>2, <2>3 DEF AbortStep
  <1>2. ASSUME NEW t \in Stages, HandleStream(t)
        PROVE  OthersMove
    <2>1. IdOf(Head(inbox[t])) \in Ids
      BY <1>2, HeadSent DEF HandleStream, Receive
    <2>2. \A d \in Callers : pc[d] = "idle" => queue'[d] = queue[d]
      BY <1>2, <2>1, IdleUnknown DEF HandleStream
    <2> QED BY <1>2, <2>2 DEF HandleStream, Drops
  <1>3. ASSUME NEW t \in Stages, HandleSuccess(t)
        PROVE  OthersMove
    <2> DEFINE m == Head(inbox[t])
               r == IdOf(m)
    <2>1. r \in Ids
      BY <1>3, HeadSent DEF HandleSuccess, Receive
    <2>2. /\ requests' \in {requests, [requests EXCEPT ![r] = None]}
          /\ state' \in {state, [state EXCEPT ![requests[r]] = "completed"]}
          /\ fut' \in {fut, Resolved(r)}
          /\ queue' \in {queue, Put(r, m)}
          /\ applied' \in {applied, [applied EXCEPT ![requests[r]] = @ \cup {m.inc}]}
          /\ UNCHANGED <<pc, outcome, args, waits, stream_queues, completion_futures>>
      BY <1>3 DEF HandleSuccess
    <2> HIDE DEF m, r
    <2>3. Drops
      BY <2>1, <2>2 DEF TypeOK, Drops
    <2>4. \A d \in Callers : pc[d] = "idle" =>
              state'[d] = state[d] /\ fut'[d] = fut[d] /\ queue'[d] = queue[d]
                 /\ applied'[d] = applied[d]
      BY <2>1, <2>2, IdleUnknown DEF TypeOK
    <2> QED BY <2>2, <2>3, <2>4
  <1>4. ASSUME NEW t \in Stages, HandleFailure(t)
        PROVE  OthersMove
    <2> DEFINE r == IdOf(Head(inbox[t]))
    <2>1. r \in Ids
      BY <1>4, HeadSent DEF HandleFailure, Receive
    <2>2. /\ state' \in {state, [state EXCEPT ![requests[r]] = "failed"]}
          /\ UNCHANGED <<requests, call, stream_queues, completion_futures, fut, queue, applied>>
      BY <1>4 DEF HandleFailure
    <2> HIDE DEF r
    <2>3. \A d \in Callers : pc[d] = "idle" => state'[d] = state[d]
      BY <2>1, <2>2, IdleUnknown DEF TypeOK
    <2> QED BY <2>2, <2>3 DEF Drops
  <1>5. CASE FailPendingRequests
    <2>1. \A d \in Callers : pc[d] = "idle" =>
              state'[d] = state[d] /\ fut'[d] = fut[d] /\ queue'[d] = queue[d]
      BY <1>5, IdleUnknown DEF FailPendingRequests, Tracked
    <2> QED BY <1>5, <2>1 DEF FailPendingRequests, Drops
  <1>6. CASE LoopDies \/ Stop
    BY <1>0, <1>6 DEF LoopDies, Stop
  <1>7. ASSUME NEW c \in Callers, NEW t \in Stages, StageStep(c, t)
        PROVE  OthersMove
    BY <1>0, <1>7 DEF StageStep, StageStreams, StageCompletes, StageFails, StageSends
  <1>8. CASE FinishFailure
    <2> DEFINE r == IdOf(failing)
    <2>1. /\ requests' = [requests EXCEPT ![r] = None] /\ fut' = Rejected(r)
          /\ queue' = Put(r, failing)
          /\ UNCHANGED <<call, stream_queues, completion_futures, state, applied>>
      BY <1>8 DEF FinishFailure, WithoutRequest
    <2>2. r \in Ids
      BY <1>8, FailingId DEF FinishFailure
    <2> HIDE DEF r
    <2>3. Drops
      BY <2>1 DEF TypeOK, Drops
    <2>4. \A d \in Callers : pc[d] = "idle" => fut'[d] = fut[d] /\ queue'[d] = queue[d]
      BY <2>1, <2>2, IdleUnknown
    <2> QED BY <2>1, <2>3, <2>4
  <1> QED
    BY <1>1, <1>2, <1>3, <1>4, <1>5, <1>6, <1>7, <1>8 DEF LoopStep

\* The call whose future or queue is registered is the one that is tracked.
LEMMA SameOwner ==
    ASSUME TypeOK, OwnersAgree, NEW r \in Ids, NEW q \in Callers,
           q \in {completion_futures[r], stream_queues[r]}
    PROVE  requests[r] \in {None, q}
  <1>1. q # None
    BY ConstAssumption
  <1>2. CASE requests[r] # None
    <2>1. {requests[r], q} \subseteq
              {requests[r], completion_futures[r], stream_queues[r], abort_tasks[r]} \ {None}
      BY <1>1, <1>2
    <2> QED BY <2>1 DEF OwnersAgree
  <1> QED BY <1>2

\* What a step of a call that has begun does to the requests and the calls.
Moves(c) ==
    /\ UNCHANGED <<requests, partial_results, args, failing, loop, applied>>
    /\ pc[c] # "idle" /\ pc'[c] # "idle" /\ delivered \subseteq delivered'
    /\ \A d \in Callers \ {c} :
          /\ pc'[d] = pc[d] /\ queue'[d] = queue[d] /\ completed'[d] = completed[d]
          /\ expected'[d] = expected[d]
    /\ \A r \in Ids :
          /\ stream_queues'[r] = stream_queues[r]
                \/ (stream_queues[r] = c /\ stream_queues'[r] = None)
          /\ completion_futures'[r] \in {completion_futures[r], None}
    /\ \A d \in Callers :
          /\ state'[d] = state[d] \/ (~Untracked(d) /\ state'[d] = "running")
          /\ fut'[d] = fut[d] \/ (fut[d] = "pending" /\ fut'[d] = "cancelled")

\* Every step of a call that has begun is such a step.
LEMMA CallerMoves ==
    ASSUME TypeOK, CallsInOrder, NEW c \in Callers, CallerStep(c), pc[c] # "idle"
    PROVE  Moves(c)
  <1> USE DEF tables, objects, network, service, args, waits, call
  <1>a. rid[c] \in Ids
    BY DEF CallsInOrder
  <1>1. CASE SubmitSent(c)
    <2>1. \A d \in Callers : state'[d] = state[d] \/ (~Untracked(d) /\ state'[d] = "running")
      BY <1>1, <1>a DEF TypeOK, SubmitSent, MarkRunning, Untracked
    <2>2. /\ UNCHANGED <<requests, partial_results, args, failing, loop, applied, fut, queue, completed,
                         stream_queues, completion_futures>>
          /\ delivered \subseteq delivered'
      BY <1>1 DEF SubmitSent
    <2>3. /\ pc'[c] # "idle"
          /\ \A d \in Callers \ {c} : pc'[d] = pc[d] /\ expected'[d] = expected[d]
      BY <1>1 DEF TypeOK, SubmitSent
    <2> QED BY <2>1, <2>2, <2>3 DEF Moves
  <1>2. CASE SubmitReturns(c)
    BY <1>2 DEF TypeOK, SubmitReturns, Moves
  <1>3. CASE CancelSubmit(c)
    <2>1. awaited[c] = c
      BY <1>3 DEF CancelSubmit, CallsInOrder
    <2> QED BY <1>3, <2>1 DEF TypeOK, CancelSubmit, Moves
  <1>4. ASSUME NEW how, LeaveStream(c, how),
               UNCHANGED <<requests, partial_results, args, failing, loop, applied, delivered, expected,
                           state, fut>>,
               \A d \in Callers \ {c} : queue'[d] = queue[d] /\ completed'[d] = completed[d]
        PROVE  Moves(c)
    <2>1. /\ pc' \in {[pc EXCEPT ![c] = "aborting"], [pc EXCEPT ![c] = "done"]}
          /\ \A r \in Ids :
                 /\ stream_queues'[r] = stream_queues[r] \/ (stream_queues[r] = c /\ stream_queues'[r] = None)
                 /\ completion_futures'[r] \in {completion_futures[r], None}
      BY <1>a, <1>4, LeaveStreamEffect
    <2>2. /\ pc'[c] # "idle"
          /\ \A d \in Callers \ {c} : pc'[d] = pc[d]
      BY <2>1 DEF TypeOK
    <2> QED BY <1>4, <2>1, <2>2 DEF Moves
  <1>5. CASE ReadEvent(c)
    <2>1. /\ UNCHANGED <<requests, partial_results, args, failing, loop, applied, delivered, expected,
                         state, fut>>
          /\ \A d \in Callers \ {c} : queue'[d] = queue[d] /\ completed'[d] = completed[d]
      BY <1>5 DEF TypeOK, ReadEvent
    <2>2. CASE StayInStream
      BY <2>1, <2>2 DEF StayInStream, Moves
    <2>3. CASE LeaveStream(c, "error") \/ LeaveStream(c, "result")
      BY <2>1, <2>3, <1>4
    <2> QED BY <1>5, <2>2, <2>3 DEF ReadEvent
  <1>6. CASE CloseStream(c)
    BY <1>4, <1>6 DEF CloseStream
  <1>7. CASE SendFails(c)
    <2>1. CASE LeaveStream(c, "error")
      BY <1>4, <1>7, <2>1 DEF SendFails
    <2>2. CASE /\ pc' = [pc EXCEPT ![c] = "done"]
               /\ UNCHANGED <<stream_queues, completion_futures>>
      BY <1>7, <2>2 DEF TypeOK, SendFails, Moves
    <2> QED BY <1>7, <2>1, <2>2 DEF SendFails
  <1>8. CASE LeaveAbort(c)
    BY <1>a, <1>8 DEF TypeOK, LeaveAbort, Unregister, Moves
  <1> QED
    BY <1>1, <1>2, <1>3, <1>5, <1>6, <1>7, <1>8 DEF CallerStep, CallRejected, Admit

\* What a stream has been told is the same after a step of a call.
LEMMA MovesTell ==
    ASSUME TypeOK, NEW c \in Callers, CallerStep(c), pc[c] # "idle", Moves(c), NEW q \in Callers
    PROVE  /\ HasOk(q)' => HasOk(q)
           /\ HasFail(q)' => HasFail(q)
           /\ \A t \in Stages : Told(q, t)' <=> Told(q, t)
  <1> USE DEF tables, objects, network, service, args, waits, call
  <1>1. CASE q # c
    BY <1>1, QueueStays DEF Moves
  <1>2. CASE q = c /\ ReadEvent(c)
    BY <1>2, QueueRead DEF TypeOK, ReadEvent
  <1>3. CASE q = c /\ ~ReadEvent(c)
    <2>1. UNCHANGED <<queue, completed>>
      BY <1>3 DEF CallerStep, CallRejected, Admit, SubmitSent, SubmitReturns, CancelSubmit,
         CloseStream, SendFails, LeaveAbort
    <2> QED BY <2>1, QueueStays
  <1> QED BY <1>1, <1>2, <1>3

\* A step of a call that has begun.
LEMMA MovesLife ==
    ASSUME IInv, Life, NEW c \in Callers, CallerStep(c), pc[c] # "idle"
    PROVE  Registered' /\ Streams' /\ Futures' /\ Failing' /\ Queues'
  <1> USE DEF IInv, Life
  <1>1. Moves(c)
    BY CallerMoves
  <1>2. \A d \in Callers : Untracked(d)' <=> Untracked(d)
    BY <1>1 DEF Moves, Untracked
  <1>3. \A d \in Callers : state[d] = "completed" => Untracked(d)
    BY DEF Registered, Untracked
  <1>4. \A d \in Callers : state'[d] = "completed" <=> state[d] = "completed"
    BY <1>1, <1>3 DEF Moves
  <1>5. Registered'
    <2>1. ASSUME NEW d \in Callers, NEW r \in Ids
          PROVE  /\ requests'[r] = d => rid'[d] = r /\ state'[d] # "completed"
                 /\ completion_futures'[r] = d =>
                       rid'[d] = r /\ pc'[d] # "idle" /\ (fut'[d] # "pending" \/ requests'[r] = d)
                 /\ stream_queues'[r] = d => rid'[d] = r /\ pc'[d] # "idle"
      <3>1. requests' = requests /\ rid' = rid
        BY <1>1 DEF Moves, args
      <3>2. /\ completion_futures'[r] = d => completion_futures[r] = d
            /\ stream_queues'[r] = d => stream_queues[r] = d
        BY <1>1, ConstAssumption DEF Moves
      <3>3. pc[d] # "idle" => pc'[d] # "idle"
        BY <1>1 DEF Moves
      <3>4. fut[d] # "pending" => fut'[d] # "pending"
        BY <1>1 DEF Moves
      <3> QED BY <1>4, <3>1, <3>2, <3>3, <3>4 DEF Registered
    <2> QED BY <2>1 DEF Registered
  <1>6. Futures'
    BY <1>1, <1>2, <1>4 DEF Moves, Futures
  <1>7. Failing'
    <2>1. ASSUME failing # None
          PROVE  rid[failing.inc] \in Ids
      BY <2>1, FailingId DEF IdOf
    <2> QED BY <1>1, <1>4, <2>1, ConstAssumption DEF Moves, Failing, args
  <1>8. Queues'
    <2>1. ASSUME NEW q \in Callers
          PROVE  /\ HasFail(q)' => state'[q] # "completed" /\ Untracked(q)'
                 /\ HasOk(q)' /\ state'[q] # "completed" => terms'[q] # {}
                 /\ \A r \in Ids : requests'[r] = q =>
                       \A t \in Stages : Told(q, t)' => t \in partial_results'[r]
                 /\ state'[q] # "completed" /\ terms'[q] # {} => \E t \in terms'[q] : ~Told(q, t)'
      <3>1. /\ HasOk(q)' => HasOk(q)
            /\ HasFail(q)' => HasFail(q)
            /\ \A t \in Stages : Told(q, t)' <=> Told(q, t)
        BY <1>1, MovesTell
      <3>2. terms[q] \subseteq Stages
        BY ConstAssumption DEF TypeOK
      <3>3. UNCHANGED <<requests, partial_results, terms>>
        BY <1>1 DEF Moves, args
      <3> QED BY <1>2, <1>4, <3>1, <3>2, <3>3 DEF Queues
    <2> QED BY <2>1 DEF Queues
  <1>9. Streams'
    <2>1. \A d \in Callers \ {c} : rid[d] \in Ids \/ pc[d] = "idle"
      BY DEF CallsInOrder
    <2>2. ASSUME NEW d \in Callers \ {c}
          PROVE  /\ pc'[d] \in {"sending", "reading"} /\ method'[d] = "stream"
                       => stream_queues'[rid'[d]] = d
                 /\ pc'[d] = "reading" => terms'[d] \subseteq expected'[d]
      BY <1>1, <2>1 DEF Moves, Streams, args
    <2>3. /\ pc'[c] \in {"sending", "reading"} /\ method'[c] = "stream"
                => stream_queues'[rid'[c]] = c
          /\ pc'[c] = "reading" => terms'[c] \subseteq expected'[c]
      <3> USE DEF tables, objects, network, service, args, waits, call
      <3>a. rid[c] \in Ids
        BY DEF CallsInOrder
      <3>1. CASE SubmitSent(c)
        <4>1. UNCHANGED <<stream_queues, rid, method, terms>> /\ pc[c] = "sending"
          BY <3>1 DEF SubmitSent
        <4>2. ASSUME pc'[c] = "reading"
              PROVE  terms[c] \subseteq expected'[c]
          <5>1. method[c] = "stream" /\ expected'[c] = ExpectedTerminals(rid[c])
            BY <3>1, <4>2 DEF SubmitSent, TypeOK
          <5>2. stream_queues[rid[c]] = c
            BY <4>1, <5>1 DEF Streams
          <5>3. requests[rid[c]] \in {None, c}
            BY <3>a, <5>2, SameOwner
          <5> QED BY <5>1, <5>3 DEF ExpectedTerminals, TypeOK
        <4>3. pc'[c] \in {"sending", "reading"} /\ method'[c] = "stream"
                => stream_queues'[rid'[c]] = c
          BY <4>1 DEF Streams
        <4> QED BY <4>1, <4>2, <4>3
      <3>2. CASE pc'[c] \notin {"sending", "reading"}
        BY <3>2
      <3>3. CASE ReadEvent(c) /\ StayInStream
        BY <3>3 DEF ReadEvent, StayInStream, Streams
      <3>4. ASSUME NEW how, LeaveStream(c, how)
            PROVE  pc'[c] \notin {"sending", "reading"}
        <4>1. pc' \in {[pc EXCEPT ![c] = "aborting"], [pc EXCEPT ![c] = "done"]}
          BY <3>a, <3>4, LeaveStreamEffect
        <4> QED BY <4>1 DEF TypeOK
      <3>5. CASE \/ SubmitReturns(c) \/ CancelSubmit(c) \/ SendFails(c) \/ CloseStream(c) \/ LeaveAbort(c)
                 \/ (ReadEvent(c) /\ ~StayInStream)
        <4>1. pc'[c] \notin {"sending", "reading"}
          BY <3>4, <3>5 DEF SubmitReturns, CancelSubmit, SendFails, CloseStream, LeaveAbort, ReadEvent, TypeOK
        <4> QED BY <4>1
      <3> QED BY <3>1, <3>3, <3>5 DEF CallerStep, CallRejected, Admit
    <2> QED BY <2>2, <2>3 DEF Streams
  <1> QED BY <1>5, <1>6, <1>7, <1>8, <1>9

\* A call that begins.
LEMMA BeginsLife ==
    ASSUME IInv, Life, NEW c \in Callers, CallerStep(c), pc[c] = "idle"
    PROVE  Registered' /\ Streams' /\ Futures' /\ Failing' /\ Queues'
  <1> USE DEF IInv, Life
  <1> USE DEF tables, objects, network, service, args, waits, call
  <1>0. CallRejected(c) \/ Admit(c)
    BY DEF CallerStep, SubmitSent, SubmitReturns, CancelSubmit, ReadEvent, CloseStream, SendFails,
       LeaveAbort
  <1>1. /\ UNCHANGED <<state, fut, queue, completed, expected, partial_results, failing, loop, delivered>>
        /\ \A d \in Callers \ {c} :
              pc'[d] = pc[d] /\ rid'[d] = rid[d] /\ terms'[d] = terms[d] /\ method'[d] = method[d]
        /\ pc'[c] \in {"sending", "done"} /\ pc'[c] # "idle"
    BY <1>0 DEF CallRejected, Admit, TypeOK
  <1>2. \A q \in Callers :
           /\ HasOk(q)' <=> HasOk(q)
           /\ HasFail(q)' <=> HasFail(q)
           /\ \A t \in Stages : Told(q, t)' <=> Told(q, t)
    BY <1>1, QueueStays
  <1>3. /\ fut[c] = "pending" /\ state[c] = "pending" /\ queue[c] = <<>> /\ completed[c] = {}
        /\ c \notin delivered
    BY DEF Phases
  <1>4. ~HasOk(c) /\ ~HasFail(c) /\ \A t \in Stages : ~Told(c, t)
    BY <1>3 DEF HasOk, HasFail, Told
  <1>5. \A d \in Callers \ {c} : Untracked(d) => Untracked(d)'
    BY <1>0 DEF CallRejected, Admit, TypeOK, Untracked
  <1>6. Futures'
    BY <1>1, <1>3, <1>5 DEF Futures
  <1>7. CASE CallRejected(c)
    <2>1. UNCHANGED <<requests, stream_queues, completion_futures, terms, method>>
      BY <1>7 DEF CallRejected
    <2>2. pc'[c] = "done"
      BY <1>7 DEF CallRejected, TypeOK
    <2>3. \A r \in Ids : requests[r] # c /\ completion_futures[r] # c /\ stream_queues[r] # c
      BY IdleUnknown
    <2>4. Registered'
      BY <1>1, <2>1, <2>3 DEF Registered
    <2>5. Streams'
      BY <1>1, <2>1, <2>2, <2>3 DEF Streams
    <2>6. Failing'
      <3>1. failing # None => failing.inc \in Callers \ {c}
        BY <1>3, FailingId DEF Failing
      <3> QED BY <1>1, <2>1, <3>1 DEF Failing
    <2>7. Queues'
      <3>1. \A q \in Callers : terms[q] \subseteq Stages /\ (Untracked(q) => Untracked(q)')
        BY <2>1, ConstAssumption DEF TypeOK, Untracked
      <3> QED BY <1>1, <1>2, <2>1, <3>1 DEF Queues
    <2> QED BY <1>6, <2>4, <2>5, <2>6, <2>7
  <1>8. CASE Admit(c)
    <2>1. PICK r \in Ids :
             /\ ~Reserved(r)
             /\ rid' = [rid EXCEPT ![c] = r]
             /\ requests' = [requests EXCEPT ![r] = c]
             /\ completion_futures' = [completion_futures EXCEPT ![r] = c]
             /\ stream_queues' = IF method'[c] = "stream" THEN [stream_queues EXCEPT ![r] = c]
                                                          ELSE stream_queues
      BY <1>8 DEF Admit, TypeOK
    <2>2. pc'[c] = "sending"
      BY <1>8 DEF Admit, TypeOK
    <2>3. \A s \in Ids : requests[s] # c /\ completion_futures[s] # c /\ stream_queues[s] # c
      BY IdleUnknown
    <2>4. rid'[c] = r
      BY <2>1 DEF TypeOK
    <2>5. /\ requests[r] = None /\ completion_futures[r] = None /\ stream_queues[r] = None
      BY <2>1 DEF Reserved
    <2>6. Registered'
      <3>1. ASSUME NEW d \in Callers, NEW s \in Ids, requests'[s] = d
            PROVE  rid'[d] = s /\ state'[d] # "completed"
        BY <1>1, <1>3, <2>1, <2>3, <2>4, <3>1 DEF TypeOK, Registered
      <3>2. ASSUME NEW d \in Callers, NEW s \in Ids, completion_futures'[s] = d
            PROVE  rid'[d] = s /\ pc'[d] # "idle" /\ (fut'[d] # "pending" \/ requests'[s] = d)
        BY <1>1, <1>3, <2>1, <2>3, <2>4, <2>5, <3>2, ConstAssumption DEF TypeOK, Registered
      <3>3. ASSUME NEW d \in Callers, NEW s \in Ids, stream_queues'[s] = d
            PROVE  rid'[d] = s /\ pc'[d] # "idle"
        BY <1>1, <2>1, <2>3, <2>4, <3>3 DEF TypeOK, Registered
      <3> QED BY <3>1, <3>2, <3>3 DEF Registered
    <2>7. Streams'
      <3>1. ASSUME NEW d \in Callers \ {c}
            PROVE  /\ pc'[d] \in {"sending", "reading"} /\ method'[d] = "stream"
                         => stream_queues'[rid'[d]] = d
                   /\ pc'[d] = "reading" => terms'[d] \subseteq expected'[d]
        <4>1. pc[d] # "idle" => rid[d] \in Ids
          BY DEF CallsInOrder
        <4> QED BY <1>1, <2>1, <2>5, <4>1, ConstAssumption DEF TypeOK, Streams
      <3>2. method'[c] = "stream" => stream_queues'[rid'[c]] = c
        BY <2>1, <2>4 DEF TypeOK
      <3> QED BY <2>2, <3>1, <3>2 DEF Streams
    <2>8. Failing'
      <3> SUFFICES ASSUME failing # None PROVE Failing'
        BY <1>1 DEF Failing
      <3>1. failing.inc \in Callers \ {c} /\ rid[failing.inc] \in Ids
        BY <1>3, FailingId DEF Failing, IdOf
      <3>2. ASSUME NEW q \in Callers, stream_queues'[rid[failing.inc]] = q
            PROVE  state[q] # "completed"
        BY <1>3, <2>1, <3>1, <3>2 DEF TypeOK, Failing
      <3> QED BY <1>1, <3>1, <3>2 DEF Failing
    <2>9. Queues'
      <3>1. ASSUME NEW q \in Callers \ {c}
            PROVE  /\ HasFail(q)' => state'[q] # "completed" /\ Untracked(q)'
                   /\ HasOk(q)' /\ state'[q] # "completed" => terms'[q] # {}
                   /\ \A s \in Ids : requests'[s] = q =>
                         \A t \in Stages : Told(q, t)' => t \in partial_results'[s]
                   /\ state'[q] # "completed" /\ terms'[q] # {} => \E t \in terms'[q] : ~Told(q, t)'
        <4>1. \A s \in Ids : requests'[s] = q => requests[s] = q
          BY <2>1 DEF TypeOK
        <4>2. terms[q] \subseteq Stages
          BY ConstAssumption DEF TypeOK
        <4> QED BY <1>1, <1>2, <1>5, <4>1, <4>2 DEF Queues
      <3>2. terms'[c] \subseteq Stages
        BY <1>8, CallerTyped, ConstAssumption DEF TypeOK, CallerStep
      <3>3. \A t \in Stages : ~Told(c, t)'
        BY <1>2, <1>4
      <3>4. ~HasOk(c)' /\ ~HasFail(c)'
        BY <1>2, <1>4
      <3>5. terms'[c] # {} => \E t \in terms'[c] : ~Told(c, t)'
        BY <3>2, <3>3
      <3> QED BY <3>1, <3>3, <3>4, <3>5 DEF Queues
    <2> QED BY <1>6, <2>6, <2>7, <2>8, <2>9
  <1> QED BY <1>0, <1>7, <1>8

\* A step of others keeps what is registered if it settles the future of a
\* request it drops, and completes only what it drops.
LEMMA RegisteredKept ==
    ASSUME Registered, OthersMove,
           \A d \in Callers : state'[d] = "completed" => state[d] = "completed" \/ Untracked(d)',
           \A d \in Callers : fut[d] # "pending" => fut'[d] # "pending",
           \A r \in Ids, d \in Callers :
              completion_futures[r] = d /\ requests'[r] # requests[r] => fut'[d] # "pending"
    PROVE  Registered'
  <1>1. UNCHANGED <<rid, stream_queues, completion_futures>>
    BY DEF OthersMove, args
  <1>2. ASSUME NEW d \in Callers, NEW r \in Ids
        PROVE  /\ requests'[r] = d => rid'[d] = r /\ state'[d] # "completed"
               /\ completion_futures'[r] = d =>
                     rid'[d] = r /\ pc'[d] # "idle" /\ (fut'[d] # "pending" \/ requests'[r] = d)
               /\ stream_queues'[r] = d => rid'[d] = r /\ pc'[d] # "idle"
    <2>1. requests'[r] = d => requests[r] = d
      BY ConstAssumption DEF OthersMove, Drops
    <2>2. pc[d] # "idle" => pc'[d] # "idle"
      BY DEF OthersMove
    <2>3. requests'[r] = d => ~Untracked(d)'
      BY DEF Untracked
    <2> QED BY <1>1, <2>1, <2>2, <2>3 DEF Registered
  <1> QED BY <1>2 DEF Registered

\* A step of others keeps what the futures say if the futures it settles say so.
LEMMA FuturesKept ==
    ASSUME Futures, OthersMove,
           \A d \in Callers :
              /\ state[d] = "completed" => state'[d] = "completed"
              /\ state'[d] = "completed" => state[d] = "completed" \/ ~Untracked(d)
              /\ \/ fut'[d] \in {fut[d], "cancelled"}
                 \/ fut'[d] = "result" /\ state'[d] = "completed"
                 \/ fut'[d] = "error" /\ state'[d] # "completed" /\ Untracked(d)'
    PROVE  Futures'
  <1>1. \A d \in Callers : Untracked(d) => Untracked(d)'
    BY UntrackedStays DEF OthersMove
  <1> QED BY <1>1 DEF Futures

\* Streams are nobody else's business.
LEMMA StreamsKept ==
    ASSUME Streams, OthersMove
    PROVE  Streams'
  BY DEF Streams, OthersMove, args, waits

\* The failure that is broadcast is the same, or over.
LEMMA FailingKept ==
    ASSUME Failing, OthersMove,
           \/ failing' = None
           \/ /\ UNCHANGED <<failing, loop>>
              /\ \A q \in Callers : state'[q] = "completed" => state[q] = "completed"
    PROVE  Failing'
  BY DEF Failing, OthersMove, args, waits

\* What may be put into the queue of stream q.
Fits(q, m) ==
    /\ m.kind = "fail" => state'[q] # "completed" /\ Untracked(q)'
    /\ m.kind = "ok" =>
          \/ state'[q] = "completed" /\ Untracked(q)'
          \/ \E r \in Ids :
                /\ requests[r] = q /\ requests'[r] = q /\ m.stage \in partial_results'[r]
                /\ partial_results'[r] \subseteq terms[q] /\ partial_results'[r] # terms[q]

\* A step of others keeps what the streams have been told if what it puts fits.
LEMMA QueuesKept ==
    ASSUME TypeOK, Registered, Queues, OthersMove,
           \A q \in Callers :
              /\ state[q] = "completed" => state'[q] = "completed"
              /\ state'[q] = "completed" => state[q] = "completed" \/ ~Untracked(q)
              /\ \/ queue'[q] = queue[q]
                 \/ \E m \in Message : queue'[q] = Append(queue[q], m) /\ Fits(q, m),
           \A r \in Ids : requests'[r] # None => partial_results[r] \subseteq partial_results'[r]
    PROVE  Queues'
  <1>1. ASSUME NEW q \in Callers
        PROVE  /\ HasFail(q)' => state'[q] # "completed" /\ Untracked(q)'
               /\ HasOk(q)' /\ state'[q] # "completed" => terms'[q] # {}
               /\ \A r \in Ids : requests'[r] = q =>
                     \A t \in Stages : Told(q, t)' => t \in partial_results'[r]
               /\ state'[q] # "completed" /\ terms'[q] # {} => \E t \in terms'[q] : ~Told(q, t)'
    <2>1. Untracked(q) => Untracked(q)'
      BY UntrackedStays DEF OthersMove
    <2>2. \A r \in Ids : requests'[r] = q => requests[r] = q /\ requests'[r] # None
      BY ConstAssumption DEF OthersMove, Drops
    <2>3. terms' = terms /\ completed' = completed
      BY DEF OthersMove, args, waits
    <2>4. terms[q] \subseteq Stages
      BY ConstAssumption DEF TypeOK
    <2>5. CASE queue'[q] = queue[q]
      <3>1. /\ HasOk(q)' <=> HasOk(q)
            /\ HasFail(q)' <=> HasFail(q)
            /\ \A t \in Stages : Told(q, t)' <=> Told(q, t)
        BY <2>3, <2>5, QueueStays
      <3> QED BY <2>1, <2>2, <2>3, <2>4, <3>1 DEF Queues
    <2>6. ASSUME NEW m \in Message, queue'[q] = Append(queue[q], m), Fits(q, m)
          PROVE  /\ HasFail(q)' => state'[q] # "completed" /\ Untracked(q)'
                 /\ HasOk(q)' /\ state'[q] # "completed" => terms'[q] # {}
                 /\ \A r \in Ids : requests'[r] = q =>
                       \A t \in Stages : Told(q, t)' => t \in partial_results'[r]
                 /\ state'[q] # "completed" /\ terms'[q] # {} => \E t \in terms'[q] : ~Told(q, t)'
      <3>1. /\ HasOk(q)' <=> HasOk(q) \/ m.kind = "ok"
            /\ HasFail(q)' <=> HasFail(q) \/ m.kind = "fail"
            /\ \A t \in Stages : Told(q, t)' <=> Told(q, t) \/ (m.kind = "ok" /\ m.stage = t)
        BY <2>3, <2>6, QueueGrows
      <3>2. CASE m.kind # "ok"
        <4>1. /\ HasOk(q)' <=> HasOk(q)
              /\ \A t \in Stages : Told(q, t)' <=> Told(q, t)
          BY <3>1, <3>2
        <4>2. HasFail(q)' => state'[q] # "completed" /\ Untracked(q)'
          BY <2>1, <2>6, <3>1 DEF Fits, Queues
        <4> QED BY <2>2, <2>3, <2>4, <4>1, <4>2 DEF Queues
      <3>3. CASE m.kind = "ok" /\ state'[q] = "completed" /\ Untracked(q)'
        <4>1. HasFail(q)' => HasFail(q)
          BY <3>1, <3>3
        <4> QED BY <3>3, <4>1 DEF Queues, Untracked
      <3>4. ASSUME m.kind = "ok", NEW r \in Ids,
                   requests[r] = q, requests'[r] = q, m.stage \in partial_results'[r],
                   partial_results'[r] \subseteq terms[q], partial_results'[r] # terms[q]
            PROVE  /\ HasFail(q)' => state'[q] # "completed" /\ Untracked(q)'
                   /\ HasOk(q)' /\ state'[q] # "completed" => terms'[q] # {}
                   /\ \A s \in Ids : requests'[s] = q =>
                         \A t \in Stages : Told(q, t)' => t \in partial_results'[s]
                   /\ state'[q] # "completed" /\ terms'[q] # {} => \E t \in terms'[q] : ~Told(q, t)'
        <4>1. ~HasFail(q)'
          BY <3>1, <3>4 DEF Queues, Untracked
        <4>2. terms[q] # {}
          BY <3>4
        <4>3. \A s \in Ids : requests[s] = q => s = r
          BY <3>4 DEF Registered
        <4>4. \A t \in Stages : Told(q, t)' => t \in partial_results'[r]
          <5>1. \A t \in Stages : Told(q, t) => t \in partial_results[r]
            BY <3>4 DEF Queues
          <5>2. partial_results[r] \subseteq partial_results'[r]
            BY <2>2, <3>4
          <5> QED BY <3>1, <3>4, <5>1, <5>2
        <4>5. \E t \in terms[q] : ~Told(q, t)'
          <5>1. PICK t \in terms[q] : t \notin partial_results'[r]
            BY <3>4
          <5> QED BY <2>4, <4>4, <5>1
        <4>6. ASSUME NEW s \in Ids, requests'[s] = q
              PROVE  \A t \in Stages : Told(q, t)' => t \in partial_results'[s]
          <5>1. s = r
            BY <2>2, <4>3, <4>6
          <5> QED BY <4>4, <5>1
        <4> QED BY <2>3, <4>1, <4>2, <4>5, <4>6
      <3> QED BY <2>6, <3>2, <3>3, <3>4 DEF Fits, Message
    <2> QED BY <2>5, <2>6
  <1> QED BY <1>1 DEF Queues

\* What the coordinator does to a future it settles.
LEMMA RejectedCases ==
    ASSUME TypeOK, OwnersAgree, Registered, NEW r \in Ids, NEW f \in Callers
    PROVE  \/ Rejected(r)[f] = fut[f]
           \/ requests[r] = f /\ Rejected(r)[f] \in {"cancelled", "error"}
  <1>1. CASE completion_futures[r] = f /\ fut[f] = "pending"
    <2>1. requests[r] = f
      BY <1>1 DEF Registered
    <2> QED BY <1>1, <2>1 DEF TypeOK, Rejected
  <1>2. CASE ~(completion_futures[r] = f /\ fut[f] = "pending")
    BY <1>2 DEF TypeOK, Rejected
  <1> QED BY <1>1, <1>2

\* The request of an id is the call whose stream is registered.
LEMMA StreamOfTracked ==
    ASSUME TypeOK, OwnersAgree, NEW r \in Ids, requests[r] # None, NEW q \in Callers,
           stream_queues[r] = q
    PROVE  requests[r] = q
  BY SameOwner

\* A request that is dropped, with a failure put into its queue: an abort task
\* that ends, and a failure after its broadcast.
Releases(r, m) ==
    /\ requests' = [requests EXCEPT ![r] = None]
    /\ fut' = Rejected(r)
    /\ queue' = Put(r, m)
    /\ partial_results' = WithoutPartials(r)
    /\ state' \in {state, [state EXCEPT ![requests[r]] = "aborted"]}

\* Dropping a request keeps what is known of the requests, futures and queues.
LEMMA ReleasesLife ==
    ASSUME IInv, Registered, Futures, Queues, OthersMove, NEW r \in Ids, NEW m \in Message,
           m.kind = "fail", Releases(r, m),
           \A q \in Callers : stream_queues[r] = q => state'[q] # "completed"
    PROVE  Registered' /\ Futures' /\ Queues'
  <1> USE DEF IInv
  <1>1. /\ requests'[r] = None
        /\ \A s \in Ids \ {r} : requests'[s] = requests[s] /\ partial_results'[s] = partial_results[s]
    BY DEF Releases, TypeOK, WithoutPartials
  <1>2. \A d \in Callers : rid[d] = r => Untracked(d)'
    <2>1. \A d \in Callers, s \in Ids : requests'[s] = d => requests[s] = d /\ s # r
      BY <1>1, ConstAssumption
    <2> QED BY <2>1 DEF Registered, Untracked
  <1>3. \A d \in Callers : state[d] = "completed" => Untracked(d)
    BY DEF Registered, Untracked
  <1>4. \A d \in Callers : state'[d] = "completed" <=> state[d] = "completed"
    <2>1. requests[r] \in Callers => state[requests[r]] # "completed"
      BY DEF Registered
    <2> QED BY <2>1 DEF Releases, TypeOK
  <1>5. \A d \in Callers : \/ fut'[d] = fut[d]
                           \/ requests[r] = d /\ fut'[d] \in {"cancelled", "error"}
    BY RejectedCases DEF Releases
  <1>6. Registered'
    <2>1. \A d \in Callers : fut[d] # "pending" => fut'[d] # "pending"
      BY <1>5
    <2>2. ASSUME NEW s \in Ids, NEW d \in Callers, completion_futures[s] = d,
                 requests'[s] # requests[s]
          PROVE  fut'[d] # "pending"
      BY <1>1, <2>2, RejectedFact DEF Releases
    <2> QED BY <1>4, <2>1, <2>2, RegisteredKept
  <1>7. Futures'
    <2>1. ASSUME NEW d \in Callers
          PROVE  \/ fut'[d] \in {fut[d], "cancelled"}
                 \/ fut'[d] = "error" /\ state'[d] # "completed" /\ Untracked(d)'
      <3>1. CASE requests[r] = d /\ fut'[d] \in {"cancelled", "error"}
        <4>1. state[d] # "completed" /\ rid[d] = r
          BY <3>1 DEF Registered
        <4> QED BY <1>2, <1>4, <3>1, <4>1
      <3> QED BY <1>5, <3>1
    <2> QED BY <1>4, <2>1, FuturesKept
  <1>8. Queues'
    <2>1. ASSUME NEW q \in Callers
          PROVE  \/ queue'[q] = queue[q]
                 \/ queue'[q] = Append(queue[q], m) /\ Fits(q, m)
      <3>1. CASE stream_queues[r] = q
        <4>1. queue'[q] = Append(queue[q], m)
          BY <3>1, PutGoes DEF Releases
        <4>2. rid[q] = r
          BY <3>1 DEF Registered
        <4> QED BY <1>2, <3>1, <4>1, <4>2 DEF Fits
      <3>2. CASE stream_queues[r] # q
        BY <3>2, PutGoes DEF Releases
      <3> QED BY <3>1, <3>2
    <2>2. \A s \in Ids : requests'[s] # None => partial_results[s] \subseteq partial_results'[s]
      BY <1>1
    <2> QED BY <1>4, <2>1, <2>2, QueuesKept
  <1> QED BY <1>6, <1>7, <1>8

\* A step of others that touches no request.
LEMMA QuietLife ==
    ASSUME TypeOK, Registered, Futures, Queues, OthersMove, UNCHANGED <<requests, partial_results, fut>>,
           \A q \in Callers :
              /\ state'[q] = "completed" <=> state[q] = "completed"
              /\ \/ queue'[q] = queue[q]
                 \/ \E m \in Message : queue'[q] = Append(queue[q], m) /\ m.kind = "chunk"
    PROVE  Registered' /\ Futures' /\ Queues'
  <1>1. \A q \in Callers, m \in Message : m.kind = "chunk" => Fits(q, m)
    BY DEF Fits
  <1>2. \A q \in Callers : \/ queue'[q] = queue[q]
                           \/ \E m \in Message : queue'[q] = Append(queue[q], m) /\ Fits(q, m)
    BY <1>1
  <1>3. Registered'
    BY RegisteredKept
  <1>4. Futures'
    BY FuturesKept
  <1>5. Queues'
    BY <1>2, QueuesKept
  <1> QED BY <1>3, <1>4, <1>5

\* What a success is: ignored, collected, or the one that completes a request,
\* which has all its results then.
Collects(r, c, m) ==
    /\ requests[r] = c /\ m.stage \in terms[c]
    /\ queue' = Put(r, m)
    /\ partial_results' = [partial_results EXCEPT ![r] = @ \cup {m.stage}]
    /\ partial_results'[r] \subseteq terms[c] /\ partial_results'[r] # terms[c]
    /\ UNCHANGED <<requests, state, fut>>

Completes(r, c, m) ==
    /\ requests[r] = c
    /\ terms[c] \subseteq partial_results[r] \cup {m.stage}
    /\ queue' = Put(r, m)
    /\ state' = [state EXCEPT ![c] = "completed"]
    /\ fut' = Resolved(r)
    /\ requests' = [requests EXCEPT ![r] = None]
    /\ partial_results' \in {partial_results, WithoutPartials(r)}

Ignores == UNCHANGED <<requests, partial_results, state, fut, queue, applied>>

\* HandleSuccess does one of the three; the last result completes a request
\* because terminal stages are finitely many.
LEMMA SuccessEffect ==
    ASSUME IInv, Sent, Phases, NEW t \in Stages, HandleSuccess(t)
    PROVE  \/ Ignores
           \/ \E r \in Ids, c \in Callers, m \in Message :
                 /\ m = Head(inbox[t]) /\ r = IdOf(m) /\ m.kind = "ok" /\ m.stage = t /\ t \in Terminals
                 /\ applied' = [applied EXCEPT ![c] = @ \cup {m.inc}]
                 /\ Collects(r, c, m) \/ Completes(r, c, m)
  <1> USE DEF IInv
  <1> DEFINE m == Head(inbox[t])
             r == IdOf(m)
             c == requests[r]
             goal == ExpectedTerminals(r)
             partials == partial_results[r] \cup {t}
             waiting == Cardinality(goal) > 1 /\ StillWaiting(partials, goal)
  <1>1. Receive(t) /\ m.kind = "ok"
    BY DEF HandleSuccess
  <1>2. m \in Message /\ r \in Ids /\ m.stage = t /\ t \in Terminals
    BY <1>1, HeadSent DEF Receive
  <1>3. CASE c = None \/ (goal # {} /\ t \notin goal)
    BY <1>3 DEF HandleSuccess, Ignores, objects
  <1>4. CASE c # None /\ (goal = {} \/ t \in goal)
    <2>1. /\ applied' = [applied EXCEPT ![c] = @ \cup {m.inc}]
          /\ queue' = Put(r, m)
          /\ \/ /\ waiting
                /\ partial_results' = [partial_results EXCEPT ![r] = partials]
                /\ UNCHANGED <<requests, state, fut>>
             \/ /\ ~waiting
                /\ state' = [state EXCEPT ![c] = "completed"]
                /\ fut' = Resolved(r)
                /\ requests' = [requests EXCEPT ![r] = None]
                /\ partial_results' \in {partial_results, WithoutPartials(r)}
      BY <1>4 DEF HandleSuccess
    <2>2. c \in Callers
      BY <1>2, <1>4 DEF TypeOK
    <2>3. goal = terms[c]
      BY <1>4 DEF ExpectedTerminals
    <2>4. goal \subseteq Terminals /\ IsFiniteSet(goal)
      BY <2>2, <2>3, FS_Subset, ConstAssumption DEF TypeOK
    <2>5. partial_results[r] \subseteq goal
      BY <1>2, <2>3 DEF PartialsBelongToRequest
    <2> HIDE DEF m, r, c, goal
    <2>6. CASE waiting
      <3>1. partials \subseteq goal /\ partials # goal
        BY <2>6 DEF StillWaiting
      <3>2. partial_results' = [partial_results EXCEPT ![r] = @ \cup {m.stage}]
        BY <1>2, <2>1, <2>6
      <3>3. partial_results'[r] = partials
        BY <1>2, <2>1, <2>6 DEF TypeOK
      <3>4. UNCHANGED <<requests, state, fut>> /\ requests[r] = c
        BY <2>1, <2>6 DEF c
      <3>5. Collects(r, c, m)
        BY <1>2, <2>1, <2>3, <3>1, <3>2, <3>3, <3>4 DEF Collects
      <3> QED BY <1>1, <1>2, <2>1, <2>2, <3>5 DEF m, r
    <2>7. CASE ~waiting
      <3>1. goal \subseteq partials
        <4>1. CASE goal = {}
          BY <4>1
        <4>2. CASE t \in goal /\ Cardinality(goal) > 1
          BY <2>5, <2>7, <4>2 DEF StillWaiting
        <4>3. CASE t \in goal /\ ~(Cardinality(goal) > 1)
          <5>1. Cardinality(goal) \in Nat
            BY <2>4, FS_CardinalityType
          <5>2. Cardinality(goal) # 0
            BY <2>4, <4>3, FS_EmptySet
          <5>3. Cardinality(goal) = 1
            BY <4>3, <5>1, <5>2
          <5>4. \E x : goal = {x}
            BY <2>4, <5>3, FS_Singleton
          <5> QED BY <4>3, <5>4
        <4> QED BY <1>4, <4>1, <4>2, <4>3 DEF goal
      <3>2. Completes(r, c, m)
        BY <1>2, <2>1, <2>3, <2>7, <3>1 DEF Completes, c
      <3> QED BY <1>1, <1>2, <2>1, <2>2, <3>2 DEF m, r
    <2> QED BY <2>6, <2>7
  <1> QED BY <1>3, <1>4

\* A success keeps what is known of the requests.
LEMMA SuccessLife ==
    ASSUME IInv, Registered, Futures, Queues, OthersMove, NEW r \in Ids, NEW c \in Callers,
           NEW m \in Message, m.kind = "ok", Collects(r, c, m) \/ Completes(r, c, m)
    PROVE  Registered' /\ Futures' /\ Queues'
  <1> USE DEF IInv
  <1>1. requests[r] = c /\ rid[c] = r /\ state[c] # "completed" /\ ~Untracked(c)
    BY DEF Collects, Completes, Registered, Untracked
  <1>2. \A q \in Callers : stream_queues[r] = q => q = c
    BY <1>1, StreamOfTracked, ConstAssumption
  <1>3. \A q \in Callers : queue'[q] = IF stream_queues[r] = q THEN Append(queue[q], m) ELSE queue[q]
    BY PutGoes DEF Collects, Completes
  <1>4. CASE Collects(r, c, m)
    <2>1. UNCHANGED <<requests, state, fut>>
      BY <1>4 DEF Collects
    <2>2. Fits(c, m)
      <3>1. /\ partial_results'[r] \subseteq terms[c] /\ partial_results'[r] # terms[c]
            /\ m.stage \in partial_results'[r]
        BY <1>4 DEF Collects, TypeOK
      <3> QED BY <1>1, <2>1, <3>1 DEF Fits
    <2>3. \A q \in Callers : \/ queue'[q] = queue[q]
                             \/ queue'[q] = Append(queue[q], m) /\ Fits(q, m)
      BY <1>2, <1>3, <2>2
    <2>4. \A s \in Ids : partial_results[s] \subseteq partial_results'[s]
      BY <1>4 DEF Collects, TypeOK
    <2>5. Registered'
      BY <2>1, RegisteredKept
    <2>6. Futures'
      BY <2>1, FuturesKept
    <2>7. Queues'
      BY <2>1, <2>3, <2>4, QueuesKept
    <2> QED BY <2>5, <2>6, <2>7
  <1>5. CASE Completes(r, c, m)
    <2>1. /\ requests'[r] = None /\ state'[c] = "completed"
          /\ \A s \in Ids \ {r} : requests'[s] = requests[s] /\ partial_results'[s] = partial_results[s]
          /\ \A d \in Callers \ {c} : state'[d] = state[d]
      BY <1>5 DEF Completes, TypeOK, WithoutPartials
    <2>2. Untracked(c)'
      <3>1. \A s \in Ids : requests'[s] = c => requests[s] = c /\ s # r
        BY <2>1, ConstAssumption
      <3> QED BY <1>1, <3>1 DEF Registered, Untracked
    <2>3. \A d \in Callers : fut'[d] = fut[d] \/ (d = c /\ fut'[d] = "result")
      <3>1. \A d \in Callers : completion_futures[r] = d => d = c
        BY <1>1, SameOwner, ConstAssumption
      <3> QED BY <1>5, <3>1 DEF Completes, Resolved, TypeOK
    <2>4. Registered'
      <3>1. ASSUME NEW s \in Ids, NEW d \in Callers, completion_futures[s] = d,
                   requests'[s] # requests[s]
            PROVE  fut'[d] # "pending"
        BY <1>5, <2>1, <3>1, ResolvedFact DEF Completes
      <3>2. \A d \in Callers : state'[d] = "completed" => state[d] = "completed" \/ Untracked(d)'
        BY <2>1, <2>2
      <3>3. \A d \in Callers : fut[d] # "pending" => fut'[d] # "pending"
        BY <2>3
      <3> QED BY <3>1, <3>2, <3>3, RegisteredKept
    <2>5. \A d \in Callers :
              /\ state[d] = "completed" => state'[d] = "completed"
              /\ state'[d] = "completed" => state[d] = "completed" \/ ~Untracked(d)
      BY <1>1, <2>1
    <2>6. Futures'
      BY <2>1, <2>3, <2>5, FuturesKept
    <2>7. Queues'
      <3>1. Fits(c, m)
        BY <2>1, <2>2 DEF Fits
      <3>2. \A q \in Callers : \/ queue'[q] = queue[q]
                               \/ queue'[q] = Append(queue[q], m) /\ Fits(q, m)
        BY <1>2, <1>3, <3>1
      <3>3. \A s \in Ids : requests'[s] # None => partial_results[s] \subseteq partial_results'[s]
        BY <2>1
      <3> QED BY <2>5, <3>2, <3>3, QueuesKept
    <2> QED BY <2>4, <2>6, <2>7
  <1> QED BY <1>4, <1>5

\* A step of others keeps all of it.
LEMMA OtherLife ==
    ASSUME IInv, Life,
           \/ \E r \in Ids : AbortStep(r)
           \/ LoopStep
           \/ FailPendingRequests
           \/ Stop
           \/ \E c \in Callers, t \in Stages : StageStep(c, t)
    PROVE  Phases' /\ Registered' /\ Streams' /\ Futures' /\ Failing' /\ Queues'
  <1> USE DEF IInv, Life, tables, objects, network, service, call
  <1>1. OthersMove
    BY OtherEffect
  <1>2. Phases'
    BY <1>1, PhasesKept DEF OthersMove, args, waits
  <1>3. Streams'
    BY <1>1, StreamsKept
  <1>a. ASSUME Registered' /\ Futures' /\ Queues', Failing'
        PROVE  Phases' /\ Registered' /\ Streams' /\ Futures' /\ Failing' /\ Queues'
    BY <1>2, <1>3, <1>a
  <1>b. ASSUME UNCHANGED <<requests, partial_results, state, fut, queue>>,
               failing' = None \/ UNCHANGED <<failing, loop>>
        PROVE  Phases' /\ Registered' /\ Streams' /\ Futures' /\ Failing' /\ Queues'
    <2>1. Registered' /\ Futures' /\ Queues'
      BY <1>1, <1>b, QuietLife
    <2>2. Failing'
      BY <1>1, <1>b, FailingKept
    <2> QED BY <1>a, <2>1, <2>2
  <1>4. ASSUME NEW r \in Ids, AbortStep(r)
        PROVE  Phases' /\ Registered' /\ Streams' /\ Futures' /\ Failing' /\ Queues'
    <2>1. CASE Abort(r) \/ AbortTaskFails(r) \/ (AbortTaskEnds(r) /\ requests[r] = None)
      BY <1>b, <2>1 DEF Abort, AbortTaskFails, AbortTaskEnds
    <2>2. CASE AbortTaskEnds(r) /\ requests[r] # None
      <3>1. PICK c \in Callers : requests[r] = c
        BY <2>2 DEF TypeOK
      <3>2. state' = [state EXCEPT ![c] = "aborted"] /\ UNCHANGED <<failing, loop>>
        BY <2>2, <3>1 DEF AbortTaskEnds
      <3>3. Releases(r, GivenUp(c)) /\ GivenUp(c) \in Message /\ GivenUp(c).kind = "fail"
        BY <2>2, <3>1, GivenUpFact DEF AbortTaskEnds, Releases, GivenUp
      <3>4. \A q \in Callers : stream_queues[r] = q => state'[q] # "completed"
        BY <2>2, <3>1, <3>2, StreamOfTracked DEF TypeOK
      <3>5. Registered' /\ Futures' /\ Queues'
        BY <1>1, <3>3, <3>4, ReleasesLife
      <3>6. Failing'
        <4>1. \A q \in Callers : state'[q] = "completed" => state[q] = "completed"
          BY <3>2 DEF TypeOK
        <4> QED BY <1>1, <3>2, <4>1, FailingKept
      <3> QED BY <1>a, <3>5, <3>6
    <2> QED BY <1>4, <2>1, <2>2 DEF AbortStep
  <1>5. ASSUME NEW t \in Stages, Receive(t), UNCHANGED failing
        PROVE  Failing'
    <2>1. failing' = None
      BY <1>5 DEF Receive, Failing
    <2> QED BY <1>1, <2>1, FailingKept
  <1>6. ASSUME NEW t \in Stages, HandleStream(t)
        PROVE  Phases' /\ Registered' /\ Streams' /\ Futures' /\ Failing' /\ Queues'
    <2>1. /\ Head(inbox[t]) \in Message /\ IdOf(Head(inbox[t])) \in Ids
          /\ Head(inbox[t]).kind = "chunk"
      BY <1>6, HeadSent DEF HandleStream, Receive
    <2>2. \A q \in Callers : \/ queue'[q] = queue[q]
                             \/ queue'[q] = Append(queue[q], Head(inbox[t]))
      <3>1. PICK r \in Ids, m \in Message : m = Head(inbox[t]) /\ queue' = Put(r, m)
        BY <1>6, <2>1 DEF HandleStream
      <3>2. \A q \in Callers :
                Put(r, m)[q] = IF stream_queues[r] = q THEN Append(queue[q], m) ELSE queue[q]
        BY PutGoes
      <3> QED BY <3>1, <3>2
    <2>3. \A q \in Callers :
              \/ queue'[q] = queue[q]
              \/ \E m \in Message : queue'[q] = Append(queue[q], m) /\ m.kind = "chunk"
      BY <2>1, <2>2
    <2>4. UNCHANGED <<requests, partial_results, fut, state, failing>> /\ Receive(t)
      BY <1>6 DEF HandleStream
    <2>5. Registered' /\ Futures' /\ Queues'
      BY <1>1, <2>3, <2>4, QuietLife
    <2> QED BY <1>5, <1>a, <2>4, <2>5
  <1>7. ASSUME NEW t \in Stages, HandleSuccess(t)
        PROVE  Phases' /\ Registered' /\ Streams' /\ Futures' /\ Failing' /\ Queues'
    <2>1. Failing'
      BY <1>5, <1>7 DEF HandleSuccess
    <2>2. CASE Ignores
      <3>1. Registered' /\ Futures' /\ Queues'
        BY <1>1, <2>2, QuietLife DEF Ignores
      <3> QED BY <1>a, <2>1, <3>1
    <2>3. CASE \E r \in Ids, c \in Callers, m \in Message :
                  m.kind = "ok" /\ (Collects(r, c, m) \/ Completes(r, c, m))
      BY <1>1, <1>a, <2>1, <2>3, SuccessLife
    <2> QED BY <1>7, <2>2, <2>3, SuccessEffect
  <1>8. ASSUME NEW t \in Stages, HandleFailure(t)
        PROVE  Phases' /\ Registered' /\ Streams' /\ Futures' /\ Failing' /\ Queues'
    <2>1. /\ Head(inbox[t]) \in Message /\ IdOf(Head(inbox[t])) \in Ids
          /\ Head(inbox[t]).inc \in delivered
      BY <1>8, HeadSent DEF HandleFailure, Receive
    <2>2. Receive(t) /\ UNCHANGED <<requests, partial_results, fut, queue>>
      BY <1>8 DEF HandleFailure
    <2>3. CASE requests[IdOf(Head(inbox[t]))] = None
      <3>1. UNCHANGED <<failing, state>>
        BY <1>8, <2>3 DEF HandleFailure
      <3>2. Registered' /\ Futures' /\ Queues'
        BY <1>1, <2>2, <3>1, QuietLife
      <3> QED BY <1>5, <1>a, <2>2, <3>1, <3>2
    <2>4. ASSUME NEW c \in Callers, requests[IdOf(Head(inbox[t]))] = c
          PROVE  Phases' /\ Registered' /\ Streams' /\ Futures' /\ Failing' /\ Queues'
      <3>1. /\ state' = [state EXCEPT ![c] = "failed"] /\ failing' = Head(inbox[t])
            /\ loop' = "broadcast" /\ failing'.kind = "fail"
        BY <1>8, <2>4, ConstAssumption DEF HandleFailure
      <3>2. state[c] # "completed"
        BY <2>1, <2>4 DEF Registered
      <3>3. \A q \in Callers : state'[q] = "completed" <=> state[q] = "completed"
        BY <3>1, <3>2 DEF TypeOK
      <3>4. Registered' /\ Futures' /\ Queues'
        BY <1>1, <2>2, <3>3, QuietLife
      <3>5. Failing'
        <4>1. /\ UNCHANGED <<rid, stream_queues, delivered>>
          BY <1>1 DEF OthersMove, args, waits
        <4>2. ASSUME NEW q \in Callers, stream_queues[IdOf(Head(inbox[t]))] = q
              PROVE  state'[q] # "completed"
          BY <2>1, <2>4, <3>2, <3>3, <4>2, StreamOfTracked, ConstAssumption
        <4> QED BY <2>1, <3>1, <4>1, <4>2 DEF Failing, IdOf
      <3> QED BY <1>a, <3>4, <3>5
    <2> QED BY <2>1, <2>3, <2>4 DEF TypeOK
  <1>9. CASE FinishFailure
    <2>1. failing # None /\ failing' = None /\ state' = state
      BY <1>9 DEF FinishFailure
    <2>2. failing \in Message /\ IdOf(failing) \in Ids
      BY <2>1, FailingId
    <2>3. failing.kind = "fail" /\ \A q \in Callers : stream_queues[IdOf(failing)] = q => state'[q] # "completed"
      BY <2>1 DEF Failing, IdOf
    <2>4. Releases(IdOf(failing), failing)
      BY <1>9 DEF FinishFailure, Releases, WithoutRequest
    <2>5. Registered' /\ Futures' /\ Queues'
      BY <1>1, <2>2, <2>3, <2>4, ReleasesLife
    <2>6. Failing'
      BY <1>1, <2>1, FailingKept
    <2> QED BY <1>a, <2>5, <2>6
  <1>10. CASE LoopDies \/ Stop
    BY <1>b, <1>10 DEF LoopDies, Stop
  <1>11. ASSUME NEW c \in Callers, NEW t \in Stages, StageStep(c, t)
         PROVE  Phases' /\ Registered' /\ Streams' /\ Futures' /\ Failing' /\ Queues'
    BY <1>b, <1>11 DEF StageStep, StageStreams, StageCompletes, StageFails, StageSends
  <1>12. CASE FailPendingRequests
    <2>1. /\ \A r \in Ids : requests'[r] = None
          /\ \A d \in Callers : state'[d] = IF Untracked(d) THEN state[d] ELSE "failed"
          /\ UNCHANGED <<failing, loop>>
      BY <1>12 DEF FailPendingRequests, Untracked
    <2>2. \A d \in Callers : Untracked(d)'
      BY <2>1, ConstAssumption DEF Untracked
    <2>3. \A d \in Callers : state'[d] = "completed" <=> state[d] = "completed"
      BY <2>1 DEF Registered, Untracked
    <2>4. \A f \in Callers :
              fut'[f] = IF fut[f] = "pending" /\ \E r \in Tracked : completion_futures[r] = f
                        THEN IF \E r \in Tracked : stream_queues[r] = f THEN "cancelled" ELSE "error"
                        ELSE fut[f]
      BY <1>12 DEF FailPendingRequests
    <2>5. Registered'
      <3>1. ASSUME NEW r \in Ids, NEW d \in Callers, completion_futures[r] = d,
                   requests'[r] # requests[r]
            PROVE  fut'[d] # "pending"
        BY <2>1, <2>4, <3>1 DEF Tracked
      <3>2. \A d \in Callers : fut[d] # "pending" => fut'[d] # "pending"
        BY <2>4
      <3> QED BY <1>1, <2>3, <3>1, <3>2, RegisteredKept
    <2>6. Futures'
      <3>1. ASSUME NEW f \in Callers
            PROVE  \/ fut'[f] \in {fut[f], "cancelled"}
                   \/ fut'[f] = "error" /\ state'[f] # "completed" /\ Untracked(f)'
        <4>1. CASE fut[f] = "pending" /\ \E r \in Tracked : completion_futures[r] = f
          <5>1. PICK r \in Tracked : completion_futures[r] = f
            BY <4>1
          <5>2. requests[r] = f
            BY <4>1, <5>1 DEF Tracked, Registered
          <5>3. state[f] # "completed"
            BY <5>1, <5>2 DEF Tracked, Registered
          <5> QED BY <2>2, <2>3, <2>4, <5>3
        <4>2. CASE ~(fut[f] = "pending" /\ \E r \in Tracked : completion_futures[r] = f)
          BY <2>4, <4>2
        <4> QED BY <4>1, <4>2
      <3> QED BY <1>1, <2>3, <3>1, FuturesKept
    <2>7. Queues'
      <3>1. ASSUME NEW q \in Callers
            PROVE  \/ queue'[q] = queue[q]
                   \/ queue'[q] = Append(queue[q], GivenUp(q)) /\ Fits(q, GivenUp(q))
        <4>1. CASE \E r \in Tracked : stream_queues[r] = q
          <5>1. PICK r \in Tracked : stream_queues[r] = q
            BY <4>1
          <5>2. requests[r] = q
            BY <5>1, StreamOfTracked DEF Tracked
          <5>3. state[q] # "completed"
            BY <5>1, <5>2 DEF Tracked, Registered
          <5>4. queue'[q] = Append(queue[q], GivenUp(q))
            BY <1>12, <4>1 DEF FailPendingRequests
          <5>5. GivenUp(q).kind = "fail"
            BY DEF GivenUp
          <5> QED BY <2>2, <2>3, <5>3, <5>4, <5>5 DEF Fits
        <4>2. CASE ~ \E r \in Tracked : stream_queues[r] = q
          BY <1>12, <4>2 DEF FailPendingRequests
        <4> QED BY <4>1, <4>2
      <3>2. \A q \in Callers : GivenUp(q) \in Message
        BY GivenUpFact
      <3>3. \A q \in Callers : \/ queue'[q] = queue[q]
                               \/ \E m \in Message : queue'[q] = Append(queue[q], m) /\ Fits(q, m)
        BY <3>1, <3>2
      <3>4. \A r \in Ids : requests'[r] # None => partial_results[r] \subseteq partial_results'[r]
        BY <2>1
      <3> QED BY <1>1, <2>3, <3>3, <3>4, QueuesKept
    <2>8. Failing'
      BY <1>1, <2>1, <2>3, FailingKept
    <2> QED BY <1>a, <2>5, <2>6, <2>7, <2>8
  <1> QED
    BY <1>4, <1>6, <1>7, <1>8, <1>9, <1>10, <1>11, <1>12 DEF LoopStep

\* Every step keeps Life.
LEMMA LifeStep ==
    ASSUME IInv, Life, [Next]_vars
    PROVE  Life'
  <1> USE DEF IInv, Life
  <1>1. CASE UNCHANGED vars
    BY <1>1 DEF vars, tables, objects, network, service, args, waits, call, Sent, SentTo, Phases,
       Registered, Streams, Futures, Failing, Queues, Untracked, HasOk, HasFail, Told
  <1>2. CASE Next
    <2>1. Sent'
      BY <1>2, SentStep
    <2>2. ASSUME NEW c \in Callers, CallerStep(c)
          PROVE  Life'
      <3>1. Phases'
        BY <2>2, CallerPhases
      <3>2. Registered' /\ Streams' /\ Futures' /\ Failing' /\ Queues'
        BY <2>2, MovesLife, BeginsLife
      <3> QED BY <2>1, <3>1, <3>2
    <2>3. CASE \/ \E r \in Ids : AbortStep(r)
               \/ LoopStep
               \/ FailPendingRequests
               \/ Stop
               \/ \E c \in Callers, t \in Stages : StageStep(c, t)
      BY <2>1, <2>3, OtherLife
    <2> QED BY <1>2, <2>2, <2>3 DEF Next
  <1> QED BY <1>1, <1>2

\* IInv and Life are inductive together.
THEOREM LifeInductive == Spec => [](IInv /\ Life)
  <1>1. IInv /\ Life /\ [Next]_vars => Life'
    BY LifeStep
  <1> QED BY <1>1, InitLife, Inductive, PTL DEF Spec

-----------------------------------------------------------------------------
\* The coordinator implements RequestLifecycle.

\* What became of a call.
LEMMA VerdictOf ==
    ASSUME NEW c \in Callers
    PROVE  Verdict[c] = IF ~Untracked(c) THEN "open"
                        ELSE IF pc[c] = "idle" \/ outcome[c] = "rejected" THEN "none"
                        ELSE IF state[c] = "completed" THEN "completed" ELSE "dropped"
  BY DEF Verdict, Untracked

\* Verdict is a function on the calls, before and after a step.
LEMMA VerdictFcn ==
    /\ Verdict = [c \in Callers |-> Verdict[c]]
    /\ Verdict' = [c \in Callers |-> Verdict'[c]]
  BY DEF Verdict

\* The verdicts on two states agree if the calls do.
LEMMA VerdictStays ==
    ASSUME \A c \in Callers :
              /\ Untracked(c)' <=> Untracked(c)
              /\ pc'[c] = "idle" \/ outcome'[c] = "rejected" <=> pc[c] = "idle" \/ outcome[c] = "rejected"
              /\ Untracked(c) /\ pc[c] # "idle" => (state'[c] = "completed" <=> state[c] = "completed")
    PROVE  Verdict' = Verdict
  BY DEF Verdict, Untracked

\* The first states.
LEMMA InitRefines == Init => Lifecycle!Init
  BY ConstAssumption DEF Init, Lifecycle!Init, Verdict

\* A call that has begun and is not over has a verdict and no outcome.
LEMMA BegunOpen ==
    ASSUME IInv, Life, NEW c \in Callers, pc[c] \in {"sending", "await", "reading"}
    PROVE  /\ Verdict[c] # "none" /\ outcome[c] = "none"
           /\ c \in delivered <=> pc[c] # "sending"
  <1>1. outcome[c] = "none" /\ (c \in delivered <=> pc[c] # "sending")
    BY DEF Life, Phases
  <1> QED BY <1>1, VerdictOf

\* A step that ends call c with `how`.
LEMMA EndRefines ==
    ASSUME IInv, Life, NEW c \in Callers, pc[c] \in {"sending", "await", "reading"},
           NEW how \in {"result", "error", "cancelled", "closed"},
           Moves(c), UNCHANGED <<delivered, state>>, outcome' = [outcome EXCEPT ![c] = how],
           \/ how = "result" /\ pc[c] # "sending" /\ Untracked(c) /\ state[c] = "completed"
           \/ how = "error" /\ (pc[c] = "sending" \/ (Untracked(c) /\ state[c] # "completed"))
           \/ how \in {"cancelled", "closed"} /\ pc[c] # "sending"
    PROVE  Lifecycle!End(c, how)
  <1>1. /\ Verdict[c] # "none" /\ outcome[c] = "none"
        /\ c \in delivered <=> pc[c] # "sending"
    BY BegunOpen
  <1>2. requests' = requests
    BY DEF Moves
  <1>3. Verdict' = Verdict
    <2>1. \A d \in Callers : Untracked(d)' <=> Untracked(d)
      BY <1>2 DEF Untracked
    <2>2. \A d \in Callers : pc'[d] = "idle" \/ outcome'[d] = "rejected" <=> pc[d] = "idle" \/ outcome[d] = "rejected"
      BY <1>1 DEF IInv, TypeOK, Moves
    <2> QED BY <2>1, <2>2, VerdictStays
  <1>4. Lifecycle!MayEnd(c, how)
    BY <1>1, VerdictOf DEF Lifecycle!MayEnd
  <1> QED BY <1>1, <1>2, <1>3, <1>4 DEF Lifecycle!End

\* A step of a call that has begun.
LEMMA MovesRefine ==
    ASSUME IInv, Life, NEW c \in Callers, CallerStep(c), pc[c] # "idle"
    PROVE  Lifecycle!Next \/ UNCHANGED Lifecycle!vars
  <1> USE DEF IInv, Life
  <1> USE DEF tables, objects, network, service, args, waits, call
  <1>1. Moves(c) /\ rid[c] \in Ids
    BY CallerMoves DEF CallsInOrder
  <1>2. \A d \in Callers : Untracked(d)' <=> Untracked(d)
    BY <1>1 DEF Moves, Untracked
  <1>3. ASSUME UNCHANGED <<outcome, state>>
        PROVE  Verdict' = Verdict
    <2>1. \A d \in Callers : pc'[d] = "idle" <=> pc[d] = "idle"
      BY <1>1 DEF Moves
    <2> QED BY <1>2, <1>3, <2>1, VerdictStays
  <1>4. CASE SubmitSent(c)
    <2>1. /\ pc[c] = "sending" /\ delivered' = delivered \cup {c} /\ UNCHANGED <<outcome, requests>>
      BY <1>4 DEF SubmitSent
    <2>2. Verdict' = Verdict
      <3>1. \A d \in Callers : pc'[d] = "idle" <=> pc[d] = "idle"
        BY <1>1 DEF Moves
      <3>2. \A d \in Callers : Untracked(d) => state'[d] = state[d]
        BY <1>1 DEF Moves
      <3> QED BY <1>2, <2>1, <3>1, <3>2, VerdictStays
    <2>3. Verdict[c] # "none" /\ outcome[c] = "none" /\ c \notin delivered
      BY <2>1, BegunOpen
    <2>4. Lifecycle!Deliver(c)
      BY <2>1, <2>2, <2>3 DEF Lifecycle!Deliver
    <2> QED BY <2>4 DEF Lifecycle!Next
  <1>5. ASSUME NEW how \in {"result", "error", "cancelled", "closed"}, Lifecycle!End(c, how)
        PROVE  Lifecycle!Next
    BY <1>5 DEF Lifecycle!Next
  <1>6. CASE SubmitReturns(c)
    <2>1. /\ pc[c] = "await" /\ fut[awaited[c]] # "pending" /\ UNCHANGED <<delivered, state>>
          /\ outcome' = [outcome EXCEPT ![c] = fut[awaited[c]]]
      BY <1>6 DEF SubmitReturns
    <2>2. awaited[c] = c /\ fut[c] \in {"result", "error", "cancelled"}
      <3>1. awaited[c] = c
        BY <2>1 DEF CallsInOrder
      <3>2. fut[c] \in FutureState
        BY DEF TypeOK
      <3> QED BY <2>1, <3>1, <3>2 DEF FutureState
    <2>3. /\ fut[c] = "result" => Untracked(c) /\ state[c] = "completed"
          /\ fut[c] = "error" => Untracked(c) /\ state[c] # "completed"
      BY DEF Futures, Registered, Untracked
    <2>4. Lifecycle!End(c, fut[c])
      BY <1>1, <2>1, <2>2, <2>3, EndRefines
    <2> QED BY <1>5, <2>2, <2>4
  <1>7. CASE CancelSubmit(c)
    <2>1. Lifecycle!End(c, "cancelled")
      BY <1>1, <1>7, EndRefines DEF CancelSubmit
    <2> QED BY <1>5, <2>1
  <1>8. CASE CloseStream(c)
    <2>1. /\ outcome' = [outcome EXCEPT ![c] = "closed"] /\ UNCHANGED <<delivered, state>>
          /\ pc[c] = "reading"
      BY <1>8 DEF CloseStream, LeaveStream
    <2>2. Lifecycle!End(c, "closed")
      BY <1>1, <2>1, EndRefines
    <2> QED BY <1>5, <2>2
  <1>9. CASE SendFails(c)
    <2>1. /\ outcome' = [outcome EXCEPT ![c] = "error"] /\ UNCHANGED <<delivered, state>>
          /\ pc[c] = "sending"
      BY <1>9 DEF SendFails, LeaveStream
    <2>2. Lifecycle!End(c, "error")
      BY <1>1, <2>1, EndRefines
    <2> QED BY <1>5, <2>2
  <1>10. CASE LeaveAbort(c)
    <2>1. UNCHANGED <<outcome, state, requests, delivered>>
      BY <1>10 DEF LeaveAbort
    <2> QED BY <1>3, <2>1 DEF Lifecycle!vars
  <1>11. CASE ReadEvent(c)
    <2>1. /\ pc[c] = "reading" /\ queue[c] # <<>> /\ UNCHANGED <<state, requests, delivered>>
      BY <1>11 DEF ReadEvent
    <2>2. CASE StayInStream
      <3>1. UNCHANGED outcome
        BY <2>2 DEF StayInStream
      <3> QED BY <1>3, <2>1, <3>1 DEF Lifecycle!vars
    <2>3. Head(queue[c]).kind = "fail" => HasFail(c)
      <3>1. Head(queue[c]) = queue[c][1] /\ 1 \in 1..Len(queue[c])
        BY <2>1 DEF TypeOK
      <3> QED BY <3>1 DEF HasFail
    <2>4. CASE LeaveStream(c, "error") /\ Head(queue[c]).kind = "fail"
      <3>1. Untracked(c) /\ state[c] # "completed"
        BY <2>3, <2>4 DEF Queues
      <3>2. outcome' = [outcome EXCEPT ![c] = "error"]
        BY <2>4 DEF LeaveStream
      <3>3. Lifecycle!End(c, "error")
        BY <1>1, <2>1, <3>1, <3>2, EndRefines
      <3> QED BY <1>5, <3>3
    <2>5. CASE /\ Head(queue[c]).kind = "ok" /\ LeaveStream(c, "result")
               /\ expected[c] \subseteq completed[c] \cup ({Head(queue[c]).stage} \ {None})
      <3>1. Head(queue[c]) = queue[c][1] /\ 1 \in 1..Len(queue[c])
        BY <2>1 DEF TypeOK
      <3>2. HasOk(c) /\ \A t \in expected[c] : Told(c, t)
        BY <2>5, <3>1 DEF HasOk, Told
      <3>3. \A t \in terms[c] : Told(c, t)
        BY <2>1, <3>2 DEF Streams
      <3>4. state[c] = "completed"
        BY <3>2, <3>3 DEF Queues
      <3>5. Untracked(c)
        BY <3>4 DEF Registered, Untracked
      <3>6. outcome' = [outcome EXCEPT ![c] = "result"]
        BY <2>5 DEF LeaveStream
      <3>7. Lifecycle!End(c, "result")
        BY <1>1, <2>1, <3>4, <3>5, <3>6, EndRefines
      <3> QED BY <1>5, <3>7
    <2> QED BY <1>11, <2>2, <2>4, <2>5 DEF ReadEvent
  <1> QED
    BY <1>4, <1>6, <1>7, <1>8, <1>9, <1>10, <1>11 DEF CallerStep, CallRejected, Admit

\* A call that begins.
LEMMA BeginsRefine ==
    ASSUME IInv, Life, NEW c \in Callers, CallRejected(c) \/ Admit(c)
    PROVE  Lifecycle!Next
  <1> USE DEF IInv, Life
  <1> USE DEF tables, objects, network, service, args, waits, call
  <1>1. pc[c] = "idle" /\ outcome[c] = "none" /\ Untracked(c)
    BY DEF CallRejected, Admit, Phases, CallsInOrder, Untracked
  <1>2. Verdict[c] = "none"
    BY <1>1, VerdictOf
  <1>3. CASE CallRejected(c)
    <2>1. /\ outcome' = [outcome EXCEPT ![c] = "rejected"] /\ UNCHANGED <<requests, delivered, state>>
          /\ \A d \in Callers \ {c} : pc'[d] = pc[d]
      BY <1>3 DEF CallRejected, TypeOK
    <2>2. Verdict' = Verdict
      <3>1. \A d \in Callers : Untracked(d)' <=> Untracked(d)
        BY <2>1 DEF Untracked
      <3>2. \A d \in Callers :
              pc'[d] = "idle" \/ outcome'[d] = "rejected" <=> pc[d] = "idle" \/ outcome[d] = "rejected"
        BY <1>1, <2>1 DEF TypeOK
      <3> QED BY <2>1, <3>1, <3>2, VerdictStays
    <2>3. Lifecycle!Reject(c)
      BY <1>1, <1>2, <2>1, <2>2 DEF Lifecycle!Reject
    <2> QED BY <2>3 DEF Lifecycle!Next
  <1>4. CASE Admit(c)
    <2>1. PICK r \in Ids : requests[r] = None /\ requests' = [requests EXCEPT ![r] = c]
      BY <1>4 DEF Admit, Reserved
    <2>2. UNCHANGED <<outcome, delivered, state>> /\ \A d \in Callers \ {c} : pc'[d] = pc[d]
      BY <1>4 DEF Admit, TypeOK
    <2>3. ~Untracked(c)' /\ \A d \in Callers \ {c} : Untracked(d)' <=> Untracked(d)
      BY <2>1, ConstAssumption DEF Untracked, TypeOK
    <2>4. Verdict'[c] = "open" /\ \A d \in Callers \ {c} : Verdict'[d] = Verdict[d]
      BY <2>2, <2>3 DEF Verdict, Untracked
    <2>5. Verdict' = [Verdict EXCEPT ![c] = "open"]
      BY <2>4, VerdictFcn
    <2>6. Lifecycle!Admit(c, r)
      BY <1>1, <1>2, <2>1, <2>2, <2>5 DEF Lifecycle!Admit
    <2> QED BY <2>6 DEF Lifecycle!Next
  <1> QED BY <1>3, <1>4

\* A request that is completed or dropped, alone.
LEMMA ReleaseRefines ==
    ASSUME IInv, Life, OthersMove, NEW r \in Ids, NEW c \in Callers, requests[r] = c,
           requests' = [requests EXCEPT ![r] = None],
           \A d \in Callers \ {c} : state'[d] = state[d]
    PROVE  Lifecycle!Complete(r) \/ Lifecycle!Drop({r})
  <1> USE DEF IInv, Life
  <1>1. UNCHANGED <<outcome, delivered>> /\ \A d \in Callers : pc'[d] = "idle" <=> pc[d] = "idle"
    BY DEF OthersMove, waits
  <1>2. c # None
    BY ConstAssumption
  <1>3. requests'[r] = None /\ \A s \in Ids \ {r} : requests'[s] = requests[s]
    BY DEF TypeOK
  <1>4. rid[c] = r /\ pc[c] # "idle" /\ outcome[c] # "rejected"
    BY DEF Registered, CallsInOrder, Phases, Untracked
  <1>5. Untracked(c)' /\ \A d \in Callers \ {c} : Untracked(d)' <=> Untracked(d)
    <2>1. \A s \in Ids : requests[s] = c => s = r
      BY <1>4 DEF Registered
    <2> QED BY <1>2, <1>3, <2>1, ConstAssumption DEF Untracked
  <1>6. /\ Verdict'[c] \in {"completed", "dropped"}
        /\ \A d \in Callers \ {c} : Verdict'[d] = Verdict[d]
    BY <1>1, <1>4, <1>5 DEF Verdict, Untracked
  <1>7. CASE Verdict'[c] = "completed"
    <2>1. Verdict' = [Verdict EXCEPT ![requests[r]] = "completed"]
      BY <1>6, <1>7, VerdictFcn
    <2> QED BY <1>1, <1>2, <2>1 DEF Lifecycle!Complete
  <1>8. CASE Verdict'[c] = "dropped"
    <2>1. Verdict' = [d \in Callers |-> IF \E s \in {r} : requests[s] = d THEN "dropped" ELSE Verdict[d]]
      BY <1>6, <1>8, VerdictFcn
    <2>2. requests' = [s \in Ids |-> IF s \in {r} THEN None ELSE requests[s]]
      BY DEF TypeOK
    <2> QED BY <1>1, <1>2, <2>1, <2>2 DEF Lifecycle!Drop
  <1> QED BY <1>6, <1>7, <1>8

\* A step of others.
LEMMA OtherRefines ==
    ASSUME IInv, Life,
           \/ \E r \in Ids : AbortStep(r)
           \/ LoopStep
           \/ FailPendingRequests
           \/ Stop
           \/ \E c \in Callers, t \in Stages : StageStep(c, t)
    PROVE  Lifecycle!Next \/ UNCHANGED Lifecycle!vars
  <1> USE DEF IInv, Life, tables, objects, network, service, call
  <1>1. OthersMove
    BY OtherEffect
  <1>2. UNCHANGED <<outcome, delivered>> /\ \A d \in Callers : pc'[d] = "idle" <=> pc[d] = "idle"
    BY <1>1 DEF OthersMove, waits
  <1>a. ASSUME UNCHANGED requests, \A d \in Callers : Untracked(d) => state'[d] = state[d]
        PROVE  UNCHANGED Lifecycle!vars
    <2>1. \A d \in Callers : Untracked(d)' <=> Untracked(d)
      BY <1>a DEF Untracked
    <2>2. Verdict' = Verdict
      BY <1>2, <1>a, <2>1, VerdictStays
    <2> QED BY <1>2, <1>a, <2>2 DEF Lifecycle!vars
  <1>b. ASSUME NEW r \in Ids, NEW c \in Callers, requests[r] = c,
               requests' = [requests EXCEPT ![r] = None],
               \A d \in Callers \ {c} : state'[d] = state[d]
        PROVE  Lifecycle!Next
    <2>1. Lifecycle!Complete(r) \/ Lifecycle!Drop({r})
      BY <1>1, <1>b, ReleaseRefines
    <2>2. {r} \in SUBSET Ids
      OBVIOUS
    <2> QED BY <2>1, <2>2 DEF Lifecycle!Next
  <1>3. ASSUME NEW r \in Ids, AbortStep(r)
        PROVE  Lifecycle!Next \/ UNCHANGED Lifecycle!vars
    <2>1. CASE Abort(r) \/ AbortTaskFails(r) \/ (AbortTaskEnds(r) /\ requests[r] = None)
      BY <1>a, <2>1 DEF Abort, AbortTaskFails, AbortTaskEnds
    <2>2. CASE AbortTaskEnds(r) /\ requests[r] # None
      <3>1. PICK c \in Callers : requests[r] = c
        BY <2>2 DEF TypeOK
      <3>2. state' = [state EXCEPT ![c] = "aborted"] /\ requests' = [requests EXCEPT ![r] = None]
        BY <2>2, <3>1 DEF AbortTaskEnds
      <3> QED BY <1>b, <3>1, <3>2 DEF TypeOK
    <2> QED BY <1>3, <2>1, <2>2 DEF AbortStep
  <1>4. ASSUME NEW t \in Stages, HandleStream(t)
        PROVE  Lifecycle!Next \/ UNCHANGED Lifecycle!vars
    BY <1>4, <1>a DEF HandleStream
  <1>5. ASSUME NEW t \in Stages, HandleSuccess(t)
        PROVE  Lifecycle!Next \/ UNCHANGED Lifecycle!vars
    <2>1. CASE Ignores
      BY <1>a, <2>1 DEF Ignores
    <2>2. ASSUME NEW r \in Ids, NEW c \in Callers, NEW m \in Message,
                 Collects(r, c, m) \/ Completes(r, c, m)
          PROVE  Lifecycle!Next \/ UNCHANGED Lifecycle!vars
      <3>1. CASE Collects(r, c, m)
        BY <1>a, <3>1 DEF Collects
      <3>2. CASE Completes(r, c, m)
        <4>1. /\ requests[r] = c /\ requests' = [requests EXCEPT ![r] = None]
              /\ \A d \in Callers \ {c} : state'[d] = state[d]
          BY <3>2 DEF Completes, TypeOK
        <4> QED BY <1>b, <4>1
      <3> QED BY <2>2, <3>1, <3>2
    <2> QED BY <1>5, <2>1, <2>2, SuccessEffect
  <1>6. ASSUME NEW t \in Stages, HandleFailure(t)
        PROVE  Lifecycle!Next \/ UNCHANGED Lifecycle!vars
    <2>1. IdOf(Head(inbox[t])) \in Ids
      BY <1>6, HeadSent DEF HandleFailure, Receive
    <2>2. /\ UNCHANGED requests
          /\ state' \in {state, [state EXCEPT ![requests[IdOf(Head(inbox[t]))]] = "failed"]}
      BY <1>6 DEF HandleFailure
    <2>3. \A d \in Callers : Untracked(d) => state'[d] = state[d]
      BY <2>1, <2>2 DEF TypeOK, Untracked
    <2> QED BY <1>a, <2>2, <2>3
  <1>7. CASE FinishFailure
    <2>1. UNCHANGED state /\ requests' = [requests EXCEPT ![IdOf(failing)] = None] /\ failing # None
      BY <1>7 DEF FinishFailure, WithoutRequest
    <2>2. IdOf(failing) \in Ids
      BY <2>1, FailingId
    <2>3. CASE requests[IdOf(failing)] = None
      <3>1. requests' = requests
        BY <2>1, <2>2, <2>3 DEF TypeOK
      <3> QED BY <1>a, <2>1, <3>1
    <2>4. CASE requests[IdOf(failing)] \in Callers
      BY <1>b, <2>1, <2>2, <2>4
    <2> QED BY <2>2, <2>3, <2>4 DEF TypeOK
  <1>8. CASE LoopDies \/ Stop
    BY <1>8, <1>a DEF LoopDies, Stop
  <1>9. ASSUME NEW c \in Callers, NEW t \in Stages, StageStep(c, t)
        PROVE  Lifecycle!Next \/ UNCHANGED Lifecycle!vars
    BY <1>9, <1>a DEF StageStep, StageStreams, StageCompletes, StageFails, StageSends
  <1>10. CASE FailPendingRequests
    <2>1. /\ requests' = [r \in Ids |-> None]
          /\ \A d \in Callers : state'[d] = IF Untracked(d) THEN state[d] ELSE "failed"
      BY <1>10 DEF FailPendingRequests, Untracked
    <2>2. requests' = [r \in Ids |-> IF r \in Tracked THEN None ELSE requests[r]]
      BY <2>1 DEF Tracked
    <2>3. \A d \in Callers : Untracked(d)'
      BY <2>1, ConstAssumption DEF Untracked
    <2>4. \A d \in Callers : (\E r \in Tracked : requests[r] = d) <=> ~Untracked(d)
      BY ConstAssumption DEF Tracked, Untracked
    <2>5. \A d \in Callers : ~Untracked(d) => pc[d] # "idle" /\ outcome[d] # "rejected"
      BY DEF CallsInOrder, Phases, Untracked
    <2>6. \A d \in Callers : Verdict'[d] = IF ~Untracked(d) THEN "dropped" ELSE Verdict[d]
      <3>1. \A d \in Callers :
               Verdict'[d] = IF pc'[d] = "idle" \/ outcome'[d] = "rejected" THEN "none"
                             ELSE IF state'[d] = "completed" THEN "completed" ELSE "dropped"
        BY <2>3 DEF Verdict, Untracked
      <3> QED BY <1>2, <2>1, <2>5, <3>1, VerdictOf
    <2>7. Verdict' = [d \in Callers |-> IF \E r \in Tracked : requests[r] = d THEN "dropped" ELSE Verdict[d]]
      BY <2>4, <2>6, VerdictFcn
    <2>8. Lifecycle!Drop(Tracked) /\ Tracked \in SUBSET Ids
      BY <1>2, <2>2, <2>7 DEF Lifecycle!Drop, Tracked
    <2> QED BY <2>8 DEF Lifecycle!Next
  <1> QED
    BY <1>3, <1>4, <1>5, <1>6, <1>7, <1>8, <1>9, <1>10 DEF LoopStep

\* The coordinator implements RequestLifecycle, for any number of ids, calls and
\* stages, with or without a resolver: a call ends with a result only when its
\* own request has completed, and with an error only when it was dropped or
\* never sent.
THEOREM Refinement == Spec => ImplementsLifecycle
  <1>1. Init => Lifecycle!Init
    BY InitRefines
  <1>2. IInv /\ Life /\ [Next]_vars => [Lifecycle!Next]_Lifecycle!vars
    <2> SUFFICES ASSUME IInv, Life, [Next]_vars
                 PROVE  Lifecycle!Next \/ UNCHANGED Lifecycle!vars
      OBVIOUS
    <2>1. CASE UNCHANGED vars
      BY <2>1 DEF vars, tables, objects, network, service, args, waits, call, Lifecycle!vars, Verdict
    <2>2. ASSUME NEW c \in Callers, CallerStep(c)
          PROVE  Lifecycle!Next \/ UNCHANGED Lifecycle!vars
      <3>1. CASE pc[c] # "idle"
        BY <2>2, <3>1, MovesRefine
      <3>2. CASE pc[c] = "idle"
        <4>1. CallRejected(c) \/ Admit(c)
          BY <2>2, <3>2 DEF CallerStep, SubmitSent, SubmitReturns, CancelSubmit, ReadEvent, CloseStream,
             SendFails, LeaveAbort
        <4> QED BY <4>1, BeginsRefine
      <3> QED BY <3>1, <3>2
    <2>3. CASE \/ \E r \in Ids : AbortStep(r)
               \/ LoopStep
               \/ FailPendingRequests
               \/ Stop
               \/ \E c \in Callers, t \in Stages : StageStep(c, t)
      BY <2>3, OtherRefines
    <2> QED BY <2>1, <2>2, <2>3 DEF Next
  <1> QED BY <1>1, <1>2, LifeInductive, PTL DEF Spec, ImplementsLifecycle, Lifecycle!Spec

-----------------------------------------------------------------------------
\* A stream is fed to its end.  Without a resolver every request waits for the
\* configured terminal stages.

Static ==
    \A c \in Callers : pc[c] # "idle" /\ outcome[c] # "rejected" => terms[c] = Terminals

Streaming(c) == pc[c] \in {"sending", "reading"} /\ method[c] = "stream"

\* What is collected for a stream it has been told, and once its request is
\* released its queue holds what ends it.
Ended ==
    \A c \in Callers : Streaming(c) =>
        /\ pc[c] = "reading" => expected[c] = Terminals
        /\ requests[rid[c]] = c => \A t \in partial_results[rid[c]] : Told(c, t)
        /\ Untracked(c) => HasFail(c) \/ (HasOk(c) /\ \A t \in Terminals : Told(c, t))

\* What a stream has read of its queue.
LEMMA QueueKeeps ==
    ASSUME TypeOK, NEW q \in Callers, queue[q] # <<>>, queue'[q] = Tail(queue[q])
    PROVE  /\ HasOk(q) => HasOk(q)' \/ Head(queue[q]).kind = "ok"
           /\ HasFail(q) => HasFail(q)' \/ Head(queue[q]).kind = "fail"
  <1>1. queue[q] \in Seq(Message) /\ Len(queue[q]) \in Nat
    BY DEF TypeOK
  <1>2. /\ Len(queue'[q]) = Len(queue[q]) - 1 /\ 1 \in 1..Len(queue[q])
        /\ \A i \in 1..Len(queue'[q]) : queue'[q][i] = queue[q][i + 1]
        /\ Head(queue[q]) = queue[q][1]
    BY <1>1
  <1>3. \A i \in 1..Len(queue[q]) : i = 1 \/ (i - 1 \in 1..Len(queue'[q]) /\ (i - 1) + 1 = i)
    BY <1>1, <1>2
  <1>4. \A i \in 1..Len(queue[q]) :
            i = 1 \/ \E j \in 1..Len(queue'[q]) : queue'[q][j] = queue[q][i]
    BY <1>2, <1>3
  <1> QED BY <1>2, <1>4 DEF HasOk, HasFail

\* The terminals of a request are chosen when it is admitted.
LEMMA StaticStep ==
    ASSUME ~HasResolver, IInv, Life, Static, Next
    PROVE  Static'
  <1> USE DEF IInv, Life
  <1>1. ASSUME NEW c \in Callers, CallerStep(c), pc[c] # "idle"
        PROVE  Static'
    <2>1. Moves(c) /\ UNCHANGED terms
      BY <1>1, CallerMoves DEF Moves, args
    <2>2. \A d \in Callers : outcome[d] = "rejected" => outcome'[d] = "rejected"
      <3>1. outcome' = outcome \/ \E how : outcome' = [outcome EXCEPT ![c] = how]
        BY <1>1 DEF CallerStep, CallRejected, Admit, SubmitSent, SubmitReturns, CancelSubmit, ReadEvent,
           CloseStream, SendFails, LeaveAbort, LeaveStream, StayInStream
      <3>2. outcome' = outcome \/ pc[c] # "done"
        BY <1>1 DEF CallerStep, CallRejected, Admit, SubmitSent, SubmitReturns, CancelSubmit, ReadEvent,
           CloseStream, SendFails, LeaveAbort
      <3> QED BY <3>1, <3>2 DEF Phases, TypeOK
    <2>3. \A d \in Callers : pc[d] = "idle" <=> pc'[d] = "idle"
      BY <2>1 DEF Moves
    <2> QED BY <2>1, <2>2, <2>3 DEF Static
  <1>2. ASSUME NEW c \in Callers, CallerStep(c), pc[c] = "idle"
        PROVE  Static'
    <2>0. CallRejected(c) \/ Admit(c)
      BY <1>2 DEF CallerStep, SubmitSent, SubmitReturns, CancelSubmit, ReadEvent, CloseStream, SendFails,
         LeaveAbort
    <2>1. CASE CallRejected(c)
      BY <2>1 DEF CallRejected, Static, TypeOK
    <2>2. CASE Admit(c)
      <3>1. terms' = [terms EXCEPT ![c] = Terminals]
        BY <2>2 DEF Admit, ResolvedTerminals
      <3>2. UNCHANGED outcome /\ \A d \in Callers \ {c} : pc'[d] = pc[d]
        BY <2>2 DEF Admit, TypeOK
      <3> QED BY <3>1, <3>2 DEF Static, TypeOK
    <2> QED BY <2>0, <2>1, <2>2
  <1>3. CASE \/ \E r \in Ids : AbortStep(r)
             \/ LoopStep
             \/ FailPendingRequests
             \/ Stop
             \/ \E c \in Callers, t \in Stages : StageStep(c, t)
    <2>1. OthersMove
      BY <1>3, OtherEffect
    <2> QED BY <2>1 DEF OthersMove, args, Static
  <1> QED BY <1>1, <1>2, <1>3 DEF Next

\* A step of a call that has begun.
LEMMA MovesEnded ==
    ASSUME IInv, Life, Static, Ended, NEW c \in Callers, CallerStep(c), pc[c] # "idle"
    PROVE  Ended'
  <1> USE DEF IInv, Life
  <1>1. Moves(c) /\ UNCHANGED <<requests, partial_results, rid, method>>
    BY CallerMoves DEF Moves, args
  <1>2. \A d \in Callers : Untracked(d)' <=> Untracked(d)
    BY <1>1 DEF Untracked
  <1>3. ASSUME NEW d \in Callers \ {c}, Streaming(d)'
        PROVE  /\ pc'[d] = "reading" => expected'[d] = Terminals
               /\ requests'[rid'[d]] = d => \A t \in partial_results'[rid'[d]] : Told(d, t)'
               /\ Untracked(d)' => HasFail(d)' \/ (HasOk(d)' /\ \A t \in Terminals : Told(d, t)')
    <2>1. pc'[d] = pc[d] /\ expected'[d] = expected[d] /\ queue'[d] = queue[d] /\ completed'[d] = completed[d]
      BY <1>1 DEF Moves
    <2>2. /\ HasOk(d)' <=> HasOk(d)
          /\ HasFail(d)' <=> HasFail(d)
          /\ \A t \in Stages : Told(d, t)' <=> Told(d, t)
      BY <2>1, QueueStays
    <2>3. Streaming(d)
      BY <1>1, <1>3, <2>1 DEF Streaming
    <2>4. rid[d] \in Ids /\ partial_results[rid[d]] \subseteq Stages
      BY <2>3, ConstAssumption DEF Streaming, CallsInOrder, TypeOK
    <2> QED BY <1>1, <1>2, <2>1, <2>2, <2>3, <2>4, ConstAssumption DEF Ended
  <1>4. ASSUME Streaming(c)'
        PROVE  /\ pc'[c] = "reading" => expected'[c] = Terminals
               /\ requests'[rid'[c]] = c => \A t \in partial_results'[rid'[c]] : Told(c, t)'
               /\ Untracked(c)' => HasFail(c)' \/ (HasOk(c)' /\ \A t \in Terminals : Told(c, t)')
    <2>a. rid[c] \in Ids /\ partial_results[rid[c]] \subseteq Stages /\ Terminals \subseteq Stages
      BY ConstAssumption DEF CallsInOrder, TypeOK
    <2>b. \A t \in Stages : Told(c, t)' <=> Told(c, t)
      BY <1>1, MovesTell
    <2> USE DEF tables, objects, network, service, args, waits, call
    <2>1. CASE SubmitSent(c)
      <3>1. /\ pc[c] = "sending" /\ Streaming(c) /\ UNCHANGED queue
            /\ pc'[c] = "reading" => expected'[c] = ExpectedTerminals(rid[c])
        BY <1>1, <1>4, <2>1 DEF SubmitSent, Streaming, TypeOK
      <3>2. stream_queues[rid[c]] = c
        BY <3>1 DEF Streams, Streaming
      <3>3. requests[rid[c]] \in {None, c}
        BY <2>a, <3>2, SameOwner
      <3>4. terms[c] = Terminals
        BY <3>1 DEF Static, Phases
      <3>5. pc'[c] = "reading" => expected'[c] = Terminals
        BY <3>1, <3>3, <3>4 DEF ExpectedTerminals
      <3>6. /\ HasOk(c)' <=> HasOk(c)
            /\ HasFail(c)' <=> HasFail(c)
        BY <3>1 DEF HasOk, HasFail
      <3>7. /\ requests[rid[c]] = c => \A t \in partial_results[rid[c]] : Told(c, t)
            /\ Untracked(c) => HasFail(c) \/ (HasOk(c) /\ \A t \in Terminals : Told(c, t))
        BY <3>1 DEF Ended
      <3> QED BY <1>1, <1>2, <2>a, <2>b, <3>5, <3>6, <3>7
    <2>c. ASSUME NEW how, LeaveStream(c, how)
          PROVE  pc'[c] # "reading"
      <3>1. pc' \in {[pc EXCEPT ![c] = "aborting"], [pc EXCEPT ![c] = "done"]}
        BY <2>a, <2>c, LeaveStreamEffect
      <3> QED BY <3>1 DEF TypeOK
    <2>2. CASE ReadEvent(c) /\ StayInStream
      <3>1. /\ pc[c] = "reading" /\ pc' = pc /\ expected' = expected /\ queue[c] # <<>>
            /\ queue'[c] = Tail(queue[c])
        BY <2>2 DEF ReadEvent, StayInStream, TypeOK
      <3>2. Streaming(c)
        BY <3>1 DEF Streaming, CallsInOrder
      <3>3. /\ expected[c] = Terminals
            /\ requests[rid[c]] = c => \A t \in partial_results[rid[c]] : Told(c, t)
            /\ Untracked(c) => HasFail(c) \/ (HasOk(c) /\ \A t \in Terminals : Told(c, t))
        BY <3>1, <3>2 DEF Ended
      <3>4. /\ HasOk(c) => HasOk(c)' \/ Head(queue[c]).kind = "ok"
            /\ HasFail(c) => HasFail(c)' \/ Head(queue[c]).kind = "fail"
        BY <3>1, QueueKeeps
      <3>5. Head(queue[c]).kind # "fail"
        <4> QED BY <2>2, <3>1, <2>c DEF ReadEvent
      <3>6. Head(queue[c]).kind = "ok" => ~(expected[c] \subseteq completed'[c])
        <4> QED BY <2>2, <3>1, <2>c DEF ReadEvent, TypeOK
      <3>7. (\A t \in Terminals : Told(c, t)') /\ Head(queue[c]).kind = "ok" => HasOk(c)'
        BY <3>3, <3>6 DEF Told, HasOk
      <3> QED BY <1>1, <1>2, <2>a, <2>b, <3>1, <3>3, <3>4, <3>5, <3>7
    <2>4. ASSUME NEW how, LeaveStream(c, how)
          PROVE  FALSE
      <3>1. pc' \in {[pc EXCEPT ![c] = "aborting"], [pc EXCEPT ![c] = "done"]}
        BY <2>a, <2>4, LeaveStreamEffect
      <3> QED BY <1>4, <3>1 DEF TypeOK, Streaming
    <2>5. CASE SubmitReturns(c) \/ CancelSubmit(c) \/ SendFails(c) \/ CloseStream(c) \/ LeaveAbort(c)
               \/ (ReadEvent(c) /\ ~StayInStream)
      BY <1>4, <2>4, <2>5 DEF SubmitReturns, CancelSubmit, SendFails, CloseStream, LeaveAbort, ReadEvent,
         TypeOK, Streaming
    <2> QED BY <2>1, <2>2, <2>5 DEF CallerStep, CallRejected, Admit
  <1> QED BY <1>3, <1>4 DEF Ended

\* A call that begins.
LEMMA BeginsEnded ==
    ASSUME IInv, Life, Ended, NEW c \in Callers, CallerStep(c), pc[c] = "idle"
    PROVE  Ended'
  <1> USE DEF IInv, Life
  <1> USE DEF tables, objects, network, service, args, waits, call
  <1>0. CallRejected(c) \/ Admit(c)
    BY DEF CallerStep, SubmitSent, SubmitReturns, CancelSubmit, ReadEvent, CloseStream, SendFails,
       LeaveAbort
  <1>1. /\ UNCHANGED <<queue, completed, expected, partial_results>>
        /\ \A d \in Callers \ {c} : pc'[d] = pc[d] /\ rid'[d] = rid[d] /\ method'[d] = method[d]
        /\ pc'[c] \in {"sending", "done"}
    BY <1>0 DEF CallRejected, Admit, TypeOK
  <1>2. \A q \in Callers :
           /\ HasOk(q)' <=> HasOk(q)
           /\ HasFail(q)' <=> HasFail(q)
           /\ \A t \in Stages : Told(q, t)' <=> Told(q, t)
    BY <1>1, QueueStays
  <1>3. \A d \in Callers \ {c} : \A r \in Ids : requests'[r] = d <=> requests[r] = d
    BY <1>0, ConstAssumption DEF CallRejected, Admit, Reserved, TypeOK
  <1>4. ASSUME NEW d \in Callers \ {c}, Streaming(d)'
        PROVE  /\ pc'[d] = "reading" => expected'[d] = Terminals
               /\ requests'[rid'[d]] = d => \A t \in partial_results'[rid'[d]] : Told(d, t)'
               /\ Untracked(d)' => HasFail(d)' \/ (HasOk(d)' /\ \A t \in Terminals : Told(d, t)')
    <2>1. Streaming(d)
      BY <1>1, <1>4 DEF Streaming
    <2>2. rid[d] \in Ids /\ partial_results[rid[d]] \subseteq Stages /\ Terminals \subseteq Stages
      BY <2>1, ConstAssumption DEF Streaming, CallsInOrder, TypeOK
    <2>3. Untracked(d)' => Untracked(d)
      BY <1>3 DEF Untracked
    <2> QED BY <1>1, <1>2, <1>3, <2>1, <2>2, <2>3 DEF Ended
  <1>5. ASSUME Streaming(c)'
        PROVE  /\ pc'[c] # "reading"
               /\ partial_results'[rid'[c]] = {}
               /\ ~Untracked(c)'
    <2>1. Admit(c)
      BY <1>0, <1>5 DEF Streaming, CallRejected, TypeOK
    <2>2. PICK r \in Ids : /\ rid' = [rid EXCEPT ![c] = r] /\ requests' = [requests EXCEPT ![r] = c]
                           /\ requests[r] = None
      BY <2>1 DEF Admit, Reserved
    <2>3. partial_results[r] = {}
      BY <2>2 DEF PartialsBelongToRequest
    <2> QED BY <1>1, <1>5, <2>1, <2>2, <2>3 DEF Admit, TypeOK, Untracked
  <1> QED BY <1>4, <1>5 DEF Ended

\* A step of others, if it tells the streams what it collects or releases.
LEMMA EndedKept ==
    ASSUME TypeOK, CallsInOrder, Ended, OthersMove,
           \A q \in Callers : \/ queue'[q] = queue[q]
                              \/ \E m \in Message : queue'[q] = Append(queue[q], m),
           \A q \in Callers : Streaming(q) =>
              /\ requests'[rid[q]] = q =>
                    \A t \in partial_results'[rid[q]] : t \in partial_results[rid[q]] \/ Told(q, t)'
              /\ ~Untracked(q) /\ Untracked(q)' =>
                    HasFail(q)' \/ (HasOk(q)' /\ \A t \in Terminals : Told(q, t)')
    PROVE  Ended'
  <1>1. UNCHANGED <<rid, method, expected, completed>>
    BY DEF OthersMove, args, waits
  <1>2. \A q \in Callers : Streaming(q)' => Streaming(q) /\ pc'[q] = pc[q]
    BY <1>1 DEF OthersMove, Streaming
  <1>3. ASSUME NEW q \in Callers
        PROVE  /\ HasOk(q) => HasOk(q)'
               /\ HasFail(q) => HasFail(q)'
               /\ \A t \in Stages : Told(q, t) => Told(q, t)'
    <2>1. CASE queue'[q] = queue[q]
      BY <1>1, <2>1, QueueStays
    <2>2. CASE \E m \in Message : queue'[q] = Append(queue[q], m)
      BY <1>1, <2>2, QueueGrows
    <2> QED BY <2>1, <2>2
  <1>4. ASSUME NEW q \in Callers, Streaming(q)'
        PROVE  /\ pc'[q] = "reading" => expected'[q] = Terminals
               /\ requests'[rid'[q]] = q => \A t \in partial_results'[rid'[q]] : Told(q, t)'
               /\ Untracked(q)' => HasFail(q)' \/ (HasOk(q)' /\ \A t \in Terminals : Told(q, t)')
    <2>1. Streaming(q) /\ pc'[q] = pc[q]
      BY <1>2, <1>4
    <2>2. rid[q] \in Ids /\ partial_results[rid[q]] \subseteq Stages /\ Terminals \subseteq Stages
      BY <2>1, ConstAssumption DEF Streaming, CallsInOrder, TypeOK
    <2>3. requests'[rid[q]] = q => requests[rid[q]] = q
      BY <2>2, ConstAssumption DEF OthersMove, Drops
    <2>4. /\ pc[q] = "reading" => expected[q] = Terminals
          /\ requests[rid[q]] = q => \A t \in partial_results[rid[q]] : Told(q, t)
          /\ Untracked(q) => HasFail(q) \/ (HasOk(q) /\ \A t \in Terminals : Told(q, t))
      BY <2>1 DEF Ended
    <2>5. requests'[rid[q]] = q => \A t \in partial_results'[rid[q]] : Told(q, t)'
      BY <1>3, <2>1, <2>2, <2>3, <2>4
    <2>6. Untracked(q)' => HasFail(q)' \/ (HasOk(q)' /\ \A t \in Terminals : Told(q, t)')
      BY <1>3, <2>1, <2>2, <2>4
    <2> QED BY <1>1, <2>1, <2>4, <2>5, <2>6
  <1> QED BY <1>4 DEF Ended

\* A step of others.
LEMMA OtherEnded ==
    ASSUME IInv, Life, Static, Ended,
           \/ \E r \in Ids : AbortStep(r)
           \/ LoopStep
           \/ FailPendingRequests
           \/ Stop
           \/ \E c \in Callers, t \in Stages : StageStep(c, t)
    PROVE  Ended'
  <1> USE DEF IInv, Life, tables, objects, network, service, call
  <1>1. OthersMove
    BY OtherEffect
  <1>2. completed' = completed
    BY <1>1 DEF OthersMove, waits
  <1>3. \A q \in Callers : Streaming(q) => rid[q] \in Ids /\ stream_queues[rid[q]] = q
    BY DEF Streaming, Streams, CallsInOrder
  <1>4. \A q \in Callers, r \in Ids : requests[r] = q => rid[q] = r
    BY DEF Registered
  <1>a. ASSUME UNCHANGED <<requests, partial_results>>,
               \A q \in Callers : \/ queue'[q] = queue[q]
                                  \/ \E m \in Message : queue'[q] = Append(queue[q], m)
        PROVE  Ended'
    <2>1. \A q \in Callers : Untracked(q)' <=> Untracked(q)
      BY <1>a DEF Untracked
    <2> QED BY <1>1, <1>a, <2>1, EndedKept
  <1>b. ASSUME NEW r \in Ids, NEW m \in Message, m.kind = "fail", Releases(r, m)
        PROVE  Ended'
    <2>1. \A q \in Callers : queue'[q] = IF stream_queues[r] = q THEN Append(queue[q], m) ELSE queue[q]
      BY <1>b, PutGoes DEF Releases
    <2>2. /\ requests'[r] = None
          /\ \A s \in Ids \ {r} : requests'[s] = requests[s] /\ partial_results'[s] = partial_results[s]
      BY <1>b DEF Releases, TypeOK, WithoutPartials
    <2>3. ASSUME NEW q \in Callers, Streaming(q), ~Untracked(q), Untracked(q)'
          PROVE  HasFail(q)'
      <3>1. requests[r] = q
        BY <2>2, <2>3 DEF Untracked
      <3>2. queue'[q] = Append(queue[q], m)
        BY <1>3, <1>4, <2>1, <2>3, <3>1
      <3> QED BY <1>2, <1>b, <3>2, QueueGrows
    <2>4. ASSUME NEW q \in Callers, Streaming(q), requests'[rid[q]] = q
          PROVE  partial_results'[rid[q]] = partial_results[rid[q]]
      BY <1>3, <2>2, <2>4, ConstAssumption
    <2>5. \A q \in Callers : \/ queue'[q] = queue[q]
                             \/ \E n \in Message : queue'[q] = Append(queue[q], n)
      BY <2>1
    <2> QED BY <1>1, <2>3, <2>4, <2>5, EndedKept
  <1>5. ASSUME NEW r \in Ids, AbortStep(r)
        PROVE  Ended'
    <2>1. CASE Abort(r) \/ AbortTaskFails(r) \/ (AbortTaskEnds(r) /\ requests[r] = None)
      BY <1>a, <2>1 DEF Abort, AbortTaskFails, AbortTaskEnds
    <2>2. CASE AbortTaskEnds(r) /\ requests[r] # None
      <3>1. PICK c \in Callers : requests[r] = c
        BY <2>2 DEF TypeOK
      <3>2. Releases(r, GivenUp(c)) /\ GivenUp(c) \in Message /\ GivenUp(c).kind = "fail"
        BY <2>2, <3>1, GivenUpFact DEF AbortTaskEnds, Releases, GivenUp
      <3> QED BY <1>b, <3>2
    <2> QED BY <1>5, <2>1, <2>2 DEF AbortStep
  <1>6. ASSUME NEW t \in Stages, HandleStream(t)
        PROVE  Ended'
    <2>1. PICK r \in Ids, m \in Message : queue' = Put(r, m)
      BY <1>6, HeadSent DEF HandleStream, Receive
    <2>2. \A q \in Callers :
              Put(r, m)[q] = IF stream_queues[r] = q THEN Append(queue[q], m) ELSE queue[q]
      BY PutGoes
    <2>3. \A q \in Callers : \/ queue'[q] = queue[q]
                             \/ \E n \in Message : queue'[q] = Append(queue[q], n)
      BY <2>1, <2>2
    <2> QED BY <1>6, <1>a, <2>3 DEF HandleStream
  <1>7. ASSUME NEW r \in Ids, NEW c \in Callers, NEW m \in Message, m.kind = "ok", m.stage \in Stages,
               Collects(r, c, m) \/ Completes(r, c, m)
        PROVE  Ended'
    <2>1. \A q \in Callers : queue'[q] = IF stream_queues[r] = q THEN Append(queue[q], m) ELSE queue[q]
      BY <1>7, PutGoes DEF Collects, Completes
    <2>2. \A q \in Callers : \/ queue'[q] = queue[q]
                             \/ \E n \in Message : queue'[q] = Append(queue[q], n)
      BY <2>1
    <2>3. requests[r] = c /\ rid[c] = r /\ pc[c] # "idle"
      BY <1>4, <1>7 DEF Collects, Completes, CallsInOrder
    <2>4. Streaming(c) => /\ HasOk(c)' /\ Told(c, m.stage)'
                          /\ \A t \in Stages : Told(c, t) => Told(c, t)'
                          /\ \A t \in partial_results[r] : Told(c, t)'
      <3> SUFFICES ASSUME Streaming(c)
                   PROVE  /\ HasOk(c)' /\ Told(c, m.stage)'
                          /\ \A t \in Stages : Told(c, t) => Told(c, t)'
                          /\ \A t \in partial_results[r] : Told(c, t)'
        OBVIOUS
      <3>1. queue'[c] = Append(queue[c], m)
        BY <1>3, <2>1, <2>3
      <3>2. HasOk(c)' /\ Told(c, m.stage)' /\ \A t \in Stages : Told(c, t) => Told(c, t)'
        BY <1>2, <1>7, <3>1, QueueGrows
      <3>3. \A t \in partial_results[r] : Told(c, t) /\ t \in Stages
        BY <2>3, ConstAssumption DEF Ended, TypeOK
      <3> QED BY <3>2, <3>3
    <2>5. CASE Collects(r, c, m)
      <3>1. /\ requests' = requests /\ \A t \in partial_results'[r] : t \in partial_results[r] \/ t = m.stage
            /\ \A s \in Ids \ {r} : partial_results'[s] = partial_results[s]
        BY <2>5 DEF Collects, TypeOK
      <3>2. \A q \in Callers : Untracked(q)' <=> Untracked(q)
        BY <3>1 DEF Untracked
      <3>3. ASSUME NEW q \in Callers, Streaming(q), requests'[rid[q]] = q,
                   NEW t \in partial_results'[rid[q]]
            PROVE  t \in partial_results[rid[q]] \/ Told(q, t)'
        <4>1. CASE rid[q] = r
          BY <2>3, <2>4, <3>1, <3>3, <4>1
        <4>2. CASE rid[q] # r
          BY <1>3, <3>1, <3>3, <4>2
        <4> QED BY <4>1, <4>2
      <3> QED BY <1>1, <2>2, <3>2, <3>3, EndedKept
    <2>6. CASE Completes(r, c, m)
      <3>1. /\ requests'[r] = None
            /\ \A s \in Ids \ {r} : requests'[s] = requests[s] /\ partial_results'[s] = partial_results[s]
            /\ terms[c] \subseteq partial_results[r] \cup {m.stage}
        BY <2>6 DEF Completes, TypeOK, WithoutPartials
      <3>2. ASSUME NEW q \in Callers, Streaming(q), requests'[rid[q]] = q
            PROVE  partial_results'[rid[q]] = partial_results[rid[q]]
        BY <1>3, <3>1, <3>2, ConstAssumption
      <3>3. ASSUME NEW q \in Callers, Streaming(q), ~Untracked(q), Untracked(q)'
            PROVE  HasOk(q)' /\ \A t \in Terminals : Told(q, t)'
        <4>1. requests[r] = q
          BY <3>1, <3>3 DEF Untracked
        <4>2. q = c
          BY <2>3, <4>1
        <4>3. terms[c] = Terminals
          BY <3>3, <4>2 DEF Static, Streaming, Phases
        <4> QED BY <2>4, <3>1, <3>3, <4>2, <4>3
      <3> QED BY <1>1, <2>2, <3>2, <3>3, EndedKept
    <2> QED BY <1>7, <2>5, <2>6
  <1>8. ASSUME NEW t \in Stages, HandleSuccess(t)
        PROVE  Ended'
    <2>1. CASE Ignores
      BY <1>a, <2>1 DEF Ignores
    <2>2. CASE \E r \in Ids, c \in Callers, m \in Message :
                  /\ m.kind = "ok" /\ m.stage = t
                  /\ Collects(r, c, m) \/ Completes(r, c, m)
      BY <1>7, <2>2
    <2> QED BY <1>8, <2>1, <2>2, SuccessEffect
  <1>9. ASSUME NEW t \in Stages, HandleFailure(t)
        PROVE  Ended'
    BY <1>9, <1>a DEF HandleFailure
  <1>10. CASE FinishFailure
    <2>1. failing # None /\ Releases(IdOf(failing), failing)
      BY <1>10 DEF FinishFailure, Releases, WithoutRequest
    <2>2. failing \in Message /\ IdOf(failing) \in Ids /\ failing.kind = "fail"
      BY <2>1, FailingId DEF Failing
    <2> QED BY <1>b, <2>1, <2>2
  <1>11. CASE LoopDies \/ Stop
    BY <1>11, <1>a DEF LoopDies, Stop
  <1>12. ASSUME NEW c \in Callers, NEW t \in Stages, StageStep(c, t)
         PROVE  Ended'
    BY <1>12, <1>a DEF StageStep, StageStreams, StageCompletes, StageFails, StageSends
  <1>13. CASE FailPendingRequests
    <2>1. \A q \in Callers :
             queue'[q] = IF \E r \in Tracked : stream_queues[r] = q
                         THEN Append(queue[q], GivenUp(q)) ELSE queue[q]
      BY <1>13 DEF FailPendingRequests
    <2>2. \A q \in Callers : GivenUp(q) \in Message /\ GivenUp(q).kind = "fail"
      BY GivenUpFact DEF GivenUp
    <2>3. \A q \in Callers : \/ queue'[q] = queue[q]
                             \/ \E m \in Message : queue'[q] = Append(queue[q], m)
      BY <2>1, <2>2
    <2>4. \A r \in Ids : requests'[r] = None
      BY <1>13 DEF FailPendingRequests
    <2>5. ASSUME NEW q \in Callers, Streaming(q), ~Untracked(q)
          PROVE  HasFail(q)'
      <3>1. requests[rid[q]] = q /\ rid[q] \in Tracked /\ stream_queues[rid[q]] = q
        BY <1>3, <1>4, <2>5, ConstAssumption DEF Untracked, Tracked
      <3>2. queue'[q] = Append(queue[q], GivenUp(q))
        BY <2>1, <3>1
      <3> QED BY <1>2, <2>2, <3>2, QueueGrows
    <2>6. \A q \in Callers : Streaming(q) => requests'[rid[q]] # q
      BY <1>3, <2>4, ConstAssumption
    <2> QED BY <1>1, <2>3, <2>5, <2>6, EndedKept
  <1> QED
    BY <1>5, <1>6, <1>8, <1>9, <1>10, <1>11, <1>12, <1>13 DEF LoopStep

\* Without a resolver, a stream that reads is served: its queue is registered,
\* and its request is tracked or its queue holds what ends the stream.
THEOREM StreamServed ==
    ASSUME ~HasResolver
    PROVE  Spec => []StreamIsServed
  <1> DEFINE Inv == IInv /\ Life /\ Static /\ Ended
  <1>1. Init => Static /\ Ended
    BY DEF Init, Static, Ended, Streaming
  <1>2. Inv /\ [Next]_vars => Static' /\ Ended'
    <2> SUFFICES ASSUME IInv, Life, Static, Ended, [Next]_vars
                 PROVE  Static' /\ Ended'
      OBVIOUS
    <2>1. CASE UNCHANGED vars
      BY <2>1 DEF vars, tables, objects, network, service, args, waits, call, Static, Ended, Streaming,
         Untracked, HasOk, HasFail, Told
    <2>2. CASE Next
      <3>1. Static'
        BY <2>2, StaticStep
      <3>2. ASSUME NEW c \in Callers, CallerStep(c)
            PROVE  Ended'
        BY <3>2, MovesEnded, BeginsEnded
      <3>3. CASE \/ \E r \in Ids : AbortStep(r)
                 \/ LoopStep
                 \/ FailPendingRequests
                 \/ Stop
                 \/ \E c \in Callers, t \in Stages : StageStep(c, t)
        BY <3>1, <3>3, OtherEnded
      <3> QED BY <2>2, <3>1, <3>2, <3>3 DEF Next
    <2> QED BY <2>1, <2>2
  <1>3. Inv => StreamIsServed
    <2> SUFFICES ASSUME Inv, NEW c \in Callers, pc[c] = "reading"
                 PROVE  /\ stream_queues[rid[c]] = c
                        /\ requests[rid[c]] = c \/ QueueEnds(c)
      BY DEF StreamIsServed
    <2> USE DEF IInv, Life
    <2>1. Streaming(c) /\ stream_queues[rid[c]] = c
      BY DEF Streaming, CallsInOrder, Streams
    <2>2. CASE ~Untracked(c)
      BY <2>1, <2>2 DEF Registered, Untracked
    <2>3. CASE HasFail(c)
      BY <2>1, <2>3 DEF HasFail, QueueEnds
    <2>4. CASE HasOk(c) /\ \A t \in Terminals : Told(c, t)
      <3>1. expected[c] = Terminals
        BY <2>1 DEF Ended
      <3>2. ASSUME NEW t \in Terminals, t \notin completed[c]
            PROVE  \E i \in 1..Len(queue[c]) : queue[c][i].kind = "ok" /\ queue[c][i].stage = t
        BY <2>4, <3>2 DEF Told
      <3> QED BY <2>1, <2>4, <3>1, <3>2 DEF HasOk, QueueEnds
    <2> QED BY <2>1, <2>2, <2>3, <2>4 DEF Ended
  <1> QED BY <1>1, <1>2, <1>3, LifeInductive, PTL DEF Spec

-----------------------------------------------------------------------------
\* Results of a former use of an id.

\* Stage t has answered d, and nobody is on the way with the answer.
Spent(d, t) ==
    /\ t \in answered[d]
    /\ \A i \in 1..Len(inbox[t]) : inbox[t][i].inc = d => inbox[t][i].kind = "chunk"

\* What a request got is spent, if all of it was its own.
Consumed ==
    \A d \in Callers : applied[d] \subseteq {d} =>
        /\ \A r \in Ids : requests[r] = d => \A t \in partial_results[r] : Spent(d, t)
        /\ state[d] = "completed" => \A t \in Terminals : Spent(d, t)

\* Who gave a result away is not tracked any more.
GivenAway ==
    \A c \in Callers : \A d \in applied[c] \ {c} : Untracked(d) /\ d \in delivered

\* An answer that is spent stays so.
LEMMA SpentStays ==
    ASSUME TypeOK, Next, NEW d \in Callers, NEW t \in Stages, Spent(d, t)
    PROVE  Spent(d, t)'
  <1> USE DEF tables, objects, network, service, args, waits, call
  <1>1. CASE UNCHANGED <<inbox, answered>>
    BY <1>1 DEF Spent
  <1>2. ASSUME NEW u \in Stages, Receive(u)
        PROVE  Spent(d, t)'
    <2>1. UNCHANGED answered /\ inbox'[t] = IF u = t THEN Tail(inbox[t]) ELSE inbox[t]
      BY <1>2 DEF Receive, TypeOK
    <2>2. CASE u = t
      <3>1. inbox[t] \in Seq(Message) /\ inbox[t] # <<>>
        BY <1>2, <2>2 DEF TypeOK, Receive
      <3>2. \A i \in 1..Len(Tail(inbox[t])) : /\ i + 1 \in 1..Len(inbox[t])
                                              /\ Tail(inbox[t])[i] = inbox[t][i + 1]
        BY <3>1
      <3> QED BY <2>1, <2>2, <3>2 DEF Spent
    <2>3. CASE u # t
      BY <2>1, <2>3 DEF Spent
    <2> QED BY <2>2, <2>3
  <1>3. ASSUME NEW c \in Callers, NEW u \in Stages, NEW kind \in {"chunk", "ok", "fail"},
               StageSends(c, u, kind)
        PROVE  Spent(d, t)'
    <2> DEFINE m == [kind |-> kind, stage |-> u, inc |-> c]
    <2>1. /\ u \notin answered[c] /\ t \in answered'[d] /\ m.inc = c
          /\ inbox'[t] = IF u = t THEN Append(inbox[t], m) ELSE inbox[t]
      BY <1>3 DEF StageSends, TypeOK, Spent
    <2> HIDE DEF m
    <2>2. CASE u = t
      <3>1. inbox[t] \in Seq(Message) /\ Len(inbox[t]) \in Nat
        BY DEF TypeOK
      <3>2. /\ Len(inbox'[t]) = Len(inbox[t]) + 1
            /\ \A i \in 1..Len(inbox[t]) : inbox'[t][i] = inbox[t][i]
            /\ inbox'[t][Len(inbox[t]) + 1] = m
        BY <2>1, <2>2, <3>1
      <3>3. m.inc # d
        BY <2>1, <2>2 DEF Spent
      <3>4. \A i \in 1..Len(inbox'[t]) : i \in 1..Len(inbox[t]) \/ i = Len(inbox[t]) + 1
        BY <3>1, <3>2
      <3> QED BY <2>1, <3>2, <3>3, <3>4 DEF Spent
    <2>3. CASE u # t
      BY <2>1, <2>3 DEF Spent
    <2> QED BY <2>2, <2>3
  <1>4. ASSUME NEW c \in Callers, CallerStep(c)
        PROVE  UNCHANGED <<inbox, answered>>
    BY <1>4 DEF CallerStep, CallRejected, Admit, SubmitSent, SubmitReturns, CancelSubmit,
       ReadEvent, CloseStream, SendFails, LeaveAbort
  <1>5. ASSUME NEW r \in Ids, AbortStep(r)
        PROVE  UNCHANGED <<inbox, answered>>
    BY <1>5 DEF AbortStep, Abort, AbortTaskEnds, AbortTaskFails
  <1>6. CASE FinishFailure \/ LoopDies \/ FailPendingRequests \/ Stop
    BY <1>1, <1>6 DEF FinishFailure, LoopDies, FailPendingRequests, Stop
  <1>7. ASSUME NEW u \in Stages, HandleStream(u) \/ HandleSuccess(u) \/ HandleFailure(u)
        PROVE  Receive(u)
    BY <1>7 DEF HandleStream, HandleSuccess, HandleFailure
  <1>8. ASSUME NEW c \in Callers, NEW u \in Stages, StageStep(c, u)
        PROVE  \E kind \in {"chunk", "ok", "fail"} : StageSends(c, u, kind)
    BY <1>8 DEF StageStep, StageStreams, StageCompletes, StageFails
  <1> QED BY <1>1, <1>2, <1>3, <1>4, <1>5, <1>6, <1>7, <1>8 DEF Next, LoopStep

\* The answer that is received is spent.
LEMMA HeadSpent ==
    ASSUME TypeOK, Sent, NEW t \in Stages, Receive(t), Head(inbox[t]).kind # "chunk",
           NEW d \in Callers, Head(inbox[t]).inc = d
    PROVE  Spent(d, t)' /\ ~Spent(d, t)
  <1>1. inbox[t] \in Seq(Message) /\ inbox[t] # <<>>
    BY DEF TypeOK, Receive
  <1>2. /\ 1 \in 1..Len(inbox[t]) /\ Head(inbox[t]) = inbox[t][1]
        /\ \A i \in 1..Len(Tail(inbox[t])) : /\ i + 1 \in 1..Len(inbox[t]) /\ i + 1 # 1
                                             /\ Tail(inbox[t])[i] = inbox[t][i + 1]
    BY <1>1
  <1>3. UNCHANGED answered /\ inbox'[t] = Tail(inbox[t])
    BY DEF Receive, TypeOK
  <1>4. t \in answered[d]
    BY <1>2 DEF Sent, SentTo
  <1>5. ASSUME NEW i \in 1..Len(Tail(inbox[t])), Tail(inbox[t])[i].inc = d
        PROVE  Tail(inbox[t])[i].kind = "chunk"
    BY <1>2, <1>5 DEF Sent, SentTo
  <1>6. ~Spent(d, t)
    BY <1>2 DEF Spent
  <1>7. Spent(d, t)'
    BY <1>3, <1>4, <1>5 DEF Spent
  <1> QED BY <1>6, <1>7

\* A step in which nobody is given a result, and no request completes.
LEMMA ForeignKept ==
    ASSUME TypeOK, CallsInOrder, Phases, Consumed, GivenAway, NoForeignCompletion, Next,
           UNCHANGED applied, delivered \subseteq delivered',
           \A d \in Callers :
              /\ state'[d] = "completed" => state[d] = "completed"
              /\ pc[d] # "idle" /\ Untracked(d) => Untracked(d)',
           \A r \in Ids, d \in Callers :
              requests'[r] = d =>
                 partial_results'[r] = {} \/ (requests[r] = d /\ partial_results'[r] = partial_results[r])
    PROVE  Consumed' /\ GivenAway' /\ NoForeignCompletion'
  <1>1. \A d \in Callers, t \in Stages : Spent(d, t) => Spent(d, t)'
    BY SpentStays
  <1>2. \A r \in Ids : partial_results[r] \subseteq Stages
    BY ConstAssumption DEF TypeOK
  <1>3. Consumed'
    BY <1>1, <1>2, ConstAssumption DEF Consumed
  <1>4. \A c \in Callers : applied[c] \subseteq Callers
    BY DEF TypeOK
  <1>5. \A d \in delivered : d \in Callers /\ pc[d] # "idle"
    BY DEF Phases, TypeOK
  <1>6. GivenAway'
    BY <1>4, <1>5 DEF GivenAway
  <1>7. NoForeignCompletion'
    BY <1>4 DEF NoForeignCompletion
  <1> QED BY <1>3, <1>6, <1>7

\* A step of a call or of others that gives nobody a result.
LEMMA ForeignOther ==
    ASSUME IInv, Life, Consumed, GivenAway, NoForeignCompletion, Next,
           \A t \in Stages : ~HandleSuccess(t)
    PROVE  Consumed' /\ GivenAway' /\ NoForeignCompletion'
  <1> USE DEF IInv, Life
  <1> USE DEF tables, objects, network, service, call
  <1>1. ASSUME NEW c \in Callers, CallerStep(c), pc[c] # "idle"
        PROVE  Consumed' /\ GivenAway' /\ NoForeignCompletion'
    <2>1. Moves(c)
      BY <1>1, CallerMoves
    <2>2. \A d \in Callers : Untracked(d)' <=> Untracked(d)
      BY <2>1 DEF Moves, Untracked
    <2>3. \A d \in Callers : state'[d] = "completed" => state[d] = "completed"
      BY <2>1 DEF Moves
    <2>4. UNCHANGED <<requests, partial_results, applied>> /\ delivered \subseteq delivered'
      BY <2>1 DEF Moves
    <2> QED BY <2>2, <2>3, <2>4, ForeignKept
  <1>2. ASSUME NEW c \in Callers, CallerStep(c), pc[c] = "idle"
        PROVE  Consumed' /\ GivenAway' /\ NoForeignCompletion'
    <2>0. CallRejected(c) \/ Admit(c)
      BY <1>2 DEF CallerStep, SubmitSent, SubmitReturns, CancelSubmit, ReadEvent, CloseStream, SendFails,
         LeaveAbort
    <2>1. UNCHANGED <<applied, delivered, state, partial_results>>
      BY <2>0 DEF CallRejected, Admit, waits
    <2>2. CASE CallRejected(c)
      <3>1. UNCHANGED requests
        BY <2>2 DEF CallRejected
      <3>2. \A d \in Callers : Untracked(d)' <=> Untracked(d)
        BY <3>1 DEF Untracked
      <3> QED BY <2>1, <3>1, <3>2, ForeignKept
    <2>3. CASE Admit(c)
      <3>1. PICK r \in Ids : requests[r] = None /\ requests' = [requests EXCEPT ![r] = c]
        BY <2>3 DEF Admit, Reserved
      <3>2. partial_results[r] = {}
        BY <3>1 DEF PartialsBelongToRequest
      <3>3. \A s \in Ids, d \in Callers : requests'[s] = d =>
                partial_results'[s] = {} \/ (requests[s] = d /\ partial_results'[s] = partial_results[s])
        BY <2>1, <3>1, <3>2 DEF TypeOK
      <3>4. \A d \in Callers : pc[d] # "idle" /\ Untracked(d) => Untracked(d)'
        BY <1>2, <3>1 DEF TypeOK, Untracked
      <3> QED BY <2>1, <3>3, <3>4, ForeignKept
    <2> QED BY <2>0, <2>2, <2>3
  <1>3. CASE \/ \E r \in Ids : AbortStep(r)
             \/ LoopStep
             \/ FailPendingRequests
             \/ Stop
             \/ \E c \in Callers, t \in Stages : StageStep(c, t)
    <2>1. OthersMove
      BY <1>3, OtherEffect
    <2>2. \A d \in Callers : Untracked(d) => Untracked(d)'
      BY <2>1, UntrackedStays DEF OthersMove
    <2>3. UNCHANGED delivered
      BY <2>1 DEF OthersMove, waits
    <2>4. ASSUME UNCHANGED applied,
                 \A d \in Callers : state'[d] = "completed" => state[d] = "completed",
                 \A s \in Ids, d \in Callers : requests'[s] = d =>
                    requests[s] = d /\ partial_results'[s] = partial_results[s]
          PROVE  Consumed' /\ GivenAway' /\ NoForeignCompletion'
      BY <2>2, <2>3, <2>4, ForeignKept
    <2>5. ASSUME NEW r \in Ids, AbortStep(r)
          PROVE  Consumed' /\ GivenAway' /\ NoForeignCompletion'
      <3>1. CASE Abort(r) \/ AbortTaskFails(r)
        BY <2>4, <3>1 DEF Abort, AbortTaskFails
      <3>2. CASE AbortTaskEnds(r)
        <4>1. UNCHANGED applied /\ \A d \in Callers : state'[d] = "completed" => state[d] = "completed"
          BY <3>2 DEF AbortTaskEnds, TypeOK
        <4>2. \A s \in Ids, d \in Callers : requests'[s] = d =>
                 requests[s] = d /\ partial_results'[s] = partial_results[s]
          BY <3>2, ConstAssumption DEF AbortTaskEnds, WithoutPartials, TypeOK
        <4> QED BY <2>4, <4>1, <4>2
      <3> QED BY <2>5, <3>1, <3>2 DEF AbortStep
    <2>6. ASSUME NEW t \in Stages, HandleStream(t)
          PROVE  Consumed' /\ GivenAway' /\ NoForeignCompletion'
      BY <2>4, <2>6 DEF HandleStream
    <2>7. ASSUME NEW t \in Stages, HandleFailure(t)
          PROVE  Consumed' /\ GivenAway' /\ NoForeignCompletion'
      <3>1. UNCHANGED <<requests, partial_results, applied>>
        BY <2>7 DEF HandleFailure
      <3>2. \A d \in Callers : state'[d] = "completed" => state[d] = "completed"
        BY <2>7 DEF HandleFailure, TypeOK
      <3> QED BY <2>4, <3>1, <3>2
    <2>8. CASE FinishFailure
      <3>1. UNCHANGED <<applied, state>>
        BY <2>8 DEF FinishFailure
      <3>2. \A s \in Ids, d \in Callers : requests'[s] = d =>
               requests[s] = d /\ partial_results'[s] = partial_results[s]
        BY <2>8, ConstAssumption DEF FinishFailure, WithoutPartials, WithoutRequest, TypeOK
      <3> QED BY <2>4, <3>1, <3>2
    <2>9. CASE LoopDies \/ Stop
      BY <2>4, <2>9 DEF LoopDies, Stop
    <2>10. CASE FailPendingRequests
      <3>1. /\ UNCHANGED applied /\ \A s \in Ids : requests'[s] = None
            /\ \A d \in Callers : state'[d] = "completed" => state[d] = "completed"
        BY <2>10 DEF FailPendingRequests
      <3> QED BY <2>4, <3>1, ConstAssumption
    <2>11. ASSUME NEW c \in Callers, NEW t \in Stages, StageStep(c, t)
           PROVE  Consumed' /\ GivenAway' /\ NoForeignCompletion'
      BY <2>4, <2>11 DEF StageStep, StageStreams, StageCompletes, StageFails, StageSends
    <2> QED BY <1>3, <2>5, <2>6, <2>7, <2>8, <2>9, <2>10, <2>11 DEF LoopStep
  <1> QED BY <1>1, <1>2, <1>3 DEF Next

\* A success.
LEMMA ForeignSuccess ==
    ASSUME IInv, Life, Static, Consumed, GivenAway, NoForeignCompletion, Next,
           NEW t \in Stages, HandleSuccess(t)
    PROVE  Consumed' /\ GivenAway' /\ NoForeignCompletion'
  <1> USE DEF IInv, Life
  <1>1. OthersMove
    BY OtherEffect DEF LoopStep
  <1>2. \A d \in Callers : Untracked(d) => Untracked(d)'
    BY <1>1, UntrackedStays DEF OthersMove
  <1>3. UNCHANGED delivered
    BY <1>1 DEF OthersMove, waits
  <1>4. CASE Ignores
    BY <1>2, <1>3, <1>4, ForeignKept DEF Ignores
  <1>5. ASSUME NEW r \in Ids, NEW c \in Callers, NEW m \in Message,
               m = Head(inbox[t]), r = IdOf(m), m.kind = "ok", m.stage = t, t \in Terminals,
               applied' = [applied EXCEPT ![c] = @ \cup {m.inc}],
               Collects(r, c, m) \/ Completes(r, c, m)
        PROVE  Consumed' /\ GivenAway' /\ NoForeignCompletion'
    <2>1. PICK d \in Callers : m.inc = d
      BY <1>5 DEF Message
    <2>2. Receive(t)
      BY DEF HandleSuccess
    <2>3. Spent(d, t)' /\ ~Spent(d, t) /\ d \in delivered
      BY <1>5, <2>1, <2>2, HeadSpent, HeadSent DEF Receive
    <2>4. \A e \in Callers, u \in Stages : Spent(e, u) => Spent(e, u)'
      BY SpentStays
    <2>5. /\ applied'[c] = applied[c] \cup {d} /\ \A e \in Callers \ {c} : applied'[e] = applied[e]
      BY <1>5, <2>1 DEF TypeOK
    <2>6. requests[r] = c /\ rid[c] = r /\ rid[d] = r /\ pc[c] # "idle" /\ outcome[c] # "rejected"
      <3>1. requests[r] = c /\ rid[d] = r
        BY <1>5, <2>1 DEF Collects, Completes, IdOf
      <3>2. rid[c] = r
        BY <3>1 DEF Registered
      <3>3. pc[c] # "idle"
        BY <3>1 DEF CallsInOrder
      <3>4. outcome[c] # "rejected"
        BY <3>1 DEF Phases, Untracked
      <3> QED BY <3>1, <3>2, <3>3, <3>4
    <2>7. d # c => Untracked(d)
      BY <2>6 DEF Untracked, Registered
    <2>8. /\ \A e \in Callers \ {c} : state'[e] = state[e]
          /\ \A s \in Ids, e \in Callers \ {c} : requests'[s] = e =>
                requests[s] = e /\ partial_results'[s] = partial_results[s]
      <3>1. CASE Collects(r, c, m)
        BY <2>6, <3>1 DEF Collects, TypeOK
      <3>2. CASE Completes(r, c, m)
        BY <2>6, <3>2, ConstAssumption DEF Completes, WithoutPartials, TypeOK
      <3> QED BY <1>5, <3>1, <3>2
    <2>9. GivenAway'
      <3>1. \A e \in Callers : applied[e] \subseteq Callers
        BY DEF TypeOK
      <3> QED BY <1>2, <1>3, <2>3, <2>5, <2>7, <3>1 DEF GivenAway
    <2>10. ASSUME NEW e \in Callers \ {c}, NEW f \in Callers, e \in applied[f] \/ e = d
           PROVE  applied[e] \ {e} # {} \/ state[e] # "completed" \/ e = f
      <3>1. CASE e \in applied[f] /\ e # f
        BY <3>1 DEF NoForeignCompletion
      <3>2. CASE e = d
        <4>1. applied[e] \subseteq {e} => state[e] # "completed"
          BY <1>5, <2>3, <3>2 DEF Consumed
        <4> QED BY <4>1
      <3> QED BY <2>10, <3>1, <3>2
    <2>11. NoForeignCompletion'
      <3> SUFFICES ASSUME NEW f \in Callers, NEW e \in applied'[f] \ {f}
                   PROVE  state'[e] # "completed" \/ applied'[e] \ {e} # {}
        BY DEF NoForeignCompletion
      <3>1. e \in Callers /\ (e \in applied[f] \/ (e = d /\ f = c))
        BY <2>5 DEF TypeOK
      <3>2. CASE e # c
        BY <2>5, <2>8, <2>10, <3>1, <3>2
      <3>3. CASE e = c
        <4>1. Untracked(c)
          BY <3>1, <3>3 DEF GivenAway
        <4> QED BY <2>6, <4>1 DEF Untracked
      <3> QED BY <3>2, <3>3
    <2>12. ASSUME NEW e \in Callers \ {c}, applied'[e] \subseteq {e}
           PROVE  /\ \A s \in Ids : requests'[s] = e => \A u \in partial_results'[s] : Spent(e, u)'
                  /\ state'[e] = "completed" => \A u \in Terminals : Spent(e, u)'
      <3>1. /\ \A s \in Ids : requests[s] = e => \A u \in partial_results[s] : Spent(e, u)
            /\ state[e] = "completed" => \A u \in Terminals : Spent(e, u)
        BY <2>5, <2>12 DEF Consumed
      <3>2. Terminals \subseteq Stages /\ \A s \in Ids : partial_results[s] \subseteq Stages
        BY ConstAssumption DEF TypeOK
      <3> QED BY <2>4, <2>8, <3>1, <3>2
    <2>13. ASSUME applied'[c] \subseteq {c}
           PROVE  /\ \A s \in Ids : requests'[s] = c => \A u \in partial_results'[s] : Spent(c, u)'
                  /\ state'[c] = "completed" => \A u \in Terminals : Spent(c, u)'
      <3>1. d = c /\ applied[c] \subseteq {c}
        BY <2>5, <2>13
      <3>2. \A u \in partial_results[r] \cup {t} : Spent(c, u)'
        <4>1. \A u \in partial_results[r] : Spent(c, u) /\ u \in Stages
          BY <2>6, <3>1, ConstAssumption DEF Consumed, TypeOK
        <4> QED BY <2>3, <2>4, <3>1, <4>1
      <3>3. CASE Collects(r, c, m)
        <4>1. /\ partial_results'[r] = partial_results[r] \cup {t} /\ UNCHANGED <<requests, state>>
          BY <1>5, <3>3 DEF Collects, TypeOK
        <4>2. \A s \in Ids : requests[s] = c => s = r
          BY <2>6 DEF Registered
        <4>3. state[c] # "completed"
          BY <2>6 DEF Registered
        <4> QED BY <3>2, <4>1, <4>2, <4>3
      <3>4. CASE Completes(r, c, m)
        <4>1. terms[c] = Terminals
          BY <2>6 DEF Static
        <4>2. \A u \in Terminals : Spent(c, u)'
          BY <1>5, <3>2, <3>4, <4>1 DEF Completes
        <4>3. \A s \in Ids : requests'[s] # c
          BY <2>6, <3>4, ConstAssumption DEF Completes, Registered, TypeOK
        <4> QED BY <4>2, <4>3
      <3> QED BY <1>5, <3>3, <3>4
    <2>14. Consumed'
      BY <2>12, <2>13 DEF Consumed
    <2> QED BY <2>9, <2>11, <2>14
  <1> QED BY <1>4, <1>5, SuccessEffect

\* Without a resolver, a result left over from a former use of an id comes from a
\* request that did not complete, or that was itself given such a result.
THEOREM NoneForeign ==
    ASSUME ~HasResolver
    PROVE  Spec => []NoForeignCompletion
  <1> DEFINE Own == Static /\ Consumed /\ GivenAway /\ NoForeignCompletion
  <1>1. Init => Own
    BY DEF Init, Static, Consumed, GivenAway, NoForeignCompletion
  <1>2. IInv /\ Life /\ Own /\ [Next]_vars => Own'
    <2> SUFFICES ASSUME IInv, Life, Own, [Next]_vars
                 PROVE  Own'
      OBVIOUS
    <2>1. CASE UNCHANGED vars
      BY <2>1 DEF vars, tables, objects, network, service, args, waits, call, Static, Consumed,
         GivenAway, NoForeignCompletion, Spent, Untracked
    <2>2. CASE Next
      <3>1. Static'
        BY <2>2, StaticStep
      <3>2. CASE \E t \in Stages : HandleSuccess(t)
        BY <2>2, <3>1, <3>2, ForeignSuccess
      <3>3. CASE \A t \in Stages : ~HandleSuccess(t)
        BY <2>2, <3>1, <3>3, ForeignOther
      <3> QED BY <3>2, <3>3
    <2> QED BY <2>1, <2>2
  <1> QED BY <1>1, <1>2, LifeInductive, PTL DEF Spec

=============================================================================
