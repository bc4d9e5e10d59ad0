--------------------------- MODULE ThreadedScheduler ---------------------------
(***************************************************************************)
(* ThreadedSimpleScheduler (scheduling/threaded_simple_scheduler.py): the  *)
(* thread of the stage enqueues and aborts requests, the thread of the     *)
(* scheduler claims them and submits them to a pool, and the threads of    *)
(* the pool run them and answer.                                           *)
(*                                                                         *)
(* A step is one section under the lock of the scheduler or of its inbox,  *)
(* or what a thread does between two of them.  An id may be used again, so *)
(* what is enqueued is a life of an id; its future is named after it.      *)
(***************************************************************************)
EXTENDS Naturals, FiniteSets, SequencesExt

CONSTANTS
    Ids,            \* request ids
    Lives,          \* requests
    Id(_),          \* the id of a request
    None,           \* no future
    MaxConcurrency, \* _max_concurrency
    Limit,          \* _ABORTED_REQUEST_ID_LIMIT
    Retained,       \* _ABORTED_REQUEST_ID_RETAINED
    MaxAborts,      \* bound: calls of abort()
    MayStop         \* may the scheduler be stopped?

ASSUME ThreadedAssumption ==
    /\ None \notin Lives
    /\ \A l \in Lives : Id(l) \in Ids
    /\ MaxConcurrency \in Nat \ {0}
    /\ Retained \in Nat \ {0} /\ Limit \in Nat /\ Retained <= Limit
    /\ MaxAborts \in Nat
    /\ MayStop \in BOOLEAN

VARIABLES
    running,        \* _running
    inbox,          \* the requests in the inbox
    pending,        \* _pending: id -> its future
    queuedAborts,   \* _queued_aborts
    specAborts,     \* _speculative_aborts, the oldest first
    abortedFutures, \* _aborted_futures
    state,          \* request -> where it is, or how its future is
    attached,       \* requests whose future has its done callback
    finish,         \* request -> where its _finish is
    calling,        \* the abort() that the stage is in: its id and its future
    outbox,         \* the requests that were answered
    prepared,       \* requests whose compute function has left something behind
    hit,            \* history: requests that were aborted in time, or before they came
    aborts          \* calls of abort() so far

tombstones == <<queuedAborts, specAborts, abortedFutures>>
vars == <<running, inbox, pending, tombstones, state, attached, finish, calling,
          outbox, prepared, hit, aborts>>

NoCall == [id |-> None, future |-> None]

TypeOK ==
    /\ running \in {"yes", "stopping", "no"}
    /\ inbox \in Seq(Lives)
    /\ pending \in [Ids -> Lives \cup {None}]
    /\ queuedAborts \in SUBSET Ids
    /\ specAborts \in Seq(Ids)
    /\ abortedFutures \in SUBSET Lives
    /\ state \in [Lives -> {"new", "inbox", "claimed", "suppressed", "submitted",
                            "running", "done", "failed", "cancelled"}]
    /\ attached \in SUBSET Lives
    /\ finish \in [Lives -> {"no", "drop", "emit", "end"}]
    /\ calling \in [id : Ids \cup {None}, future : Lives \cup {None}]
    /\ outbox \in SUBSET Lives
    /\ prepared \in SUBSET Lives
    /\ hit \in SUBSET Lives
    /\ aborts \in 0..MaxAborts

Init ==
    /\ running = "yes"
    /\ inbox = <<>>
    /\ pending = [r \in Ids |-> None]
    /\ queuedAborts = {} /\ specAborts = <<>> /\ abortedFutures = {}
    /\ state = [l \in Lives |-> "new"]
    /\ attached = {}
    /\ finish = [l \in Lives |-> "no"]
    /\ calling = NoCall
    /\ outbox = {} /\ prepared = {} /\ hit = {}
    /\ aborts = 0

LivesOf(r) == {l \in Lives : Id(l) = r}
In(l, s) == state[l] \in s

-----------------------------------------------------------------------------
\* The thread of the stage.  A definition named Faulty... is what its successor
\* would be with a plausible bug; only the mutation runs use it.

\* "Request ids cannot be reused while an earlier lifecycle remains in the
\* pipeline": the others of this id are answered, suppressed or aborted.
MayBeReused(l) ==
    \A k \in LivesOf(Id(l)) \ {l} :
        \/ In(k, {"new", "suppressed"})
        \/ k \in abortedFutures
        \/ finish[k] \in {"drop", "end"}

\* enqueue: a speculative abort of the id becomes one that no later abort evicts.
Enqueue(l) ==
    LET aborted == Contains(specAborts, Id(l))
    IN  /\ calling = NoCall
        /\ state[l] = "new" /\ MayBeReused(l)
        /\ state' = [state EXCEPT ![l] = "inbox"]
        /\ inbox' = Append(inbox, l)
        /\ specAborts' = RemoveFirst(specAborts, Id(l))
        /\ queuedAborts' = IF aborted THEN queuedAborts \cup {Id(l)} ELSE queuedAborts
        /\ hit' = IF aborted THEN hit \cup {l} ELSE hit
        /\ UNCHANGED <<running, pending, abortedFutures, attached, finish, calling, outbox,
                       prepared, aborts>>

\* _CountingInbox.is_reachable
IsReachable(r) == \E l \in LivesOf(r) : In(l, {"inbox", "claimed"})

\* _record_speculative_abort: the oldest make room.
Recorded(r) ==
    LET kept == IF Len(specAborts) >= Limit
                THEN SubSeq(specAborts, Len(specAborts) - Retained + 2, Len(specAborts))
                ELSE specAborts
    IN  IF Contains(specAborts, r) THEN specAborts ELSE Append(kept, r)

\* An abort of the id can still keep this request from being answered.
InTime(l) ==
    \/ In(l, {"inbox", "claimed"})
    \/ In(l, {"submitted", "running", "done", "failed"}) /\ finish[l] = "no"

\* abort, under the lock
Abort(r) ==
    /\ calling = NoCall
    /\ aborts < MaxAborts
    /\ aborts' = aborts + 1
    /\ calling' = [id |-> r, future |-> pending[r]]
    /\ \/ /\ pending[r] # None
          /\ pending' = [pending EXCEPT ![r] = None]
          /\ abortedFutures' = abortedFutures \cup {pending[r]}
          /\ UNCHANGED <<queuedAborts, specAborts>>
       \/ /\ pending[r] = None
          /\ IsReachable(r)
          /\ queuedAborts' = queuedAborts \cup {r}
          /\ UNCHANGED <<pending, specAborts, abortedFutures>>
       \/ /\ pending[r] = None
          /\ ~IsReachable(r)
          /\ specAborts' = Recorded(r)
          /\ UNCHANGED <<pending, queuedAborts, abortedFutures>>
    /\ hit' = hit \cup {l \in LivesOf(r) : InTime(l)}
    /\ UNCHANGED <<running, inbox, state, attached, finish, outbox, prepared>>

\* A future can be cancelled until a thread of the pool has taken it.
Cancelled(f) == IF state[f] = "submitted" THEN [state EXCEPT ![f] = "cancelled"] ELSE state

\* abort, without the lock: future.cancel()
AbortCancels ==
    /\ calling.future # None
    /\ state' = Cancelled(calling.future)
    /\ calling' = [calling EXCEPT !.future = None]
    /\ UNCHANGED <<running, inbox, pending, tombstones, attached, finish, outbox, prepared,
                   hit, aborts>>

\* abort: _run_abort_callback
AbortEnds ==
    /\ calling # NoCall /\ calling.future = None
    /\ prepared' = prepared \ LivesOf(calling.id)
    /\ calling' = NoCall
    /\ UNCHANGED <<running, inbox, pending, tombstones, state, attached, finish, outbox,
                   hit, aborts>>

\* stop
Stop ==
    /\ MayStop /\ running = "yes"
    /\ running' = "stopping"
    /\ UNCHANGED <<inbox, pending, tombstones, state, attached, finish, calling, outbox,
                   prepared, hit, aborts>>

-----------------------------------------------------------------------------
\* The thread of the scheduler, start.

\* It has a request in hand, or a future without its callback.
Dispatching ==
    \E l \in Lives : \/ state[l] = "claimed"
                     \/ In(l, {"submitted", "running", "done", "failed", "cancelled"})
                           /\ l \notin attached

\* _wait_for_capacity
HasCapacity == Cardinality({r \in Ids : pending[r] # None}) < MaxConcurrency

\* inbox.get.  Between the wait and the get, _pending can only shrink.
Claim ==
    /\ running # "no" /\ ~Dispatching
    /\ inbox # <<>>
    /\ HasCapacity
    /\ inbox' = Tail(inbox)
    /\ state' = [state EXCEPT ![Head(inbox)] = "claimed"]
    /\ UNCHANGED <<running, pending, tombstones, attached, finish, calling, outbox, prepared,
                   hit, aborts>>

\* _consume_reachable_tombstone
Tombstone(r) == r \in queuedAborts \/ Contains(specAborts, r)

\* The section under the lock: the request is suppressed, or submitted.
Dispatch(l) ==
    /\ state[l] = "claimed"
    /\ IF Tombstone(Id(l))
       THEN /\ queuedAborts' = queuedAborts \ {Id(l)}
            /\ specAborts' = RemoveFirst(specAborts, Id(l))
            /\ state' = [state EXCEPT ![l] = "suppressed"]
            /\ UNCHANGED pending
       ELSE /\ state' = [state EXCEPT ![l] = "submitted"]
            /\ pending' = [pending EXCEPT ![Id(l)] = l]
            /\ UNCHANGED <<queuedAborts, specAborts>>
    /\ UNCHANGED <<running, inbox, abortedFutures, attached, finish, calling, outbox, prepared,
                   hit, aborts>>

\* add_done_callback
Attach(l) ==
    /\ In(l, {"submitted", "running", "done", "failed", "cancelled"})
    /\ l \notin attached
    /\ attached' = attached \cup {l}
    /\ UNCHANGED <<running, inbox, pending, tombstones, state, finish, calling, outbox,
                   prepared, hit, aborts>>

\* The loop ends, and shuts the pool down with cancel_futures.
Shutdown ==
    /\ running = "stopping" /\ ~Dispatching
    /\ running' = "no"
    /\ state' = [l \in Lives |-> IF state[l] = "submitted" THEN "cancelled" ELSE state[l]]
    /\ UNCHANGED <<inbox, pending, tombstones, attached, finish, calling, outbox, prepared,
                   hit, aborts>>

-----------------------------------------------------------------------------
\* The threads of the pool.

\* A thread takes the future.
Run(l) ==
    /\ state[l] = "submitted"
    /\ Cardinality({k \in Lives : state[k] = "running"}) < MaxConcurrency
    /\ state' = [state EXCEPT ![l] = "running"]
    /\ UNCHANGED <<running, inbox, pending, tombstones, attached, finish, calling, outbox,
                   prepared, hit, aborts>>

\* _run_one returns or raises.  External: what the compute function leaves.
Return(l) ==
    /\ state[l] = "running"
    /\ \/ state' = [state EXCEPT ![l] = "done"] /\ prepared' = prepared \cup {l}
       \/ state' = [state EXCEPT ![l] = "failed"] /\ UNCHANGED prepared
    /\ UNCHANGED <<running, inbox, pending, tombstones, attached, finish, calling, outbox,
                   hit, aborts>>

\* Whatever future has the id is taken out.
FaultyForgotten(l) == [pending EXCEPT ![Id(l)] = None]

\* A future that has failed stays.
FaultyKept(l) == IF state[l] = "failed" THEN pending ELSE [pending EXCEPT ![Id(l)] = None]

\* The future is taken out of _pending, if it is the one that is there.
Forgotten(l) ==
    IF pending[Id(l)] = l THEN [pending EXCEPT ![Id(l)] = None] ELSE pending

\* _finish, under the lock, in the thread that ends the future or attaches the
\* callback to a future that has ended
Finish(l) ==
    /\ l \in attached /\ finish[l] = "no"
    /\ In(l, {"done", "failed", "cancelled"})
    /\ pending' = Forgotten(l)
    /\ abortedFutures' = abortedFutures \ {l}
    /\ finish' = [finish EXCEPT ![l] =
                    IF l \in abortedFutures \/ state[l] = "cancelled" THEN "drop" ELSE "emit"]
    /\ UNCHANGED <<running, inbox, queuedAborts, specAborts, state, attached, calling, outbox,
                   prepared, hit, aborts>>

\* The abort callback runs only when abort() is called.
FaultyCleaned(l) == prepared

\* The abort callback runs once more: the compute function may have ended
\* after the abort.
Cleaned(l) == prepared \ LivesOf(Id(l))

\* _finish, without the lock
FinishEnds(l) ==
    /\ \/ finish[l] = "drop" /\ prepared' = Cleaned(l) /\ UNCHANGED outbox
       \/ finish[l] = "emit" /\ outbox' = outbox \cup {l} /\ UNCHANGED prepared
    /\ finish' = [finish EXCEPT ![l] = "end"]
    /\ UNCHANGED <<running, inbox, pending, tombstones, state, attached, calling, hit, aborts>>

-----------------------------------------------------------------------------
StageThread ==
    \/ \E l \in Lives : Enqueue(l)
    \/ \E r \in Ids : Abort(r)
    \/ AbortCancels \/ AbortEnds \/ Stop

SchedulerThread ==
    \/ Claim \/ Shutdown
    \/ \E l \in Lives : Dispatch(l) \/ Attach(l)

PoolThread(l) == Run(l) \/ Return(l) \/ Finish(l) \/ FinishEnds(l)

Next == StageThread \/ SchedulerThread \/ \E l \in Lives : PoolThread(l)

Spec == Init /\ [][Next]_vars

(***************************************************************************)
(* Fairness: the threads run, a call of abort returns, and a compute       *)
(* function ends.  Nothing makes the stage enqueue, abort or stop.         *)
(***************************************************************************)
Fairness ==
    /\ WF_vars(AbortCancels) /\ WF_vars(AbortEnds)
    /\ WF_vars(SchedulerThread)
    /\ \A l \in Lives : WF_vars(PoolThread(l))

FairSpec == Spec /\ Fairness

-----------------------------------------------------------------------------
\* Properties.

\* A request that is aborted before its _finish has looked whether it was, is
\* never answered: not when the abort meets it in the inbox, in the hand of the
\* scheduler, in the pool or done, nor when later aborts evict tombstones or an
\* older request of its id ends late.  And no other is silenced: the scheduler is
\* rid of a request without an answer only if an abort of its id came in time for
\* it, or had come before it and met no request, or if the scheduler was stopped.
\* An abort that met an older request of the id does not count against it.
AbortsAreExact ==
    /\ outbox \cap hit = {}
    /\ \A l \in Lives :
          state[l] = "suppressed" \/ finish[l] = "drop" \/ (finish[l] = "end" /\ l \notin outbox)
              => l \in hit \/ running = "no"

\* When no request is in the scheduler and no call is under way, no future and
\* no tombstone of a request it has seen is left, and a request that was not
\* answered has left nothing behind.
NothingIsLeft ==
    (/\ calling = NoCall
     /\ \A l \in Lives : In(l, {"new", "suppressed"}) \/ finish[l] = "end")
        => /\ \A r \in Ids : pending[r] = None
           /\ queuedAborts = {} /\ abortedFutures = {}
           /\ prepared \subseteq outbox

\* A request that nobody aborts is answered, unless the scheduler is stopped.
AnsweredUnlessAborted ==
    \A l \in Lives :
        state[l] = "inbox" ~> (l \in outbox \/ l \in hit \/ running # "yes")

=============================================================================
