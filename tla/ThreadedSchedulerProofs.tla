----------------------- MODULE ThreadedSchedulerProofs -----------------------
(***************************************************************************)
(* Theorems about ThreadedScheduler, for any requests and ids, any         *)
(* concurrency and any limits of the speculative tombstones.               *)
(***************************************************************************)
EXTENDS ThreadedScheduler, TLAPS, SequenceTheorems

-----------------------------------------------------------------------------
\* The inductive invariant.

Begun == {"submitted", "running", "done", "failed", "cancelled"}

\* The shapes the proof needs.  (What is in _speculative_aborts does not matter
\* to it: a tombstone there can only keep a request from being answered.)
Shapes ==
    /\ inbox \in Seq(Lives)
    /\ pending \in [Ids -> Lives \cup {None}]
    /\ abortedFutures \in SUBSET Lives
    /\ state \in [Lives -> {"new", "inbox", "claimed", "suppressed"} \cup Begun]
    /\ finish \in [Lives -> {"no", "drop", "emit", "end"}]
    /\ calling.future \in Lives \cup {None}
    /\ outbox \in SUBSET Lives /\ prepared \in SUBSET Lives /\ hit \in SUBSET Lives

\* The inbox holds the requests that are in it, each once.
InboxIsExact ==
    /\ \A i \in 1..Len(inbox) : state[inbox[i]] = "inbox"
    /\ \A i, j \in 1..Len(inbox) : inbox[i] = inbox[j] => i = j

\* How far a request has come.  One that has begun and is not finished can be
\* found: in _pending, or among the aborted futures.
Progress ==
    \A l \in Lives :
        /\ state[l] \notin Begun => finish[l] = "no" /\ l \notin abortedFutures
        /\ l \in abortedFutures => finish[l] = "no"
        /\ finish[l] # "no" => state[l] \in {"done", "failed", "cancelled"}
        /\ state[l] = "cancelled" => finish[l] # "emit"
        /\ l \in outbox => finish[l] = "end"
        /\ l \in prepared => state[l] = "done" /\ (finish[l] = "end" => l \in outbox)
        /\ state[l] \in Begun /\ finish[l] = "no" =>
              pending[Id(l)] = l \/ l \in abortedFutures

\* _pending holds futures under their own ids, that are neither finished nor
\* aborted.
PendingIsExact ==
    \A r \in Ids :
        pending[r] # None =>
            /\ Id(pending[r]) = r
            /\ state[pending[r]] \in Begun
            /\ finish[pending[r]] = "no"
            /\ pending[r] \notin abortedFutures

\* It may still be answered.
Live(l) ==
    /\ state[l] \notin {"new", "suppressed"}
    /\ l \notin abortedFutures
    /\ finish[l] \notin {"drop", "end"}

\* No two requests of one id may be: a tombstone has only one to meet.
OneLive ==
    \A k, l \in Lives : Id(k) = Id(l) /\ Live(k) /\ Live(l) => k = l

\* Where an abort has left its mark.
Marked ==
    \A l \in hit :
        /\ state[l] # "new"
        /\ state[l] \in {"inbox", "claimed"} => Id(l) \in queuedAborts
        /\ state[l] \in Begun =>
              \/ l \in abortedFutures
              \/ state[l] = "cancelled"
              \/ finish[l] \in {"drop", "end"}
        /\ l \notin outbox

\* A tombstone that is not speculative has a request to meet.
TombstonesMeet ==
    \A r \in queuedAborts : \E l \in Lives : Id(l) = r /\ state[l] \in {"inbox", "claimed"}

IInv ==
    /\ Shapes /\ InboxIsExact /\ Progress /\ PendingIsExact
    /\ OneLive /\ Marked /\ TombstonesMeet

-----------------------------------------------------------------------------
\* The steps.

\* The first states.
LEMMA InitIInv == Init => IInv
BY ThreadedAssumption DEF Init, IInv, Shapes, InboxIsExact, Progress, PendingIsExact, OneLive,
    Live, Marked, TombstonesMeet, NoCall, Begun

\* No other request of the id may still be answered.
LEMMA EnqueueKeeps ==
    ASSUME IInv, NEW l \in Lives, Enqueue(l)
    PROVE  IInv'
<1> USE ThreadedAssumption DEF Begun
<1>1. Shapes'
    BY DEF Enqueue, MayBeReused, LivesOf, In, IInv, Shapes
<1>2. InboxIsExact'
    BY <1>1 DEF Enqueue, MayBeReused, LivesOf, In, IInv, Shapes, InboxIsExact
<1>3. Progress'
    BY <1>1 DEF Enqueue, MayBeReused, LivesOf, In, IInv, Shapes, Progress,
        PendingIsExact
<1>4. PendingIsExact'
    BY <1>1 DEF Enqueue, MayBeReused, LivesOf, In, IInv, Shapes, PendingIsExact,
        Progress
<1>5. OneLive'
    BY <1>1 DEF Enqueue, MayBeReused, LivesOf, In, IInv, Shapes, OneLive, Live,
        Progress
<1>6. Marked'
    BY <1>1 DEF Enqueue, MayBeReused, LivesOf, In, IInv, Shapes, Marked, Progress
<1>7. TombstonesMeet'
    BY <1>1 DEF Enqueue, MayBeReused, LivesOf, In, IInv, Shapes, TombstonesMeet
<1> QED
    BY <1>1, <1>2, <1>3, <1>4, <1>5, <1>6, <1>7 DEF IInv

\* The abort meets the future, a tombstone meets the request, or there is none.
LEMMA AbortKeeps ==
    ASSUME IInv, NEW r \in Ids, Abort(r)
    PROVE  IInv'
<1> USE ThreadedAssumption DEF Begun
<1>1. Shapes'
    BY DEF Abort, LivesOf, In, IsReachable, InTime, IInv, Shapes
<1>2. InboxIsExact'
    BY <1>1 DEF Abort, LivesOf, In, IsReachable, InTime, IInv, Shapes, InboxIsExact
<1>3. Progress'
    BY <1>1 DEF Abort, LivesOf, In, IsReachable, InTime, IInv, Shapes, Progress,
        PendingIsExact
<1>4. PendingIsExact'
    BY <1>1 DEF Abort, LivesOf, In, IsReachable, InTime, IInv, Shapes,
        PendingIsExact, Progress
<1>5. OneLive'
    BY <1>1 DEF Abort, LivesOf, In, IsReachable, InTime, IInv, Shapes, OneLive,
        Live, Progress
<1>6. Marked'
    <2> SUFFICES ASSUME NEW l \in Lives, Id(l) = r, InTime(l)
                 PROVE  /\ state[l] # "new"
                        /\ state[l] \in {"inbox", "claimed"} => Id(l) \in queuedAborts'
                        /\ state[l] \in Begun => l \in abortedFutures'
                        /\ l \notin outbox
        BY <1>1 DEF Abort, LivesOf, IInv, Shapes, Marked
    <2>1. CASE state[l] \in {"inbox", "claimed"}
        <3>1. pending[r] = None
            BY <2>1 DEF IInv, Shapes, OneLive, Live, Progress, PendingIsExact
        <3> QED
            BY <2>1, <3>1 DEF Abort, IsReachable, LivesOf, In, IInv, Progress
    <2>2. CASE state[l] \in {"submitted", "running", "done", "failed"} /\ finish[l] = "no"
        BY <2>2 DEF Abort, IInv, Progress
    <2> QED
        BY <2>1, <2>2 DEF InTime, In
<1>7. TombstonesMeet'
    BY <1>1 DEF Abort, LivesOf, In, IsReachable, InTime, IInv, Shapes,
        TombstonesMeet
<1> QED
    BY <1>1, <1>2, <1>3, <1>4, <1>5, <1>6, <1>7 DEF IInv

\* A future that has not begun to run is cancelled.
LEMMA AbortCancelsKeeps ==
    ASSUME IInv, AbortCancels
    PROVE  IInv'
<1> USE ThreadedAssumption DEF Begun
<1>1. Shapes'
    BY DEF AbortCancels, Cancelled, tombstones, IInv, Shapes
<1>2. InboxIsExact'
    BY <1>1 DEF AbortCancels, Cancelled, tombstones, IInv, Shapes, InboxIsExact
<1>3. Progress'
    BY <1>1 DEF AbortCancels, Cancelled, tombstones, IInv, Shapes, Progress,
        PendingIsExact
<1>4. PendingIsExact'
    BY <1>1 DEF AbortCancels, Cancelled, tombstones, IInv, Shapes, PendingIsExact,
        Progress
<1>5. OneLive'
    BY <1>1 DEF AbortCancels, Cancelled, tombstones, IInv, Shapes, OneLive, Live,
        Progress
<1>6. Marked'
    BY <1>1 DEF AbortCancels, Cancelled, tombstones, IInv, Shapes, Marked, Progress
<1>7. TombstonesMeet'
    BY <1>1 DEF AbortCancels, Cancelled, tombstones, IInv, Shapes, TombstonesMeet
<1> QED
    BY <1>1, <1>2, <1>3, <1>4, <1>5, <1>6, <1>7 DEF IInv

\* Only what was left behind is touched.
LEMMA AbortEndsKeeps ==
    ASSUME IInv, AbortEnds
    PROVE  IInv'
<1> USE ThreadedAssumption DEF Begun
<1>1. Shapes'
    BY DEF AbortEnds, tombstones, NoCall, IInv, Shapes
<1>2. InboxIsExact'
    BY <1>1 DEF AbortEnds, tombstones, NoCall, IInv, Shapes, InboxIsExact
<1>3. Progress'
    BY <1>1 DEF AbortEnds, tombstones, NoCall, IInv, Shapes, Progress,
        PendingIsExact
<1>4. PendingIsExact'
    BY <1>1 DEF AbortEnds, tombstones, NoCall, IInv, Shapes, PendingIsExact,
        Progress
<1>5. OneLive'
    BY <1>1 DEF AbortEnds, tombstones, NoCall, IInv, Shapes, OneLive, Live, Progress
<1>6. Marked'
    BY <1>1 DEF AbortEnds, tombstones, NoCall, IInv, Shapes, Marked, Progress
<1>7. TombstonesMeet'
    BY <1>1 DEF AbortEnds, tombstones, NoCall, IInv, Shapes, TombstonesMeet
<1> QED
    BY <1>1, <1>2, <1>3, <1>4, <1>5, <1>6, <1>7 DEF IInv

\* The first request of the inbox changes hands.
LEMMA ClaimKeeps ==
    ASSUME IInv, Claim
    PROVE  IInv'
<1> USE ThreadedAssumption DEF Begun
<1> DEFINE h == Head(inbox)
<1>a. /\ h \in Lives /\ h = inbox[1] /\ state[h] = "inbox"
      /\ Tail(inbox) \in Seq(Lives) /\ Len(Tail(inbox)) = Len(inbox) - 1
      /\ \A i \in 1..Len(Tail(inbox)) : Tail(inbox)[i] = inbox[i + 1] /\ i + 1 \in 1..Len(inbox)
      /\ 1 \in 1..Len(inbox) /\ Len(inbox) \in Nat
    BY DEF Claim, IInv, Shapes, InboxIsExact
<1>b. /\ inbox' = Tail(inbox)
      /\ state' = [state EXCEPT ![h] = "claimed"]
      /\ UNCHANGED <<pending, queuedAborts, abortedFutures, finish, calling, outbox,
                     prepared, hit>>
    BY DEF Claim, tombstones
<1> HIDE DEF h
<1>1. Shapes'
    BY <1>a, <1>b DEF IInv, Shapes
<1>2. InboxIsExact'
    BY <1>1, <1>a, <1>b DEF IInv, Shapes, InboxIsExact
<1>3. Progress'
    BY <1>1, <1>a, <1>b DEF IInv, Shapes, Progress, PendingIsExact
<1>4. PendingIsExact'
    BY <1>1, <1>a, <1>b DEF IInv, Shapes, PendingIsExact, Progress
<1>5. OneLive'
    BY <1>1, <1>a, <1>b DEF IInv, Shapes, OneLive, Live, Progress
<1>6. Marked'
    BY <1>1, <1>a, <1>b DEF IInv, Shapes, Marked, Progress
<1>7. TombstonesMeet'
    BY <1>1, <1>a, <1>b DEF IInv, Shapes, TombstonesMeet
<1> QED
    BY <1>1, <1>2, <1>3, <1>4, <1>5, <1>6, <1>7 DEF IInv

\* A request with a tombstone is not submitted.
LEMMA DispatchKeeps ==
    ASSUME IInv, NEW l \in Lives, Dispatch(l)
    PROVE  IInv'
<1> USE ThreadedAssumption DEF Begun
<1>1. Shapes'
    BY DEF Dispatch, Tombstone, IInv, Shapes
<1>2. InboxIsExact'
    BY <1>1 DEF Dispatch, Tombstone, IInv, Shapes, InboxIsExact
<1>3. Progress'
    BY <1>1 DEF Dispatch, Tombstone, IInv, Shapes, Progress, PendingIsExact,
        OneLive, Live
<1>4. PendingIsExact'
    BY <1>1 DEF Dispatch, Tombstone, IInv, Shapes, PendingIsExact, Progress
<1>5. OneLive'
    BY <1>1 DEF Dispatch, Tombstone, IInv, Shapes, OneLive, Live, Progress
<1>6. Marked'
    BY <1>1 DEF Dispatch, Tombstone, IInv, Shapes, Marked, Progress, OneLive, Live
<1>7. TombstonesMeet'
    BY <1>1 DEF Dispatch, Tombstone, IInv, Shapes, TombstonesMeet
<1> QED
    BY <1>1, <1>2, <1>3, <1>4, <1>5, <1>6, <1>7 DEF IInv

\* Futures that have not begun to run are cancelled.
LEMMA ShutdownKeeps ==
    ASSUME IInv, Shutdown
    PROVE  IInv'
<1> USE ThreadedAssumption DEF Begun
<1>1. Shapes'
    BY DEF Shutdown, tombstones, IInv, Shapes
<1>2. InboxIsExact'
    BY <1>1 DEF Shutdown, tombstones, IInv, Shapes, InboxIsExact
<1>3. Progress'
    BY <1>1 DEF Shutdown, tombstones, IInv, Shapes, Progress, PendingIsExact
<1>4. PendingIsExact'
    BY <1>1 DEF Shutdown, tombstones, IInv, Shapes, PendingIsExact, Progress
<1>5. OneLive'
    BY <1>1 DEF Shutdown, tombstones, IInv, Shapes, OneLive, Live, Progress
<1>6. Marked'
    BY <1>1 DEF Shutdown, tombstones, IInv, Shapes, Marked, Progress
<1>7. TombstonesMeet'
    BY <1>1 DEF Shutdown, tombstones, IInv, Shapes, TombstonesMeet
<1> QED
    BY <1>1, <1>2, <1>3, <1>4, <1>5, <1>6, <1>7 DEF IInv

\* The future can no longer be cancelled.
LEMMA RunKeeps ==
    ASSUME IInv, NEW l \in Lives, Run(l)
    PROVE  IInv'
<1> USE ThreadedAssumption DEF Begun
<1>1. Shapes'
    BY DEF Run, tombstones, IInv, Shapes
<1>2. InboxIsExact'
    BY <1>1 DEF Run, tombstones, IInv, Shapes, InboxIsExact
<1>3. Progress'
    BY <1>1 DEF Run, tombstones, IInv, Shapes, Progress, PendingIsExact
<1>4. PendingIsExact'
    BY <1>1 DEF Run, tombstones, IInv, Shapes, PendingIsExact, Progress
<1>5. OneLive'
    BY <1>1 DEF Run, tombstones, IInv, Shapes, OneLive, Live, Progress
<1>6. Marked'
    BY <1>1 DEF Run, tombstones, IInv, Shapes, Marked, Progress
<1>7. TombstonesMeet'
    BY <1>1 DEF Run, tombstones, IInv, Shapes, TombstonesMeet
<1> QED
    BY <1>1, <1>2, <1>3, <1>4, <1>5, <1>6, <1>7 DEF IInv

\* The future has its result.
LEMMA ReturnKeeps ==
    ASSUME IInv, NEW l \in Lives, Return(l)
    PROVE  IInv'
<1> USE ThreadedAssumption DEF Begun
<1>1. Shapes'
    BY DEF Return, tombstones, IInv, Shapes
<1>2. InboxIsExact'
    BY <1>1 DEF Return, tombstones, IInv, Shapes, InboxIsExact
<1>3. Progress'
    BY <1>1 DEF Return, tombstones, IInv, Shapes, Progress, PendingIsExact
<1>4. PendingIsExact'
    BY <1>1 DEF Return, tombstones, IInv, Shapes, PendingIsExact, Progress
<1>5. OneLive'
    <2>1. \A k \in Lives : Live(k)' => Live(k)
        BY DEF Return, tombstones, IInv, Shapes, Live
    <2> QED
        BY <2>1 DEF IInv, OneLive
<1>6. Marked'
    BY <1>1 DEF Return, tombstones, IInv, Shapes, Marked, Progress
<1>7. TombstonesMeet'
    BY <1>1 DEF Return, tombstones, IInv, Shapes, TombstonesMeet
<1> QED
    BY <1>1, <1>2, <1>3, <1>4, <1>5, <1>6, <1>7 DEF IInv

\* The future is looked up in both sets.
LEMMA FinishKeeps ==
    ASSUME IInv, NEW l \in Lives, Finish(l)
    PROVE  IInv'
<1> USE ThreadedAssumption DEF Begun
<1>1. Shapes'
    BY DEF Finish, In, Forgotten, IInv, Shapes
<1>2. InboxIsExact'
    BY <1>1 DEF Finish, In, Forgotten, IInv, Shapes, InboxIsExact
<1>3. Progress'
    BY <1>1 DEF Finish, In, Forgotten, IInv, Shapes, Progress, PendingIsExact
<1>4. PendingIsExact'
    BY <1>1 DEF Finish, In, Forgotten, IInv, Shapes, PendingIsExact, Progress
<1>5. OneLive'
    BY <1>1 DEF Finish, In, Forgotten, IInv, Shapes, OneLive, Live, Progress
<1>6. Marked'
    BY <1>1 DEF Finish, In, Forgotten, IInv, Shapes, Marked, Progress
<1>7. TombstonesMeet'
    BY <1>1 DEF Finish, In, Forgotten, IInv, Shapes, TombstonesMeet
<1> QED
    BY <1>1, <1>2, <1>3, <1>4, <1>5, <1>6, <1>7 DEF IInv

\* Only a request without a mark is answered.
LEMMA FinishEndsKeeps ==
    ASSUME IInv, NEW l \in Lives, FinishEnds(l)
    PROVE  IInv'
<1> USE ThreadedAssumption DEF Begun
<1>1. Shapes'
    BY DEF FinishEnds, tombstones, Cleaned, LivesOf, IInv, Shapes
<1>2. InboxIsExact'
    BY <1>1 DEF FinishEnds, tombstones, Cleaned, LivesOf, IInv, Shapes, InboxIsExact
<1>3. Progress'
    BY <1>1 DEF FinishEnds, tombstones, Cleaned, LivesOf, IInv, Shapes, Progress,
        PendingIsExact
<1>4. PendingIsExact'
    BY <1>1 DEF FinishEnds, tombstones, Cleaned, LivesOf, IInv, Shapes,
        PendingIsExact, Progress
<1>5. OneLive'
    BY <1>1 DEF FinishEnds, tombstones, Cleaned, LivesOf, IInv, Shapes, OneLive,
        Live, Progress
<1>6. Marked'
    BY <1>1 DEF FinishEnds, tombstones, Cleaned, LivesOf, IInv, Shapes, Marked,
        Progress
<1>7. TombstonesMeet'
    BY <1>1 DEF FinishEnds, tombstones, Cleaned, LivesOf, IInv, Shapes,
        TombstonesMeet
<1> QED
    BY <1>1, <1>2, <1>3, <1>4, <1>5, <1>6, <1>7 DEF IInv

\* A step that changes none of these variables.
LEMMA Untouched ==
    ASSUME IInv,
           UNCHANGED <<inbox, pending, queuedAborts, abortedFutures, state, finish, calling,
                       outbox, prepared, hit>>
    PROVE  IInv'
BY DEF IInv, Shapes, InboxIsExact, Progress, PendingIsExact, OneLive, Live, Marked,
    TombstonesMeet

\* Every step keeps the invariant.
LEMMA StepIInv == IInv /\ [Next]_vars => IInv'
<1> SUFFICES ASSUME IInv, [Next]_vars PROVE IInv'
    OBVIOUS
<1>1. CASE UNCHANGED vars
    BY <1>1, Untouched DEF vars, tombstones
<1>2. CASE StageThread
    <2>1. CASE Stop
        BY <2>1, Untouched DEF Stop, tombstones
    <2> QED
        BY <1>2, <2>1, EnqueueKeeps, AbortKeeps, AbortCancelsKeeps, AbortEndsKeeps
           DEF StageThread
<1>3. CASE SchedulerThread
    <2>1. ASSUME NEW l \in Lives, Attach(l) PROVE IInv'
        BY <2>1, Untouched DEF Attach, tombstones
    <2> QED
        BY <1>3, <2>1, ClaimKeeps, ShutdownKeeps, DispatchKeeps DEF SchedulerThread
<1>4. ASSUME NEW l \in Lives, PoolThread(l) PROVE IInv'
    BY <1>4, RunKeeps, ReturnKeeps, FinishKeeps, FinishEndsKeeps DEF PoolThread
<1> QED
    BY <1>1, <1>2, <1>3, <1>4 DEF Next

-----------------------------------------------------------------------------
\* The theorems.

\* The invariant holds throughout.
THEOREM Inductive == Spec => []IInv
BY InitIInv, StepIInv, PTL DEF Spec

-----------------------------------------------------------------------------
\* The keys of _speculative_aborts, in the order of their insertion.

Distinct(s) == \A i, j \in 1..Len(s) : s[i] = s[j] => i = j
Keys(s) == {s[i] : i \in 1..Len(s)}

\* One element less.
LEMMA RemovedAt ==
    ASSUME NEW s \in Seq(Ids), NEW i \in 1..Len(s)
    PROVE  /\ RemoveAt(s, i) \in Seq(Ids)
           /\ Len(RemoveAt(s, i)) = Len(s) - 1
           /\ \A j \in 1..(Len(s) - 1) :
                 RemoveAt(s, i)[j] = IF j < i THEN s[j] ELSE s[j + 1]
<1> DEFINE a == SubSeq(s, 1, i - 1)
           b == SubSeq(s, i + 1, Len(s))
<1>1. Len(s) \in Nat /\ i \in Nat /\ i <= Len(s) /\ i > 0
    OBVIOUS
<1>2. a \in Seq(Ids) /\ Len(a) = i - 1 /\ \A j \in 1..(i - 1) : a[j] = s[j]
    BY SubSeqProperties
<1>3. b \in Seq(Ids) /\ Len(b) = Len(s) - i /\ \A j \in 1..(Len(s) - i) : b[j] = s[i + j]
    BY SubSeqProperties
<1>4. RemoveAt(s, i) = a \o b
    BY DEF RemoveAt
<1> HIDE DEF a, b
<1>5. /\ a \o b \in Seq(Ids) /\ Len(a \o b) = Len(a) + Len(b)
      /\ \A j \in 1..(Len(a) + Len(b)) :
            (a \o b)[j] = IF j <= Len(a) THEN a[j] ELSE b[j - Len(a)]
    BY <1>2, <1>3, ConcatProperties
<1>6. ASSUME NEW j \in 1..(Len(s) - 1)
      PROVE  (a \o b)[j] = IF j < i THEN s[j] ELSE s[j + 1]
    <2>1. CASE j < i
        BY <2>1, <1>1, <1>2, <1>3, <1>5
    <2>2. CASE ~ (j < i)
        <3>1. j - (i - 1) \in 1..(Len(s) - i) /\ i + (j - (i - 1)) = j + 1
            BY <2>2, <1>1
        <3>2. (a \o b)[j] = b[j - (i - 1)]
            BY <2>2, <1>1, <1>2, <1>3, <1>5
        <3> QED
            BY <2>2, <3>1, <3>2, <1>3
    <2> QED
        BY <2>1, <2>2
<1> QED
    BY <1>1, <1>2, <1>3, <1>4, <1>5, <1>6

\* pop(r, None): the key is gone, and only that one.
LEMMA Popped ==
    ASSUME NEW s \in Seq(Ids), Distinct(s), NEW r
    PROVE  /\ RemoveFirst(s, r) \in Seq(Ids)
           /\ Distinct(RemoveFirst(s, r))
           /\ Keys(RemoveFirst(s, r)) \subseteq Keys(s) \ {r}
<1>1. CASE ~(\E i \in 1..Len(s) : s[i] = r)
    <2>1. RemoveFirst(s, r) = s
        BY <1>1 DEF RemoveFirst
    <2> QED
        BY <1>1, <2>1 DEF Keys
<1>2. ASSUME NEW i \in 1..Len(s), s[i] = r
      PROVE  /\ RemoveFirst(s, r) \in Seq(Ids)
             /\ Distinct(RemoveFirst(s, r))
             /\ Keys(RemoveFirst(s, r)) \subseteq Keys(s) \ {r}
    <2>1. {k \in 1..Len(s) : s[k] = r} = {i}
        BY <1>2 DEF Distinct
    <2>2. i \in Nat /\ i <= i
        OBVIOUS
    <2>3. Min({i}) = i
        BY <2>2 DEF Min
    <2>4. RemoveFirst(s, r) = RemoveAt(s, i)
        BY <1>2, <2>1, <2>3 DEF RemoveFirst, SelectInSeq
    <2>5. PICK t : t = RemoveFirst(s, r)
        OBVIOUS
    <2>6. /\ t \in Seq(Ids) /\ Len(t) = Len(s) - 1
          /\ \A j \in 1..(Len(s) - 1) : t[j] = IF j < i THEN s[j] ELSE s[j + 1]
        BY <2>4, <2>5, RemovedAt
    <2>7. Len(s) \in Nat /\ i \in 1..Len(s)
        OBVIOUS
    <2>8. ASSUME NEW j \in 1..Len(t)
          PROVE  \E k \in 1..Len(s) : /\ t[j] = s[k] /\ k # i
                                      /\ k = IF j < i THEN j ELSE j + 1
        BY <2>6, <2>7
    <2>9. Distinct(t)
        <3> SUFFICES ASSUME NEW j \in 1..Len(t), NEW k \in 1..Len(t), t[j] = t[k]
                     PROVE  j = k
            BY DEF Distinct
        <3>1. PICK m \in 1..Len(s) : t[j] = s[m] /\ m = IF j < i THEN j ELSE j + 1
            BY <2>8
        <3>2. PICK n \in 1..Len(s) : t[k] = s[n] /\ n = IF k < i THEN k ELSE k + 1
            BY <2>8
        <3>3. m = n
            BY <3>1, <3>2 DEF Distinct
        <3>4. j \in Nat /\ k \in Nat /\ i \in Nat
            BY <2>6
        <3> QED
            BY <3>1, <3>2, <3>3, <3>4
    <2>10. Keys(t) \subseteq Keys(s) \ {r}
        <3> SUFFICES ASSUME NEW j \in 1..Len(t)
                     PROVE  t[j] \in Keys(s) \ {r}
            BY DEF Keys
        <3>1. PICK k \in 1..Len(s) : t[j] = s[k] /\ k # i
            BY <2>8
        <3> QED
            BY <1>2, <3>1 DEF Keys, Distinct
    <2> QED
        BY <2>5, <2>6, <2>9, <2>10
<1> QED
    BY <1>1, <1>2

\* _record_speculative_abort: the oldest go, and the new one is the last.
LEMMA RecordedKeys ==
    ASSUME specAborts \in Seq(Ids), Distinct(specAborts), NEW r \in Ids
    PROVE  /\ Recorded(r) \in Seq(Ids)
           /\ Distinct(Recorded(r))
           /\ Keys(Recorded(r)) \subseteq Keys(specAborts) \cup {r}
<1> DEFINE lo == Len(specAborts) - Retained + 2
           s == SubSeq(specAborts, lo, Len(specAborts))
           kept == IF Len(specAborts) >= Limit THEN s ELSE specAborts
<1>1. CASE Contains(specAborts, r)
    BY <1>1 DEF Recorded
<1>2. CASE ~Contains(specAborts, r)
    <2>1. Recorded(r) = Append(kept, r)
        BY <1>2 DEF Recorded
    <2>2. PICK d \in Nat : /\ kept \in Seq(Ids)
                           /\ Len(kept) + d = Len(specAborts)
                           /\ \A j \in 1..Len(kept) : kept[j] = specAborts[d + j]
        <3>1. CASE Len(specAborts) >= Limit
            <4>1. /\ Len(specAborts) \in Nat /\ Retained \in Nat \ {0}
                  /\ Limit \in Nat /\ Retained <= Limit
                BY ThreadedAssumption
            <4>2. lo \in 1..(Len(specAborts) + 1) /\ lo - 1 \in Nat
                BY <3>1, <4>1
            <4>3. kept = s
                BY <3>1
            <4> HIDE DEF kept
            <4>4. /\ s \in Seq(Ids) /\ Len(s) = Len(specAborts) - lo + 1
                  /\ \A j \in 1..(Len(specAborts) - lo + 1) : s[j] = specAborts[lo + j - 1]
                <5> HIDE DEF lo
                <5> QED
                    BY <4>1, <4>2, SubSeqProperties
            <4> HIDE DEF s
            <4>5. Len(s) + (lo - 1) = Len(specAborts)
                BY <4>1, <4>2, <4>4
            <4>6. \A j \in 1..Len(s) : s[j] = specAborts[(lo - 1) + j]
                BY <4>1, <4>2, <4>4
            <4> QED
                BY <4>2, <4>3, <4>4, <4>5, <4>6
        <3>2. CASE ~(Len(specAborts) >= Limit)
            <4>1. kept = specAborts
                BY <3>2
            <4> HIDE DEF kept
            <4>2. /\ 0 \in Nat /\ kept \in Seq(Ids) /\ Len(kept) + 0 = Len(specAborts)
                  /\ \A j \in 1..Len(kept) : kept[j] = specAborts[0 + j]
                BY <4>1
            <4> QED
                BY <4>2
        <3> QED
            BY <3>1, <3>2
    <2> HIDE DEF kept
    <2>3. \A j \in 1..Len(kept) : d + j \in 1..Len(specAborts) /\ kept[j] # r
        BY <1>2, <2>2 DEF Contains
    <2>4. PICK t : t = Append(kept, r)
        OBVIOUS
    <2>5. /\ t \in Seq(Ids) /\ Len(t) = Len(kept) + 1 /\ Len(kept) \in Nat
          /\ \A j \in 1..Len(kept) : t[j] = kept[j]
          /\ t[Len(kept) + 1] = r
        BY <2>2, <2>4
    <2>6. Distinct(t)
        <3> SUFFICES ASSUME NEW j \in 1..Len(t), NEW k \in 1..Len(t), t[j] = t[k]
                     PROVE  j = k
            BY DEF Distinct
        <3>1. CASE j \in 1..Len(kept) /\ k \in 1..Len(kept)
            <4>1. specAborts[d + j] = specAborts[d + k]
                BY <2>2, <2>5, <3>1
            <4>2. d + j = d + k
                BY <2>3, <3>1, <4>1 DEF Distinct
            <4> QED
                BY <2>2, <4>2
        <3>2. CASE j \notin 1..Len(kept) \/ k \notin 1..Len(kept)
            <4>1. (j \in 1..Len(kept) \/ j = Len(kept) + 1) /\ (k \in 1..Len(kept) \/ k = Len(kept) + 1)
                BY <2>5
            <4> QED
                BY <2>3, <2>5, <3>2, <4>1
        <3> QED
            BY <3>1, <3>2
    <2>7. Keys(t) \subseteq Keys(specAborts) \cup {r}
        <3> SUFFICES ASSUME NEW j \in 1..Len(t), j # Len(kept) + 1
                     PROVE  t[j] \in Keys(specAborts)
            BY <2>5 DEF Keys
        <3>1. j \in 1..Len(kept)
            BY <2>5
        <3> QED
            BY <2>2, <2>3, <2>5, <3>1 DEF Keys
    <2> QED
        BY <2>1, <2>4, <2>5, <2>6, <2>7
<1> QED
    BY <1>1, <1>2

-----------------------------------------------------------------------------
\* Who is silenced.

\* A request of the id is in the inbox or in the hand of the scheduler.
Reached(r) == \E l \in Lives : Id(l) = r /\ state[l] \in {"inbox", "claimed"}

\* A speculative tombstone has no request to meet.
Speculative ==
    /\ specAborts \in Seq(Ids)
    /\ Distinct(specAborts)
    /\ \A r \in Keys(specAborts) : ~Reached(r)

\* The others meet only a request that the abort was for.
Aimed ==
    \A l \in Lives : state[l] \in {"inbox", "claimed"} /\ Id(l) \in queuedAborts => l \in hit

\* The request will not be answered, or the call of abort() that runs cancels it.
Silent(l) ==
    \/ state[l] \in {"suppressed", "cancelled"}
    \/ l \in abortedFutures
    \/ l = calling.future
    \/ finish[l] = "drop"
    \/ finish[l] = "end" /\ l \notin outbox

Justified == \A l \in Lives : Silent(l) => l \in hit \/ running = "no"

SilenceInv == Speculative /\ Aimed /\ Justified

\* A step after which no request is in the inbox or silent that was not before,
\* and no tombstone is new.
LEMMA SilenceKept ==
    ASSUME SilenceInv,
           specAborts' = specAborts, queuedAborts' \subseteq queuedAborts,
           hit \subseteq hit', running = "no" => running' = "no",
           \A l \in Lives : state'[l] \in {"inbox", "claimed"} => state[l] \in {"inbox", "claimed"},
           \A l \in Lives : Silent(l)' => Silent(l)
    PROVE  SilenceInv'
<1>1. \A r : Reached(r)' => Reached(r)
    BY DEF Reached
<1>2. Speculative'
    BY <1>1 DEF SilenceInv, Speculative
<1>3. Aimed'
    BY DEF SilenceInv, Aimed
<1>4. Justified'
    BY DEF SilenceInv, Justified
<1> QED
    BY <1>2, <1>3, <1>4 DEF SilenceInv

\* A speculative tombstone of the id becomes one that meets this request.
LEMMA EnqueueSilence ==
    ASSUME IInv, SilenceInv, NEW l \in Lives, Enqueue(l)
    PROVE  SilenceInv'
<1>1. /\ state[l] = "new" /\ state' = [state EXCEPT ![l] = "inbox"]
      /\ specAborts' = RemoveFirst(specAborts, Id(l))
      /\ UNCHANGED <<running, abortedFutures, finish, calling, outbox>>
      /\ queuedAborts' \subseteq queuedAborts \cup {Id(l)}
      /\ hit \subseteq hit'
    BY DEF Enqueue
<1>2. state' \in [Lives -> {"new", "inbox", "claimed", "suppressed"} \cup Begun]
    BY <1>1 DEF IInv, Shapes
<1>3. /\ state'[l] = "inbox"
      /\ \A k \in Lives : k # l => state'[k] = state[k]
    BY <1>1 DEF IInv, Shapes
<1>4. ASSUME NEW k \in Lives, k # l, Id(k) = Id(l)
      PROVE  state[k] \notin {"inbox", "claimed"}
    <2>1. In(k, {"new", "suppressed"}) \/ k \in abortedFutures \/ finish[k] \in {"drop", "end"}
        BY <1>4 DEF Enqueue, MayBeReused, LivesOf
    <2>2. state[k] \notin Begun => finish[k] = "no" /\ k \notin abortedFutures
        BY DEF IInv, Progress
    <2> QED
        BY <2>1, <2>2 DEF In, Begun
<1>5. Speculative'
    <2>1. /\ specAborts' \in Seq(Ids) /\ Distinct(specAborts')
          /\ Keys(specAborts') \subseteq Keys(specAborts) \ {Id(l)}
        BY <1>1, Popped DEF SilenceInv, Speculative
    <2>2. \A r : r # Id(l) /\ Reached(r)' => Reached(r)
        BY <1>3 DEF Reached
    <2> QED
        BY <2>1, <2>2 DEF SilenceInv, Speculative
<1>6. Aimed'
    <2>1. ASSUME NEW k \in Lives, k # l, state'[k] \in {"inbox", "claimed"}, Id(k) \in queuedAborts'
          PROVE  k \in hit'
        <3>1. state[k] \in {"inbox", "claimed"}
            BY <1>3, <2>1
        <3>2. Id(k) \in queuedAborts
            BY <1>1, <1>4, <2>1, <3>1
        <3> QED
            BY <1>1, <3>1, <3>2 DEF SilenceInv, Aimed
    <2>2. ASSUME Id(l) \in queuedAborts'
          PROVE  l \in hit'
        <3>1. Id(l) \notin queuedAborts
            <4> SUFFICES ASSUME Id(l) \in queuedAborts PROVE FALSE
                OBVIOUS
            <4>1. PICK k \in Lives : Id(k) = Id(l) /\ state[k] \in {"inbox", "claimed"}
                BY DEF IInv, TombstonesMeet
            <4> QED
                BY <1>1, <1>4, <4>1
        <3> QED
            BY <2>2, <3>1 DEF Enqueue
    <2> QED
        BY <2>1, <2>2 DEF Aimed
<1>7. Justified'
    <2>1. ASSUME NEW k \in Lives, Silent(k)'
          PROVE  Silent(k)
        <3>1. CASE k = l
            BY <1>1, <1>3, <2>1, <3>1 DEF Silent
        <3>2. CASE k # l
            BY <1>1, <1>3, <2>1, <3>2 DEF Silent
        <3> QED
            BY <3>1, <3>2
    <2> QED
        BY <1>1, <2>1 DEF SilenceInv, Justified
<1> QED
    BY <1>5, <1>6, <1>7 DEF SilenceInv

\* Whatever the abort leaves, it counts for the request that it meets.
LEMMA AbortSilence ==
    ASSUME IInv, SilenceInv, NEW r \in Ids, Abort(r)
    PROVE  SilenceInv'
<1>1. /\ calling' = [id |-> r, future |-> pending[r]]
      /\ hit' = hit \cup {l \in LivesOf(r) : InTime(l)}
      /\ UNCHANGED <<running, state, finish, outbox>>
    BY DEF Abort
<1>2. ASSUME pending[r] # None
      PROVE  pending[r] \in Lives /\ (pending[r] \in hit' \/ running' = "no")
    <2>1. PICK f : f = pending[r]
        OBVIOUS
    <2>2. f \in Lives /\ Id(f) = r /\ state[f] \in Begun /\ finish[f] = "no"
        BY <1>2, <2>1 DEF IInv, Shapes, PendingIsExact
    <2>3. CASE state[f] = "cancelled"
        BY <1>1, <2>1, <2>2, <2>3 DEF SilenceInv, Justified, Silent
    <2>4. CASE state[f] # "cancelled"
        BY <1>1, <2>1, <2>2, <2>4 DEF InTime, In, LivesOf, Begun
    <2> QED
        BY <2>1, <2>2, <2>3, <2>4
<1>3. calling'.future = pending[r] /\ None \notin Lives
    BY <1>1, ThreadedAssumption
<1>4. Justified'
    <2> SUFFICES ASSUME NEW l \in Lives, Silent(l)'
                 PROVE  l \in hit' \/ running' = "no"
        BY DEF Justified
    <2>1. CASE l = pending[r]
        BY <1>2, <1>3, <2>1
    <2>2. CASE l # pending[r]
        <3>1. l \in abortedFutures' => l \in abortedFutures
            BY <2>2 DEF Abort
        <3>2. Silent(l)
            BY <1>1, <1>3, <2>2, <3>1 DEF Silent
        <3> QED
            BY <1>1, <3>2 DEF SilenceInv, Justified
    <2> QED
        BY <2>1, <2>2
<1>5. Aimed'
    <2> SUFFICES ASSUME NEW l \in Lives, state[l] \in {"inbox", "claimed"}, Id(l) \in queuedAborts',
                        l \notin hit
                 PROVE  l \in hit'
        BY <1>1 DEF Aimed
    <2>1. Id(l) \notin queuedAborts
        BY DEF SilenceInv, Aimed
    <2>2. Id(l) = r
        BY <2>1 DEF Abort
    <2> QED
        BY <1>1, <2>2 DEF InTime, In, LivesOf
<1>6. Speculative'
    <2>1. \A k : Reached(k)' <=> Reached(k)
        BY <1>1 DEF Reached
    <2>2. CASE specAborts' = specAborts
        BY <2>1, <2>2 DEF SilenceInv, Speculative
    <2>3. CASE specAborts' = Recorded(r) /\ ~IsReachable(r)
        <3>1. /\ specAborts' \in Seq(Ids) /\ Distinct(specAborts')
              /\ Keys(specAborts') \subseteq Keys(specAborts) \cup {r}
            BY <2>3, RecordedKeys DEF SilenceInv, Speculative
        <3>2. ~Reached(r)
            BY <2>3 DEF IsReachable, LivesOf, In, Reached
        <3> QED
            BY <2>1, <3>1, <3>2 DEF SilenceInv, Speculative
    <2> QED
        BY <2>2, <2>3 DEF Abort
<1> QED
    BY <1>4, <1>5, <1>6 DEF SilenceInv

\* The request that a tombstone meets is the one the abort was for.
LEMMA DispatchSilence ==
    ASSUME IInv, SilenceInv, NEW l \in Lives, Dispatch(l)
    PROVE  SilenceInv'
<1>1. /\ state[l] = "claimed"
      /\ UNCHANGED <<running, abortedFutures, finish, calling, outbox, hit>>
    BY DEF Dispatch
<1>2. CASE Tombstone(Id(l))
    <2>1. /\ queuedAborts' = queuedAborts \ {Id(l)}
          /\ specAborts' = RemoveFirst(specAborts, Id(l))
          /\ state' = [state EXCEPT ![l] = "suppressed"]
        BY <1>2 DEF Dispatch
    <2>2. state'[l] = "suppressed" /\ \A k \in Lives : k # l => state'[k] = state[k]
        BY <2>1 DEF IInv, Shapes
    <2>3. l \in hit
        <3>1. Id(l) \notin Keys(specAborts)
            BY <1>1 DEF SilenceInv, Speculative, Reached
        <3>2. ~Contains(specAborts, Id(l))
            BY <3>1 DEF Contains, Keys
        <3>3. Id(l) \in queuedAborts
            BY <1>2, <3>2 DEF Tombstone
        <3> QED
            BY <1>1, <3>3 DEF SilenceInv, Aimed
    <2>4. Speculative'
        <3>1. /\ specAborts' \in Seq(Ids) /\ Distinct(specAborts')
              /\ Keys(specAborts') \subseteq Keys(specAborts)
            BY <2>1, Popped DEF SilenceInv, Speculative
        <3>2. \A r : Reached(r)' => Reached(r)
            BY <2>2 DEF Reached
        <3> QED
            BY <3>1, <3>2 DEF SilenceInv, Speculative
    <2>5. Aimed'
        BY <1>1, <2>1, <2>2 DEF SilenceInv, Aimed
    <2>6. Justified'
        <3>1. ASSUME NEW k \in Lives, k # l, Silent(k)'
              PROVE  Silent(k)
            BY <1>1, <2>2, <3>1 DEF Silent
        <3> QED
            BY <1>1, <2>3, <3>1 DEF SilenceInv, Justified
    <2> QED
        BY <2>4, <2>5, <2>6 DEF SilenceInv
<1>3. CASE ~Tombstone(Id(l))
    <2>1. /\ state' = [state EXCEPT ![l] = "submitted"]
          /\ UNCHANGED <<queuedAborts, specAborts>>
        BY <1>3 DEF Dispatch
    <2>2. state'[l] = "submitted" /\ \A k \in Lives : k # l => state'[k] = state[k]
        BY <2>1 DEF IInv, Shapes
    <2>3. \A k \in Lives : Silent(k)' => Silent(k)
        BY <1>1, <2>2 DEF Silent
    <2> QED
        BY <1>1, <2>1, <2>2, <2>3, SilenceKept
<1> QED
    BY <1>2, <1>3

\* The thread of the scheduler takes a request out of the inbox.
LEMMA ClaimSilence ==
    ASSUME IInv, SilenceInv, Claim
    PROVE  SilenceInv'
<1>1. PICK h \in Lives : state[h] = "inbox" /\ state' = [state EXCEPT ![h] = "claimed"]
    <2>1. 1 \in 1..Len(inbox) /\ Head(inbox) = inbox[1] /\ inbox[1] \in Lives
        BY DEF Claim, IInv, Shapes
    <2> QED
        BY <2>1 DEF Claim, IInv, InboxIsExact
<1>2. UNCHANGED <<running, queuedAborts, specAborts, abortedFutures, finish, calling, outbox, hit>>
    BY DEF Claim, tombstones
<1>3. state'[h] = "claimed" /\ \A k \in Lives : k # h => state'[k] = state[k]
    BY <1>1 DEF IInv, Shapes
<1>4. \A k \in Lives : Silent(k)' => Silent(k)
    BY <1>2, <1>3 DEF Silent
<1> QED
    BY <1>1, <1>2, <1>3, <1>4, SilenceKept

\* The threads of the pool: only what was silent is dropped.
LEMMA PoolSilence ==
    ASSUME IInv, SilenceInv, NEW l \in Lives, PoolThread(l)
    PROVE  SilenceInv'
<1>1. CASE Run(l) \/ Return(l)
    <2>1. /\ state[l] \in {"submitted", "running"}
          /\ UNCHANGED <<running, queuedAborts, specAborts, abortedFutures, finish, calling,
                         outbox, hit>>
        BY <1>1 DEF Run, Return, tombstones
    <2>2. PICK t \in {"running", "done", "failed"} : state' = [state EXCEPT ![l] = t]
        BY <1>1 DEF Run, Return
    <2>3. state'[l] = t /\ \A k \in Lives : k # l => state'[k] = state[k]
        BY <2>2 DEF IInv, Shapes
    <2>4. \A k \in Lives : Silent(k)' => Silent(k)
        BY <2>1, <2>3 DEF Silent
    <2> QED
        BY <2>1, <2>3, <2>4, SilenceKept
<1>2. CASE Finish(l)
    <2>1. /\ abortedFutures' \subseteq abortedFutures
          /\ UNCHANGED <<running, queuedAborts, specAborts, state, calling, outbox, hit>>
        BY <1>2 DEF Finish
    <2>2. /\ finish'[l] \in {"drop", "emit"}
          /\ finish'[l] = "drop" => Silent(l)
          /\ \A k \in Lives : k # l => finish'[k] = finish[k]
        BY <1>2 DEF Finish, IInv, Shapes, Silent
    <2>3. \A k \in Lives : Silent(k)' => Silent(k)
        BY <2>1, <2>2 DEF Silent
    <2> QED
        BY <2>1, <2>3, SilenceKept
<1>3. CASE FinishEnds(l)
    <2>1. UNCHANGED <<running, queuedAborts, specAborts, abortedFutures, state, calling, hit>>
        BY <1>3 DEF FinishEnds, tombstones
    <2>2. /\ outbox \subseteq outbox'
          /\ finish[l] = "drop" \/ l \in outbox'
          /\ finish'[l] = "end"
          /\ \A k \in Lives : k # l => finish'[k] = finish[k]
        BY <1>3 DEF FinishEnds, IInv, Shapes
    <2>3. \A k \in Lives : Silent(k)' => Silent(k)
        BY <2>1, <2>2 DEF Silent
    <2> QED
        BY <2>1, <2>3, SilenceKept
<1> QED
    BY <1>1, <1>2, <1>3 DEF PoolThread

\* Only the future of the call is cancelled, or all when the scheduler has ended.
LEMMA CancelSilence ==
    ASSUME IInv, SilenceInv, AbortCancels \/ AbortEnds \/ Shutdown
    PROVE  SilenceInv'
<1>1. CASE AbortCancels
    <2>1. /\ UNCHANGED <<running, queuedAborts, specAborts, abortedFutures, finish, outbox, hit>>
          /\ calling'.future \notin Lives
        BY <1>1, ThreadedAssumption DEF AbortCancels, tombstones, IInv, Shapes
    <2>2. \A k \in Lives : k # calling.future => state'[k] = state[k]
        BY <1>1 DEF AbortCancels, Cancelled, IInv, Shapes
    <2>3. \A k \in Lives : Silent(k)' => Silent(k)
        BY <2>1, <2>2 DEF Silent
    <2>4. \A k \in Lives : state'[k] \in {"inbox", "claimed"} => state[k] \in {"inbox", "claimed"}
        BY <1>1 DEF AbortCancels, Cancelled, IInv, Shapes
    <2> QED
        BY <2>1, <2>3, <2>4, SilenceKept
<1>2. CASE AbortEnds
    <2>1. /\ UNCHANGED <<running, queuedAborts, specAborts, abortedFutures, state, finish, outbox,
                         hit>>
          /\ calling'.future \notin Lives
        BY <1>2, ThreadedAssumption DEF AbortEnds, NoCall, tombstones
    <2>2. \A k \in Lives : Silent(k)' => Silent(k)
        BY <2>1 DEF Silent
    <2> QED
        BY <2>1, <2>2, SilenceKept
<1>3. CASE Shutdown
    <2>1. /\ running' = "no" /\ UNCHANGED <<queuedAborts, specAborts, hit>>
          /\ \A k \in Lives : state'[k] \in {"inbox", "claimed"} => state[k] \in {"inbox", "claimed"}
        BY <1>3 DEF Shutdown, tombstones
    <2>2. Speculative'
        <3>1. \A r : Reached(r)' => Reached(r)
            BY <2>1 DEF Reached
        <3> QED
            BY <2>1, <3>1 DEF SilenceInv, Speculative
    <2>3. Aimed' /\ Justified'
        BY <2>1 DEF SilenceInv, Aimed, Justified
    <2> QED
        BY <2>2, <2>3 DEF SilenceInv
<1> QED
    BY <1>1, <1>2, <1>3

\* Whoever is silenced has been hit by an abort, unless the scheduler has ended.
THEOREM SilenceIsJustified == Spec => []SilenceInv
<1>1. Init => SilenceInv
    <2> SUFFICES ASSUME Init PROVE SilenceInv
        OBVIOUS
    <2>1. specAborts = <<>> /\ specAborts \in Seq(Ids) /\ Len(specAborts) = 0
        BY DEF Init
    <2>2. Speculative
        BY <2>1 DEF Speculative, Distinct, Keys
    <2>3. Aimed
        BY DEF Init, Aimed
    <2>4. Justified
        BY ThreadedAssumption DEF Init, NoCall, Justified, Silent
    <2> QED
        BY <2>2, <2>3, <2>4 DEF SilenceInv
<1>2. ASSUME IInv, SilenceInv, [Next]_vars
      PROVE  SilenceInv'
    <2>1. ASSUME UNCHANGED <<queuedAborts, specAborts, abortedFutures, state, finish, calling,
                             outbox, hit>>,
                 running = "no" => running' = "no"
          PROVE  SilenceInv'
        <3>1. \A k \in Lives : Silent(k)' => Silent(k)
            BY <2>1 DEF Silent
        <3> QED
            BY <1>2, <2>1, <3>1, SilenceKept
    <2>2. CASE UNCHANGED vars
        BY <2>1, <2>2 DEF vars, tombstones
    <2>3. CASE StageThread
        <3>1. CASE Stop
            BY <2>1, <3>1 DEF Stop, tombstones
        <3> QED
            BY <1>2, <2>3, <3>1, EnqueueSilence, AbortSilence, CancelSilence DEF StageThread
    <2>4. CASE SchedulerThread
        <3>1. ASSUME NEW l \in Lives, Attach(l) PROVE SilenceInv'
            BY <2>1, <3>1 DEF Attach, tombstones
        <3> QED
            BY <1>2, <2>4, <3>1, ClaimSilence, CancelSilence, DispatchSilence DEF SchedulerThread
    <2> QED
        BY <1>2, <2>2, <2>3, <2>4, PoolSilence DEF Next
<1> QED
    BY <1>1, <1>2, Inductive, PTL DEF Spec

\* A request that is aborted in time is never answered, wherever the abort
\* meets it and whatever is evicted or ends late; and the abort of an older
\* request of its id never silences another one.
THEOREM AbortsExact == Spec => []AbortsAreExact
<1>1. ASSUME IInv, SilenceInv
      PROVE  AbortsAreExact
    <2>1. outbox \cap hit = {}
        BY <1>1 DEF IInv, Marked
    <2> QED
        BY <1>1, <2>1 DEF SilenceInv, Justified, Silent, AbortsAreExact
<1> QED
    BY <1>1, Inductive, SilenceIsJustified, PTL

\* When all requests are over, no future, no tombstone of a request that was
\* seen and nothing prepared for a request without an answer is left.
THEOREM AllCleanedUp == Spec => []NothingIsLeft
<1>1. IInv => NothingIsLeft
    <2> SUFFICES ASSUME IInv,
                        \A l \in Lives : In(l, {"new", "suppressed"}) \/ finish[l] = "end"
                 PROVE  /\ \A r \in Ids : pending[r] = None
                        /\ queuedAborts = {} /\ abortedFutures = {}
                        /\ prepared \subseteq outbox
        BY DEF NothingIsLeft
    <2>1. \A r \in Ids : pending[r] = None
        BY DEF IInv, Shapes, PendingIsExact, In, Begun
    <2>2. queuedAborts = {}
        BY DEF IInv, Progress, TombstonesMeet, In, Begun
    <2>3. abortedFutures = {}
        BY DEF IInv, Shapes, Progress, In, Begun
    <2>4. prepared \subseteq outbox
        BY DEF IInv, Shapes, Progress, In
    <2> QED
        BY <2>1, <2>2, <2>3, <2>4
<1> QED
    BY <1>1, Inductive, PTL

=============================================================================
