---------------------------- MODULE AdminControl ----------------------------
(***************************************************************************)
(* Administrative operations, from Coordinator.admin() over the control    *)
(* plane of a stage to the scheduler threads of its tensor-parallel ranks  *)
(* and back:                                                               *)
(*                                                                         *)
(*   pipeline/coordinator.py     admin, _handle_admin_result,              *)
(*                               _aggregate_admin_results                  *)
(*   pipeline/stage/runtime.py   run, _on_admin, _run_admin_operation      *)
(*   pipeline/tp_control.py      TPLeaderFanout, TPFollowerControlPlane    *)
(*   scheduling/omni_scheduler.py  _enqueue_admin, _process_admin_requests *)
(*                                                                         *)
(* The coordinator, every rank's event loop and every scheduler thread run *)
(* concurrently; each of the three waits on the way back has a timeout of  *)
(* its own.  The leader rank of a stage has the stage's name.              *)
(***************************************************************************)
EXTENDS Naturals, FiniteSets, SequencesExt

CONSTANTS
    Ops,          \* calls of admin(), each with a fresh op_id
    Stages,       \* registered stage instances, and the names of their leaders
    Followers,    \* ranks other than the leaders
    FollowersOf,  \* stage -> its TP followers
    Capable,      \* stages whose scheduler has an admin() method
    Kinds,        \* the kinds of action callers ask for
    Outcomes,     \* how a scheduler may end an operation it knows
    None,
    MayGiveUp     \* may a call be cancelled, or a send of it fail?

ASSUME AdminAssumption ==
    /\ Stages \cap Followers = {}
    /\ FollowersOf \in [Stages -> SUBSET Followers]
    /\ \A s, t \in Stages : s # t => FollowersOf[s] \cap FollowersOf[t] = {}
    /\ \A f \in Followers : \E s \in Stages : f \in FollowersOf[s]
    /\ Capable \subseteq Stages
    /\ Kinds \subseteq {"query", "update", "unknown"}
    /\ Outcomes \subseteq {"ok", "fail"}
    /\ None \notin Ops
    /\ MayGiveUp \in BOOLEAN

VARIABLES
    lock,         \* _admin_lock: its holder, then those that wait, in order
    pc,           \* where a call of admin() is
    kind,         \* its action: an is_update_action, another, or an unknown one
    targets,      \* its expected_stages
    sent,         \* the stages it has sent its operation to
    admin_ops,    \* _admin_ops
    results,      \* pending.results of a call
    resolved,     \* calls whose pending.future has its result
    verdict,      \* what admin() returned, or that it raised
    inbox,        \* rank -> operations its control plane has not received
    busy,         \* rank -> operation its event loop is in _on_admin with
    local,        \* rank -> outcome of _run_admin_operation, once it has one
    admin_queue,  \* rank -> _admin_queue of its scheduler
    answers,      \* follower -> its admin_result_queue
    got,          \* follower -> answer the leader has taken from that queue
    replies,      \* stage -> its AdminResultMessages on their way
    log,          \* history: rank -> what it has run or skipped, in order
    late          \* history: <<stage, op>> on which a wait of the stage timed out

calls == <<lock, pc, kind, targets, sent, admin_ops, results, resolved, verdict>>
ranks == <<inbox, busy, local, admin_queue, answers, got>>
vars == <<calls, ranks, replies, log, late>>

Ranks == Stages \cup Followers

StageOf(k) ==
    IF k \in Stages THEN k ELSE CHOOSE s \in Stages : k \in FollowersOf[s]

RanksOf(s) == {s} \cup FollowersOf[s]

\* An AdminResult: its success, and whether its data says skipped/unsupported.
Result == {"ok", "fail", "skip", "skipfail"}
Successful == {"ok", "skip"}
Skipped == {"skip", "skipfail"}

Answer == [op : Ops, res : Result]

TypeOK ==
    /\ lock \in Seq(Ops)
    /\ pc \in [Ops -> {"idle", "lock", "send", "wait", "done"}]
    /\ kind \in [Ops -> Kinds \cup {"query"}]
    /\ targets \in [Ops -> SUBSET Stages]
    /\ sent \in [Ops -> SUBSET Stages]
    /\ admin_ops \in SUBSET Ops
    /\ results \in [Ops -> [Stages -> Result \cup {"none"}]]
    /\ resolved \in SUBSET Ops
    /\ verdict \in [Ops -> {"none", "success", "failure", "raised"}]
    /\ inbox \in [Ranks -> Seq(Ops)]
    /\ busy \in [Ranks -> Ops \cup {None}]
    /\ local \in [Ranks -> Result \cup {"none"}]
    /\ admin_queue \in [Ranks -> Seq(Ops)]
    /\ answers \in [Followers -> Seq(Answer)]
    /\ got \in [Followers -> Answer \cup {None}]
    /\ replies \in [Stages -> Seq(Answer)]
    /\ log \in [Ranks -> Seq(Answer)]
    /\ late \in SUBSET (Stages \X Ops)

Init ==
    /\ lock = <<>>
    /\ pc = [o \in Ops |-> "idle"]
    /\ kind = [o \in Ops |-> "query"]
    /\ targets = [o \in Ops |-> {}]
    /\ sent = [o \in Ops |-> {}]
    /\ admin_ops = {}
    /\ results = [o \in Ops |-> [s \in Stages |-> "none"]]
    /\ resolved = {}
    /\ verdict = [o \in Ops |-> "none"]
    /\ inbox = [k \in Ranks |-> <<>>]
    /\ busy = [k \in Ranks |-> None]
    /\ local = [k \in Ranks |-> "none"]
    /\ admin_queue = [k \in Ranks |-> <<>>]
    /\ answers = [f \in Followers |-> <<>>]
    /\ got = [f \in Followers |-> None]
    /\ replies = [s \in Stages |-> <<>>]
    /\ log = [k \in Ranks |-> <<>>]
    /\ late = {}

-----------------------------------------------------------------------------
\* Coordinator.admin().  A definition named Faulty... is what its successor
\* would be with a plausible bug; only the mutation runs use it.

\* The coordinator is not running, or the targets are unknown or none.
Reject(o) ==
    /\ pc[o] = "idle"
    /\ pc' = [pc EXCEPT ![o] = "done"]
    /\ verdict' = [verdict EXCEPT ![o] = "raised"]
    /\ UNCHANGED <<lock, kind, targets, sent, admin_ops, results, resolved,
                   ranks, replies, log, late>>

\* Up to `async with self._admin_lock`: asyncio.Lock serves its waiters in the
\* order in which they came.
Call(o) ==
    /\ pc[o] = "idle"
    /\ pc' = [pc EXCEPT ![o] = "lock"]
    /\ lock' = Append(lock, o)
    /\ \E T \in SUBSET Stages \ {{}}, k \in Kinds :
          /\ targets' = [targets EXCEPT ![o] = T]
          /\ kind' = [kind EXCEPT ![o] = k]
    /\ UNCHANGED <<sent, admin_ops, results, resolved, verdict, ranks,
                   replies, log, late>>

\* No lock: operations of different calls are sent at the same time.
FaultyHoldsLock(o) == TRUE

HoldsLock(o) == Head(lock) = o

Acquire(o) ==
    /\ pc[o] = "lock"
    /\ HoldsLock(o)
    /\ admin_ops' = admin_ops \cup {o}
    /\ pc' = [pc EXCEPT ![o] = "send"]
    /\ UNCHANGED <<lock, kind, targets, sent, results, resolved, verdict,
                   ranks, replies, log, late>>

\* One turn of the loop over target_stages.
Send(o, s) ==
    /\ pc[o] = "send"
    /\ s \in targets[o] \ sent[o]
    /\ sent' = [sent EXCEPT ![o] = @ \cup {s}]
    /\ inbox' = [inbox EXCEPT ![s] = Append(@, o)]
    /\ pc' = [pc EXCEPT ![o] =
                 IF targets[o] \subseteq sent[o] \cup {s} THEN "wait" ELSE "send"]
    /\ UNCHANGED <<lock, kind, targets, admin_ops, results, resolved, verdict,
                   busy, local, admin_queue, answers, got, replies, log, late>>

\* The finally block: the operation is forgotten and the lock is released.
Leave(o, how) ==
    /\ pc' = [pc EXCEPT ![o] = "done"]
    /\ verdict' = [verdict EXCEPT ![o] = how]
    /\ admin_ops' = admin_ops \ {o}
    /\ \E i \in 1..Len(lock) : lock[i] = o /\ lock' = RemoveAt(lock, i)
    /\ UNCHANGED <<kind, targets, sent, results, resolved, ranks, replies,
                   log, late>>

\* updated_results
Updated(o) == {s \in targets[o] : results[o][s] \notin Skipped}

\* _aggregate_admin_results
Aggregate(o) ==
    LET counted == IF kind[o] = "update" THEN Updated(o) ELSE targets[o]
    IN  IF /\ \A s \in counted : results[o][s] \in Successful
           /\ kind[o] = "update" => counted # {}
        THEN "success" ELSE "failure"

Return(o) ==
    /\ pc[o] = "wait"
    /\ o \in resolved
    /\ Leave(o, Aggregate(o))

\* wait_for waits without a limit.
FaultyTimesOut(o) == FALSE

\* asyncio.wait_for(pending.future, timeout=timeout_s) gives up.
TimesOut(o) == pc[o] = "wait" /\ o \notin resolved

\* The wait times out; or a send raises or the call is cancelled meanwhile.
Raise(o) ==
    /\ \/ TimesOut(o)
       \/ MayGiveUp /\ pc[o] \in {"lock", "send", "wait"}
    /\ Leave(o, "raised")

\* _handle_admin_result, in the coordinator's completion loop.
HandleAdminResult(s) ==
    LET a == Head(replies[s])
        seen == [results EXCEPT ![a.op][s] = a.res]
    IN  /\ replies[s] # <<>>
        /\ replies' = [replies EXCEPT ![s] = Tail(@)]
        /\ \/ /\ a.op \notin admin_ops
              /\ UNCHANGED <<results, resolved>>
           \/ /\ a.op \in admin_ops
              /\ results' = seen
              /\ resolved' =
                    IF \A t \in targets[a.op] : seen[a.op][t] # "none"
                    THEN resolved \cup {a.op} ELSE resolved
        /\ UNCHANGED <<lock, pc, kind, targets, sent, admin_ops, verdict,
                       ranks, log, late>>

-----------------------------------------------------------------------------
\* Stage.run and Stage._on_admin on a rank, and its scheduler thread.

\* The message loop of a rank takes an operation; a leader mirrors it to its
\* followers first.  The scheduler of the rank gets it, if it is capable;
\* otherwise the rank skips it.
Receive(k) ==
    LET o == Head(inbox[k])
        mirrors == IF k \in Stages THEN FollowersOf[k] ELSE {}
    IN  /\ busy[k] = None
        /\ inbox[k] # <<>>
        /\ inbox' = [j \in Ranks |-> IF j = k THEN Tail(inbox[k])
                                     ELSE IF j \in mirrors THEN Append(inbox[j], o)
                                     ELSE inbox[j]]
        /\ busy' = [busy EXCEPT ![k] = o]
        /\ \/ /\ StageOf(k) \in Capable
              /\ admin_queue' = [admin_queue EXCEPT ![k] = Append(@, o)]
              /\ UNCHANGED <<local, log>>
           \/ /\ StageOf(k) \notin Capable
              /\ local' = [local EXCEPT ![k] = "skip"]
              /\ log' = [log EXCEPT ![k] = Append(@, [op |-> o, res |-> "skip"])]
              /\ UNCHANGED admin_queue
        /\ UNCHANGED <<calls, answers, got, replies, late>>

\* _process_admin_requests on the scheduler thread: the operation is run and
\* its response_queue is filled, whether or not anybody still waits for it.
Run(k) ==
    LET o == Head(admin_queue[k])
    IN  /\ admin_queue[k] # <<>>
        /\ admin_queue' = [admin_queue EXCEPT ![k] = Tail(@)]
        /\ \E res \in IF kind[o] = "unknown" THEN {"skip"} ELSE Outcomes :
              /\ log' = [log EXCEPT ![k] = Append(@, [op |-> o, res |-> res])]
              /\ local' = IF busy[k] = o /\ local[k] = "none"
                          THEN [local EXCEPT ![k] = res] ELSE local
        /\ UNCHANGED <<calls, inbox, busy, answers, got, replies, late>>

\* _enqueue_admin gives up waiting; what it enqueued stays enqueued.
RunTimesOut(k) ==
    /\ busy[k] # None
    /\ local[k] = "none"
    /\ local' = [local EXCEPT ![k] = "fail"]
    /\ late' = late \cup {<<StageOf(k), busy[k]>>}
    /\ UNCHANGED <<calls, inbox, busy, admin_queue, answers, got, replies, log>>

\* A follower puts its result into its queue.
FollowerAnswers(f) ==
    /\ busy[f] # None
    /\ local[f] # "none"
    /\ answers' = [answers EXCEPT ![f] =
                      Append(@, [op |-> busy[f], res |-> local[f]])]
    /\ busy' = [busy EXCEPT ![f] = None]
    /\ local' = [local EXCEPT ![f] = "none"]
    /\ UNCHANGED <<calls, inbox, admin_queue, got, replies, log, late>>

\* collect_admin_results: q.get() of one follower's queue, in an executor.
Collect(s, f) ==
    /\ f \in FollowersOf[s]
    /\ local[s] # "none"
    /\ got[f] = None
    /\ answers[f] # <<>>
    /\ got' = [got EXCEPT ![f] = Head(answers[f])]
    /\ answers' = [answers EXCEPT ![f] = Tail(@)]
    /\ UNCHANGED <<calls, inbox, busy, local, admin_queue, replies, log, late>>

\* The op ids are not compared.
FaultySameOp(a, o) == TRUE

SameOp(a, o) == a.op = o

\* success of the stage's result; data, and with it "skipped", is the leader's.
Failed(res) == IF res \in Skipped THEN "skipfail" ELSE "fail"

StageResult(s) ==
    IF /\ local[s] \in Successful
       /\ \A f \in FollowersOf[s] :
             SameOp(got[f], busy[s]) /\ got[f].res \in Successful
    THEN local[s] ELSE Failed(local[s])

\* send_admin_result, and back to the message loop.
Reply(s, res) ==
    /\ replies' = [replies EXCEPT ![s] = Append(@, [op |-> busy[s], res |-> res])]
    /\ busy' = [busy EXCEPT ![s] = None]
    /\ local' = [local EXCEPT ![s] = "none"]
    /\ got' = [f \in Followers |-> IF f \in FollowersOf[s] THEN None ELSE got[f]]
    /\ UNCHANGED <<calls, inbox, admin_queue, answers, log>>

\* All followers' results (for a stage without followers, at once) are there.
StageAnswers(s) ==
    /\ busy[s] # None
    /\ local[s] # "none"
    /\ \A f \in FollowersOf[s] : got[f] # None
    /\ Reply(s, StageResult(s))
    /\ UNCHANGED late

\* q.get() without a timeout.
FaultyCollectTimesOut(s) == FALSE

\* A q.get() times out: what the other queues gave is dropped.
CollectTimesOut(s) ==
    /\ busy[s] # None
    /\ local[s] # "none"
    /\ \E f \in FollowersOf[s] : got[f] = None
    /\ Reply(s, Failed(local[s]))
    /\ late' = late \cup {<<s, busy[s]>>}

-----------------------------------------------------------------------------
CallStep(o) ==
    \/ Reject(o) \/ Call(o) \/ Acquire(o) \/ Return(o) \/ Raise(o)
    \/ \E s \in Stages : Send(o, s)

RankStep(k) == Receive(k) \/ Run(k) \/ RunTimesOut(k)

StageStep(s) ==
    \/ HandleAdminResult(s) \/ StageAnswers(s) \/ CollectTimesOut(s)
    \/ \E f \in Followers : Collect(s, f)

Next ==
    \/ \E o \in Ops : CallStep(o)
    \/ \E k \in Ranks : RankStep(k)
    \/ \E s \in Stages : StageStep(s)
    \/ \E f \in Followers : FollowerAnswers(f)

Spec == Init /\ [][Next]_vars

(***************************************************************************)
(* Fairness: event loops run what is ready, sends end, and the three       *)
(* timeouts expire.  Nothing makes a scheduler thread run an operation.    *)
(***************************************************************************)
Fairness ==
    /\ \A o \in Ops :
          /\ WF_vars(Acquire(o) \/ \E s \in Stages : Send(o, s))
          /\ WF_vars(Return(o) \/ (TimesOut(o) /\ Raise(o)))
    /\ \A k \in Ranks : WF_vars(RunTimesOut(k))
    /\ \A s \in Stages : WF_vars(StageAnswers(s) \/ CollectTimesOut(s))

FairSpec == Spec /\ Fairness

-----------------------------------------------------------------------------
\* Properties.

RanWell(k, o) == \E i \in 1..Len(log[k]) : log[k][i] = [op |-> o, res |-> "ok"]

\* When admin() reports success, every rank of every target stage that can run
\* the operation has run it without an error, and an update was applied by
\* some stage: no late, stale or missing result of any rank, and no timeout on
\* the way, is ever taken for a success.
SuccessIsTruthful ==
    \A o \in Ops :
        verdict[o] = "success" =>
            /\ kind[o] # "unknown" =>
                  \A s \in targets[o] \cap Capable : \A k \in RanksOf(s) : RanWell(k, o)
            /\ kind[o] = "update" => \E s \in targets[o] : RanWell(s, o)

RunBefore(k, o, p) ==
    \E i, j \in 1..Len(log[k]) : i < j /\ log[k][i].op = o /\ log[k][j].op = p

\* No two ranks, of one stage or of two, take two operations in opposite order,
\* even after the first has timed out: the ranks of a pipeline end with the
\* same weights and the same pause state.
RanksAgreeOnOrder ==
    \A o, p \in Ops, j, k \in Ranks :
        o # p /\ RunBefore(j, o, p) => ~RunBefore(k, p, o)

\* The reply of a stage to an operation that every rank has run well, with no
\* wait of the stage for it timing out, is not a failure: "For TP stages, rank 0 fans
\* the operation out to follower ranks, collects one result per rank, and
\* returns a stage-level aggregate result".
ReplyIsOfThisOp ==
    \A s \in Stages \cap Capable : \A i \in 1..Len(replies[s]) :
        LET o == replies[s][i].op
        IN  /\ <<s, o>> \notin late
            /\ \A k \in RanksOf(s) : RanWell(k, o)
            => replies[s][i].res # "fail"

\* Every call of admin() comes to its end, and whoever waits for the lock gets
\* it, whatever the stages do.
AdminEnds == \A o \in Ops : pc[o] = "lock" ~> pc[o] = "done"

\* The message loop of a stage, which also receives the requests, is not held
\* up for ever by an operation.
StageComesBack == \A s \in Stages : busy[s] # None ~> busy[s] = None

=============================================================================
