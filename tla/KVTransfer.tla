----------------------------- MODULE KVTransfer -----------------------------
(***************************************************************************)
(* Paged KV transfers between the communication engines of two stages,     *)
(* sglang_omni/comm/engine.py: send_kv_pages and the pending transfers on  *)
(* the sending side, _run_rank_control, _receive_rank_kv and               *)
(* _read_kv_pages on the receiving side, cleanup and close on both.        *)
(*                                                                         *)
(* The receiver copies the pages straight out of the sender's memory.  So  *)
(* the sender pins them with a lease until the receiver has answered, and  *)
(* the receiver keeps its destination pages until the copy, which nothing  *)
(* can stop, is over.                                                      *)
(*                                                                         *)
(* Both engines are asyncio processes; an action is the code of one        *)
(* coroutine between two awaits that may suspend.                          *)
(***************************************************************************)
EXTENDS Naturals, FiniteSets

CONSTANTS
    Transfers,            \* calls of send_kv_pages, each with a fresh transfer_id
    Requests,             \* request ids
    ReqOf,                \* transfer -> its request
    AbortCap, AbortKeep,  \* 10000 and 5000 in cleanup()
    MayFail               \* may a send, a reservation, a copy or a commit raise?

ASSUME KVAssumption ==
    /\ ReqOf \in [Transfers -> Requests]
    /\ AbortCap \in Nat /\ AbortKeep \in 0..AbortCap
    /\ MayFail \in BOOLEAN

VARIABLES
    \* the sender
    pc,        \* where a call of send_kv_pages is
    outcome,   \* how it ended
    ready,     \* its future in _kv_ready
    lease,     \* who holds the lease: the call, its _PendingTransfer in _pending,
               \* _retained_pending_kv_transfers, or nobody any more
    ack,       \* pending.ack
    watch,     \* pending.task, and how it ended
    terminal,  \* transfers whose pending.receiver_terminal is set
    sender,    \* "open" or "closed"
    \* the receiver
    aborted,   \* _aborted_kv_requests
    resv,      \* the destination pages: reserved and copied (_inbound_kv, with
               \* copy_started and abort_error), or committed or aborted
    read,      \* the task of _receive_rank_kv
    copy,      \* the copy on the GPU
    receiver,  \* "open", "closing" or "closed"
    cleaned,   \* history: transfers whose reservation cleanup() has met
    \* the sockets between the ranks
    wire       \* messages on their way

sending == <<pc, outcome, ready, lease, ack, watch, terminal, sender>>
receiving == <<aborted, resv, read, copy, receiver, cleaned>>
vars == <<sending, receiving, wire>>

Kinds == {"prepare", "ready", "refused", "data", "done", "failed"}
Inbound == {"reserved", "copying", "doomed"}
Reading == {"created", "reading", "timeout", "cancel"}

TypeOK ==
    /\ pc \in [Transfers -> {"idle", "prepare", "ready", "publish", "watch", "done"}]
    /\ outcome \in [Transfers -> {"none", "ok", "error"}]
    /\ ready \in [Transfers -> {"none", "pending", "success", "failure"}]
    /\ lease \in [Transfers -> {"held", "pending", "retained", "released"}]
    /\ ack \in [Transfers -> {"none", "wait", "ok", "error"}]
    /\ watch \in [Transfers -> {"none", "armed", "ok", "failed"}]
    /\ terminal \in SUBSET Transfers
    /\ sender \in {"open", "closed"}
    /\ aborted \in SUBSET Requests
    /\ resv \in [Transfers -> Inbound \cup {"none", "committed", "aborted"}]
    /\ read \in [Transfers -> Reading \cup {"none", "over", "torn"}]
    /\ copy \in [Transfers -> {"none", "running", "over"}]
    /\ receiver \in {"open", "closing", "closed"}
    /\ cleaned \in SUBSET Transfers
    /\ wire \in SUBSET (Kinds \X Transfers)

Init ==
    /\ pc = [t \in Transfers |-> "idle"]
    /\ outcome = [t \in Transfers |-> "none"]
    /\ ready = [t \in Transfers |-> "none"]
    /\ lease = [t \in Transfers |-> "held"]
    /\ ack = [t \in Transfers |-> "none"]
    /\ watch = [t \in Transfers |-> "none"]
    /\ terminal = {}
    /\ sender = "open"
    /\ aborted = {}
    /\ resv = [t \in Transfers |-> "none"]
    /\ read = [t \in Transfers |-> "none"]
    /\ copy = [t \in Transfers |-> "none"]
    /\ receiver = "open"
    /\ cleaned = {}
    /\ wire = {}

-----------------------------------------------------------------------------
\* The sender.  A definition named Faulty... is what its successor would be
\* with a plausible bug; only the mutation runs use it.

\* The end of send_kv_pages; finally: a lease that no pending transfer owns is
\* released.
Finish(t, how) ==
    /\ pc' = [pc EXCEPT ![t] = "done"]
    /\ outcome' = [outcome EXCEPT ![t] = how]
    /\ ready' = [ready EXCEPT ![t] = "none"]
    /\ lease' = [lease EXCEPT ![t] = IF @ = "held" THEN "released" ELSE @]

\* Transfers with an entry in _pending.
Pending == {t \in Transfers : lease[t] = "pending"}

\* _fail_pending for the transfers T: the watch is armed if it is not yet.
FailPending(T) ==
    /\ ack' = [t \in Transfers |-> IF t \in T \cap Pending /\ ack[t] = "wait"
                                   THEN "error" ELSE ack[t]]
    /\ watch' = [t \in Transfers |-> IF t \in T \cap Pending /\ watch[t] = "none"
                                     THEN "armed" ELSE watch[t]]

\* The checks of send_kv_pages and the registration in _kv_ready, up to the
\* send of KVTransferPrepareMessage.  Nothing asks whether the engine is closed:
\* after close() nobody receives the answer and the call times out.
Start(t) ==
    /\ pc[t] = "idle"
    /\ \/ /\ pc' = [pc EXCEPT ![t] = "prepare"]
          /\ ready' = [ready EXCEPT ![t] = "pending"]
          /\ UNCHANGED <<outcome, lease>>
       \/ MayFail /\ Finish(t, "error")
    /\ UNCHANGED <<ack, watch, terminal, sender, receiving, wire>>

PrepareSent(t) ==
    /\ pc[t] = "prepare"
    /\ pc' = [pc EXCEPT ![t] = "ready"]
    /\ wire' = wire \cup {<<"prepare", t>>}
    /\ UNCHANGED <<outcome, ready, lease, ack, watch, terminal, sender, receiving>>

\* The ready future has its result: put_kv_pages, _register_pending (which now
\* owns the lease), up to the send of DataReadyMessage.
Resume(t) ==
    /\ pc[t] = "ready"
    /\ \/ /\ ready[t] = "success"
          /\ pc' = [pc EXCEPT ![t] = "publish"]
          /\ lease' = [lease EXCEPT ![t] = "pending"]
          /\ ack' = [ack EXCEPT ![t] = "wait"]
          /\ UNCHANGED <<outcome, ready>>
       \/ /\ ready[t] = "failure" \/ (MayFail /\ ready[t] = "success")
          /\ Finish(t, "error")
          /\ UNCHANGED ack
    /\ UNCHANGED <<watch, terminal, sender, receiving, wire>>

\* The future is awaited without a timeout.
FaultyReadyTimesOut(t) == FALSE

\* asyncio.wait_for(ready_future, timeout=self._ack_timeout_s) gives up.
ReadyTimesOut(t) ==
    /\ pc[t] = "ready" /\ ready[t] = "pending"
    /\ Finish(t, "error")
    /\ UNCHANGED <<ack, watch, terminal, sender, receiving, wire>>

\* DataReadyMessage is sent and the watch is armed.  A watch that cleanup() or
\* close() has armed meanwhile makes _arm_pending raise: its assertion, or a
\* KeyError if that watch is already over.
DataSent(t) ==
    /\ pc[t] = "publish"
    /\ wire' = wire \cup {<<"data", t>>}
    /\ \/ /\ watch[t] = "none"
          /\ watch' = [watch EXCEPT ![t] = "armed"]
          /\ pc' = [pc EXCEPT ![t] = "watch"]
          /\ UNCHANGED <<outcome, ready, lease>>
       \/ /\ watch[t] # "none"
          /\ Finish(t, "error")
          /\ UNCHANGED watch
    /\ UNCHANGED <<ack, terminal, sender, receiving>>

\* The call is cancelled at one of its awaits, or one of its sends raises; the
\* message may be on its way all the same.
Abandon(t) ==
    /\ pc[t] \in {"prepare", "ready", "publish", "watch"}
    /\ Finish(t, "error")
    /\ FailPending(IF pc[t] = "publish" THEN {t} ELSE {})
    /\ \/ UNCHANGED wire
       \/ pc[t] = "prepare" /\ wire' = wire \cup {<<"prepare", t>>}
       \/ pc[t] = "publish" /\ wire' = wire \cup {<<"data", t>>}
    /\ UNCHANGED <<terminal, sender, receiving>>

\* A transfer that failed here is released here.
FaultyRetains(t) == FALSE

\* retain_pending_on_failure and not receiver_terminal
Retains(t) == t \notin terminal

\* _watch_pending after its wait: the lease is released, or the transfer is
\* retained.
EndWatch(t, how, keeper) ==
    /\ watch[t] = "armed"
    /\ watch' = [watch EXCEPT ![t] = how]
    /\ lease' = [lease EXCEPT ![t] = keeper]
    /\ UNCHANGED <<pc, outcome, ready, ack, terminal, sender, receiving, wire>>

Acknowledged(t) == ack[t] = "ok" /\ EndWatch(t, "ok", "released")

\* The wait fails: a negative answer, _fail_pending, the timeout, or the end of
\* the event loop.
WatchFails(t) ==
    EndWatch(t, "failed", IF Retains(t) THEN "retained" ELSE "released")

\* `await asyncio.shield(pending_task)` ends.
SendReturns(t) ==
    /\ pc[t] = "watch"
    /\ watch[t] \in {"ok", "failed"}
    /\ Finish(t, IF watch[t] = "ok" THEN "ok" ELSE "error")
    /\ UNCHANGED <<ack, watch, terminal, sender, receiving, wire>>

\* _run_rank_control: KVTransferReadyMessage.  Without a future that is
\* pending, it is stale.
ReceiveReady(t) ==
    /\ sender = "open"
    /\ \E k \in {"ready", "refused"} :
          /\ <<k, t>> \in wire
          /\ wire' = wire \ {<<k, t>>}
          /\ ready' = [ready EXCEPT ![t] =
                 IF @ = "pending" THEN (IF k = "ready" THEN "success" ELSE "failure")
                                  ELSE @]
    /\ UNCHANGED <<pc, outcome, lease, ack, watch, terminal, sender, receiving>>

\* ack_transfer.  Either answer means that the receiver does not read any more.
ReceiveAck(t) ==
    /\ sender = "open"
    /\ \E k \in {"done", "failed"} :
          /\ <<k, t>> \in wire
          /\ wire' = wire \ {<<k, t>>}
          /\ \/ /\ t \in Pending
                /\ terminal' = terminal \cup {t}
                /\ ack' = [ack EXCEPT ![t] =
                       IF @ = "wait" THEN (IF k = "done" THEN "ok" ELSE "error") ELSE @]
             \/ t \notin Pending /\ UNCHANGED <<terminal, ack>>
    /\ UNCHANGED <<pc, outcome, ready, lease, watch, sender, receiving>>

\* Transfers with an entry in _outbound_kv_requests.
Outbound == {t \in Transfers : pc[t] \in {"prepare", "ready", "publish", "watch"}}

FailReady(T) ==
    ready' = [t \in Transfers |-> IF t \in T /\ ready[t] = "pending"
                                  THEN "failure" ELSE ready[t]]

\* cleanup() at the sender, also after close().  (By then close() has failed and
\* dropped the calls it found.  Failing them again changes something only for a
\* call that had its ready answer and publishes after the close; it may be
\* abandoned there anyway.)
CleanupSender(q) ==
    LET T == {t \in Outbound : ReqOf[t] = q}
    IN  /\ FailReady(T)
        /\ FailPending(T)
        /\ UNCHANGED <<pc, outcome, lease, terminal, sender, receiving, wire>>

\* close() at the sender.
CloseSender ==
    /\ sender = "open"
    /\ sender' = "closed"
    /\ FailReady(Transfers)
    /\ FailPending(Transfers)
    /\ UNCHANGED <<pc, outcome, lease, terminal, receiving, wire>>

-----------------------------------------------------------------------------
\* The receiver.

\* _aborted_kv_requests.add, and the eviction of any ids when it is over its
\* cap: the possible new values of aborted.
Recorded(q) ==
    LET ids == aborted \cup {q}
    IN  IF Cardinality(ids) <= AbortCap THEN {ids}
        ELSE {kept \in SUBSET ids : Cardinality(kept) = AbortKeep}

\* Reservations are aborted whether or not the copy into them has begun.
FaultyCleanedUp(q, r) ==
    [t \in Transfers |-> IF ReqOf[t] = q /\ r[t] \in Inbound THEN "aborted" ELSE r[t]]

\* What cleanup() makes of the reservations r.
CleanedUp(q, r) ==
    [t \in Transfers |->
        IF ReqOf[t] # q THEN r[t]
        ELSE IF r[t] = "reserved" THEN "aborted"
        ELSE IF r[t] = "copying" THEN "doomed" ELSE r[t]]

\* cleanup(q), met by the reservations r.
Cleanup(q, r) ==
    /\ aborted' \in Recorded(q)
    /\ resv' = CleanedUp(q, r)
    /\ cleaned' = cleaned \cup {t \in Transfers : ReqOf[t] = q /\ r[t] \in Inbound}

\* cleanup() at the receiver: the stage calls it when a request is aborted, its
\* scheduler crashes, or a read or a discard of the request fails.  A request
\* that ends well is not cleaned up.
CleanupReceiver(q) ==
    /\ receiver # "closed"
    /\ Cleanup(q, resv)
    /\ UNCHANGED <<sending, read, copy, receiver, wire>>

Receives(k, t) ==
    /\ receiver = "open"
    /\ <<k, t>> \in wire

\* Nobody remembers that the request is over.
FaultyOver(t) == FALSE

Over(t) == ReqOf[t] \in aborted

\* _run_rank_control: KVTransferPrepareMessage, and prepare_kv_receive unless
\* the request was aborted.
ReceivePrepare(t) ==
    /\ Receives("prepare", t)
    /\ \/ /\ Over(t)
          /\ wire' = (wire \ {<<"prepare", t>>}) \cup {<<"refused", t>>}
          /\ UNCHANGED resv
       \/ /\ ~Over(t)
          /\ resv' = [resv EXCEPT ![t] = "reserved"]
          /\ wire' = (wire \ {<<"prepare", t>>}) \cup {<<"ready", t>>}
       \/ /\ MayFail /\ ~Over(t)
          /\ resv' = [resv EXCEPT ![t] = "aborted"]
          /\ wire' = (wire \ {<<"prepare", t>>}) \cup {<<"refused", t>>}
    /\ UNCHANGED <<sending, aborted, read, copy, receiver, cleaned>>

\* _run_rank_control: DataReadyMessage, which makes a task.
ReceiveData(t) ==
    /\ Receives("data", t)
    /\ wire' = wire \ {<<"data", t>>}
    /\ read' = [read EXCEPT ![t] = "created"]
    /\ UNCHANGED <<sending, aborted, resv, copy, receiver, cleaned>>

\* _receive_rank_kv ends with a DataAckMessage.
Answer(t, k) ==
    /\ read' = [read EXCEPT ![t] = "over"]
    /\ wire' = wire \cup {<<k, t>>}

\* _read_kv_pages raises: the reservation r it had is settled, cleanup() is
\* called and a negative answer is sent.
ReadFails(t, r) ==
    /\ Cleanup(ReqOf[t], r)
    /\ Answer(t, "failed")

\* The entry of _inbound_kv is popped, but the receiver is not told.
FaultyAborting(t) == resv

\* receiver.abort in the except clause of _read_kv_pages, and the pop.
Aborting(t) == [resv EXCEPT ![t] = "aborted"]

\* The task runs up to the wait for the copy: the request was aborted, the
\* reservation is gone, the copy begins, or get_kv_pages raises.
BeginRead(t) ==
    /\ read[t] = "created"
    /\ \/ /\ Over(t)
          /\ Answer(t, "failed")
          /\ UNCHANGED <<aborted, resv, cleaned, copy>>
       \/ /\ ~Over(t) /\ resv[t] # "reserved"
          /\ ReadFails(t, resv)
          /\ UNCHANGED copy
       \/ /\ ~Over(t) /\ resv[t] = "reserved"
          /\ resv' = [resv EXCEPT ![t] = "copying"]
          /\ read' = [read EXCEPT ![t] = "reading"]
          /\ copy' = [copy EXCEPT ![t] = "running"]
          /\ UNCHANGED <<aborted, cleaned, wire>>
       \/ /\ MayFail /\ ~Over(t) /\ resv[t] = "reserved"
          /\ ReadFails(t, Aborting(t))
          /\ UNCHANGED copy
    /\ UNCHANGED <<sending, receiver>>

\* External: the copy on the GPU ends.
CopyEnds(t) ==
    /\ copy[t] = "running"
    /\ copy' = [copy EXCEPT ![t] = "over"]
    /\ UNCHANGED <<sending, aborted, resv, read, receiver, cleaned, wire>>

\* The wait for the copy times out; the task goes on waiting for the copy, but
\* it will raise.
ReadTimesOut(t) ==
    /\ read[t] = "reading" /\ copy[t] = "running"
    /\ read' = [read EXCEPT ![t] = "timeout"]
    /\ UNCHANGED <<sending, aborted, resv, copy, receiver, cleaned, wire>>

\* abort_error is not looked at after the wait.
FaultyMayCommit(t) == read[t] = "reading"

\* The wait was not interrupted, and no abort_error was set during it.
MayCommit(t) == read[t] = "reading" /\ resv[t] = "copying"

\* _read_kv_pages and _receive_rank_kv after the wait for the copy.
EndRead(t) ==
    /\ read[t] \in {"reading", "timeout", "cancel"}
    /\ copy[t] = "over"
    /\ \/ /\ MayCommit(t)
          /\ resv' = [resv EXCEPT ![t] = "committed"]
          /\ Answer(t, "done")
          /\ UNCHANGED <<aborted, cleaned>>
       \/ /\ read[t] # "cancel" /\ (MayFail \/ ~MayCommit(t))
          /\ ReadFails(t, Aborting(t))
       \/ /\ read[t] = "cancel"
          /\ resv' = Aborting(t)
          /\ read' = [read EXCEPT ![t] = "over"]
          /\ UNCHANGED <<aborted, cleaned, wire>>
    /\ UNCHANGED <<sending, copy, receiver>>

\* close() at the receiver, up to the wait for the tasks it cancels: one that
\* has not begun never does, one that reads waits for its copy, and one whose
\* wait had timed out is torn from its copy: it raises at once.
CloseReceiver ==
    /\ receiver = "open"
    /\ receiver' = "closing"
    /\ read' = [t \in Transfers |->
                  CASE read[t] = "created" -> "over"
                    [] read[t] = "reading" -> "cancel"
                    [] read[t] = "timeout" -> "torn"
                    [] OTHER -> read[t]]
    /\ resv' = [t \in Transfers |->
                  IF read[t] = "timeout" THEN "aborted" ELSE resv[t]]
    /\ UNCHANGED <<sending, aborted, copy, cleaned, wire>>

\* The rest of close().
ReceiverClosed ==
    /\ receiver = "closing"
    /\ \A t \in Transfers : read[t] \notin Reading
    /\ receiver' = "closed"
    /\ resv' = [t \in Transfers |-> IF resv[t] \in Inbound THEN "aborted" ELSE resv[t]]
    /\ aborted' = {}
    /\ UNCHANGED <<sending, read, copy, cleaned, wire>>

-----------------------------------------------------------------------------
SenderStep(t) ==
    \/ Start(t) \/ PrepareSent(t) \/ Resume(t) \/ ReadyTimesOut(t) \/ DataSent(t)
    \/ Abandon(t) \/ Acknowledged(t) \/ WatchFails(t) \/ SendReturns(t)
    \/ ReceiveReady(t) \/ ReceiveAck(t)

ReceiverStep(t) ==
    \/ ReceivePrepare(t) \/ ReceiveData(t) \/ BeginRead(t) \/ CopyEnds(t)
    \/ ReadTimesOut(t) \/ EndRead(t)

Next ==
    \/ \E t \in Transfers : SenderStep(t) \/ ReceiverStep(t)
    \/ \E q \in Requests : CleanupSender(q) \/ CleanupReceiver(q)
    \/ CloseSender \/ CloseReceiver \/ ReceiverClosed

Spec == Init /\ [][Next]_vars

(***************************************************************************)
(* Fairness: the event loops run what is ready, sends end, the timeouts    *)
(* expire, copies end and close() is run to its end.  Nothing makes a      *)
(* message arrive, and nothing makes anybody call cleanup() or close().    *)
(***************************************************************************)
SenderGoesOn(t) ==
    \/ PrepareSent(t) \/ Resume(t) \/ ReadyTimesOut(t) \/ DataSent(t)
    \/ Acknowledged(t) \/ WatchFails(t) \/ SendReturns(t)

Fairness ==
    /\ \A t \in Transfers :
          /\ WF_vars(SenderGoesOn(t))
          /\ WF_vars(BeginRead(t) \/ CopyEnds(t) \/ EndRead(t))
    /\ WF_vars(ReceiverClosed)

FairSpec == Spec /\ Fairness

-----------------------------------------------------------------------------
\* Properties.

\* While the receiver copies, the sender's pages are pinned: no timeout,
\* cancellation, cleanup, close or negative answer on the way releases the
\* lease under a copy that runs, and no copy begins after the release.
LeaseCoversCopy ==
    \A t \in Transfers : copy[t] = "running" => lease[t] \in {"pending", "retained"}

\* The destination pages are given back or committed only when the copy into
\* them is over, also by cleanup() and close(), unless close() interrupts a wait
\* that had timed out before.
CopyHasItsPages ==
    \A t \in Transfers :
        copy[t] = "running" /\ read[t] # "torn" => resv[t] \in {"copying", "doomed"}

\* send_kv_pages returns only when the receiver has committed the pages, and
\* the receiver commits nothing that its own cleanup() has met, whether or not
\* the copy had begun by then.
TransferIsTruthful ==
    \A t \in Transfers :
        /\ outcome[t] = "ok" => resv[t] = "committed"
        /\ resv[t] = "committed" => t \notin cleaned

\* A request that the receiver knows to be over has no reservation but the ones
\* a copy runs into: a late KVTransferPrepareMessage makes none.
NoLateReservation ==
    \A t \in Transfers : ReqOf[t] \in aborted => resv[t] # "reserved"

\* Every call of send_kv_pages ends and its lease is released or pinned for
\* good, whatever the receiver does.
SendEnds ==
    \A t \in Transfers :
        pc[t] = "prepare" ~> pc[t] = "done" /\ lease[t] \in {"released", "retained"}

\* Destination pages are committed or given back once the receiver has got the
\* data message, has cleaned up the request or is being closed, whichever of
\* these meets the others; it takes no further cleanup().  (Pages whose sender
\* has given up stay reserved until one of the three happens.)
PagesSettle ==
    \A t \in Transfers :
        read[t] # "none" \/ ReqOf[t] \in aborted \/ receiver # "open"
            ~> resv[t] \notin Inbound

=============================================================================
