------------------------------ MODULE SlotRelay ------------------------------
(***************************************************************************)
(* Payloads and stream chunks on their way through a slot pool: the send   *)
(* workers and pending transfers of sglang_omni/comm/engine.py, the writes *)
(* of comm/stage_io.py, and the allocator and put operations of            *)
(* relay/cuda_ipc.py.                                                      *)
(*                                                                         *)
(* A send writes its data into contiguous slots of the sender's pool, one  *)
(* range for a payload, one for each tensor of a stream chunk.  The peer   *)
(* reads the slots in place, so they are free again only after its answer. *)
(* A peer that does not answer, or cannot read, makes the whole relay fail *)
(* and its stage stop; the slots are not used again.                       *)
(*                                                                         *)
(* An acquire runs under the allocator's lock without an await, and the    *)
(* asyncio.Event that its failure clears is awaited at once: a waiter      *)
(* sleeps until the next release, which wakes all of them.                 *)
(***************************************************************************)
EXTENDS Naturals, Sequences, FiniteSets

CONSTANTS
    Sends,      \* calls of send_payload and send_stream_chunk
    Targets,    \* stages they are sent to: one queue and one worker each
    TargetOf,   \* send -> its target
    Pieces,     \* send -> the slots each of its tensors needs
    SlotCount,  \* slots of the pool
    QueueSize,  \* send_queue_size
    MayFail     \* may a write, a control message or a read of the peer fail?

ASSUME RelayAssumption ==
    /\ TargetOf \in [Sends -> Targets]
    /\ SlotCount \in Nat \ {0} /\ QueueSize \in Nat \ {0}
    /\ Pieces \in [Sends -> Seq(Nat \ {0})]
    /\ \A j \in Sends : Pieces[j] # <<>>
    /\ MayFail \in BOOLEAN

Slots == 1..SlotCount

VARIABLES
    queue,   \* target -> its queue in _send_queues
    pc,      \* where a send is
    piece,   \* how many of its tensors have their slots
    holds,   \* send -> the slots of its put operations
    last,    \* send -> those of the last one
    free,    \* _free of the allocator
    failed,  \* _failed_event of the relay
    watch,   \* send -> its _PendingTransfer: its task, or that its ack has failed
    peer,    \* send -> has the peer heard of it, and what has it answered?
    shown    \* history: send -> the slots the peer was told to read

vars == <<queue, pc, piece, holds, last, free, failed, watch, peer, shown>>

\* The worker of the target is busy with the send.
Writing == {"try", "wait", "granted", "publish"}

TypeOK ==
    /\ queue \in [Targets -> Seq(Sends)]
    /\ pc \in [Sends -> Writing \cup {"idle", "queued", "sent", "error"}]
    /\ piece \in [Sends -> Nat]
    /\ \A j \in Sends : piece[j] <= Len(Pieces[j])
    /\ holds \in [Sends -> SUBSET Slots]
    /\ last \in [Sends -> SUBSET Slots]
    /\ free \in SUBSET Slots
    /\ failed \in BOOLEAN
    /\ watch \in [Sends -> {"none", "armed", "failing", "over"}]
    /\ peer \in [Sends -> {"none", "told", "done", "failed"}]
    /\ shown \in [Sends -> SUBSET Slots]

Init ==
    /\ queue = [q \in Targets |-> <<>>]
    /\ pc = [j \in Sends |-> "idle"]
    /\ piece = [j \in Sends |-> 0]
    /\ holds = [j \in Sends |-> {}]
    /\ last = [j \in Sends |-> {}]
    /\ free = Slots
    /\ failed = FALSE
    /\ watch = [j \in Sends |-> "none"]
    /\ peer = [j \in Sends |-> "none"]
    /\ shown = [j \in Sends |-> {}]

-----------------------------------------------------------------------------
\* The allocator.  A definition named Faulty... is what its successor would be
\* with a plausible bug; only the mutation runs use it.

Range(lo, n) == lo..(lo + n - 1)

Fits(lo, n) == Range(lo, n) \subseteq free

\* _find_contiguous: the first index of the first free run that is long enough.
IsFirstFit(lo, n) == Fits(lo, n) /\ \A k \in Slots : Fits(k, n) => lo <= k

NoneFits(n) == \A k \in Slots : ~Fits(k, n)

\* num_slots > allocator.slot_count, for the tensor that is next.
TooLarge(j) == piece[j] < Len(Pieces[j]) /\ Pieces[j][piece[j] + 1] > SlotCount

\* Only a release into an exhausted pool sets the event.
FaultyWoken(p) == [j \in Sends |-> IF p[j] = "wait" /\ free = {} THEN "try" ELSE p[j]]

\* release() sets the event: what becomes of the waiters in p.
Woken(p) == [j \in Sends |-> IF p[j] = "wait" THEN "try" ELSE p[j]]

\* release(offset, num_slots) by the send j, which ends or stays as p says.
Release(j, S, p) ==
    /\ free' = free \cup S
    /\ holds' = [holds EXCEPT ![j] = @ \ S]
    /\ pc' = Woken(p)

-----------------------------------------------------------------------------
\* The engine and the relay.

\* send_payload, send_stream_chunk: `await queue.put(job)`.
Enqueue(j) ==
    /\ pc[j] = "idle"
    /\ Len(queue[TargetOf[j]]) < QueueSize
    /\ queue' = [queue EXCEPT ![TargetOf[j]] = Append(@, j)]
    /\ pc' = [pc EXCEPT ![j] = "queued"]
    /\ UNCHANGED <<piece, holds, last, free, failed, watch, peer, shown>>

\* The worker of q waits for a job.
Idle(q) == \A j \in Sends : TargetOf[j] = q => pc[j] \notin Writing

\* _run_send_worker takes a job and begins its first put_async, which raises if
\* the relay has failed.
Take(q) ==
    LET j == Head(queue[q])
    IN  /\ queue[q] # <<>>
        /\ Idle(q)
        /\ queue' = [queue EXCEPT ![q] = Tail(@)]
        /\ pc' = [pc EXCEPT ![j] = IF failed THEN "error" ELSE "try"]
        /\ UNCHANGED <<piece, holds, last, free, failed, watch, peer, shown>>

\* put_async raises a ValueError before it acquires anything; the slots of the
\* tensors written before are not given back.
Refuse(j) ==
    /\ pc[j] = "try"
    /\ TooLarge(j)
    /\ pc' = [pc EXCEPT ![j] = "error"]
    /\ UNCHANGED <<queue, piece, holds, last, free, failed, watch, peer, shown>>

\* One turn of acquire_async, in its task.
Attempt(j) ==
    LET n == Pieces[j][piece[j] + 1]
    IN  /\ pc[j] = "try"
        /\ ~TooLarge(j)
        /\ \/ \E lo \in Slots :
                 /\ IsFirstFit(lo, n)
                 /\ free' = free \ Range(lo, n)
                 /\ holds' = [holds EXCEPT ![j] = @ \cup Range(lo, n)]
                 /\ last' = [last EXCEPT ![j] = Range(lo, n)]
                 /\ piece' = [piece EXCEPT ![j] = @ + 1]
                 /\ pc' = [pc EXCEPT ![j] = "granted"]
           \/ /\ NoneFits(n)
              /\ pc' = [pc EXCEPT ![j] = "wait"]
              /\ UNCHANGED <<free, holds, last, piece>>
        /\ UNCHANGED <<queue, failed, watch, peer, shown>>

\* _acquire_slots sees the failure of the relay first.
FailureWakes(j) ==
    /\ failed
    /\ pc[j] \in {"try", "wait"}
    /\ pc' = [pc EXCEPT ![j] = "error"]
    /\ UNCHANGED <<queue, piece, holds, last, free, failed, watch, peer, shown>>

\* The except block is missing.
FaultyGivenBack(j) == {}

\* What `allocator.release(offset, num_slots)` gives back when the write that
\* follows the acquire cannot be done.
GivenBack(j) == last[j]

\* _acquire_slots and put_async after the acquire: the slots are given back if
\* the relay has failed meanwhile or the write raises (the slots of the tensors
\* written before are not); otherwise the next tensor follows, or
\* _register_pending and the DataReadyMessage.
Written(j) ==
    /\ pc[j] = "granted"
    /\ \/ /\ failed \/ MayFail
          /\ Release(j, GivenBack(j), [pc EXCEPT ![j] = "error"])
       \/ /\ ~failed
          /\ pc' = [pc EXCEPT ![j] =
                       IF piece[j] < Len(Pieces[j]) THEN "try" ELSE "publish"]
          /\ UNCHANGED <<free, holds>>
    /\ UNCHANGED <<queue, piece, last, failed, watch, peer, shown>>

\* The control message is sent and the watch armed, or it raises: _fail_pending.
\* The peer may have got the message all the same.
Publish(j) ==
    /\ pc[j] = "publish"
    /\ \/ /\ pc' = [pc EXCEPT ![j] = "sent"]
          /\ watch' = [watch EXCEPT ![j] = "armed"]
          /\ peer' = [peer EXCEPT ![j] = "told"]
       \/ /\ MayFail
          /\ pc' = [pc EXCEPT ![j] = "error"]
          /\ watch' = [watch EXCEPT ![j] = "failing"]
          /\ peer' \in {peer, [peer EXCEPT ![j] = "told"]}
    /\ shown' = [shown EXCEPT ![j] = holds[j]]
    /\ UNCHANGED <<queue, piece, holds, last, free, failed>>

\* The peer has read the slots, or could not, and answers: _send_data_ack.
PeerAnswers(j) ==
    /\ peer[j] = "told"
    /\ \E a \in IF MayFail THEN {"done", "failed"} ELSE {"done"} :
          peer' = [peer EXCEPT ![j] = a]
    /\ UNCHANGED <<queue, pc, piece, holds, last, free, failed, watch, shown>>

\* ack_transfer and _watch_pending: mark_receiver_done, and each operation
\* releases its slots.
Acknowledged(j) ==
    /\ watch[j] = "armed"
    /\ peer[j] = "done"
    /\ watch' = [watch EXCEPT ![j] = "over"]
    /\ Release(j, holds[j], pc)
    /\ UNCHANGED <<queue, piece, last, failed, peer, shown>>

\* The slots of a send that was not acknowledged are released too.
FaultyGiveUp(j) == failed' = TRUE /\ Release(j, holds[j], pc)

\* mark_receiver_failed: fail_cb makes the relay fail, nothing is released.
GiveUp(j) == failed' = TRUE /\ UNCHANGED <<free, holds, pc>>

\* _watch_pending: a negative answer, the timeout of the wait, or _fail_pending.
WatchFails(j) ==
    /\ watch[j] \in {"armed", "failing"}
    /\ watch' = [watch EXCEPT ![j] = "over"]
    /\ GiveUp(j)
    /\ UNCHANGED <<queue, piece, last, peer, shown>>

-----------------------------------------------------------------------------
SendStep(j) ==
    \/ Enqueue(j) \/ Refuse(j) \/ Attempt(j) \/ FailureWakes(j) \/ Written(j)
    \/ Publish(j) \/ PeerAnswers(j) \/ Acknowledged(j) \/ WatchFails(j)

Next ==
    \/ \E j \in Sends : SendStep(j)
    \/ \E q \in Targets : Take(q)

Spec == Init /\ [][Next]_vars

(***************************************************************************)
(* Fairness: the event loop runs what is ready, control messages are sent, *)
(* and the wait for an answer ends, by the answer or by its timeout.       *)
(* Nothing makes the peer answer.                                          *)
(***************************************************************************)
Fairness ==
    /\ \A q \in Targets : WF_vars(Take(q))
    /\ \A j \in Sends :
          /\ WF_vars(Refuse(j) \/ Attempt(j) \/ FailureWakes(j) \/ Written(j)
                                \/ Publish(j))
          /\ WF_vars(Acknowledged(j) \/ WatchFails(j))

FairSpec == Spec /\ Fairness

-----------------------------------------------------------------------------
\* Properties.

\* No slot is written while a peer may still read it: what a peer was told to
\* read, and has not answered for, belongs to that send alone and is not free,
\* also after the wait for the answer has timed out.
ReadSlotsAreKept ==
    \A j \in Sends : peer[j] = "told" =>
        /\ shown[j] \subseteq holds[j]
        /\ shown[j] \cap free = {}
        /\ \A i \in Sends \ {j} : shown[j] \cap holds[i] = {}

\* A chunk that failed after its first tensor had got its slots: a later one
\* could not be written or is larger than the pool.  Nobody gives the slots back.
BrokenOff(j) ==
    /\ pc[j] = "error" /\ watch[j] = "none"
    /\ piece[j] > 1 \/ (piece[j] = 1 /\ TooLarge(j))

\* The pool is a partition: a slot is free or held by one send, and a send
\* that holds slots is being written or waits for its answer, unless the relay
\* has failed or the chunk broke off after its first tensor.  So a slot is never
\* "released twice", and every other one comes back.
SlotsAreAccountedFor ==
    /\ \A i, j \in Sends : i # j => holds[i] \cap holds[j] = {}
    /\ \A j \in Sends :
          /\ holds[j] \cap free = {}
          /\ holds[j] # {} =>
                \/ failed
                \/ pc[j] \in Writing
                \/ watch[j] \in {"armed", "failing"}
                \/ BrokenOff(j)
    /\ free \cup UNION {holds[j] : j \in Sends} = Slots

\* Chunks with several tensors hold what they have while they wait for more,
\* nobody else holds anything but those that broke off after their first tensor,
\* and there is no room for any that waits.
HeldUp ==
    /\ ~failed
    /\ \E j \in Sends : pc[j] = "wait"
    /\ \A j \in Sends : pc[j] = "wait" => NoneFits(Pieces[j][piece[j] + 1])
    /\ \A j \in Sends : holds[j] # {} => pc[j] = "wait" \/ BrokenOff(j)

\* Somebody is at work whose next step may release slots: a worker that writes,
\* or the watch of a transfer, which ends by an answer or by its timeout.
Moving ==
    \E i \in Sends :
        pc[i] \in {"try", "granted", "publish"} \/ watch[i] \in {"armed", "failing"}

\* No sender sleeps through a release: while one waits for slots there is no
\* room for it, and unless the relay has failed somebody is at work who will
\* wake it, or chunks with several tensors hold up each other.
NobodyWaitsInVain ==
    \A j \in Sends : pc[j] = "wait" =>
        /\ NoneFits(Pieces[j][piece[j] + 1])
        /\ failed \/ Moving \/ HeldUp

\* A send that was queued is published or fails: no release is missed by a
\* sender that waits for slots, however the releases and attempts interleave.
\* The only way to wait for ever is for chunks with several tensors to hold up
\* each other, or slots that a failed one has left behind.
SendEnds ==
    \A j \in Sends : pc[j] = "queued" ~> pc[j] \in {"sent", "error"} \/ HeldUp

=============================================================================
