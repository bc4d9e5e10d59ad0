---------------------------- MODULE WeightUpdate ----------------------------
(***************************************************************************)
(* A weight update of the multi-process router: the transaction of app.py  *)
(* (_broadcast_admin_request), its journal (update_journal.py), the        *)
(* control plane (control_plane.py, CP), the snapshot it publishes         *)
(* (snapshot.py) and the data planes (data_plane.py, DPs) that route by    *)
(* it, under sglang_omni_router/python.                                    *)
(*                                                                         *)
(* Before weights are sent, the targets are journaled and disabled, and    *)
(* every DP has to acknowledge the snapshot in which they are.  The CP, a  *)
(* DP or the host may die at any point.                                    *)
(*                                                                         *)
(* The set of workers is fixed and none is marked dead: registration,      *)
(* deletion and health are left out.  The lock that updates and changes of *)
(* the registry share is the state "idle" of upd.                          *)
(***************************************************************************)
EXTENDS Naturals, FiniteSetsExt

CONSTANTS
    Workers, DPs,
    MaxUpdates,   \* bound: weight updates
    MaxPuts,      \* bound: requests of operators
    MaxCrashes,   \* bound: deaths of the CP, a DP or the host
    MayFail       \* may a write of the journal or the snapshot fail?

ASSUME UpdateAssumption ==
    /\ {MaxUpdates, MaxPuts, MaxCrashes} \subseteq Nat
    /\ MayFail \in BOOLEAN

\* A snapshot, with the workers in it that are disabled.
Snapshot == [epoch : Nat, seq : Nat, off : SUBSET Workers]

\* A DP without a snapshot routes to nobody.
NoSnapshot == [epoch |-> 0, seq |-> 0, off |-> Workers]

VARIABLES
    \* the CP
    cp,         \* "up" or "down"
    epoch,      \* cp_epoch of the last CP
    seq,        \* SnapshotWriter.seq
    disabled,   \* workers that are disabled in the registry
    upd,        \* where the holder of the update lock is
    prev,       \* previous_disabled
    reply,      \* worker -> its result in the broadcast
    ack,        \* DP -> last_applied_epoch and _seq in its DataPlaneRecord
    \* what outlives the CP
    journal,    \* journaled worker ids
    file,       \* the snapshot file
    \* the DPs and the workers
    view,       \* DP -> the snapshot it has applied
    out,        \* worker -> updates it has been sent and has not run
    version,    \* worker -> the update whose weights it has
    \* history and bounds
    vouched,    \* workers an operator has vouched for since an update was last sent
    updates, puts, crashes

control == <<cp, epoch, seq, disabled, upd, prev, reply, ack>>
history == <<vouched, updates, puts, crashes>>
vars == <<control, journal, file, view, out, version, history>>

TypeOK ==
    /\ cp \in {"up", "down"}
    /\ epoch \in Nat /\ seq \in Nat
    /\ disabled \in SUBSET Workers
    /\ upd \in {"idle", "journaled", "barrier", "sent", "publish"}
    /\ prev \in SUBSET Workers
    /\ reply \in [Workers -> {"none", "ok", "fail"}]
    /\ ack \in [DPs -> [epoch : Nat, seq : Nat]]
    /\ journal \in SUBSET Workers
    /\ file \in Snapshot
    /\ view \in [DPs -> Snapshot]
    /\ out \in [Workers -> SUBSET (1..MaxUpdates)]
    /\ version \in [Workers -> 0..MaxUpdates]
    /\ vouched \in SUBSET Workers
    /\ updates \in 0..MaxUpdates /\ puts \in 0..MaxPuts /\ crashes \in 0..MaxCrashes

NoReply == [w \in Workers |-> "none"]

\* Before the first start of the CP.
Init ==
    /\ cp = "down" /\ epoch = 0 /\ seq = 0
    /\ disabled = {}
    /\ upd = "idle" /\ prev = {}
    /\ reply = NoReply
    /\ ack = [d \in DPs |-> [epoch |-> 0, seq |-> 0]]
    /\ journal = {}
    /\ file = NoSnapshot
    /\ view = [d \in DPs |-> NoSnapshot]
    /\ out = [w \in Workers |-> {}]
    /\ version = [w \in Workers |-> 0]
    /\ vouched = {} /\ updates = 0 /\ puts = 0 /\ crashes = 0

-----------------------------------------------------------------------------
\* The transaction.  A definition named Faulty... is what its successor would
\* be with a plausible bug; only the mutation runs use it.

\* SnapshotWriter.publish: the number is taken even if the write fails.
Publish(e, n, off) ==
    /\ seq' = n
    /\ \/ file' = [epoch |-> e, seq |-> n, off |-> off]
       \/ MayFail /\ UNCHANGED file

\* _broadcast_admin_request under its lock, up to the disabling: no earlier
\* update is unresolved, and begin() has put the targets on the disk.  If it
\* cannot tell that they are there, the update is refused.
JournalBegins ==
    /\ cp = "up" /\ upd = "idle"
    /\ journal = {}
    /\ updates < MaxUpdates
    /\ updates' = updates + 1
    /\ journal' = Workers
    /\ \/ upd' = "journaled" /\ prev' = disabled
       \/ MayFail /\ UNCHANGED <<upd, prev>>
    /\ UNCHANGED <<cp, epoch, seq, disabled, reply, ack, file, view, out, version,
                   vouched, puts, crashes>>

\* The targets are disabled and the snapshot is published.  If that raises,
\* they stay disabled and journaled.
Disable ==
    /\ upd = "journaled"
    /\ disabled' = Workers
    /\ Publish(epoch, seq + 1, Workers)
    /\ \/ file' # file /\ upd' = "barrier"
       \/ file' = file /\ upd' = "idle"
    /\ prev' = IF upd' = "idle" THEN {} ELSE prev
    /\ UNCHANGED <<cp, epoch, reply, ack, journal, view, out, version, history>>

\* The number is compared without its epoch.
FaultyAcknowledged(d) == ack[d].seq >= seq

\* dp_snapshot_ack_barrier: this DP has applied the snapshot.
Acknowledged(d) == ack[d].epoch = epoch /\ ack[d].seq >= seq

\* All DPs have: the update is sent to all workers.
BarrierPasses ==
    /\ upd = "barrier"
    /\ \A d \in DPs : Acknowledged(d)
    /\ upd' = "sent"
    /\ out' = [w \in Workers |-> out[w] \cup {updates}]
    /\ vouched' = {}
    /\ UNCHANGED <<cp, epoch, seq, disabled, prev, reply, ack, journal, file, view, version,
                   updates, puts, crashes>>

\* The outcome is kept in the registry and in the journal; a journal that
\* cannot be cleared stays as it is.
Resolve(safe) ==
    /\ disabled' = IF safe THEN prev ELSE Workers
    /\ \/ journal' = IF safe THEN {} ELSE Workers
       \/ MayFail /\ UNCHANGED journal
    /\ prev' = {}
    /\ reply' = NoReply
    /\ upd' = "publish"

\* The barrier times out: nothing was sent.
BarrierTimesOut ==
    /\ upd = "barrier"
    /\ Resolve(TRUE)
    /\ UNCHANGED <<cp, epoch, seq, ack, file, view, out, version, history>>

\* The handler is cancelled, or raises, in the barrier or in the broadcast:
\* results is None, which is not safe whether or not something was sent.
BroadcastRaises ==
    /\ upd \in {"barrier", "sent"}
    /\ Resolve(FALSE)
    /\ UNCHANGED <<cp, epoch, seq, ack, file, view, out, version, history>>

\* External: a worker runs the next update it was sent, well or not; it fails
\* before or after it has changed its weights.
WorkerRuns(w) ==
    LET n == Min(out[w])
    IN  /\ out[w] # {}
        /\ out' = [out EXCEPT ![w] = @ \ {n}]
        /\ \E how \in {"ok", "fail"} :
              /\ version' \in {[version EXCEPT ![w] = n]} \cup
                              (IF how = "fail" THEN {version} ELSE {})
              /\ reply' = IF upd = "sent" /\ n = updates /\ reply[w] = "none"
                          THEN [reply EXCEPT ![w] = how] ELSE reply
        /\ UNCHANGED <<cp, epoch, seq, disabled, upd, prev, ack, journal, file, view, history>>

\* _send_admin_to_worker: the request times out, or cannot be made.
AnswerIsLost(w) ==
    /\ upd = "sent" /\ reply[w] = "none"
    /\ reply' = [reply EXCEPT ![w] = "fail"]
    /\ UNCHANGED <<cp, epoch, seq, disabled, upd, prev, ack, journal, file, view, out, version, history>>

OutcomeSafe == \A w \in Workers : reply[w] = "ok"

\* The finally block, up to the publication.
BroadcastEnds ==
    /\ upd = "sent"
    /\ \A w \in Workers : reply[w] # "none"
    /\ Resolve(OutcomeSafe)
    /\ UNCHANGED <<cp, epoch, seq, ack, file, view, out, version, history>>

\* The registry is published and the lock is released.
Published ==
    /\ upd = "publish"
    /\ upd' = "idle"
    /\ Publish(epoch, seq + 1, disabled)
    /\ UNCHANGED <<cp, epoch, disabled, prev, reply, ack, journal, view, out, version, history>>

\* _keepalive publishes every two seconds.  It matters when the last
\* publication has failed; a snapshot that differs in its number only is left
\* out, as no DP would route by it in another way.
Keepalive ==
    /\ cp = "up" /\ upd \in {"idle", "barrier", "sent"}
    /\ file.off # disabled \/ file.epoch # epoch
    /\ Publish(epoch, seq + 1, disabled)
    /\ file' # file
    /\ UNCHANGED <<cp, epoch, disabled, upd, prev, reply, ack, journal, view, out, version, history>>

-----------------------------------------------------------------------------
\* Requests of operators.

Put ==
    /\ cp = "up" /\ upd = "idle"
    /\ puts < MaxPuts
    /\ puts' = puts + 1

\* PUT /workers {"disabled": false}: the journal has to forget the worker.
Enable(w) ==
    /\ Put
    /\ journal' = journal \ {w}
    /\ disabled' = disabled \ {w}
    /\ upd' = "publish"
    /\ vouched' = IF w \in journal THEN vouched \cup {w} ELSE vouched
    /\ UNCHANGED <<cp, epoch, seq, prev, reply, ack, file, view, out, version, updates, crashes>>

\* discard() fails, and the request is refused: the file has been replaced all
\* the same (the sync of its directory failed), or nothing has changed.
EnableIsRefused(w) ==
    /\ MayFail
    /\ Put
    /\ w \in journal
    /\ journal' = journal \ {w}
    /\ vouched' = vouched \cup {w}
    /\ UNCHANGED <<control, file, view, out, version, updates, crashes>>

\* PUT /workers {"disabled": true}
DisableOne(w) ==
    /\ Put
    /\ disabled' = disabled \cup {w}
    /\ upd' = "publish"
    /\ UNCHANGED <<cp, epoch, seq, prev, reply, ack, journal, file, view, out, version,
                   vouched, updates, crashes>>

\* POST /weight_update_journal/resolve.  It is refused if clear() raises: then
\* the file is gone all the same, or the request has changed nothing.
ResolveJournal ==
    /\ Put
    /\ journal' = {}
    /\ vouched' = vouched \cup journal
    /\ UNCHANGED <<control, file, view, out, version, updates, crashes>>

-----------------------------------------------------------------------------
\* Data planes.

\* Numbers are compared over the restart of the CP.
FaultyNewer(s, than) == s.seq > than.seq

\* SnapshotReader.maybe_reload
Newer(s, than) == s.epoch # than.epoch \/ s.seq > than.seq

\* _refresh_loop
Refresh(d) ==
    /\ file # NoSnapshot
    /\ Newer(file, view[d])
    /\ view' = [view EXCEPT ![d] = file]
    /\ UNCHANGED <<control, journal, file, out, version, history>>

\* _heartbeat_loop: the DP registers if need be, and reports what it has applied.
Heartbeat(d) ==
    /\ cp = "up"
    /\ ack' = [ack EXCEPT ![d] = [epoch |-> view[d].epoch, seq |-> view[d].seq]]
    /\ ack' # ack
    /\ UNCHANGED <<cp, epoch, seq, disabled, upd, prev, reply, journal, file, view, out, version, history>>

-----------------------------------------------------------------------------
\* Deaths and restarts.

Dies ==
    /\ crashes < MaxCrashes
    /\ crashes' = crashes + 1

\* What dies with the CP.
ControlPlaneGone ==
    /\ cp' = "down"
    /\ seq' = 0
    /\ disabled' = {}
    /\ upd' = "idle"
    /\ prev' = {}
    /\ reply' = NoReply
    /\ ack' = [d \in DPs |-> [epoch |-> 0, seq |-> 0]]
    /\ UNCHANGED epoch

ControlPlaneDies ==
    /\ cp = "up"
    /\ Dies
    /\ ControlPlaneGone
    /\ UNCHANGED <<journal, file, view, out, version, vouched, updates, puts>>

\* The DPs and the working directory go too, the journal stays.
HostDies ==
    /\ cp = "up"
    /\ Dies
    /\ ControlPlaneGone
    /\ file' = NoSnapshot
    /\ view' = [d \in DPs |-> NoSnapshot]
    /\ UNCHANGED <<journal, out, version, vouched, updates, puts>>

\* The supervisor starts it again.
DataPlaneDies(d) ==
    /\ view[d] # NoSnapshot
    /\ Dies
    /\ view' = [view EXCEPT ![d] = NoSnapshot]
    /\ UNCHANGED <<control, journal, file, out, version, vouched, updates, puts>>

\* restore_workers
Restored == IF file = NoSnapshot THEN {} ELSE file.off

\* The journal is not looked at.
FaultyRecovered == Restored

\* recover_worker_pool_from_journal
Recovered == Restored \cup journal

\* A CP starts, with an epoch of its own.
ControlPlaneStarts ==
    /\ cp = "down"
    /\ cp' = "up"
    /\ epoch' = epoch + 1
    /\ disabled' = Recovered
    /\ Publish(epoch + 1, 1, Recovered)
    /\ file' # file
    /\ UNCHANGED <<upd, prev, reply, ack, journal, view, out, version, history>>

-----------------------------------------------------------------------------
Transaction ==
    \/ JournalBegins \/ Disable \/ BarrierPasses \/ BarrierTimesOut
    \/ BroadcastRaises \/ BroadcastEnds \/ Published \/ Keepalive
    \/ \E w \in Workers : WorkerRuns(w) \/ AnswerIsLost(w)

Operator ==
    \/ \E w \in Workers : Enable(w) \/ EnableIsRefused(w) \/ DisableOne(w)
    \/ ResolveJournal

Death ==
    \/ ControlPlaneDies \/ HostDies
    \/ \E d \in DPs : DataPlaneDies(d)

Next ==
    \/ Transaction \/ Operator \/ Death
    \/ ControlPlaneStarts
    \/ \E d \in DPs : Refresh(d) \/ Heartbeat(d)

Spec == Init /\ [][Next]_vars

(***************************************************************************)
(* Fairness: a transaction goes on to its end (requests time out), the     *)
(* supervisor restarts what has died, the snapshot is published and read   *)
(* again and again.  Nothing makes a barrier pass or an operator act.      *)
(***************************************************************************)
Fairness ==
    /\ WF_vars(Disable) /\ WF_vars(BarrierTimesOut) /\ WF_vars(BroadcastEnds)
    /\ WF_vars(Published) /\ WF_vars(Keepalive) /\ WF_vars(ControlPlaneStarts)
    /\ \A w \in Workers : WF_vars(AnswerIsLost(w))
    /\ \A d \in DPs : WF_vars(Refresh(d))

FairSpec == Spec /\ Fairness

-----------------------------------------------------------------------------
\* Properties.

\* What a DP routes to.
Routable(d) == Workers \ view[d].off

\* No DP routes to a worker that may be changing its weights, also after the
\* CP has died or given up in the middle of the broadcast, unless an operator
\* has vouched for the worker after the update was sent.
UpdatedIsNotRouted ==
    \A d \in DPs : \A w \in Routable(d) : out[w] # {} => w \in vouched

\* The workers a DP routes to have the same weights, whatever failed and
\* whoever died in an update, but for those an operator has vouched for.
NoMixedWeights ==
    \A d \in DPs : \A v, w \in Routable(d) \ vouched : version[v] = version[w]

\* When everything has calmed down, all DPs route by the registry of the CP.
ViewsConverge ==
    <>[](\A d \in DPs : view[d].epoch = epoch /\ view[d].off = disabled)

=============================================================================
