------------------------- MODULE WeightUpdateProofs -------------------------
(***************************************************************************)
(* Theorems about WeightUpdate, for any workers and data planes and any    *)
(* number of updates, requests and deaths.                                 *)
(***************************************************************************)
EXTENDS WeightUpdate, TLAPS, NaturalsInduction, WellFoundedInduction

-----------------------------------------------------------------------------
\* The inductive invariant.

\* While a CP runs, the file is its own and not ahead of its counter.  Every
\* snapshot a DP has is the file or an older one, and no acknowledgement is
\* ahead of the counter.
Numbered ==
    /\ file.epoch <= epoch
    /\ file.epoch = 0 => file = NoSnapshot
    /\ cp = "up" => epoch > 0 /\ file.epoch = epoch /\ file.seq <= seq
    /\ \A d \in DPs :
          /\ view[d].epoch <= file.epoch
          /\ view[d].epoch = file.epoch =>
                /\ view[d].seq <= file.seq
                /\ view[d].seq = file.seq => view[d] = file
          /\ ack[d].epoch <= epoch
          /\ cp = "up" /\ ack[d].epoch = epoch => ack[d].seq <= seq

\* What holds at the steps of a transaction.  At the barrier the counter is
\* that of the file, so that only this snapshot can be acknowledged.
InOrder ==
    /\ cp = "down" => upd = "idle"
    /\ upd \in {"journaled", "barrier", "sent"} => journal = Workers
    /\ upd \in {"barrier", "sent"} => disabled = Workers /\ file.off = Workers
    /\ upd = "barrier" =>
          /\ file.seq = seq
          /\ \A d \in DPs : Acknowledged(d) => view[d].off = Workers

\* A worker that has answered well has nothing left to run, and the weights of
\* this update.
Answered ==
    /\ \A w \in Workers : out[w] \subseteq 1..updates
    /\ upd # "sent" => reply = NoReply
    /\ upd \in {"journaled", "barrier", "sent"} => updates > 0
    /\ \A w \in Workers : reply[w] = "ok" => out[w] = {} /\ version[w] = updates

Unvouched == Workers \ vouched

\* Nobody but an operator could be wrong about the weights of a worker.
Settled ==
    /\ \A w \in Unvouched : out[w] = {}
    /\ \A v, w \in Unvouched : version[v] = version[w]

\* Neither a DP, nor the snapshot they read next, nor the registry, nor the
\* registry of the next CP has one of these workers enabled.
Guarded ==
    \A w \in Unvouched :
        /\ w \in journal
        /\ cp = "up" => w \in disabled
        /\ w \in file.off
        /\ \A d \in DPs : w \in view[d].off

Protected ==
    /\ Settled \/ Guarded
    /\ upd \in {"journaled", "barrier"} => Settled

IInv == TypeOK /\ Numbered /\ InOrder /\ Answered /\ Protected

-----------------------------------------------------------------------------
\* The steps.

\* Min is the least of a set of numbers.
LEMMA LeastOf ==
    ASSUME NEW S \in SUBSET Nat, S # {}
    PROVE  Min(S) \in S /\ \A n \in S : Min(S) <= n
<1>1. \E n \in S : \A m \in S : ~ (<<m, n>> \in OpToRel(<, Nat))
    BY NatLessThanWellFounded, WFMin
<1>2. \E n \in S : \A m \in S : ~ (m < n)
    BY <1>1, Zenon DEF OpToRel
<1>3. \E n \in S : \A m \in S : n <= m
    BY <1>2
<1> QED
    BY <1>3 DEF Min

\* A snapshot has its three parts.
LEMMA SnapshotParts ==
    /\ NoSnapshot \in Snapshot
    /\ \A s \in Snapshot : s.epoch \in Nat /\ s.seq \in Nat /\ s.off \in SUBSET Workers
    /\ \A s \in Snapshot, t \in Snapshot :
          s.epoch = t.epoch /\ s.seq = t.seq /\ s.off = t.off => s = t
BY DEF Snapshot, NoSnapshot

\* The first states.
LEMMA InitIInv == Init => IInv
<1> SUFFICES ASSUME Init PROVE IInv
    OBVIOUS
<1> USE UpdateAssumption, SnapshotParts
<1>1. TypeOK
    BY DEF Init, TypeOK, NoReply
<1>2. Numbered
    BY <1>1 DEF Init, Numbered, NoSnapshot
<1>3. InOrder
    BY DEF Init, InOrder
<1>4. Answered
    BY DEF Init, Answered, NoReply
<1>5. Protected
    BY DEF Init, Protected, Settled, Unvouched
<1> QED
    BY <1>1, <1>2, <1>3, <1>4, <1>5 DEF IInv

\* The workers are journaled only when nothing is; then all are settled.
LEMMA JournalBeginsKeeps ==
    ASSUME IInv, JournalBegins
    PROVE  IInv'
<1> USE UpdateAssumption, SnapshotParts
<1>1. TypeOK'
    BY DEF JournalBegins, history, IInv, TypeOK, NoReply
<1>2. Numbered'
    BY <1>1 DEF JournalBegins, history, IInv, TypeOK, Numbered, NoSnapshot, Snapshot
<1>3. InOrder'
    BY <1>1 DEF JournalBegins, history, IInv, TypeOK, Numbered, InOrder,
        Acknowledged, NoSnapshot, Snapshot
<1>4. Answered'
    BY <1>1 DEF JournalBegins, history, IInv, TypeOK, Answered, NoReply
<1>5. Protected'
    BY <1>1 DEF JournalBegins, history, IInv, TypeOK, Protected, Settled, Guarded,
        Unvouched, InOrder, NoSnapshot, Answered
<1> QED
    BY <1>1, <1>2, <1>3, <1>4, <1>5 DEF IInv

\* The new number is above all that was acknowledged.
LEMMA DisableKeeps ==
    ASSUME IInv, Disable
    PROVE  IInv'
<1> USE UpdateAssumption, SnapshotParts
<1>1. TypeOK'
    BY DEF Disable, Publish, history, IInv, TypeOK, NoReply, Snapshot
<1>2. Numbered'
    BY <1>1 DEF Disable, Publish, history, IInv, TypeOK, Numbered, NoSnapshot,
        Snapshot, InOrder
<1>3. InOrder'
    BY <1>1 DEF Disable, Publish, history, IInv, TypeOK, Numbered, InOrder,
        Acknowledged, NoSnapshot, Snapshot
<1>4. Answered'
    BY <1>1 DEF Disable, Publish, history, IInv, TypeOK, Answered, NoReply
<1>5. Protected'
    BY <1>1 DEF Disable, Publish, history, IInv, TypeOK, Protected, Settled,
        Guarded, Unvouched, InOrder, NoSnapshot, Answered
<1> QED
    BY <1>1, <1>2, <1>3, <1>4, <1>5 DEF IInv

\* Every DP has the snapshot in which all workers are disabled.
LEMMA BarrierPassesKeeps ==
    ASSUME IInv, BarrierPasses
    PROVE  IInv'
<1> USE UpdateAssumption, SnapshotParts
<1>0. updates \in 1..MaxUpdates
    BY DEF BarrierPasses, IInv, TypeOK, Answered
<1>1. TypeOK'
    BY <1>0 DEF BarrierPasses, history, IInv, TypeOK, NoReply
<1>2. Numbered'
    BY <1>1 DEF BarrierPasses, history, IInv, TypeOK, Numbered, NoSnapshot, Snapshot
<1>3. InOrder'
    BY <1>1 DEF BarrierPasses, history, IInv, TypeOK, Numbered, InOrder,
        Acknowledged, NoSnapshot, Snapshot
<1>4. Answered'
    BY <1>1, <1>0 DEF BarrierPasses, history, IInv, TypeOK, Answered, NoReply
<1>5. Protected'
    BY <1>1 DEF BarrierPasses, history, IInv, TypeOK, Protected, Settled, Guarded,
        Unvouched, InOrder, NoSnapshot, Answered
<1> QED
    BY <1>1, <1>2, <1>3, <1>4, <1>5 DEF IInv

\* Nothing was sent.
LEMMA BarrierTimesOutKeeps ==
    ASSUME IInv, BarrierTimesOut
    PROVE  IInv'
<1> USE UpdateAssumption, SnapshotParts
<1>1. TypeOK'
    BY DEF BarrierTimesOut, Resolve, history, IInv, TypeOK, NoReply
<1>2. Numbered'
    BY <1>1 DEF BarrierTimesOut, Resolve, history, IInv, TypeOK, Numbered,
        NoSnapshot, Snapshot
<1>3. InOrder'
    BY <1>1 DEF BarrierTimesOut, Resolve, history, IInv, TypeOK, Numbered, InOrder,
        Acknowledged, NoSnapshot, Snapshot
<1>4. Answered'
    BY <1>1 DEF BarrierTimesOut, Resolve, history, IInv, TypeOK, Answered, NoReply
<1>5. Protected'
    BY <1>1 DEF BarrierTimesOut, Resolve, history, IInv, TypeOK, Protected, Settled,
        Guarded, Unvouched, InOrder, NoSnapshot, Answered
<1> QED
    BY <1>1, <1>2, <1>3, <1>4, <1>5 DEF IInv

\* The workers stay journaled and disabled.
LEMMA BroadcastRaisesKeeps ==
    ASSUME IInv, BroadcastRaises
    PROVE  IInv'
<1> USE UpdateAssumption, SnapshotParts
<1>1. TypeOK'
    BY DEF BroadcastRaises, Resolve, history, IInv, TypeOK, NoReply
<1>2. Numbered'
    BY <1>1 DEF BroadcastRaises, Resolve, history, IInv, TypeOK, Numbered,
        NoSnapshot, Snapshot
<1>3. InOrder'
    BY <1>1 DEF BroadcastRaises, Resolve, history, IInv, TypeOK, Numbered, InOrder,
        Acknowledged, NoSnapshot, Snapshot
<1>4. Answered'
    BY <1>1 DEF BroadcastRaises, Resolve, history, IInv, TypeOK, Answered, NoReply
<1>5. Protected'
    BY <1>1 DEF BroadcastRaises, Resolve, history, IInv, TypeOK, Protected, Settled,
        Guarded, Unvouched, InOrder, NoSnapshot, Answered
<1> QED
    BY <1>1, <1>2, <1>3, <1>4, <1>5 DEF IInv

\* Who runs this update last has nothing left.
LEMMA WorkerRunsKeeps ==
    ASSUME IInv, NEW w \in Workers, WorkerRuns(w)
    PROVE  IInv'
<1> USE UpdateAssumption, SnapshotParts
<1> DEFINE n == Min(out[w])
<1>0. n \in out[w] /\ (\A m \in out[w] : n <= m) /\ n \in 1..updates /\ n \in 1..MaxUpdates
    <2>1. out[w] \in SUBSET Nat /\ out[w] # {} /\ out[w] \subseteq 1..updates
        BY DEF WorkerRuns, IInv, TypeOK, Answered
    <2> QED
        BY <2>1, LeastOf DEF IInv, TypeOK
<1>a. PICK how \in {"ok", "fail"} :
          /\ version' = [version EXCEPT ![w] = n] \/ (how = "fail" /\ version' = version)
          /\ reply' = IF upd = "sent" /\ n = updates /\ reply[w] = "none"
                      THEN [reply EXCEPT ![w] = how] ELSE reply
    BY DEF WorkerRuns
<1>b. /\ out[w] # {}
      /\ out' = [out EXCEPT ![w] = @ \ {n}]
      /\ UNCHANGED <<cp, epoch, seq, disabled, upd, prev, ack, journal, file, view, history>>
    BY DEF WorkerRuns
<1> HIDE DEF n
<1>1. TypeOK'
    BY <1>0, <1>a, <1>b DEF history, IInv, TypeOK
<1>2. Numbered'
    BY <1>b DEF history, IInv, Numbered
<1>3. InOrder'
    BY <1>b DEF history, IInv, InOrder, Acknowledged
<1>4. Answered'
    <2>1. \A v \in Workers : out'[v] \subseteq out[v]
        BY <1>b DEF IInv, TypeOK
    <2>2. \A v \in Workers : reply'[v] = "ok" => out'[v] = {} /\ version'[v] = updates
        <3> SUFFICES ASSUME NEW v \in Workers, reply'[v] = "ok"
                     PROVE  out'[v] = {} /\ version'[v] = updates
            OBVIOUS
        <3>1. CASE v # w
            BY <3>1, <1>a, <1>b DEF IInv, TypeOK, Answered
        <3>2. CASE v = w /\ reply[w] = "ok"
            BY <3>2, <1>b DEF IInv, Answered
        <3>3. CASE v = w /\ reply[w] # "ok"
            <4>1. n = updates /\ version' = [version EXCEPT ![w] = n]
                BY <3>3, <1>a DEF IInv, TypeOK
            <4>2. \A m \in out[w] : m = n
                <5>1. out[w] \subseteq 1..updates /\ updates \in Nat
                    BY DEF IInv, Answered, TypeOK
                <5>2. \A m \in 1..updates : updates <= m => m = updates
                    BY <5>1
                <5> QED
                    BY <4>1, <5>1, <5>2, <1>0
            <4> QED
                BY <3>3, <4>1, <4>2, <1>b DEF IInv, TypeOK
        <3> QED
            BY <3>1, <3>2, <3>3
    <2>3. upd' # "sent" => reply' = NoReply
        BY <1>a, <1>b DEF IInv, Answered
    <2> QED
        BY <1>b, <2>1, <2>2, <2>3 DEF history, IInv, Answered
<1>5. Protected'
    <2>1. Guarded => Guarded'
        BY <1>b DEF history, Guarded, Unvouched
    <2>2. ASSUME Settled PROVE Settled'
        <3>1. w \notin Unvouched
            BY <2>2, <1>b DEF Settled
        <3>2. \A v \in Unvouched : out'[v] = out[v] /\ version'[v] = version[v]
            BY <3>1, <1>a, <1>b DEF IInv, TypeOK, Unvouched
        <3>3. Unvouched' = Unvouched
            BY <1>b DEF history, Unvouched
        <3> QED
            BY <2>2, <3>2, <3>3 DEF Settled
    <2> QED
        BY <2>1, <2>2, <1>b DEF IInv, Protected
<1> QED
    BY <1>1, <1>2, <1>3, <1>4, <1>5 DEF IInv

\* A lost answer is a failure.
LEMMA AnswerIsLostKeeps ==
    ASSUME IInv, NEW w \in Workers, AnswerIsLost(w)
    PROVE  IInv'
<1> USE UpdateAssumption, SnapshotParts
<1>1. TypeOK'
    BY DEF AnswerIsLost, history, IInv, TypeOK, NoReply
<1>2. Numbered'
    BY <1>1 DEF AnswerIsLost, history, IInv, TypeOK, Numbered, NoSnapshot, Snapshot
<1>3. InOrder'
    BY <1>1 DEF AnswerIsLost, history, IInv, TypeOK, Numbered, InOrder,
        Acknowledged, NoSnapshot, Snapshot
<1>4. Answered'
    BY <1>1 DEF AnswerIsLost, history, IInv, TypeOK, Answered, NoReply
<1>5. Protected'
    BY <1>1 DEF AnswerIsLost, history, IInv, TypeOK, Protected, Settled, Guarded,
        Unvouched, InOrder, NoSnapshot, Answered
<1> QED
    BY <1>1, <1>2, <1>3, <1>4, <1>5 DEF IInv

\* All are well, or all stay disabled and journaled.
LEMMA BroadcastEndsKeeps ==
    ASSUME IInv, BroadcastEnds
    PROVE  IInv'
<1> USE UpdateAssumption, SnapshotParts
<1>1. TypeOK'
    BY DEF BroadcastEnds, Resolve, OutcomeSafe, history, IInv, TypeOK, NoReply
<1>2. Numbered'
    BY <1>1 DEF BroadcastEnds, Resolve, OutcomeSafe, history, IInv, TypeOK,
        Numbered, NoSnapshot, Snapshot
<1>3. InOrder'
    BY <1>1 DEF BroadcastEnds, Resolve, OutcomeSafe, history, IInv, TypeOK,
        Numbered, InOrder, Acknowledged, NoSnapshot, Snapshot
<1>4. Answered'
    BY <1>1 DEF BroadcastEnds, Resolve, OutcomeSafe, history, IInv, TypeOK,
        Answered, NoReply
<1>5. Protected'
    BY <1>1 DEF BroadcastEnds, Resolve, OutcomeSafe, history, IInv, TypeOK,
        Protected, Settled, Guarded, Unvouched, InOrder, NoSnapshot, Answered
<1> QED
    BY <1>1, <1>2, <1>3, <1>4, <1>5 DEF IInv

\* The file gets what the registry has.
LEMMA PublishedKeeps ==
    ASSUME IInv, Published
    PROVE  IInv'
<1> USE UpdateAssumption, SnapshotParts
<1>1. TypeOK'
    BY DEF Published, Publish, history, IInv, TypeOK, NoReply, Snapshot
<1>2. Numbered'
    BY <1>1 DEF Published, Publish, history, IInv, TypeOK, Numbered, NoSnapshot,
        Snapshot, InOrder
<1>3. InOrder'
    BY <1>1 DEF Published, Publish, history, IInv, TypeOK, Numbered, InOrder,
        Acknowledged, NoSnapshot, Snapshot
<1>4. Answered'
    BY <1>1 DEF Published, Publish, history, IInv, TypeOK, Answered, NoReply
<1>5. Protected'
    BY <1>1 DEF Published, Publish, history, IInv, TypeOK, Protected, Settled,
        Guarded, Unvouched, InOrder, NoSnapshot, Answered
<1> QED
    BY <1>1, <1>2, <1>3, <1>4, <1>5 DEF IInv

\* So it does later.
LEMMA KeepaliveKeeps ==
    ASSUME IInv, Keepalive
    PROVE  IInv'
<1> USE UpdateAssumption, SnapshotParts
<1>1. TypeOK'
    BY DEF Keepalive, Publish, history, IInv, TypeOK, NoReply, Snapshot
<1>2. Numbered'
    BY <1>1 DEF Keepalive, Publish, history, IInv, TypeOK, Numbered, NoSnapshot,
        Snapshot
<1>3. InOrder'
    BY <1>1 DEF Keepalive, Publish, history, IInv, TypeOK, Numbered, InOrder,
        Acknowledged, NoSnapshot, Snapshot
<1>4. Answered'
    BY <1>1 DEF Keepalive, Publish, history, IInv, TypeOK, Answered, NoReply
<1>5. Protected'
    BY <1>1 DEF Keepalive, Publish, history, IInv, TypeOK, Protected, Settled,
        Guarded, Unvouched, InOrder, NoSnapshot, Answered
<1> QED
    BY <1>1, <1>2, <1>3, <1>4, <1>5 DEF IInv

\* The operator vouches for a journaled worker.
LEMMA EnableKeeps ==
    ASSUME IInv, NEW w \in Workers, Enable(w)
    PROVE  IInv'
<1> USE UpdateAssumption, SnapshotParts
<1>1. TypeOK'
    BY DEF Enable, Put, history, IInv, TypeOK, NoReply
<1>2. Numbered'
    BY <1>1 DEF Enable, Put, history, IInv, TypeOK, Numbered, NoSnapshot, Snapshot
<1>3. InOrder'
    BY <1>1 DEF Enable, Put, history, IInv, TypeOK, Numbered, InOrder, Acknowledged,
        NoSnapshot, Snapshot
<1>4. Answered'
    BY <1>1 DEF Enable, Put, history, IInv, TypeOK, Answered, NoReply
<1>5. Protected'
    BY <1>1 DEF Enable, Put, history, IInv, TypeOK, Protected, Settled, Guarded,
        Unvouched, InOrder, NoSnapshot, Answered
<1> QED
    BY <1>1, <1>2, <1>3, <1>4, <1>5 DEF IInv

\* So he does if the request is refused and the file was replaced.
LEMMA EnableIsRefusedKeeps ==
    ASSUME IInv, NEW w \in Workers, EnableIsRefused(w)
    PROVE  IInv'
<1> USE UpdateAssumption, SnapshotParts
<1>1. TypeOK'
    BY DEF EnableIsRefused, Put, control, history, IInv, TypeOK, NoReply
<1>2. Numbered'
    BY <1>1 DEF EnableIsRefused, Put, control, history, IInv, TypeOK, Numbered,
        NoSnapshot, Snapshot
<1>3. InOrder'
    BY <1>1 DEF EnableIsRefused, Put, control, history, IInv, TypeOK, Numbered,
        InOrder, Acknowledged, NoSnapshot, Snapshot
<1>4. Answered'
    BY <1>1 DEF EnableIsRefused, Put, control, history, IInv, TypeOK, Answered,
        NoReply
<1>5. Protected'
    BY <1>1 DEF EnableIsRefused, Put, control, history, IInv, TypeOK, Protected,
        Settled, Guarded, Unvouched, InOrder, NoSnapshot, Answered
<1> QED
    BY <1>1, <1>2, <1>3, <1>4, <1>5 DEF IInv

\* One more is disabled.
LEMMA DisableOneKeeps ==
    ASSUME IInv, NEW w \in Workers, DisableOne(w)
    PROVE  IInv'
<1> USE UpdateAssumption, SnapshotParts
<1>1. TypeOK'
    BY DEF DisableOne, Put, history, IInv, TypeOK, NoReply
<1>2. Numbered'
    BY <1>1 DEF DisableOne, Put, history, IInv, TypeOK, Numbered, NoSnapshot,
        Snapshot
<1>3. InOrder'
    BY <1>1 DEF DisableOne, Put, history, IInv, TypeOK, Numbered, InOrder,
        Acknowledged, NoSnapshot, Snapshot
<1>4. Answered'
    BY <1>1 DEF DisableOne, Put, history, IInv, TypeOK, Answered, NoReply
<1>5. Protected'
    BY <1>1 DEF DisableOne, Put, history, IInv, TypeOK, Protected, Settled, Guarded,
        Unvouched, InOrder, NoSnapshot, Answered
<1> QED
    BY <1>1, <1>2, <1>3, <1>4, <1>5 DEF IInv

\* The operator vouches for all that are journaled.
LEMMA ResolveJournalKeeps ==
    ASSUME IInv, ResolveJournal
    PROVE  IInv'
<1> USE UpdateAssumption, SnapshotParts
<1>1. TypeOK'
    BY DEF ResolveJournal, Put, control, history, IInv, TypeOK, NoReply
<1>2. Numbered'
    BY <1>1 DEF ResolveJournal, Put, control, history, IInv, TypeOK, Numbered,
        NoSnapshot, Snapshot
<1>3. InOrder'
    BY <1>1 DEF ResolveJournal, Put, control, history, IInv, TypeOK, Numbered,
        InOrder, Acknowledged, NoSnapshot, Snapshot
<1>4. Answered'
    BY <1>1 DEF ResolveJournal, Put, control, history, IInv, TypeOK, Answered,
        NoReply
<1>5. Protected'
    BY <1>1 DEF ResolveJournal, Put, control, history, IInv, TypeOK, Protected,
        Settled, Guarded, Unvouched, InOrder, NoSnapshot, Answered
<1> QED
    BY <1>1, <1>2, <1>3, <1>4, <1>5 DEF IInv

\* The journal and the file stay.
LEMMA ControlPlaneDiesKeeps ==
    ASSUME IInv, ControlPlaneDies
    PROVE  IInv'
<1> USE UpdateAssumption, SnapshotParts
<1>1. TypeOK'
    BY DEF ControlPlaneDies, Dies, ControlPlaneGone, history, IInv, TypeOK, NoReply
<1>2. Numbered'
    BY <1>1 DEF ControlPlaneDies, Dies, ControlPlaneGone, history, IInv, TypeOK,
        Numbered, NoSnapshot, Snapshot
<1>3. InOrder'
    BY <1>1 DEF ControlPlaneDies, Dies, ControlPlaneGone, history, IInv, TypeOK,
        Numbered, InOrder, Acknowledged, NoSnapshot, Snapshot
<1>4. Answered'
    BY <1>1 DEF ControlPlaneDies, Dies, ControlPlaneGone, history, IInv, TypeOK,
        Answered, NoReply
<1>5. Protected'
    BY <1>1 DEF ControlPlaneDies, Dies, ControlPlaneGone, history, IInv, TypeOK,
        Protected, Settled, Guarded, Unvouched, InOrder, NoSnapshot, Answered
<1> QED
    BY <1>1, <1>2, <1>3, <1>4, <1>5 DEF IInv

\* The journal stays.
LEMMA HostDiesKeeps ==
    ASSUME IInv, HostDies
    PROVE  IInv'
<1> USE UpdateAssumption, SnapshotParts
<1>1. TypeOK'
    BY DEF HostDies, Dies, ControlPlaneGone, history, IInv, TypeOK, NoReply
<1>2. Numbered'
    BY <1>1 DEF HostDies, Dies, ControlPlaneGone, history, IInv, TypeOK, Numbered,
        NoSnapshot, Snapshot
<1>3. InOrder'
    BY <1>1 DEF HostDies, Dies, ControlPlaneGone, history, IInv, TypeOK, Numbered,
        InOrder, Acknowledged, NoSnapshot, Snapshot
<1>4. Answered'
    BY <1>1 DEF HostDies, Dies, ControlPlaneGone, history, IInv, TypeOK, Answered,
        NoReply
<1>5. Protected'
    BY <1>1 DEF HostDies, Dies, ControlPlaneGone, history, IInv, TypeOK, Protected,
        Settled, Guarded, Unvouched, InOrder, NoSnapshot, Answered
<1> QED
    BY <1>1, <1>2, <1>3, <1>4, <1>5 DEF IInv

\* A new DP routes to nobody.
LEMMA DataPlaneDiesKeeps ==
    ASSUME IInv, NEW d \in DPs, DataPlaneDies(d)
    PROVE  IInv'
<1> USE UpdateAssumption, SnapshotParts
<1>1. TypeOK'
    BY DEF DataPlaneDies, Dies, control, history, IInv, TypeOK, NoReply
<1>2. Numbered'
    BY <1>1 DEF DataPlaneDies, Dies, control, history, IInv, TypeOK, Numbered,
        NoSnapshot, Snapshot
<1>3. InOrder'
    BY <1>1 DEF DataPlaneDies, Dies, control, history, IInv, TypeOK, Numbered,
        InOrder, Acknowledged, NoSnapshot, Snapshot
<1>4. Answered'
    BY <1>1 DEF DataPlaneDies, Dies, control, history, IInv, TypeOK, Answered,
        NoReply
<1>5. Protected'
    BY <1>1 DEF DataPlaneDies, Dies, control, history, IInv, TypeOK, Protected,
        Settled, Guarded, Unvouched, InOrder, NoSnapshot, Answered
<1> QED
    BY <1>1, <1>2, <1>3, <1>4, <1>5 DEF IInv

\* The new CP disables all that is journaled.
LEMMA ControlPlaneStartsKeeps ==
    ASSUME IInv, ControlPlaneStarts
    PROVE  IInv'
<1> USE UpdateAssumption, SnapshotParts
<1>1. TypeOK'
    BY DEF ControlPlaneStarts, Recovered, Restored, Publish, history, IInv, TypeOK,
        NoReply, Snapshot
<1>2. Numbered'
    BY <1>1 DEF ControlPlaneStarts, Recovered, Restored, Publish, history, IInv,
        TypeOK, Numbered, NoSnapshot, Snapshot
<1>3. InOrder'
    BY <1>1 DEF ControlPlaneStarts, Recovered, Restored, Publish, history, IInv,
        TypeOK, Numbered, InOrder, Acknowledged, NoSnapshot, Snapshot
<1>4. Answered'
    BY <1>1 DEF ControlPlaneStarts, Recovered, Restored, Publish, history, IInv,
        TypeOK, Answered, NoReply
<1>5. Protected'
    BY <1>1 DEF ControlPlaneStarts, Recovered, Restored, Publish, history, IInv,
        TypeOK, Protected, Settled, Guarded, Unvouched, InOrder, NoSnapshot,
        Answered
<1> QED
    BY <1>1, <1>2, <1>3, <1>4, <1>5 DEF IInv

\* A DP takes the file.
LEMMA RefreshKeeps ==
    ASSUME IInv, NEW d \in DPs, Refresh(d)
    PROVE  IInv'
<1> USE UpdateAssumption, SnapshotParts
<1>1. TypeOK'
    BY DEF Refresh, Newer, control, history, IInv, TypeOK, NoReply
<1>2. Numbered'
    BY <1>1 DEF Refresh, Newer, control, history, IInv, TypeOK, Numbered,
        NoSnapshot, Snapshot
<1>3. InOrder'
    BY <1>1 DEF Refresh, Newer, control, history, IInv, TypeOK, Numbered, InOrder,
        Acknowledged, NoSnapshot, Snapshot
<1>4. Answered'
    BY <1>1 DEF Refresh, Newer, control, history, IInv, TypeOK, Answered, NoReply
<1>5. Protected'
    BY <1>1 DEF Refresh, Newer, control, history, IInv, TypeOK, Protected, Settled,
        Guarded, Unvouched, InOrder, NoSnapshot, Answered
<1> QED
    BY <1>1, <1>2, <1>3, <1>4, <1>5 DEF IInv

\* A DP acknowledges what it has.
LEMMA HeartbeatKeeps ==
    ASSUME IInv, NEW d \in DPs, Heartbeat(d)
    PROVE  IInv'
<1> USE UpdateAssumption, SnapshotParts
<1>1. TypeOK'
    BY DEF Heartbeat, history, IInv, TypeOK, NoReply
<1>2. Numbered'
    BY <1>1 DEF Heartbeat, history, IInv, TypeOK, Numbered, NoSnapshot, Snapshot
<1>3. InOrder'
    BY <1>1 DEF Heartbeat, history, IInv, TypeOK, Numbered, InOrder, Acknowledged,
        NoSnapshot, Snapshot
<1>4. Answered'
    BY <1>1 DEF Heartbeat, history, IInv, TypeOK, Answered, NoReply
<1>5. Protected'
    BY <1>1 DEF Heartbeat, history, IInv, TypeOK, Protected, Settled, Guarded,
        Unvouched, InOrder, NoSnapshot, Answered
<1> QED
    BY <1>1, <1>2, <1>3, <1>4, <1>5 DEF IInv

\* Every step keeps the invariant.
LEMMA StepIInv == IInv /\ [Next]_vars => IInv'
<1> SUFFICES ASSUME IInv, [Next]_vars PROVE IInv'
    OBVIOUS
<1>1. CASE UNCHANGED vars
    BY <1>1 DEF vars, control, history, IInv, TypeOK, Numbered, InOrder, Answered,
            Protected, Settled, Guarded, Unvouched, Acknowledged
<1>2. CASE Transaction
    BY <1>2, JournalBeginsKeeps, DisableKeeps, BarrierPassesKeeps, BarrierTimesOutKeeps,
       BroadcastRaisesKeeps,
       BroadcastEndsKeeps, PublishedKeeps, KeepaliveKeeps, WorkerRunsKeeps,
       AnswerIsLostKeeps DEF Transaction
<1>3. CASE Operator
    BY <1>3, EnableKeeps, EnableIsRefusedKeeps, DisableOneKeeps, ResolveJournalKeeps DEF Operator
<1>4. CASE Death
    BY <1>4, ControlPlaneDiesKeeps, HostDiesKeeps, DataPlaneDiesKeeps DEF Death
<1>5. CASE ControlPlaneStarts \/ \E d \in DPs : Refresh(d) \/ Heartbeat(d)
    BY <1>5, ControlPlaneStartsKeeps, RefreshKeeps, HeartbeatKeeps
<1> QED
    BY <1>1, <1>2, <1>3, <1>4, <1>5 DEF Next

-----------------------------------------------------------------------------
\* The theorems.

\* The invariant holds throughout.
THEOREM Inductive == Spec => []IInv
BY InitIInv, StepIInv, PTL DEF Spec

\* Every reachable state of a weight update has its type.
THEOREM TypeCorrect == Spec => []TypeOK
<1>1. IInv => TypeOK
    BY DEF IInv
<1> QED
    BY <1>1, Inductive, PTL

\* No DP routes to a worker that may be changing its weights, whoever dies and
\* whatever fails, unless an operator has vouched for it.
THEOREM NoneRoutedInUpdate == Spec => []UpdatedIsNotRouted
<1>1. IInv => UpdatedIsNotRouted
    BY DEF IInv, Protected, Settled, Guarded, Unvouched, UpdatedIsNotRouted, Routable
<1> QED
    BY <1>1, Inductive, PTL

\* The workers a DP routes to have the same weights, but for those an operator
\* has vouched for.
THEOREM WeightsNotMixed == Spec => []NoMixedWeights
<1>1. IInv => NoMixedWeights
    BY DEF IInv, Protected, Settled, Guarded, Unvouched, NoMixedWeights, Routable
<1> QED
    BY <1>1, Inductive, PTL

=============================================================================
