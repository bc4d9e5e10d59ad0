--------------------------- MODULE KVTransferProofs ---------------------------
(***************************************************************************)
(* Theorems about KVTransfer, for any sets of transfers and requests and   *)
(* every cap of _aborted_kv_requests.                                      *)
(*                                                                         *)
(* What the sender does with its lease is safe because of what has not     *)
(* happened at the receiver yet, so the invariant follows a transfer over  *)
(* both sides: until the data message is out nothing is read, and an       *)
(* answer exists only when nothing is read any more.                       *)
(***************************************************************************)
EXTENDS KVTransfer, TLAPS

\* The receiver has answered for the transfer.
Answered(t) ==
    \/ <<"done", t>> \in wire \/ <<"failed", t>> \in wire
    \/ t \in terminal \/ ack[t] = "ok"

\* The lease, the pending transfer and its watch.  A lease is released only if
\* the receiver has answered, or will never hear of the data.
LeaseInv(t) ==
    /\ pc[t] \in {"idle", "prepare", "ready"} =>
          lease[t] = "held" /\ watch[t] = "none" /\ ack[t] = "none"
    /\ lease[t] = "held" => pc[t] \in {"idle", "prepare", "ready"}
    /\ watch[t] = "armed" => lease[t] = "pending"
    /\ lease[t] = "retained" => watch[t] = "failed"
    /\ lease[t] = "released" =>
          \/ t \in terminal \/ ack[t] = "ok"
          \/ pc[t] = "done" /\ read[t] = "none" /\ <<"data", t>> \notin wire

\* The order of events: data message, read, copy, answer.
OrderInv(t) ==
    /\ pc[t] \in {"idle", "prepare", "ready", "publish"} =>
          read[t] = "none" /\ <<"data", t>> \notin wire
    /\ <<"data", t>> \in wire => read[t] = "none"
    /\ read[t] \in {"none", "created"} => copy[t] = "none"
    /\ Answered(t) => read[t] = "over" /\ copy[t] # "running"

\* The destination pages: reserved once, kept while they are read into,
\* committed before anybody says so.
PagesInv(t) ==
    /\ pc[t] \in {"idle", "prepare"} => <<"prepare", t>> \notin wire /\ resv[t] = "none"
    /\ <<"prepare", t>> \in wire => resv[t] = "none"
    /\ read[t] \in {"reading", "timeout", "cancel"} => resv[t] \in {"copying", "doomed"}
    /\ copy[t] = "running" => read[t] \in {"reading", "timeout", "cancel", "torn"}
    /\ resv[t] = "committed" => read[t] = "over"
    /\ <<"done", t>> \in wire \/ ack[t] = "ok" \/ watch[t] = "ok" \/ outcome[t] = "ok" =>
          resv[t] = "committed"
    /\ t \in cleaned => resv[t] \in {"aborted", "doomed"}
    /\ ReqOf[t] \in aborted => resv[t] # "reserved"

IInv ==
    /\ TypeOK
    /\ \A t \in Transfers : LeaseInv(t) /\ OrderInv(t) /\ PagesInv(t)

\* The first states.
LEMMA InitIInv == Init => IInv
BY DEF Init, IInv, TypeOK, LeaseInv, OrderInv, PagesInv, Answered, Kinds, Inbound,
        Reading

\* The possible new values of _aborted_kv_requests.
LEMMA RecordedIds ==
    ASSUME TypeOK, NEW q \in Requests, NEW ids \in Recorded(q)
    PROVE  ids \in SUBSET Requests /\ ids \subseteq aborted \cup {q}
BY DEF Recorded, TypeOK

\* A call begins, or is refused with its lease, before anything was sent.
LEMMA StartKeeps ==
    ASSUME IInv, NEW s \in Transfers, Start(s)
    PROVE  IInv'
<1> USE KVAssumption
<1>1. TypeOK'
    BY DEF Start, Finish, IInv, TypeOK, Kinds, Inbound, Reading, sending, receiving
<1>2. ASSUME NEW t \in Transfers
      PROVE  LeaseInv(t)' /\ OrderInv(t)' /\ PagesInv(t)'
    <2>0. TypeOK /\ LeaseInv(t) /\ OrderInv(t) /\ PagesInv(t)
        BY DEF IInv
    <2>1. LeaseInv(t)'
        BY <2>0
           DEF Start, Finish, TypeOK, LeaseInv, OrderInv, PagesInv, Answered, sending,
               receiving
    <2>2. OrderInv(t)'
        BY <2>0
           DEF Start, Finish, TypeOK, LeaseInv, OrderInv, PagesInv, Answered, sending,
               receiving
    <2>3. PagesInv(t)'
        BY <2>0
           DEF Start, Finish, TypeOK, LeaseInv, OrderInv, PagesInv, Answered, sending,
               receiving
    <2> QED BY <2>1, <2>2, <2>3
<1> QED
    BY <1>1, <1>2 DEF IInv

\* The announcement is out, once; nothing is reserved yet.
LEMMA PrepareSentKeeps ==
    ASSUME IInv, NEW s \in Transfers, PrepareSent(s)
    PROVE  IInv'
<1> USE KVAssumption
<1>1. TypeOK'
    BY DEF PrepareSent, IInv, TypeOK, Kinds, Inbound, Reading, sending, receiving
<1>2. ASSUME NEW t \in Transfers
      PROVE  LeaseInv(t)' /\ OrderInv(t)' /\ PagesInv(t)'
    <2>0. TypeOK /\ LeaseInv(t) /\ OrderInv(t) /\ PagesInv(t)
        BY DEF IInv
    <2>1. LeaseInv(t)'
        BY <2>0
           DEF PrepareSent, TypeOK, LeaseInv, OrderInv, PagesInv, Answered, sending,
               receiving
    <2>2. OrderInv(t)'
        BY <2>0
           DEF PrepareSent, TypeOK, LeaseInv, OrderInv, PagesInv, Answered, sending,
               receiving
    <2>3. PagesInv(t)'
        BY <2>0
           DEF PrepareSent, TypeOK, LeaseInv, OrderInv, PagesInv, Answered, sending,
               receiving
    <2> QED BY <2>1, <2>2, <2>3
<1> QED
    BY <1>1, <1>2 DEF IInv

\* The pending transfer owns the lease before the data message is out.
LEMMA ResumeKeeps ==
    ASSUME IInv, NEW s \in Transfers, Resume(s)
    PROVE  IInv'
<1> USE KVAssumption
<1>1. TypeOK'
    BY DEF Resume, Finish, IInv, TypeOK, Kinds, Inbound, Reading, sending, receiving
<1>2. ASSUME NEW t \in Transfers
      PROVE  LeaseInv(t)' /\ OrderInv(t)' /\ PagesInv(t)'
    <2>0. TypeOK /\ LeaseInv(t) /\ OrderInv(t) /\ PagesInv(t)
        BY DEF IInv
    <2>1. LeaseInv(t)'
        BY <2>0
           DEF Resume, Finish, TypeOK, LeaseInv, OrderInv, PagesInv, Answered, sending,
               receiving
    <2>2. OrderInv(t)'
        BY <2>0
           DEF Resume, Finish, TypeOK, LeaseInv, OrderInv, PagesInv, Answered, sending,
               receiving
    <2>3. PagesInv(t)'
        BY <2>0
           DEF Resume, Finish, TypeOK, LeaseInv, OrderInv, PagesInv, Answered, sending,
               receiving
    <2> QED BY <2>1, <2>2, <2>3
<1> QED
    BY <1>1, <1>2 DEF IInv

\* Nothing was published: the lease is released and no data will follow.
LEMMA ReadyTimesOutKeeps ==
    ASSUME IInv, NEW s \in Transfers, ReadyTimesOut(s)
    PROVE  IInv'
<1> USE KVAssumption
<1>1. TypeOK'
    BY DEF ReadyTimesOut, Finish, IInv, TypeOK, Kinds, Inbound, Reading, sending,
           receiving
<1>2. ASSUME NEW t \in Transfers
      PROVE  LeaseInv(t)' /\ OrderInv(t)' /\ PagesInv(t)'
    <2>0. TypeOK /\ LeaseInv(t) /\ OrderInv(t) /\ PagesInv(t)
        BY DEF IInv
    <2>1. LeaseInv(t)'
        BY <2>0
           DEF ReadyTimesOut, Finish, TypeOK, LeaseInv, OrderInv, PagesInv, Answered,
               sending, receiving
    <2>2. OrderInv(t)'
        BY <2>0
           DEF ReadyTimesOut, Finish, TypeOK, LeaseInv, OrderInv, PagesInv, Answered,
               sending, receiving
    <2>3. PagesInv(t)'
        BY <2>0
           DEF ReadyTimesOut, Finish, TypeOK, LeaseInv, OrderInv, PagesInv, Answered,
               sending, receiving
    <2> QED BY <2>1, <2>2, <2>3
<1> QED
    BY <1>1, <1>2 DEF IInv

\* From now on the lease waits for an answer.
LEMMA DataSentKeeps ==
    ASSUME IInv, NEW s \in Transfers, DataSent(s)
    PROVE  IInv'
<1> USE KVAssumption
<1>1. TypeOK'
    BY DEF DataSent, Finish, IInv, TypeOK, Kinds, Inbound, Reading, sending,
            receiving
<1>2. ASSUME NEW t \in Transfers
      PROVE  LeaseInv(t)' /\ OrderInv(t)' /\ PagesInv(t)'
    <2>0. TypeOK /\ LeaseInv(t) /\ OrderInv(t) /\ PagesInv(t)
        BY DEF IInv
    <2>1. LeaseInv(t)'
        BY <2>0
           DEF DataSent, Finish, TypeOK, LeaseInv, OrderInv, PagesInv, Answered,
               sending, receiving
    <2>2. OrderInv(t)'
        BY <2>0
           DEF DataSent, Finish, TypeOK, LeaseInv, OrderInv, PagesInv, Answered,
               sending, receiving
    <2>3. PagesInv(t)'
        BY <2>0
           DEF DataSent, Finish, TypeOK, LeaseInv, OrderInv, PagesInv, Answered,
               sending, receiving
    <2> QED BY <2>1, <2>2, <2>3
<1> QED
    BY <1>1, <1>2 DEF IInv

\* A cancelled call leaves its lease to the pending transfer, if there is one.
LEMMA AbandonKeeps ==
    ASSUME IInv, NEW s \in Transfers, Abandon(s)
    PROVE  IInv'
<1> USE KVAssumption
<1>1. TypeOK'
    BY DEF Abandon, Finish, FailPending, Pending, IInv, TypeOK, Kinds, Inbound,
            Reading,
           sending, receiving
<1>2. ASSUME NEW t \in Transfers
      PROVE  LeaseInv(t)' /\ OrderInv(t)' /\ PagesInv(t)'
    <2>0. TypeOK /\ LeaseInv(t) /\ OrderInv(t) /\ PagesInv(t)
        BY DEF IInv
    <2>1. LeaseInv(t)'
        BY <2>0
           DEF Abandon, Finish, FailPending, Pending, TypeOK, LeaseInv, OrderInv,
               PagesInv, Answered, sending, receiving
    <2>2. OrderInv(t)'
        BY <2>0
           DEF Abandon, Finish, FailPending, Pending, TypeOK, LeaseInv, OrderInv,
               PagesInv, Answered, sending, receiving
    <2>3. PagesInv(t)'
        BY <2>0
           DEF Abandon, Finish, FailPending, Pending, TypeOK, LeaseInv, OrderInv,
               PagesInv, Answered, sending, receiving
    <2> QED BY <2>1, <2>2, <2>3
<1> QED
    BY <1>1, <1>2 DEF IInv

\* The lease is released on a positive answer, which is the last the receiver does.
LEMMA AcknowledgedKeeps ==
    ASSUME IInv, NEW s \in Transfers, Acknowledged(s)
    PROVE  IInv'
<1> USE KVAssumption
<1>1. TypeOK'
    BY DEF Acknowledged, EndWatch, IInv, TypeOK, Kinds, Inbound, Reading, sending,
           receiving
<1>2. ASSUME NEW t \in Transfers
      PROVE  LeaseInv(t)' /\ OrderInv(t)' /\ PagesInv(t)'
    <2>0. TypeOK /\ LeaseInv(t) /\ OrderInv(t) /\ PagesInv(t)
        BY DEF IInv
    <2>1. LeaseInv(t)'
        BY <2>0
           DEF Acknowledged, EndWatch, TypeOK, LeaseInv, OrderInv, PagesInv, Answered,
               sending, receiving
    <2>2. OrderInv(t)'
        BY <2>0
           DEF Acknowledged, EndWatch, TypeOK, LeaseInv, OrderInv, PagesInv, Answered,
               sending, receiving
    <2>3. PagesInv(t)'
        BY <2>0
           DEF Acknowledged, EndWatch, TypeOK, LeaseInv, OrderInv, PagesInv, Answered,
               sending, receiving
    <2> QED BY <2>1, <2>2, <2>3
<1> QED
    BY <1>1, <1>2 DEF IInv

\* Without an answer the transfer is retained; with one the receiver is done.
LEMMA WatchFailsKeeps ==
    ASSUME IInv, NEW s \in Transfers, WatchFails(s)
    PROVE  IInv'
<1> USE KVAssumption
<1>1. TypeOK'
    BY DEF WatchFails, EndWatch, Retains, IInv, TypeOK, Kinds, Inbound, Reading,
           sending, receiving
<1>2. ASSUME NEW t \in Transfers
      PROVE  LeaseInv(t)' /\ OrderInv(t)' /\ PagesInv(t)'
    <2>0. TypeOK /\ LeaseInv(t) /\ OrderInv(t) /\ PagesInv(t)
        BY DEF IInv
    <2>1. LeaseInv(t)'
        BY <2>0
           DEF WatchFails, EndWatch, Retains, TypeOK, LeaseInv, OrderInv, PagesInv,
               Answered, sending, receiving
    <2>2. OrderInv(t)'
        BY <2>0
           DEF WatchFails, EndWatch, Retains, TypeOK, LeaseInv, OrderInv, PagesInv,
               Answered, sending, receiving
    <2>3. PagesInv(t)'
        BY <2>0
           DEF WatchFails, EndWatch, Retains, TypeOK, LeaseInv, OrderInv, PagesInv,
               Answered, sending, receiving
    <2> QED BY <2>1, <2>2, <2>3
<1> QED
    BY <1>1, <1>2 DEF IInv

\* The call reports how its watch has ended.
LEMMA SendReturnsKeeps ==
    ASSUME IInv, NEW s \in Transfers, SendReturns(s)
    PROVE  IInv'
<1> USE KVAssumption
<1>1. TypeOK'
    BY DEF SendReturns, Finish, IInv, TypeOK, Kinds, Inbound, Reading, sending,
           receiving
<1>2. ASSUME NEW t \in Transfers
      PROVE  LeaseInv(t)' /\ OrderInv(t)' /\ PagesInv(t)'
    <2>0. TypeOK /\ LeaseInv(t) /\ OrderInv(t) /\ PagesInv(t)
        BY DEF IInv
    <2>1. LeaseInv(t)'
        BY <2>0
           DEF SendReturns, Finish, TypeOK, LeaseInv, OrderInv, PagesInv, Answered,
               sending, receiving
    <2>2. OrderInv(t)'
        BY <2>0
           DEF SendReturns, Finish, TypeOK, LeaseInv, OrderInv, PagesInv, Answered,
               sending, receiving
    <2>3. PagesInv(t)'
        BY <2>0
           DEF SendReturns, Finish, TypeOK, LeaseInv, OrderInv, PagesInv, Answered,
               sending, receiving
    <2> QED BY <2>1, <2>2, <2>3
<1> QED
    BY <1>1, <1>2 DEF IInv

\* An answer to the announcement changes a future only.
LEMMA ReceiveReadyKeeps ==
    ASSUME IInv, NEW s \in Transfers, ReceiveReady(s)
    PROVE  IInv'
<1> USE KVAssumption
<1>1. TypeOK'
    BY DEF ReceiveReady, IInv, TypeOK, Kinds, Inbound, Reading, sending, receiving
<1>2. ASSUME NEW t \in Transfers
      PROVE  LeaseInv(t)' /\ OrderInv(t)' /\ PagesInv(t)'
    <2>0. TypeOK /\ LeaseInv(t) /\ OrderInv(t) /\ PagesInv(t)
        BY DEF IInv
    <2>1. LeaseInv(t)'
        BY <2>0
           DEF ReceiveReady, TypeOK, LeaseInv, OrderInv, PagesInv, Answered, sending,
               receiving
    <2>2. OrderInv(t)'
        BY <2>0
           DEF ReceiveReady, TypeOK, LeaseInv, OrderInv, PagesInv, Answered, sending,
               receiving
    <2>3. PagesInv(t)'
        BY <2>0
           DEF ReceiveReady, TypeOK, LeaseInv, OrderInv, PagesInv, Answered, sending,
               receiving
    <2> QED BY <2>1, <2>2, <2>3
<1> QED
    BY <1>1, <1>2 DEF IInv

\* An answer that is taken off the wire is remembered, if anybody waits for it.
LEMMA ReceiveAckKeeps ==
    ASSUME IInv, NEW s \in Transfers, ReceiveAck(s)
    PROVE  IInv'
<1> USE KVAssumption
<1>1. TypeOK'
    BY DEF ReceiveAck, Pending, IInv, TypeOK, Kinds, Inbound, Reading, sending,
           receiving
<1>2. ASSUME NEW t \in Transfers
      PROVE  LeaseInv(t)' /\ OrderInv(t)' /\ PagesInv(t)'
    <2>0. TypeOK /\ LeaseInv(t) /\ OrderInv(t) /\ PagesInv(t)
        BY DEF IInv
    <2>1. LeaseInv(t)'
        BY <2>0
           DEF ReceiveAck, Pending, TypeOK, LeaseInv, OrderInv, PagesInv, Answered,
               sending, receiving
    <2>2. OrderInv(t)'
        BY <2>0
           DEF ReceiveAck, Pending, TypeOK, LeaseInv, OrderInv, PagesInv, Answered,
               sending, receiving
    <2>3. PagesInv(t)'
        BY <2>0
           DEF ReceiveAck, Pending, TypeOK, LeaseInv, OrderInv, PagesInv, Answered,
               sending, receiving
    <2> QED BY <2>1, <2>2, <2>3
<1> QED
    BY <1>1, <1>2 DEF IInv

\* Pages are reserved once, and for no request that is known to be over.
LEMMA ReceivePrepareKeeps ==
    ASSUME IInv, NEW s \in Transfers, ReceivePrepare(s)
    PROVE  IInv'
<1> USE KVAssumption
<1>1. TypeOK'
    BY DEF ReceivePrepare, Receives, Over, IInv, TypeOK, Kinds, Inbound, Reading,
           sending, receiving
<1>2. ASSUME NEW t \in Transfers
      PROVE  LeaseInv(t)' /\ OrderInv(t)' /\ PagesInv(t)'
    <2>0. TypeOK /\ LeaseInv(t) /\ OrderInv(t) /\ PagesInv(t)
        BY DEF IInv
    <2>1. LeaseInv(t)'
        BY <2>0
           DEF ReceivePrepare, Receives, Over, TypeOK, LeaseInv, OrderInv, PagesInv,
               Answered, sending, receiving
    <2>2. OrderInv(t)'
        BY <2>0
           DEF ReceivePrepare, Receives, Over, TypeOK, LeaseInv, OrderInv, PagesInv,
               Answered, sending, receiving
    <2>3. PagesInv(t)'
        BY <2>0
           DEF ReceivePrepare, Receives, Over, TypeOK, LeaseInv, OrderInv, PagesInv,
               Answered, sending, receiving
    <2> QED BY <2>1, <2>2, <2>3
<1> QED
    BY <1>1, <1>2 DEF IInv

\* The data message becomes a task that has not begun to read.
LEMMA ReceiveDataKeeps ==
    ASSUME IInv, NEW s \in Transfers, ReceiveData(s)
    PROVE  IInv'
<1> USE KVAssumption
<1>1. TypeOK'
    BY DEF ReceiveData, Receives, IInv, TypeOK, Kinds, Inbound, Reading, sending,
           receiving
<1>2. ASSUME NEW t \in Transfers
      PROVE  LeaseInv(t)' /\ OrderInv(t)' /\ PagesInv(t)'
    <2>0. TypeOK /\ LeaseInv(t) /\ OrderInv(t) /\ PagesInv(t)
        BY DEF IInv
    <2>1. LeaseInv(t)'
        BY <2>0
           DEF ReceiveData, Receives, TypeOK, LeaseInv, OrderInv, PagesInv, Answered,
               sending, receiving
    <2>2. OrderInv(t)'
        BY <2>0
           DEF ReceiveData, Receives, TypeOK, LeaseInv, OrderInv, PagesInv, Answered,
               sending, receiving
    <2>3. PagesInv(t)'
        BY <2>0
           DEF ReceiveData, Receives, TypeOK, LeaseInv, OrderInv, PagesInv, Answered,
               sending, receiving
    <2> QED BY <2>1, <2>2, <2>3
<1> QED
    BY <1>1, <1>2 DEF IInv

\* A copy begins only into reserved pages, before any answer.
LEMMA BeginReadKeeps ==
    ASSUME IInv, NEW s \in Transfers, BeginRead(s)
    PROVE  IInv'
<1> USE KVAssumption
<1>1. TypeOK'
    BY RecordedIds
       DEF BeginRead, Over, Answer, ReadFails, Cleanup, CleanedUp, Aborting, Inbound,
           IInv, TypeOK, Kinds, Reading, sending, receiving
<1>2. ASSUME NEW t \in Transfers
      PROVE  LeaseInv(t)' /\ OrderInv(t)' /\ PagesInv(t)'
    <2>0. TypeOK /\ LeaseInv(t) /\ OrderInv(t) /\ PagesInv(t)
        BY DEF IInv
    <2>1. LeaseInv(t)'
        BY RecordedIds, <2>0
           DEF BeginRead, Over, Answer, ReadFails, Cleanup, CleanedUp, Aborting,
               Inbound, TypeOK, LeaseInv, OrderInv, PagesInv, Answered, sending,
               receiving
    <2>2. OrderInv(t)'
        BY RecordedIds, <2>0
           DEF BeginRead, Over, Answer, ReadFails, Cleanup, CleanedUp, Aborting,
               Inbound, TypeOK, LeaseInv, OrderInv, PagesInv, Answered, sending,
               receiving
    <2>3. PagesInv(t)'
        BY RecordedIds, <2>0
           DEF BeginRead, Over, Answer, ReadFails, Cleanup, CleanedUp, Aborting,
               Inbound, TypeOK, LeaseInv, OrderInv, PagesInv, Answered, sending,
               receiving
    <2> QED BY <2>1, <2>2, <2>3
<1> QED
    BY <1>1, <1>2 DEF IInv

\* The end of a copy settles nothing by itself.
LEMMA CopyEndsKeeps ==
    ASSUME IInv, NEW s \in Transfers, CopyEnds(s)
    PROVE  IInv'
<1> USE KVAssumption
<1>1. TypeOK'
    BY DEF CopyEnds, IInv, TypeOK, Kinds, Inbound, Reading, sending, receiving
<1>2. ASSUME NEW t \in Transfers
      PROVE  LeaseInv(t)' /\ OrderInv(t)' /\ PagesInv(t)'
    <2>0. TypeOK /\ LeaseInv(t) /\ OrderInv(t) /\ PagesInv(t)
        BY DEF IInv
    <2>1. LeaseInv(t)'
        BY <2>0
           DEF CopyEnds, TypeOK, LeaseInv, OrderInv, PagesInv, Answered, sending,
               receiving
    <2>2. OrderInv(t)'
        BY <2>0
           DEF CopyEnds, TypeOK, LeaseInv, OrderInv, PagesInv, Answered, sending,
               receiving
    <2>3. PagesInv(t)'
        BY <2>0
           DEF CopyEnds, TypeOK, LeaseInv, OrderInv, PagesInv, Answered, sending,
               receiving
    <2> QED BY <2>1, <2>2, <2>3
<1> QED
    BY <1>1, <1>2 DEF IInv

\* A wait that has timed out keeps its pages.
LEMMA ReadTimesOutKeeps ==
    ASSUME IInv, NEW s \in Transfers, ReadTimesOut(s)
    PROVE  IInv'
<1> USE KVAssumption
<1>1. TypeOK'
    BY DEF ReadTimesOut, IInv, TypeOK, Kinds, Inbound, Reading, sending, receiving
<1>2. ASSUME NEW t \in Transfers
      PROVE  LeaseInv(t)' /\ OrderInv(t)' /\ PagesInv(t)'
    <2>0. TypeOK /\ LeaseInv(t) /\ OrderInv(t) /\ PagesInv(t)
        BY DEF IInv
    <2>1. LeaseInv(t)'
        BY <2>0
           DEF ReadTimesOut, TypeOK, LeaseInv, OrderInv, PagesInv, Answered, sending,
               receiving
    <2>2. OrderInv(t)'
        BY <2>0
           DEF ReadTimesOut, TypeOK, LeaseInv, OrderInv, PagesInv, Answered, sending,
               receiving
    <2>3. PagesInv(t)'
        BY <2>0
           DEF ReadTimesOut, TypeOK, LeaseInv, OrderInv, PagesInv, Answered, sending,
               receiving
    <2> QED BY <2>1, <2>2, <2>3
<1> QED
    BY <1>1, <1>2 DEF IInv

\* Pages are committed or given back, and the answer is sent, after the copy.
LEMMA EndReadKeeps ==
    ASSUME IInv, NEW s \in Transfers, EndRead(s)
    PROVE  IInv'
<1> USE KVAssumption
<1>1. TypeOK'
    BY RecordedIds
       DEF EndRead, MayCommit, Answer, ReadFails, Cleanup, CleanedUp, Aborting, Inbound,
           IInv, TypeOK, Kinds, Reading, sending, receiving
<1>2. ASSUME NEW t \in Transfers
      PROVE  LeaseInv(t)' /\ OrderInv(t)' /\ PagesInv(t)'
    <2>0. TypeOK /\ LeaseInv(t) /\ OrderInv(t) /\ PagesInv(t)
        BY DEF IInv
    <2>1. LeaseInv(t)'
        BY RecordedIds, <2>0
           DEF EndRead, MayCommit, Answer, ReadFails, Cleanup, CleanedUp, Aborting,
               Inbound, TypeOK, LeaseInv, OrderInv, PagesInv, Answered, sending,
               receiving
    <2>2. OrderInv(t)'
        BY RecordedIds, <2>0
           DEF EndRead, MayCommit, Answer, ReadFails, Cleanup, CleanedUp, Aborting,
               Inbound, TypeOK, LeaseInv, OrderInv, PagesInv, Answered, sending,
               receiving
    <2>3. PagesInv(t)'
        BY RecordedIds, <2>0
           DEF EndRead, MayCommit, Answer, ReadFails, Cleanup, CleanedUp, Aborting,
               Inbound, TypeOK, LeaseInv, OrderInv, PagesInv, Answered, sending,
               receiving
    <2> QED BY <2>1, <2>2, <2>3
<1> QED
    BY <1>1, <1>2 DEF IInv

\* cleanup() at the sender arms watches; it releases nothing.
LEMMA CleanupSenderKeeps ==
    ASSUME IInv, NEW q \in Requests, CleanupSender(q)
    PROVE  IInv'
<1> USE KVAssumption
<1>1. TypeOK'
    BY DEF CleanupSender, FailReady, FailPending, Pending, IInv, TypeOK, Kinds,
            Inbound,
           Reading, sending, receiving
<1>2. ASSUME NEW t \in Transfers
      PROVE  LeaseInv(t)' /\ OrderInv(t)' /\ PagesInv(t)'
    <2>0. TypeOK /\ LeaseInv(t) /\ OrderInv(t) /\ PagesInv(t)
        BY DEF IInv
    <2>1. LeaseInv(t)'
        BY <2>0
           DEF CleanupSender, FailReady, FailPending, Pending, TypeOK, LeaseInv,
               OrderInv, PagesInv, Answered, sending, receiving
    <2>2. OrderInv(t)'
        BY <2>0
           DEF CleanupSender, FailReady, FailPending, Pending, TypeOK, LeaseInv,
               OrderInv, PagesInv, Answered, sending, receiving
    <2>3. PagesInv(t)'
        BY <2>0
           DEF CleanupSender, FailReady, FailPending, Pending, TypeOK, LeaseInv,
               OrderInv, PagesInv, Answered, sending, receiving
    <2> QED BY <2>1, <2>2, <2>3
<1> QED
    BY <1>1, <1>2 DEF IInv

\* cleanup() at the receiver gives back what is reserved, and dooms what is copied.
LEMMA CleanupReceiverKeeps ==
    ASSUME IInv, NEW q \in Requests, CleanupReceiver(q)
    PROVE  IInv'
<1> USE KVAssumption
<1>1. TypeOK'
    BY RecordedIds
       DEF CleanupReceiver, Cleanup, CleanedUp, Inbound, IInv, TypeOK, Kinds, Reading,
           sending, receiving
<1>2. ASSUME NEW t \in Transfers
      PROVE  LeaseInv(t)' /\ OrderInv(t)' /\ PagesInv(t)'
    <2>0. TypeOK /\ LeaseInv(t) /\ OrderInv(t) /\ PagesInv(t)
        BY DEF IInv
    <2>1. LeaseInv(t)'
        BY RecordedIds, <2>0
           DEF CleanupReceiver, Cleanup, CleanedUp, Inbound, TypeOK, LeaseInv, OrderInv,
               PagesInv, Answered, sending, receiving
    <2>2. OrderInv(t)'
        BY RecordedIds, <2>0
           DEF CleanupReceiver, Cleanup, CleanedUp, Inbound, TypeOK, LeaseInv, OrderInv,
               PagesInv, Answered, sending, receiving
    <2>3. PagesInv(t)'
        BY RecordedIds, <2>0
           DEF CleanupReceiver, Cleanup, CleanedUp, Inbound, TypeOK, LeaseInv, OrderInv,
               PagesInv, Answered, sending, receiving
    <2> QED BY <2>1, <2>2, <2>3
<1> QED
    BY <1>1, <1>2 DEF IInv

\* close() at the sender arms watches; it releases nothing.
LEMMA CloseSenderKeeps ==
    ASSUME IInv, CloseSender
    PROVE  IInv'
<1> USE KVAssumption
<1>1. TypeOK'
    BY DEF CloseSender, FailReady, FailPending, Pending, IInv, TypeOK, Kinds,
            Inbound,
           Reading, sending, receiving
<1>2. ASSUME NEW t \in Transfers
      PROVE  LeaseInv(t)' /\ OrderInv(t)' /\ PagesInv(t)'
    <2>0. TypeOK /\ LeaseInv(t) /\ OrderInv(t) /\ PagesInv(t)
        BY DEF IInv
    <2>1. LeaseInv(t)'
        BY <2>0
           DEF CloseSender, FailReady, FailPending, Pending, TypeOK, LeaseInv, OrderInv,
               PagesInv, Answered, sending, receiving
    <2>2. OrderInv(t)'
        BY <2>0
           DEF CloseSender, FailReady, FailPending, Pending, TypeOK, LeaseInv, OrderInv,
               PagesInv, Answered, sending, receiving
    <2>3. PagesInv(t)'
        BY <2>0
           DEF CloseSender, FailReady, FailPending, Pending, TypeOK, LeaseInv, OrderInv,
               PagesInv, Answered, sending, receiving
    <2> QED BY <2>1, <2>2, <2>3
<1> QED
    BY <1>1, <1>2 DEF IInv

\* close() at the receiver cancels the tasks; none of them answers.
LEMMA CloseReceiverKeeps ==
    ASSUME IInv, CloseReceiver
    PROVE  IInv'
<1> USE KVAssumption
<1>1. TypeOK'
    BY DEF CloseReceiver, IInv, TypeOK, Kinds, Inbound, Reading, sending, receiving
<1>2. ASSUME NEW t \in Transfers
      PROVE  LeaseInv(t)' /\ OrderInv(t)' /\ PagesInv(t)'
    <2>0. TypeOK /\ LeaseInv(t) /\ OrderInv(t) /\ PagesInv(t)
        BY DEF IInv
    <2>1. LeaseInv(t)'
        BY <2>0
           DEF CloseReceiver, TypeOK, LeaseInv, OrderInv, PagesInv, Answered, sending,
               receiving
    <2>2. OrderInv(t)'
        BY <2>0
           DEF CloseReceiver, TypeOK, LeaseInv, OrderInv, PagesInv, Answered, sending,
               receiving
    <2>3. PagesInv(t)'
        BY <2>0
           DEF CloseReceiver, TypeOK, LeaseInv, OrderInv, PagesInv, Answered, sending,
               receiving
    <2> QED BY <2>1, <2>2, <2>3
<1> QED
    BY <1>1, <1>2 DEF IInv

\* Then nobody reads, and all pages are given back.
LEMMA ReceiverClosedKeeps ==
    ASSUME IInv, ReceiverClosed
    PROVE  IInv'
<1> USE KVAssumption
<1>1. TypeOK'
    BY DEF ReceiverClosed, Inbound, Reading, IInv, TypeOK, Kinds, sending, receiving
<1>2. ASSUME NEW t \in Transfers
      PROVE  LeaseInv(t)' /\ OrderInv(t)' /\ PagesInv(t)'
    <2>0. TypeOK /\ LeaseInv(t) /\ OrderInv(t) /\ PagesInv(t)
        BY DEF IInv
    <2>1. LeaseInv(t)'
        BY <2>0
           DEF ReceiverClosed, Inbound, Reading, TypeOK, LeaseInv, OrderInv, PagesInv,
               Answered, sending, receiving
    <2>2. OrderInv(t)'
        BY <2>0
           DEF ReceiverClosed, Inbound, Reading, TypeOK, LeaseInv, OrderInv, PagesInv,
               Answered, sending, receiving
    <2>3. PagesInv(t)'
        BY <2>0
           DEF ReceiverClosed, Inbound, Reading, TypeOK, LeaseInv, OrderInv, PagesInv,
               Answered, sending, receiving
    <2> QED BY <2>1, <2>2, <2>3
<1> QED
    BY <1>1, <1>2 DEF IInv

\* IInv holds in every reachable state.
THEOREM Inductive == Spec => []IInv
<1>1. ASSUME IInv, [Next]_vars
      PROVE  IInv'
    <2>1. CASE UNCHANGED vars
        <3>1. TypeOK'
            BY <1>1, <2>1 DEF vars, sending, receiving, IInv, TypeOK
        <3>2. ASSUME NEW t \in Transfers
              PROVE  LeaseInv(t)' /\ OrderInv(t)' /\ PagesInv(t)'
            <4>1. LeaseInv(t) /\ OrderInv(t) /\ PagesInv(t)
                BY <1>1 DEF IInv
            <4>2. LeaseInv(t)'
                BY <4>1, <2>1 DEF vars, sending, receiving, LeaseInv
            <4>3. OrderInv(t)'
                BY <4>1, <2>1 DEF vars, sending, receiving, OrderInv, Answered
            <4>4. PagesInv(t)'
                BY <4>1, <2>1 DEF vars, sending, receiving, PagesInv, Answered
            <4> QED
                BY <4>2, <4>3, <4>4
        <3> QED
            BY <3>1, <3>2 DEF IInv
    <2>2. ASSUME NEW s \in Transfers, SenderStep(s)
          PROVE  IInv'
        BY <1>1, <2>2, StartKeeps, PrepareSentKeeps, ResumeKeeps, ReadyTimesOutKeeps,
           DataSentKeeps, AbandonKeeps, AcknowledgedKeeps, WatchFailsKeeps,
           SendReturnsKeeps, ReceiveReadyKeeps, ReceiveAckKeeps
           DEF SenderStep
    <2>3. ASSUME NEW s \in Transfers, ReceiverStep(s)
          PROVE  IInv'
        BY <1>1, <2>3, ReceivePrepareKeeps, ReceiveDataKeeps, BeginReadKeeps, CopyEndsKeeps,
           ReadTimesOutKeeps, EndReadKeeps
           DEF ReceiverStep
    <2> QED
        BY <1>1, <2>1, <2>2, <2>3, CleanupSenderKeeps, CleanupReceiverKeeps, CloseSenderKeeps,
           CloseReceiverKeeps, ReceiverClosedKeeps
           DEF Next
<1> QED
    BY InitIInv, <1>1, PTL DEF Spec

\* Every reachable state has its type.
THEOREM TypeCorrect == Spec => []TypeOK
<1>1. IInv => TypeOK
    BY DEF IInv
<1> QED
    BY <1>1, Inductive, PTL

\* No timeout, cancellation, cleanup, close or answer releases the sender's pages
\* under a copy of the receiver.
THEOREM SourcePagesPinned == Spec => []LeaseCoversCopy
<1>1. IInv => LeaseCoversCopy
    <2> SUFFICES ASSUME IInv, NEW t \in Transfers, copy[t] = "running"
                 PROVE  lease[t] \in {"pending", "retained"}
        BY DEF LeaseCoversCopy
    <2>1. lease[t] \in {"held", "pending", "retained", "released"}
        BY DEF IInv, TypeOK
    <2>2. ~Answered(t) /\ read[t] # "none"
        BY DEF IInv, OrderInv
    <2> QED
        BY <2>1, <2>2 DEF IInv, LeaseInv, OrderInv, Answered
<1> QED
    BY <1>1, Inductive, PTL

\* Destination pages are neither committed nor given back under a copy, also not
\* by cleanup() or close(), unless close() tears a wait that had timed out from
\* its copy.
THEOREM DestinationPagesKept == Spec => []CopyHasItsPages
<1>1. IInv => CopyHasItsPages
    BY DEF IInv, PagesInv, CopyHasItsPages
<1> QED
    BY <1>1, Inductive, PTL

\* send_kv_pages reports a success only of pages that were committed, and no
\* pages are committed that cleanup() has met.
THEOREM SuccessIsTrue == Spec => []TransferIsTruthful
<1>1. IInv => TransferIsTruthful
    BY DEF IInv, PagesInv, TransferIsTruthful
<1> QED
    BY <1>1, Inductive, PTL

\* A request the receiver knows to be over has no reservation that waits for data.
THEOREM NothingReservedLate == Spec => []NoLateReservation
<1>1. IInv => NoLateReservation
    BY DEF IInv, PagesInv, NoLateReservation
<1> QED
    BY <1>1, Inductive, PTL

=============================================================================
