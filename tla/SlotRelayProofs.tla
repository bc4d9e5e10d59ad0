---------------------------- MODULE SlotRelayProofs ----------------------------
(***************************************************************************)
(* Theorems about SlotRelay, for any pool, any sends of any sizes and any  *)
(* number of targets.                                                      *)
(*                                                                         *)
(* The pool is safe because a send goes one way: its slots are taken while *)
(* its worker writes, shown to the peer afterwards, and released by its    *)
(* watch, which exists only from then on.  What makes a send go one way is *)
(* that it is in one queue at most once, and only before all of this.      *)
(***************************************************************************)
EXTENDS SlotRelay, TLAPS

\* A job in a queue is a send of that target that has not begun, and is in it
\* once.
QueueInv ==
    \A q \in Targets :
        /\ \A k \in 1..Len(queue[q]) :
              TargetOf[queue[q][k]] = q /\ pc[queue[q][k]] = "queued"
        /\ \A k, l \in 1..Len(queue[q]) : k # l => queue[q][k] # queue[q][l]

\* Where a send is, and what it holds there.
SendInv(j) ==
    /\ pc[j] \in {"idle", "queued"} => piece[j] = 0
    /\ pc[j] \in Writing \cup {"idle", "queued"} => peer[j] = "none" /\ watch[j] = "none"
    /\ pc[j] \in {"try", "wait"} => piece[j] < Len(Pieces[j])
    /\ pc[j] = "wait" => ~TooLarge(j)
    /\ piece[j] = 0 => holds[j] = {}
    /\ pc[j] = "granted" =>
          /\ last[j] \subseteq holds[j]
          /\ piece[j] = 1 => holds[j] = last[j]
    /\ pc[j] = "sent" => watch[j] # "none"
    /\ peer[j] = "told" => shown[j] \subseteq holds[j]
    /\ watch[j] = "over" => failed \/ holds[j] = {}
    /\ pc[j] = "error" /\ watch[j] = "none" /\ ~BrokenOff(j) => failed \/ holds[j] = {}

\* A slot is free or held by one send.
PoolInv ==
    /\ \A i, j \in Sends : i # j => holds[i] \cap holds[j] = {}
    /\ \A j \in Sends : holds[j] \cap free = {}
    /\ \A s \in Slots : s \in free \/ \E j \in Sends : s \in holds[j]

IInv ==
    /\ TypeOK
    /\ QueueInv
    /\ \A j \in Sends : SendInv(j)
    /\ PoolInv

\* Every send has a positive number of tensors.
LEMMA SizeOfPieces == \A j \in Sends : Len(Pieces[j]) \in Nat \ {0}
BY RelayAssumption

\* The first states.
LEMMA InitIInv == Init => IInv
<1> SUFFICES ASSUME Init PROVE IInv
    OBVIOUS
<1>1. TypeOK
    <2>1. queue \in [Targets -> Seq(Sends)]
        BY DEF Init
    <2>2. piece \in [Sends -> Nat] /\ \A j \in Sends : piece[j] <= Len(Pieces[j])
        BY SizeOfPieces DEF Init
    <2> QED
        BY <2>1, <2>2 DEF Init, TypeOK, Writing
<1>2. QueueInv
    BY DEF Init, QueueInv
<1>3. \A j \in Sends : SendInv(j)
    BY SizeOfPieces DEF Init, SendInv, BrokenOff, TooLarge, Writing
<1>4. PoolInv
    BY DEF Init, PoolInv
<1> QED
    BY <1>1, <1>2, <1>3, <1>4 DEF IInv

\* A send that has not begun goes to the end of the queue of its target.
LEMMA EnqueueKeeps ==
    ASSUME IInv, NEW s \in Sends, Enqueue(s)
    PROVE  IInv'
<1> DEFINE q == TargetOf[s]
<1>1. /\ q \in Targets /\ queue[q] \in Seq(Sends)
      /\ queue' = [queue EXCEPT ![q] = Append(queue[q], s)]
      /\ pc[s] = "idle" /\ pc' = [pc EXCEPT ![s] = "queued"]
      /\ UNCHANGED <<piece, holds, last, free, failed, watch, peer, shown>>
    BY RelayAssumption DEF Enqueue, IInv, TypeOK
<1>2. TargetOf[s] = q
    OBVIOUS
<1> HIDE DEF q
<1>3. TypeOK'
    <2>1. Append(queue[q], s) \in Seq(Sends)
        BY <1>1
    <2>2. queue' \in [Targets -> Seq(Sends)]
        BY <1>1, <2>1 DEF IInv, TypeOK
    <2> QED
        BY <1>1, <2>2 DEF IInv, TypeOK, Writing
<1>4. QueueInv'
    <2>1. /\ Len(Append(queue[q], s)) = Len(queue[q]) + 1
          /\ \A k \in 1..Len(queue[q]) : Append(queue[q], s)[k] = queue[q][k]
          /\ Append(queue[q], s)[Len(queue[q]) + 1] = s
          /\ Len(queue[q]) \in Nat
        BY <1>1
    <2>2. ASSUME NEW p \in Targets, NEW k \in 1..Len(queue[p])
          PROVE  /\ queue[p][k] \in Sends /\ queue[p][k] # s
                 /\ pc'[queue[p][k]] = "queued" /\ TargetOf[queue[p][k]] = p
        <3>1. queue[p] \in Seq(Sends)
            BY DEF IInv, TypeOK
        <3>2. queue[p][k] \in Sends
            BY <3>1
        <3> QED
            BY <1>1, <3>2 DEF IInv, TypeOK, QueueInv
    <2>3. ASSUME NEW p \in Targets, p # q
          PROVE  queue'[p] = queue[p]
        BY <1>1, <2>3 DEF IInv, TypeOK
    <2>4. queue'[q] = Append(queue[q], s)
        BY <1>1 DEF IInv, TypeOK
    <2>5. pc'[s] = "queued"
        BY <1>1 DEF IInv, TypeOK
    <2>6. ASSUME NEW k \in 1..Len(queue'[q])
          PROVE  TargetOf[queue'[q][k]] = q /\ pc'[queue'[q][k]] = "queued"
        <3>1. k \in 1..Len(queue[q]) \/ k = Len(queue[q]) + 1
            BY <2>1, <2>4
        <3> QED
            BY <1>1, <1>2, <2>1, <2>2, <2>4, <2>5, <3>1
    <2>7. ASSUME NEW k \in 1..Len(queue'[q]), NEW l \in 1..Len(queue'[q]), k # l
          PROVE  queue'[q][k] # queue'[q][l]
        <3>1. /\ k \in 1..Len(queue[q]) \/ k = Len(queue[q]) + 1
              /\ l \in 1..Len(queue[q]) \/ l = Len(queue[q]) + 1
            BY <2>1, <2>4
        <3>2. k \in 1..Len(queue[q]) /\ l \in 1..Len(queue[q]) => queue[q][k] # queue[q][l]
            BY <1>1, <2>7 DEF IInv, QueueInv
        <3> QED
            BY <1>1, <2>1, <2>2, <2>4, <2>7, <3>1, <3>2
    <2> QED
        BY <2>2, <2>3, <2>6, <2>7 DEF IInv, QueueInv
<1>5. ASSUME NEW j \in Sends
      PROVE  SendInv(j)'
    BY <1>1 DEF IInv, TypeOK, SendInv, BrokenOff, TooLarge, Writing
<1>6. PoolInv'
    BY <1>1 DEF IInv, PoolInv
<1> QED
    BY <1>3, <1>4, <1>5, <1>6 DEF IInv

\* A tensor that is larger than the pool ends its send; nothing is released.
LEMMA RefuseKeeps ==
    ASSUME IInv, NEW s \in Sends, Refuse(s)
    PROVE  IInv'
<1>1. TypeOK' /\ QueueInv' /\ PoolInv'
    BY DEF Refuse, IInv, TypeOK, QueueInv, PoolInv
<1>2. ASSUME NEW j \in Sends
      PROVE  SendInv(j)'
    <2>1. CASE j = s
        <3>1. /\ pc[s] = "try" /\ pc'[s] = "error" /\ TooLarge(s) /\ piece[s] \in Nat
              /\ UNCHANGED <<piece, holds, last, failed, watch, peer, shown>>
            BY DEF Refuse, IInv, TypeOK
        <3>2. TooLarge(s)' /\ SendInv(s)
            BY <3>1 DEF TooLarge, IInv
        <3>3. piece[s] = 0 \/ BrokenOff(s)'
            BY <3>1, <3>2 DEF BrokenOff, SendInv, Writing
        <3> QED
            BY <2>1, <3>1, <3>2, <3>3 DEF SendInv, Writing
    <2>2. CASE j # s
        BY <2>2 DEF Refuse, IInv, TypeOK, SendInv, BrokenOff, TooLarge
    <2> QED
        BY <2>1, <2>2
<1> QED
    BY <1>1, <1>2 DEF IInv

\* An acquire takes free slots only.
LEMMA AttemptKeeps ==
    ASSUME IInv, NEW s \in Sends, Attempt(s)
    PROVE  IInv'
<1>1. /\ pc[s] = "try" /\ UNCHANGED <<queue, failed, watch, peer, shown>>
      /\ piece[s] \in Nat /\ piece[s] < Len(Pieces[s])
      /\ peer[s] = "none" /\ watch[s] = "none"
    BY DEF Attempt, IInv, TypeOK, SendInv, BrokenOff, TooLarge, Writing
<1>2. CASE /\ pc' = [pc EXCEPT ![s] = "wait"]
           /\ UNCHANGED <<free, holds, last, piece>>
    <2>1. TypeOK' /\ QueueInv'
        BY <1>1, <1>2 DEF IInv, TypeOK, QueueInv, Writing
    <2>2. ASSUME NEW j \in Sends
          PROVE  SendInv(j)'
        <3>1. CASE j = s
            <4>1. pc'[s] = "wait" /\ SendInv(s)
                BY <1>2 DEF IInv, TypeOK
            <4>2. ~TooLarge(s)'
                BY <1>2 DEF Attempt, TooLarge
            <4> QED
                BY <1>1, <1>2, <3>1, <4>1, <4>2 DEF SendInv, Writing
        <3>2. CASE j # s
            <4>1. pc'[j] = pc[j] /\ SendInv(j)
                BY <1>2, <3>2 DEF IInv, TypeOK
            <4> QED
                BY <1>1, <1>2, <4>1 DEF SendInv, BrokenOff, TooLarge
        <3> QED
            BY <3>1, <3>2
    <2>3. PoolInv'
        BY <1>2 DEF IInv, PoolInv
    <2> QED
        BY <2>1, <2>2, <2>3 DEF IInv
<1>3. ASSUME NEW R, R \subseteq free,
             free' = free \ R,
             holds' = [holds EXCEPT ![s] = @ \cup R],
             last' = [last EXCEPT ![s] = R],
             piece' = [piece EXCEPT ![s] = @ + 1],
             pc' = [pc EXCEPT ![s] = "granted"]
      PROVE  IInv'
    <2>1. TypeOK'
        <3>1. R \subseteq Slots
            BY <1>3 DEF IInv, TypeOK
        <3>2. piece' \in [Sends -> Nat] /\ \A j \in Sends : piece'[j] <= Len(Pieces[j])
            BY <1>1, <1>3, SizeOfPieces DEF IInv, TypeOK
        <3> QED
            BY <1>1, <1>3, <3>1, <3>2 DEF IInv, TypeOK, Writing
    <2>2. QueueInv'
        BY <1>1, <1>3 DEF IInv, TypeOK, QueueInv
    <2>3. ASSUME NEW j \in Sends
          PROVE  SendInv(j)'
        <3>1. CASE j = s
            <4>1. /\ pc'[s] = "granted" /\ piece'[s] = piece[s] + 1 /\ last'[s] = R
                  /\ holds'[s] = holds[s] \cup R
                BY <1>3 DEF IInv, TypeOK
            <4>2. piece[s] = 0 => holds[s] = {}
                BY DEF IInv, SendInv, BrokenOff, TooLarge
            <4> QED
                BY <1>1, <3>1, <4>1, <4>2 DEF SendInv, BrokenOff, TooLarge, Writing
        <3>2. CASE j # s
            BY <1>1, <1>3, <3>2 DEF IInv, TypeOK, SendInv, BrokenOff, TooLarge
        <3> QED
            BY <3>1, <3>2
    <2>4. PoolInv'
        BY <1>3 DEF IInv, TypeOK, PoolInv
    <2> QED
        BY <2>1, <2>2, <2>3, <2>4 DEF IInv
<1> QED
    BY <1>2, <1>3 DEF Attempt, IsFirstFit, Fits

\* The failure of the relay ends a send; nothing is released.
LEMMA FailureWakesKeeps ==
    ASSUME IInv, NEW s \in Sends, FailureWakes(s)
    PROVE  IInv'
<1>1. TypeOK'
    BY SizeOfPieces, RelayAssumption DEF FailureWakes, IInv, TypeOK, SendInv, Writing
<1>2. QueueInv'
    BY DEF FailureWakes, IInv, TypeOK, QueueInv
<1>3. ASSUME NEW j \in Sends
      PROVE  SendInv(j)'
    BY <1>1, SizeOfPieces
       DEF FailureWakes, IInv, TypeOK, SendInv, BrokenOff, TooLarge, Writing
<1>4. PoolInv'
    BY DEF FailureWakes, IInv, TypeOK, PoolInv, SendInv
<1> QED
    BY <1>1, <1>2, <1>3, <1>4 DEF IInv

\* A write that fails gives back the slots of its own acquire.
LEMMA WrittenKeeps ==
    ASSUME IInv, NEW s \in Sends, Written(s)
    PROVE  IInv'
<1>1. /\ pc[s] = "granted" /\ UNCHANGED <<queue, piece, last, failed, watch, peer, shown>>
      /\ last[s] \subseteq holds[s] /\ piece[s] \in Nat
      /\ piece[s] = 1 => holds[s] = last[s]
      /\ peer[s] = "none" /\ watch[s] = "none"
    BY DEF Written, IInv, TypeOK, SendInv, BrokenOff, TooLarge, Writing
<1>2. CASE Release(s, GivenBack(s), [pc EXCEPT ![s] = "error"])
    <2>1. /\ free' = free \cup last[s]
          /\ holds' = [holds EXCEPT ![s] = @ \ last[s]]
          /\ pc' = [j \in Sends |-> IF j = s THEN "error"
                                    ELSE IF pc[j] = "wait" THEN "try" ELSE pc[j]]
        BY <1>2 DEF Release, GivenBack, Woken, IInv, TypeOK
    <2>2. TypeOK'
        BY <1>1, <2>1 DEF IInv, TypeOK, Writing
    <2>3. QueueInv'
        BY <1>1, <2>1 DEF IInv, TypeOK, QueueInv
    <2>4. ASSUME NEW j \in Sends
          PROVE  SendInv(j)'
        <3>1. CASE j = s
            <4>1. pc'[s] = "error" /\ holds'[s] = holds[s] \ last[s]
                BY <2>1 DEF IInv, TypeOK
            <4>2. piece[s] = 0 => holds[s] = {}
                BY DEF IInv, SendInv, BrokenOff, TooLarge
            <4>3. piece[s] <= 1 => holds'[s] = {}
                BY <1>1, <4>1, <4>2
            <4> QED
                BY <1>1, <3>1, <4>1, <4>2, <4>3
                   DEF SendInv, BrokenOff, TooLarge, Writing
        <3>2. CASE j # s
            BY <1>1, <2>1, <3>2 DEF IInv, TypeOK, SendInv, BrokenOff, TooLarge, Writing
        <3> QED
            BY <3>1, <3>2
    <2>5. PoolInv'
        BY <1>1, <2>1 DEF IInv, TypeOK, PoolInv
    <2> QED
        BY <2>2, <2>3, <2>4, <2>5 DEF IInv
<1>3. CASE /\ pc' = [pc EXCEPT ![s] =
                        IF piece[s] < Len(Pieces[s]) THEN "try" ELSE "publish"]
           /\ UNCHANGED <<free, holds>>
    <2>1. TypeOK' /\ QueueInv'
        BY <1>1, <1>3 DEF IInv, TypeOK, QueueInv, Writing
    <2>2. ASSUME NEW j \in Sends
          PROVE  SendInv(j)'
        BY <1>1, <1>3 DEF IInv, TypeOK, SendInv, BrokenOff, TooLarge, Writing
    <2>3. PoolInv'
        BY <1>3 DEF IInv, PoolInv
    <2> QED
        BY <2>1, <2>2, <2>3 DEF IInv
<1> QED
    BY <1>2, <1>3 DEF Written

\* The peer is told the slots the send holds.
LEMMA PublishKeeps ==
    ASSUME IInv, NEW s \in Sends, Publish(s)
    PROVE  IInv'
<1>1. TypeOK'
    BY SizeOfPieces, RelayAssumption DEF Publish, IInv, TypeOK, SendInv, Writing
<1>2. QueueInv'
    BY DEF Publish, IInv, TypeOK, QueueInv
<1>3. ASSUME NEW j \in Sends
      PROVE  SendInv(j)'
    BY <1>1, SizeOfPieces
       DEF Publish, IInv, TypeOK, SendInv, BrokenOff, TooLarge, Writing
<1>4. PoolInv'
    BY DEF Publish, IInv, TypeOK, PoolInv, SendInv
<1> QED
    BY <1>1, <1>2, <1>3, <1>4 DEF IInv

\* An answer changes nothing on the side of the sender.
LEMMA PeerAnswersKeeps ==
    ASSUME IInv, NEW s \in Sends, PeerAnswers(s)
    PROVE  IInv'
<1>1. TypeOK'
    BY SizeOfPieces, RelayAssumption DEF PeerAnswers, IInv, TypeOK, SendInv, Writing
<1>2. QueueInv'
    BY DEF PeerAnswers, IInv, QueueInv
<1>3. ASSUME NEW j \in Sends
      PROVE  SendInv(j)'
    BY <1>1, SizeOfPieces
       DEF PeerAnswers, IInv, TypeOK, SendInv, BrokenOff, TooLarge, Writing
<1>4. PoolInv'
    BY DEF PeerAnswers, IInv, TypeOK, PoolInv, SendInv
<1> QED
    BY <1>1, <1>2, <1>3, <1>4 DEF IInv

\* The slots are released after the answer.
LEMMA AcknowledgedKeeps ==
    ASSUME IInv, NEW s \in Sends, Acknowledged(s)
    PROVE  IInv'
<1>1. TypeOK'
    BY SizeOfPieces, RelayAssumption
       DEF Acknowledged, Release, Woken, IInv, TypeOK, SendInv, Writing
<1>2. QueueInv'
    BY DEF Acknowledged, Release, Woken, IInv, TypeOK, QueueInv
<1>3. ASSUME NEW j \in Sends
      PROVE  SendInv(j)'
    BY <1>1, SizeOfPieces
       DEF Acknowledged, Release, Woken, IInv, TypeOK, SendInv, BrokenOff, TooLarge, Writing
<1>4. PoolInv'
    BY DEF Acknowledged, Release, Woken, IInv, TypeOK, PoolInv, SendInv
<1> QED
    BY <1>1, <1>2, <1>3, <1>4 DEF IInv

\* Without an answer nothing is released.
LEMMA WatchFailsKeeps ==
    ASSUME IInv, NEW s \in Sends, WatchFails(s)
    PROVE  IInv'
<1>1. TypeOK'
    BY SizeOfPieces, RelayAssumption
       DEF WatchFails, GiveUp, IInv, TypeOK, SendInv, Writing
<1>2. QueueInv'
    BY DEF WatchFails, GiveUp, IInv, TypeOK, QueueInv
<1>3. ASSUME NEW j \in Sends
      PROVE  SendInv(j)'
    BY <1>1, SizeOfPieces
       DEF WatchFails, GiveUp, IInv, TypeOK, SendInv, BrokenOff, TooLarge, Writing
<1>4. PoolInv'
    BY DEF WatchFails, GiveUp, IInv, TypeOK, PoolInv, SendInv
<1> QED
    BY <1>1, <1>2, <1>3, <1>4 DEF IInv

\* A worker takes a send that has not begun.
LEMMA TakeKeeps ==
    ASSUME IInv, NEW q \in Targets, Take(q)
    PROVE  IInv'
<1> DEFINE j == Head(queue[q])
<1>1. queue[q] \in Seq(Sends) /\ queue[q] # <<>>
    BY DEF IInv, TypeOK, Take
<1>2. /\ j = queue[q][1] /\ 1 \in 1..Len(queue[q])
      /\ j \in Sends /\ pc[j] = "queued" /\ TargetOf[j] = q
    BY <1>1 DEF IInv, QueueInv
<1>3. /\ queue' = [queue EXCEPT ![q] = Tail(@)]
      /\ pc' = [pc EXCEPT ![j] = IF failed THEN "error" ELSE "try"]
      /\ UNCHANGED <<piece, holds, last, free, failed, watch, peer, shown>>
    BY DEF Take
<1> HIDE DEF j
<1>4. TypeOK'
    BY <1>1, <1>2, <1>3 DEF IInv, TypeOK, Writing
<1>5. QueueInv'
    <2>1. /\ Len(Tail(queue[q])) = Len(queue[q]) - 1
          /\ \A k \in 1..(Len(queue[q]) - 1) : Tail(queue[q])[k] = queue[q][k + 1]
        BY <1>1
    <2>2. \A p \in Targets : queue[p] \in Seq(Sends)
        BY DEF IInv, TypeOK
    <2>3. ASSUME NEW p \in Targets, p # q, NEW k \in 1..Len(queue[p])
          PROVE  queue[p][k] # j
        BY <1>2, <2>3 DEF IInv, QueueInv
    <2>4. ASSUME NEW k \in 1..(Len(queue[q]) - 1)
          PROVE  queue[q][k + 1] # j /\ k + 1 \in 1..Len(queue[q])
        BY <1>1, <1>2 DEF IInv, QueueInv
    <2>5. ASSUME NEW p \in Targets, p # q
          PROVE  /\ \A k \in 1..Len(queue'[p]) :
                       TargetOf[queue'[p][k]] = p /\ pc'[queue'[p][k]] = "queued"
                 /\ \A k, l \in 1..Len(queue'[p]) : k # l => queue'[p][k] # queue'[p][l]
        <3>1. queue'[p] = queue[p]
            BY <1>3, <2>5 DEF IInv, TypeOK
        <3>2. \A k \in 1..Len(queue[p]) : queue[p][k] \in Sends
            BY <2>2
        <3>3. \A k \in 1..Len(queue[p]) : pc'[queue[p][k]] = pc[queue[p][k]]
            BY <1>3, <2>3, <2>5, <3>2 DEF IInv, TypeOK
        <3> QED
            BY <3>1, <3>3 DEF IInv, QueueInv
    <2>6. /\ \A k \in 1..Len(queue'[q]) :
                TargetOf[queue'[q][k]] = q /\ pc'[queue'[q][k]] = "queued"
          /\ \A k, l \in 1..Len(queue'[q]) : k # l => queue'[q][k] # queue'[q][l]
        <3>1. /\ queue'[q] = Tail(queue[q])
              /\ Len(queue'[q]) = Len(queue[q]) - 1
              /\ \A k \in 1..(Len(queue[q]) - 1) : queue'[q][k] = queue[q][k + 1]
            BY <1>3, <2>1 DEF IInv, TypeOK
        <3>2. \A k \in 1..Len(queue[q]) : queue[q][k] \in Sends
            BY <1>1
        <3>3. \A k \in 1..(Len(queue[q]) - 1) : pc'[queue'[q][k]] = pc[queue[q][k + 1]]
            BY <1>3, <2>4, <3>1, <3>2 DEF IInv, TypeOK
        <3>4. \A k, l \in 1..(Len(queue[q]) - 1) : k # l =>
                 k + 1 # l + 1 /\ queue[q][k + 1] # queue[q][l + 1]
            BY <1>1, <2>4 DEF IInv, QueueInv
        <3> QED
            BY <2>4, <3>1, <3>3, <3>4 DEF IInv, QueueInv
    <2> QED
        BY <2>5, <2>6 DEF QueueInv
<1>6. ASSUME NEW i \in Sends
      PROVE  SendInv(i)'
    BY <1>2, <1>3, SizeOfPieces DEF IInv, TypeOK, SendInv, BrokenOff, TooLarge, Writing
<1>7. PoolInv'
    BY <1>3 DEF IInv, PoolInv
<1> QED
    BY <1>4, <1>5, <1>6, <1>7 DEF IInv

\* The invariant holds in every reachable state.
THEOREM Inductive == Spec => []IInv
<1>1. ASSUME IInv, [Next]_vars
      PROVE  IInv'
    <2>1. CASE UNCHANGED vars
        BY <1>1, <2>1
           DEF vars, IInv, TypeOK, QueueInv, SendInv, BrokenOff, TooLarge, PoolInv
    <2>2. ASSUME NEW s \in Sends, SendStep(s)
          PROVE  IInv'
        BY <1>1, <2>2, EnqueueKeeps, RefuseKeeps, AttemptKeeps, FailureWakesKeeps,
           WrittenKeeps, PublishKeeps, PeerAnswersKeeps, AcknowledgedKeeps, WatchFailsKeeps
           DEF SendStep
    <2> QED
        BY <1>1, <2>1, <2>2, TakeKeeps DEF Next
<1> QED
    BY InitIInv, <1>1, PTL DEF Spec

\* Every reachable state has its type.
THEOREM TypeCorrect == Spec => []TypeOK
<1>1. IInv => TypeOK
    BY DEF IInv
<1> QED
    BY <1>1, Inductive, PTL

\* No slot that a peer may read is free or taken by another send, whatever the
\* allocator, the timeouts and the failures do.
THEOREM ReadersKeepSlots == Spec => []ReadSlotsAreKept
<1>1. IInv => ReadSlotsAreKept
    BY DEF IInv, SendInv, BrokenOff, TooLarge, PoolInv, ReadSlotsAreKept
<1> QED
    BY <1>1, Inductive, PTL

\* The slots are a partition into the free ones and those of each send, and a
\* send that is over holds none unless the relay has failed or a chunk broke off.
THEOREM PoolIsPartition == Spec => []SlotsAreAccountedFor
<1>1. IInv => SlotsAreAccountedFor
    <2> SUFFICES ASSUME IInv PROVE SlotsAreAccountedFor
        OBVIOUS
    <2>1. free \cup UNION {holds[j] : j \in Sends} = Slots
        <3>1. free \subseteq Slots /\ \A j \in Sends : holds[j] \subseteq Slots
            BY DEF IInv, TypeOK
        <3>2. \A x \in Slots : x \in free \/ \E j \in Sends : x \in holds[j]
            BY DEF IInv, PoolInv
        <3> QED
            BY <3>1, <3>2
    <2>2. ASSUME NEW j \in Sends, holds[j] # {}
          PROVE  \/ failed
                 \/ pc[j] \in Writing
                 \/ watch[j] \in {"armed", "failing"}
                 \/ BrokenOff(j)
        <3>1. SendInv(j)
            BY DEF IInv
        <3>2. /\ piece[j] \in Nat /\ watch[j] \in {"none", "armed", "failing", "over"}
              /\ pc[j] \in Writing \cup {"idle", "queued", "sent", "error"}
            BY DEF IInv, TypeOK
        <3>3. pc[j] \notin {"idle", "queued"}
            BY <2>2, <3>1 DEF SendInv, BrokenOff, TooLarge
        <3>4. watch[j] = "over" => failed
            BY <2>2, <3>1 DEF SendInv, BrokenOff, TooLarge
        <3>5. pc[j] = "sent" => watch[j] # "none"
            BY <3>1 DEF SendInv, BrokenOff, TooLarge
        <3>6. pc[j] = "error" /\ watch[j] = "none" => failed \/ BrokenOff(j)
            BY <2>2, <3>1, <3>2 DEF SendInv, BrokenOff, TooLarge
        <3> QED
            BY <3>2, <3>3, <3>4, <3>5, <3>6
    <2> QED
        BY <2>1, <2>2 DEF IInv, PoolInv, SlotsAreAccountedFor
<1> QED
    BY <1>1, Inductive, PTL

-----------------------------------------------------------------------------
\* A waiter and its slots: no release is missed.

\* There is no room for a send that waits.
NoRoom == \A j \in Sends : pc[j] = "wait" => NoneFits(Pieces[j][piece[j] + 1])

\* A release wakes every waiter.
LEMMA ReleaseWakes ==
    ASSUME NEW i, NEW S, NEW p, Release(i, S, p)
    PROVE  \A j \in Sends : pc'[j] # "wait"
BY DEF Release, Woken

\* A step that takes slots, or leaves the pool alone, and puts nobody to sleep
\* leaves those that sleep without room.
LEMMA NoRoomKept ==
    ASSUME NoRoom, free' \subseteq free,
           \A j \in Sends : pc'[j] = "wait" => pc[j] = "wait" /\ piece'[j] = piece[j]
    PROVE  NoRoom'
<1>1. ASSUME NEW j \in Sends, pc'[j] = "wait"
      PROVE  \A k \in Slots : ~(Range(k, Pieces[j][piece'[j] + 1]) \subseteq free')
    <2>1. NoneFits(Pieces[j][piece[j] + 1]) /\ piece'[j] = piece[j]
        BY <1>1 DEF NoRoom
    <2> QED
        BY <2>1 DEF NoneFits, Fits
<1> QED
    BY <1>1 DEF NoRoom, NoneFits, Fits

\* There is never room for a send that waits: only the failed attempt puts it to
\* sleep, others only take slots meanwhile, and the first release wakes it.
THEOREM NoReleaseMissed == Spec => []NoRoom
<1>1. Init => NoRoom
    BY DEF Init, NoRoom
<1>2. ASSUME IInv, NoRoom, [Next]_vars
      PROVE  NoRoom'
    <2>1. CASE UNCHANGED vars
        BY <1>2, <2>1, NoRoomKept DEF vars
    <2>2. ASSUME NEW s \in Sends, Enqueue(s)
          PROVE  NoRoom'
        BY <1>2, <2>2, NoRoomKept DEF Enqueue, IInv, TypeOK
    <2>3. ASSUME NEW s \in Sends, Attempt(s)
          PROVE  NoRoom'
        <3>1. CASE /\ NoneFits(Pieces[s][piece[s] + 1])
                   /\ pc' = [pc EXCEPT ![s] = "wait"]
                   /\ UNCHANGED <<free, piece>>
            <4>1. ASSUME NEW j \in Sends, pc'[j] = "wait"
                  PROVE  NoneFits(Pieces[j][piece[j] + 1])
                BY <1>2, <3>1, <4>1 DEF NoRoom, IInv, TypeOK
            <4> QED
                BY <3>1, <4>1 DEF NoRoom, NoneFits, Fits
        <3>2. CASE /\ free' \subseteq free
                   /\ piece' = [piece EXCEPT ![s] = @ + 1]
                   /\ pc' = [pc EXCEPT ![s] = "granted"]
            BY <1>2, <3>2, NoRoomKept DEF IInv, TypeOK
        <3> QED
            BY <2>3, <3>1, <3>2 DEF Attempt
    <2>4. ASSUME NEW s \in Sends, FailureWakes(s) \/ Refuse(s)
          PROVE  NoRoom'
        BY <1>2, <2>4, NoRoomKept DEF FailureWakes, Refuse, IInv, TypeOK
    <2>5. ASSUME NEW s \in Sends, Written(s)
          PROVE  NoRoom'
        <3>1. CASE Release(s, GivenBack(s), [pc EXCEPT ![s] = "error"])
            BY <3>1, ReleaseWakes DEF NoRoom
        <3>2. CASE /\ pc' = [pc EXCEPT ![s] =
                                IF piece[s] < Len(Pieces[s]) THEN "try" ELSE "publish"]
                   /\ UNCHANGED <<free, piece>>
            BY <1>2, <3>2, NoRoomKept DEF IInv, TypeOK
        <3> QED
            BY <2>5, <3>1, <3>2 DEF Written
    <2>6. ASSUME NEW s \in Sends, Publish(s)
          PROVE  NoRoom'
        BY <1>2, <2>6, NoRoomKept DEF Publish, IInv, TypeOK
    <2>7. ASSUME NEW s \in Sends, PeerAnswers(s) \/ WatchFails(s)
          PROVE  NoRoom'
        BY <1>2, <2>7, NoRoomKept DEF PeerAnswers, WatchFails, GiveUp
    <2>8. ASSUME NEW s \in Sends, Acknowledged(s)
          PROVE  NoRoom'
        BY <2>8, ReleaseWakes DEF Acknowledged, NoRoom
    <2>9. ASSUME NEW q \in Targets, Take(q)
          PROVE  NoRoom'
        <3>1. PICK i : pc' = [pc EXCEPT ![i] = IF failed THEN "error" ELSE "try"]
            BY <2>9 DEF Take
        <3>2. UNCHANGED <<free, piece>>
            BY <2>9 DEF Take
        <3> QED
            BY <1>2, <3>1, <3>2, NoRoomKept DEF IInv, TypeOK
    <2> QED
        BY <1>2, <2>1, <2>2, <2>3, <2>4, <2>5, <2>6, <2>7, <2>8, <2>9 DEF Next, SendStep
<1> QED
    BY <1>1, <1>2, Inductive, PTL DEF Spec

\* A send that waits for slots waits for somebody who will release some, unless
\* the relay has failed or chunks with several tensors hold up each other.
THEOREM WaitersAreServed == Spec => []NobodyWaitsInVain
<1>1. ASSUME IInv, SlotsAreAccountedFor, NoRoom
      PROVE  NobodyWaitsInVain
    <2> SUFFICES ASSUME NEW w \in Sends, pc[w] = "wait", ~failed, ~Moving
                 PROVE  HeldUp
        BY <1>1 DEF NobodyWaitsInVain, NoRoom
    <2>1. ASSUME NEW j \in Sends, holds[j] # {}
          PROVE  pc[j] = "wait" \/ BrokenOff(j)
        <3>1. pc[j] \in Writing \/ BrokenOff(j)
            BY <1>1, <2>1 DEF SlotsAreAccountedFor, Moving
        <3>2. watch[j] = "none"
            <4>1. watch[j] \in {"none", "armed", "failing", "over"} /\ SendInv(j)
                BY <1>1 DEF IInv, TypeOK
            <4> QED
                BY <2>1, <4>1 DEF Moving, SendInv, BrokenOff, TooLarge
        <3> QED
            BY <3>1, <3>2 DEF Moving, Writing
    <2> QED
        BY <1>1, <2>1 DEF HeldUp, NoRoom
<1> QED
    BY <1>1, Inductive, PoolIsPartition, NoReleaseMissed, PTL

\* Sends of one tensor, as all payloads are, never hold up each other: one that
\* waits holds nothing, and an empty pool has room for every one that is not
\* refused.  So until the relay fails, a waiter can count on somebody at work.
THEOREM PayloadsAreNotHeldUp ==
    ASSUME \A j \in Sends : Len(Pieces[j]) = 1
    PROVE  Spec => [](~HeldUp)
<1>1. ASSUME IInv, HeldUp
      PROVE  FALSE
    <2>1. PICK w \in Sends : pc[w] = "wait" /\ NoneFits(Pieces[w][piece[w] + 1])
        BY <1>1 DEF HeldUp
    <2>2. ASSUME NEW j \in Sends
          PROVE  /\ SendInv(j) /\ piece[j] \in Nat /\ piece[j] <= 1
                 /\ pc[j] = "wait" => piece[j] = 0
        <3>1. SendInv(j) /\ piece[j] \in Nat /\ piece[j] <= 1 /\ Len(Pieces[j]) = 1
            BY <1>1 DEF IInv, TypeOK
        <3> QED
            BY <3>1 DEF SendInv, BrokenOff, TooLarge
    <2>3. ASSUME NEW j \in Sends
          PROVE  holds[j] = {}
        BY <1>1, <2>2 DEF HeldUp, SendInv, BrokenOff, TooLarge
    <2>4. Slots \subseteq free
        BY <1>1, <2>3 DEF IInv, PoolInv
    <2>5. PICK n : n = Pieces[w][1]
        OBVIOUS
    <2>6. n \in 1..SlotCount /\ SlotCount \in Nat \ {0} /\ piece[w] = 0
        <3>1. piece[w] = 0 /\ ~TooLarge(w) /\ Len(Pieces[w]) = 1
            BY <2>1, <2>2 DEF SendInv
        <3>2. n \in Nat \ {0} /\ SlotCount \in Nat \ {0}
            BY <2>5, <3>1, RelayAssumption
        <3> QED
            BY <2>5, <3>1, <3>2 DEF TooLarge
    <2>7. NoneFits(n)
        BY <2>1, <2>5, <2>6
    <2>8. Range(1, n) \subseteq free /\ 1 \in Slots
        BY <2>4, <2>6 DEF Range, Slots
    <2> QED
        BY <2>7, <2>8 DEF NoneFits, Fits
<1> QED
    BY <1>1, Inductive, PTL

=============================================================================
