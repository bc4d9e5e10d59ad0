------------------------ MODULE AdmissionSlotsProofs ------------------------
(***************************************************************************)
(* Theorems about AdmissionSlots, for any number of data planes, any bound *)
(* and any number of deaths.                                               *)
(***************************************************************************)
EXTENDS AdmissionSlots, FiniteSetTheorems, TLAPS

\* The supervisor reclaims the slot of a dead process only, and a live process
\* that is not writing has its own slot.
IInv ==
    /\ TypeOK
    /\ \A d \in DPs : dying = d => pc[d] = "down"
    /\ OwnersKeepTheirSlots

\* The data planes are numbered from 1 to N.
LEMMA Numbers ==
    /\ 1 \in DPs /\ 0 \notin DPs
    /\ \A d \in DPs : d \in 0..N /\ (d < N => d + 1 \in DPs)
BY AdmissionAssumption DEF DPs

\* The first states.
LEMMA InitIInv == Init => IInv
BY AdmissionAssumption DEF Init, IInv, TypeOK, OwnersKeepTheirSlots, DPs

\* A data plane touches its own slot and its own variables only.
LEMMA DPStepIInv ==
    ASSUME IInv, NEW d \in DPs, DPStep(d)
    PROVE  IInv'
<1> USE AdmissionAssumption, Numbers
<1>1. CASE BeginWrite(d)
    BY <1>1 DEF BeginWrite, Goto, IInv, TypeOK, OwnersKeepTheirSlots, StillOwner
<1>2. CASE EndWrite(d)
    BY <1>2 DEF EndWrite, Goto, IInv, TypeOK, OwnersKeepTheirSlots, StillOwner
<1>3. CASE TryAcquire(d)
    BY <1>3 DEF TryAcquire, Goto, IInv, TypeOK, OwnersKeepTheirSlots, StillOwner,
            slots
<1>4. CASE WriteAgain(d)
    BY <1>4 DEF WriteAgain, Goto, IInv, TypeOK, OwnersKeepTheirSlots, StillOwner,
            slots
<1>5. CASE Release(d)
    <2>1. TypeOK'
        BY <1>5 DEF Release, HasRequest, Goto, slots, IInv, TypeOK
    <2>2. \A e \in DPs : dying' = e => pc'[e] = "down"
        BY <1>5 DEF Release, HasRequest, Goto, slots, IInv, TypeOK
    <2>3. OwnersKeepTheirSlots'
        BY <1>5 DEF Release, HasRequest, Goto, slots, IInv, TypeOK,
                OwnersKeepTheirSlots, StillOwner
    <2> QED BY <2>1, <2>2, <2>3 DEF IInv
<1>6. CASE ReadSlot(d)
    <2>1. TypeOK'
        BY <1>6 DEF ReadSlot, Restart, Goto, slots, IInv, TypeOK
    <2>2. \A e \in DPs : dying' = e => pc'[e] = "down"
        BY <1>6 DEF ReadSlot, Restart, Goto, slots, IInv, TypeOK
    <2>3. OwnersKeepTheirSlots'
        BY <1>6 DEF ReadSlot, Restart, Goto, slots, IInv, TypeOK,
                OwnersKeepTheirSlots, StillOwner
    <2> QED BY <2>1, <2>2, <2>3 DEF IInv
<1>7. CASE ReadRaises(d)
    <2>1. TypeOK'
        BY <1>7 DEF ReadRaises, Restart, Goto, slots, IInv, TypeOK
    <2>2. \A e \in DPs : dying' = e => pc'[e] = "down"
        BY <1>7 DEF ReadRaises, Restart, Goto, slots, IInv, TypeOK
    <2>3. OwnersKeepTheirSlots'
        BY <1>7 DEF ReadRaises, Restart, Goto, slots, IInv, TypeOK,
                OwnersKeepTheirSlots, StillOwner
    <2> QED BY <2>1, <2>2, <2>3 DEF IInv
<1>8. CASE Crash(d)
    <2>1. TypeOK'
        BY <1>8 DEF Crash, Restart, Goto, slots, IInv, TypeOK
    <2>2. \A e \in DPs : dying' = e => pc'[e] = "down"
        BY <1>8 DEF Crash, Restart, Goto, slots, IInv, TypeOK
    <2>3. OwnersKeepTheirSlots'
        BY <1>8 DEF Crash, Restart, Goto, slots, IInv, TypeOK, OwnersKeepTheirSlots,
                StillOwner
    <2> QED BY <2>1, <2>2, <2>3 DEF IInv
<1> QED
    BY <1>1, <1>2, <1>3, <1>4, <1>5, <1>6, <1>7, <1>8 DEF DPStep

\* The supervisor touches the slot of a dead process only.
LEMMA SupervisorIInv ==
    ASSUME IInv, NEW d \in DPs, ReclaimBegins(d) \/ ReclaimEnds(d)
    PROVE  IInv'
<1> USE AdmissionAssumption, Numbers
<1>1. CASE ReclaimBegins(d)
    <2>1. TypeOK'
        BY <1>1 DEF ReclaimBegins, Reaped, IInv, TypeOK
    <2>2. \A e \in DPs : dying' = e => pc'[e] = "down"
        BY <1>1 DEF ReclaimBegins, Reaped, IInv, TypeOK
    <2>3. OwnersKeepTheirSlots'
        BY <1>1 DEF ReclaimBegins, Reaped, IInv, TypeOK, OwnersKeepTheirSlots,
                StillOwner
    <2> QED BY <2>1, <2>2, <2>3 DEF IInv
<1>2. CASE ReclaimEnds(d)
    <2>1. TypeOK'
        BY <1>2 DEF ReclaimEnds, Goto, IInv, TypeOK
    <2>2. \A e \in DPs : dying' = e => pc'[e] = "down"
        BY <1>2 DEF ReclaimEnds, Goto, IInv, TypeOK
    <2>3. OwnersKeepTheirSlots'
        BY <1>2 DEF ReclaimEnds, Goto, IInv, TypeOK, OwnersKeepTheirSlots,
                StillOwner
    <2> QED BY <2>1, <2>2, <2>3 DEF IInv
<1> QED
    BY <1>1, <1>2

\* IInv holds in every reachable state.
THEOREM Inductive == Spec => []IInv
<1>1. ASSUME IInv, [Next]_vars
      PROVE  IInv'
    <2>1. CASE Next
        BY <1>1, <2>1, DPStepIInv, SupervisorIInv DEF Next
    <2>2. CASE UNCHANGED vars
        BY <1>1, <2>2 DEF vars, slots, IInv, TypeOK, OwnersKeepTheirSlots,
                StillOwner
    <2> QED BY <1>1, <2>1, <2>2
<1> QED
    BY InitIInv, <1>1, PTL DEF Spec

\* Every reachable state has its type: in particular, no stray release() makes a
\* count negative.
THEOREM TypeCorrect == Spec => []TypeOK
<1>1. IInv => TypeOK
    BY DEF IInv
<1> QED
    BY <1>1, Inductive, PTL

\* A live process that is not writing finds its slot readable and its own: it is
\* never fenced by _still_owner, however deaths and reclaims interleave.
THEOREM NobodyIsFenced == Spec => []OwnersKeepTheirSlots
<1>1. IInv => OwnersKeepTheirSlots
    BY DEF IInv
<1> QED
    BY <1>1, Inductive, PTL

-----------------------------------------------------------------------------
(***************************************************************************)
(* The soft bound.  Among the data planes that have a request, take the    *)
(* one whose last admission comes from the sum that began last.  None of   *)
(* the others admitted twice after the beginning of that sum, so that each *)
(* has at most one request more than the sum counted for it; and the sum   *)
(* was below the bound.                                                    *)
(*                                                                         *)
(* What the sums have read, and in which order they began, is no state of  *)
(* the program.  The invariant says that there is such a history.          *)
(***************************************************************************)

\* The requests that the counts f of the first k data planes stand for.
Counted(f, k) == UNION {{e} \X (1..f[e]) : e \in 1..k}

\* A history: clock bounds the times at which sums began, began has them for
\* the current or latest sum of each data plane, and admitted for the sum of its
\* last admission; read and seen are the counts that these two sums read.
History(clock, began, admitted, read, seen) ==
    /\ clock \in Nat
    /\ began \in [DPs -> 0..clock]
    /\ admitted \in [DPs -> 0..clock]
    /\ read \in [DPs -> [DPs -> Nat]]
    /\ seen \in [DPs -> [DPs -> Nat]]

\* A count is published late by one admission at most; a process that is dead has
\* no request, and one that is not adding up has its next sum before it.
Published ==
    \A d \in DPs :
        /\ mine[d] <= inflight[d] + 1
        /\ pc[d] = "down" => mine[d] = 0
        /\ pc[d] # "sum" => next[d] = 1

\* A sum is the number of requests it has read, and the sum of an admission was
\* below the bound.
SumsAdd(read, seen) ==
    \A d \in DPs :
        /\ IsFiniteSet(Counted(read[d], next[d] - 1))
        /\ total[d] = Cardinality(Counted(read[d], next[d] - 1))
        /\ mine[d] > 0 => /\ IsFiniteSet(Counted(seen[d], N))
                          /\ Cardinality(Counted(seen[d], N)) < MaxInflight

\* Where the sum of e began no later than the one of d, and d has read e: e has
\* at most one request more than d read, and that one only once it has admitted.
ReadBounds(began, admitted, read) ==
    \A d, e \in DPs :
        pc[d] = "sum" /\ e < next[d] =>
            /\ mine[e] > 0 /\ admitted[e] <= began[d] => mine[e] <= read[d][e] + 1
            /\ pc[e] = "sum" /\ began[e] <= began[d] => mine[e] <= read[d][e]

\* The same of the sum of the last admission of d.
SeenBounds(began, admitted, seen) ==
    \A d, e \in DPs :
        mine[d] > 0 =>
            /\ mine[e] > 0 /\ admitted[e] <= admitted[d] => mine[e] <= seen[d][e] + 1
            /\ pc[e] = "sum" /\ began[e] <= admitted[d] => mine[e] <= seen[d][e]

Explains(clock, began, admitted, read, seen) ==
    /\ History(clock, began, admitted, read, seen)
    /\ SumsAdd(read, seen)
    /\ ReadBounds(began, admitted, read)
    /\ SeenBounds(began, admitted, seen)

BoundInv ==
    /\ Published
    /\ \E clock, began, admitted, read, seen :
            Explains(clock, began, admitted, read, seen)

\* No data plane: no request.
LEMMA CountedNone ==
    ASSUME NEW f
    PROVE  IsFiniteSet(Counted(f, 0)) /\ Cardinality(Counted(f, 0)) = 0
<1>1. Counted(f, 0) = {}
    BY DEF Counted
<1> QED
    BY <1>1, FS_EmptySet

\* What is counted: the requests of each of the k data planes.
LEMMA CountedIs ==
    ASSUME NEW f, NEW k, NEW t
    PROVE  t \in Counted(f, k) <=> \E e \in 1..k : \E i \in 1..f[e] : t = <<e, i>>
BY DEF Counted

\* The counts g are those of f up to the data plane before k, and n for k.
Prolongs(g, f, k, n) == g[k] = n /\ \A e \in 1..(k - 1) : g[e] = f[e]

\* Reading one more slot adds the requests of that slot.
LEMMA CountedOneMore ==
    ASSUME NEW f, NEW g, NEW k \in Nat \ {0}, NEW n \in Nat,
           IsFiniteSet(Counted(f, k - 1)),
           Prolongs(g, f, k, n)
    PROVE  /\ IsFiniteSet(Counted(g, k))
           /\ Cardinality(Counted(g, k)) = Cardinality(Counted(f, k - 1)) + n
<1> DEFINE A == Counted(f, k - 1)
           Z == {k} \X (1..n)
<1>0. g[k] = n /\ \A e \in 1..(k - 1) : g[e] = f[e]
    BY DEF Prolongs
<1>1. Counted(g, k) = A \cup Z
    <2>1. ASSUME NEW t \in Counted(g, k)
          PROVE  t \in A \cup Z
        <3>1. PICK e \in 1..k : \E i \in 1..g[e] : t = <<e, i>>
            BY <2>1, CountedIs
        <3>2. PICK i \in 1..g[e] : t = <<e, i>>
            BY <3>1
        <3>3. CASE e = k
            BY <1>0, <3>2, <3>3
        <3>4. CASE e # k
            <4>1. e \in 1..(k - 1)
                BY <3>4
            <4>2. i \in 1..f[e]
                BY <1>0, <3>2, <4>1
            <4> QED
                BY <3>2, <4>1, <4>2, CountedIs
        <3> QED
            BY <3>3, <3>4
    <2>2. ASSUME NEW t \in A
          PROVE  t \in Counted(g, k)
        <3>1. PICK e \in 1..(k - 1) : \E i \in 1..f[e] : t = <<e, i>>
            BY <2>2, CountedIs
        <3>2. e \in 1..k /\ g[e] = f[e]
            BY <1>0
        <3> QED
            BY <3>1, <3>2, CountedIs
    <2>3. ASSUME NEW t \in Z
          PROVE  t \in Counted(g, k)
        <3>1. PICK i \in 1..n : t = <<k, i>>
            BY <2>3
        <3>2. k \in 1..k /\ g[k] = n
            BY <1>0
        <3> QED
            BY <3>1, <3>2, CountedIs
    <2> QED
        BY <2>1, <2>2, <2>3
<1>2. A \cap Z = {}
    <2>1. ASSUME NEW t \in A, t \in Z
          PROVE  FALSE
        <3>1. PICK e \in 1..(k - 1) : \E i \in 1..f[e] : t = <<e, i>>
            BY <2>1, CountedIs
        <3>2. t[1] = e /\ t[1] = k
            BY <3>1, <2>1
        <3> QED
            BY <3>2
    <2> QED
        BY <2>1
<1>3. IsFiniteSet(Z) /\ Cardinality(Z) = n
    <2>1. IsFiniteSet(1..n) /\ Cardinality(1..n) = n
        BY FS_Interval
    <2>2. IsFiniteSet({k}) /\ Cardinality({k}) = 1
        BY FS_Singleton
    <2>3. /\ IsFiniteSet(Z)
          /\ Cardinality(Z) = Cardinality({k}) * Cardinality(1..n)
        BY <2>1, <2>2, FS_Product
    <2> HIDE DEF Z
    <2> QED
        BY <2>1, <2>2, <2>3
<1>4. IsFiniteSet(A) /\ Cardinality(A) \in Nat
    BY FS_CardinalityType
<1>5. /\ IsFiniteSet(A \cup Z)
      /\ Cardinality(A \cup Z) = Cardinality(A) + Cardinality(Z) - Cardinality(A \cap Z)
    BY <1>3, <1>4, FS_Union
<1>6. Cardinality(A \cap Z) = 0
    BY <1>2, FS_EmptySet
<1> QED
    BY <1>1, <1>3, <1>4, <1>5, <1>6

\* At most one request more of each data plane is at most N more of all.
LEMMA OneMoreEach ==
    ASSUME NEW f \in [DPs -> Nat], NEW g \in [DPs -> Nat],
           IsFiniteSet(Counted(f, N)),
           \A e \in DPs : g[e] <= f[e] + 1
    PROVE  /\ Cardinality(Counted(g, N)) \in Nat
           /\ Cardinality(Counted(g, N)) <= Cardinality(Counted(f, N)) + N
<1> USE AdmissionAssumption
<1> DEFINE last == [e \in DPs |-> <<e, f[e] + 1>>]
           Z == {last[e] : e \in DPs}
<1>1. IsFiniteSet(DPs) /\ Cardinality(DPs) = N
    BY FS_Interval DEF DPs
<1>2. last \in Surjection(DPs, Z)
    BY DEF Surjection
<1>3. IsFiniteSet(Z) /\ Cardinality(Z) <= N /\ Cardinality(Z) \in Nat
    BY <1>1, <1>2, FS_Surjection, FS_CardinalityType
<1>4. ASSUME NEW t \in Counted(g, N)
      PROVE  t \in Counted(f, N) \cup Z
    <2>1. PICK e \in 1..N : \E i \in 1..g[e] : t = <<e, i>>
        BY <1>4, CountedIs
    <2>2. PICK i \in 1..g[e] : t = <<e, i>>
        BY <2>1
    <2>3. e \in DPs /\ i \in Nat /\ f[e] \in Nat /\ g[e] \in Nat
        BY DEF DPs
    <2>4. CASE i = f[e] + 1
        BY <2>2, <2>3, <2>4
    <2>5. CASE i # f[e] + 1
        <3>1. i \in 1..f[e]
            BY <2>2, <2>3, <2>5
        <3> QED
            BY <3>1, <2>2, CountedIs
    <2> QED
        BY <2>4, <2>5
<1>5. /\ IsFiniteSet(Counted(f, N) \cup Z)
      /\ Cardinality(Counted(f, N) \cup Z)
            = Cardinality(Counted(f, N)) + Cardinality(Z)
                - Cardinality(Counted(f, N) \cap Z)
    BY <1>3, FS_Union
<1>6. Counted(g, N) \in SUBSET (Counted(f, N) \cup Z)
    BY <1>4
<1>7. /\ IsFiniteSet(Counted(g, N))
      /\ Cardinality(Counted(g, N)) <= Cardinality(Counted(f, N) \cup Z)
    BY <1>5, <1>6, FS_Subset
<1>8. /\ Cardinality(Counted(g, N)) \in Nat
      /\ Cardinality(Counted(f, N)) \in Nat
      /\ Cardinality(Counted(f, N) \cup Z) \in Nat
      /\ Cardinality(Counted(f, N) \cap Z) \in Nat
    BY <1>5, <1>7, FS_CardinalityType, FS_Intersection
<1> QED
    BY <1>3, <1>5, <1>7, <1>8

\* Of some data planes, one has the latest time.
LEMMA Latest ==
    ASSUME NEW S \in SUBSET DPs, S # {}, NEW clock \in Nat,
           NEW time \in [DPs -> 0..clock]
    PROVE  \E d \in S : \A e \in S : time[e] <= time[d]
<1> DEFINE T == {clock - time[d] : d \in S}
           R == OpToRel(<, Nat)
<1>1. T \subseteq Nat /\ T # {}
    OBVIOUS
<1>2. IsWellFoundedOn(R, Nat)
    BY NatLessThanWellFounded
<1>3. \E x \in T : \A y \in T : ~(<<y, x>> \in R)
    <2> HIDE DEF T, R
    <2> QED BY <1>1, <1>2, WFMin
<1>4. PICK x \in T : \A y \in T : ~(<<y, x>> \in R)
    BY <1>3
<1>5. \A y \in T : ~(y < x)
    BY <1>1, <1>4 DEF OpToRel
<1>6. PICK d \in S : x = clock - time[d]
    OBVIOUS
<1>7. ASSUME NEW e \in S
      PROVE  time[e] <= time[d]
    <2>1. ~(clock - time[e] < clock - time[d])
        BY <1>5, <1>6
    <2>2. time[e] \in 0..clock /\ time[d] \in 0..clock
        OBVIOUS
    <2> QED
        BY <2>1, <2>2
<1> QED
    BY <1>7

\* The invariant is strong enough.
LEMMA BoundInvBounds ==
    ASSUME TypeOK, BoundInv
    PROVE  SoftBound
<1> USE AdmissionAssumption
<1>0. InFlight = Counted(mine, N)
    BY DEF InFlight, Counted, DPs
<1>1. mine \in [DPs -> Nat]
    BY DEF TypeOK
<1> DEFINE S == {d \in DPs : mine[d] > 0}
<1>2. CASE S = {}
    <2>1. \A e \in DPs : mine[e] = 0
        BY <1>1, <1>2
    <2>2. Counted(mine, N) = {}
        <3>1. ASSUME NEW t \in Counted(mine, N)
              PROVE  FALSE
            <4>1. PICK e \in 1..N : \E i \in 1..mine[e] : t = <<e, i>>
                BY <3>1, CountedIs
            <4> QED
                BY <4>1, <2>1 DEF DPs
        <3> QED
            BY <3>1
    <2>3. Cardinality(Counted(mine, N)) = 0
        BY <2>2, FS_EmptySet
    <2> QED
        BY <1>0, <2>3 DEF SoftBound
<1>3. CASE S # {}
    <2>1. PICK clock, began, admitted, read, seen :
                Explains(clock, began, admitted, read, seen)
        BY DEF BoundInv
    <2>2. /\ clock \in Nat
          /\ admitted \in [DPs -> 0..clock]
          /\ seen \in [DPs -> [DPs -> Nat]]
        BY <2>1 DEF Explains, History
    <2>3. PICK d \in S : \A e \in S : admitted[e] <= admitted[d]
        <3>1. S \in SUBSET DPs
            OBVIOUS
        <3>2. \E d \in S : \A e \in S : admitted[e] <= admitted[d]
            <4> HIDE DEF S
            <4> QED BY <3>1, <1>3, <2>2, Latest
        <3> QED
            BY <3>2
    <2>4. IsFiniteSet(Counted(seen[d], N)) /\ Cardinality(Counted(seen[d], N)) < MaxInflight
        BY <2>1, <2>3 DEF Explains, SumsAdd
    <2>5. ASSUME NEW e \in DPs
          PROVE  mine[e] <= seen[d][e] + 1
        <3>1. mine[e] \in Nat /\ seen[d][e] \in Nat
            BY <1>1, <2>2
        <3>2. CASE mine[e] > 0
            BY <3>2, <2>1, <2>3 DEF Explains, SeenBounds
        <3> QED
            BY <3>1, <3>2
    <2>6. seen[d] \in [DPs -> Nat]
        BY <2>2
    <2>7. /\ Cardinality(Counted(mine, N)) \in Nat
          /\ Cardinality(Counted(mine, N)) <= Cardinality(Counted(seen[d], N)) + N
        BY <1>1, <2>4, <2>5, <2>6, OneMoreEach
    <2>8. Cardinality(Counted(seen[d], N)) \in Nat
        BY <2>4, FS_CardinalityType
    <2> QED
        BY <1>0, <2>4, <2>7, <2>8 DEF SoftBound
<1> QED
    BY <1>2, <1>3

\* The first states: nothing was read, and nothing admitted.
LEMMA InitBoundInv == Init => BoundInv
<1> USE AdmissionAssumption
<1> SUFFICES ASSUME Init PROVE BoundInv
    OBVIOUS
<1>1. Published
    BY DEF Init, Published
<1> DEFINE zero == [e \in DPs |-> 0]
           zeros == [e \in DPs |-> zero]
<1>2. History(0, zero, zero, zeros, zeros)
    BY DEF History
<1>3. SumsAdd(zeros, zeros)
    <2> SUFFICES ASSUME NEW d \in DPs
                 PROVE  /\ IsFiniteSet(Counted(zeros[d], 0))
                        /\ 0 = Cardinality(Counted(zeros[d], 0))
        BY DEF Init, SumsAdd
    <2> QED
        BY CountedNone
<1>4. ReadBounds(zero, zero, zeros) /\ SeenBounds(zero, zero, zeros)
    BY DEF Init, ReadBounds, SeenBounds
<1>5. Explains(0, zero, zero, zeros, zeros)
    BY <1>2, <1>3, <1>4 DEF Explains
<1> QED
    BY <1>1, <1>5 DEF BoundInv

\* Every step keeps what is published, and what is not.
LEMMA PublishedKept ==
    ASSUME IInv, Published, [Next]_vars
    PROVE  Published'
<1> USE AdmissionAssumption, Numbers
<1>1. ASSUME NEW d \in DPs, DPStep(d)
      PROVE  Published'
    <2>1. CASE BeginWrite(d)
        BY <2>1 DEF BeginWrite, Goto, Published, IInv, TypeOK
    <2>2. CASE EndWrite(d)
        BY <2>2 DEF EndWrite, Goto, Published, IInv, TypeOK
    <2>3. CASE TryAcquire(d)
        BY <2>3 DEF TryAcquire, Goto, slots, Published, IInv, TypeOK
    <2>4. CASE WriteAgain(d)
        BY <2>4 DEF WriteAgain, Goto, slots, Published, IInv, TypeOK
    <2>5. CASE Release(d)
        BY <2>5 DEF Release, HasRequest, Goto, slots, Published, IInv, TypeOK
    <2>6. CASE ReadSlot(d)
        BY <2>6 DEF ReadSlot, Restart, Goto, slots, Published, IInv, TypeOK,
                OwnersKeepTheirSlots
    <2>7. CASE ReadRaises(d)
        BY <2>7 DEF ReadRaises, Restart, Goto, slots, Published, IInv, TypeOK
    <2>8. CASE Crash(d)
        BY <2>8 DEF Crash, Restart, Goto, slots, Published, IInv, TypeOK
    <2> QED
        BY <1>1, <2>1, <2>2, <2>3, <2>4, <2>5, <2>6, <2>7, <2>8 DEF DPStep
<1>2. ASSUME NEW d \in DPs, ReclaimBegins(d)
      PROVE  Published'
    BY <1>2 DEF ReclaimBegins, Published, IInv, TypeOK
<1>3. ASSUME NEW d \in DPs, ReclaimEnds(d)
      PROVE  Published'
    BY <1>3 DEF ReclaimEnds, Goto, Published, IInv, TypeOK
<1>4. CASE UNCHANGED vars
    BY <1>4 DEF vars, slots, Published
<1> QED
    BY <1>1, <1>2, <1>3, <1>4 DEF Next

\* A step that adds no request, begins no sum and reads nothing: each data plane
\* goes on as it was, or gives up its sum.
Shrinks ==
    \A d \in DPs :
        /\ mine'[d] <= mine[d]
        /\ pc'[d] = "sum" => pc[d] = "sum"
        /\ \/ next'[d] = next[d] /\ total'[d] = total[d]
           \/ next'[d] = 1 /\ total'[d] = 0

\* Such a step is explained by the same history.
LEMMA ShrinksExplained ==
    ASSUME TypeOK, TypeOK', Shrinks,
           NEW CONSTANT clock, NEW CONSTANT began, NEW CONSTANT admitted,
           NEW CONSTANT read, NEW CONSTANT seen,
           Explains(clock, began, admitted, read, seen)
    PROVE  Explains(clock, began, admitted, read, seen)'
<1> USE AdmissionAssumption
<1>0. /\ mine \in [DPs -> Nat] /\ mine' \in [DPs -> Nat]
      /\ next \in [DPs -> DPs] /\ next' \in [DPs -> DPs]
    BY DEF TypeOK
<1>a. \A d \in DPs : d \in Nat /\ ~(d < 1)
    BY DEF DPs
<1>1. History(clock, began, admitted, read, seen)'
    BY DEF Explains, History
<1>2. SumsAdd(read, seen)'
    <2> SUFFICES ASSUME NEW d \in DPs
                 PROVE  /\ IsFiniteSet(Counted(read[d], next'[d] - 1))
                        /\ total'[d] = Cardinality(Counted(read[d], next'[d] - 1))
                        /\ mine'[d] > 0 =>
                              /\ IsFiniteSet(Counted(seen[d], N))
                              /\ Cardinality(Counted(seen[d], N)) < MaxInflight
        BY DEF SumsAdd
    <2>1. mine'[d] > 0 => mine[d] > 0
        BY <1>0 DEF Shrinks
    <2>2. CASE next'[d] = next[d] /\ total'[d] = total[d]
        BY <2>1, <2>2 DEF Explains, SumsAdd
    <2>3. CASE next'[d] = 1 /\ total'[d] = 0
        <3>1. IsFiniteSet(Counted(read[d], 0)) /\ Cardinality(Counted(read[d], 0)) = 0
            BY CountedNone
        <3>2. next'[d] - 1 = 0
            BY <2>3
        <3> QED
            BY <2>1, <2>3, <3>1, <3>2 DEF Explains, SumsAdd
    <2> QED
        BY <2>2, <2>3 DEF Shrinks
<1>3. ReadBounds(began, admitted, read)'
    <2> SUFFICES ASSUME NEW d \in DPs, NEW e \in DPs, pc'[d] = "sum", e < next'[d]
                 PROVE  /\ mine'[e] > 0 /\ admitted[e] <= began[d]
                              => mine'[e] <= read[d][e] + 1
                        /\ pc'[e] = "sum" /\ began[e] <= began[d]
                              => mine'[e] <= read[d][e]
        BY DEF ReadBounds
    <2>1. pc[d] = "sum" /\ e < next[d]
        BY <1>0, <1>a DEF Shrinks
    <2>2. mine'[e] <= mine[e] /\ (pc'[e] = "sum" => pc[e] = "sum")
        BY DEF Shrinks
    <2>3. read[d][e] \in Nat /\ mine[e] \in Nat /\ mine'[e] \in Nat
        BY <1>0 DEF Explains, History
    <2> QED
        BY <2>1, <2>2, <2>3 DEF Explains, ReadBounds
<1>4. SeenBounds(began, admitted, seen)'
    <2> SUFFICES ASSUME NEW d \in DPs, NEW e \in DPs, mine'[d] > 0
                 PROVE  /\ mine'[e] > 0 /\ admitted[e] <= admitted[d]
                              => mine'[e] <= seen[d][e] + 1
                        /\ pc'[e] = "sum" /\ began[e] <= admitted[d]
                              => mine'[e] <= seen[d][e]
        BY DEF SeenBounds
    <2>1. mine[d] > 0
        BY <1>0 DEF Shrinks
    <2>2. mine'[e] <= mine[e] /\ (pc'[e] = "sum" => pc[e] = "sum")
        BY DEF Shrinks
    <2>3. seen[d][e] \in Nat /\ mine[e] \in Nat /\ mine'[e] \in Nat
        BY <1>0 DEF Explains, History
    <2> QED
        BY <2>1, <2>2, <2>3 DEF Explains, SeenBounds
<1> QED
    BY <1>1, <1>2, <1>3, <1>4 DEF Explains

\* A sum that begins is the latest one.
LEMMA BeginExplained ==
    ASSUME TypeOK, TypeOK', Published, NEW d \in DPs, TryAcquire(d),
           NEW CONSTANT clock, NEW CONSTANT began, NEW CONSTANT admitted,
           NEW CONSTANT read, NEW CONSTANT seen,
           Explains(clock, began, admitted, read, seen)
    PROVE  Explains(clock + 1, [began EXCEPT ![d] = clock + 1], admitted, read, seen)'
<1> USE AdmissionAssumption
<1>0. /\ History(clock, began, admitted, read, seen)
      /\ \A e \in DPs : e \in Nat /\ ~(e < 1)
    BY DEF Explains, DPs
<1>1. /\ mine' = mine /\ next' = next /\ total' = total
      /\ next[d] = 1
      /\ pc \in [DPs -> {"idle", "sum", "write", "odd", "down"}]
      /\ pc' = [pc EXCEPT ![d] = "sum"]
    BY DEF TryAcquire, Goto, Published, TypeOK
<1> DEFINE began2 == [began EXCEPT ![d] = clock + 1]
<1>2. History(clock + 1, began2, admitted, read, seen)
    BY <1>0 DEF History
<1>3. SumsAdd(read, seen)'
    BY <1>1 DEF Explains, SumsAdd
<1>4. ReadBounds(began2, admitted, read)'
    <2> SUFFICES ASSUME NEW f \in DPs, NEW e \in DPs, pc'[f] = "sum", e < next[f]
                 PROVE  /\ mine[e] > 0 /\ admitted[e] <= began2[f]
                              => mine[e] <= read[f][e] + 1
                        /\ pc'[e] = "sum" /\ began2[e] <= began2[f]
                              => mine[e] <= read[f][e]
        BY <1>1 DEF ReadBounds
    <2>1. f # d
        BY <1>0, <1>1
    <2>2. pc[f] = "sum" /\ began2[f] = began[f]
        BY <1>0, <1>1, <2>1 DEF History
    <2>3. CASE e = d
        <3>1. ~(began2[e] <= began2[f])
            BY <1>0, <2>2, <2>3 DEF History
        <3> QED
            BY <2>2, <3>1 DEF Explains, ReadBounds
    <2>4. CASE e # d
        <3>1. began2[e] = began[e] /\ pc'[e] = pc[e]
            BY <1>0, <1>1, <2>4 DEF History
        <3> QED
            BY <2>2, <3>1 DEF Explains, ReadBounds
    <2> QED
        BY <2>3, <2>4
<1>5. SeenBounds(began2, admitted, seen)'
    <2> SUFFICES ASSUME NEW f \in DPs, NEW e \in DPs, mine[f] > 0
                 PROVE  /\ mine[e] > 0 /\ admitted[e] <= admitted[f]
                              => mine[e] <= seen[f][e] + 1
                        /\ pc'[e] = "sum" /\ began2[e] <= admitted[f]
                              => mine[e] <= seen[f][e]
        BY <1>1 DEF SeenBounds
    <2>3. CASE e = d
        <3>1. ~(began2[e] <= admitted[f])
            BY <1>0, <2>3 DEF History
        <3> QED
            BY <3>1 DEF Explains, SeenBounds
    <2>4. CASE e # d
        <3>1. began2[e] = began[e] /\ pc'[e] = pc[e]
            BY <1>0, <1>1, <2>4 DEF History
        <3> QED
            BY <3>1 DEF Explains, SeenBounds
    <2> QED
        BY <2>3, <2>4
<1>6. History(clock + 1, began2, admitted, read, seen)'
    BY <1>2 DEF History
<1> QED
    BY <1>3, <1>4, <1>5, <1>6 DEF Explains

\* A read that is not the last one of its sum: the slot is even, so that its owner
\* has at most one request more than it says, and none if it is adding up.
LEMMA ReadExplained ==
    ASSUME IInv, TypeOK', Published, NEW d \in DPs, ReadSlot(d), next[d] # N,
           NEW CONSTANT clock, NEW CONSTANT began, NEW CONSTANT admitted,
           NEW CONSTANT read, NEW CONSTANT seen, NEW CONSTANT s, NEW CONSTANT n,
           s = next[d], n = inflight[next[d]],
           Explains(clock, began, admitted, read, seen)
    PROVE  Explains(clock, began, admitted, [read EXCEPT ![d][s] = n], seen)'
<1> USE AdmissionAssumption
<1> DEFINE read2 == [read EXCEPT ![d][s] = n]
<1>0. History(clock, began, admitted, read, seen)
    BY DEF Explains
<1>1. /\ mine' = mine /\ pc' = pc
      /\ next \in [DPs -> DPs] /\ s \in DPs
      /\ next' = [next EXCEPT ![d] = s + 1]
      /\ total \in [DPs -> Nat]
      /\ total' = [total EXCEPT ![d] = total[d] + n]
      /\ n \in Nat
    BY DEF ReadSlot, IInv, TypeOK
<1>2. \A e \in DPs : e \in Nat \ {0}
    BY DEF DPs
<1>3. /\ mine[s] \in Nat /\ mine[s] <= n + 1
      /\ pc[s] = "sum" => mine[s] = n
    BY <1>1 DEF Published, IInv, TypeOK, OwnersKeepTheirSlots
<1>4. /\ read2 \in [DPs -> [DPs -> Nat]]
      /\ read2[d][s] = n
      /\ \A f, e \in DPs : f # d \/ e # s => read2[f][e] = read[f][e]
      /\ \A f \in DPs : f # d => read2[f] = read[f]
    BY <1>0, <1>1 DEF History
<1>5. History(clock, began, admitted, read2, seen)'
    BY <1>0, <1>4 DEF History
<1> HIDE DEF read2
<1>6. SumsAdd(read2, seen)'
    <2> SUFFICES ASSUME NEW f \in DPs
                 PROVE  /\ IsFiniteSet(Counted(read2[f], next'[f] - 1))
                        /\ total'[f] = Cardinality(Counted(read2[f], next'[f] - 1))
        BY <1>1 DEF SumsAdd, Explains
    <2>1. CASE f # d
        <3>1. read2[f] = read[f] /\ next'[f] = next[f] /\ total'[f] = total[f]
            BY <1>1, <1>4, <2>1
        <3> QED
            BY <3>1 DEF SumsAdd, Explains
    <2>2. CASE f = d
        <3>1. /\ IsFiniteSet(Counted(read[d], s - 1))
              /\ total[d] = Cardinality(Counted(read[d], s - 1))
            BY DEF SumsAdd, Explains
        <3>2. \A e \in 1..(s - 1) : read2[d][e] = read[d][e]
            BY <1>1, <1>2, <1>4 DEF DPs
        <3>3. /\ IsFiniteSet(Counted(read2[d], s))
              /\ Cardinality(Counted(read2[d], s))
                    = Cardinality(Counted(read[d], s - 1)) + n
            <4>1. s \in Nat \ {0} /\ n \in Nat /\ Prolongs(read2[d], read[d], s, n)
                BY <1>1, <1>2, <1>4, <3>2 DEF Prolongs
            <4> QED
                BY <4>1, <3>1, CountedOneMore
        <3>4. next'[d] - 1 = s /\ total'[d] = total[d] + n
            BY <1>1, <1>2
        <3> QED
            BY <2>2, <3>1, <3>3, <3>4
    <2> QED
        BY <2>1, <2>2
<1>7. ReadBounds(began, admitted, read2)'
    <2> SUFFICES ASSUME NEW f \in DPs, NEW e \in DPs, pc[f] = "sum", e < next'[f]
                 PROVE  /\ mine[e] > 0 /\ admitted[e] <= began[f]
                              => mine[e] <= read2[f][e] + 1
                        /\ pc[e] = "sum" /\ began[e] <= began[f]
                              => mine[e] <= read2[f][e]
        BY <1>1 DEF ReadBounds
    <2>1. CASE f = d /\ e = s
        BY <1>3, <1>4, <2>1
    <2>2. CASE ~(f = d /\ e = s)
        <3>1. e < next[f]
            BY <1>1, <1>2, <2>2
        <3>2. read2[f][e] = read[f][e]
            BY <1>4, <2>2
        <3> QED
            BY <3>1, <3>2 DEF Explains, ReadBounds
    <2> QED
        BY <2>1, <2>2
<1>8. SeenBounds(began, admitted, seen)'
    BY <1>1 DEF Explains, SeenBounds
<1> QED
    BY <1>5, <1>6, <1>7, <1>8 DEF Explains, read2

\* The last read of a sum that is below the bound: what the sum has read becomes
\* what the admission has seen.
LEMMA AdmitExplained ==
    ASSUME IInv, TypeOK', Published, NEW d \in DPs, ReadSlot(d), next[d] = N,
           NEW CONSTANT clock, NEW CONSTANT began, NEW CONSTANT admitted,
           NEW CONSTANT read, NEW CONSTANT seen, NEW CONSTANT n,
           n = inflight[N], ~Full(total[d] + n),
           Explains(clock, began, admitted, read, seen)
    PROVE  Explains(clock, began, [admitted EXCEPT ![d] = began[d]], read,
                    [seen EXCEPT ![d] = [read[d] EXCEPT ![N] = n]])'
<1> USE AdmissionAssumption
<1> DEFINE admitted2 == [admitted EXCEPT ![d] = began[d]]
           counts == [read[d] EXCEPT ![N] = n]
           seen2 == [seen EXCEPT ![d] = counts]
<1>0. History(clock, began, admitted, read, seen)
    BY DEF Explains
<1>a. N \in DPs
    BY DEF DPs
<1>1. /\ N \in DPs /\ n \in Nat
      /\ next \in [DPs -> DPs] /\ next' = [next EXCEPT ![d] = 1]
      /\ total \in [DPs -> Nat] /\ total' = [total EXCEPT ![d] = 0]
      /\ mine \in [DPs -> Nat] /\ mine' = [mine EXCEPT ![d] = mine[d] + 1]
      /\ pc \in [DPs -> {"idle", "sum", "write", "odd", "down"}]
      /\ pc[d] = "sum" /\ pc' = [pc EXCEPT ![d] = "write"]
    BY <1>a DEF ReadSlot, Restart, Goto, IInv, TypeOK
<1>2. \A e \in DPs : e \in Nat \ {0} /\ (e = N \/ e < N)
    BY DEF DPs
<1>3. /\ mine[N] <= n + 1
      /\ pc[N] = "sum" => mine[N] = n
    BY <1>1 DEF ReadSlot, Published, IInv, OwnersKeepTheirSlots
<1>4. /\ admitted2 \in [DPs -> 0..clock] /\ admitted2[d] = began[d]
      /\ \A e \in DPs : e # d => admitted2[e] = admitted[e]
      /\ counts \in [DPs -> Nat] /\ counts[N] = n
      /\ \A e \in DPs : e # N => counts[e] = read[d][e]
      /\ seen2 \in [DPs -> [DPs -> Nat]] /\ seen2[d] = counts
      /\ \A f \in DPs : f # d => seen2[f] = seen[f]
    BY <1>0, <1>1 DEF History
<1>5. History(clock, began, admitted2, read, seen2)'
    BY <1>0, <1>4 DEF History
<1> HIDE DEF admitted2, counts, seen2
\* What d has read bounds the others, as it did in ReadBounds.
<1>6. ASSUME NEW e \in DPs
      PROVE  /\ mine[e] > 0 /\ admitted[e] <= began[d] => mine[e] <= counts[e] + 1
             /\ pc[e] = "sum" /\ began[e] <= began[d] => mine[e] <= counts[e]
    <2>1. CASE e = N
        BY <1>1, <1>3, <1>4, <2>1
    <2>2. CASE e # N
        <3>1. counts[e] = read[d][e] /\ e < next[d]
            BY <1>2, <1>4, <2>2
        <3> QED
            BY <1>1, <3>1 DEF Explains, ReadBounds
    <2> QED
        BY <2>1, <2>2
<1>7. SumsAdd(read, seen2)'
    <2> SUFFICES ASSUME NEW f \in DPs
                 PROVE  /\ IsFiniteSet(Counted(read[f], next'[f] - 1))
                        /\ total'[f] = Cardinality(Counted(read[f], next'[f] - 1))
                        /\ mine'[f] > 0 =>
                              /\ IsFiniteSet(Counted(seen2[f], N))
                              /\ Cardinality(Counted(seen2[f], N)) < MaxInflight
        BY DEF SumsAdd
    <2>1. CASE f # d
        <3>1. /\ seen2[f] = seen[f] /\ next'[f] = next[f]
              /\ total'[f] = total[f] /\ mine'[f] = mine[f]
            BY <1>1, <1>4, <2>1
        <3> QED
            BY <3>1 DEF SumsAdd, Explains
    <2>2. CASE f = d
        <3>1. IsFiniteSet(Counted(read[d], 0)) /\ Cardinality(Counted(read[d], 0)) = 0
            BY CountedNone
        <3>2. next'[d] - 1 = 0 /\ total'[d] = 0
            BY <1>1
        <3>3. /\ IsFiniteSet(Counted(read[d], N - 1))
              /\ total[d] = Cardinality(Counted(read[d], N - 1))
            BY DEF SumsAdd, Explains
        <3>4. \A e \in 1..(N - 1) : counts[e] = read[d][e]
            <4>1. \A e \in 1..(N - 1) : e \in DPs /\ e # N
                BY DEF DPs
            <4> QED
                BY <1>4, <4>1
        <3>5. /\ IsFiniteSet(Counted(counts, N))
              /\ Cardinality(Counted(counts, N))
                    = Cardinality(Counted(read[d], N - 1)) + n
            <4>1. N \in Nat \ {0} /\ n \in Nat /\ Prolongs(counts, read[d], N, n)
                BY <1>1, <1>4, <3>4 DEF Prolongs
            <4> QED
                BY <4>1, <3>3, CountedOneMore
        <3>6. total[d] + n < MaxInflight
            BY <1>1 DEF Full
        <3> QED
            BY <1>4, <2>2, <3>1, <3>2, <3>3, <3>5, <3>6
    <2> QED
        BY <2>1, <2>2
<1>8. ReadBounds(began, admitted2, read)'
    <2> SUFFICES ASSUME NEW f \in DPs, NEW e \in DPs, pc'[f] = "sum", e < next'[f]
                 PROVE  /\ mine'[e] > 0 /\ admitted2[e] <= began[f]
                              => mine'[e] <= read[f][e] + 1
                        /\ pc'[e] = "sum" /\ began[e] <= began[f]
                              => mine'[e] <= read[f][e]
        BY DEF ReadBounds
    <2>1. f # d /\ pc[f] = "sum" /\ e < next[f]
        BY <1>1
    <2>2. CASE e = d
        <3>1. admitted2[e] = began[d] /\ mine'[e] = mine[d] + 1 /\ pc'[e] # "sum"
            BY <1>1, <1>4, <2>2
        <3>2. read[f][d] \in Nat /\ mine[d] \in Nat
            BY <1>0, <1>1 DEF History
        <3>3. began[d] <= began[f] => mine[d] <= read[f][d]
            BY <1>1, <2>1, <2>2 DEF Explains, ReadBounds
        <3> QED
            BY <2>2, <3>1, <3>2, <3>3
    <2>3. CASE e # d
        <3>1. admitted2[e] = admitted[e] /\ mine'[e] = mine[e] /\ pc'[e] = pc[e]
            BY <1>1, <1>4, <2>3
        <3> QED
            BY <2>1, <3>1 DEF Explains, ReadBounds
    <2> QED
        BY <2>2, <2>3
<1>9. SeenBounds(began, admitted2, seen2)'
    <2> SUFFICES ASSUME NEW f \in DPs, NEW e \in DPs, mine'[f] > 0
                 PROVE  /\ mine'[e] > 0 /\ admitted2[e] <= admitted2[f]
                              => mine'[e] <= seen2[f][e] + 1
                        /\ pc'[e] = "sum" /\ began[e] <= admitted2[f]
                              => mine'[e] <= seen2[f][e]
        BY DEF SeenBounds
    <2>0. counts[d] \in Nat /\ mine[d] \in Nat /\ began[d] \in Nat
        BY <1>0, <1>1, <1>4 DEF History
    <2>1. CASE f = d /\ e = d
        <3>1. mine[d] <= counts[d]
            BY <1>1, <1>6, <2>0
        <3> QED
            <4>1. mine'[e] = mine[d] + 1 /\ pc'[e] # "sum" /\ seen2[f][e] = counts[d]
                BY <1>1, <1>4, <2>1
            <4> QED
                BY <2>0, <3>1, <4>1
    <2>2. CASE f = d /\ e # d
        <3>1. /\ admitted2[e] = admitted[e] /\ mine'[e] = mine[e] /\ pc'[e] = pc[e]
              /\ admitted2[f] = began[d] /\ seen2[f] = counts
            BY <1>1, <1>4, <2>2
        <3> QED
            BY <1>6, <3>1
    <2>3. CASE f # d
        <3>1. mine[f] > 0 /\ admitted2[f] = admitted[f] /\ seen2[f] = seen[f]
            BY <1>1, <1>4, <2>3
        <3>2. CASE e = d
            <4>1. admitted2[e] = began[d] /\ mine'[e] = mine[d] + 1 /\ pc'[e] # "sum"
                BY <1>1, <1>4, <3>2
            <4>2. seen[f][d] \in Nat
                BY <1>0 DEF History
            <4>3. began[d] <= admitted[f] => mine[d] <= seen[f][d]
                BY <1>1, <3>1 DEF Explains, SeenBounds
            <4> QED
                BY <2>0, <3>1, <3>2, <4>1, <4>2, <4>3
        <3>3. CASE e # d
            <4>1. admitted2[e] = admitted[e] /\ mine'[e] = mine[e] /\ pc'[e] = pc[e]
                BY <1>1, <1>4, <3>3
            <4> QED
                BY <3>1, <4>1 DEF Explains, SeenBounds
        <3> QED
            BY <3>2, <3>3
    <2> QED
        BY <2>1, <2>2, <2>3
<1> QED
    BY <1>5, <1>7, <1>8, <1>9 DEF Explains, admitted2, counts, seen2

\* The steps of a data plane that admit nothing, and those of the supervisor.
LEMMA OthersShrink ==
    ASSUME IInv, Published, NEW d \in DPs,
           \/ BeginWrite(d) \/ EndWrite(d) \/ WriteAgain(d) \/ Release(d)
           \/ ReadSlot(d) /\ next[d] = N /\ Full(total[d] + inflight[N])
           \/ ReadRaises(d) \/ Crash(d)
           \/ ReclaimBegins(d) \/ ReclaimEnds(d)
    PROVE  Shrinks
<1> USE AdmissionAssumption
<1>1. CASE BeginWrite(d)
    BY <1>1 DEF BeginWrite, Goto, Shrinks, IInv, TypeOK
<1>2. CASE EndWrite(d)
    BY <1>2 DEF EndWrite, Goto, Shrinks, IInv, TypeOK
<1>3. CASE WriteAgain(d)
    BY <1>3 DEF WriteAgain, Goto, Shrinks, IInv, TypeOK
<1>4. CASE Release(d)
    BY <1>4 DEF Release, HasRequest, Goto, Shrinks, IInv, TypeOK
<1>5. CASE ReadSlot(d) /\ next[d] = N /\ Full(total[d] + inflight[N])
    BY <1>5 DEF ReadSlot, Restart, Goto, Shrinks, IInv, TypeOK
<1>6. CASE ReadRaises(d)
    BY <1>6 DEF ReadRaises, Restart, Goto, Shrinks, IInv, TypeOK
<1>7. CASE Crash(d)
    BY <1>7 DEF Crash, Restart, Goto, Shrinks, IInv, TypeOK
<1>8. CASE ReclaimBegins(d)
    BY <1>8 DEF ReclaimBegins, Shrinks, IInv, TypeOK
<1>9. CASE ReclaimEnds(d)
    BY <1>9 DEF ReclaimEnds, Goto, Shrinks, IInv, TypeOK
<1> QED
    BY <1>1, <1>2, <1>3, <1>4, <1>5, <1>6, <1>7, <1>8, <1>9

\* A history that explains a state can be continued over every step.
LEMMA StepExplained ==
    ASSUME IInv, IInv', Published, [Next]_vars,
           \E clock, began, admitted, read, seen :
                Explains(clock, began, admitted, read, seen)
    PROVE  (\E clock, began, admitted, read, seen :
                Explains(clock, began, admitted, read, seen))'
<1>1. PICK clock, began, admitted, read, seen :
            Explains(clock, began, admitted, read, seen)
    OBVIOUS
<1>2. TypeOK /\ TypeOK'
    BY DEF IInv
<1>3. CASE Shrinks
    <2>1. Explains(clock, began, admitted, read, seen)'
        BY <1>1, <1>2, <1>3, ShrinksExplained
    <2> QED
        BY <2>1
<1>4. ASSUME NEW d \in DPs, TryAcquire(d)
      PROVE  (\E c, b, a, r, s : Explains(c, b, a, r, s))'
    <2>1. Explains(clock + 1, [began EXCEPT ![d] = clock + 1], admitted, read, seen)'
        BY <1>1, <1>2, <1>4, BeginExplained
    <2> QED
        BY <2>1
<1>5. ASSUME NEW d \in DPs, ReadSlot(d), next[d] # N
      PROVE  (\E c, b, a, r, s : Explains(c, b, a, r, s))'
    <2>1. PICK s, n : s = next[d] /\ n = inflight[next[d]]
        OBVIOUS
    <2>2. Explains(clock, began, admitted, [read EXCEPT ![d][s] = n], seen)'
        BY <1>1, <1>2, <1>5, <2>1, ReadExplained
    <2> QED
        BY <2>2
<1>6. ASSUME NEW d \in DPs, ReadSlot(d), next[d] = N, ~Full(total[d] + inflight[N])
      PROVE  (\E c, b, a, r, s : Explains(c, b, a, r, s))'
    <2>1. PICK n : n = inflight[N]
        OBVIOUS
    <2>2. Explains(clock, began, [admitted EXCEPT ![d] = began[d]], read,
                   [seen EXCEPT ![d] = [read[d] EXCEPT ![N] = n]])'
        BY <1>1, <1>2, <1>6, <2>1, AdmitExplained
    <2> QED
        BY <2>2
<1>7. CASE UNCHANGED vars
    <2>1. Shrinks
        BY <1>2, <1>7 DEF vars, Shrinks, TypeOK
    <2> QED
        BY <2>1, <1>3
<1>8. CASE Next
    <2>1. PICK d \in DPs : DPStep(d) \/ ReclaimBegins(d) \/ ReclaimEnds(d)
        BY <1>8 DEF Next
    <2> QED
        BY <2>1, <1>3, <1>4, <1>5, <1>6, OthersShrink DEF DPStep
<1> QED
    BY <1>7, <1>8

\* BoundInv holds in every reachable state.
THEOREM BoundInductive == Spec => []BoundInv
<1>1. IInv /\ BoundInv /\ IInv' /\ [Next]_vars => BoundInv'
    BY PublishedKept, StepExplained DEF BoundInv
<1> QED
    BY InitBoundInv, Inductive, <1>1, PTL DEF Spec

\* The requests of live processes never exceed the bound by more than N - 1,
\* however reads, admissions, releases, deaths and reclaims interleave.
THEOREM Bounded == Spec => []SoftBound
<1>1. IInv /\ BoundInv => SoftBound
    BY BoundInvBounds DEF IInv
<1> QED
    BY <1>1, Inductive, BoundInductive, PTL

=============================================================================
