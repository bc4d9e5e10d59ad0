------------------------- MODULE AdminControlProofs -------------------------
(***************************************************************************)
(* Theorems about AdminControl, for any number of calls, stages and ranks. *)
(***************************************************************************)
EXTENDS AdminControl, TLAPS, SequenceTheorems

-----------------------------------------------------------------------------
\* Sequences.

\* What is moved from the front of one queue to the end of the one before it
\* changes nothing for who reads both.
LEMMA MoveOne ==
    ASSUME NEW q \in Seq(Ops), NEW r \in Seq(Ops), r # <<>>
    PROVE  /\ Append(q, Head(r)) \in Seq(Ops)
           /\ Head(r) \in Ops /\ Tail(r) \in Seq(Ops)
           /\ Append(q, Head(r)) \o Tail(r) = q \o r
<1>1. /\ Head(r) \in Ops /\ Tail(r) \in Seq(Ops) /\ Append(q, Head(r)) \in Seq(Ops)
      /\ Append(q, Head(r)) \o Tail(r) \in Seq(Ops)
      /\ q \o r \in Seq(Ops)
    OBVIOUS
<1> QED
    BY <1>1

\* What comes at the end of the second comes at the end of both.
LEMMA AppendConcat ==
    ASSUME NEW q \in Seq(Ops), NEW r \in Seq(Ops), NEW e \in Ops
    PROVE  q \o r \in Seq(Ops) /\ q \o Append(r, e) = Append(q \o r, e)
OBVIOUS

\* The same for three queues.
LEMMA AppendThird ==
    ASSUME NEW a \in Seq(Ops), NEW b \in Seq(Ops), NEW c \in Seq(Ops), NEW e \in Ops
    PROVE  a \o (b \o Append(c, e)) = Append(a \o (b \o c), e)
<1> DEFINE bc == b \o c
<1>1. bc \in Seq(Ops) /\ b \o Append(c, e) = Append(bc, e)
    BY AppendConcat
<1> HIDE DEF bc
<1>2. a \o Append(bc, e) = Append(a \o bc, e)
    BY <1>1, AppendConcat
<1> QED
    BY <1>1, <1>2, Zenon DEF bc

\* It does not matter in which order queues are joined.
LEMMA Joined ==
    ASSUME NEW a \in Seq(Ops), NEW b \in Seq(Ops), NEW c \in Seq(Ops)
    PROVE  (a \o b) \o c = a \o (b \o c)
BY ConcatAssociative, SMTT(30)

\* What is moved from the front of the second queue to the end of the first.
LEMMA MoveFirst ==
    ASSUME NEW a \in Seq(Ops), NEW b \in Seq(Ops), NEW c \in Seq(Ops), b # <<>>
    PROVE  Append(a, Head(b)) \o (Tail(b) \o c) = a \o (b \o c)
<1>1. PICK u \in Seq(Ops), v \in Seq(Ops) :
            u = Append(a, Head(b)) /\ v = Tail(b) /\ u \o v = a \o b
    BY MoveOne
<1>2. (u \o v) \o c = u \o (v \o c)
    BY Joined, SMTT(30)
<1>3. (a \o b) \o c = a \o (b \o c)
    BY Joined, SMTT(30)
<1> QED
    BY <1>1, <1>2, <1>3, Zenon

\* One element less.
LEMMA RemoveAtProperties ==
    ASSUME NEW s \in Seq(Ops), NEW i \in 1..Len(s)
    PROVE  /\ RemoveAt(s, i) \in Seq(Ops)
           /\ Len(RemoveAt(s, i)) = Len(s) - 1
           /\ \A j \in 1..(Len(s) - 1) :
                 RemoveAt(s, i)[j] = IF j < i THEN s[j] ELSE s[j + 1]
<1> DEFINE a == SubSeq(s, 1, i - 1)
           b == SubSeq(s, i + 1, Len(s))
<1>1. Len(s) \in Nat /\ i \in Nat /\ i <= Len(s) /\ i > 0
    OBVIOUS
<1>2. a \in Seq(Ops) /\ Len(a) = i - 1 /\ \A j \in 1..(i - 1) : a[j] = s[j]
    BY SubSeqProperties
<1>3. b \in Seq(Ops) /\ Len(b) = Len(s) - i /\ \A j \in 1..(Len(s) - i) : b[j] = s[i + j]
    BY SubSeqProperties
<1>4. RemoveAt(s, i) = a \o b
    BY DEF RemoveAt
<1> HIDE DEF a, b
<1>5. /\ a \o b \in Seq(Ops) /\ Len(a \o b) = Len(a) + Len(b)
      /\ \A j \in 1..(Len(a) + Len(b)) :
            (a \o b)[j] = IF j <= Len(a) THEN a[j] ELSE b[j - Len(a)]
    BY <1>2, <1>3, ConcatProperties
<1>6. ASSUME NEW j \in 1..(Len(s) - 1)
      PROVE  (a \o b)[j] = IF j < i THEN s[j] ELSE s[j + 1]
    <2>1. CASE j < i
        BY <2>1, <1>1, <1>2, <1>3, <1>5
    <2>2. CASE ~ (j < i)
        <3>1. j - (i - 1) \in 1..(Len(s) - i) /\ i + (j - (i - 1)) = j + 1
            BY <2>2, <1>1
        <3>2. (a \o b)[j] = b[j - (i - 1)]
            BY <2>2, <1>1, <1>2, <1>3, <1>5
        <3> QED
            BY <2>2, <3>1, <3>2, <1>3
    <2> QED
        BY <2>1, <2>2
<1> QED
    BY <1>1, <1>2, <1>3, <1>4, <1>5, <1>6

-----------------------------------------------------------------------------
\* The inductive invariant.

\* The lock is held by its first, the others wait, and nobody is in it twice.
\* A call that has not had it has sent nothing.
LockInv ==
    /\ \A o \in Ops : pc[o] \in {"lock", "send", "wait"} <=> \E i \in 1..Len(lock) : lock[i] = o
    /\ \A i, j \in 1..Len(lock) : lock[i] = lock[j] => i = j
    /\ \A o \in Ops : pc[o] \in {"send", "wait"} => lock[1] = o
    /\ \A o \in Ops : pc[o] \in {"idle", "lock"} => sent[o] = {}

\* Whatever is under way is the operation of a call that was made.
Called ==
    /\ \A k \in Ranks : busy[k] # None => pc[busy[k]] # "idle"
    /\ \A f \in Followers : got[f] # None => pc[got[f].op] # "idle"
    /\ \A f \in Followers : \A i \in 1..Len(answers[f]) : pc[answers[f][i].op] # "idle"
    /\ \A s \in Stages : \A i \in 1..Len(replies[s]) : pc[replies[s][i].op] # "idle"
    /\ \A o \in Ops : \A s \in Stages : results[o][s] # "none" => pc[o] # "idle"
    /\ \A o \in resolved : pc[o] # "idle" /\ \A s \in targets[o] : results[o][s] # "none"
    /\ \A o \in Ops : verdict[o] = "success" => pc[o] = "done"

\* All that a rank has run and is yet to run of what was sent, in this order: a
\* follower gets what its leader has received.
Logged(k) == [i \in 1..Len(log[k]) |-> log[k][i].op]

Ahead(k) == IF k \in Stages THEN inbox[k] ELSE inbox[k] \o inbox[StageOf(k)]

Line(k) == Logged(k) \o (admin_queue[k] \o Ahead(k))

Precedes(k, o, p) ==
    \E i, j \in 1..Len(Line(k)) : i < j /\ Line(k)[i] = o /\ Line(k)[j] = p

\* An operation is in the lines of the stages it was sent to only, it is the
\* last there while its call has the lock, and all lines have the same order.
LineInv ==
    /\ \A k \in Ranks : \A i \in 1..Len(Line(k)) : StageOf(k) \in sent[Line(k)[i]]
    /\ \A o \in Ops : pc[o] \in {"send", "wait"} =>
          \A k \in Ranks : \A i \in 1..Len(Line(k)) : Line(k)[i] = o => i = Len(Line(k))
    /\ \A o, p \in Ops, j, k \in Ranks :
          o # p /\ Precedes(j, o, p) => ~Precedes(k, p, o)

\* What the result of a rank says.
RankTruth(k, o, res) ==
    /\ res = "ok" => /\ StageOf(k) \in Capable
                     /\ kind[o] # "unknown"
                     /\ RanWell(k, o)
    /\ res \in Skipped => kind[o] = "unknown" \/ StageOf(k) \notin Capable

\* What the result of a stage says: "ok" is true of all its ranks.
StageTruth(s, o, res) ==
    /\ res = "ok" => /\ s \in Capable
                     /\ kind[o] # "unknown"
                     /\ \A k \in RanksOf(s) : RanWell(k, o)
    /\ res \in Skipped => kind[o] = "unknown" \/ s \notin Capable

\* Every result on its way says the truth.
Truthful ==
    /\ \A k \in Ranks : admin_queue[k] # <<>> => StageOf(k) \in Capable
    /\ \A k \in Ranks : busy[k] = None => local[k] = "none"
    /\ \A k \in Ranks : busy[k] # None => RankTruth(k, busy[k], local[k])
    /\ \A f \in Followers : \A i \in 1..Len(answers[f]) :
          RankTruth(f, answers[f][i].op, answers[f][i].res)
    /\ \A f \in Followers : got[f] # None => RankTruth(f, got[f].op, got[f].res)
    /\ \A s \in Stages : \A i \in 1..Len(replies[s]) :
          StageTruth(s, replies[s][i].op, replies[s][i].res)
    /\ \A o \in Ops : \A s \in Stages : StageTruth(s, o, results[o][s])

IInv == TypeOK /\ LockInv /\ Called /\ LineInv /\ Truthful /\ SuccessIsTruthful

-----------------------------------------------------------------------------
\* Constants.

\* A follower is of one stage.
LEMMA StageOfRank ==
    /\ \A k \in Ranks : StageOf(k) \in Stages /\ k \in RanksOf(StageOf(k))
    /\ \A s \in Stages : StageOf(s) = s
    /\ \A s \in Stages : \A f \in FollowersOf[s] : f \in Followers /\ StageOf(f) = s
    /\ \A s \in Stages : \A k \in RanksOf(s) : k \in Ranks /\ StageOf(k) = s
BY AdminAssumption DEF StageOf, RanksOf, Ranks

\* What an answer is made of.
LEMMA AnswerParts ==
    /\ \A a \in Answer : a.op \in Ops /\ a.res \in Result
    /\ \A q \in Seq(Answer) : \A i \in 1..Len(q) : q[i] \in Answer
<1>1. \A a \in Answer : a.op \in Ops /\ a.res \in Result
    BY DEF Answer
<1>2. \A q \in Seq(Answer) : \A i \in 1..Len(q) : q[i] \in Answer
    BY ElementOfSeq
<1> QED
    BY <1>1, <1>2

\* The first states.
LEMMA InitIInv == Init => IInv
<1> SUFFICES ASSUME Init PROVE IInv
    OBVIOUS
<1> USE AdminAssumption, StageOfRank
<1>1. TypeOK
    BY DEF Init, TypeOK, Result, Ranks
<1>2. LockInv
    BY DEF Init, LockInv
<1>3. Called
    BY DEF Init, Called
<1>4. ASSUME NEW k \in Ranks
      PROVE  Line(k) = <<>>
    <2>1. Logged(k) = <<>>
        BY DEF Init, Logged
    <2>2. admin_queue[k] = <<>> /\ inbox[k] = <<>> /\ inbox[StageOf(k)] = <<>>
        BY DEF Init, Ranks
    <2> QED
        BY <2>1, <2>2 DEF Line, Ahead
<1>5. LineInv
    BY <1>4 DEF LineInv, Precedes
<1>6. Truthful
    BY DEF Init, Truthful, RankTruth, StageTruth, Skipped
<1>7. SuccessIsTruthful
    BY DEF Init, SuccessIsTruthful
<1> QED
    BY <1>1, <1>2, <1>3, <1>5, <1>6, <1>7 DEF IInv

-----------------------------------------------------------------------------
\* What the steps have in common.

\* A line is a sequence of operations, and begins with what was run.
LEMMA LineType ==
    ASSUME TypeOK, NEW k \in Ranks
    PROVE  /\ Logged(k) \in Seq(Ops) /\ Len(Logged(k)) = Len(log[k])
           /\ Line(k) \in Seq(Ops) /\ Len(Line(k)) \in Nat
           /\ Ahead(k) \in Seq(Ops)
           /\ \A i \in 1..Len(log[k]) :
                 i \in 1..Len(Line(k)) /\ Line(k)[i] = log[k][i].op
<1>1. log[k] \in Seq(Answer) /\ \A i \in 1..Len(log[k]) : log[k][i].op \in Ops
    BY AnswerParts DEF TypeOK
<1>2. Logged(k) \in Seq(Ops) /\ Len(Logged(k)) = Len(log[k])
    BY <1>1 DEF Logged
<1> DEFINE rest == admin_queue[k] \o Ahead(k)
<1>a. Ahead(k) \in Seq(Ops)
    BY StageOfRank DEF TypeOK, Ranks, Ahead
<1>3. rest \in Seq(Ops)
    BY <1>a DEF TypeOK
<1>4. Line(k) = Logged(k) \o rest
    BY DEF Line
<1> HIDE DEF rest
<1>5. /\ Line(k) \in Seq(Ops) /\ Len(Line(k)) = Len(log[k]) + Len(rest)
      /\ \A i \in 1..Len(log[k]) : Line(k)[i] = Logged(k)[i]
    BY <1>2, <1>3, <1>4
<1>6. \A i \in 1..Len(log[k]) : Logged(k)[i] = log[k][i].op
    BY DEF Logged
<1>7. Len(rest) \in Nat /\ Len(log[k]) \in Nat
    BY <1>1, <1>3
<1> QED
    BY <1>a, <1>2, <1>5, <1>6, <1>7

\* Nothing is received, run or sent.
LEMMA LineSame ==
    ASSUME UNCHANGED <<log, admin_queue, inbox>>
    PROVE  \A k \in Ranks : Line(k)' = Line(k)
BY DEF Line, Ahead, Logged

\* A rank runs or skips one more operation.
LEMMA LoggedGrows ==
    ASSUME TypeOK, NEW k \in Ranks, NEW o \in Ops, NEW res,
           log' = [log EXCEPT ![k] = Append(@, [op |-> o, res |-> res])]
    PROVE  /\ Logged(k)' = Append(Logged(k), o)
           /\ \A j \in Ranks : j # k => Logged(j)' = Logged(j)
           /\ \A j \in Ranks, p \in Ops : RanWell(j, p) => RanWell(j, p)'
           /\ res = "ok" => RanWell(k, o)'
<1>1. log \in [Ranks -> Seq(Answer)]
    BY DEF TypeOK
<1>2. /\ log'[k] = Append(log[k], [op |-> o, res |-> res])
      /\ \A j \in Ranks : j # k => log'[j] = log[j]
    BY <1>1
<1>3. /\ Len(log'[k]) = Len(log[k]) + 1
      /\ \A i \in 1..Len(log[k]) : log'[k][i] = log[k][i]
      /\ log'[k][Len(log[k]) + 1] = [op |-> o, res |-> res]
      /\ Len(log[k]) \in Nat
    BY <1>1, <1>2
<1>4. Logged(k)' = Append(Logged(k), o)
    <2>1. Logged(k) \in Seq(Ops) /\ Len(Logged(k)) = Len(log[k])
        BY LineType
    <2>2. /\ Append(Logged(k), o) \in Seq(Ops) /\ Len(Append(Logged(k), o)) = Len(log[k]) + 1
          /\ \A i \in 1..Len(log[k]) : Append(Logged(k), o)[i] = Logged(k)[i]
          /\ Append(Logged(k), o)[Len(log[k]) + 1] = o
        BY <2>1
    <2>3. Logged(k)' = [i \in 1..(Len(log[k]) + 1) |-> log'[k][i].op]
        BY <1>3 DEF Logged
    <2>4. \A i \in 1..(Len(log[k]) + 1) : Append(Logged(k), o)[i] = log'[k][i].op
        BY <2>2, <1>3 DEF Logged
    <2>5. /\ Logged(k)' \in Seq(Ops) /\ Len(Logged(k)') = Len(log[k]) + 1
          /\ \A i \in 1..(Len(log[k]) + 1) : Logged(k)'[i] = log'[k][i].op
        BY <2>2, <2>3, <2>4, <1>3
    <2> QED
        BY <2>2, <2>4, <2>5, SeqEqual
<1> QED
    BY <1>2, <1>3, <1>4 DEF Logged, RanWell

\* Lines that stay as they are stay in order, whoever gets or gives up the
\* lock.
LEMMA LinesStay ==
    ASSUME LineInv, UNCHANGED sent,
           \A k \in Ranks : Line(k)' = Line(k),
           \A o \in Ops : pc'[o] \in {"send", "wait"} =>
              pc[o] \in {"send", "wait"} \/ sent[o] = {}
    PROVE  LineInv'
<1>1. \A k \in Ranks, o, p \in Ops : Precedes(k, o, p)' = Precedes(k, o, p)
    BY DEF Precedes
<1> QED
    BY <1>1 DEF LineInv

\* Results stay true, as long as what was run and the kind of operation they
\* speak of stay.
LEMMA TruthStays ==
    ASSUME NEW o \in Ops, kind'[o] = kind[o],
           \A k \in Ranks : RanWell(k, o) => RanWell(k, o)'
    PROVE  /\ \A k \in Ranks, res \in Result \cup {"none"} :
                 RankTruth(k, o, res) => RankTruth(k, o, res)'
           /\ \A s \in Stages, res \in Result \cup {"none"} :
                 StageTruth(s, o, res) => StageTruth(s, o, res)'
BY StageOfRank DEF RankTruth, StageTruth

\* A step that runs nothing, and touches no kind, target or verdict.
LEMMA SuccessStays ==
    ASSUME SuccessIsTruthful, Called,
           \A o \in Ops : verdict'[o] = "success" => verdict[o] = "success",
           \A o \in Ops : pc[o] # "idle" => kind'[o] = kind[o] /\ targets'[o] = targets[o],
           \A k \in Ranks, o \in Ops : RanWell(k, o) => RanWell(k, o)',
           TypeOK
    PROVE  SuccessIsTruthful'
<1> SUFFICES ASSUME NEW o \in Ops, verdict'[o] = "success"
             PROVE  /\ kind'[o] # "unknown" =>
                          \A s \in targets'[o] \cap Capable : \A k \in RanksOf(s) : RanWell(k, o)'
                    /\ kind'[o] = "update" => \E s \in targets'[o] : RanWell(s, o)'
    BY DEF SuccessIsTruthful
<1>1. verdict[o] = "success" /\ kind'[o] = kind[o] /\ targets'[o] = targets[o]
    BY DEF Called
<1>2. targets[o] \subseteq Stages
    BY DEF TypeOK
<1> QED
    BY <1>1, <1>2, StageOfRank DEF SuccessIsTruthful, Ranks

\* What is unchanged stays true.
LEMMA Same ==
    ASSUME UNCHANGED log
    PROVE  \A k \in Ranks, o \in Ops : RanWell(k, o) => RanWell(k, o)'
BY DEF RanWell

-----------------------------------------------------------------------------
\* The coordinator.

\* A step of a call that leaves the stages and what they have said alone.
LEMMA StagesStay ==
    ASSUME IInv, UNCHANGED <<ranks, replies, log, results, resolved>>,
           \A o \in Ops : pc[o] # "idle" =>
              /\ pc'[o] # "idle"
              /\ kind'[o] = kind[o] /\ targets'[o] = targets[o],
           \A o \in Ops : verdict'[o] = "success" => pc'[o] = "done"
    PROVE  Called' /\ Truthful'
<1> USE AnswerParts
<1>1. Called'
    <2>1. /\ \A k \in Ranks : busy'[k] # None => pc'[busy'[k]] # "idle"
          /\ \A f \in Followers : got'[f] # None => pc'[got'[f].op] # "idle"
        BY DEF IInv, TypeOK, Called, ranks
    <2>2. \A f \in Followers : \A i \in 1..Len(answers'[f]) : pc'[answers'[f][i].op] # "idle"
        BY DEF IInv, TypeOK, Called, ranks
    <2>3. \A s \in Stages : \A i \in 1..Len(replies'[s]) : pc'[replies'[s][i].op] # "idle"
        BY DEF IInv, TypeOK, Called
    <2>4. \A o \in Ops : \A s \in Stages : results'[o][s] # "none" => pc'[o] # "idle"
        BY DEF IInv, Called
    <2>5. \A o \in resolved' : pc'[o] # "idle" /\ \A s \in targets'[o] : results'[o][s] # "none"
        BY DEF IInv, TypeOK, Called
    <2> QED
        BY <2>1, <2>2, <2>3, <2>4, <2>5 DEF Called
<1>2. ASSUME NEW o \in Ops, pc[o] # "idle"
      PROVE  /\ \A k \in Ranks, res \in Result \cup {"none"} :
                   RankTruth(k, o, res) => RankTruth(k, o, res)'
             /\ \A s \in Stages, res \in Result \cup {"none"} :
                   StageTruth(s, o, res) => StageTruth(s, o, res)'
    BY <1>2, Same, TruthStays
<1>3. \A k \in Ranks : busy'[k] # None => RankTruth(k, busy[k], local[k])'
    BY <1>2 DEF IInv, TypeOK, Called, Truthful, ranks
<1>4. \A f \in Followers : \A i \in 1..Len(answers[f]) :
          RankTruth(f, answers[f][i].op, answers[f][i].res)'
    BY <1>2 DEF IInv, TypeOK, Called, Truthful, ranks, Ranks
<1>5. \A f \in Followers : got'[f] # None => RankTruth(f, got[f].op, got[f].res)'
    BY <1>2 DEF IInv, TypeOK, Called, Truthful, ranks, Ranks
<1>6. \A s \in Stages : \A i \in 1..Len(replies[s]) :
          StageTruth(s, replies[s][i].op, replies[s][i].res)'
    BY <1>2 DEF IInv, TypeOK, Called, Truthful
<1>7. ASSUME NEW o \in Ops, NEW s \in Stages
      PROVE  StageTruth(s, o, results[o][s])'
    <2>1. CASE results[o][s] = "none"
        BY <2>1 DEF StageTruth, Skipped
    <2>2. CASE results[o][s] # "none"
        BY <2>2, <1>2 DEF IInv, TypeOK, Called, Truthful
    <2> QED
        BY <2>1, <2>2
<1>8. Truthful'
    BY <1>3, <1>4, <1>5, <1>6, <1>7 DEF IInv, Truthful, ranks
<1> QED
    BY <1>1, <1>8

\* The call is refused.
LEMMA RejectKeeps ==
    ASSUME IInv, NEW o \in Ops, Reject(o)
    PROVE  IInv'
<1>1. TypeOK'
    BY DEF Reject, ranks, IInv, TypeOK
<1>2. LockInv'
    BY DEF Reject, IInv, TypeOK, LockInv
<1>3. Called' /\ Truthful'
    BY StagesStay DEF Reject, IInv, TypeOK, Called
<1>4. LineInv'
    BY LineSame, LinesStay DEF Reject, ranks, IInv, TypeOK
<1>5. SuccessIsTruthful'
    BY Same, SuccessStays DEF Reject, IInv, TypeOK
<1> QED
    BY <1>1, <1>2, <1>3, <1>4, <1>5 DEF IInv

\* The call waits for the lock behind all others.
LEMMA CallKeeps ==
    ASSUME IInv, NEW o \in Ops, Call(o)
    PROVE  IInv'
<1>1. TypeOK'
    BY DEF Call, ranks, IInv, TypeOK
<1>2. LockInv'
    <2>1. /\ Len(lock') = Len(lock) + 1 /\ lock'[Len(lock) + 1] = o /\ Len(lock) \in Nat
          /\ \A i \in 1..Len(lock) : lock'[i] = lock[i]
        BY DEF Call, IInv, TypeOK
    <2>2. /\ pc' = [pc EXCEPT ![o] = "lock"] /\ pc[o] = "idle"
          /\ UNCHANGED sent
        BY DEF Call
    <2>3. \A i \in 1..Len(lock) : lock[i] # o
        BY <2>2 DEF IInv, LockInv
    <2>4. ASSUME NEW p \in Ops
          PROVE  pc'[p] \in {"lock", "send", "wait"} <=> \E i \in 1..Len(lock') : lock'[i] = p
        <3>1. CASE p = o
            <4>1. pc'[o] = "lock"
                BY <2>2 DEF IInv, TypeOK
            <4> QED
                BY <3>1, <4>1, <2>1
        <3>2. CASE p # o
            <4>1. pc'[p] = pc[p]
                BY <3>2, <2>2 DEF IInv, TypeOK
            <4>2. (\E i \in 1..Len(lock') : lock'[i] = p) <=> (\E i \in 1..Len(lock) : lock[i] = p)
                BY <3>2, <2>1
            <4> QED
                BY <4>1, <4>2 DEF IInv, LockInv
        <3> QED
            BY <3>1, <3>2
    <2>5. \A i, j \in 1..Len(lock') : lock'[i] = lock'[j] => i = j
        BY <2>1, <2>3 DEF IInv, LockInv
    <2>6. \A p \in Ops : pc'[p] \in {"send", "wait"} => lock'[1] = p
        <3> SUFFICES ASSUME NEW p \in Ops, pc'[p] \in {"send", "wait"}
                     PROVE  lock'[1] = p
            OBVIOUS
        <3>1. pc[p] \in {"send", "wait"}
            BY <2>2 DEF IInv, TypeOK
        <3>2. lock[1] = p /\ 1 \in 1..Len(lock)
            BY <3>1, <2>1 DEF IInv, LockInv
        <3> QED
            BY <3>2, <2>1
    <2>7. \A p \in Ops : pc'[p] \in {"idle", "lock"} => sent'[p] = {}
        BY <2>2 DEF IInv, TypeOK, LockInv
    <2> QED
        BY <2>4, <2>5, <2>6, <2>7 DEF LockInv
<1>3. Called' /\ Truthful'
    BY StagesStay DEF Call, IInv, TypeOK, Called
<1>4. LineInv'
    BY LineSame, LinesStay DEF Call, ranks, IInv, TypeOK
<1>5. SuccessIsTruthful'
    BY Same, SuccessStays DEF Call, IInv, TypeOK
<1> QED
    BY <1>1, <1>2, <1>3, <1>4, <1>5 DEF IInv

\* Nobody else has the lock, and the operation is in no line yet.
LEMMA AcquireKeeps ==
    ASSUME IInv, NEW o \in Ops, Acquire(o)
    PROVE  IInv'
<1>1. TypeOK'
    BY DEF Acquire, ranks, IInv, TypeOK
<1>2. LockInv'
    <2>1. lock[1] = o
        <3>1. \E i \in 1..Len(lock) : lock[i] = o
            BY DEF Acquire, IInv, LockInv
        <3> QED
            BY <3>1 DEF Acquire, HoldsLock, IInv, TypeOK
    <2> QED
        BY <2>1 DEF Acquire, IInv, TypeOK, LockInv
<1>3. Called' /\ Truthful'
    BY StagesStay DEF Acquire, IInv, TypeOK, Called
<1>4. LineInv'
    BY LineSame, LinesStay DEF Acquire, ranks, IInv, TypeOK, LockInv
<1>5. SuccessIsTruthful'
    BY Same, SuccessStays DEF Acquire, IInv, TypeOK
<1> QED
    BY <1>1, <1>2, <1>3, <1>4, <1>5 DEF IInv

\* Who waits keeps its place when another leaves.
LEMMA LeaveKeeps ==
    ASSUME IInv, NEW o \in Ops, NEW how \in {"success", "failure", "raised"}, Leave(o, how),
           pc[o] \in {"lock", "send", "wait"}
    PROVE  /\ TypeOK' /\ LockInv' /\ Called' /\ LineInv' /\ Truthful'
           /\ how # "success" => SuccessIsTruthful'
<1>0. PICK i \in 1..Len(lock) : lock[i] = o /\ lock' = RemoveAt(lock, i)
    BY DEF Leave
<1>1. /\ lock' \in Seq(Ops) /\ Len(lock') = Len(lock) - 1 /\ Len(lock) \in Nat
      /\ \A j \in 1..(Len(lock) - 1) : lock'[j] = IF j < i THEN lock[j] ELSE lock[j + 1]
    <2>1. lock \in Seq(Ops)
        BY DEF IInv, TypeOK
    <2>2. /\ RemoveAt(lock, i) \in Seq(Ops) /\ Len(RemoveAt(lock, i)) = Len(lock) - 1
          /\ \A j \in 1..(Len(lock) - 1) :
                RemoveAt(lock, i)[j] = IF j < i THEN lock[j] ELSE lock[j + 1]
        BY <2>1, RemoveAtProperties, Zenon
    <2>3. Len(lock) \in Nat
        BY <2>1
    <2> QED
        BY <1>0, <2>2, <2>3
<1>2. TypeOK'
    BY <1>1 DEF Leave, ranks, IInv, TypeOK
<1>3. LockInv'
    <2>1. pc' = [pc EXCEPT ![o] = "done"] /\ UNCHANGED sent
        BY DEF Leave
    <2>2. \A j \in 1..Len(lock') : lock'[j] # o
        BY <1>0, <1>1 DEF IInv, LockInv
    <2>3. \A p \in Ops : (\E j \in 1..Len(lock) : lock[j] = p) /\ p # o
                            => \E j \in 1..Len(lock') : lock'[j] = p
        <3> SUFFICES ASSUME NEW j \in 1..Len(lock), lock[j] # o
                     PROVE  \E m \in 1..Len(lock') : lock'[m] = lock[j]
            OBVIOUS
        <3>1. CASE j < i
            BY <3>1, <1>1
        <3>2. CASE j > i
            <4>1. j - 1 \in 1..Len(lock') /\ ~(j - 1 < i) /\ (j - 1) + 1 = j
                BY <3>2, <1>1
            <4> QED
                BY <4>1, <1>1
        <3> QED
            BY <3>1, <3>2, <1>0
    <2>4. \A j \in 1..Len(lock') : \E m \in 1..Len(lock) : lock'[j] = lock[m]
        BY <1>1
    <2>5. ASSUME NEW p \in Ops
          PROVE  pc'[p] \in {"lock", "send", "wait"} <=> \E j \in 1..Len(lock') : lock'[j] = p
        <3>1. CASE p = o
            BY <3>1, <2>1, <2>2 DEF IInv, TypeOK
        <3>2. CASE p # o
            <4>1. pc'[p] = pc[p]
                BY <3>2, <2>1 DEF IInv, TypeOK
            <4>2. (\E j \in 1..Len(lock') : lock'[j] = p) <=> (\E j \in 1..Len(lock) : lock[j] = p)
                BY <3>2, <2>3, <2>4
            <4> QED
                BY <4>1, <4>2 DEF IInv, LockInv
        <3> QED
            BY <3>1, <3>2
    <2>6. \A j, m \in 1..Len(lock') : lock'[j] = lock'[m] => j = m
        <3> SUFFICES ASSUME NEW j \in 1..Len(lock'), NEW m \in 1..Len(lock'), lock'[j] = lock'[m]
                     PROVE  j = m
            OBVIOUS
        <3> DEFINE at(x) == IF x < i THEN x ELSE x + 1
        <3>1. /\ at(j) \in 1..Len(lock) /\ at(m) \in 1..Len(lock)
              /\ lock'[j] = lock[at(j)] /\ lock'[m] = lock[at(m)]
            BY <1>1
        <3>2. \A x, y \in 1..Len(lock) : lock[x] = lock[y] => x = y
            BY DEF IInv, LockInv
        <3>3. at(j) = at(m)
            BY <3>1, <3>2
        <3> QED
            BY <3>3, <1>1
    <2>7. \A p \in Ops : pc'[p] \in {"send", "wait"} => lock'[1] = p
        <3> SUFFICES ASSUME NEW p \in Ops, pc'[p] \in {"send", "wait"}
                     PROVE  lock'[1] = p
            OBVIOUS
        <3>1. p # o /\ lock[1] = p
            BY <2>1 DEF IInv, TypeOK, LockInv
        <3>2. \E j \in 1..Len(lock') : lock'[j] = p
            BY <2>1, <2>5 DEF IInv, TypeOK
        <3> QED
            BY <3>1, <3>2, <1>0, <1>1
    <2> QED
        BY <2>1, <2>5, <2>6, <2>7 DEF IInv, TypeOK, LockInv
<1>4. Called' /\ Truthful'
    BY StagesStay DEF Leave, IInv, TypeOK, Called
<1>5. LineInv'
    BY LineSame, LinesStay DEF Leave, ranks, IInv, TypeOK
<1>6. how # "success" => SuccessIsTruthful'
    BY Same, SuccessStays DEF Leave, IInv, TypeOK
<1> QED
    BY <1>2, <1>3, <1>4, <1>5, <1>6

\* The answers of all targets are there, and those that count are good.
LEMMA ReturnKeeps ==
    ASSUME IInv, NEW o \in Ops, Return(o)
    PROVE  IInv'
<1>1. pc[o] = "wait" /\ o \in resolved /\ Leave(o, Aggregate(o))
    BY DEF Return
<1>2. Aggregate(o) \in {"success", "failure", "raised"} /\ Aggregate(o) # "raised"
    BY DEF Aggregate
<1>3. /\ TypeOK' /\ LockInv' /\ Called' /\ LineInv' /\ Truthful'
      /\ Aggregate(o) # "success" => SuccessIsTruthful'
    BY <1>1, <1>2, LeaveKeeps
<1>4. ASSUME Aggregate(o) = "success"
      PROVE  SuccessIsTruthful'
    <2>1. /\ \A s \in targets[o] : s \in Stages /\ StageTruth(s, o, results[o][s])
          /\ \A s \in targets[o] : results[o][s] \in Result
        BY <1>1 DEF IInv, TypeOK, Truthful, Called
    <2>2. \A s \in targets[o] : results[o][s] = "ok" => \A k \in RanksOf(s) : RanWell(k, o)
        BY <2>1 DEF StageTruth
    <2>3. kind[o] # "unknown" => \A s \in targets[o] \cap Capable : results[o][s] = "ok"
        BY <2>1, <1>4 DEF Aggregate, Updated, Successful, Skipped, StageTruth, Result
    <2>4. kind[o] = "update" => \E s \in targets[o] : results[o][s] = "ok"
        BY <2>1, <1>4 DEF Aggregate, Updated, Successful, Skipped, Result
    <2>5. /\ UNCHANGED <<log, kind, targets>>
          /\ verdict' = [verdict EXCEPT ![o] = "success"]
        BY <1>1, <1>4 DEF Leave
    <2>6. \A k \in Ranks, p \in Ops : RanWell(k, p)' = RanWell(k, p)
        BY <2>5 DEF RanWell
    <2>7. \A s \in Stages : s \in RanksOf(s) /\ RanksOf(s) \subseteq Ranks
        BY StageOfRank DEF RanksOf
    <2>8. ASSUME NEW p \in Ops, verdict'[p] = "success"
          PROVE  /\ kind[p] # "unknown" =>
                       \A s \in targets[p] \cap Capable : \A k \in RanksOf(s) : RanWell(k, p)
                 /\ kind[p] = "update" => \E s \in targets[p] : RanWell(s, p)
        <3>1. CASE p = o
            BY <3>1, <2>1, <2>2, <2>3, <2>4, <2>7
        <3>2. CASE p # o
            BY <3>2, <2>5, <2>8 DEF IInv, TypeOK, SuccessIsTruthful
        <3> QED
            BY <3>1, <3>2
    <2> QED
        BY <2>5, <2>8 DEF SuccessIsTruthful, RanWell
<1> QED
    BY <1>3, <1>4 DEF IInv

\* The call ends without an answer.
LEMMA RaiseKeeps ==
    ASSUME IInv, NEW o \in Ops, Raise(o)
    PROVE  IInv'
BY LeaveKeeps DEF Raise, TimesOut, IInv

\* Sending to a stage lengthens the lines of its ranks.
LEMMA LineEnds ==
    ASSUME TypeOK, NEW o \in Ops, NEW s \in Stages,
           inbox' = [inbox EXCEPT ![s] = Append(@, o)],
           UNCHANGED <<log, admin_queue>>
    PROVE  \A k \in Ranks : Line(k)' = IF StageOf(k) = s THEN Append(Line(k), o) ELSE Line(k)
<1> SUFFICES ASSUME NEW k \in Ranks
             PROVE  Line(k)' = IF StageOf(k) = s THEN Append(Line(k), o) ELSE Line(k)
    OBVIOUS
<1>1. Logged(k)' = Logged(k) /\ admin_queue'[k] = admin_queue[k]
    BY DEF Logged
<1>2. /\ Logged(k) \in Seq(Ops) /\ admin_queue[k] \in Seq(Ops) /\ inbox[k] \in Seq(Ops)
      /\ StageOf(k) \in Ranks /\ inbox[StageOf(k)] \in Seq(Ops)
      /\ k \in Stages => StageOf(k) = k
    BY LineType, StageOfRank DEF TypeOK, Ranks
<1>3. /\ inbox'[s] = Append(inbox[s], o)
      /\ \A j \in Ranks : j # s => inbox'[j] = inbox[j]
    BY DEF TypeOK, Ranks
<1>4. CASE k = s
    <2>1. /\ Line(k) = Logged(k) \o (admin_queue[k] \o inbox[k])
          /\ Line(k)' = Logged(k) \o (admin_queue[k] \o Append(inbox[k], o))
        BY <1>1, <1>3, <1>4 DEF Line, Ahead
    <2>2. Logged(k) \o (admin_queue[k] \o Append(inbox[k], o))
             = Append(Logged(k) \o (admin_queue[k] \o inbox[k]), o)
        <3>1. PICK a \in Seq(Ops), b \in Seq(Ops), c \in Seq(Ops) :
                    a = Logged(k) /\ b = admin_queue[k] /\ c = inbox[k]
            BY <1>2, Zenon
        <3>2. a \o (b \o Append(c, o)) = Append(a \o (b \o c), o)
            BY AppendThird, Zenon
        <3> QED
            BY <3>1, <3>2, Zenon
    <2>3. StageOf(k) = s
        BY <1>2, <1>4
    <2> QED
        BY <2>1, <2>2, <2>3, Zenon
<1>5. CASE k # s /\ StageOf(k) = s
    <2>1. k \notin Stages
        BY <1>2, <1>5
    <2>2. /\ Line(k) = Logged(k) \o (admin_queue[k] \o (inbox[k] \o inbox[s]))
          /\ Line(k)' = Logged(k) \o (admin_queue[k] \o (inbox[k] \o Append(inbox[s], o)))
        BY <1>1, <1>3, <1>5, <2>1 DEF Line, Ahead
    <2>3. inbox[s] \in Seq(Ops)
        BY <1>2, <1>5
    <2>4. Logged(k) \o (admin_queue[k] \o (inbox[k] \o Append(inbox[s], o)))
             = Append(Logged(k) \o (admin_queue[k] \o (inbox[k] \o inbox[s])), o)
        <3> DEFINE all == inbox[k] \o inbox[s]
        <3>1. all \in Seq(Ops) /\ inbox[k] \o Append(inbox[s], o) = Append(all, o)
            BY <1>2, <2>3, AppendConcat, Zenon
        <3> HIDE DEF all
        <3>2. Logged(k) \o (admin_queue[k] \o Append(all, o))
                 = Append(Logged(k) \o (admin_queue[k] \o all), o)
            <4>1. PICK a \in Seq(Ops), b \in Seq(Ops), c \in Seq(Ops) :
                        a = Logged(k) /\ b = admin_queue[k] /\ c = all
                BY <1>2, <3>1, Zenon
            <4>2. a \o (b \o Append(c, o)) = Append(a \o (b \o c), o)
                BY AppendThird, Zenon
            <4> QED
                BY <4>1, <4>2, Zenon
        <3> QED
            BY <3>1, <3>2, Zenon DEF all
    <2> QED
        BY <1>5, <2>2, <2>4, Zenon
<1>6. CASE k # s /\ StageOf(k) # s
    <2>1. inbox'[k] = inbox[k] /\ inbox'[StageOf(k)] = inbox[StageOf(k)]
        BY <1>2, <1>3, <1>6
    <2>2. CASE k \in Stages
        <3>1. /\ Line(k) = Logged(k) \o (admin_queue[k] \o inbox[k])
              /\ Line(k)' = Logged(k)' \o (admin_queue'[k] \o inbox'[k])
            BY <2>2 DEF Line, Ahead
        <3> QED
            BY <1>1, <1>6, <2>1, <3>1, Zenon
    <2>3. CASE k \notin Stages
        <3>1. /\ Line(k) = Logged(k) \o (admin_queue[k] \o (inbox[k] \o inbox[StageOf(k)]))
              /\ Line(k)' = Logged(k)' \o (admin_queue'[k] \o (inbox'[k] \o inbox'[StageOf(k)]))
            BY <2>3 DEF Line, Ahead
        <3> QED
            BY <1>1, <1>6, <2>1, <3>1, Zenon
    <2> QED
        BY <2>2, <2>3
<1> QED
    BY <1>2, <1>4, <1>5, <1>6

\* The operation comes last in the lines of the stage, and was in none of them.
LEMMA SendKeeps ==
    ASSUME IInv, NEW o \in Ops, NEW s \in Stages, Send(o, s)
    PROVE  IInv'
<1> USE AdminAssumption, StageOfRank
<1>0. /\ pc[o] = "send" /\ s \in targets[o] \ sent[o]
      /\ sent' = [sent EXCEPT ![o] = @ \cup {s}]
      /\ inbox' = [inbox EXCEPT ![s] = Append(@, o)]
      /\ pc' \in {[pc EXCEPT ![o] = "wait"], [pc EXCEPT ![o] = "send"]}
      /\ UNCHANGED <<lock, kind, targets, admin_ops, results, resolved, verdict, busy, local,
                     admin_queue, answers, got, replies, log, late>>
    BY DEF Send
<1>1. TypeOK'
    <2>1. inbox' \in [Ranks -> Seq(Ops)]
        BY <1>0 DEF IInv, TypeOK, Ranks
    <2>2. /\ pc' \in [Ops -> {"idle", "lock", "send", "wait", "done"}]
          /\ sent' \in [Ops -> SUBSET Stages]
        <3>1. /\ pc \in [Ops -> {"idle", "lock", "send", "wait", "done"}]
              /\ sent \in [Ops -> SUBSET Stages]
            BY DEF IInv, TypeOK
        <3> QED
            BY <1>0, <3>1
    <2> QED
        BY <1>0, <2>1, <2>2 DEF IInv, TypeOK
<1>2. LockInv'
    BY <1>0 DEF IInv, TypeOK, LockInv
<1>3. Called'
    BY <1>0, AnswerParts DEF IInv, TypeOK, Called
<1>4. Truthful'
    BY <1>0 DEF IInv, Truthful, RankTruth, StageTruth, RanWell
<1>5. SuccessIsTruthful'
    BY <1>0 DEF IInv, SuccessIsTruthful, RanWell
<1>6. \A k \in Ranks : Line(k)' = IF StageOf(k) = s THEN Append(Line(k), o) ELSE Line(k)
    BY <1>0, LineEnds DEF IInv
<1>7. LineInv'
    <2>0. ASSUME NEW k \in Ranks
          PROVE  Line(k) \in Seq(Ops) /\ Len(Line(k)) \in Nat
        BY LineType DEF IInv
    <2>1. ASSUME NEW k \in Ranks
          PROVE  \/ /\ StageOf(k) = s
                    /\ Len(Line(k)') = Len(Line(k)) + 1
                    /\ Line(k)'[Len(Line(k)) + 1] = o
                    /\ \A i \in 1..Len(Line(k)) : Line(k)'[i] = Line(k)[i] /\ Line(k)[i] # o
                 \/ StageOf(k) # s /\ Line(k)' = Line(k)
        BY <1>0, <1>6, <2>0 DEF IInv, LineInv
    <2>2. ASSUME NEW k \in Ranks, NEW i \in 1..Len(Line(k)')
          PROVE  StageOf(k) \in sent'[Line(k)'[i]]
        <3>1. \A p \in Ops : sent[p] \subseteq sent'[p]
            BY <1>0 DEF IInv, TypeOK
        <3>2. CASE StageOf(k) = s /\ i = Len(Line(k)) + 1
            BY <3>2, <2>1, <1>0 DEF IInv, TypeOK
        <3>3. CASE i \in 1..Len(Line(k))
            BY <3>1, <3>3, <2>0, <2>1 DEF IInv, LineInv
        <3> QED
            BY <3>2, <3>3, <2>0, <2>1, <2>2
    <2>3. ASSUME NEW k \in Ranks, NEW i \in 1..Len(Line(k)'), Line(k)'[i] = o
          PROVE  i = Len(Line(k)')
        BY <2>3, <2>0, <2>1, <1>0 DEF IInv, LineInv
    <2>4. \A p \in Ops : pc'[p] \in {"send", "wait"} => p = o
        <3>1. \A p \in Ops : p # o => pc'[p] = pc[p]
            BY <1>0 DEF IInv, TypeOK
        <3>2. \A p \in Ops : pc[p] \in {"send", "wait"} => lock[1] = p
            BY DEF IInv, LockInv
        <3>3. lock[1] = o
            BY <1>0, <3>2
        <3> QED
            BY <3>1, <3>2, <3>3
    <2>5. ASSUME NEW p \in Ops, NEW q \in Ops, NEW k \in Ranks, q # o, Precedes(k, p, q)'
          PROVE  Precedes(k, p, q) /\ p # o
        <3>1. PICK i \in 1..Len(Line(k)'), j \in 1..Len(Line(k)') :
                 i < j /\ Line(k)'[i] = p /\ Line(k)'[j] = q
            BY <2>5 DEF Precedes
        <3>2. i \in 1..Len(Line(k)) /\ j \in 1..Len(Line(k))
            BY <3>1, <2>0, <2>1, <2>5
        <3>3. p # o
            BY <3>1, <2>3, <2>1, <2>0
        <3> QED
            BY <3>1, <3>2, <3>3, <2>1 DEF Precedes
    <2>6. ASSUME NEW p \in Ops, NEW q \in Ops, NEW j \in Ranks, NEW k \in Ranks,
                 p # q, Precedes(j, p, q)', Precedes(k, q, p)'
          PROVE  FALSE
        BY <2>5, <2>6 DEF IInv, LineInv
    <2> QED
        BY <2>2, <2>3, <2>4, <2>6 DEF LineInv
<1> QED
    BY <1>1, <1>2, <1>3, <1>4, <1>5, <1>7 DEF IInv

\* A result is kept for a call that waits for it.
LEMMA HandleAdminResultKeeps ==
    ASSUME IInv, NEW s \in Stages, HandleAdminResult(s)
    PROVE  IInv'
<1> DEFINE a == Head(replies[s])
           seen == [results EXCEPT ![a.op][s] = a.res]
<1>0. /\ replies[s] # <<>>
      /\ replies' = [replies EXCEPT ![s] = Tail(@)]
      /\ \/ UNCHANGED <<results, resolved>>
         \/ /\ results' = seen
            /\ \/ /\ resolved' = resolved \cup {a.op}
                  /\ \A t \in targets[a.op] : seen[a.op][t] # "none"
               \/ UNCHANGED resolved
      /\ UNCHANGED <<lock, pc, kind, targets, sent, admin_ops, verdict, ranks, log, late>>
    BY DEF HandleAdminResult
<1>1. /\ a \in Answer /\ a.op \in Ops /\ a.res \in Result /\ a = replies[s][1]
      /\ 1 \in 1..Len(replies[s])
      /\ Tail(replies[s]) \in Seq(Answer)
      /\ \A i \in 1..Len(Tail(replies[s])) :
            i + 1 \in 1..Len(replies[s]) /\ Tail(replies[s])[i] = replies[s][i + 1]
    <2>1. replies[s] \in Seq(Answer)
        BY DEF IInv, TypeOK
    <2> QED
        BY <1>0, <2>1, AnswerParts
<1>2. pc[a.op] # "idle" /\ StageTruth(s, a.op, a.res)
    BY <1>1 DEF IInv, Called, Truthful
<1> HIDE DEF a
<1>3. \A o \in Ops, t \in Stages :
          results'[o][t] = results[o][t] \/ (o = a.op /\ t = s /\ results'[o][t] = a.res)
    BY <1>0, <1>1 DEF IInv, TypeOK
<1>4. TypeOK'
    <2>1. results' \in [Ops -> [Stages -> Result \cup {"none"}]]
        <3>1. results \in [Ops -> [Stages -> Result \cup {"none"}]]
            BY DEF IInv, TypeOK
        <3>2. seen = [results EXCEPT ![a.op] = [results[a.op] EXCEPT ![s] = a.res]]
            BY <1>1, <3>1
        <3>3. [results[a.op] EXCEPT ![s] = a.res] \in [Stages -> Result \cup {"none"}]
            BY <1>1, <3>1
        <3> HIDE DEF seen
        <3> QED
            BY <1>0, <1>1, <3>1, <3>2, <3>3
    <2>2. replies' \in [Stages -> Seq(Answer)] /\ resolved' \in SUBSET Ops
        BY <1>0, <1>1 DEF IInv, TypeOK
    <2> QED
        BY <1>0, <2>1, <2>2 DEF ranks, IInv, TypeOK
<1>5. LockInv'
    BY <1>0 DEF IInv, LockInv
<1>6. LineInv'
    BY <1>0, LineSame, LinesStay DEF ranks, IInv
<1>7. \A t \in Stages : \A i \in 1..Len(replies'[t]) :
          \E j \in 1..Len(replies[t]) : replies'[t][i] = replies[t][j]
    <2> SUFFICES ASSUME NEW t \in Stages, NEW i \in 1..Len(replies'[t])
                 PROVE  \E j \in 1..Len(replies[t]) : replies'[t][i] = replies[t][j]
        OBVIOUS
    <2>1. replies'[t] = IF t = s THEN Tail(replies[s]) ELSE replies[t]
        BY <1>0 DEF IInv, TypeOK
    <2>2. CASE t = s
        BY <1>1, <2>1, <2>2
    <2>3. CASE t # s
        BY <2>1, <2>3
    <2> QED
        BY <2>2, <2>3
<1>8. Called'
    <2>1. \A o \in resolved' : pc[o] # "idle" /\ \A t \in targets[o] : results'[o][t] # "none"
        <3> SUFFICES ASSUME NEW o \in resolved', NEW t \in targets[o]
                     PROVE  results'[o][t] # "none"
            BY <1>0, <1>2 DEF IInv, Called
        <3>1. o \in Ops /\ t \in Stages
            BY <1>4, <1>0 DEF IInv, TypeOK
        <3>2. CASE o \in resolved
            BY <3>1, <3>2, <1>1, <1>3 DEF IInv, Called, Result
        <3>3. CASE o \notin resolved
            BY <3>3, <1>0
        <3> QED
            BY <3>2, <3>3
    <2>2. ASSUME NEW t \in Stages, NEW i \in 1..Len(replies'[t])
          PROVE  pc[replies'[t][i].op] # "idle"
        <3>1. PICK j \in 1..Len(replies[t]) : replies'[t][i] = replies[t][j]
            BY <1>7
        <3> QED
            BY <3>1 DEF IInv, Called
    <2>3. \A o \in Ops, t \in Stages : results'[o][t] # "none" => pc[o] # "idle"
        BY <1>2, <1>3 DEF IInv, Called
    <2> QED
        BY <1>0, <2>1, <2>2, <2>3 DEF ranks, IInv, Called
<1>9. Truthful'
    <2>1. \A t \in Stages : \A o, res : StageTruth(t, o, res)' = StageTruth(t, o, res)
        BY <1>0 DEF StageTruth, RanWell
    <2>2. \A k \in Ranks : \A o, res : RankTruth(k, o, res)' = RankTruth(k, o, res)
        BY <1>0 DEF RankTruth, RanWell
    <2>3. \A t \in Stages : \A i \in 1..Len(replies'[t]) :
              StageTruth(t, replies'[t][i].op, replies'[t][i].res)
        BY <1>7 DEF IInv, Truthful
    <2>4. \A o \in Ops : \A t \in Stages : StageTruth(t, o, results'[o][t])
        BY <1>2, <1>3 DEF IInv, Truthful
    <2> QED
        BY <1>0, <2>1, <2>2, <2>3, <2>4 DEF ranks, IInv, Truthful, Ranks
<1>10. SuccessIsTruthful'
    BY <1>0 DEF IInv, SuccessIsTruthful, RanWell
<1> QED
    BY <1>4, <1>5, <1>6, <1>8, <1>9, <1>10 DEF IInv

-----------------------------------------------------------------------------
\* The ranks.

\* What a rank receives stays in its place, and in that of its followers.
LEMMA ReceiveLines ==
    ASSUME IInv, NEW k \in Ranks, Receive(k)
    PROVE  \A j \in Ranks : Line(j)' = Line(j)
<1> SUFFICES ASSUME NEW j \in Ranks PROVE Line(j)' = Line(j)
    OBVIOUS
<1> DEFINE o == Head(inbox[k])
           mirrors == IF k \in Stages THEN FollowersOf[k] ELSE {}
<1>1. /\ inbox[k] # <<>>
      /\ inbox' = [i \in Ranks |-> IF i = k THEN Tail(inbox[k])
                                   ELSE IF i \in mirrors THEN Append(inbox[i], o)
                                   ELSE inbox[i]]
      /\ \/ /\ admin_queue' = [admin_queue EXCEPT ![k] = Append(@, o)]
            /\ UNCHANGED log
         \/ /\ StageOf(k) \notin Capable
            /\ log' = [log EXCEPT ![k] = Append(@, [op |-> o, res |-> "skip"])]
            /\ UNCHANGED admin_queue
    BY DEF Receive
<1>2. /\ \A i \in Ranks : inbox[i] \in Seq(Ops) /\ admin_queue[i] \in Seq(Ops)
      /\ \A i \in Ranks : Logged(i) \in Seq(Ops) /\ Ahead(i) \in Seq(Ops)
      /\ o \in Ops
    <2>1. \A i \in Ranks : inbox[i] \in Seq(Ops) /\ admin_queue[i] \in Seq(Ops)
        BY DEF IInv, TypeOK
    <2>2. ASSUME NEW i \in Ranks
          PROVE  Logged(i) \in Seq(Ops) /\ Ahead(i) \in Seq(Ops)
        BY LineType DEF IInv
    <2>3. ASSUME NEW q \in Seq(Ops), q # <<>>
          PROVE  Head(q) \in Ops
        BY <2>3
    <2>4. o \in Ops
        BY <1>1, <2>1, <2>3
    <2> QED
        BY <2>1, <2>2, <2>4
<1>3. StageOf(k) \notin Capable => admin_queue[k] = <<>>
    BY DEF IInv, Truthful
<1>4. CASE j # k
    <2>1. Logged(j)' = Logged(j) /\ admin_queue'[j] = admin_queue[j]
        BY <1>1, <1>2, <1>4, LoggedGrows DEF IInv, TypeOK, Logged
    <2>2. Ahead(j)' = Ahead(j)
        <3>1. CASE j \in Stages
            <4>1. inbox'[j] = inbox[j]
                BY <1>1, <1>4, <3>1, AdminAssumption
            <4> QED
                BY <3>1, <4>1 DEF Ahead
        <3>2. CASE j \notin Stages /\ StageOf(j) = k
            <4>1. /\ k \in Stages /\ j \in FollowersOf[k]
                BY <3>2, StageOfRank, AdminAssumption DEF RanksOf
            <4>2. inbox'[j] = Append(inbox[j], Head(inbox[k])) /\ inbox'[k] = Tail(inbox[k])
                BY <1>1, <1>4, <4>1
            <4>3. /\ Ahead(j) = inbox[j] \o inbox[k]
                  /\ Ahead(j)' = Append(inbox[j], Head(inbox[k])) \o Tail(inbox[k])
                BY <3>2, <4>2 DEF Ahead
            <4>4. inbox[j] \in Seq(Ops) /\ inbox[k] \in Seq(Ops) /\ inbox[k] # <<>>
                BY <1>1, <1>2
            <4> QED
                BY <4>3, <4>4, MoveOne, Zenon
        <3>3. CASE j \notin Stages /\ StageOf(j) # k
            <4>1. j \notin mirrors /\ StageOf(j) \in Ranks /\ StageOf(j) \notin mirrors
                BY <3>3, StageOfRank, AdminAssumption DEF Ranks
            <4>2. inbox'[j] = inbox[j] /\ inbox'[StageOf(j)] = inbox[StageOf(j)]
                BY <1>1, <1>4, <3>3, <4>1
            <4> QED
                BY <3>3, <4>2, Zenon DEF Ahead
        <3> QED
            BY <3>1, <3>2, <3>3
    <2> QED
        BY <2>1, <2>2, Zenon DEF Line
<1>5. CASE j = k
    <2> DEFINE rest == IF k \in Stages THEN <<>> ELSE inbox[StageOf(k)]
    <2>1. rest \in Seq(Ops)
        BY <1>2, StageOfRank DEF Ranks
    <2>2. Ahead(k) = inbox[k] \o rest /\ Ahead(k)' = Tail(inbox[k]) \o rest
        <3>1. CASE k \in Stages
            <4>1. Ahead(k) = inbox[k] /\ Ahead(k)' = Tail(inbox[k]) /\ rest = <<>>
                BY <1>1, <3>1 DEF Ahead
            <4>2. inbox[k] \in Seq(Ops) /\ Tail(inbox[k]) \in Seq(Ops)
                BY <1>1, <1>2
            <4> QED
                BY <4>1, <4>2, ConcatEmptySeq
        <3>2. CASE k \notin Stages
            <4>1. StageOf(k) # k /\ StageOf(k) \in Ranks
                BY <3>2, StageOfRank DEF Ranks
            <4>2. inbox'[k] = Tail(inbox[k]) /\ inbox'[StageOf(k)] = inbox[StageOf(k)]
                BY <1>1, <3>2, <4>1
            <4> QED
                BY <3>2, <4>2 DEF Ahead
        <3> QED
            BY <3>1, <3>2
    <2> HIDE DEF rest
    <2>3. CASE admin_queue' = [admin_queue EXCEPT ![k] = Append(@, o)] /\ UNCHANGED log
        <3>1. Logged(k)' = Logged(k) /\ admin_queue'[k] = Append(admin_queue[k], Head(inbox[k]))
            BY <2>3 DEF IInv, TypeOK, Logged
        <3>2. admin_queue[k] \in Seq(Ops) /\ inbox[k] \in Seq(Ops) /\ inbox[k] # <<>>
            BY <1>1, <1>2
        <3>3. Append(admin_queue[k], Head(inbox[k])) \o (Tail(inbox[k]) \o rest)
                 = admin_queue[k] \o (inbox[k] \o rest)
            BY <2>1, <3>2, MoveFirst, Zenon
        <3> QED
            BY <1>5, <2>2, <3>1, <3>3, Zenon DEF Line
    <2>4. CASE /\ StageOf(k) \notin Capable
               /\ log' = [log EXCEPT ![k] = Append(@, [op |-> o, res |-> "skip"])]
               /\ UNCHANGED admin_queue
        <3>1. Logged(k)' = Append(Logged(k), Head(inbox[k])) /\ admin_queue'[k] = admin_queue[k]
            BY <1>2, <2>4, LoggedGrows DEF IInv
        <3>2. Logged(k) \in Seq(Ops) /\ inbox[k] \in Seq(Ops) /\ inbox[k] # <<>>
            BY <1>1, <1>2
        <3>3. Append(Logged(k), Head(inbox[k])) \o (Tail(inbox[k]) \o rest)
                 = Logged(k) \o (inbox[k] \o rest)
            BY <2>1, <3>2, MoveFirst, Zenon
        <3>4. admin_queue[k] = <<>>
            BY <1>3, <2>4
        <3>5. Tail(inbox[k]) \o rest \in Seq(Ops) /\ inbox[k] \o rest \in Seq(Ops)
            BY <2>1, <3>2
        <3>6. /\ admin_queue[k] \o (Tail(inbox[k]) \o rest) = Tail(inbox[k]) \o rest
              /\ admin_queue[k] \o (inbox[k] \o rest) = inbox[k] \o rest
            BY <3>4, <3>5, ConcatEmptySeq
        <3> QED
            BY <1>5, <2>2, <3>1, <3>3, <3>6, Zenon DEF Line
    <2> QED
        BY <1>1, <2>3, <2>4
<1> QED
    BY <1>4, <1>5

\* What is run was the first that waited.
LEMMA RunLines ==
    ASSUME TypeOK, NEW k \in Ranks, NEW res, admin_queue[k] # <<>>,
           admin_queue' = [admin_queue EXCEPT ![k] = Tail(@)],
           log' = [log EXCEPT ![k] = Append(@, [op |-> Head(admin_queue[k]), res |-> res])],
           UNCHANGED inbox
    PROVE  \A j \in Ranks : Line(j)' = Line(j)
<1>1. /\ \A j \in Ranks : Logged(j) \in Seq(Ops) /\ Ahead(j) \in Seq(Ops)
      /\ \A j \in Ranks : admin_queue[j] \in Seq(Ops)
      /\ Head(admin_queue[k]) \in Ops
    <2>1. ASSUME NEW j \in Ranks
          PROVE  Logged(j) \in Seq(Ops) /\ Ahead(j) \in Seq(Ops)
        BY LineType
    <2>2. \A j \in Ranks : admin_queue[j] \in Seq(Ops)
        BY DEF TypeOK
    <2>3. ASSUME NEW q \in Seq(Ops), q # <<>>
          PROVE  Head(q) \in Ops
        BY <2>3
    <2> QED
        BY <2>1, <2>2, <2>3
<1>2. /\ Logged(k)' = Append(Logged(k), Head(admin_queue[k]))
      /\ \A j \in Ranks : j # k => Logged(j)' = Logged(j)
    BY <1>1, LoggedGrows
<1>3. \A j \in Ranks : Ahead(j)' = Ahead(j)
    BY DEF Ahead
<1>4. /\ admin_queue'[k] = Tail(admin_queue[k])
      /\ \A j \in Ranks : j # k => admin_queue'[j] = admin_queue[j]
    BY DEF TypeOK
<1>5. Append(Logged(k), Head(admin_queue[k])) \o (Tail(admin_queue[k]) \o Ahead(k))
         = Logged(k) \o (admin_queue[k] \o Ahead(k))
    BY <1>1, MoveFirst, Zenon
<1> SUFFICES ASSUME NEW j \in Ranks PROVE Line(j)' = Line(j)
    OBVIOUS
<1>6. CASE j = k
    BY <1>2, <1>3, <1>4, <1>5, <1>6, Zenon DEF Line
<1>7. CASE j # k
    BY <1>2, <1>3, <1>4, <1>7, Zenon DEF Line
<1> QED
    BY <1>6, <1>7

\* What a rank is about to take is the operation of a call that was made.
LEMMA InLine ==
    ASSUME IInv, NEW k \in Ranks
    PROVE  /\ inbox[k] # <<>> => Head(inbox[k]) \in Ops /\ pc[Head(inbox[k])] # "idle"
           /\ admin_queue[k] # <<>> =>
                 Head(admin_queue[k]) \in Ops /\ pc[Head(admin_queue[k])] # "idle"
<1>1. /\ Logged(k) \in Seq(Ops) /\ admin_queue[k] \in Seq(Ops) /\ Ahead(k) \in Seq(Ops)
      /\ inbox[k] \in Seq(Ops) /\ inbox[StageOf(k)] \in Seq(Ops)
    BY LineType, StageOfRank DEF IInv, TypeOK, Ranks
<1>2. \A i \in 1..Len(Line(k)) : Line(k)[i] \in Ops /\ pc[Line(k)[i]] # "idle"
    <2>1. \A i \in 1..Len(Line(k)) : Line(k)[i] \in Ops /\ sent[Line(k)[i]] # {}
        BY LineType DEF IInv, LineInv
    <2> QED
        BY <2>1 DEF IInv, LockInv
<1>3. admin_queue[k] # <<>> => \E i \in 1..Len(Line(k)) : Line(k)[i] = Head(admin_queue[k])
    <2> SUFFICES ASSUME admin_queue[k] # <<>>
                 PROVE  \E i \in 1..Len(Line(k)) : Line(k)[i] = Head(admin_queue[k])
        OBVIOUS
    <2>1. Line(k)[Len(Logged(k)) + 1] = Head(admin_queue[k])
          /\ Len(Logged(k)) + 1 \in 1..Len(Line(k))
        BY <1>1 DEF Line
    <2> QED
        BY <2>1
<1>4. inbox[k] # <<>> => \E i \in 1..Len(Ahead(k)) : Ahead(k)[i] = Head(inbox[k])
    <2> SUFFICES ASSUME inbox[k] # <<>>
                 PROVE  1 \in 1..Len(Ahead(k)) /\ Ahead(k)[1] = Head(inbox[k])
        OBVIOUS
    <2>1. CASE k \in Stages
        BY <1>1, <2>1 DEF Ahead
    <2>2. CASE k \notin Stages
        <3> DEFINE a == inbox[k]
                   b == inbox[StageOf(k)]
        <3>1. Ahead(k) = a \o b
            BY <2>2 DEF Ahead
        <3>2. a \in Seq(Ops) /\ b \in Seq(Ops) /\ a # <<>> /\ Head(inbox[k]) = Head(a)
            BY <1>1
        <3> HIDE DEF a, b
        <3>3. 1 \in 1..Len(a \o b) /\ (a \o b)[1] = Head(a)
            BY <3>2
        <3> QED
            BY <3>1, <3>2, <3>3
    <2> QED
        BY <2>1, <2>2
<1>5. \A i \in 1..Len(Ahead(k)) : \E j \in 1..Len(Line(k)) : Line(k)[j] = Ahead(k)[i]
    <2> SUFFICES ASSUME NEW i \in 1..Len(Ahead(k))
                 PROVE  \E j \in 1..Len(Line(k)) : Line(k)[j] = Ahead(k)[i]
        OBVIOUS
    <2> DEFINE n == Len(Logged(k)) + Len(admin_queue[k]) + i
    <2>1. n \in 1..Len(Line(k)) /\ Line(k)[n] = Ahead(k)[i]
        BY <1>1 DEF Line
    <2> QED
        BY <2>1
<1>6. ASSUME inbox[k] # <<>>
      PROVE  Head(inbox[k]) \in Ops /\ pc[Head(inbox[k])] # "idle"
    <2>1. PICK i \in 1..Len(Ahead(k)) : Ahead(k)[i] = Head(inbox[k])
        BY <1>4, <1>6
    <2>2. PICK j \in 1..Len(Line(k)) : Line(k)[j] = Ahead(k)[i]
        BY <1>5
    <2> QED
        BY <1>2, <2>1, <2>2
<1>7. ASSUME admin_queue[k] # <<>>
      PROVE  Head(admin_queue[k]) \in Ops /\ pc[Head(admin_queue[k])] # "idle"
    BY <1>2, <1>3, <1>7
<1> QED
    BY <1>6, <1>7

\* What was said stays true when the ranks take a step.
LEMMA SaidStays ==
    ASSUME IInv, UNCHANGED calls,
           \A k \in Ranks, o \in Ops : RanWell(k, o) => RanWell(k, o)'
    PROVE  /\ \A k \in Ranks, o \in Ops, res \in Result \cup {"none"} :
                 busy[k] = o /\ local[k] = res => pc[o] # "idle" /\ RankTruth(k, o, res)'
           /\ \A f \in Followers, a \in Answer : \A i \in 1..Len(answers[f]) :
                 answers[f][i] = a => pc[a.op] # "idle" /\ RankTruth(f, a.op, a.res)'
           /\ \A f \in Followers, a \in Answer :
                 got[f] = a /\ got[f] # None => pc[a.op] # "idle" /\ RankTruth(f, a.op, a.res)'
           /\ \A s \in Stages, a \in Answer : \A i \in 1..Len(replies[s]) :
                 replies[s][i] = a => pc[a.op] # "idle" /\ StageTruth(s, a.op, a.res)'
           /\ \A s \in Stages, o \in Ops, res \in Result \cup {"none"} :
                 results[o][s] = res => StageTruth(s, o, res)'
<1>1. /\ \A o \in Ops, k \in Ranks, res \in Result \cup {"none"} :
            RankTruth(k, o, res) => RankTruth(k, o, res)'
      /\ \A o \in Ops, s \in Stages, res \in Result \cup {"none"} :
            StageTruth(s, o, res) => StageTruth(s, o, res)'
    BY TruthStays DEF calls
<1>2. \A a \in Answer : a.op \in Ops /\ a.res \in Result \cup {"none"}
    BY AnswerParts
<1>3. Followers \subseteq Ranks /\ None \notin Ops
    BY AdminAssumption DEF Ranks
<1>4. \A k \in Ranks, o \in Ops, res \in Result \cup {"none"} :
         busy[k] = o /\ local[k] = res => pc[o] # "idle" /\ RankTruth(k, o, res)'
    BY <1>1, <1>3 DEF IInv, Called, Truthful
<1>5. \A f \in Followers, a \in Answer : \A i \in 1..Len(answers[f]) :
         answers[f][i] = a => pc[a.op] # "idle" /\ RankTruth(f, a.op, a.res)'
    BY <1>1, <1>2, <1>3 DEF IInv, Called, Truthful
<1>6. \A f \in Followers, a \in Answer :
         got[f] = a /\ got[f] # None => pc[a.op] # "idle" /\ RankTruth(f, a.op, a.res)'
    BY <1>1, <1>2, <1>3 DEF IInv, Called, Truthful
<1>7. \A s \in Stages, a \in Answer : \A i \in 1..Len(replies[s]) :
         replies[s][i] = a => pc[a.op] # "idle" /\ StageTruth(s, a.op, a.res)'
    BY <1>1, <1>2 DEF IInv, Called, Truthful
<1>8. \A s \in Stages, o \in Ops, res \in Result \cup {"none"} :
         results[o][s] = res => StageTruth(s, o, res)'
    BY <1>1 DEF IInv, Truthful
<1> QED
    BY <1>4, <1>5, <1>6, <1>7, <1>8

\* A step of the ranks keeps the invariant when the lines stay as they are,
\* nothing that was run is forgotten, and all that is said after it is true.
LEMMA RanksKeep ==
    ASSUME IInv, UNCHANGED calls, TypeOK',
           \A k \in Ranks : Line(k)' = Line(k),
           \A k \in Ranks, o \in Ops : RanWell(k, o) => RanWell(k, o)',
           \A k \in Ranks : admin_queue'[k] # <<>> => StageOf(k) \in Capable,
           \A k \in Ranks : busy'[k] = None => local'[k] = "none",
           \A k \in Ranks, o \in Ops, res \in Result \cup {"none"} :
              busy'[k] = o /\ local'[k] = res => pc[o] # "idle" /\ RankTruth(k, o, res)',
           \A f \in Followers, a \in Answer : \A i \in 1..Len(answers'[f]) :
              answers'[f][i] = a => pc[a.op] # "idle" /\ RankTruth(f, a.op, a.res)',
           \A f \in Followers, a \in Answer :
              got'[f] = a /\ got'[f] # None => pc[a.op] # "idle" /\ RankTruth(f, a.op, a.res)',
           \A s \in Stages, a \in Answer : \A i \in 1..Len(replies'[s]) :
              replies'[s][i] = a => pc[a.op] # "idle" /\ StageTruth(s, a.op, a.res)'
    PROVE  IInv'
<1>0. UNCHANGED <<pc, kind, targets, sent, lock, results, resolved, verdict>>
    BY DEF calls
<1>1. LockInv'
    BY <1>0 DEF IInv, LockInv
<1>2. LineInv'
    BY <1>0, LinesStay DEF IInv
<1>3. SuccessIsTruthful'
    BY <1>0, SuccessStays DEF IInv
<1>4. /\ \A k \in Ranks : busy'[k] # None =>
            busy'[k] \in Ops /\ local'[k] \in Result \cup {"none"}
      /\ \A f \in Followers : \A i \in 1..Len(answers'[f]) : answers'[f][i] \in Answer
      /\ \A f \in Followers : got'[f] # None => got'[f] \in Answer
      /\ \A s \in Stages : \A i \in 1..Len(replies'[s]) : replies'[s][i] \in Answer
      /\ \A o \in Ops, s \in Stages : results'[o][s] \in Result \cup {"none"}
    BY AnswerParts DEF TypeOK
<1>5. \A k \in Ranks : busy'[k] # None => pc[busy'[k]] # "idle" /\ RankTruth(k, busy[k], local[k])'
    BY <1>4
<1>6. \A f \in Followers : \A i \in 1..Len(answers'[f]) :
         pc[answers'[f][i].op] # "idle" /\ RankTruth(f, answers[f][i].op, answers[f][i].res)'
    BY <1>4
<1>7. \A f \in Followers : got'[f] # None =>
         pc[got'[f].op] # "idle" /\ RankTruth(f, got[f].op, got[f].res)'
    BY <1>4
<1>8. \A s \in Stages : \A i \in 1..Len(replies'[s]) :
         pc[replies'[s][i].op] # "idle" /\ StageTruth(s, replies[s][i].op, replies[s][i].res)'
    BY <1>4
<1>9. \A o \in Ops : \A s \in Stages : StageTruth(s, o, results[o][s])'
    BY <1>0, <1>4, SaidStays
<1>10. Called'
    BY <1>0, <1>5, <1>6, <1>7, <1>8 DEF IInv, Called
<1>11. Truthful'
    BY <1>5, <1>6, <1>7, <1>8, <1>9 DEF Truthful
<1> QED
    BY <1>1, <1>2, <1>3, <1>10, <1>11 DEF IInv

\* The rank skips the operation only where nobody could run it.
LEMMA ReceiveKeeps ==
    ASSUME IInv, NEW k \in Ranks, Receive(k)
    PROVE  IInv'
<1> DEFINE o == Head(inbox[k])
<1>1. /\ busy[k] = None /\ inbox[k] # <<>>
      /\ busy' = [busy EXCEPT ![k] = o]
      /\ \/ /\ StageOf(k) \in Capable
            /\ admin_queue' = [admin_queue EXCEPT ![k] = Append(@, o)]
            /\ UNCHANGED <<local, log>>
         \/ /\ StageOf(k) \notin Capable
            /\ local' = [local EXCEPT ![k] = "skip"]
            /\ log' = [log EXCEPT ![k] = Append(@, [op |-> o, res |-> "skip"])]
            /\ UNCHANGED admin_queue
      /\ UNCHANGED <<calls, answers, got, replies, late>>
    BY DEF Receive
<1>2. o \in Ops /\ pc[o] # "idle" /\ local[k] = "none"
    BY <1>1, InLine DEF IInv, Truthful
<1>3. inbox' \in [Ranks -> Seq(Ops)]
    BY <1>1, <1>2 DEF Receive, IInv, TypeOK
<1> HIDE DEF o
<1>4. TypeOK'
    <2>1. busy' \in [Ranks -> Ops \cup {None}]
        BY <1>1, <1>2 DEF IInv, TypeOK
    <2>2. local' \in [Ranks -> Result \cup {"none"}]
        <3>1. local \in [Ranks -> Result \cup {"none"}] /\ "skip" \in Result
            BY DEF IInv, TypeOK, Result
        <3> QED
            BY <1>1, <3>1
    <2>3. admin_queue' \in [Ranks -> Seq(Ops)]
        <3>1. admin_queue \in [Ranks -> Seq(Ops)]
            BY DEF IInv, TypeOK
        <3>2. admin_queue' = admin_queue \/ admin_queue' = [admin_queue EXCEPT ![k] = Append(@, o)]
            BY <1>1
        <3>3. CASE admin_queue' = [admin_queue EXCEPT ![k] = Append(@, o)]
            BY <1>2, <3>1, <3>3
        <3> QED
            BY <3>1, <3>2, <3>3
    <2>4. log' \in [Ranks -> Seq(Answer)]
        <3> DEFINE a == [op |-> o, res |-> "skip"]
        <3>1. a \in Answer
            BY <1>2 DEF Answer, Result
        <3>2. log' = log \/ log' = [log EXCEPT ![k] = Append(@, a)]
            BY <1>1
        <3>3. log \in [Ranks -> Seq(Answer)]
            BY DEF IInv, TypeOK
        <3> HIDE DEF a
        <3>4. CASE log' = [log EXCEPT ![k] = Append(@, a)]
            BY <3>1, <3>3, <3>4
        <3> QED
            BY <3>2, <3>3, <3>4
    <2> QED
        BY <1>1, <1>3, <2>1, <2>2, <2>3, <2>4 DEF calls, IInv, TypeOK
<1>5. \A j \in Ranks, p \in Ops : RanWell(j, p) => RanWell(j, p)'
    BY <1>1, <1>2, Same, LoggedGrows DEF IInv
<1>6. \A j \in Ranks : Line(j)' = Line(j)
    BY ReceiveLines
<1>7. \A j \in Ranks : admin_queue'[j] # <<>> => StageOf(j) \in Capable
    BY <1>1, <1>2 DEF IInv, TypeOK, Truthful
<1>8. /\ \A j \in Ranks : busy'[j] = None => local'[j] = "none"
      /\ \A j \in Ranks : j # k => busy'[j] = busy[j] /\ local'[j] = local[j]
      /\ busy'[k] = o /\ o # None
      /\ local'[k] = "none" \/ (local'[k] = "skip" /\ StageOf(k) \notin Capable)
    BY <1>1, <1>2, AdminAssumption DEF IInv, TypeOK, Truthful
<1>9. ASSUME NEW j \in Ranks, NEW p \in Ops, NEW res \in Result \cup {"none"},
             busy'[j] = p, local'[j] = res
      PROVE  pc[p] # "idle" /\ RankTruth(j, p, res)'
    <2>1. CASE j = k
        BY <2>1, <1>2, <1>8, <1>9 DEF RankTruth, Skipped
    <2>2. CASE j # k
        BY <2>2, <1>1, <1>5, <1>8, <1>9, SaidStays
    <2> QED
        BY <2>1, <2>2
<1>10. UNCHANGED <<calls, answers, got, replies>>
    BY <1>1
<1>11. /\ \A f \in Followers, a \in Answer : \A i \in 1..Len(answers'[f]) :
             answers'[f][i] = a => pc[a.op] # "idle" /\ RankTruth(f, a.op, a.res)'
       /\ \A f \in Followers, a \in Answer :
             got'[f] = a /\ got'[f] # None => pc[a.op] # "idle" /\ RankTruth(f, a.op, a.res)'
       /\ \A s \in Stages, a \in Answer : \A i \in 1..Len(replies'[s]) :
             replies'[s][i] = a => pc[a.op] # "idle" /\ StageTruth(s, a.op, a.res)'
    BY <1>5, <1>10, SaidStays
<1> QED
    BY <1>4, <1>5, <1>6, <1>7, <1>8, <1>9, <1>10, <1>11, RanksKeep

\* A scheduler runs what is first in its queue, also when nobody waits for it
\* any longer.
LEMMA RunKeeps ==
    ASSUME IInv, NEW k \in Ranks, Run(k)
    PROVE  IInv'
<1>0. PICK o \in Ops : o = Head(admin_queue[k]) /\ pc[o] # "idle" /\ StageOf(k) \in Capable
    BY InLine DEF Run, IInv, Truthful
<1>1. /\ admin_queue[k] # <<>>
      /\ admin_queue' = [admin_queue EXCEPT ![k] = Tail(@)]
      /\ UNCHANGED <<calls, inbox, busy, answers, got, replies, late>>
    BY DEF Run
<1>2. PICK res \in IF kind[o] = "unknown" THEN {"skip"} ELSE Outcomes :
        /\ log' = [log EXCEPT ![k] = Append(@, [op |-> o, res |-> res])]
        /\ local' = IF busy[k] = o /\ local[k] = "none"
                    THEN [local EXCEPT ![k] = res] ELSE local
    BY <1>0 DEF Run
<1>3. pc[o] # "idle" /\ StageOf(k) \in Capable
    BY <1>0
<1>4. /\ res \in Result
      /\ res = "ok" => kind[o] # "unknown"
      /\ res \in Skipped => kind[o] = "unknown"
    BY AdminAssumption DEF Result, Skipped
<1>5. /\ \A j \in Ranks, p \in Ops : RanWell(j, p) => RanWell(j, p)'
      /\ res = "ok" => RanWell(k, o)'
    BY <1>2, <1>3, LoggedGrows DEF IInv
<1>6. \A j \in Ranks : Line(j)' = Line(j)
    BY <1>0, <1>1, <1>2, RunLines DEF IInv
<1>7. TypeOK'
    <2>1. local' \in [Ranks -> Result \cup {"none"}]
        <3>1. local \in [Ranks -> Result \cup {"none"}]
            BY DEF IInv, TypeOK
        <3> QED
            BY <1>2, <1>4, <3>1
    <2>2. admin_queue' \in [Ranks -> Seq(Ops)]
        <3>1. admin_queue \in [Ranks -> Seq(Ops)]
            BY DEF IInv, TypeOK
        <3> QED
            BY <1>1, <3>1
    <2>3. log' \in [Ranks -> Seq(Answer)]
        <3> DEFINE a == [op |-> o, res |-> res]
        <3>1. a \in Answer
            BY <1>3, <1>4 DEF Answer
        <3>2. log' = [log EXCEPT ![k] = Append(@, a)]
            BY <1>2
        <3>3. log \in [Ranks -> Seq(Answer)]
            BY DEF IInv, TypeOK
        <3> HIDE DEF a
        <3> QED
            BY <3>1, <3>2, <3>3
    <2> QED
        BY <1>1, <2>1, <2>2, <2>3 DEF calls, IInv, TypeOK
<1>8. \A j \in Ranks : admin_queue'[j] # <<>> => StageOf(j) \in Capable
    BY <1>1, <1>3 DEF IInv, TypeOK, Truthful
<1>9. /\ \A j \in Ranks : busy'[j] = busy[j]
      /\ \A j \in Ranks : j # k => local'[j] = local[j]
      /\ local'[k] = local[k] \/ (busy[k] = o /\ local'[k] = res)
    BY <1>1, <1>2, <1>3 DEF IInv, TypeOK
<1>10. \A j \in Ranks : busy'[j] = None => local'[j] = "none"
    BY <1>3, <1>9, AdminAssumption DEF IInv, Truthful
<1>11. ASSUME NEW j \in Ranks, NEW p \in Ops, NEW r \in Result \cup {"none"},
              busy'[j] = p, local'[j] = r
       PROVE  pc[p] # "idle" /\ RankTruth(j, p, r)'
    <2>1. CASE j = k /\ busy[k] = o /\ local'[k] = res
        <3>1. p = o /\ r = res /\ kind'[o] = kind[o]
            BY <2>1, <1>1, <1>9, <1>11 DEF calls
        <3> QED
            BY <2>1, <3>1, <1>3, <1>4, <1>5 DEF RankTruth
    <2>2. CASE local'[j] = local[j]
        BY <2>2, <1>1, <1>5, <1>9, <1>11, SaidStays
    <2> QED
        BY <2>1, <2>2, <1>9
<1>12. UNCHANGED <<calls, answers, got, replies>>
    BY <1>1
<1>13. /\ \A f \in Followers, a \in Answer : \A i \in 1..Len(answers'[f]) :
             answers'[f][i] = a => pc[a.op] # "idle" /\ RankTruth(f, a.op, a.res)'
       /\ \A f \in Followers, a \in Answer :
             got'[f] = a /\ got'[f] # None => pc[a.op] # "idle" /\ RankTruth(f, a.op, a.res)'
       /\ \A s \in Stages, a \in Answer : \A i \in 1..Len(replies'[s]) :
             replies'[s][i] = a => pc[a.op] # "idle" /\ StageTruth(s, a.op, a.res)'
    BY <1>5, <1>12, SaidStays
<1> QED
    BY <1>5, <1>6, <1>7, <1>8, <1>10, <1>11, <1>12, <1>13, RanksKeep

\* Giving up claims nothing.
LEMMA RunTimesOutKeeps ==
    ASSUME IInv, NEW k \in Ranks, RunTimesOut(k)
    PROVE  IInv'
<1>1. /\ busy[k] # None
      /\ local' = [local EXCEPT ![k] = "fail"]
      /\ late' = late \cup {<<StageOf(k), busy[k]>>}
      /\ UNCHANGED <<calls, inbox, busy, admin_queue, answers, got, replies, log>>
    BY DEF RunTimesOut
<1>2. TypeOK'
    <2>1. local' \in [Ranks -> Result \cup {"none"}]
        BY <1>1 DEF IInv, TypeOK, Result
    <2>2. late' \in SUBSET (Stages \X Ops)
        BY <1>1, StageOfRank DEF IInv, TypeOK
    <2> QED
        BY <1>1, <2>1, <2>2 DEF calls, IInv, TypeOK
<1>3. \A j \in Ranks : Line(j)' = Line(j)
    BY <1>1, LineSame
<1>4. \A j \in Ranks, p \in Ops : RanWell(j, p) => RanWell(j, p)'
    BY <1>1, Same
<1>5. /\ \A j \in Ranks : j # k => local'[j] = local[j]
      /\ local'[k] = "fail"
    BY <1>1 DEF IInv, TypeOK
<1>6. ASSUME NEW j \in Ranks, NEW p \in Ops, NEW r \in Result \cup {"none"},
             busy'[j] = p, local'[j] = r
      PROVE  pc[p] # "idle" /\ RankTruth(j, p, r)'
    <2>1. CASE j = k
        <3>1. RankTruth(j, p, r)'
            BY <2>1, <1>5, <1>6 DEF RankTruth, Skipped
        <3>2. pc[p] # "idle"
            BY <2>1, <1>1, <1>6 DEF IInv, Called
        <3> QED
            BY <3>1, <3>2
    <2>2. CASE j # k
        BY <2>2, <1>1, <1>4, <1>5, <1>6, SaidStays
    <2> QED
        BY <2>1, <2>2
<1>7. UNCHANGED <<calls, answers, got, replies>>
    BY <1>1
<1>8. /\ \A f \in Followers, a \in Answer : \A i \in 1..Len(answers'[f]) :
             answers'[f][i] = a => pc[a.op] # "idle" /\ RankTruth(f, a.op, a.res)'
      /\ \A f \in Followers, a \in Answer :
             got'[f] = a /\ got'[f] # None => pc[a.op] # "idle" /\ RankTruth(f, a.op, a.res)'
      /\ \A s \in Stages, a \in Answer : \A i \in 1..Len(replies'[s]) :
             replies'[s][i] = a => pc[a.op] # "idle" /\ StageTruth(s, a.op, a.res)'
    BY <1>4, <1>7, SaidStays
<1>9. /\ \A j \in Ranks : admin_queue'[j] # <<>> => StageOf(j) \in Capable
      /\ \A j \in Ranks : busy'[j] = None => local'[j] = "none"
    BY <1>1, <1>5 DEF IInv, Truthful
<1> QED
    BY <1>2, <1>3, <1>4, <1>6, <1>7, <1>8, <1>9, RanksKeep

\* A follower passes on what it found.
LEMMA FollowerAnswersKeeps ==
    ASSUME IInv, NEW g \in Followers, FollowerAnswers(g)
    PROVE  IInv'
<1> DEFINE b == [op |-> busy[g], res |-> local[g]]
<1>1. /\ busy[g] # None /\ local[g] # "none"
      /\ answers' = [answers EXCEPT ![g] = Append(@, b)]
      /\ busy' = [busy EXCEPT ![g] = None]
      /\ local' = [local EXCEPT ![g] = "none"]
      /\ UNCHANGED <<calls, inbox, admin_queue, got, replies, log, late>>
    BY DEF FollowerAnswers
<1>2. g \in Ranks /\ b \in Answer /\ b.op = busy[g] /\ b.res = local[g]
      /\ busy[g] \in Ops /\ local[g] \in Result
    BY <1>1 DEF IInv, TypeOK, Ranks, Answer
<1> HIDE DEF b
<1>3. TypeOK'
    <2>1. answers' \in [Followers -> Seq(Answer)]
        <3>1. answers \in [Followers -> Seq(Answer)]
            BY DEF IInv, TypeOK
        <3> QED
            BY <1>1, <1>2, <3>1
    <2>2. busy' \in [Ranks -> Ops \cup {None}] /\ local' \in [Ranks -> Result \cup {"none"}]
        BY <1>1 DEF IInv, TypeOK
    <2> QED
        BY <1>1, <2>1, <2>2 DEF calls, IInv, TypeOK
<1>4. \A j \in Ranks : Line(j)' = Line(j)
    BY <1>1, LineSame
<1>5. \A j \in Ranks, p \in Ops : RanWell(j, p) => RanWell(j, p)'
    BY <1>1, Same
<1>6. /\ \A j \in Ranks : j # g => busy'[j] = busy[j] /\ local'[j] = local[j]
      /\ busy'[g] = None /\ local'[g] = "none"
    BY <1>1, <1>2 DEF IInv, TypeOK
<1>7. ASSUME NEW j \in Ranks, NEW p \in Ops, NEW r \in Result \cup {"none"},
             busy'[j] = p, local'[j] = r
      PROVE  pc[p] # "idle" /\ RankTruth(j, p, r)'
    <2>1. j # g
        BY <1>6, <1>7, AdminAssumption
    <2> QED
        BY <2>1, <1>1, <1>5, <1>6, <1>7, SaidStays
<1>8. ASSUME NEW f \in Followers, NEW a \in Answer, NEW i \in 1..Len(answers'[f]),
             answers'[f][i] = a
      PROVE  pc[a.op] # "idle" /\ RankTruth(f, a.op, a.res)'
    <2>0. answers[f] \in Seq(Answer) /\ answers \in [Followers -> Seq(Answer)]
        BY DEF IInv, TypeOK
    <2>1. CASE f = g /\ i = Len(answers[g]) + 1
        <3>1. a = b
            BY <2>0, <2>1, <1>1, <1>2, <1>8
        <3> QED
            BY <2>1, <3>1, <1>1, <1>2, <1>5, SaidStays
    <2>2. CASE ~(f = g /\ i = Len(answers[g]) + 1)
        <3>1. i \in 1..Len(answers[f]) /\ answers[f][i] = a
            <4>1. CASE f = g
                <5>1. answers'[g] = Append(answers[g], b) /\ answers[g] \in Seq(Answer)
                    BY <2>0, <1>1, <4>1
                <5>2. ASSUME NEW q \in Seq(Answer), NEW j \in 1..Len(Append(q, b)),
                             j # Len(q) + 1
                      PROVE  j \in 1..Len(q) /\ Append(q, b)[j] = q[j]
                    BY <5>2, <1>2
                <5>3. i \in 1..Len(Append(answers[g], b)) /\ i # Len(answers[g]) + 1
                    BY <5>1, <4>1, <2>2, <1>8
                <5> QED
                    BY <5>1, <5>2, <5>3, <4>1, <1>8
            <4>2. CASE f # g
                BY <4>2, <2>0, <1>1, <1>8
            <4> QED
                BY <4>1, <4>2
        <3> QED
            BY <3>1, <1>1, <1>5, SaidStays
    <2> QED
        BY <2>1, <2>2
<1>9. /\ \A f \in Followers, a \in Answer :
             got'[f] = a /\ got'[f] # None => pc[a.op] # "idle" /\ RankTruth(f, a.op, a.res)'
      /\ \A s \in Stages, a \in Answer : \A i \in 1..Len(replies'[s]) :
             replies'[s][i] = a => pc[a.op] # "idle" /\ StageTruth(s, a.op, a.res)'
    BY <1>1, <1>5, SaidStays
<1>10. /\ \A j \in Ranks : admin_queue'[j] # <<>> => StageOf(j) \in Capable
       /\ \A j \in Ranks : busy'[j] = None => local'[j] = "none"
       /\ UNCHANGED calls
    BY <1>1, <1>6 DEF IInv, Truthful
<1> QED
    BY <1>3, <1>4, <1>5, <1>7, <1>8, <1>9, <1>10, RanksKeep

\* The leader takes the oldest answer of a follower, of whatever operation.
LEMMA CollectKeeps ==
    ASSUME IInv, NEW s \in Stages, NEW g \in Followers, Collect(s, g)
    PROVE  IInv'
<1>1. /\ answers[g] # <<>>
      /\ got' = [got EXCEPT ![g] = Head(answers[g])]
      /\ answers' = [answers EXCEPT ![g] = Tail(@)]
      /\ UNCHANGED <<calls, inbox, busy, local, admin_queue, replies, log, late>>
    BY DEF Collect
<1>2. /\ answers \in [Followers -> Seq(Answer)] /\ answers[g] \in Seq(Answer)
      /\ got \in [Followers -> Answer \cup {None}]
    BY DEF IInv, TypeOK
<1>3. /\ 1 \in 1..Len(answers[g]) /\ Head(answers[g]) = answers[g][1]
      /\ Head(answers[g]) \in Answer
      /\ Tail(answers[g]) \in Seq(Answer) /\ Len(Tail(answers[g])) = Len(answers[g]) - 1
      /\ \A i \in 1..(Len(answers[g]) - 1) : Tail(answers[g])[i] = answers[g][i + 1]
    BY <1>1, <1>2
<1>4. TypeOK'
    <2>1. answers' \in [Followers -> Seq(Answer)]
        BY <1>1, <1>2, <1>3
    <2>2. got' \in [Followers -> Answer \cup {None}]
        BY <1>1, <1>2, <1>3
    <2> QED
        BY <1>1, <2>1, <2>2 DEF calls, IInv, TypeOK
<1>5. \A j \in Ranks : Line(j)' = Line(j)
    BY <1>1, LineSame
<1>6. \A j \in Ranks, p \in Ops : RanWell(j, p) => RanWell(j, p)'
    BY <1>1, Same
<1>7. ASSUME NEW f \in Followers, NEW a \in Answer, NEW i \in 1..Len(answers'[f]),
             answers'[f][i] = a
      PROVE  pc[a.op] # "idle" /\ RankTruth(f, a.op, a.res)'
    <2>1. \E m \in 1..Len(answers[f]) : answers[f][m] = a
        <3>1. CASE f = g
            <4>1. answers'[g] = Tail(answers[g]) /\ Len(answers[g]) \in Nat
                BY <1>1, <1>2
            <4>2. i \in 1..(Len(answers[g]) - 1) /\ Tail(answers[g])[i] = a
                BY <3>1, <4>1, <1>3, <1>7
            <4>3. i + 1 \in 1..Len(answers[g]) /\ answers[g][i + 1] = a
                BY <4>1, <4>2, <1>3
            <4> QED
                BY <3>1, <4>3
        <3>2. CASE f # g
            BY <3>2, <1>1, <1>2, <1>7
        <3> QED
            BY <3>1, <3>2
    <2> QED
        BY <2>1, <1>1, <1>6, SaidStays
<1>8. ASSUME NEW f \in Followers, NEW a \in Answer, got'[f] = a, got'[f] # None
      PROVE  pc[a.op] # "idle" /\ RankTruth(f, a.op, a.res)'
    <2>1. CASE f = g
        <3>1. answers[g][1] = a
            BY <2>1, <1>1, <1>2, <1>3, <1>8
        <3> QED
            BY <2>1, <3>1, <1>1, <1>3, <1>6, SaidStays
    <2>2. CASE f # g
        BY <2>2, <1>1, <1>2, <1>6, <1>8, SaidStays
    <2> QED
        BY <2>1, <2>2
<1>9. /\ \A j \in Ranks, p \in Ops, r \in Result \cup {"none"} :
            busy'[j] = p /\ local'[j] = r => pc[p] # "idle" /\ RankTruth(j, p, r)'
      /\ \A t \in Stages, a \in Answer : \A i \in 1..Len(replies'[t]) :
            replies'[t][i] = a => pc[a.op] # "idle" /\ StageTruth(t, a.op, a.res)'
    BY <1>1, <1>6, SaidStays
<1>10. /\ \A j \in Ranks : admin_queue'[j] # <<>> => StageOf(j) \in Capable
       /\ \A j \in Ranks : busy'[j] = None => local'[j] = "none"
       /\ UNCHANGED calls
    BY <1>1 DEF IInv, Truthful
<1> QED
    BY <1>4, <1>5, <1>6, <1>7, <1>8, <1>9, <1>10, RanksKeep

\* A stage that answers truthfully.
LEMMA ReplyKeeps ==
    ASSUME IInv, NEW s \in Stages, NEW o \in Ops, NEW res \in Result,
           busy[s] = o, StageTruth(s, o, res), Reply(s, res),
           late' \in SUBSET (Stages \X Ops)
    PROVE  IInv'
<1> DEFINE b == [op |-> o, res |-> res]
<1>1. /\ replies' = [replies EXCEPT ![s] = Append(@, b)]
      /\ busy' = [busy EXCEPT ![s] = None]
      /\ local' = [local EXCEPT ![s] = "none"]
      /\ got' = [f \in Followers |-> IF f \in FollowersOf[s] THEN None ELSE got[f]]
      /\ UNCHANGED <<calls, inbox, admin_queue, answers, log>>
    BY DEF Reply
<1>2. s \in Ranks /\ b \in Answer /\ b.op = o /\ b.res = res
    BY DEF Ranks, Answer
<1> HIDE DEF b
<1>3. TypeOK'
    <2>1. replies' \in [Stages -> Seq(Answer)]
        <3>1. replies \in [Stages -> Seq(Answer)]
            BY DEF IInv, TypeOK
        <3> QED
            BY <1>1, <1>2, <3>1
    <2>2. busy' \in [Ranks -> Ops \cup {None}] /\ local' \in [Ranks -> Result \cup {"none"}]
        BY <1>1 DEF IInv, TypeOK
    <2>3. got' \in [Followers -> Answer \cup {None}]
        BY <1>1 DEF IInv, TypeOK
    <2> QED
        BY <1>1, <2>1, <2>2, <2>3 DEF calls, IInv, TypeOK
<1>4. \A j \in Ranks : Line(j)' = Line(j)
    BY <1>1, LineSame
<1>5. \A j \in Ranks, p \in Ops : RanWell(j, p) => RanWell(j, p)'
    BY <1>1, Same
<1>6. /\ \A j \in Ranks : j # s => busy'[j] = busy[j] /\ local'[j] = local[j]
      /\ busy'[s] = None /\ local'[s] = "none"
    BY <1>1, <1>2 DEF IInv, TypeOK
<1>7. ASSUME NEW j \in Ranks, NEW p \in Ops, NEW r \in Result \cup {"none"},
             busy'[j] = p, local'[j] = r
      PROVE  pc[p] # "idle" /\ RankTruth(j, p, r)'
    <2>1. j # s
        BY <1>6, <1>7, AdminAssumption
    <2> QED
        BY <2>1, <1>1, <1>5, <1>6, <1>7, SaidStays
<1>8. ASSUME NEW t \in Stages, NEW a \in Answer, NEW i \in 1..Len(replies'[t]),
             replies'[t][i] = a
      PROVE  pc[a.op] # "idle" /\ StageTruth(t, a.op, a.res)'
    <2>0. replies[t] \in Seq(Answer) /\ replies \in [Stages -> Seq(Answer)]
        BY DEF IInv, TypeOK
    <2>1. CASE t = s /\ i = Len(replies[s]) + 1
        <3>1. a = b
            BY <2>0, <2>1, <1>1, <1>2, <1>8
        <3>2. pc[o] # "idle"
            BY <1>2, AdminAssumption DEF IInv, Called
        <3>3. StageTruth(s, o, res)'
            BY <1>1, <1>5, TruthStays DEF calls
        <3> QED
            BY <2>1, <3>1, <3>2, <3>3, <1>2
    <2>2. CASE ~(t = s /\ i = Len(replies[s]) + 1)
        <3>1. i \in 1..Len(replies[t]) /\ replies[t][i] = a
            <4>1. CASE t = s
                <5>1. replies'[s] = Append(replies[s], b) /\ replies[s] \in Seq(Answer)
                    BY <2>0, <1>1, <4>1
                <5> QED
                    BY <5>1, <4>1, <2>2, <1>2, <1>8
            <4>2. CASE t # s
                BY <4>2, <2>0, <1>1, <1>8
            <4> QED
                BY <4>1, <4>2
        <3> QED
            BY <3>1, <1>1, <1>5, SaidStays
    <2> QED
        BY <2>1, <2>2
<1>9. /\ \A f \in Followers, a \in Answer : \A i \in 1..Len(answers'[f]) :
            answers'[f][i] = a => pc[a.op] # "idle" /\ RankTruth(f, a.op, a.res)'
      /\ \A f \in Followers, a \in Answer :
            got'[f] = a /\ got'[f] # None => pc[a.op] # "idle" /\ RankTruth(f, a.op, a.res)'
    BY <1>1, <1>5, SaidStays
<1>10. /\ \A j \in Ranks : admin_queue'[j] # <<>> => StageOf(j) \in Capable
       /\ \A j \in Ranks : busy'[j] = None => local'[j] = "none"
       /\ UNCHANGED calls
    BY <1>1, <1>6 DEF IInv, Truthful
<1> QED
    BY <1>3, <1>4, <1>5, <1>7, <1>8, <1>9, <1>10, RanksKeep

\* What the leader found is true of the leader, and is a result of its stage
\* when it is not a success.
LEMMA LeaderTruth ==
    ASSUME IInv, NEW s \in Stages, busy[s] # None, local[s] # "none"
    PROVE  /\ s \in Ranks /\ busy[s] \in Ops /\ local[s] \in Result
           /\ RankTruth(s, busy[s], local[s]) /\ StageOf(s) = s
           /\ Failed(local[s]) \in Result
           /\ StageTruth(s, busy[s], Failed(local[s]))
<1>1. /\ s \in Ranks /\ busy[s] \in Ops /\ local[s] \in Result
      /\ RankTruth(s, busy[s], local[s]) /\ StageOf(s) = s
    BY StageOfRank DEF IInv, TypeOK, Truthful, Ranks
<1>2. Failed(local[s]) \in Result
    BY DEF Failed, Result
<1>3. StageTruth(s, busy[s], Failed(local[s]))
    BY <1>1 DEF Failed, RankTruth, StageTruth, Skipped
<1> QED
    BY <1>1, <1>2, <1>3

\* The followers' answers are of this operation, or the stage does not report
\* a success.
LEMMA StageAnswersKeeps ==
    ASSUME IInv, NEW s \in Stages, StageAnswers(s)
    PROVE  IInv'
<1>1. /\ busy[s] # None /\ local[s] # "none"
      /\ \A f \in FollowersOf[s] : got[f] # None
      /\ Reply(s, StageResult(s))
      /\ UNCHANGED late
    BY DEF StageAnswers
<1>2. /\ s \in Ranks /\ busy[s] \in Ops /\ local[s] \in Result
      /\ RankTruth(s, busy[s], local[s]) /\ StageOf(s) = s
      /\ Failed(local[s]) \in Result
      /\ StageTruth(s, busy[s], Failed(local[s]))
    BY <1>1, LeaderTruth
<1>3. StageResult(s) \in Result /\ StageTruth(s, busy[s], StageResult(s))
    <2>1. CASE /\ local[s] \in Successful
               /\ \A f \in FollowersOf[s] :
                     SameOp(got[f], busy[s]) /\ got[f].res \in Successful
        <3>1. StageResult(s) = local[s]
            BY <2>1 DEF StageResult
        <3>2. ASSUME NEW f \in FollowersOf[s], local[s] = "ok"
              PROVE  RanWell(f, busy[s])
            <4>1. /\ f \in Followers /\ StageOf(f) = s
                  /\ got[f].op = busy[s] /\ got[f].res \in {"ok", "skip"}
                BY <2>1, StageOfRank DEF SameOp, Successful
            <4>2. RankTruth(f, busy[s], got[f].res)
                BY <1>1, <4>1 DEF IInv, Truthful
            <4> QED
                BY <1>2, <3>2, <4>1, <4>2 DEF RankTruth, Skipped
        <3>3. local[s] = "ok" => \A k \in RanksOf(s) : RanWell(k, busy[s])
            BY <1>2, <3>2 DEF RanksOf, RankTruth
        <3> QED
            BY <1>2, <3>1, <3>3 DEF RankTruth, StageTruth
    <2>2. CASE StageResult(s) = Failed(local[s])
        BY <1>2, <2>2
    <2> QED
        BY <2>1, <2>2 DEF StageResult
<1>4. late' \in SUBSET (Stages \X Ops)
    BY <1>1 DEF IInv, TypeOK
<1> QED
    BY <1>1, <1>2, <1>3, <1>4, ReplyKeeps

\* A stage that did not hear of all its ranks does not report a success.
LEMMA CollectTimesOutKeeps ==
    ASSUME IInv, NEW s \in Stages, CollectTimesOut(s)
    PROVE  IInv'
<1>1. /\ busy[s] # None /\ local[s] # "none"
      /\ Reply(s, Failed(local[s]))
      /\ late' = late \cup {<<s, busy[s]>>}
    BY DEF CollectTimesOut
<1>2. /\ busy[s] \in Ops /\ Failed(local[s]) \in Result
      /\ StageTruth(s, busy[s], Failed(local[s]))
    BY <1>1, LeaderTruth
<1>3. late' \in SUBSET (Stages \X Ops)
    BY <1>1, <1>2 DEF IInv, TypeOK
<1> QED
    BY <1>1, <1>2, <1>3, ReplyKeeps

-----------------------------------------------------------------------------
\* The theorems.

\* Every step keeps the invariant.
LEMMA StepIInv == IInv /\ [Next]_vars => IInv'
<1> SUFFICES ASSUME IInv, [Next]_vars PROVE IInv'
    OBVIOUS
<1>1. CASE UNCHANGED vars
    <2>0. UNCHANGED <<lock, pc, kind, targets, sent, admin_ops, results, resolved, verdict,
                      inbox, busy, local, admin_queue, answers, got, replies, log, late>>
        BY <1>1 DEF vars, calls, ranks
    <2>1. TypeOK' /\ LockInv'
        BY <2>0 DEF IInv, TypeOK, LockInv
    <2>2. Called' /\ Truthful'
        BY <2>0, StagesStay DEF ranks, IInv, Called
    <2>3. LineInv'
        BY <2>0, LineSame, LinesStay DEF IInv
    <2>4. SuccessIsTruthful'
        BY <2>0, Same, SuccessStays DEF IInv
    <2> QED
        BY <2>1, <2>2, <2>3, <2>4 DEF IInv
<1>2. CASE Next
    <2>1. ASSUME NEW o \in Ops, CallStep(o)
          PROVE  IInv'
        <3>1. CASE Reject(o)
            BY <3>1, RejectKeeps
        <3>2. CASE Call(o)
            BY <3>2, CallKeeps
        <3>3. CASE Acquire(o)
            BY <3>3, AcquireKeeps
        <3>4. CASE Return(o)
            BY <3>4, ReturnKeeps
        <3>5. CASE Raise(o)
            BY <3>5, RaiseKeeps
        <3>6. CASE \E s \in Stages : Send(o, s)
            BY <3>6, SendKeeps
        <3> QED
            BY <2>1, <3>1, <3>2, <3>3, <3>4, <3>5, <3>6 DEF CallStep
    <2>2. ASSUME NEW k \in Ranks, RankStep(k)
          PROVE  IInv'
        BY <2>2, ReceiveKeeps, RunKeeps, RunTimesOutKeeps DEF RankStep
    <2>3. ASSUME NEW s \in Stages, StageStep(s)
          PROVE  IInv'
        BY <2>3, HandleAdminResultKeeps, StageAnswersKeeps, CollectTimesOutKeeps, CollectKeeps
           DEF StageStep
    <2>4. ASSUME NEW f \in Followers, FollowerAnswers(f)
          PROVE  IInv'
        BY <2>4, FollowerAnswersKeeps
    <2> QED
        BY <1>2, <2>1, <2>2, <2>3, <2>4 DEF Next
<1> QED
    BY <1>1, <1>2

\* The lock, the lines of the ranks and the truth of the results on their way
\* hold together in every reachable state.
THEOREM Inductive == Spec => []IInv
<1>1. Init => IInv
    BY InitIInv
<1>2. IInv /\ [Next]_vars => IInv'
    BY StepIInv
<1> QED
    BY <1>1, <1>2, PTL DEF Spec

\* Every variable of AdminControl keeps its type.
THEOREM TypeCorrect == Spec => []TypeOK
<1>1. IInv => TypeOK
    BY DEF IInv
<1> QED
    BY <1>1, Inductive, PTL

\* What Coordinator.admin() reports as a success was run well by every capable
\* rank of every target, however the three timeouts, late results and
\* cancelled calls fall.
THEOREM SuccessTruthful == Spec => []SuccessIsTruthful
<1>1. IInv => SuccessIsTruthful
    BY DEF IInv
<1> QED
    BY <1>1, Inductive, PTL

\* All ranks of all stages run the operations in one order, because only the
\* holder of _admin_lock sends.
THEOREM OrderAgreed == Spec => []RanksAgreeOnOrder
<1>1. IInv => RanksAgreeOnOrder
    <2>1. ASSUME IInv, NEW k \in Ranks, NEW o \in Ops, NEW p \in Ops, RunBefore(k, o, p)
          PROVE  Precedes(k, o, p)
        <3>1. PICK i, j \in 1..Len(log[k]) : i < j /\ log[k][i].op = o /\ log[k][j].op = p
            BY <2>1 DEF RunBefore
        <3>2. \A m \in 1..Len(log[k]) : m \in 1..Len(Line(k)) /\ Line(k)[m] = log[k][m].op
            BY <2>1, LineType DEF IInv
        <3> QED
            BY <3>1, <3>2 DEF Precedes
    <2> QED
        BY <2>1 DEF IInv, LineInv, RanksAgreeOnOrder
<1> QED
    BY <1>1, Inductive, PTL

=============================================================================
