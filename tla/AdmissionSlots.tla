--------------------------- MODULE AdmissionSlots ---------------------------
(***************************************************************************)
(* One in-flight bound over several router processes:                      *)
(* sglang_omni_router/python/admission_shm.py, and the restart of a data   *)
(* plane (DP) in supervisor.py.                                            *)
(*                                                                         *)
(* Every DP counts its requests in a slot of its own in shared memory and  *)
(* adds up the slots of all, one after another, before it admits one more. *)
(* A slot is guarded by a sequence number that is odd while it is written: *)
(* a read takes effect at an instant when the slot is even, or raises      *)
(* after _READ_SPIN_LIMIT attempts at a slot that stays odd.  A DP that    *)
(* dies in a write leaves its slot odd until the supervisor has reaped it. *)
(*                                                                         *)
(* Processes run in parallel; an action has at most one access to the      *)
(* shared memory.  The counters for /health (rejected, peak) and the       *)
(* retired slot that keeps them over a restart are left out.               *)
(***************************************************************************)
EXTENDS Naturals, FiniteSets

CONSTANTS
    N,             \* router_processes
    MaxInflight,   \* the bound
    MaxCrashes     \* bound: deaths of DPs

ASSUME AdmissionAssumption ==
    /\ N \in Nat \ {0}
    /\ MaxInflight \in Nat /\ MaxInflight >= N   \* validate_multiprocess_settings
    /\ MaxCrashes \in Nat

DPs == 1..N

VARIABLES
    \* the slots
    odd, inflight, generation,
    \* the DPs
    pc,         \* where a DP is; "down": dead and not reaped
    next,       \* the slot it reads next, if it is adding up
    total,      \* what _total_inflight has added up
    mine,       \* _inflight
    age,        \* the generation it was spawned with
    \* the supervisor: the DP whose slot it reclaims, or 0
    dying,
    crashes

slots == <<odd, inflight, generation>>
vars == <<slots, pc, next, total, mine, age, dying, crashes>>

TypeOK ==
    /\ odd \in [DPs -> BOOLEAN]
    /\ inflight \in [DPs -> Nat]
    /\ generation \in [DPs -> Nat]
    /\ pc \in [DPs -> {"idle", "sum", "write", "odd", "down"}]
    /\ next \in [DPs -> DPs]
    /\ total \in [DPs -> Nat]
    /\ mine \in [DPs -> Nat]
    /\ age \in [DPs -> Nat]
    /\ dying \in 0..N
    /\ crashes \in 0..MaxCrashes

\* A zeroed file; every DP is about to claim its slot.
Init ==
    /\ odd = [d \in DPs |-> FALSE]
    /\ inflight = [d \in DPs |-> 0]
    /\ generation = [d \in DPs |-> 0]
    /\ pc = [d \in DPs |-> "write"]
    /\ next = [d \in DPs |-> 1]
    /\ total = [d \in DPs |-> 0]
    /\ mine = [d \in DPs |-> 0]
    /\ age = [d \in DPs |-> 1]
    /\ dying = 0
    /\ crashes = 0

-----------------------------------------------------------------------------
\* A data plane.  A definition named Faulty... is what its successor would be
\* with a plausible bug; only the mutation runs use it.

Goto(d, where) == pc' = [pc EXCEPT ![d] = where]

\* _write_own: the number becomes odd, the fields are written, it becomes even.
\* __init__ claims the slot with it.
BeginWrite(d) ==
    /\ pc[d] = "write"
    /\ Goto(d, "odd")
    /\ odd' = [odd EXCEPT ![d] = TRUE]
    /\ UNCHANGED <<inflight, generation, next, total, mine, age, dying, crashes>>

EndWrite(d) ==
    /\ pc[d] = "odd"
    /\ Goto(d, "idle")
    /\ odd' = [odd EXCEPT ![d] = FALSE]
    /\ inflight' = [inflight EXCEPT ![d] = mine[d]]
    /\ generation' = [generation EXCEPT ![d] = age[d]]
    /\ UNCHANGED <<next, total, mine, age, dying, crashes>>

\* The slot is even and carries the generation and the pid of this process.
StillOwner(d) == ~odd[d] /\ generation[d] = age[d]

\* try_acquire up to the first read of the sum.
TryAcquire(d) ==
    /\ pc[d] = "idle"
    /\ StillOwner(d)
    /\ Goto(d, "sum")
    /\ UNCHANGED <<slots, next, total, mine, age, dying, crashes>>

\* touch(), and a request that is shed because the last probe of an unstable
\* sibling is not old enough (_shed_from_cached_unstable): the slot is written
\* again with the same count.
WriteAgain(d) ==
    /\ pc[d] = "idle"
    /\ StillOwner(d)
    /\ Goto(d, "write")
    /\ UNCHANGED <<slots, next, total, mine, age, dying, crashes>>

HasRequest(d) == mine[d] > 0

\* release()
Release(d) ==
    /\ pc[d] = "idle"
    /\ StillOwner(d)
    /\ HasRequest(d)
    /\ mine' = [mine EXCEPT ![d] = @ - 1]
    /\ Goto(d, "write")
    /\ UNCHANGED <<slots, next, total, age, dying, crashes>>

\* `total >= self._max_inflight` is off by one.
FaultyFull(n) == n > MaxInflight

Full(n) == n >= MaxInflight

\* The next sum starts with the first slot.
Restart(d) == [next EXCEPT ![d] = 1]

\* One read of the sum.  After the last one the request is admitted or shed,
\* and _write_own follows.
ReadSlot(d) ==
    LET n == total[d] + inflight[next[d]]
    IN  /\ pc[d] = "sum"
        /\ ~odd[next[d]]
        /\ \/ /\ next[d] < N
              /\ next' = [next EXCEPT ![d] = @ + 1]
              /\ total' = [total EXCEPT ![d] = n]
              /\ UNCHANGED <<pc, mine>>
           \/ /\ next[d] = N
              /\ next' = Restart(d)
              /\ total' = [total EXCEPT ![d] = 0]
              /\ mine' = [mine EXCEPT ![d] = IF Full(n) THEN @ ELSE @ + 1]
              /\ Goto(d, "write")
        /\ UNCHANGED <<slots, age, dying, crashes>>

\* The slot is odd at every attempt: its writer is dead, or was not running all
\* the time.  The request is shed.
ReadRaises(d) ==
    LET i == next[d]
    IN  /\ pc[d] = "sum"
        /\ odd[i]
        /\ next' = Restart(d)
        /\ total' = [total EXCEPT ![d] = 0]
        /\ Goto(d, "write")
        /\ UNCHANGED <<slots, mine, age, dying, crashes>>

\* The process dies, and its requests with it.
Crash(d) ==
    /\ pc[d] # "down"
    /\ crashes < MaxCrashes
    /\ crashes' = crashes + 1
    /\ Goto(d, "down")
    /\ mine' = [mine EXCEPT ![d] = 0]
    /\ next' = Restart(d)
    /\ total' = [total EXCEPT ![d] = 0]
    /\ UNCHANGED <<slots, age, dying>>

-----------------------------------------------------------------------------
\* The supervisor: poll_once and _fold_and_reclaim_slot.

\* Any process is taken for dead.
FaultyReaped(d) == TRUE

\* `slot.process.poll()` and `wait()`
Reaped(d) == pc[d] = "down"

\* reclaim() of a slot whose process was reaped, up to the write of the fields.
ReclaimBegins(d) ==
    /\ dying = 0
    /\ Reaped(d)
    /\ dying' = d
    /\ odd' = [odd EXCEPT ![d] = TRUE]
    /\ UNCHANGED <<inflight, generation, pc, next, total, mine, age, crashes>>

\* The fields are written, and the next generation is spawned.
ReclaimEnds(d) ==
    /\ dying = d
    /\ dying' = 0
    /\ odd' = [odd EXCEPT ![d] = FALSE]
    /\ inflight' = [inflight EXCEPT ![d] = 0]
    /\ generation' = [generation EXCEPT ![d] = 0]
    /\ age' = [age EXCEPT ![d] = @ + 1]
    /\ Goto(d, "write")
    /\ UNCHANGED <<next, total, mine, crashes>>

-----------------------------------------------------------------------------
DPStep(d) ==
    \/ BeginWrite(d) \/ EndWrite(d) \/ TryAcquire(d) \/ WriteAgain(d) \/ Release(d)
    \/ ReadSlot(d) \/ ReadRaises(d) \/ Crash(d)

Next == \E d \in DPs : DPStep(d) \/ ReclaimBegins(d) \/ ReclaimEnds(d)

Spec == Init /\ [][Next]_vars

-----------------------------------------------------------------------------
\* Properties.

\* The requests of live processes, numbered in each of them.
InFlight == UNION {{d} \X (1..mine[d]) : d \in DPs}

\* The bound is soft, but the requests of live processes never exceed it by
\* more than N - 1: the slots are not read at one instant, counts move between
\* them meanwhile, and several processes may pass on the same last place.
SoftBound == Cardinality(InFlight) <= MaxInflight + N - 1

\* A live process that is not writing finds its slot readable, with its own
\* generation and count in it: it is never fenced, and the supervisor takes a
\* slot only from a process that is dead.
OwnersKeepTheirSlots ==
    \A d \in DPs : pc[d] \in {"idle", "sum"} => StillOwner(d) /\ inflight[d] = mine[d]

=============================================================================
