--------------------------- MODULE RequestLifecycle ---------------------------
(***************************************************************************)
(* What the coordinator promises to those who call submit() and stream(),  *)
(* without its dicts, futures, queues, tasks and messages.                 *)
(*                                                                         *)
(* An id has one owner at a time.  The request of an admitted call is      *)
(* released once, completed or dropped (failed or aborted), and the call   *)
(* ends once.  It returns a result only after its own request has          *)
(* completed, and an error only if the request was dropped or never sent.  *)
(***************************************************************************)
CONSTANTS Ids, Calls, None

VARIABLES
    owner,      \* id -> the call whose request has it, or None
    verdict,    \* call -> what became of its request
    delivered,  \* calls whose request was sent to the entry stage
    outcome     \* call -> how it has ended

vars == <<owner, verdict, delivered, outcome>>

Init ==
    /\ owner = [r \in Ids |-> None]
    /\ verdict = [c \in Calls |-> "none"]
    /\ delivered = {}
    /\ outcome = [c \in Calls |-> "none"]

Reject(c) ==
    /\ verdict[c] = "none" /\ outcome[c] = "none"
    /\ outcome' = [outcome EXCEPT ![c] = "rejected"]
    /\ UNCHANGED <<owner, verdict, delivered>>

Admit(c, r) ==
    /\ verdict[c] = "none" /\ outcome[c] = "none"
    /\ owner[r] = None
    /\ owner' = [owner EXCEPT ![r] = c]
    /\ verdict' = [verdict EXCEPT ![c] = "open"]
    /\ UNCHANGED <<delivered, outcome>>

\* The request may have been released while it was sent.
Deliver(c) ==
    /\ verdict[c] # "none" /\ outcome[c] = "none"
    /\ c \notin delivered
    /\ delivered' = delivered \cup {c}
    /\ UNCHANGED <<owner, verdict, outcome>>

Complete(r) ==
    /\ owner[r] # None
    /\ owner' = [owner EXCEPT ![r] = None]
    /\ verdict' = [verdict EXCEPT ![owner[r]] = "completed"]
    /\ UNCHANGED <<delivered, outcome>>

\* One request fails or is aborted, or all of them fail.
Drop(R) ==
    /\ \A r \in R : owner[r] # None
    /\ owner' = [r \in Ids |-> IF r \in R THEN None ELSE owner[r]]
    /\ verdict' = [c \in Calls |-> IF \E r \in R : owner[r] = c THEN "dropped" ELSE verdict[c]]
    /\ UNCHANGED <<delivered, outcome>>

\* What a call may end with.
MayEnd(c, how) ==
    \/ how = "result" /\ c \in delivered /\ verdict[c] = "completed"
    \/ how = "error" /\ (verdict[c] = "dropped" \/ c \notin delivered)
    \/ how \in {"cancelled", "closed"} /\ c \in delivered

End(c, how) ==
    /\ verdict[c] # "none" /\ outcome[c] = "none"
    /\ MayEnd(c, how)
    /\ outcome' = [outcome EXCEPT ![c] = how]
    /\ UNCHANGED <<owner, verdict, delivered>>

Next ==
    \/ \E c \in Calls : Reject(c) \/ Deliver(c)
    \/ \E c \in Calls, r \in Ids : Admit(c, r)
    \/ \E r \in Ids : Complete(r)
    \/ \E R \in SUBSET Ids : Drop(R)
    \/ \E c \in Calls, how \in {"result", "error", "cancelled", "closed"} : End(c, how)

Spec == Init /\ [][Next]_vars

=============================================================================
