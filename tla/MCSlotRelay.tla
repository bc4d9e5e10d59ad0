----------------------------- MODULE MCSlotRelay -----------------------------
(***************************************************************************)
(* Two targets and four sends in a pool of three slots: two chunks whose   *)
(* tensors need one and two slots, a payload of two slots, and a chunk     *)
(* whose second tensor is larger than the pool.                            *)
(***************************************************************************)
EXTENDS SlotRelay

CONSTANTS j1, j2, j3, j4, a, b

FourPieces ==
    [j \in Sends |-> CASE j \in {j1, j2} -> <<1, 2>>
                       [] j = j3 -> <<2>>
                       [] OTHER -> <<1, 4>>]

TwoTargets == [j \in Sends |-> IF j \in {j1, j4} THEN a ELSE b]

=============================================================================
