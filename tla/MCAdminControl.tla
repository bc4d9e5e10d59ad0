--------------------------- MODULE MCAdminControl ---------------------------
(***************************************************************************)
(* Instances of AdminControl for TLC: a TP stage with one follower beside  *)
(* a stage without.                                                        *)
(***************************************************************************)
EXTENDS AdminControl, TLC

CONSTANTS s1, s2, f1

OneFollower == [s \in Stages |-> IF s = s1 THEN {f1} ELSE {}]

OpSymmetry == Permutations(Ops)

=============================================================================
