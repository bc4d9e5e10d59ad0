--------------------------- MODULE MCWeightUpdate ---------------------------
(***************************************************************************)
(* Two workers and two data planes.                                        *)
(***************************************************************************)
EXTENDS WeightUpdate

CONSTANTS w1, w2, d1, d2

=============================================================================
