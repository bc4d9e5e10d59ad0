------------------------- MODULE MCThreadedScheduler -------------------------
(***************************************************************************)
(* Two ids, one of them used twice, and room for one speculative abort.    *)
(***************************************************************************)
EXTENDS ThreadedScheduler

CONSTANTS a, b, a1, a2, b1

MCId(l) == IF l = b1 THEN b ELSE a

=============================================================================
