---------------------------- MODULE MCCoordinator ----------------------------
(***************************************************************************)
(* Instances of Coordinator for TLC.                                       *)
(***************************************************************************)
EXTENDS Coordinator, TLC

\* The calls of an instance are interchangeable.
CallerSymmetry == Permutations(Callers)

=============================================================================
