-------------------------- MODULE MCAdmissionSlots --------------------------
(***************************************************************************)
(* Three data planes, so that the sum is not taken at one instant, with    *)
(* the smallest bound that is allowed for them, and one crash.             *)
(***************************************************************************)
EXTENDS AdmissionSlots

=============================================================================
