------------------------------- MODULE MCStage -------------------------------
(***************************************************************************)
(* Instances of Stage for TLC.                                             *)
(***************************************************************************)
EXTENDS Stage, TLC

CONSTANTS up1, up2, down1, down2

\* Every request waits for both upstream stages, or only for the first.
WantsAll == [r \in Ids |-> PayloadSources]
WantsFirst == [r \in Ids |-> PayloadSources \cap {up1}]

OneHop == <<down1>>
TwoHops == <<down1, down2>>
NoHop == <<>>

=============================================================================
