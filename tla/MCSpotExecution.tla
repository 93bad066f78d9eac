-------------------------- MODULE MCSpotExecution --------------------------
(***************************************************************************)
(* Instances of SpotExecution for TLC.  The configurations give the        *)
(* constants: one cycle of quantity 2 (partial executions, dust) and two   *)
(* cycles of quantity 1 (a later entry after a completed one), for the     *)
(* production and the Testnet contract.                                    *)
(***************************************************************************)
EXTENDS SpotExecution

AllNotes == {"plain", "outside", "thirdAsset"}
PlainOrOutside == {"plain", "outside"}
PlainOnly == {"plain"}
=============================================================================
