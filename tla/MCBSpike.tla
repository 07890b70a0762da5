------------------------------ MODULE MCBSpike ------------------------------
(* BSpike with the two arms of the spike. *)
EXTENDS BSpike
ArmOrder2 == <<"noskill", "skill">>
=============================================================================
