---------------------------- MODULE MC_Inventory ----------------------------
(* Instances of Inventory for TLC.                                          *)
EXTENDS Inventory

\* A sale may lose or earn.
LossOrGain == {-1, 1}
=============================================================================
