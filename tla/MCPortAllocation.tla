-------------------------- MODULE MCPortAllocation --------------------------
(* Instances of PortAllocation for TLC.                                     *)
EXTENDS PortAllocation
=============================================================================
