---------------------------- MODULE MCPADeletion ----------------------------
(* Instances of PADeletion for TLC.                                         *)
EXTENDS PADeletion
=============================================================================
