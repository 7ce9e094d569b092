---------------------------- MODULE MCPodRouting ----------------------------
(* Instances of PodRouting for TLC.                                         *)
EXTENDS PodRouting
=============================================================================
