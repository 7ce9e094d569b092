-------------------------- MODULE MCPAProvisioning --------------------------
(* Instances of PAProvisioning for TLC.                                     *)
EXTENDS PAProvisioning
=============================================================================
