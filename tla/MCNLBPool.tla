----------------------------- MODULE MCNLBPool -----------------------------
(* Instances of NLBPool for TLC.                                            *)
EXTENDS NLBPool
=============================================================================
