---------------------------- MODULE MCTwoManagers ----------------------------
(* Instances of TwoManagers for TLC.                                        *)
EXTENDS TwoManagers
=============================================================================
