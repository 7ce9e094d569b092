---------------------------- MODULE MCSlotPorts ----------------------------
(* Instances of SlotPorts for TLC.                                          *)
EXTENDS SlotPorts

\* The range of ports is moved by the ports of one NLB, or by one port.
MoveRange == {[min |-> m, slotsPerNLB |-> 2] : m \in {1, 2, 5}}
=============================================================================
