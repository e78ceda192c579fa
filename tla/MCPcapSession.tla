--------------------------- MODULE MCPcapSession ---------------------------
(* Instances of PcapSession for TLC. *)
EXTENDS PcapSession

CONSTANTS p1, p2, w1, w2
=============================================================================
