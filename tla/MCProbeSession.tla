--------------------------- MODULE MCProbeSession ---------------------------
(* Instances of ProbeSession for TLC. *)
EXTENDS ProbeSession

CONSTANTS f1, f2, s1, s2
=============================================================================
