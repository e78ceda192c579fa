------------------------- MODULE MCCaptureRegistry -------------------------
(* Instances of CaptureRegistry for TLC. *)
EXTENDS CaptureRegistry

CONSTANTS c1, c2, a1, a2

\* Bound: each tenant starts captures of its own.
OneEach == who[c1] # a2 /\ who[c2] # a1

\* Bound: one of the tenants logs out.
OneLogout == logout[a1] = "no" \/ logout[a2] = "no"
=============================================================================
