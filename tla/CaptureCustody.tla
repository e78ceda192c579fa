--------------------------- MODULE CaptureCustody ---------------------------
(***************************************************************************)
(* What the portal promises about the data of a capture session, seen from *)
(* the outside: packets are collected for nobody, then claimed by exactly  *)
(* one auth session, and once discarded they never come back.  The capture *)
(* registry (CaptureRegistry.tla) is shown to implement this module.       *)
(***************************************************************************)
CONSTANTS
  Captures,   \* capture session ids
  Auths,      \* auth session ids
  NoAuth      \* the custodian of a capture nobody has claimed

VARIABLES
  phase,      \* phase[c]: where the data of capture c is in its life
  custodian   \* custodian[c]: the auth session the data was claimed for

vars == <<phase, custodian>>

Phases == {"absent", "unclaimed", "held", "discarded"}

TypeOK ==
  /\ phase \in [Captures -> Phases]
  /\ custodian \in [Captures -> Auths \cup {NoAuth}]

Init ==
  /\ phase = [c \in Captures |-> "absent"]
  /\ custodian = [c \in Captures |-> NoAuth]

Collect(c) ==
  /\ phase[c] = "absent"
  /\ phase' = [phase EXCEPT ![c] = "unclaimed"]
  /\ UNCHANGED custodian

Claim(c, a) ==
  /\ phase[c] = "unclaimed"
  /\ phase' = [phase EXCEPT ![c] = "held"]
  /\ custodian' = [custodian EXCEPT ![c] = a]

Discard(c) ==
  /\ phase[c] = "held"
  /\ phase' = [phase EXCEPT ![c] = "discarded"]
  /\ UNCHANGED custodian

Next ==
  \E c \in Captures :
    \/ Collect(c)
    \/ \E a \in Auths : Claim(c, a)
    \/ Discard(c)

Spec == Init /\ [][Next]_vars
=============================================================================
