--------------------------- MODULE MCLoginState ---------------------------
(* Instances of LoginState for TLC. *)
EXTENDS LoginState, TLC

CONSTANTS s1, s2, cb1, cb2, l1, r1

Symmetry == Permutations(States) \cup Permutations(Callbacks)

\* Bound: the environments that differ: every URL, all but the redirect, or
\* none; every method or only OpenShift; a missing secret once.
SomeEnvironments ==
  /\ settings.secret \/ settings.env = Urls
  /\ settings.env \in {Urls, Urls \ {"redirect"}, {}}
  /\ settings.methods \in {Modes, {"openshift"}}
===========================================================================
