-------------------------- MODULE MCTraceRegistry --------------------------
(* Instances of TraceRegistry for TLC. *)
EXTENDS TraceRegistry

CONSTANTS a1, a2, t1, c1, c2, r1, r2

\* Bound: the second auth session only posts the trace, under the id of the
\* first's.
SecondPosts ==
  /\ logout[a2] = "no"
  /\ \A r \in Requests : by[r] = a2 => pc[r] = "register"
=============================================================================
