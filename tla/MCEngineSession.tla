-------------------------- MODULE MCEngineSession --------------------------
(* Instances of EngineSession for TLC: two session ids that hash apart or    *)
(* alike.                                                                    *)
EXTENDS EngineSession

CONSTANTS a, b, p1, p2, n1, n2

Hash(port, name) ==
  [s \in Streams |-> IF s = a THEN [port |-> p1, name |-> n1]
                              ELSE [port |-> port, name |-> name]]

AllHashes == {Hash(port, name) : port \in Ports, name \in Names}

\* The captures do not share what watchPods touches: the pods of one change.
ChangesOfA == [s \in Streams |-> IF s = a THEN 2 ELSE 0]
=============================================================================
