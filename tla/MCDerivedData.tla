--------------------------- MODULE MCDerivedData ---------------------------
(* Instances of DerivedData for TLC. *)
EXTENDS DerivedData, TLC

\* The requests are alike.
Symmetry == Permutations(Requests)

\* Bound: two chats or syncs, and one request of any kind.
TwoWriters ==
  \E r \in Requests : \A s \in Requests \ {r} : kind[s] \in {"question", "context"}

\* Bound: a capture that is torn down meets two of them.
TwoAtTeardown == td # "no" => \E r \in Requests : pc[r] = "idle"
=============================================================================
