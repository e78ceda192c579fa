---------------------------- MODULE FlowTopology ----------------------------
(***************************************************************************)
(* What the observability view of a capture is computed from and how:      *)
(* internal/pcap/endpoints.go, topology.go, topology_limits.go,            *)
(* flowgraph.go, summary.go and analytics.go, as handleCaptureObservability*)
(* calls them while packets still arrive.  A packet is a record of what    *)
(* those functions read from its frame and its flow metadata; Session.     *)
(* Events concatenates the pods' buffers in the order of Go's map, which is *)
(* any order, anew at every call.                                          *)
(***************************************************************************)
EXTENDS Integers, SequencesExt, FiniteSetsExt, Functions

CONSTANTS
  Tracked,      \* Session.Tracked: a sequence of [ns, name, ips]
  Packets,      \* the packets a sensor can deliver
  Gap,          \* milliseconds between two packets
  MaxPackets,   \* bound: packets of a capture
  MaxEvents,    \* MaxTopologyBuildEvents
  MaxNodes,     \* MaxTopologyNodes
  MaxEdges,     \* MaxTopologyEdges
  MaxSteps      \* 48, the steps of one sequence

TrackedPods == {[kind |-> "pod", ns |-> p.ns, name |-> p.name] : p \in Range(Tracked)}

\* A FlowEvent: what the functions read of its frame and of its enrichment, the
\* capture pod, and when it arrived and as which packet.
Meta == [ns : STRING, pod : STRING, owner : STRING]

Packet ==
  [pod : [kind : {"pod", "none"}, ns : STRING, name : STRING], src : STRING, dst : STRING,
   srcMeta : Meta, dstMeta : Meta, proto : STRING, sport : Nat, dport : Nat,
   flags : SUBSET STRING, len : Nat, metaBytes : Nat, metaPackets : Nat, rtt : Nat,
   cause : STRING, dropped : BOOLEAN, at : Nat, pkt : Nat]

ASSUME PacketsAssumption == Packets \subseteq Packet

ASSUME LimitsAssumption ==
  /\ Tracked \in Seq([ns : STRING, name : STRING, ips : SUBSET STRING])
  /\ {MaxNodes, MaxEdges, MaxSteps, MaxEvents} \subseteq Nat \ {0}
  /\ Gap \in Nat /\ MaxPackets \in Nat

-----------------------------------------------------------------------------
(* Vertices.  An id is ns/pod, ns/kind/owner or ext/ip.                     *)

NoNode == [kind |-> "none", ns |-> "", name |-> ""]

podNode(p) == [kind |-> "pod", ns |-> p.ns, name |-> p.name]

externalNode(ip) ==
  IF ip = "" THEN NoNode ELSE [kind |-> "ext", ns |-> "", name |-> ip]

\* The enrichment's own fields: a pod, else an owner, else nothing.
nodeFromMeta(meta) ==
  IF meta.ns # "" /\ meta.pod # "" THEN podNode([ns |-> meta.ns, name |-> meta.pod])
  ELSE IF meta.ns # "" /\ meta.owner # ""
       THEN [kind |-> "owner", ns |-> meta.ns, name |-> meta.owner]
       ELSE NoNode

\* Of two tracked pods with one address (host network) the later wins.
trackedPodIPIndex ==
  [ip \in UNION {Tracked[i].ips : i \in DOMAIN Tracked} |->
     podNode(Tracked[Max({i \in DOMAIN Tracked : ip \in Tracked[i].ips})])]

nodeForIP(ip) ==
  IF ip \in DOMAIN trackedPodIPIndex THEN trackedPodIPIndex[ip] ELSE externalNode(ip)

\* A packet whose addresses say which end the capture pod is goes by its
\* addresses; one between two unknown addresses leaves the capture pod.
orientToCapturePod(from, to, cap, src, dst) ==
  IF cap = NoNode \/ src = "" \/ dst = "" THEN <<from, to>>
  ELSE IF (nodeForIP(src) = cap) # (nodeForIP(dst) = cap)
       THEN <<nodeForIP(src), nodeForIP(dst)>>
  ELSE IF from.kind = "ext" /\ to.kind = "ext" THEN <<cap, externalNode(dst)>>
  ELSE <<from, to>>

\* <<NoNode, NoNode>> when an end stays unknown: the packet is left out.
resolveFlowEndpoints(ev) ==
  LET mFrom == nodeFromMeta(ev.srcMeta)
      mTo   == nodeFromMeta(ev.dstMeta)
      both  == ev.src # "" /\ ev.dst # ""
      from  == IF mFrom = NoNode /\ both THEN nodeForIP(ev.src) ELSE mFrom
      to    == IF mTo = NoNode /\ both THEN nodeForIP(ev.dst) ELSE mTo
      ends  == orientToCapturePod(from, to, ev.pod, ev.src, ev.dst)
      first == IF ends[1] = NoNode THEN ev.pod ELSE ends[1]
  IN IF mFrom # NoNode /\ mTo # NoNode THEN <<mFrom, mTo>>
     ELSE IF NoNode \in {first, ends[2]} THEN <<NoNode, NoNode>>
     ELSE <<first, ends[2]>>

-----------------------------------------------------------------------------
(* BuildFlowTopology: one pass over the events, then the sequences.         *)

\* A FlowMeta counter wins over the frame; a packet counts as one at least.
flowCounters(ev) ==
  [bytes   |-> IF ev.metaBytes > 0 THEN ev.metaBytes ELSE ev.len,
   packets |-> Max({ev.metaPackets, 1})]

sequencePhase(flags) ==
  IF flags \cap {"RST", "FIN"} # {} THEN "close"
  ELSE IF "SYN" \in flags THEN IF "ACK" \in flags THEN "reply" ELSE "start"
  ELSE IF "ACK" \in flags /\ "PSH" \notin flags THEN "reply" ELSE "data"

NewEdge == [count |-> 0, bytes |-> 0, packets |-> 0, rttSum |-> 0, rttN |-> 0,
            maxRtt |-> 0, cause |-> "", flags |-> {}, proto |-> "", port |-> 0,
            steps |-> <<>>]

\* Mutant: a packet that was not dropped clears the edge.
LatestCauseForgets(cause, ev) ==
  IF ev.cause # "" THEN ev.cause ELSE IF ev.dropped THEN "SKB_DROP" ELSE ""

\* DropCause after a packet: its own, else the one seen before, else
\* SKB_DROP when only the counters say that something was dropped.
LatestCause(cause, ev) ==
  IF ev.cause # "" THEN ev.cause
  ELSE IF ev.dropped /\ cause = "" THEN "SKB_DROP" ELSE cause

Step(e, ev) ==
  [at |-> ev.at, rel |-> ev.at - (IF e.steps = <<>> THEN ev.at ELSE e.steps[1].at),
   dir |-> "forward", phase |-> sequencePhase(ev.flags), pkt |-> ev.pkt]

AddToEdge(e, ev) ==
  LET n == flowCounters(ev)
  IN [e EXCEPT !.count = @ + 1, !.bytes = @ + n.bytes, !.packets = @ + n.packets,
               !.rttSum = @ + ev.rtt, !.rttN = IF ev.rtt > 0 THEN @ + 1 ELSE @,
               !.maxRtt = Max({@, ev.rtt}), !.cause = LatestCause(@, ev),
               !.flags = @ \cup ev.flags,
               !.proto = IF ev.proto # "" THEN ev.proto ELSE @,
               !.port = IF ev.dport > 0 THEN ev.dport ELSE @,
               !.steps = IF Len(@) < MaxSteps THEN Append(@, Step(e, ev)) ELSE @]

EmptyTopology == [nodes |-> {}, edges |-> <<>>]

\* The body of the loop: nodes is nodeMap's keys, edges the map of edgeAcc.
Aggregate(topo, ev) ==
  LET k == resolveFlowEndpoints(ev)
      e == IF k \in DOMAIN topo.edges THEN topo.edges[k] ELSE NewEdge
  IN IF NoNode \in Range(k) THEN topo
     ELSE [nodes |-> topo.nodes \cup Range(k),
           edges |-> [x \in DOMAIN topo.edges \cup {k} |->
                        IF x = k THEN AddToEdge(e, ev) ELSE topo.edges[x]]]

BuildFlowTopology(evs) == FoldLeft(Aggregate, EmptyTopology, evs)

edgeHealth(e) ==
  LET srtt == IF e.rttN > 0 THEN e.rttSum \div e.rttN ELSE 0
  IN IF e.cause # "" THEN "dropped"
     ELSE IF e.maxRtt > 50 \/ srtt > 25 THEN "degraded" ELSE "healthy"

Opposite(k) == <<k[2], k[1]>>

\* Mutant: the clones keep the direction they were recorded with.
KeepDirection(steps, direction) == steps

cloneSequenceSteps(steps, direction) ==
  [i \in DOMAIN steps |-> [steps[i] EXCEPT !.dir = direction]]

\* What sort.Slice makes of a sequence: in order, ties any way.
Sorted(s, Before(_, _)) ==
  {[i \in DOMAIN s |-> s[p[i]]] :
     p \in {q \in Bijection(DOMAIN s, DOMAIN s) :
              \A i, j \in DOMAIN s : i < j => ~Before(s[q[j]], s[q[i]])}}

\* Both directions in the order of time, cut, and timed from the first.
ConversationSequence(details, k) ==
  LET sequence(x) == IF x \in DOMAIN details THEN details[x] ELSE <<>>
      earlier(s, t) == s.at < t.at \/ (s.at = t.at /\ s.rel < t.rel)
      both == cloneSequenceSteps(sequence(k), "forward")
                \o cloneSequenceSteps(sequence(Opposite(k)), "reverse")
  IN {[i \in 1..Min({MaxSteps, Len(all)}) |-> [all[i] EXCEPT !.rel = all[i].at - all[1].at]]
        : all \in Sorted(both, earlier)}

\* BuildFlowGraph, the legacy diagram: who talked to whom, and how often.
BuildFlowGraph(evs) ==
  LET ends(i) == resolveFlowEndpoints(evs[i])
      known == {i \in DOMAIN evs : NoNode \notin Range(ends(i))}
  IN [k \in {ends(i) : i \in known} |-> Cardinality({i \in known : ends(i) = k})]

-----------------------------------------------------------------------------
(* Selection and limits.                                                    *)

\* The tracked pods and their direct neighbours.
FilterTopologyToSelection(topo) ==
  IF TrackedPods = {} THEN topo
  ELSE LET kept == {k \in DOMAIN topo.edges : Range(k) \cap TrackedPods # {}}
       IN [nodes |-> UNION {Range(k) : k \in kept}, edges |-> Restrict(topo.edges, kept)]

Heavier(e, f) == e.bytes > f.bytes \/ (e.bytes = f.bytes /\ e.packets > f.packets)

\* The first n of a set sorted by decreasing score; ties fall as sort.Slice
\* and the map leave them.
Heaviest(S, n, Above(_, _)) ==
  {T \in kSubset(Min({n, Cardinality(S)}), S) :
     \A x \in T, y \in S \ T : ~Above(y, x)}

TopEdges(topo) ==
  Heaviest(DOMAIN topo.edges, MaxEdges,
           LAMBDA j, k : Heavier(topo.edges[j], topo.edges[k]))

\* An edge counts for both its ends.
bytesByNode(topo, edges, n) ==
  SumFunction([k \in edges |-> topo.edges[k].bytes * Cardinality({i \in {1, 2} : k[i] = n})])

\* Mutant: tracked pods are weighed like the others.
KeepByWeight(topo, edges) ==
  LET all == UNION {Range(k) : k \in edges}
  IN Heaviest(all, Min({MaxNodes, Cardinality(all)}),
              LAMBDA m, n : bytesByNode(topo, edges, m) > bytesByNode(topo, edges, n))

\* keepNodes: the tracked pods and the ends of the edges, the lightest
\* untracked ones given up when there are too many.
KeepNodes(topo, edges) ==
  LET all == TrackedPods \cup UNION {Range(k) : k \in edges}
      budget == Max({0, MaxNodes - Cardinality(TrackedPods)})
  IN IF Cardinality(all) <= MaxNodes THEN {all}
     ELSE {TrackedPods \cup T : T \in Heaviest(all \ TrackedPods, budget,
             LAMBDA m, n : bytesByNode(topo, edges, m) > bytesByNode(topo, edges, n))}

LimitFlowTopology(topo) ==
  IF Cardinality(topo.nodes) <= MaxNodes /\ Cardinality(DOMAIN topo.edges) <= MaxEdges
  THEN {topo}
  ELSE UNION {{[nodes |-> topo.nodes \cap keep,
                edges |-> Restrict(topo.edges, {k \in edges : Range(k) \subseteq keep})]
               : keep \in KeepNodes(topo, edges)} : edges \in TopEdges(topo)}
=============================================================================
