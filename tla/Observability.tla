---------------------------- MODULE Observability ----------------------------
(***************************************************************************)
(* handleCaptureObservability (internal/portal/observability_handlers.go): *)
(* the statistics of summary.go and analytics.go over one snapshot of the  *)
(* session's events, the bounded topology over another, while sensors keep *)
(* appending packets.                                                      *)
(***************************************************************************)
EXTENDS FlowTopology

VARIABLES
  buffers,   \* Session.pods: the packets each capture pod's sensor delivered
  clock,     \* packets delivered so far
  phase,     \* where the handler is
  events,    \* sess.Events() of the handler
  sample,    \* SampleEventsForGraph of a second sess.Events()
  todo,      \* the part of sample not yet aggregated
  topo,      \* BuildFlowTopology's nodeMap and edges, then the reply's
  details,   \* EdgeDetail.Sequence of each edge
  unmerged,  \* edges the loop over details has not reached
  summary    \* BuildCaptureSummary of the handler's events, once replied

vars == <<buffers, clock, phase, events, sample, todo, topo, details, unmerged,
          summary>>

-----------------------------------------------------------------------------
(* AnalyzeEvents and BuildCaptureSummary.                                   *)

\* Go's integer division truncates toward zero.
bucketOf(ev, first) ==
  LET off == ev.at - first IN IF off >= 0 THEN off \div 100 ELSE -((-off) \div 100)

sortedBuckets(evs) ==
  LET in(b) == {i \in DOMAIN evs : bucketOf(evs[i], evs[1].at) = b}
  IN [b \in {bucketOf(evs[i], evs[1].at) : i \in DOMAIN evs} |->
        [packets |-> Cardinality(in(b)), bytes |-> SumFunction([i \in in(b) |-> evs[i].len])]]

\* The first of the fullest buckets, in bits per second.
PeakBucketBitsPerSec(buckets) ==
  LET fullest == {b \in DOMAIN buckets : \A c \in DOMAIN buckets :
                                          buckets[c].packets <= buckets[b].packets}
  IN IF fullest = {} THEN 0 ELSE buckets[Min(fullest)].bytes * 8 * 10

\* What only a frame shows: in S3 mode events have none.
FrameFlags(ev) == IF ev.len = 0 THEN {} ELSE ev.flags

Track(flows, k) == IF k \in DOMAIN flows THEN flows[k] ELSE [syn |-> FALSE, synAck |-> FALSE]

Marked(flows, k, field) ==
  [x \in DOMAIN flows \cup {k} |->
     IF x = k THEN [Track(flows, k) EXCEPT ![field] = TRUE] ELSE flows[x]]

\* Mutant: the answer is only noted on a flow already seen.
AnswerKnownFlows(flows, ev) ==
  LET k == <<ev.src, ev.sport, ev.dst, ev.dport>>
      rev == <<ev.dst, ev.dport, ev.src, ev.sport>>
  IN IF ev.proto # "TCP" \/ ev.len = 0 \/ ev.sport = 0 \/ "SYN" \notin FrameFlags(ev) THEN flows
     ELSE IF "ACK" \notin FrameFlags(ev) THEN Marked(flows, k, "syn")
     ELSE Marked(IF rev \in DOMAIN flows THEN Marked(flows, rev, "synAck") ELSE flows,
                 k, "synAck")

\* One event of the loop, its frame in trackTCPFlows; a SYN+ACK also answers the other direction,
\* seen or not.
trackTCPFlows(flows, ev) ==
  LET k == <<ev.src, ev.sport, ev.dst, ev.dport>>
      rev == <<ev.dst, ev.dport, ev.src, ev.sport>>
      syn == "SYN" \in FrameFlags(ev)
      ack == "ACK" \in FrameFlags(ev)
  IN IF ev.proto # "TCP" \/ ev.len = 0 \/ ev.sport = 0 \/ ~syn THEN flows
     ELSE IF ack THEN Marked(Marked(flows, rev, "synAck"), k, "synAck")
     ELSE Marked(flows, k, "syn")

countFailedTCP(evs) ==
  LET flows == FoldLeft(trackTCPFlows, <<>>, evs)
  IN Cardinality({k \in DOMAIN flows : flows[k].syn /\ ~flows[k].synAck})

\* A count per value of a function, each argument with its weight.
CountBy(of, weight) ==
  [v \in Range(of) |-> SumFunctionOnSet(weight, {x \in DOMAIN of : of[x] = v})]

Counts(full) == [k \in DOMAIN full.edges |-> full.edges[k].count]

\* sum.Protocols: the edges' counts, and once more every event.
Protocols(full, evs) ==
  LET ofEdge(k) == IF full.edges[k].proto = "" THEN "OTHER" ELSE full.edges[k].proto
      named == {i \in DOMAIN evs : evs[i].proto # ""}
      ofEdges == CountBy([k \in DOMAIN full.edges |-> ofEdge(k)], Counts(full))
      ofEvents == CountBy([i \in named |-> evs[i].proto], [i \in named |-> 1])
      at(f, p) == IF p \in DOMAIN f THEN f[p] ELSE 0
  IN [p \in DOMAIN ofEdges \cup DOMAIN ofEvents |-> at(ofEdges, p) + at(ofEvents, p)]

\* Both ends of an edge are credited with all of it.
topTalkers(full) == [n \in full.nodes |-> bytesByNode(full, DOMAIN full.edges, n)]

\* The summary is computed over every event, the map only over the sample.
BuildCaptureSummary(evs) ==
  LET full == FilterTopologyToSelection(BuildFlowTopology(evs))
      times == {evs[i].at : i \in DOMAIN evs}
  IN [eventCount |-> Len(evs),
      totalBytes |-> SumFunction([i \in DOMAIN evs |-> Max({evs[i].len, 1})]),
      edges      |-> full.edges,
      nodes      |-> full.nodes,
      external   |-> Cardinality({n \in full.nodes : n.kind = "ext"}),
      protocols  |-> Protocols(full, evs),
      health     |-> CountBy([k \in DOMAIN full.edges |-> edgeHealth(full.edges[k])], Counts(full)),
      dropEdges  |-> Cardinality({k \in DOMAIN full.edges : full.edges[k].cause # ""}),
      talkers    |-> topTalkers(full),
      duration   |-> IF times = {} THEN 0 ELSE Max(times) - Min(times),
      buckets    |-> sortedBuckets(evs),
      failed     |-> countFailedTCP(evs)]

-----------------------------------------------------------------------------
(* The capture and the handler.                                             *)

Init ==
  /\ buffers = <<>>
  /\ clock = 0
  /\ phase = "idle"
  /\ events = <<>> /\ sample = <<>> /\ todo = <<>>
  /\ topo = EmptyTopology
  /\ details = <<>>
  /\ unmerged = {}
  /\ summary = <<>>

view == <<events, sample, todo, topo, details, unmerged, summary>>

\* AppendFlow stamps the packet and appends it to its pod's buffer.
AppendFlow(p) ==
  LET ev == [p EXCEPT !.at = 1 + clock * Gap, !.pkt = clock]
      of(pod) == IF pod \in DOMAIN buffers THEN buffers[pod] ELSE <<>>
  IN /\ clock < MaxPackets
     /\ clock' = clock + 1
     /\ buffers' = [x \in DOMAIN buffers \cup {p.pod} |->
                      IF x = p.pod THEN Append(of(x), ev) ELSE buffers[x]]
     /\ UNCHANGED <<phase, view>>

\* Session.Events: the buffers one after the other, in any order.
EventsNow == {FlattenSeq([i \in DOMAIN o |-> buffers[o[i]]]) : o \in SetToSeqs(DOMAIN buffers)}

SampleEventsForGraph(evs) == SubSeq(evs, Max({1, Len(evs) - MaxEvents + 1}), Len(evs))

HandleObservability ==
  /\ phase = "idle"
  /\ events' \in EventsNow
  /\ phase' = "events"
  /\ UNCHANGED <<buffers, clock, sample, todo, topo, details, unmerged, summary>>

\* BuildBoundedTopology takes its own snapshot.
BuildBoundedTopology ==
  /\ phase = "events"
  /\ \E evs \in EventsNow : sample' = SampleEventsForGraph(evs)
  /\ todo' = sample'
  /\ phase' = "aggregate"
  /\ UNCHANGED <<buffers, clock, events, topo, details, unmerged, summary>>

AggregateEvent ==
  /\ phase = "aggregate" /\ todo # <<>>
  /\ topo' = Aggregate(topo, Head(todo))
  /\ todo' = Tail(todo)
  /\ UNCHANGED <<buffers, clock, phase, events, sample, details, unmerged, summary>>

FinishTopology ==
  /\ phase = "aggregate" /\ todo = <<>>
  /\ details' = [k \in DOMAIN topo.edges |-> topo.edges[k].steps]
  /\ unmerged' = DOMAIN topo.edges
  /\ phase' = "merge"
  /\ UNCHANGED <<buffers, clock, events, sample, todo, topo, summary>>

\* One turn of the loop over details, which reads the map that it writes.
MergeSequence(k) ==
  /\ phase = "merge" /\ k \in unmerged
  /\ \E sequence \in ConversationSequence(details, k) : details' = [details EXCEPT ![k] = sequence]
  /\ unmerged' = unmerged \ {k}
  /\ UNCHANGED <<buffers, clock, phase, events, sample, todo, topo, summary>>

\* The selection, the limits and the details of what is left; then the
\* statistics, of the first snapshot.
Reply ==
  /\ phase = "merge" /\ unmerged = {}
  /\ topo' \in LimitFlowTopology(FilterTopologyToSelection(topo))
  /\ details' = Restrict(details, DOMAIN topo'.edges)
  /\ summary' = BuildCaptureSummary(events)
  /\ phase' = "replied"
  /\ UNCHANGED <<buffers, clock, events, sample, todo, unmerged>>

Next ==
  \/ \E p \in Packets : AppendFlow(p)
  \/ HandleObservability
  \/ BuildBoundedTopology
  \/ AggregateEvent
  \/ FinishTopology
  \/ \E k \in unmerged : MergeSequence(k)
  \/ Reply

Spec == Init /\ [][Next]_vars

-----------------------------------------------------------------------------
(* Properties.                                                              *)

\* The reply hangs together: what it keeps of the selection are edges with a
\* tracked end between nodes of the reply, each with its details, within the
\* limits that tracked pods alone may exceed; and a tracked pod is given up
\* only with its last edge, never for its weight.
ViewIsClosed ==
  phase = "replied" =>
    LET edges == DOMAIN topo.edges
        seen == DOMAIN BuildFlowTopology(sample).edges
    IN /\ DOMAIN details = edges
       /\ Cardinality(edges) <= MaxEdges
       /\ Cardinality(topo.nodes) <= Max({MaxNodes, Cardinality(TrackedPods)})
       /\ \A k \in edges : Range(k) \subseteq topo.nodes
       /\ TrackedPods # {} => \A k \in edges : Range(k) \cap TrackedPods # {}
       /\ \A n \in TrackedPods : n \in topo.nodes <=> \E k \in seen : n \in Range(k)

\* Every sampled packet whose ends are known is counted on exactly its edge,
\* and an edge is shown as dropped if and only if one of its packets was,
\* whatever came after it.
EdgesAccount ==
  phase = "aggregate" =>
    LET done == SubSeq(sample, 1, Len(sample) - Len(todo))
        on(k) == {i \in DOMAIN done : resolveFlowEndpoints(done[i]) = k}
        flows == BuildFlowGraph(done)
    IN /\ DOMAIN topo.edges = DOMAIN flows
       /\ \A k \in DOMAIN topo.edges :
            /\ topo.edges[k].count = flows[k]
            /\ edgeHealth(topo.edges[k]) = "dropped" <=>
                 \E i \in on(k) : done[i].dropped \/ done[i].cause # ""
       /\ topo.nodes = UNION {Range(k) : k \in DOMAIN topo.edges}

\* In a merged sequence the forward lane holds packets of the edge itself, in
\* the order of time, each once, and misses none of those the edge kept that
\* is older than the last packet shown.
LanesKeepTheirPackets ==
  phase = "merge" =>
    \A k \in DOMAIN details \ unmerged :
      LET seq == details[k]
          fwd == {i \in DOMAIN seq : seq[i].dir = "forward"}
          own == topo.edges[k].steps
      IN /\ \A i, j \in DOMAIN seq : i < j => seq[i].at <= seq[j].at
         /\ \A i, j \in fwd : seq[i].pkt = seq[j].pkt => i = j
         /\ \A i \in fwd : \E j \in DOMAIN own : seq[i].pkt = own[j].pkt
         /\ \A j \in DOMAIN own : own[j].at < seq[Len(seq)].at =>
              \E i \in fwd : seq[i].pkt = own[j].pkt /\ seq[i].at = own[j].at

\* The failed handshakes are those of the packets: a SYN of a connection that
\* no SYN+ACK of either direction answers, in whatever order the pods'
\* buffers bring the two.
HandshakesOrderFree ==
  phase = "events" =>
    LET tcp(i) == events[i].proto = "TCP" /\ events[i].len > 0 /\ events[i].sport # 0
        flow(i) == <<events[i].src, events[i].sport, events[i].dst, events[i].dport>>
        back(f) == <<f[3], f[4], f[1], f[2]>>
        syns == {i \in DOMAIN events : tcp(i) /\ "SYN" \in events[i].flags}
        opens == {flow(i) : i \in {j \in syns : "ACK" \notin events[j].flags}}
        answers == {flow(i) : i \in {j \in syns : "ACK" \in events[j].flags}}
    IN countFailedTCP(events) =
         Cardinality({f \in opens : f \notin answers /\ back(f) \notin answers})

\* The statistics cover the map: what the reply shows of the packets that the
\* summary has seen is counted there, and the buckets hold every packet once.
SummaryCoversView ==
  LET cut == {ev.pkt : ev \in Range(events)} = 0..(clock - 1)
      buckets == summary.buckets
  IN phase = "replied" /\ cut =>
       /\ DOMAIN topo.edges \subseteq DOMAIN summary.edges
       /\ \A k \in DOMAIN topo.edges : topo.edges[k].bytes <= summary.edges[k].bytes
       /\ SumFunction([b \in DOMAIN buckets |-> buckets[b].packets]) = Len(events)
       /\ SumFunction(summary.health) = SumFunction(Counts(summary))
       /\ summary.dropEdges > 0 <=> "dropped" \in DOMAIN summary.health

\* "SampleEventsForGraph keeps the most recent events for topology/graph
\* builds": no packet left out is newer than one kept.  Does not hold: the
\* sample is the tail of a list that is ordered by pod.
SampleIsMostRecent ==
  [][BuildBoundedTopology =>
       \A pod \in DOMAIN buffers : \A ev \in Range(buffers[pod]), kept \in Range(sample') :
         ev \in Range(sample') \/ ev.at < kept.at]_vars

\* "One packet marker" of the ladder per packet and direction.  Does not hold
\* (README, divergences).
OneMarkerPerPacket ==
  phase = "replied" =>
    \A k \in DOMAIN details : \A i, j \in DOMAIN details[k] :
      details[k][i].pkt = details[k][j].pkt => i = j

=============================================================================
