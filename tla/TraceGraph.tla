----------------------------- MODULE TraceGraph -----------------------------
(* The graph of a network path: what each object of the cluster adds to it *)
(* (internal/trace/graph_builder.go, catalog.go, metallb_trace.go), how it *)
(* is simplified (graph_simplify.go), what the three planes of the engine  *)
(* make of it (internal/trace/engine) and what a tenant is shown of that   *)
(* (internal/rbac/sanitize.go).                                            *)
(*                                                                         *)
(* A graph is a function from ids to nodes and a sequence of edges.  An id *)
(* is <<kind, namespace, name>> as nodeID joins them.  Labels, details,    *)
(* ranks, path summaries and the layout are left out.                      *)
EXTENDS KubeCluster, SequencesExt

EmptyGraph == [nodes |-> <<>>, edges |-> <<>>]

addNode(g, n) ==
  IF n.id \in DOMAIN g.nodes THEN g
  ELSE [g EXCEPT !.nodes = [id \in DOMAIN @ \cup {n.id} |->
          IF id \in DOMAIN @ THEN @[id]
          ELSE [kind |-> n.kind, ns |-> n.id[2], tracked |-> n.tracked, focused |-> FALSE]]]

addEdge(g, e) ==
  IF \/ e.from = e.to
     \/ \E f \in Range(g.edges) : f.from = e.from /\ f.to = e.to /\ f.type = e.type
  THEN g
  ELSE [g EXCEPT !.edges = Append(@, e)]

Extend(g, ns, es) == FoldLeft(addEdge, FoldLeft(addNode, g, ns), es)

Node(id, kind) == [id |-> id, kind |-> kind, tracked |-> FALSE]
Edge(from, to, type) == [from |-> from, to |-> to, type |-> type, primary |-> FALSE]

podNodeID(p) == <<"pod", NsOf[p], p>>
hostID(w) == <<"node", "", w>>
serviceID(ns, name) == <<"service", ns, name>>

Ids(pods) == {podNodeID(p) : p \in Range(pods)}
sourceIDs(src) == Ids(src.pods)
destIDs(dst) == Ids(dst.pods) \cup {n.id : n \in dst.ip}

(***************************************************************************)
(* What discovery adds.                                                    *)
(***************************************************************************)
Endpoint(g, p) == addNode(g, [id |-> podNodeID(p), kind |-> "pod", tracked |-> TRUE])

SourceEndpoint(g, p) ==
  IF NodeOf[p] = "" THEN Endpoint(g, p)
  ELSE Extend(Endpoint(g, p), <<Node(hostID(NodeOf[p]), "node")>>,
              <<Edge(podNodeID(p), hostID(NodeOf[p]), "scheduled")>>)

seedEndpoints(src, dst) ==
  LET pods == FoldLeft(Endpoint, FoldLeft(SourceEndpoint, EmptyGraph, src.pods), dst.pods)
  IN  FoldLeft(addNode, pods, SetToSeq({[id |-> n.id, kind |-> n.kind, tracked |-> TRUE] : n \in dst.ip}))

serviceKind(svc) ==
  CASE svc.type = "loadbalancer" -> "service-loadbalancer"
    [] svc.type = "nodeport" -> "service-nodeport"
    [] OTHER -> "service-clusterip"

ServiceHit(g, svc, p) ==
  Extend(g, <<Node(serviceID(svc.ns, svc.name), serviceKind(svc))>>,
            <<Edge(serviceID(svc.ns, svc.name), podNodeID(p), "direct")>>)

AttachNad(g, nad, p) ==
  Extend(g, <<Node(<<"nad", NsOf[p], nad.name>>, "nad")>>,
            <<Edge(podNodeID(p), <<"nad", NsOf[p], nad.name>>, "direct")>>)

RouteHit(g, r) ==
  LET id == <<"route", r.ns, r.name>>  client == <<"external", "", "client-route">>
  IN  Extend(g, <<Node(id, "route"), Node(client, "external-client")>>,
                <<Edge(id, serviceID(r.ns, r.to), "https"), Edge(client, id, "ingress")>>)

\* Every edge that MetalLB adds is marked as primary.
Primary(from, to, type) == [Edge(from, to, type) EXCEPT !.primary = TRUE]
LbID(svc) == <<"loadbalancer", svc.ns, svc.name \o "-vip">>
LbClient == <<"external", "", "client-lb">>

wireMetalLBVIPOnly(g, svc) ==
  Extend(g, <<Node(LbID(svc), "loadbalancer-external"), Node(LbClient, "external-client")>>,
            <<Primary(LbID(svc), serviceID(svc.ns, svc.name), "direct"),
              Primary(LbClient, LbID(svc), "ingress")>>)

advertisementsForPool(ads, pool) == {a \in ads : pool \in a.pools \/ a.pools = {}}
peersForAdvertisement(ad, peers) == IF ad.peers = {} THEN peers ELSE ad.peers \cap peers

AddPeer(g, ad, peer) ==
  Extend(g, <<Node(<<"bgp-peer", "metallb-system", peer>>, "bgp-peer")>>,
            <<Primary(<<"metallb-ad", ad.ns, ad.name>>, <<"bgp-peer", "metallb-system", peer>>, "direct")>>)

AddAd(g, poolID, ad, peers) ==
  LET id == <<"metallb-ad", ad.ns, ad.name>>
      advertised == Extend(g, <<Node(id, "metallb-advertisement")>>, <<Primary(poolID, id, "direct")>>)
  IN  FoldLeft(LAMBDA h, peer : AddPeer(h, ad, peer), advertised,
               SetToSeq(peersForAdvertisement(ad, peers)))

WirePool(g, svc, pool, index) ==
  LET poolID == <<"metallb-pool", "metallb-system", pool>>
      pooled == Extend(g,
        <<Node(poolID, "metallb-pool"), Node(LbID(svc), "loadbalancer-external"),
          Node(LbClient, "external-client")>>,
        <<Primary(LbID(svc), poolID, "direct"), Primary(poolID, serviceID(svc.ns, svc.name), "direct"),
          Primary(LbClient, LbID(svc), "ingress")>>)
  IN  FoldLeft(LAMBDA h, ad : AddAd(h, poolID, ad, index.peers), pooled,
               SetToSeq(advertisementsForPool(index.ads, pool)))

EgressIPHit(g, item, p, dest) ==
  LET id == <<"egressip", "", item.name>>
      seen == addNode(g, Node(id, "egressip"))
      placed == IF seen = g THEN g ELSE [seen EXCEPT !.nodes[id].ns = item.ns]
  IN  Extend(placed, <<>>, <<Edge(podNodeID(p), id, "egress"), Edge(id, dest, "egress")>>)

\* Mutant: the namespace of an egress address is not looked at.
InAnyScope(item, scope) == TRUE

InScope(item, scope) == item.ns = "" \/ item.ns \in scope

EgressServiceHit(g, item, p) ==
  LET id == <<"egressservice", item.ns, item.name>>
  IN  Extend(g, <<Node(id, "egressservice")>>,
             IF item.ns = NsOf[p] THEN <<Edge(podNodeID(p), id, "egressservice")>> ELSE <<>>)

\* The host chain of a scheduled source: port, node, bond, destination.
HostChain(g, p, dest) ==
  LET ovn == <<"ovn", NsOf[p], p>>  host == hostID(NodeOf[p])
      bond == <<"bond", "", NodeOf[p] \o "-bond0">>
  IN  IF NodeOf[p] = "" THEN g
      ELSE Extend(g, <<Node(ovn, "ovn-logical-port"), Node(bond, "bond")>>,
                  <<Edge(podNodeID(p), ovn, "direct"), Edge(ovn, host, "direct"),
                    Edge(host, bond, "host"), Edge(bond, dest, "egress")>>)

(***************************************************************************)
(* The focused path and what is kept of the graph.                         *)
(***************************************************************************)
OnPath(best, e) ==
  \E i \in 1..Len(best) - 1 : {e.from, e.to} = {best[i], best[i + 1]}

Focus(g, ids, IsPrimary(_)) ==
  [nodes |-> [id \in DOMAIN g.nodes |-> [g.nodes[id] EXCEPT !.focused = id \in ids]],
   edges |-> [i \in DOMAIN g.edges |-> [g.edges[i] EXCEPT !.primary = @ \/ IsPrimary(g.edges[i])]]]

MarkPath(g, best) == Focus(g, Range(best), LAMBDA e : OnPath(best, e))

MarkEndpoints(g, sources, dests) ==
  Focus(g, sources \cup dests, LAMBDA e : e.from \in sources /\ e.to \in dests)

layerForKind(kind) ==
  IF kind \in {"node", "bond", "host-veth", "vrf", "nad", "ovn-logical-port",
               "bgp-peer", "metallb-advertisement"}
  THEN "physical" ELSE "logical"

Within(g, ids) ==
  [nodes |-> [id \in DOMAIN g.nodes \cap ids |-> g.nodes[id]],
   edges |-> FoldLeft(LAMBDA kept, e : IF e.from \in ids /\ e.to \in ids THEN Append(kept, e) ELSE kept,
                      <<>>, g.edges)]

simplifyGraph(g) ==
  LET marked == {id \in DOMAIN g.nodes : g.nodes[id].tracked \/ g.nodes[id].focused}
      primary == {e \in Range(g.edges) : e.primary}
  IN  Within(g, marked \cup {e.from : e \in primary} \cup {e.to : e \in primary})

(***************************************************************************)
(* The planes of the engine, and the redaction of a tenant's view.         *)
(***************************************************************************)
PlaneNode(id, kind, layer, sensitive) ==
  [id |-> id, kind |-> kind, layer |-> layer, sensitive |-> sensitive]
PlaneEdge(id, from, to, layer) == [id |-> id, from |-> from, to |-> to, layer |-> layer]

collectNodeNames(src, dst) == {NodeOf[p] : p \in Range(src.pods) \cup Range(dst.pods)} \ {""}

\* What is read of the cluster for the planes: the NADs of the pods, the load
\* balancers, the egress addresses and whether NMState could be read.  The
\* graph's edges are numbered; a number names nothing.
LogicalPlane(g, read) ==
  [nodes |-> {PlaneNode(id, g.nodes[id].kind, layerForKind(g.nodes[id].kind), FALSE) : id \in DOMAIN g.nodes}
       \cup {PlaneNode(<<"nad:", n.ns, n.name>>, "nad", "logical", FALSE) : n \in read.nads},
   edges |-> {PlaneEdge(<<"e", "", "">>, e.from, e.to, "logical") : e \in Range(g.edges)},
   paths |-> read.paths,
   bindings |-> read.bindings]

\* The portal's engine simulates OVN; it has no flow dumper, hence no edges.
InfrastructurePlane(hosts, first) ==
  [nodes |-> {PlaneNode(<<"ovs", w, br>>, "ovs-bridge", "infrastructure", TRUE) : w \in hosts, br \in {"br-int", "br-ext"}}
       \cup {PlaneNode(<<"lr", "", "ovn-cluster-router">>, "logical-router", "infrastructure", TRUE)}
       \cup {PlaneNode(<<"ls", "", l>>, "logical-switch", "infrastructure", TRUE)
               : l \in {"ovn-cluster"} \cup {"join-" \o w : w \in first}},
   edges |-> {}]

PhysicalPlane(hosts, reported) ==
  LET host(w) == <<"node:", "", w>>
      below(w) == {<<"iface", w, i>> : i \in Interfaces} \cup {<<"nmstate", "", w>>}
      items(w) == IF reported THEN below(w) ELSE {}
      edgeID(w, id) == IF id[1] = "iface" THEN <<"bind", w, id[3]>> ELSE <<"cfg", "", w>>
  IN  [nodes |-> {PlaneNode(host(w), "node", "physical", TRUE) : w \in hosts}
            \cup UNION {{PlaneNode(id, id[1], "physical", TRUE) : id \in items(w)} : w \in hosts},
       edges |-> UNION {{PlaneEdge(edgeID(w, id), host(w), id, "physical") : id \in items(w)} : w \in hosts}]

\* The state of every edge is kept under the edge's id.
mergeTopology(g, logical, infra, physical) ==
  LET edges == logical.edges \cup infra.edges \cup physical.edges
  IN  [graph |-> g, logical |-> logical, infra |-> infra, physical |-> physical,
       nodes |-> logical.nodes \cup infra.nodes \cup physical.nodes,
       edges |-> edges, states |-> {e.id : e \in edges}]

isInfraKind(kind) ==
  kind \in {"node", "bond", "host-veth", "vrf", "bgp-peer", "metallb-pool",
            "metallb-advertisement", "ovs-bridge", "logical-switch", "logical-router"}

\* Mutant: what is not marked as sensitive is shown, on whatever layer.
FilterSensitive(nodes) == {n \in nodes : ~n.sensitive}

filterNodes(nodes) == {n \in nodes : ~n.sensitive /\ n.layer = "logical"}

filterEdges(nodes, edges) ==
  LET allowed == {n.id : n \in filterNodes(nodes)}
  IN  {e \in edges : e.layer = "logical" /\ e.from \in allowed /\ e.to \in allowed}

sanitizeTraceGraph(g) ==
  Within(g, {id \in DOMAIN g.nodes :
               layerForKind(g.nodes[id].kind) # "physical" /\ ~isInfraKind(g.nodes[id].kind)})

EmptyPlane == [nodes |-> {}, edges |-> {}]

\* The logical plane and the states stay as they are.
SanitizeTopologyResult(topo) ==
  [topo EXCEPT !.infra = EmptyPlane, !.physical = EmptyPlane,
               !.nodes = filterNodes(@), !.edges = filterEdges(topo.nodes, @),
               !.graph = sanitizeTraceGraph(@)]
=============================================================================
