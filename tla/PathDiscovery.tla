---------------------------- MODULE PathDiscovery ----------------------------
(* A request that reads the cluster: the start of a capture, which resolves *)
(* its selections, and POST /api/v1/trace/path (portal/trace_path_handlers. *)
(* go), which verifies the caller's access, resolves two endpoints, builds  *)
(* the graph of the path between them object by object (Catalog.Resolve),   *)
(* searches the shortest route in it (markFocusPath) and replies with the   *)
(* graph and three planes, redacted for a caller who may not list nodes.    *)
(* One action per call of the API server or step of the search; whatever    *)
(* the code takes from a map comes in every order.                          *)
EXTENDS CaptureSelection, TraceGraph

CONSTANTS
  Requests,     \* the requests one of which is sent
  Accessible,   \* the namespaces the caller may list
  EndpointSlices,   \* the choices of EndpointSlices: [Services -> SUBSET Pods]
  Budget        \* how many faults a request of each kind may meet

\* A label selector is the set of the pods that it matches.
ASSUME RequestsAssumption ==
  \A r \in Requests :
    /\ r.kind \in {"capture", "path"} /\ r.sels \in Seq(Range(r.sels))
    /\ r.source.mode \in {"namespace", "ip"} /\ r.destination.mode \in {"namespace", "ip"}
    /\ \A s \in Range(r.sels) \cup {r.source.sel, r.destination.sel} : s.selector \subseteq SUBSET Pods

VARIABLES
  req,     \* the request: [kind, sels, namespaces, source, destination]
  slices,  \* the pods behind each service
  pc,      \* where the handler is
  tc,      \* TraceContext.SanitizeInfra and whether there is a dynamic client
  src, dst,\* the resolved endpoints: [pods, ip]
  work,    \* the pods whose services are to be listed, with the namespaces left
  hits,    \* the services found behind them
  lbs,     \* the load balancers that are still to be wired
  index,   \* loadMetalLBIndex: [pools, ads, peers] as far as they could be read
  g,       \* the graphBuilder's graph
  search,  \* markFocusPath: [queue, visited, best]
  reply    \* the TopologyResult

requestVars == <<req, slices, tc>>
buildVars == <<work, hits, lbs, index>>
vars == <<selectionVars, requestVars, pc, src, dst, buildVars, g, search, reply>>

Unresolved == [pods |-> <<>>, ip |-> {}]
NoIndex == [pools |-> {}, ads |-> {}, peers |-> {}]
NoSearch == [queue |-> <<>>, visited |-> {}, best |-> <<>>]
NoRead == [nads |-> {}, paths |-> {}, bindings |-> {}, reported |-> FALSE]
NoReply == mergeTopology(EmptyGraph, LogicalPlane(EmptyGraph, NoRead), EmptyPlane, EmptyPlane)

Init ==
  /\ req \in Requests
  /\ slices \in IF req.kind = "path" THEN EndpointSlices ELSE {[s \in Services |-> {}]}
  /\ pc = "received"
  /\ tc = [sanitize |-> TRUE, dynamic |-> FALSE]
  /\ src = Unresolved /\ dst = Unresolved
  /\ work = <<>> /\ hits = {} /\ lbs = {} /\ index = NoIndex
  /\ g = EmptyGraph /\ search = NoSearch /\ reply = NoReply
  /\ InitSelection(Budget[req.kind])

At(l) == pc = l
Goto(l) == pc' = l

\* A list whose error the code ignores: it finds nothing then.
Optional(found, Then(_)) ==
  \/ Then(found) /\ NoFault
  \/ found # {} /\ Then({}) /\ Fault({})

(***************************************************************************)
(* Capture start.                                                          *)
(***************************************************************************)
StartCapture ==
  /\ At("received") /\ req.kind = "capture"
  /\ res' = Resolution(req.sels)
  /\ Goto("selecting")
  /\ UNCHANGED <<live, faults, disturbed, requestVars, src, dst, buildVars, g, search, reply>>

CaptureSelected ==
  /\ At("selecting") /\ res.status \in {"done", "failed"}
  /\ Goto(res.status)
  /\ UNCHANGED <<selectionVars, requestVars, src, dst, buildVars, g, search, reply>>

(***************************************************************************)
(* Access and endpoints of a path request.                                 *)
(***************************************************************************)
ValidateEndpoint(ep) == ep.mode = "namespace" => ep.sel.ns \in Accessible
ValidateEndpoints(r) == ValidateEndpoint(r.source) /\ ValidateEndpoint(r.destination)
VerifyNamespaces(r) == r.namespaces # {} /\ r.namespaces \subseteq Accessible

VerifyAccess ==
  /\ At("received") /\ req.kind = "path"
  /\ \/ /\ NoFault /\ VerifyNamespaces(req) /\ ValidateEndpoints(req)
        /\ \E visible \in BOOLEAN : tc' = [sanitize |-> ~visible, dynamic |-> TRUE]
        /\ Goto("source")
     \/ /\ Fault({}) /\ VerifyNamespaces(req) /\ ValidateEndpoints(req)
        /\ \E visible \in BOOLEAN : tc' = [sanitize |-> ~visible, dynamic |-> FALSE]
        /\ Goto("source")
     \/ Fault({}) /\ Goto("failed") /\ UNCHANGED tc
     \/ /\ ~(VerifyNamespaces(req) /\ ValidateEndpoints(req))
        /\ NoFault /\ UNCHANGED tc /\ Goto("failed")
  /\ UNCHANGED <<live, res, req, slices, src, dst, buildVars, g, search, reply>>

AskedEndpoint == IF At("source") THEN req.source ELSE req.destination
SetEndpoint(r) ==
  IF At("source") THEN src' = r /\ UNCHANGED dst /\ Goto("destination")
                  ELSE dst' = r /\ UNCHANGED src /\ Goto("seed")

IpNode(addr, matched) ==
  IF addr = "external" THEN [id |-> <<"external", "", "destination">>, kind |-> "external"]
  ELSE [id |-> <<"ip", "", addr>>, kind |-> IF matched = {} THEN "external" ELSE "pod-ip"]

findPodsByIP(addr) ==
  {p \in Pods \cap {addr} : live[p] # 0 /\ NsOf[p] \in req.namespaces}

\* findPodsByIP skips a namespace whose pods it cannot list.
ResolveIPEndpoint ==
  /\ pc \in {"source", "destination"} /\ AskedEndpoint.mode = "ip"
  /\ IF AskedEndpoint.ip = "invalid"
     THEN Goto("failed") /\ NoFault /\ UNCHANGED <<src, dst>>
     ELSE LET addr == AskedEndpoint.ip
              resolved(matched) ==
                SetEndpoint([pods |-> SetToSeq(matched), ip |-> {IpNode(addr, matched)}])
          IN Optional(findPodsByIP(addr), resolved)
  /\ UNCHANGED <<live, res, requestVars, buildVars, g, search, reply>>

ResolveNamespaceEndpoint ==
  /\ pc \in {"source", "destination"} /\ AskedEndpoint.mode = "namespace"
  /\ res.status = "idle"
  /\ res' = Resolution(<<AskedEndpoint.sel>>)
  /\ UNCHANGED <<live, faults, disturbed, requestVars, pc, src, dst, buildVars, g, search, reply>>

EndpointSelected ==
  /\ pc \in {"source", "destination"} /\ res.status \in {"done", "failed"}
  /\ IF res.status = "failed" \/ res.found = <<>>
     THEN Goto("failed") /\ UNCHANGED <<src, dst>>
     ELSE SetEndpoint([pods |-> FoundPods, ip |-> {}])
  /\ res' = Idle
  /\ UNCHANGED <<live, faults, disturbed, requestVars, buildVars, g, search, reply>>

\* namespacesForScope
Scope == req.namespaces \cup {NsOf[p] : p \in Range(src.pods) \cup Range(dst.pods)}

Seed ==
  /\ At("seed")
  /\ g' = seedEndpoints(src, dst)
  /\ LET pending(role, pods) == [i \in DOMAIN pods |-> [pod |-> pods[i], role |-> role, left |-> Scope]]
     IN work' = pending("source", src.pods) \o pending("destination", dst.pods)
  /\ Goto("services")
  /\ UNCHANGED <<selectionVars, requestVars, src, dst, hits, lbs, index, search, reply>>

(***************************************************************************)
(* The objects of the cluster.                                             *)
(***************************************************************************)
serviceTargetsPod(s, p) == p \in slices[s]

\* Services of one namespace of the scope, which is a map.  A failed list
\* fails the request, failed slices leave the service out.
ListServices ==
  /\ At("services") /\ work # <<>> /\ Head(work).left # {}
  /\ \E ns \in Head(work).left :
       LET p == Head(work).pod
           found(ss) == /\ hits' = hits \cup ss
                        /\ g' = FoldLeft(LAMBDA h, s : ServiceHit(h, s, p), g, SetToSeq(ss))
                        /\ work' = [work EXCEPT ![1].left = @ \ {ns}]
                        /\ UNCHANGED pc
       IN \/ Optional({s \in Services : s.ns = ns /\ serviceTargetsPod(s, p)}, found)
          \/ Fault({}) /\ Goto("failed") /\ UNCHANGED <<hits, g, work>>
  /\ UNCHANGED <<live, res, requestVars, src, dst, lbs, index, search, reply>>

NadsOf(p) == {n \in Nads : tc.dynamic /\ n.ns = NsOf[p] /\ p \in n.pods /\ live[p] # 0}

\* After its services, a source's secondary networks.
FinishPod ==
  /\ At("services") /\ work # <<>> /\ Head(work).left = {}
  /\ LET p == Head(work).pod
         attach(ns) == g' = FoldLeft(LAMBDA h, n : AttachNad(h, n, p), g, SetToSeq(ns))
     IN IF Head(work).role = "source" THEN Optional(NadsOf(p), attach) ELSE NoFault /\ UNCHANGED g
  /\ work' = Tail(work)
  /\ UNCHANGED <<live, res, requestVars, pc, src, dst, hits, lbs, index, search, reply>>

\* A service is looked up by its name alone.
FindRoutes ==
  /\ At("services") /\ work = <<>>
  /\ LET found == {r \in Routes : /\ tc.dynamic /\ src.pods # <<>> /\ r.ns = NsOf[src.pods[1]]
                                  /\ \E s \in hits : s.name = r.to}
     IN Optional(found, LAMBDA rs : g' = FoldLeft(RouteHit, g, SetToSeq(rs)))
  /\ Goto("metallb")
  /\ UNCHANGED <<live, res, requestVars, src, dst, buildVars, search, reply>>

LoadMetalLBIndex ==
  /\ At("metallb")
  /\ LET whole == [pools |-> UNION {s.pools : s \in Services}, ads |-> Ads, peers |-> Peers]
     IN IF ~tc.dynamic THEN index' = NoIndex /\ NoFault
        ELSE \/ index' = whole /\ NoFault
             \/ /\ index' \in {[whole EXCEPT !.pools = {}], [whole EXCEPT !.ads = {}],
                               [whole EXCEPT !.peers = {}]}
                /\ Fault({})
  /\ lbs' = {s \in hits : tc.dynamic /\ s.type = "loadbalancer" /\ s.vip}
  /\ Goto("wire")
  /\ UNCHANGED <<live, res, requestVars, src, dst, work, hits, g, search, reply>>

\* The annotation names the pool, whether or not it was read.
resolvePoolForVIP(s) == IF s.pool # "" THEN {s.pool} ELSE s.pools \cap index.pools

WireLoadBalancer ==
  /\ At("wire")
  /\ \E s \in lbs :
       /\ lbs' = lbs \ {s}
       /\ IF resolvePoolForVIP(s) = {} THEN g' = wireMetalLBVIPOnly(g, s)
          ELSE \E pool \in resolvePoolForVIP(s) : g' = WirePool(g, s, pool, index)
  /\ UNCHANGED <<selectionVars, requestVars, pc, src, dst, work, hits, index, search, reply>>

FindEgress ==
  /\ At("wire") /\ lbs = {}
  /\ IF ~tc.dynamic \/ src.pods = <<>> THEN UNCHANGED g /\ NoFault
     ELSE \E dest \in destIDs(dst) :
       LET p == src.pods[1]
           egress(items) ==
             LET ips == FoldLeft(LAMBDA h, i : EgressIPHit(h, i, p, dest), g,
                                 SetToSeq({i \in items \cap EgressIPs : InScope(i, Scope)}))
                 all == FoldLeft(LAMBDA h, i : EgressServiceHit(h, i, p), ips,
                                 SetToSeq({i \in items \cap EgressServices : i.ns \in Scope}))
             IN g' = HostChain(all, p, dest)
       IN \/ egress(EgressIPs \cup EgressServices) /\ NoFault
          \/ egress(EgressServices) /\ Fault({})
          \/ egress(EgressIPs) /\ Fault({})
  /\ Goto("focus")
  /\ UNCHANGED <<live, res, requestVars, src, dst, buildVars, search, reply>>

(***************************************************************************)
(* markFocusPath: breadth first from every source at once.                 *)
(***************************************************************************)
Orders(S) == {o \in [1..Cardinality(S) -> S] : Range(o) = S}

StartSearch ==
  /\ At("focus")
  /\ IF sourceIDs(src) = {} THEN Goto("reply") /\ UNCHANGED search
     ELSE /\ \E o \in Orders(sourceIDs(src)) :
               search' = [queue |-> [i \in DOMAIN o |-> <<o[i]>>], visited |-> Range(o), best |-> <<>>]
          /\ Goto("search")
  /\ UNCHANGED <<selectionVars, requestVars, src, dst, buildVars, g, reply>>

Other(e, id) == IF e.from = id THEN e.to ELSE e.from

\* Mutant: what is found last is looked at first.
VisitDepthFirst(s, path) ==
  FoldLeft(LAMBDA acc, e :
             IF Last(path) \in {e.from, e.to} /\ Other(e, Last(path)) \notin acc.visited
             THEN [acc EXCEPT !.visited = @ \cup {Other(e, Last(path))},
                              !.queue = <<Append(path, Other(e, Last(path)))>> \o @]
             ELSE acc,
           [s EXCEPT !.queue = Tail(@)], g.edges)

\* One step of the loop: the neighbours of the head in the order of edges.
Visit(s, path) ==
  FoldLeft(LAMBDA acc, e :
             IF Last(path) \in {e.from, e.to} /\ Other(e, Last(path)) \notin acc.visited
             THEN [acc EXCEPT !.visited = @ \cup {Other(e, Last(path))},
                              !.queue = Append(@, Append(path, Other(e, Last(path))))]
             ELSE acc,
           [s EXCEPT !.queue = Tail(@)], g.edges)

SearchStep ==
  /\ At("search") /\ search.queue # <<>> /\ search.best = <<>>
  /\ search' = IF Last(Head(search.queue)) \in destIDs(dst)
               THEN [search EXCEPT !.best = Head(search.queue)]
               ELSE Visit(search, Head(search.queue))
  /\ UNCHANGED <<selectionVars, requestVars, pc, src, dst, buildVars, g, reply>>

MarkFocus ==
  /\ At("search")
  /\ search.best # <<>> \/ search.queue = <<>>
  /\ g' = IF Len(search.best) < 2 THEN MarkEndpoints(g, sourceIDs(src), destIDs(dst))
          ELSE MarkPath(g, search.best)
  /\ search' = NoSearch
  /\ Goto("reply")
  /\ UNCHANGED <<selectionVars, requestVars, src, dst, buildVars, reply>>

(***************************************************************************)
(* The planes and the reply.                                               *)
(***************************************************************************)
AttachmentsOf(pods) == UNION {NadsOf(p) : p \in pods}

MetalLBPaths(namespaces) ==
  {[ns |-> s.ns, name |-> s.name] :
     s \in {t \in Services : tc.dynamic /\ t.ns \in namespaces /\ t.type = "loadbalancer" /\ t.vip}}

\* Every egress address of the cluster: its selector is taken to match.
EgressBindings == IF tc.dynamic THEN {i.name : i \in EgressIPs} ELSE {}

PlaneReads(pods) ==
  LET namespaces == {NsOf[p] : p \in pods}
      read == [nads |-> AttachmentsOf(pods), paths |-> MetalLBPaths(namespaces),
               bindings |-> EgressBindings, reported |-> tc.dynamic]
  IN  [whole |-> read,
       lowered |-> {[read EXCEPT !.nads = AttachmentsOf(pods \ {p})] : p \in pods}
            \cup {[read EXCEPT !.paths = MetalLBPaths(namespaces \ {ns})] : ns \in namespaces}
            \cup {[read EXCEPT !.bindings = {}], [read EXCEPT !.reported = FALSE]}]

ApplyTraceSanitization(topo) == IF tc.sanitize THEN SanitizeTopologyResult(topo) ELSE topo

\* Resolve takes the first source pod; there may be none.
TakeTargetPod ==
  /\ At("reply") /\ src.pods = <<>>
  /\ Goto("panicked")
  /\ UNCHANGED <<selectionVars, requestVars, src, dst, buildVars, g, search, reply>>

Reply ==
  /\ At("reply") /\ src.pods # <<>>
  /\ LET hosts == collectNodeNames(src, dst)
         asked == SelectSeq(src.pods \o dst.pods, LAMBDA p : NodeOf[p] # "")
         first == IF asked = <<>> THEN {} ELSE {NodeOf[Head(asked)]}
         reads == PlaneReads(Range(src.pods) \cup Range(dst.pods))
         built(read) ==
           reply' = ApplyTraceSanitization(
             mergeTopology(simplifyGraph(g), LogicalPlane(simplifyGraph(g), read),
                           InfrastructurePlane(hosts, first), PhysicalPlane(hosts, read.reported)))
     IN \/ built(reads.whole) /\ NoFault
        \/ tc.dynamic /\ (\E read \in reads.lowered : built(read)) /\ Fault({})
  /\ Goto("done")
  /\ UNCHANGED <<live, res, requestVars, src, dst, buildVars, g, search>>

(***************************************************************************)
Reading == pc \in {"selecting", "source", "destination", "services"}

Churn ==
  /\ Reading
  /\ \E p \in Pods : Recreate(p) \/ DeletePod(p)
  /\ UNCHANGED <<requestVars, pc, src, dst, buildVars, g, search, reply>>

Select ==
  /\ SelectionStep
  /\ UNCHANGED <<requestVars, pc, src, dst, buildVars, g, search, reply>>

Ended == pc \in {"done", "failed", "panicked"} /\ UNCHANGED vars

Next ==
  \/ StartCapture \/ CaptureSelected
  \/ VerifyAccess \/ ResolveIPEndpoint \/ ResolveNamespaceEndpoint \/ EndpointSelected \/ Seed
  \/ ListServices \/ FinishPod \/ FindRoutes \/ LoadMetalLBIndex \/ WireLoadBalancer \/ FindEgress
  \/ StartSearch \/ SearchStep \/ MarkFocus \/ TakeTargetPod \/ Reply
  \/ Select \/ Churn \/ Ended

Spec == Init /\ [][Next]_vars

(***************************************************************************)
(* Properties.                                                             *)
(***************************************************************************)
Asked == IF req.kind = "capture" THEN req.sels ELSE <<AskedEndpoint.sel>>

\* The owners of a pod as a user sees them: what its references name, and the
\* Deployment above its ReplicaSet.
OwnedBy(p, owner) ==
  \E r \in Range(OwnerRefs[p]) :
    \/ r = owner
    \/ /\ r.kind = "ReplicaSet" /\ r.name \in DOMAIN DeploymentOf
       /\ owner = [kind |-> "Deployment", name |-> DeploymentOf[r.name]]

\* An owner selection lists the pod, or a pod selection names it and no
\* selected owner owns it.
Selected(p) ==
  LET owned == {o \in Range(Owners(Asked)) : o.ns = NsOf[p] /\ OwnedBy(p, o.owner)}
      lists(o) == p \in UNION (IF o.selector # {} THEN o.selector ELSE controllerLabelSelector(o))
  IN  IF owned # {} THEN \E o \in owned : lists(o)
      ELSE \E s \in Range(Asked) : s.type = "pod" /\ s.pod = p /\ s.ns = NsOf[p]

\* However selections overlap and whatever happens to other pods meanwhile, a
\* resolution holds each undisturbed pod exactly if it is selected, once and
\* with the uid it has, and some target stands for it (k8s/capture_resolve.go:41).
SelectionHonoured ==
  res.status = "done" =>
    \A p \in Pods \ disturbed :
      LET at == {i \in DOMAIN res.found : res.found[i].pod = p}
      IN  IF Selected(p)
          THEN /\ Cardinality(at) = 1 /\ \A i \in at : res.found[i].uid = live[p]
               /\ \E t \in Range(res.targets) : t.ns = NsOf[p] /\ (OwnedBy(p, t.owner) \/ t.pod = p)
          ELSE at = {}

Touching(ids) == {e \in Range(g.edges) : e.from \in ids \/ e.to \in ids}
Near(ids) == ids \cup {e.from : e \in Touching(ids)} \cup {e.to : e \in Touching(ids)}
Ball[k \in Nat] == IF k = 0 THEN sourceIDs(src) ELSE Near(Ball[k - 1])
Layer(k) == IF k = 0 THEN Ball[0] ELSE Ball[k] \ Ball[k - 1]
Focused == {id \in DOMAIN g.nodes : g.nodes[id].focused}
Joined(a, b) == \E e \in Range(g.edges) : e.primary /\ {e.from, e.to} = {a, b}

\* Whatever order the cluster's objects came in, the focus is one shortest route
\* from a source to a destination, node by node and edge by edge; without a
\* route, or when an endpoint is both, it is the endpoints (trace/path_focus.go:4).
FocusIsShortestPath ==
  At("reply") /\ sourceIDs(src) # {} =>
    LET far == Cardinality(DOMAIN g.nodes)
        met == {k \in 0..far : Ball[k] \cap destIDs(dst) # {}}
    IN  IF met = {} \/ 0 \in met THEN Focused = sourceIDs(src) \cup destIDs(dst)
        ELSE /\ Cardinality(Focused) = Min(met) + 1
             /\ Focused \cap destIDs(dst) # {}
             /\ \A k \in 0..Min(met) : Focused \cap Layer(k) # {}
             /\ \A k \in 1..Min(met) : \E a \in Focused \cap Layer(k - 1), b \in Focused \cap Layer(k) : Joined(a, b)

Ends(edges) == {e.from : e \in edges} \cup {e.to : e \in edges}

\* A reply's graph holds every endpoint, all of the focus unless it is redacted
\* and no edge to a node it does not hold; neither it nor the MetalLB paths have
\* anything of a namespace the caller may not list, although routes name services
\* by guess and the graph's egress addresses are listed cluster-wide
\* (trace/graph_simplify.go:14, trace/catalog.go:225, 276, engine/logical.go:186).
ReplyIsWhole ==
  At("done") /\ req.kind = "path" =>
    LET ids == DOMAIN reply.graph.nodes
    IN  /\ sourceIDs(src) \cup destIDs(dst) \subseteq ids
        /\ tc.sanitize \/ Focused \subseteq ids
        /\ Ends(Range(reply.graph.edges)) \subseteq ids
        /\ Ends(reply.edges) \subseteq {n.id : n \in reply.nodes}
        /\ \A id \in ids : reply.graph.nodes[id].ns \in Accessible \cup {""} \cup MetalLBNamespaces
        /\ \A s \in reply.logical.paths : s.ns \in Accessible

\* What names the hosts, their network or MetalLB's peers.
InfraIds == {"node", "node:", "bond", "ovn", "ovs", "lr", "ls", "iface", "nmstate", "nad",
             "bgp-peer", "metallb-ad"}

\* A caller who may not list nodes, or whose review failed, is shown no such id
\* as a node or as the end of an edge, by the graph or by the merged planes.  The
\* two were filtered by rules of their own and differ in this alone: the merged
\* planes keep the address pools and the secondary networks, which the graph
\* drops (rbac/sanitize.go:11).
RedactedListsAgree ==
  At("done") /\ req.kind = "path" /\ tc.sanitize =>
    LET shown == DOMAIN reply.graph.nodes
        merged == {n.id : n \in reply.nodes}
    IN  /\ shown \subseteq merged
        /\ \A id \in merged \ shown : id[1] \in {"metallb-pool", "nad:"}
        /\ \A id \in shown \cup Ends(Range(reply.graph.edges)) : id[1] \notin InfraIds \cup {"metallb-pool", "nad:"}
        /\ \A id \in merged \cup Ends(reply.edges) : id[1] \notin InfraIds

(***************************************************************************)
(* What the code does not keep (README, divergences).                      *)
(***************************************************************************)
\* A source that is an address of no pod is let through by catalog.go:55, and
\* taken for a pod at line 98.
EveryRequestIsAnswered == pc # "panicked"

\* A redacted reply has no node of a kind that the redaction itself counts as
\* infrastructure (rbac/sanitize.go:10): the merged planes keep address pools.
MergedNodesAreRedacted ==
  At("done") /\ req.kind = "path" /\ tc.sanitize =>
    \A n \in reply.nodes : ~isInfraKind(n.kind)

\* The logical plane that is returned beside them names no host either
\* (rbac/sanitize.go:10): it is the one of before the redaction.
LogicalIsRedacted ==
  At("done") /\ req.kind = "path" /\ tc.sanitize =>
    \A n \in reply.logical.nodes : n.id[1] \notin InfraIds \ {"nad"}

\* Nor do the states of the edges (rbac/sanitize.go:10): they are kept under the
\* ids of the edges of every plane, which name hosts and interfaces.
StatesAreRedacted ==
  At("done") /\ req.kind = "path" /\ tc.sanitize =>
    \A id \in reply.states : id[1] \notin {"bind", "cfg"}

\* An explicitly selected, undisturbed pod is captured: not when an owner selection
\* covers it whose own selector leaves it out (k8s/capture_resolve.go:134).
NamedPodIsCaptured ==
  res.status = "done" /\ req.kind = "capture" =>
    \A s \in Range(Asked) :
      s.type = "pod" /\ s.pod \notin disturbed => s.pod \in Range(FoundPods)
=============================================================================
