--------------------------- MODULE MCPathDiscovery ---------------------------
(* Two pods of a Deployment in n1, one of them unscheduled, and a pod of a  *)
(* StatefulSet in n2, and a pod of no owner in n1; two services of one name *)
(* in the two namespaces; an egress address of n1 and one of n3, which the  *)
(* caller may not list.                                                     *)
EXTENDS PathDiscovery

MCPods == {"a1", "a2", "b", "c"}
MCNsOf == [a1 |-> "n1", a2 |-> "n1", b |-> "n2", c |-> "n1"]
MCNodeOf == [a1 |-> "w1", a2 |-> "", b |-> "w2", c |-> "w2"]
RS == [kind |-> "ReplicaSet", name |-> "web-1"]
Web == [kind |-> "Deployment", name |-> "web"]
Db == [kind |-> "StatefulSet", name |-> "db"]
MCOwnerRefs == [a1 |-> <<RS>>, a2 |-> <<RS>>, b |-> <<Db>>, c |-> <<>>]
MCDeploymentOf == [x \in {"web-1"} |-> "web"]
MCSelectorOf == (<<"n1", Web>> :> {"a1", "a2"}) @@ (<<"n2", Db>> :> {"b"})

Shop == [ns |-> "n1", name |-> "web", type |-> "loadbalancer", vip |-> TRUE, pool |-> "", pools |-> {"p1"}]
Inner == [ns |-> "n2", name |-> "web", type |-> "clusterip", vip |-> FALSE, pool |-> "", pools |-> {}]
MCServices == {Shop, Inner}
MCEndpoints == {[s \in MCServices |-> IF s = Shop THEN f ELSE k] :
                  f \in {{}, {"a1"}, {"a2", "b"}}, k \in {{}, {"a2", "b"}}}
MCRoutes == {[ns |-> "n1", name |-> "shop", to |-> "web"]}
MCNads == {[ns |-> "n1", name |-> "fast", pods |-> {"a1"}]}
MCEgressIPs == {[name |-> "eip3", ns |-> "n3"], [name |-> "eip1", ns |-> "n1"]}
MCEgressServices == {[ns |-> "n1", name |-> "es"]}
MCAds == {[ns |-> "metallb-system", name |-> "bgp", pools |-> {"p1"}, peers |-> {"tor"}],
          [ns |-> "metallb-system", name |-> "l2", pools |-> {}, peers |-> {}]}

Owner(ns, o, selector) == [type |-> "owner", ns |-> ns, owner |-> o, pod |-> "", selector |-> selector]
Pod(ns, p) == [type |-> "pod", ns |-> ns, owner |-> NoOwner, pod |-> p, selector |-> {}]
Selections == {Owner("n1", Web, {}), Owner("n1", Web, {{"a1"}}), Owner("n2", Db, {}),
               Pod("n1", "a2"), Pod("n1", "c"), Pod("n2", "b"), Pod("n1", "b")}

ByName(sel) == [mode |-> "namespace", sel |-> sel, ip |-> ""]
ByIP(addr) == [mode |-> "ip", sel |-> Pod("", ""), ip |-> addr]

CaptureRequests ==
  [kind : {"capture"}, sels : SeqOf(Selections, 3), namespaces : {{}},
   source : {ByIP("external")}, destination : {ByIP("external")}]
PathRequests ==
  [kind : {"path"}, sels : {<<>>}, namespaces : {{"n1"}, {"n1", "n2"}, {"n3"}},
   source : {ByName(Pod("n1", "a1")), ByName(Owner("n1", Web, {})), ByIP("a1"), ByIP("other")},
   destination : {ByName(Pod("n2", "b")), ByName(Pod("n1", "a1")), ByName(Pod("n3", "x")),
                  ByIP("b"), ByIP("external"), ByIP("invalid")}]
MCRequests == CaptureRequests \cup PathRequests

MCBudget == [capture |-> 2, path |-> 1]
==============================================================================
