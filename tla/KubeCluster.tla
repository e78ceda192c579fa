---------------------------- MODULE KubeCluster ----------------------------
(* The objects of the Kubernetes API that selection and path discovery     *)
(* read, as the environment has them.  Which pods exist changes while a    *)
(* request reads them (CaptureSelection); the other objects do not.  A pod *)
(* keeps its address when it is recreated, so an address is named by its   *)
(* pod; a label selector is the set of pods it matches.                    *)
EXTENDS Naturals, Sequences, FiniteSets

CONSTANTS
  Pods,          \* pod names
  NsOf,          \* the namespace of a pod
  NodeOf,        \* the node a pod is scheduled on, "" if none
  OwnerRefs,     \* the owner references of a pod, a sequence of [kind, name]
  DeploymentOf,  \* ReplicaSet name -> the Deployment that owns it
  SelectorOf,    \* <<ns, owner>> -> the pods a controller's selector matches
  Services,      \* [ns, name, type, vip, pool, pools]: pool is the pool that
                 \*  the annotation names ("" if none), pools the address
                 \*  pools whose ranges hold the VIP
  Routes,        \* [ns, name, to]
  Nads,          \* [ns, name, pods]: the pods whose annotation names it
  EgressIPs,     \* [name, ns]: ns "" when spec.namespace is not set
  EgressServices,\* [ns, name]
  Ads,           \* MetalLB advertisements [ns, name, pools, peers]
  Peers,         \* names of BGP peers
  Interfaces     \* the interfaces that NMState reports of every node

\* Where MetalLB's objects are listed.
MetalLBNamespaces == {"metallb-system", "openshift-metallb", "metallb"}

Namespaces == {NsOf[p] : p \in Pods} \cup {s.ns : s \in Services}

ASSUME ClusterAssumption ==
  /\ IsFiniteSet(Pods) /\ IsFiniteSet(Services) /\ IsFiniteSet(Routes) /\ IsFiniteSet(Nads)
  /\ IsFiniteSet(EgressIPs) /\ IsFiniteSet(EgressServices) /\ IsFiniteSet(Ads) /\ IsFiniteSet(Peers)
  /\ DOMAIN NsOf = Pods /\ DOMAIN NodeOf = Pods /\ DOMAIN OwnerRefs = Pods
  /\ \A c \in DOMAIN SelectorOf : SelectorOf[c] \subseteq Pods
  /\ \A r, s \in Routes : r.ns = s.ns /\ r.name = s.name => r = s
  /\ \A ad \in Ads : ad.ns \in MetalLBNamespaces
=============================================================================
