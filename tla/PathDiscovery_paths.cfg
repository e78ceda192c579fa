SPECIFICATION Spec
CONSTANTS
  Pods <- MCPods
  NsOf <- MCNsOf
  NodeOf <- MCNodeOf
  OwnerRefs <- MCOwnerRefs
  DeploymentOf <- MCDeploymentOf
  SelectorOf <- MCSelectorOf
  Services <- MCServices
  Routes <- MCRoutes
  Nads <- MCNads
  EgressIPs <- MCEgressIPs
  EgressServices <- MCEgressServices
  Ads <- MCAds
  Peers = {"tor", "spare"}
  Interfaces = {"eth0"}
  Requests <- MCRequests
  Accessible = {"n1", "n2"}
  EndpointSlices <- MCEndpoints
  Budget <- MCBudget
INVARIANTS SelectionHonoured FocusIsShortestPath ReplyIsWhole RedactedListsAgree
