-------------------------- MODULE CaptureSelection --------------------------
(* How the selections of a request become pods and sensor targets:         *)
(* ResolveCaptureSelections of internal/k8s/capture_resolve.go, one action *)
(* per call of the API server.  Pods are deleted and recreated between two *)
(* calls and a call may fail; "faults" bounds both.  res is the call under *)
(* way; "disturbed" is history: the pods such a fault was about.           *)
EXTENDS KubeCluster, SequencesExt

\* Of the references of a pod at most one names a controller of these kinds.
ASSUME ReferencesAssumption ==
  \A p \in Pods :
    /\ OwnerRefs[p] \in Seq(Range(OwnerRefs[p]))
    /\ \A r, s \in Range(OwnerRefs[p]) :
         {r.kind, s.kind} \subseteq {"ReplicaSet", "StatefulSet", "DaemonSet"} => r = s

VARIABLES
  live,      \* the uid a pod name has now, 0 when there is no such pod
  faults,    \* how many more faults there may be
  disturbed, \* history: pods recreated, deleted or not answered for
  res        \* the resolution under way

selectionVars == <<live, faults, disturbed, res>>

NoOwner == [kind |-> "", name |-> ""]

Idle == [status |-> "idle", owners |-> <<>>, oleft |-> <<>>, pleft |-> <<>>,
         selector |-> {}, uncovered |-> FALSE, targets |-> <<>>, found |-> <<>>]
Failed == [Idle EXCEPT !.status = "failed"]

InitSelection(budget) ==
  /\ live = [p \in Pods |-> 1]
  /\ faults = budget
  /\ disturbed = {}
  /\ res = Idle

Running == res.status = "running"

(***************************************************************************)
(* The environment.                                                        *)
(***************************************************************************)
Fault(ps) == faults > 0 /\ faults' = faults - 1 /\ disturbed' = disturbed \cup ps
NoFault == UNCHANGED <<faults, disturbed>>

Recreate(p) == /\ live[p] # 0 /\ Fault({p})
               /\ live' = [live EXCEPT ![p] = @ + 1]
               /\ UNCHANGED res

DeletePod(p) == /\ live[p] # 0 /\ Fault({p})
                /\ live' = [live EXCEPT ![p] = 0]
                /\ UNCHANGED res

(***************************************************************************)
(* The owner a pod is shown with.  lost: the ReplicaSet could not be read. *)
(***************************************************************************)
Yields(o, lost) ==
  IF o.kind \in {"StatefulSet", "DaemonSet"} THEN {o}
  ELSE IF o.kind # "ReplicaSet" \/ lost THEN {}
  ELSE IF o.name \in DOMAIN DeploymentOf
       THEN {[kind |-> "Deployment", name |-> DeploymentOf[o.name]]}
       ELSE {o}

enrichPrimaryOwner(p, lost) ==
  LET telling == {i \in DOMAIN OwnerRefs[p] : Yields(OwnerRefs[p][i], lost) # {}}
  IN  IF telling = {} THEN {} ELSE Yields(OwnerRefs[p][Min(telling)], lost)

PrimaryOwner(p, lost) ==
  IF enrichPrimaryOwner(p, lost) = {} /\ OwnerRefs[p] # <<>>
  THEN {OwnerRefs[p][1]} ELSE enrichPrimaryOwner(p, lost)

podMatchesOwner(p, owner, lost) ==
  owner \in PrimaryOwner(p, lost) \cup Range(OwnerRefs[p])

(***************************************************************************)
(* Reading the request.                                                    *)
(***************************************************************************)
Malformed(s) ==
  \/ s.type \notin {"owner", "pod"}
  \/ s.type = "owner" /\ (s.ns = "" \/ s.owner.kind = "" \/ s.owner.name = "")
  \/ s.type = "pod" /\ (s.ns = "" \/ s.pod = "")

ownerKey(s) == <<s.ns, s.owner>>

Owners(sels) ==
  FoldLeft(LAMBDA acc, s : IF s.type # "owner" \/ \E o \in Range(acc) : ownerKey(o) = ownerKey(s)
                           THEN acc ELSE Append(acc, s), <<>>, sels)

Resolution(sels) ==
  IF sels = <<>> \/ \E s \in Range(sels) : Malformed(s) THEN Failed
  ELSE [Idle EXCEPT !.status = "running", !.owners = Owners(sels), !.oleft = Owners(sels),
                    !.pleft = FoldLeft(LAMBDA acc, s : IF s.type = "pod" THEN Append(acc, s) ELSE acc,
                                       <<>>, sels)]

(***************************************************************************)
(* One owner: its selector, then its pods.                                 *)
(***************************************************************************)
controllerLabelSelector(o) ==
  {SelectorOf[c] : c \in {d \in DOMAIN SelectorOf : d = ownerKey(o)}}

Expand(o, selector) ==
  [res EXCEPT !.selector = selector,
              !.targets = Append(@, [ns |-> o.ns, owner |-> o.owner, pod |-> "", uid |-> 0])]

ReadSelector ==
  /\ Running /\ res.oleft # <<>> /\ res.selector = {}
  /\ LET o == Head(res.oleft) IN
     IF o.selector # {}
     THEN res' = Expand(o, o.selector) /\ NoFault
     ELSE \/ /\ NoFault
             /\ res' = IF controllerLabelSelector(o) = {} THEN Failed
                       ELSE Expand(o, controllerLabelSelector(o))
          \/ Fault({}) /\ res' = Failed
  /\ UNCHANGED live

AppendUnseen(found, p) ==
  IF \E f \in Range(found) : f.uid = live[p] /\ f.pod = p THEN found
  ELSE Append(found, [pod |-> p, uid |-> live[p]])

ListOwnerPods ==
  /\ Running /\ res.oleft # <<>> /\ res.selector # {}
  /\ \/ Fault({}) /\ res' = Failed
     \/ LET o == Head(res.oleft)
            listed == {p \in UNION res.selector : NsOf[p] = o.ns /\ live[p] # 0}
        IN \E lost \in {{}} \cup {{p} : p \in listed} :
             /\ IF lost = {} THEN NoFault ELSE Fault(lost)
             /\ res' = [res EXCEPT !.oleft = Tail(@), !.selector = {},
                          !.found = FoldLeft(AppendUnseen, @,
                             SetToSeq({p \in listed : podMatchesOwner(p, o.owner, p \in lost)}))]
  /\ UNCHANGED live

(***************************************************************************)
(* One pod, once every owner is expanded: is it covered, and what is it.   *)
(***************************************************************************)
\* Mutant: an owner of the pod's namespace is enough.
CoveredByNamespace(p, lost) == \E o \in Range(res.owners) : o.ns = NsOf[p]

coveredByOwnerSelection(p, lost) ==
  \E o \in Range(res.owners) : o.ns = NsOf[p] /\ podMatchesOwner(p, o.owner, lost)

Named(s) == s.pod \in Pods /\ NsOf[s.pod] = s.ns /\ live[s.pod] # 0

CheckCovered ==
  /\ Running /\ res.oleft = <<>> /\ res.pleft # <<>> /\ ~res.uncovered
  /\ LET s == Head(res.pleft)
         answer(covered) == res' = [res EXCEPT !.uncovered = ~covered,
                                               !.pleft = IF covered THEN Tail(@) ELSE @]
     IN \/ answer(Named(s) /\ coveredByOwnerSelection(s.pod, FALSE)) /\ NoFault
        \/ /\ res.owners # <<>> /\ Fault({s.pod})
           /\ \/ answer(FALSE)
              \/ answer(Named(s) /\ coveredByOwnerSelection(s.pod, TRUE))
  /\ UNCHANGED live

GetPod ==
  /\ Running /\ res.uncovered
  /\ LET s == Head(res.pleft)
         next == [res EXCEPT !.pleft = Tail(@), !.uncovered = FALSE]
     IN \/ /\ NoFault
           /\ res' = IF ~Named(s) THEN Failed
                     ELSE IF AppendUnseen(res.found, s.pod) = res.found THEN next
                     ELSE [next EXCEPT !.found = AppendUnseen(@, s.pod),
                             !.targets = Append(@, [ns |-> s.ns, owner |-> NoOwner,
                                                    pod |-> s.pod, uid |-> live[s.pod]])]
        \/ Fault({s.pod}) /\ res' = Failed
  /\ UNCHANGED live

FinishSelection ==
  /\ Running /\ res.oleft = <<>> /\ res.pleft = <<>>
  /\ res' = IF res.targets = <<>> THEN Failed ELSE [res EXCEPT !.status = "done"]
  /\ UNCHANGED <<live, faults, disturbed>>

SelectionStep ==
  ReadSelector \/ ListOwnerPods \/ CheckCovered \/ GetPod \/ FinishSelection

FoundPods == [i \in DOMAIN res.found |-> res.found[i].pod]
=============================================================================
