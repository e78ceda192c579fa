------------------------ MODULE EngineSessionProofs ------------------------
(***************************************************************************)
(* Proofs about EngineSession, for any number of streams, ports and names  *)
(* and whatever session ids hash to: its type, and what a stream holds.    *)
(* The invariant is HoldsInv: the steps of StartSession and StopSession    *)
(* touch only what the stream itself bound and created.                    *)
(***************************************************************************)
EXTENDS EngineSession, TLAPS

StartTypes(s) ==
  \/ StreamPackets(s) \/ StartPacketCollector(s) \/ PortInUse(s)
  \/ resolveTargetPods(s) \/ ResolveFails(s)
  \/ applyDaemonSet(s) \/ ApplyFails(s) \/ Ready(s) \/ NotReady(s)
  \/ UndoDelete(s) \/ UndoClose(s)

\* The type invariant holds initially and is kept by every step.
LEMMA InitType == Init => TypeOK
<1> USE EngineAssumption
<1> QED BY DEF Init, TypeOK, Listening

LEMMA TypeStep == TypeOK /\ [Next]_vars => TypeOK'
<1> USE EngineAssumption
<1> SUFFICES ASSUME TypeOK, [Next]_vars PROVE TypeOK'
  OBVIOUS
<1> USE DEF TypeOK, Listening, Goto, watching, sensors
<1>1. ASSUME NEW s \in Streams, StartTypes(s) PROVE TypeOK'
  <2>1. CASE StreamPackets(s)
    BY <2>1 DEF StreamPackets
  <2>2. CASE StartPacketCollector(s)
    BY <2>2 DEF StartPacketCollector, sessionPort
  <2>3. CASE PortInUse(s)
    BY <2>3 DEF PortInUse
  <2>4. CASE resolveTargetPods(s)
    BY <2>4 DEF resolveTargetPods
  <2>5. CASE ResolveFails(s)
    BY <2>5 DEF ResolveFails
  <2>6. CASE applyDaemonSet(s)
    BY <2>6 DEF applyDaemonSet, daemonSetName
  <2>7. CASE ApplyFails(s)
    <3>1. ds' \in [Names -> Streams \cup {None}] /\ orphans' \subseteq Streams
      <4>1. CASE UNCHANGED sensors
        BY <4>1
      <4>2. CASE /\ ds' = [ds EXCEPT ![daemonSetName(s)] = s]
                 /\ orphans' = orphans \cup {s}
        BY <4>2
      <4> QED BY <2>7, <4>1, <4>2 DEF ApplyFails, CreateFails
    <3>2. pc' \in [Streams -> {"idle", "collector", "done", "delete"} \cup Listening]
      BY <2>7 DEF ApplyFails
    <3> QED BY <2>7, <3>1, <3>2 DEF ApplyFails
  <2>8. CASE Ready(s)
    BY <2>8 DEF Ready
  <2>9. CASE NotReady(s)
    BY <2>9 DEF NotReady
  <2>10. CASE UndoDelete(s)
    BY <2>10 DEF UndoDelete, deleteDaemonSet, daemonSetName
  <2>11. CASE UndoClose(s)
    BY <2>11 DEF UndoClose, CloseCollector, sessionPort
  <2> QED BY <1>1, <2>1, <2>2, <2>3, <2>4, <2>5, <2>6, <2>7, <2>8, <2>9, <2>10, <2>11
        DEF StartTypes
<1>2. ASSUME NEW s \in Streams, StopStep(s) \/ LoopEnds(s) PROVE TypeOK'
  <2>1. CASE CancelDeploy(s)
    BY <2>1 DEF CancelDeploy
  <2>2. CASE StopClose(s)
    BY <2>2 DEF StopClose, CloseCollector, sessionPort
  <2>3. CASE StopDelete(s)
    BY <2>3 DEF StopDelete, deleteDaemonSet, daemonSetName
  <2>4. CASE LoopEnds(s)
    BY <2>4 DEF LoopEnds
  <2> QED BY <1>2, <2>1, <2>2, <2>3, <2>4 DEF StopStep
<1>3. ASSUME NEW s \in Streams, WatchChanged(s) PROVE TypeOK'
  <2>1. CASE Len(refresh[s]) < RefreshCap
    <3>1. refresh' = [refresh EXCEPT ![s] = Append(refresh[s], pods[s])]
      BY <1>3, <2>1 DEF WatchChanged, enqueue
    <3>2. /\ Append(refresh[s], pods[s]) \in Seq(Nat)
          /\ Len(Append(refresh[s], pods[s])) = Len(refresh[s]) + 1
          /\ Len(refresh[s]) \in Nat
      OBVIOUS
    <3>3. refresh' \in [Streams -> Seq(Nat)]
      BY <3>1, <3>2
    <3>4. Len(refresh'[s]) <= RefreshCap
      BY <2>1, <3>1, <3>2
    <3>5. \A t \in Streams : Len(refresh'[t]) <= RefreshCap
      BY <3>1, <3>4
    <3> QED BY <1>3, <2>1, <3>3, <3>5 DEF WatchChanged, enqueue
  <2>2. CASE ~(Len(refresh[s]) < RefreshCap)
    BY <1>3, <2>2 DEF WatchChanged, enqueue
  <2> QED BY <2>1, <2>2
<1>4. ASSUME NEW s \in Streams, Packet(s) PROVE TypeOK'
  <2>1. PICK r \in Streams : got' = [got EXCEPT ![s] = @ \cup {r}]
    BY <1>4 DEF Packet
  <2>2. got' \in [Streams -> SUBSET Streams]
    BY <2>1
  <2> QED BY <1>4, <2>2 DEF Packet
<1>5. ASSUME NEW s \in Streams, sendPodRefresh(s) PROVE TypeOK'
  <2>1. /\ Head(refresh[s]) \in Nat /\ Tail(refresh[s]) \in Seq(Nat)
        /\ Len(Tail(refresh[s])) <= RefreshCap
    BY <1>5 DEF sendPodRefresh
  <2>2. /\ seen' = [seen EXCEPT ![s] = Head(refresh[s])]
        /\ refresh' = [refresh EXCEPT ![s] = Tail(refresh[s])]
    BY <1>5 DEF sendPodRefresh
  <2>3. \A t \in Streams : Len(refresh'[t]) <= RefreshCap
    BY <2>1, <2>2
  <2>4. seen' \in [Streams -> Nat] /\ refresh' \in [Streams -> Seq(Nat)]
    BY <2>1, <2>2
  <2> QED BY <1>5, <2>3, <2>4 DEF sendPodRefresh
<1>6. ASSUME NEW s \in Streams, PortalLeaves(s) PROVE TypeOK'
  BY <1>6 DEF PortalLeaves
<1>7. ASSUME NEW s \in Streams, PodsChange(s) PROVE TypeOK'
  BY <1>7 DEF PodsChange
<1>8. CASE Crash
  BY <1>8 DEF Crash
<1>9. CASE UNCHANGED vars
  BY <1>9 DEF vars
<1> QED BY <1>1, <1>2, <1>3, <1>4, <1>5, <1>6, <1>7, <1>8, <1>9
      DEF Next, StartStep, StartTypes

-----------------------------------------------------------------------------
\* A stream that lost track of its DaemonSet had got as far as creating it.
OrphansStarted == \A s \in orphans : pc[s] \notin {"idle", "collector"}

Inv == HoldsInv /\ SensorHasStream /\ MixOnlyWhileStopping /\ OrphansStarted

LEMMA InitInv == Init => Inv
<1> USE EngineAssumption
<1> QED BY DEF Init, Inv, HoldsInv, SensorHasStream, MixOnlyWhileStopping, OrphansStarted,
            Listening, Sensing, sessionPort, daemonSetName

\* Steps that leave what every stream holds as it is, and the stutter.
LEMMA QuietStep ==
  ASSUME TypeOK, Inv, UNCHANGED <<hash, bound, ds, orphans, got>>,
         \A s \in Streams :
           /\ pc'[s] \in Listening <=> pc[s] \in Listening
           /\ pc'[s] \in Sensing <=> pc[s] \in Sensing
           /\ pc[s] \in {"delete", "done"} => pc'[s] = pc[s]
           /\ pc'[s] \in {"idle", "collector"} => pc[s] \in {"idle", "collector"}
  PROVE  Inv'
<1> USE EngineAssumption
<1>1. \A n \in Names : ds[n] # None => ds[n] \in Streams
  BY DEF TypeOK
<1> QED
  BY <1>1 DEF Inv, HoldsInv, SensorHasStream, MixOnlyWhileStopping, OrphansStarted,
              TypeOK, sessionPort, daemonSetName

LEMMA InvStep == TypeOK /\ Inv /\ [Next]_vars => Inv'
<1> USE EngineAssumption
<1> SUFFICES ASSUME TypeOK, Inv, [Next]_vars PROVE Inv'
  OBVIOUS
<1> USE DEF Goto, watching, sensors
<1>t. /\ pc \in [Streams -> {"idle", "collector", "done", "delete"} \cup Listening]
      /\ bound \in [Ports -> Streams \cup {None}]
      /\ ds \in [Names -> Streams \cup {None}]
      /\ got \in [Streams -> SUBSET Streams]
      /\ \A s \in Streams : sessionPort(s) \in Ports /\ daemonSetName(s) \in Names
  BY DEF TypeOK, sessionPort, daemonSetName
<1> DEFINE Quiet(s) ==
      \/ StreamPackets(s) \/ PortInUse(s) \/ resolveTargetPods(s) \/ ResolveFails(s)
      \/ Ready(s) \/ NotReady(s) \/ LoopEnds(s) \/ CancelDeploy(s)
<1>1. ASSUME NEW s \in Streams, Quiet(s) PROVE Inv'
  <2>1. UNCHANGED <<hash, bound, ds, orphans, got>>
    BY <1>1 DEF StreamPackets, PortInUse, resolveTargetPods, ResolveFails, Ready,
                NotReady, LoopEnds, CancelDeploy
  <2>2. \A t \in Streams :
          /\ pc'[t] \in Listening <=> pc[t] \in Listening
          /\ pc'[t] \in Sensing <=> pc[t] \in Sensing
          /\ pc[t] \in {"delete", "done"} => pc'[t] = pc[t]
          /\ pc'[t] \in {"idle", "collector"} => pc[t] \in {"idle", "collector"}
    BY <1>1, <1>t DEF StreamPackets, PortInUse, resolveTargetPods, ResolveFails, Ready,
                NotReady, LoopEnds, CancelDeploy, Listening, Sensing
  <2> QED BY <2>1, <2>2, QuietStep
<1>2. ASSUME NEW s \in Streams,
             WatchChanged(s) \/ sendPodRefresh(s) \/ PortalLeaves(s) \/ PodsChange(s)
      PROVE Inv'
  <2>1. UNCHANGED <<hash, bound, ds, orphans, got, pc>>
    BY <1>2 DEF WatchChanged, sendPodRefresh, PortalLeaves, PodsChange
  <2> QED BY <2>1, QuietStep
<1>3. CASE UNCHANGED vars
  <2>1. UNCHANGED <<hash, bound, ds, orphans, got, pc>>
    BY <1>3 DEF vars
  <2> QED BY <2>1, QuietStep
<1>o. orphans \subseteq Streams
  BY DEF TypeOK
<1> USE <1>t, <1>o DEF Inv, HoldsInv, SensorHasStream, MixOnlyWhileStopping, OrphansStarted,
                       sessionPort, daemonSetName, Listening, Sensing
<1>4. ASSUME NEW s \in Streams, StartPacketCollector(s) PROVE Inv'
  BY <1>4 DEF StartPacketCollector
<1>5. ASSUME NEW s \in Streams, applyDaemonSet(s) PROVE Inv'
  BY <1>5 DEF applyDaemonSet
<1>6. ASSUME NEW s \in Streams, ApplyFails(s) PROVE Inv'
  <2>1. pc[s] = "apply" /\ pc' = [pc EXCEPT ![s] = "undoClose"] /\ UNCHANGED <<hash, bound, got>>
    BY <1>6 DEF ApplyFails
  <2>2. CASE UNCHANGED sensors
    BY <2>1, <2>2
  <2>3. CASE /\ ds[daemonSetName(s)] = None
             /\ ds' = [ds EXCEPT ![daemonSetName(s)] = s]
             /\ orphans' = orphans \cup {s}
    <3>1. HoldsInv'
      BY <2>1, <2>3
    <3>2. SensorHasStream'
      BY <2>1, <2>3
    <3>3. MixOnlyWhileStopping' /\ OrphansStarted'
      BY <2>1, <2>3
    <3> QED BY <3>1, <3>2, <3>3
  <2> QED BY <1>6, <2>2, <2>3 DEF ApplyFails, CreateFails
<1>7. ASSUME NEW s \in Streams, UndoDelete(s) PROVE Inv'
  BY <1>7 DEF UndoDelete, deleteDaemonSet
<1>8. ASSUME NEW s \in Streams, UndoClose(s) \/ StopClose(s) PROVE Inv'
  <2>1. /\ UNCHANGED <<hash, ds, orphans, got>>
        /\ bound' = [bound EXCEPT ![hash[s].port] = None]
        /\ pc[s] \in {"undoClose", "close"}
        /\ pc' = [pc EXCEPT ![s] = IF pc[s] = "close" THEN "delete" ELSE "done"]
    BY <1>8 DEF UndoClose, StopClose, CloseCollector
  <2>2. bound[hash[s].port] = s
    BY <2>1
  <2>3. \A t \in Streams : pc'[t] \in Listening <=> bound'[hash'[t].port] = t
    BY <2>1, <2>2
  <2>4. \A t \in Streams : pc'[t] \in Sensing <=> pc[t] \in Sensing
    BY <2>1
  <2>5. \A p \in Ports : bound'[p] # None => hash'[bound'[p]].port = p
    BY <2>1
  <2>6. HoldsInv'
    BY <2>1, <2>3, <2>4, <2>5
  <2>7. SensorHasStream' /\ MixOnlyWhileStopping' /\ OrphansStarted'
    BY <2>1, <2>4
  <2> QED BY <2>6, <2>7
<1>9. ASSUME NEW s \in Streams, StopDelete(s) PROVE Inv'
  BY <1>9 DEF StopDelete, deleteDaemonSet
<1>10. ASSUME NEW s \in Streams, Packet(s) PROVE Inv'
  <2>1. PICK r \in Streams : /\ bound[sessionPort(r)] = s
                            /\ ds[daemonSetName(r)] = r
                            /\ got' = [got EXCEPT ![s] = @ \cup {r}]
    BY <1>10 DEF Packet
  <2>2. r = s \/ pc[r] \in {"delete", "done"}
    <3>1. CASE r # s
      <4>1. pc[r] \notin Listening
        BY <2>1, <3>1
      <4>2. pc[r] \in Sensing \/ r \in orphans
        BY <2>1
      <4> QED BY <4>1, <4>2
    <3> QED BY <3>1
  <2>3. MixOnlyWhileStopping'
    BY <1>10, <2>1, <2>2 DEF Packet
  <2>4. HoldsInv' /\ SensorHasStream' /\ OrphansStarted'
    BY <1>10 DEF Packet
  <2> QED BY <2>3, <2>4
<1>11. CASE Crash
  BY <1>11 DEF Crash
<1> HIDE <1>t, <1>o DEF Inv, HoldsInv, SensorHasStream, MixOnlyWhileStopping,
                        OrphansStarted, sessionPort, daemonSetName, Listening, Sensing
<1> QED BY <1>1, <1>2, <1>3, <1>4, <1>5, <1>6, <1>7, <1>8, <1>9, <1>10, <1>11
      DEF Next, StartStep, StopStep, Quiet

-----------------------------------------------------------------------------
\* Every variable keeps its type: the refresh channel never holds more than its
\* capacity, whatever watchPods finds.
THEOREM TypeCorrect == Spec => []TypeOK
BY InitType, TypeStep, PTL DEF Spec

THEOREM InvHolds == Spec => []Inv
BY InitInv, InvStep, TypeCorrect, PTL DEF Spec

\* A stream holds its port and its DaemonSet at exactly the steps it should,
\* and its undo paths and StopSession never close or delete another stream's,
\* for any session ids: those that hash alike included.
THEOREM StreamsHoldTheirOwn == Spec => []HoldsInv
<1>1. Inv => HoldsInv
  BY DEF Inv
<1> QED BY <1>1, InvHolds, PTL

\* The engine's invariant as the run checks it, for any streams, ports and
\* names.
THEOREM EngineInvHolds == Spec => []EngineInv
<1>1. TypeOK /\ HoldsInv => EngineInv
  BY DEF EngineInv
<1> QED BY <1>1, TypeCorrect, StreamsHoldTheirOwn, PTL

\* A sensor that no stream will delete is one that a lost reply, a failed Delete
\* or a crash left: no path through StartSession and StopSession forgets one.
THEOREM SensorsAreAccounted == Spec => []SensorHasStream
<1>1. Inv => SensorHasStream
  BY DEF Inv
<1> QED BY <1>1, InvHolds, PTL

\* Whatever session ids hash to, a stream that listens never loses its sensor's
\* packets to another: only a stream that has closed its collector does.
THEOREM ListenersKeepTheirPackets == Spec => []MixOnlyWhileStopping
<1>1. Inv => MixOnlyWhileStopping
  BY DEF Inv
<1> QED BY <1>1, InvHolds, PTL
=============================================================================
