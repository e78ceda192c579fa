--------------------------- MODULE EngineSession ---------------------------
(***************************************************************************)
(* The backend engine: one StreamPackets call per capture, its collector   *)
(* on a port and its sensor DaemonSet, both chosen by the session id,      *)
(* StartSession and StopSession step by step, and the watch that tells the *)
(* stream of changed pods.  Kubernetes is external: a call may fail, and a *)
(* Create may take effect and lose its reply.                              *)
(*                                                                         *)
(* A packet is only the stream whose sensor sent it.  A deleted DaemonSet  *)
(* stops sending at once, which is kinder than the cluster is.             *)
(***************************************************************************)
EXTENDS Naturals, Sequences

CONSTANTS
  Streams,     \* the captures, each a session id
  Ports,       \* the 800 collector ports
  Names,       \* DaemonSet names
  Hashes,      \* what session ids may come to: a port and a name for each
  Faults,      \* what goes wrong: calls, and the engine itself
  RefreshCap,  \* capacity of RefreshCh (2 in the code)
  MaxChanges,  \* bound: how often the pods of each capture change
  None

ASSUME EngineAssumption ==
  /\ None \notin Streams
  /\ Hashes \subseteq [Streams -> [port : Ports, name : Names]]
  /\ Faults \subseteq {"resolve", "create", "delete", "crash"}
  /\ RefreshCap \in Nat \ {0} /\ MaxChanges \in [Streams -> Nat]

VARIABLES
  hash,    \* the port and the name of a stream's session id
  pc,      \* StreamPackets
  gone,    \* the streams whose context is done
  bound,   \* bound[p]: whose collector listens on p
  ds,      \* ds[n]: whose StartSession created the DaemonSet n
  orphans, \* history: the streams that lost track of their DaemonSet
  got,     \* history: whose sensors' packets a stream's collector took
  pods,    \* the version of a capture's pods in the cluster
  lastKey, tracked,  \* watchPods: the version it saw last, sess.TrackedPods
  watch,   \* the watch runs
  refresh, \* sess.RefreshCh
  seen,    \* the version the portal was told of, the first being taken as known
  missed   \* history: the streams whose last refresh found the channel full

sensors == <<ds, orphans>>
watching == <<lastKey, tracked, watch, refresh, missed>>
vars == <<hash, pc, gone, bound, sensors, got, pods, watching, seen>>

\* The steps of a stream whose collector listens, and of one whose DaemonSet
\* it created and has not yet asked to delete.
Listening == {"resolve", "apply", "wait", "run", "cancel", "close", "undo", "undoClose"}
Sensing == {"wait", "run", "cancel", "close", "delete", "undo"}

TypeOK ==
  /\ hash \in [Streams -> [port : Ports, name : Names]]
  /\ pc \in [Streams -> {"idle", "collector", "done", "delete"} \cup Listening]
  /\ gone \subseteq Streams
  /\ bound \in [Ports -> Streams \cup {None}]
  /\ ds \in [Names -> Streams \cup {None}]
  /\ orphans \subseteq Streams
  /\ got \in [Streams -> SUBSET Streams]
  /\ pods \in [Streams -> Nat] /\ lastKey \in [Streams -> Nat]
  /\ tracked \in [Streams -> Nat] /\ seen \in [Streams -> Nat]
  /\ watch \subseteq Streams /\ missed \subseteq Streams
  /\ refresh \in [Streams -> Seq(Nat)]
  /\ \A s \in Streams : Len(refresh[s]) <= RefreshCap

Init ==
  /\ hash \in Hashes
  /\ pc = [s \in Streams |-> "idle"]
  /\ gone = {}
  /\ bound = [p \in Ports |-> None]
  /\ ds = [n \in Names |-> None]
  /\ orphans = {}
  /\ got = [s \in Streams |-> {}]
  /\ pods = [s \in Streams |-> 0]
  /\ lastKey = [s \in Streams |-> 0] /\ tracked = [s \in Streams |-> 0]
  /\ watch = {} /\ missed = {}
  /\ refresh = [s \in Streams |-> <<>>]
  /\ seen = [s \in Streams |-> 0]

Goto(s, from, to) == pc[s] = from /\ pc' = [pc EXCEPT ![s] = to]

\* 19000 and the session id's hash modulo 800
sessionPort(s) == hash[s].port

\* The first 12 digits of the session id
daemonSetName(s) == hash[s].name

-----------------------------------------------------------------------------
(* StartSession *)

\* collectTargets
StreamPackets(s) ==
  /\ Goto(s, "idle", "collector")
  /\ UNCHANGED <<hash, gone, bound, sensors, got, pods, watching, seen>>

\* mutant: the port is shared, and the last collector takes what comes.
StartPacketCollectorShared(s) ==
  /\ Goto(s, "collector", "resolve")
  /\ bound' = [bound EXCEPT ![sessionPort(s)] = s]
  /\ UNCHANGED <<hash, gone, sensors, got, pods, watching, seen>>

StartPacketCollector(s) ==
  /\ bound[sessionPort(s)] = None
  /\ Goto(s, "collector", "resolve")
  /\ bound' = [bound EXCEPT ![sessionPort(s)] = s]
  /\ UNCHANGED <<hash, gone, sensors, got, pods, watching, seen>>

PortInUse(s) ==
  /\ bound[sessionPort(s)] # None
  /\ Goto(s, "collector", "done")
  /\ UNCHANGED <<hash, gone, bound, sensors, got, pods, watching, seen>>

\* The pods that renderDaemonSet filters for, and watchPods starts from.
resolveTargetPods(s) ==
  /\ Goto(s, "resolve", "apply")
  /\ lastKey' = [lastKey EXCEPT ![s] = pods[s]]
  /\ tracked' = [tracked EXCEPT ![s] = pods[s]]
  /\ seen' = [seen EXCEPT ![s] = pods[s]]
  /\ UNCHANGED <<hash, gone, bound, sensors, got, pods, watch, refresh, missed>>

ResolveFails(s) ==
  /\ "resolve" \in Faults \/ s \in gone
  /\ Goto(s, "resolve", "undoClose")
  /\ UNCHANGED <<hash, gone, bound, sensors, got, pods, watching, seen>>

applyDaemonSet(s) ==
  /\ ds[daemonSetName(s)] = None
  /\ Goto(s, "apply", "wait")
  /\ ds' = [ds EXCEPT ![daemonSetName(s)] = s]
  /\ UNCHANGED <<hash, gone, bound, orphans, got, pods, watching, seen>>

\* The name is taken or the context done; or it is created and the reply lost.
CreateFails(s) ==
  \/ /\ ds[daemonSetName(s)] # None \/ s \in gone
     /\ UNCHANGED sensors
  \/ /\ "create" \in Faults /\ ds[daemonSetName(s)] = None
     /\ ds' = [ds EXCEPT ![daemonSetName(s)] = s]
     /\ orphans' = orphans \cup {s}

\* mutant: a failed Create is undone like a failed wait.
ApplyFailsUndo(s) ==
  /\ Goto(s, "apply", "undo")
  /\ CreateFails(s)
  /\ UNCHANGED <<hash, gone, bound, got, pods, watching, seen>>

ApplyFails(s) ==
  /\ Goto(s, "apply", "undoClose")
  /\ CreateFails(s)
  /\ UNCHANGED <<hash, gone, bound, got, pods, watching, seen>>

\* mutant: watchPods starts from the pods of this moment.
ReadyFreshKey(s) ==
  /\ Goto(s, "wait", "run")
  /\ watch' = watch \cup {s}
  /\ lastKey' = [lastKey EXCEPT ![s] = pods[s]]
  /\ UNCHANGED <<hash, gone, bound, sensors, got, pods, tracked, refresh, missed, seen>>

\* waitDaemonSetReady, then go watchPods.
Ready(s) ==
  /\ Goto(s, "wait", "run")
  /\ watch' = watch \cup {s}
  /\ UNCHANGED <<hash, gone, bound, sensors, got, pods, lastKey, tracked, refresh, missed, seen>>

\* mutant: the DaemonSet that never got ready is left.
NotReadyKeepsSensor(s) ==
  /\ Goto(s, "wait", "undoClose")
  /\ UNCHANGED <<hash, gone, bound, sensors, got, pods, watching, seen>>

\* Get fails, 3 minutes pass, or the context is done.
NotReady(s) ==
  /\ Goto(s, "wait", "undo")
  /\ UNCHANGED <<hash, gone, bound, sensors, got, pods, watching, seen>>

\* Its error is ignored.
deleteDaemonSet(s) ==
  \/ /\ ds' = [ds EXCEPT ![daemonSetName(s)] = None]
     /\ UNCHANGED orphans
  \/ /\ "delete" \in Faults
     /\ orphans' = orphans \cup {s}
     /\ UNCHANGED ds

UndoDelete(s) ==
  /\ Goto(s, "undo", "undoClose")
  /\ deleteDaemonSet(s)
  /\ UNCHANGED <<hash, gone, bound, got, pods, watching, seen>>

CloseCollector(s) == bound' = [bound EXCEPT ![sessionPort(s)] = None]

UndoClose(s) ==
  /\ Goto(s, "undoClose", "done")
  /\ CloseCollector(s)
  /\ UNCHANGED <<hash, gone, sensors, got, pods, watching, seen>>

-----------------------------------------------------------------------------
(* The stream loop, and the deferred StopSession *)

\* A sensor sends to the port it was given; the collector that listens there
\* takes the packet, and the loop forwards what its collector took.
Packet(s) ==
  /\ \E r \in Streams \ got[s] :
       /\ bound[sessionPort(r)] = s
       /\ ds[daemonSetName(r)] = r
       /\ got' = [got EXCEPT ![s] = @ \cup {r}]
  /\ UNCHANGED <<hash, pc, gone, bound, sensors, pods, watching, seen>>

sendPodRefresh(s) ==
  /\ pc[s] = "run" /\ refresh[s] # <<>>
  /\ seen' = [seen EXCEPT ![s] = Head(refresh[s])]
  /\ refresh' = [refresh EXCEPT ![s] = Tail(@)]
  /\ UNCHANGED <<hash, pc, gone, bound, sensors, got, pods, lastKey, tracked, watch, missed>>

\* The loop returns when the context is done, or before: a Send that fails,
\* a collector that ends.
LoopEnds(s) ==
  /\ Goto(s, "run", "cancel")
  /\ UNCHANGED <<hash, gone, bound, sensors, got, pods, watching, seen>>

\* ctx.Done() is always ready for the loop: every iteration may choose it.
ContextEndsLoop(s) == s \in gone /\ LoopEnds(s)

\* CancelDeploy: the watch's context.
CancelDeploy(s) ==
  /\ Goto(s, "cancel", "close")
  /\ watch' = watch \ {s}
  /\ UNCHANGED <<hash, gone, bound, sensors, got, pods, lastKey, tracked, refresh, missed, seen>>

StopClose(s) ==
  /\ Goto(s, "close", "delete")
  /\ CloseCollector(s)
  /\ UNCHANGED <<hash, gone, sensors, got, pods, watching, seen>>

\* mutant: StopSession is given the stream's context.
StopDeleteInContext(s) ==
  /\ Goto(s, "delete", "done")
  /\ IF s \in gone THEN UNCHANGED sensors ELSE deleteDaemonSet(s)
  /\ UNCHANGED <<hash, gone, bound, got, pods, watching, seen>>

StopDelete(s) ==
  /\ Goto(s, "delete", "done")
  /\ deleteDaemonSet(s)
  /\ UNCHANGED <<hash, gone, bound, got, pods, watching, seen>>

-----------------------------------------------------------------------------
(* watchPods, every 15 seconds.  A resolve that fails is tried again at the  *)
(* next tick.                                                                *)

\* The select with a default: the event of a full channel is dropped.
enqueue(s) ==
  IF Len(refresh[s]) < RefreshCap
  THEN /\ refresh' = [refresh EXCEPT ![s] = Append(@, pods[s])]
       /\ missed' = missed \ {s}
  ELSE missed' = missed \cup {s} /\ UNCHANGED refresh

\* The key is stored whether the channel takes the event or not.
WatchChanged(s) ==
  /\ s \in watch /\ pods[s] # lastKey[s]
  /\ lastKey' = [lastKey EXCEPT ![s] = pods[s]]
  /\ tracked' = [tracked EXCEPT ![s] = pods[s]]
  /\ enqueue(s)
  /\ UNCHANGED <<hash, pc, gone, bound, sensors, got, pods, watch, seen>>

-----------------------------------------------------------------------------
(* The environment *)

\* The portal's handler is done with the stream.
PortalLeaves(s) ==
  /\ pc[s] # "idle" /\ s \notin gone
  /\ gone' = gone \cup {s}
  /\ UNCHANGED <<hash, pc, bound, sensors, got, pods, watching, seen>>

\* A pod of the capture restarts or moves.
PodsChange(s) ==
  /\ pods[s] < MaxChanges[s]
  /\ pods' = [pods EXCEPT ![s] = @ + 1]
  /\ UNCHANGED <<hash, pc, gone, bound, sensors, got, watching, seen>>

\* The engine dies with its streams, and comes back knowing none of them.
Crash ==
  /\ "crash" \in Faults
  /\ \E s \in Streams : pc[s] \notin {"idle", "done"}
  /\ pc' = [s \in Streams |-> IF pc[s] = "idle" THEN "idle" ELSE "done"]
  /\ bound' = [p \in Ports |-> None]
  /\ watch' = {}
  /\ orphans' = orphans \cup {s \in Streams : pc[s] \in Sensing}
  /\ UNCHANGED <<hash, gone, ds, got, pods, lastKey, tracked, refresh, missed, seen>>

-----------------------------------------------------------------------------
StartStep(s) ==
  \/ StartPacketCollector(s) \/ PortInUse(s) \/ resolveTargetPods(s) \/ ResolveFails(s)
  \/ applyDaemonSet(s) \/ ApplyFails(s) \/ Ready(s) \/ NotReady(s)
  \/ UndoDelete(s) \/ UndoClose(s)

StopStep(s) == CancelDeploy(s) \/ StopClose(s) \/ StopDelete(s)

Next ==
  \/ \E s \in Streams :
       \/ StreamPackets(s) \/ StartStep(s) \/ StopStep(s) \/ WatchChanged(s)
       \/ Packet(s) \/ sendPodRefresh(s) \/ LoopEnds(s)
       \/ PortalLeaves(s) \/ PodsChange(s)
  \/ Crash

Spec == Init /\ [][Next]_vars

\* Goroutines run, tickers tick and a resolve succeeds at last, and a select
\* with ctx.Done() ready takes it in the end.  The portal need not leave.
FairSpec ==
  /\ Spec
  /\ \A s \in Streams :
       /\ WF_vars(StartStep(s)) /\ WF_vars(StopStep(s))
       /\ WF_vars(ContextEndsLoop(s)) /\ WF_vars(sendPodRefresh(s))
       /\ WF_vars(WatchChanged(s))

-----------------------------------------------------------------------------
(* Properties. *)

\* The inductive invariant: a stream listens on its port and has its sensor at
\* exactly the steps it should, though other streams' ids may hash alike; it
\* never deletes a DaemonSet or closes a collector that is another stream's.
HoldsInv ==
  /\ \A s \in Streams :
       /\ pc[s] \in Listening <=> bound[sessionPort(s)] = s
       /\ pc[s] \in Sensing => ds[daemonSetName(s)] = s
  /\ \A p \in Ports : bound[p] # None => sessionPort(bound[p]) = p
  /\ \A n \in Names : ds[n] # None => daemonSetName(ds[n]) = n

EngineInv == TypeOK /\ HoldsInv

\* "spcg-sensor-* DaemonSet exists only during an active capture": a sensor
\* has a stream that is bound to delete it, unless the Create's reply was lost,
\* the Delete failed or the engine died.
SensorHasStream ==
  \A n \in Names : ds[n] # None => pc[ds[n]] \in Sensing \/ ds[n] \in orphans

\* A sensor without a stream is one in orphans.  So the engine itself leaves
\* some: spcg-sensor "must not exist without active capture" does not hold when
\* the engine dies.
SensorOnlyDuringCapture == \A n \in Names : ds[n] # None => pc[ds[n]] \in Sensing

\* However ids collide, packets reach another stream's collector only from a
\* sensor whose own stream has closed its: between the two halves of
\* StopSession, or left behind.  A stream that listens loses none.
MixOnlyWhileStopping ==
  \A s \in Streams : \A r \in got[s] \ {s} : pc[r] \in {"delete", "done"}

\* "Pod scoping is enforced upstream": a stream forwards the packets of its own
\* sensor only.  Does not hold: a port is free before its sensor is deleted.
OwnPackets == \A s \in Streams : got[s] \subseteq {s}

\* When the portal leaves, the sensor goes, at whatever step the stream is.
SensorGoes ==
  \A s \in Streams : s \in gone ~> ds[daemonSetName(s)] # s \/ s \in orphans

\* watchPods "notifies the capture stream": while the stream runs, the engine
\* comes to track the last change of the pods, from the moment they were first
\* resolved, and the portal is told of it unless the channel was full.
ChangesAreTracked ==
  \A s \in Streams :
    <>[](pc[s] = "run" => tracked[s] = pods[s] /\ (seen[s] = pods[s] \/ s \in missed))

\* watchPods "notifies the capture stream": of the last change too.  Does not
\* hold: the event of a full channel is dropped, and the key is stored.
ChangesAreTold == \A s \in Streams : <>[](pc[s] = "run" => seen[s] = pods[s])
=============================================================================
