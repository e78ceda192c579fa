------------------------- MODULE ProbeSessionProofs -------------------------
(* What ProbeSession promises, for any number of fires, subscribers, edges  *)
(* and any channel capacity.                                                *)
EXTENDS ProbeSession, TLAPS

\* Before its request, a session is nowhere; a finished one, or one whose lock
\* is kept for the final event, has every hop painted.
HopsInv ==
  \A f \in Fires :
    /\ paintMu[f] # "free" => seq[f] = Edges
    /\ finished[f] => seq[f] = Edges
    /\ dropped[f] <=> demoDrop[f] /\ seq[f] = Edges
    /\ fire[f] = "idle" => loop[f] = "none" /\ cur # f /\ obs # f /\ seq[f] = 0

\* A stopper that goes on has taken a session, and so has a subscriber.
TakenInv ==
  /\ \A w \in Stoppers :
       step[w] \in {"unlink", "cancel", "announce", "close"} => victim[w] \in Fires
  /\ \A s \in Subs : sse[s] = "found" => at[s] \in Fires

Inv == TypeOK /\ HopsInv /\ TakenInv /\ ChannelsOpen

LEMMA InvInit == Init => Inv
<1> USE ProbeAssumption
<1>1. Init => TypeOK
  <2>1. ASSUME Init PROVE queue \in [Subs -> Seq(Events)] /\ \A s \in Subs : Len(queue[s]) <= ChanCap
    <3>1. <<>> \in Seq(Events) /\ Len(<<>>) = 0
      OBVIOUS
    <3>2. QED
      BY <2>1, <3>1 DEF Init
  <2>2. ASSUME Init PROVE seq \in [Fires -> 0..Edges]
    BY <2>2 DEF Init
  <2>3. ASSUME Init
        PROVE  /\ cur \in Fires \cup {None} /\ obs \in Fires \cup {None}
               /\ linked \in BOOLEAN /\ cancelled \subseteq Fires
    BY <2>3 DEF Init
  <2>4. ASSUME Init
        PROVE  /\ fire \in [Fires -> {"idle", "stop", "insert", "link", "start", "started"}]
               /\ mode \in [Fires -> {"simulate", "capture"}]
               /\ demoDrop \in [Fires -> BOOLEAN]
               /\ loop \in [Fires -> {"none", "wait", "check", "hop", "tick", "done"}]
    BY <2>4 DEF Init
  <2>5. ASSUME Init
        PROVE  /\ step \in [Stoppers -> {"idle", "take", "unlink", "cancel", "announce", "close",
                                        "done"}]
               /\ victim \in [Stoppers -> Fires \cup {None}]
    BY <2>5 DEF Init
  <2>6. ASSUME Init
        PROVE  /\ dropped \in [Fires -> BOOLEAN] /\ finished \in [Fires -> BOOLEAN]
               /\ paintMu \in [Fires -> {"free", "flag", "announce"}]
               /\ subscribers \in [Fires -> SUBSET Subs]
    BY <2>6 DEF Init
  <2>7. ASSUME Init
        PROVE  /\ sse \in [Subs -> {"idle", "found", "on", "closed", "snapshot", "done"}]
               /\ at \in [Subs -> Fires \cup {None}]
    BY <2>7 DEF Init
  <2>8. QED
    BY <2>1, <2>2, <2>3, <2>4, <2>5, <2>6, <2>7 DEF TypeOK
<1>2. Init => HopsInv /\ TakenInv /\ ChannelsOpen
  BY DEF Init, HopsInv, TakenInv, ChannelsOpen
<1>3. QED
  BY <1>1, <1>2 DEF Inv

\* A channel takes an event or misses it.
LEMMA BroadcastType ==
  ASSUME TypeOK, NEW f \in Fires, NEW ev \in Events, broadcast(f, ev)
  PROVE  queue' \in [Subs -> Seq(Events)] /\ \A s \in Subs : Len(queue'[s]) <= ChanCap
<1> DEFINE q(s) == IF s \in subscribers[f] /\ Len(queue[s]) < ChanCap
                   THEN Append(queue[s], ev) ELSE queue[s]
<1>1. \A s \in Subs : q(s) \in Seq(Events) /\ Len(q(s)) <= ChanCap
  BY ProbeAssumption DEF TypeOK
<1>2. queue' = [s \in Subs |-> q(s)]
  BY DEF broadcast
<1>3. QED
  BY <1>1, <1>2

-----------------------------------------------------------------------------
(* Painting. *)

\* What a paintHop on a session that was fired does to the painting.
LEMMA HopStep ==
  ASSUME Inv, NEW f \in Fires, fire[f] # "idle", paintHop(f),
         UNCHANGED <<fire, mode, demoDrop>>
  PROVE  /\ seq' \in [Fires -> 0..Edges] /\ dropped' \in [Fires -> BOOLEAN]
         /\ paintMu' \in [Fires -> {"free", "flag", "announce"}]
         /\ finished' \in [Fires -> BOOLEAN]
         /\ queue' \in [Subs -> Seq(Events)] /\ \A s \in Subs : Len(queue'[s]) <= ChanCap
         /\ \A g \in Fires :
              /\ paintMu'[g] # "free" => seq'[g] = Edges
              /\ finished'[g] => seq'[g] = Edges
              /\ dropped'[g] <=> demoDrop[g] /\ seq'[g] = Edges
              /\ fire[g] = "idle" => seq'[g] = 0
<1> USE ProbeAssumption DEF Inv, HopsInv
<1>1. CASE UNCHANGED <<paint, queue>>
  BY <1>1 DEF paint, TypeOK
<1>2. CASE /\ MayPaint(f) /\ Remaining(f) > 0
           /\ seq' = [seq EXCEPT ![f] = @ + 1]
           /\ dropped' = [dropped EXCEPT ![f] = DropsHere(f)]
           /\ paintMu' = [paintMu EXCEPT ![f] = IF seq'[f] = Edges THEN "flag" ELSE "free"]
           /\ broadcast(f, "edge_update")
           /\ UNCHANGED finished
  <2>1. queue' \in [Subs -> Seq(Events)] /\ \A s \in Subs : Len(queue'[s]) <= ChanCap
    BY <1>2, BroadcastType DEF Events
  <2>2. seq[f] \in 0..Edges /\ Edges - seq[f] > 0
    BY <1>2 DEF Remaining, TypeOK
  <2>3. seq' \in [Fires -> 0..Edges] /\ seq'[f] = seq[f] + 1
    BY <1>2, <2>2 DEF TypeOK
  <2>4. DropsHere(f) \in BOOLEAN /\ (DropsHere(f) <=> demoDrop[f] /\ seq'[f] = Edges)
    BY <2>2, <2>3 DEF DropsHere, Remaining, TypeOK
  <2>5. dropped' \in [Fires -> BOOLEAN] /\ dropped'[f] = DropsHere(f)
    BY <1>2, <2>4 DEF TypeOK
  <2>6. \A g \in Fires \ {f} :
          seq'[g] = seq[g] /\ dropped'[g] = dropped[g] /\ paintMu'[g] = paintMu[g]
    BY <1>2 DEF TypeOK
  <2>7. /\ paintMu' \in [Fires -> {"free", "flag", "announce"}]
        /\ paintMu'[f] # "free" => seq'[f] = Edges
    BY <1>2 DEF TypeOK
  <2>8. finished' = finished /\ ~finished[f]
    BY <1>2 DEF MayPaint
  <2>9. ASSUME NEW g \in Fires
        PROVE  /\ paintMu'[g] # "free" => seq'[g] = Edges
               /\ finished'[g] => seq'[g] = Edges
               /\ dropped'[g] <=> demoDrop[g] /\ seq'[g] = Edges
               /\ fire[g] = "idle" => seq'[g] = 0
    <3>1. CASE g = f
      BY <3>1, <2>4, <2>5, <2>7, <2>8
    <3>2. CASE g # f
      BY <3>2, <2>6, <2>8
    <3>3. QED
      BY <3>1, <3>2
  <2>10. finished' \in [Fires -> BOOLEAN]
    BY <2>8 DEF TypeOK
  <2>11. QED
    BY <2>1, <2>3, <2>5, <2>7, <2>9, <2>10
<1>3. CASE /\ MayPaint(f) /\ Remaining(f) = 0
           /\ paintMu' = [paintMu EXCEPT ![f] = "flag"]
           /\ UNCHANGED <<seq, dropped, finished, queue>>
  <2>1. seq[f] = Edges
    BY <1>3 DEF Remaining, TypeOK
  <2>2. QED
    BY <1>3, <2>1 DEF TypeOK
<1>4. QED
  BY <1>1, <1>2, <1>3 DEF paintHop
-----------------------------------------------------------------------------
(* Every step keeps the invariant. *)

LEMMA StopperInv == ASSUME Inv, NEW w \in Stoppers, StopStep(w) PROVE Inv'
<1> USE ProbeAssumption DEF Inv
<1>1. CASE Take(w)
  <2>1. /\ step' = [step EXCEPT ![w] = IF cur = None THEN "done" ELSE "unlink"]
        /\ victim' = [victim EXCEPT ![w] = cur]
        /\ cur' = None
        /\ UNCHANGED <<linked, fire, mode, demoDrop, cancelled, loop, seq, dropped, paintMu,
                       finished, obs, subscribers, sse, at, queue>>
    BY <1>1 DEF Take, Advance, session, paint, clients
  <2>2. /\ step' \in [Stoppers -> {"idle", "take", "unlink", "cancel", "announce", "close",
                                   "done"}]
        /\ victim' \in [Stoppers -> Fires \cup {None}]
    BY <2>1 DEF TypeOK
  <2>3. TypeOK'
    BY <2>1, <2>2 DEF TypeOK
  <2>4. HopsInv' /\ ChannelsOpen'
    BY <2>1 DEF HopsInv, ChannelsOpen
  <2>5. ASSUME NEW v \in Stoppers, step'[v] \in {"unlink", "cancel", "announce", "close"}
        PROVE  victim'[v] \in Fires
    <3>1. CASE v = w
      BY <2>1, <2>5, <3>1 DEF TypeOK
    <3>2. CASE v # w
      BY <2>1, <2>5, <3>2 DEF TypeOK, TakenInv
    <3>3. QED
      BY <3>1, <3>2
  <2>6. TakenInv'
    BY <2>1, <2>5 DEF TakenInv
  <2>7. QED
    BY <2>3, <2>4, <2>6
<1>2. CASE UnlinkCaptureSession(w)
  <2>1. TypeOK'
    BY <1>2 DEF UnlinkCaptureSession, Advance, TypeOK, session, paint, clients
  <2>2. HopsInv' /\ ChannelsOpen'
    BY <1>2 DEF UnlinkCaptureSession, HopsInv, ChannelsOpen, session, paint, clients
  <2>3. TakenInv'
    BY <1>2 DEF UnlinkCaptureSession, Advance, TypeOK, TakenInv, clients
  <2>4. QED
    BY <2>1, <2>2, <2>3
<1>3. CASE CancelSession(w)
  <2>1. victim[w] \in Fires
    BY <1>3 DEF CancelSession, Advance, TakenInv
  <2>2. TypeOK'
    BY <1>3, <2>1 DEF CancelSession, Advance, TypeOK, paint, clients
  <2>3. HopsInv' /\ ChannelsOpen'
    BY <1>3 DEF CancelSession, HopsInv, ChannelsOpen, paint, clients
  <2>4. TakenInv'
    BY <1>3 DEF CancelSession, Advance, TypeOK, TakenInv, clients
  <2>5. QED
    BY <2>2, <2>3, <2>4
<1>4. CASE Announce(w)
  <2>1. victim[w] \in Fires
    BY <1>4 DEF Announce, Advance, TakenInv
  <2>2. queue' \in [Subs -> Seq(Events)] /\ \A s \in Subs : Len(queue'[s]) <= ChanCap
    BY <1>4, <2>1, BroadcastType DEF Announce, Events, TypeOK
  <2>3. step' \in [Stoppers -> {"idle", "take", "unlink", "cancel", "announce", "close", "done"}]
    BY <1>4 DEF Announce, Advance, TypeOK
  <2>4. TypeOK'
    BY <1>4, <2>2, <2>3 DEF Announce, TypeOK, session, paint
  <2>5. QED
    BY <1>4, <2>4 DEF Announce, Advance, TypeOK, HopsInv, TakenInv, ChannelsOpen, session, paint
<1>5. CASE Close(w)
  <2>1. victim[w] \in Fires
    BY <1>5 DEF Close, Advance, TakenInv
  <2>2. TypeOK'
    BY <1>5, <2>1 DEF Close, Advance, TypeOK, session, paint
  <2>3. HopsInv'
    BY <1>5 DEF Close, HopsInv, session, paint
  <2>4. TakenInv'
    BY <1>5 DEF Close, Advance, TakenInv, TypeOK
  <2>5. ChannelsOpen'
    BY <1>5, <2>1 DEF Close, ChannelsOpen, TypeOK
  <2>6. QED
    BY <2>2, <2>3, <2>4, <2>5
<1>6. QED
  BY <1>1, <1>2, <1>3, <1>4, <1>5 DEF StopStep

LEMMA FireInv ==
  ASSUME Inv, NEW f \in Fires, FireBegin(f) \/ FireStep(f) \/ ContextDone(f)
  PROVE  Inv'
<1> USE ProbeAssumption DEF Inv
<1>1. CASE FireBegin(f)
  <2>1. <<"fire", f>> \in Stoppers
    BY DEF Stoppers
  <2>2. PICK m \in Modes, d \in Drops :
          mode' = [mode EXCEPT ![f] = m] /\ demoDrop' = [demoDrop EXCEPT ![f] = d]
    BY <1>1 DEF FireBegin
  <2>3. TypeOK'
    BY <1>1, <2>1, <2>2 DEF FireBegin, FireGoto, Begin, TypeOK, paint, clients
  <2>4. HopsInv'
    BY <1>1, <2>2 DEF FireBegin, FireGoto, HopsInv, TypeOK, paint
  <2>5. TakenInv' /\ ChannelsOpen'
    BY <1>1, <2>1 DEF FireBegin, Begin, TakenInv, ChannelsOpen, TypeOK, clients
  <2>6. QED
    BY <2>3, <2>4, <2>5
<1>2. CASE Insert(f)
  BY <1>2 DEF Insert, FireGoto, TypeOK, HopsInv, TakenInv, ChannelsOpen, session, stops, paint, clients
<1>3. CASE LinkCaptureSession(f)
  BY <1>3 DEF LinkCaptureSession, FireGoto, TypeOK, HopsInv, TakenInv, ChannelsOpen, session, stops,
              paint, clients
<1>4. CASE Start(f)
  <2>1. queue' \in [Subs -> Seq(Events)] /\ \A s \in Subs : Len(queue'[s]) <= ChanCap
    BY <1>4, BroadcastType DEF Start, Events
  <2>2. /\ fire' \in [Fires -> {"idle", "stop", "insert", "link", "start", "started"}]
        /\ loop' \in [Fires -> {"none", "wait", "check", "hop", "tick", "done"}]
    BY <1>4 DEF Start, FireGoto, TypeOK
  <2>3. TypeOK'
    BY <1>4, <2>1, <2>2 DEF Start, TypeOK, session, stops, paint
  <2>4. QED
    BY <1>4, <2>3 DEF Start, FireGoto, TypeOK, HopsInv, TakenInv, ChannelsOpen, session, stops, paint
<1>5. CASE ContextDone(f)
  BY <1>5 DEF ContextDone, TypeOK, HopsInv, TakenInv, ChannelsOpen, stops, paint, clients
<1>6. QED
  BY <1>1, <1>2, <1>3, <1>4, <1>5 DEF FireStep

LEMMA PainterInv ==
  ASSUME Inv, NEW f \in Fires,
         PaintStep(f) \/ Observe \/ ingestCapture \/ Fallback(f) \/ LoopStep(f)
  PROVE  Inv'
<1> USE ProbeAssumption
<1>1. ASSUME NEW g \in Fires, fire[g] # "idle", paintHop(g),
             UNCHANGED <<cur, linked, fire, session, stops, subscribers, sse, at>>,
             loop' \in [Fires -> {"none", "wait", "check", "hop", "tick", "done"}],
             \A h \in Fires : fire[h] = "idle" => loop'[h] = "none",
             obs' \in {obs, None}
      PROVE  Inv'
  <2>1. UNCHANGED <<fire, mode, demoDrop, cancelled, step, victim>>
    BY <1>1 DEF session, stops
  <2>2. HopsInv'
    BY <1>1, <2>1, HopStep DEF Inv, HopsInv
  <2>3. TypeOK'
    BY <1>1, <2>1, HopStep, SMTT(30) DEF Inv, TypeOK
  <2>4. TakenInv' /\ ChannelsOpen'
    BY <1>1, <2>1 DEF Inv, TakenInv, ChannelsOpen
  <2>5. QED
    BY <2>2, <2>3, <2>4 DEF Inv
<1>2. CASE ingestCapture
  BY <1>1, <1>2 DEF ingestCapture, Inv, TypeOK, HopsInv
<1>3. CASE LoopHop(f)
  BY <1>1, <1>3 DEF LoopHop, LoopGoto, Inv, TypeOK, HopsInv
<1> USE DEF Inv
<1>4. CASE Observe
  BY <1>4 DEF Observe, TypeOK, HopsInv, TakenInv, ChannelsOpen, session, stops, paint, clients
<1>5. CASE Fallback(f) \/ LoopCheck(f) \/ LoopTick(f)
  <2>1. /\ loop[f] # "none"
        /\ \E to \in {"check", "hop"} : loop' = [loop EXCEPT ![f] = to]
        /\ UNCHANGED <<cur, linked, fire, session, stops, paint, obs, clients>>
    BY <1>5 DEF Fallback, LoopCheck, LoopTick, LoopGoto
  <2>2. TypeOK'
    BY <2>1 DEF TypeOK, session, stops, paint, clients
  <2>3. HopsInv'
    BY <2>1 DEF HopsInv, TypeOK, session, paint
  <2>4. TakenInv' /\ ChannelsOpen'
    BY <2>1 DEF TakenInv, ChannelsOpen, stops, clients
  <2>5. QED
    BY <2>2, <2>3, <2>4
<1>6. CASE LoopExit(f)
  <2>1. <<"loop", f>> \in Stoppers
    BY DEF Stoppers
  <2>2. /\ loop[f] # "none" /\ loop' = [loop EXCEPT ![f] = "done"]
        /\ step' = [step EXCEPT ![<<"loop", f>>] = "take"]
        /\ UNCHANGED <<cur, linked, fire, mode, demoDrop, cancelled, victim, seq, dropped, paintMu,
                       finished, obs, subscribers, sse, at, queue>>
    BY <1>6 DEF LoopExit, Begin, session, paint, clients
  <2>3. /\ loop' \in [Fires -> {"none", "wait", "check", "hop", "tick", "done"}]
        /\ step' \in [Stoppers -> {"idle", "take", "unlink", "cancel", "announce", "close",
                                   "done"}]
    BY <2>1, <2>2 DEF TypeOK
  <2>4. TypeOK'
    BY <2>2, <2>3 DEF TypeOK
  <2>5. HopsInv'
    BY <2>2 DEF TypeOK, HopsInv
  <2>6. TakenInv'
    BY <2>1, <2>2 DEF TypeOK, TakenInv
  <2>7. ChannelsOpen'
    BY <2>2 DEF ChannelsOpen
  <2>8. QED
    BY <2>4, <2>5, <2>6, <2>7
<1>7. CASE Finish(f)
  BY <1>7 DEF Finish, TypeOK, HopsInv, TakenInv, ChannelsOpen, session, stops, clients
<1>8. CASE FinishAnnounce(f)
  <2>1. queue' \in [Subs -> Seq(Events)] /\ \A s \in Subs : Len(queue'[s]) <= ChanCap
    BY <1>8, BroadcastType DEF FinishAnnounce, Events
  <2>2. TypeOK'
    BY <1>8, <2>1 DEF FinishAnnounce, TypeOK, session, stops
  <2>3. QED
    BY <1>8, <2>2 DEF FinishAnnounce, TypeOK, HopsInv, TakenInv, ChannelsOpen, session, stops
<1>9. QED
  BY <1>2, <1>3, <1>4, <1>5, <1>6, <1>7, <1>8 DEF PaintStep, LoopStep

LEMMA ClientInv ==
  ASSUME Inv, NEW s \in Subs, Subscribe(s) \/ AddSubscriber(s) \/ SseStep(s) \/ ClientLeaves(s)
  PROVE  Inv'
<1> USE ProbeAssumption DEF Inv
<1>1. CASE Subscribe(s)
  BY <1>1 DEF Subscribe, SseGoto, TypeOK, HopsInv, TakenInv, ChannelsOpen, session, stops, paint
<1>2. CASE AddSubscriber(s)
  <2>1. at[s] \in Fires
    BY <1>2 DEF AddSubscriber, SseGoto, TakenInv
  <2>2. QED
    BY <1>2, <2>1 DEF AddSubscriber, SseGoto, TypeOK, HopsInv, TakenInv, ChannelsOpen, session,
                      stops, paint
<1>3. CASE Unsub(s)
  <2>1. queue' \in [Subs -> Seq(Events)] /\ \A t \in Subs : Len(queue'[t]) <= ChanCap
    BY <1>3 DEF Unsub, TypeOK
  <2>2. TypeOK'
    BY <1>3, <2>1 DEF Unsub, TypeOK, session, stops, paint
  <2>3. QED
    BY <1>3, <2>2 DEF Unsub, TypeOK, HopsInv, TakenInv, ChannelsOpen, session, stops, paint
<1>4. CASE Deliver(s)
  <2>1. queue' \in [Subs -> Seq(Events)] /\ \A t \in Subs : Len(queue'[t]) <= ChanCap
    BY <1>4 DEF Deliver, TypeOK
  <2>2. TypeOK'
    BY <1>4, <2>1 DEF Deliver, TypeOK, session, stops, paint
  <2>3. QED
    BY <1>4, <2>2 DEF Deliver, HopsInv, TakenInv, ChannelsOpen, session, stops, paint
<1>5. QED
  BY <1>1, <1>2, <1>3, <1>4 DEF SseStep, DeliverLast, ChannelClosed, ClientLeaves

LEMMA InvStep == Inv /\ [Next]_vars => Inv'
<1> SUFFICES ASSUME Inv, [Next]_vars PROVE Inv'
  OBVIOUS
<1>1. CASE StopTraceProbe
  <2>1. <<"teardown", None>> \in Stoppers
    BY DEF Stoppers
  <2>2. QED
    BY <1>1, <2>1 DEF StopTraceProbe, Begin, Inv, TypeOK, HopsInv, TakenInv, ChannelsOpen, session,
                      paint, clients
<1>2. CASE Observe \/ ingestCapture
  BY <1>2, PainterInv DEF Observe, ingestCapture, Inv, TypeOK
<1>3. CASE UNCHANGED vars
  BY <1>3 DEF vars, session, stops, paint, clients, Inv, TypeOK, HopsInv, TakenInv, ChannelsOpen
<1>4. QED
  BY <1>1, <1>2, <1>3, StopperInv, FireInv, PainterInv, ClientInv DEF Next

LEMMA InvHolds == Spec => []Inv
  BY InvInit, InvStep, PTL DEF Spec

-----------------------------------------------------------------------------
(* The theorems. *)

\* No event is sent to a closed channel and none is closed twice, whoever stops
\* a session and whoever leaves.
THEOREM ChannelsStayOpen == Spec => []ChannelsOpen
<1>1. Inv => ChannelsOpen
  BY DEF Inv
<1>2. QED
  BY <1>1, InvHolds, PTL

\* Every variable keeps its type, and a finished probe has every hop painted.
THEOREM FinishedMeansPainted == Spec => []PaintInv
<1>1. Inv => PaintInv
  BY DEF Inv, PaintInv, FinishedIsPainted, HopsInv
<1>2. QED
  BY <1>1, InvHolds, PTL

\* After its final event a session is painted no more.
THEOREM FinalIsFinal == Spec => FinishedIsFinal
<1>1. ASSUME Inv, [Next]_vars, NEW f \in Fires, finished[f], paintMu[f] = "free"
      PROVE  seq'[f] = seq[f] /\ paintMu'[f] = "free"
  <2>1. ASSUME NEW g \in Fires, paintHop(g) PROVE seq'[f] = seq[f] /\ paintMu'[f] = "free"
    BY <1>1, <2>1 DEF paintHop, MayPaint, paint, Inv, TypeOK
  <2>2. CASE UNCHANGED paint
    BY <1>1, <2>2 DEF paint
  <2>3. ASSUME NEW g \in Fires, PaintStep(g) PROVE seq'[f] = seq[f] /\ paintMu'[f] = "free"
    BY <1>1, <2>3 DEF PaintStep, Finish, FinishAnnounce, Inv, TypeOK
  <2>4. ASSUME NEW g \in Fires, LoopStep(g) PROVE seq'[f] = seq[f] /\ paintMu'[f] = "free"
    BY <2>1, <2>2, <2>4 DEF LoopStep, LoopCheck, LoopHop, LoopTick, LoopExit
  <2>5. CASE ingestCapture
    BY <1>1, <2>1, <2>5 DEF ingestCapture, Inv, TypeOK
  <2>6. CASE \E g \in Fires : FireBegin(g) \/ FireStep(g) \/ ContextDone(g) \/ Fallback(g)
    BY <2>2, <2>6 DEF FireBegin, FireStep, Insert, LinkCaptureSession, Start, ContextDone, Fallback
  <2>7. CASE \E w \in Stoppers : StopStep(w)
    BY <2>2, <2>7 DEF StopStep, Take, UnlinkCaptureSession, CancelSession, Announce, Close
  <2>8. CASE \E s \in Subs : Subscribe(s) \/ AddSubscriber(s) \/ SseStep(s) \/ ClientLeaves(s)
    BY <2>2, <2>8 DEF Subscribe, AddSubscriber, SseStep, Deliver, DeliverLast, ChannelClosed,
                      ClientLeaves, Unsub
  <2>9. CASE StopTraceProbe \/ Observe \/ UNCHANGED vars
    BY <2>2, <2>9 DEF StopTraceProbe, Observe, vars
  <2>10. QED
    BY <1>1, <2>3, <2>4, <2>5, <2>6, <2>7, <2>8, <2>9 DEF Next
<1>2. Inv /\ [Next]_vars => [\A f \in Fires : finished[f] /\ paintMu[f] = "free" =>
                               seq'[f] = seq[f] /\ paintMu'[f] = "free"]_vars
  BY <1>1
<1>3. QED
  BY <1>2, InvHolds, PTL DEF Spec, FinishedIsFinal

=============================================================================
