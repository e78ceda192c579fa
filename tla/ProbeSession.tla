---------------------------- MODULE ProbeSession ----------------------------
(***************************************************************************)
(* The probes of one trace: Fire, which replaces the trace's probe session *)
(* by a new one; the goroutine of each, which paints the primary edges hop *)
(* by hop; the capture ingest, which paints them too; stopSession, run by  *)
(* a Fire, by the goroutine's defer and by the trace's teardown; and the   *)
(* SSE requests that subscribe to a session's events.                      *)
(*                                                                         *)
(* Every step is one critical section of sessMu, captureMu, paintMu or     *)
(* subMu.  An observation matches when the model lets it: which packet     *)
(* carries the probe's ICMP identifier is data, and so is the error event  *)
(* of a live probe that finds no destination.                              *)
(***************************************************************************)
EXTENDS Naturals, Sequences, FiniteSets

CONSTANTS
  Fires,    \* the fire requests, each with the session it creates
  Subs,     \* the event requests
  Edges,    \* the number of primary edges
  ChanCap,  \* the capacity of a subscriber's channel (64 in the code)
  Modes,    \* the modes and the demo_drop values that requests have
  Drops,
  Teardown, \* bound: TRUE: the trace may be torn down meanwhile
  None

ASSUME ProbeAssumption ==
  /\ None \notin Fires
  /\ Edges \in Nat \ {0} /\ ChanCap \in Nat \ {0}
  /\ Modes \subseteq {"simulate", "capture"} /\ Drops \subseteq BOOLEAN
  /\ Teardown \in BOOLEAN

\* Those that run stopSession: a fire request, the goroutine of a session, the
\* teardown.
Stoppers == ({"fire", "loop"} \X Fires) \cup {<<"teardown", None>>}

VARIABLES
  cur,        \* sessions[traceID]
  linked,     \* captureLinks has the trace's capture
  fire,       \* progress of a fire request
  mode,       \* "simulate" (or "live"), or "capture"
  demoDrop,
  cancelled,  \* the sessions whose context is done
  loop,       \* progress of the goroutine that Fire starts
  step, victim,  \* a stopSession: its next step, the session it took
  seq,        \* corr.seq
  dropped,    \* an edge is EdgeDroppedRed
  paintMu,    \* "free", or the next step of the paintHop that holds it
  finished,
  obs,        \* the session that ObserveCapturePacket is about to paint
  subscribers,
  sse, at,    \* an event request: its progress, its session
  queue       \* sub.ch; it is closed when sse says so

session == <<mode, demoDrop, cancelled>>
stops == <<step, victim>>
paint == <<seq, dropped, paintMu, finished>>
clients == <<subscribers, sse, at, queue>>
vars == <<cur, linked, fire, session, loop, stops, paint, obs, clients>>

Events == {"probe_started", "edge_update", "probe_finished"}

TypeOK ==
  /\ cur \in Fires \cup {None} /\ obs \in Fires \cup {None}
  /\ linked \in BOOLEAN
  /\ fire \in [Fires -> {"idle", "stop", "insert", "link", "start", "started"}]
  /\ mode \in [Fires -> {"simulate", "capture"}]
  /\ demoDrop \in [Fires -> BOOLEAN]
  /\ cancelled \subseteq Fires
  /\ loop \in [Fires -> {"none", "wait", "check", "hop", "tick", "done"}]
  /\ step \in [Stoppers -> {"idle", "take", "unlink", "cancel", "announce", "close", "done"}]
  /\ victim \in [Stoppers -> Fires \cup {None}]
  /\ seq \in [Fires -> 0..Edges] /\ dropped \in [Fires -> BOOLEAN]
  /\ paintMu \in [Fires -> {"free", "flag", "announce"}]
  /\ finished \in [Fires -> BOOLEAN]
  /\ subscribers \in [Fires -> SUBSET Subs]
  /\ sse \in [Subs -> {"idle", "found", "on", "closed", "snapshot", "done"}]
  /\ at \in [Subs -> Fires \cup {None}]
  /\ queue \in [Subs -> Seq(Events)] /\ \A s \in Subs : Len(queue[s]) <= ChanCap

Init ==
  /\ cur = None /\ obs = None /\ linked = FALSE
  /\ fire = [f \in Fires |-> "idle"]
  /\ mode = [f \in Fires |-> "simulate"]
  /\ demoDrop = [f \in Fires |-> FALSE]
  /\ cancelled = {}
  /\ loop = [f \in Fires |-> "none"]
  /\ step = [w \in Stoppers |-> "idle"]
  /\ victim = [w \in Stoppers |-> None]
  /\ seq = [f \in Fires |-> 0] /\ dropped = [f \in Fires |-> FALSE]
  /\ paintMu = [f \in Fires |-> "free"]
  /\ finished = [f \in Fires |-> FALSE]
  /\ subscribers = [f \in Fires |-> {}]
  /\ sse = [s \in Subs |-> "idle"]
  /\ at = [s \in Subs |-> None]
  /\ queue = [s \in Subs |-> <<>>]

\* A full channel misses the event.
broadcast(f, ev) ==
  queue' = [s \in Subs |->
              IF s \in subscribers[f] /\ Len(queue[s]) < ChanCap
              THEN Append(queue[s], ev) ELSE queue[s]]

-----------------------------------------------------------------------------
(* stopSession *)

Begin(w) == step[w] = "idle" /\ step' = [step EXCEPT ![w] = "take"]

Advance(w, from, to) == step[w] = from /\ step' = [step EXCEPT ![w] = to]

Take(w) ==
  /\ Advance(w, "take", IF cur = None THEN "done" ELSE "unlink")
  /\ victim' = [victim EXCEPT ![w] = cur]
  /\ cur' = None
  /\ UNCHANGED <<linked, fire, session, loop, paint, obs, clients>>

UnlinkCaptureSession(w) ==
  /\ Advance(w, "unlink", "cancel")
  /\ linked' = FALSE
  /\ UNCHANGED <<cur, fire, session, loop, victim, paint, obs, clients>>

CancelSession(w) ==
  /\ Advance(w, "cancel", "announce")
  /\ cancelled' = cancelled \cup {victim[w]}
  /\ UNCHANGED <<cur, linked, fire, mode, demoDrop, loop, victim, paint, obs, clients>>

\* finished is read without paintMu.
Announce(w) ==
  /\ Advance(w, "announce", "close")
  /\ IF finished[victim[w]] THEN UNCHANGED queue ELSE broadcast(victim[w], "probe_finished")
  /\ UNCHANGED <<cur, linked, fire, session, loop, victim, paint, obs,
                 subscribers, sse, at>>

\* mutant: the channels are closed, the subscribers stay.
CloseKeepsSubscribers(w) ==
  /\ Advance(w, "close", "done")
  /\ victim' = [victim EXCEPT ![w] = None]
  /\ sse' = [s \in Subs |-> IF s \in subscribers[victim[w]] THEN "closed" ELSE sse[s]]
  /\ UNCHANGED <<cur, linked, fire, session, loop, paint, obs, subscribers, at, queue>>

Close(w) ==
  /\ Advance(w, "close", "done")
  /\ victim' = [victim EXCEPT ![w] = None]
  /\ sse' = [s \in Subs |-> IF s \in subscribers[victim[w]] THEN "closed" ELSE sse[s]]
  /\ subscribers' = [subscribers EXCEPT ![victim[w]] = {}]
  /\ UNCHANGED <<cur, linked, fire, session, loop, paint, obs, at, queue>>

StopStep(w) ==
  Take(w) \/ UnlinkCaptureSession(w) \/ CancelSession(w) \/ Announce(w) \/ Close(w)

StopTraceProbe ==
  /\ Teardown
  /\ Begin(<<"teardown", None>>)
  /\ UNCHANGED <<cur, linked, fire, session, loop, victim, paint, obs, clients>>

-----------------------------------------------------------------------------
(* Fire, within handleTraceProbeFire *)

FireGoto(f, from, to) == fire[f] = from /\ fire' = [fire EXCEPT ![f] = to]

\* The trace has a capture in either mode: it is simulated on request.
FireBegin(f) ==
  /\ FireGoto(f, "idle", "stop")
  /\ \E m \in Modes, d \in Drops :
       /\ mode' = [mode EXCEPT ![f] = m]
       /\ demoDrop' = [demoDrop EXCEPT ![f] = d]
  /\ Begin(<<"fire", f>>)
  /\ UNCHANGED <<cur, linked, cancelled, loop, victim, paint, obs, clients>>

Insert(f) ==
  /\ FireGoto(f, "stop", "link")
  /\ step[<<"fire", f>>] = "done"
  /\ cur' = f
  /\ UNCHANGED <<linked, session, loop, stops, paint, obs, clients>>

LinkCaptureSession(f) ==
  /\ FireGoto(f, "link", "start")
  /\ linked' = (linked \/ mode[f] = "capture")
  /\ UNCHANGED <<cur, session, loop, stops, paint, obs, clients>>

Start(f) ==
  /\ FireGoto(f, "start", "started")
  /\ broadcast(f, "probe_started")
  /\ loop' = [loop EXCEPT ![f] = IF mode[f] = "capture" THEN "wait" ELSE "check"]
  /\ UNCHANGED <<cur, linked, session, stops, paint, obs, subscribers, sse, at>>

\* The context of the request, the parent of the session's, ends when its
\* handler returns, or before when its client leaves.
ContextDone(f) ==
  /\ fire[f] # "idle" /\ f \notin cancelled
  /\ cancelled' = cancelled \cup {f}
  /\ UNCHANGED <<cur, linked, fire, mode, demoDrop, loop, stops, paint, obs, clients>>

-----------------------------------------------------------------------------
(* Painting *)

Remaining(f) == Edges - seq[f]

\* mutant: the drop comes after the last hop.
DropsHereLate(f) == demoDrop[f] /\ Remaining(f) = 0

DropsHere(f) == demoDrop[f] /\ Remaining(f) = 1

\* mutant: paintHop does not look at finished.
MayPaintAgain(f) == paintMu[f] = "free"

MayPaint(f) == paintMu[f] = "free" /\ ~finished[f]

\* paintHop, up to finishProbe: the next edge is painted; after the last one
\* the lock is kept.
paintHop(f) ==
  \/ /\ ~MayPaint(f) /\ paintMu[f] = "free"
     /\ UNCHANGED <<paint, queue>>
  \/ /\ MayPaint(f) /\ Remaining(f) > 0
     /\ seq' = [seq EXCEPT ![f] = @ + 1]
     /\ dropped' = [dropped EXCEPT ![f] = DropsHere(f)]
     /\ paintMu' = [paintMu EXCEPT ![f] = IF seq'[f] = Edges THEN "flag" ELSE "free"]
     /\ broadcast(f, "edge_update")
     /\ UNCHANGED finished
  \/ /\ MayPaint(f) /\ Remaining(f) = 0
     /\ paintMu' = [paintMu EXCEPT ![f] = "flag"]
     /\ UNCHANGED <<seq, dropped, finished, queue>>

\* finishProbe: s.finished = true ...
Finish(f) ==
  /\ paintMu[f] = "flag"
  /\ paintMu' = [paintMu EXCEPT ![f] = "announce"]
  /\ finished' = [finished EXCEPT ![f] = TRUE]
  /\ UNCHANGED <<cur, linked, fire, session, loop, stops, seq, dropped, obs, clients>>

\* ... and the final event.
FinishAnnounce(f) ==
  /\ paintMu[f] = "announce"
  /\ paintMu' = [paintMu EXCEPT ![f] = "free"]
  /\ broadcast(f, "probe_finished")
  /\ UNCHANGED <<cur, linked, fire, session, loop, stops, seq, dropped, finished, obs,
                 subscribers, sse, at>>

\* ObserveCapturePacket: the link, then the session, then its paintHop.
Observe ==
  /\ obs = None /\ linked /\ cur # None
  /\ obs' = cur
  /\ UNCHANGED <<cur, linked, fire, session, loop, stops, paint, clients>>

ingestCapture ==
  /\ obs # None
  /\ paintHop(obs)
  /\ obs' = None
  /\ UNCHANGED <<cur, linked, fire, session, loop, stops, subscribers, sse, at>>

LoopGoto(f, from, to) == loop[f] = from /\ loop' = [loop EXCEPT ![f] = to]

\* isFinished takes paintMu.
isFinished(f) == paintMu[f] = "free" /\ finished[f]

LoopMayExit(f) == f \in cancelled \/ isFinished(f)

\* runCapturePaintLoop's fallback: paint without observations.
Fallback(f) ==
  /\ LoopGoto(f, "wait", "check")
  /\ UNCHANGED <<cur, linked, fire, session, stops, paint, obs, clients>>

\* runSimulatedPaint
LoopCheck(f) ==
  /\ LoopGoto(f, "check", "hop")
  /\ f \notin cancelled /\ paintMu[f] = "free" /\ ~finished[f]
  /\ UNCHANGED <<cur, linked, fire, session, stops, paint, obs, clients>>

LoopHop(f) ==
  /\ LoopGoto(f, "hop", "tick")
  /\ paintHop(f)
  /\ UNCHANGED <<cur, linked, fire, session, stops, obs, subscribers, sse, at>>

LoopTick(f) ==
  /\ LoopGoto(f, "tick", "check")
  /\ paintMu[f] = "free" /\ ~finished[f]
  /\ UNCHANGED <<cur, linked, fire, session, stops, paint, obs, clients>>

\* mutant: the goroutine returns without its defer.
LoopExitNoDefer(f) ==
  /\ loop[f] \in {"wait", "check", "tick"}
  /\ LoopMayExit(f)
  /\ loop' = [loop EXCEPT ![f] = "done"]
  /\ UNCHANGED <<cur, linked, fire, session, stops, paint, obs, clients>>

\* Either loop returns, and the deferred stopSession begins.
LoopExit(f) ==
  /\ loop[f] \in {"wait", "check", "tick"}
  /\ LoopMayExit(f)
  /\ loop' = [loop EXCEPT ![f] = "done"]
  /\ Begin(<<"loop", f>>)
  /\ UNCHANGED <<cur, linked, fire, session, victim, paint, obs, clients>>

-----------------------------------------------------------------------------
(* handleTraceProbeEvents *)

SseGoto(s, from, to) == sse[s] = from /\ sse' = [sse EXCEPT ![s] = to]

\* getSession; when there is none, a snapshot and the wait for the client.
Subscribe(s) ==
  /\ SseGoto(s, "idle", IF cur = None THEN "snapshot" ELSE "found")
  /\ at' = [at EXCEPT ![s] = cur]
  /\ UNCHANGED <<cur, linked, fire, session, loop, stops, paint, obs, subscribers, queue>>

AddSubscriber(s) ==
  /\ SseGoto(s, "found", "on")
  /\ subscribers' = [subscribers EXCEPT ![at[s]] = @ \cup {s}]
  /\ UNCHANGED <<cur, linked, fire, session, loop, stops, paint, obs, at, queue>>

\* The handler returns: unsub.  Nobody reads the channel any more.
Unsub(s) ==
  /\ sse' = [sse EXCEPT ![s] = "done"]
  /\ subscribers' = [f \in Fires |-> subscribers[f] \ {s}]
  /\ at' = [at EXCEPT ![s] = None]
  /\ queue' = [queue EXCEPT ![s] = <<>>]
  /\ UNCHANGED <<cur, linked, fire, session, loop, stops, paint, obs>>

Deliver(s) ==
  /\ sse[s] \in {"on", "closed"}
  /\ queue[s] # <<>> /\ Head(queue[s]) # "probe_finished"
  /\ queue' = [queue EXCEPT ![s] = Tail(@)]
  /\ UNCHANGED <<cur, linked, fire, session, loop, stops, paint, obs,
                 subscribers, sse, at>>

DeliverLast(s) ==
  /\ sse[s] \in {"on", "closed"}
  /\ queue[s] # <<>> /\ Head(queue[s]) = "probe_finished"
  /\ Unsub(s)

ChannelClosed(s) ==
  /\ sse[s] = "closed" /\ queue[s] = <<>>
  /\ Unsub(s)

ClientLeaves(s) ==
  /\ sse[s] \in {"on", "closed", "snapshot"}
  /\ Unsub(s)

SseStep(s) == Deliver(s) \/ DeliverLast(s) \/ ChannelClosed(s)

-----------------------------------------------------------------------------
LoopStep(f) ==
  LoopCheck(f) \/ LoopHop(f) \/ LoopTick(f) \/ LoopExit(f)

FireStep(f) == Insert(f) \/ LinkCaptureSession(f) \/ Start(f)

PaintStep(f) == Finish(f) \/ FinishAnnounce(f)

Next ==
  \/ \E w \in Stoppers : StopStep(w)
  \/ StopTraceProbe \/ Observe \/ ingestCapture
  \/ \E f \in Fires :
       FireBegin(f) \/ FireStep(f) \/ ContextDone(f) \/ Fallback(f) \/ LoopStep(f)
         \/ PaintStep(f)
  \/ \E s \in Subs :
       Subscribe(s) \/ AddSubscriber(s) \/ SseStep(s) \/ ClientLeaves(s)

Spec == Init /\ [][Next]_vars

\* The goroutines: of a fire request, whose context is done once it has
\* answered; of the session it started; of an event request.
FireHandler(f) ==
  FireStep(f) \/ StopStep(<<"fire", f>>) \/ (fire[f] = "started" /\ ContextDone(f))

Goroutine(f) == LoopStep(f) \/ Fallback(f) \/ StopStep(<<"loop", f>>)

SseHandler(s) == AddSubscriber(s) \/ SseStep(s)

\* Goroutines run and timers fire.  A client need not leave, nor a capture see
\* a packet.
FairSpec ==
  /\ Spec
  /\ \A f \in Fires :
       WF_vars(FireHandler(f)) /\ WF_vars(Goroutine(f)) /\ WF_vars(PaintStep(f))
  /\ WF_vars(StopStep(<<"teardown", None>>)) /\ WF_vars(ingestCapture)
  /\ \A s \in Subs : WF_vars(SseHandler(s))

-----------------------------------------------------------------------------
(* Properties. *)

\* No event is sent to a closed channel and no channel is closed twice: the
\* subscribers of a session are the requests whose channel is open, whoever
\* stops the session and whoever leaves.
ChannelsOpen ==
  \A s \in Subs, f \in Fires :
    s \in subscribers[f] <=> sse[s] = "on" /\ at[s] = f

\* The simulated loop and the capture's observations paint a session together:
\* a finished probe has every hop painted, and only a demo's last hop is red.
FinishedIsPainted ==
  \A f \in Fires :
    /\ finished[f] => seq[f] = Edges
    /\ dropped[f] <=> demoDrop[f] /\ seq[f] = Edges

PaintInv == TypeOK /\ FinishedIsPainted

\* A session is finished once: after its final event nothing is painted.
FinishedIsFinal ==
  [][\A f \in Fires : finished[f] /\ paintMu[f] = "free" =>
       seq'[f] = seq[f] /\ paintMu'[f] = "free"]_vars

\* When no two fires overlap, the request of a client that subscribed to a
\* probe while it was the trace's current one ends, whoever stops the probe:
\* the goroutine of an older probe may.
Overlap ==
  \E f, g \in Fires :
    f # g /\ fire[f] \notin {"idle", "started"} /\ fire[g] \notin {"idle", "started"}

SubscriberEnds ==
  []~Overlap =>
    \A s \in Subs, f \in Fires : s \in subscribers[f] /\ cur = f ~> sse[s] = "done"

\* "Fire starts a painted probe and paints primary edges": it gets to the end,
\* unless a teardown or another probe of the trace stops it.
FiredProbeIsPainted ==
  \A f \in Fires :
    fire[f] = "started" /\ cur = f ~>
      finished[f] \/ \E w \in Stoppers \ {<<"loop", f>>} : victim[w] = f
=============================================================================
