--------------------------- MODULE TraceRegistry ---------------------------
(***************************************************************************)
(* The ui-portal's trace registry: the network-path traces of its auth     *)
(* sessions, the capture ingest that ensureTraceCapture starts for one,    *)
(* and the requests that register, start, stop and tear down a trace, the  *)
(* logouts included.                                                       *)
(*                                                                         *)
(* Every step is one critical section of traceOwnerMu, the store's check   *)
(* of the session with the first one of a request.  What a request         *)
(* does to a capture between two of them is one step here: the races       *)
(* inside it are CaptureRegistry's.  The probe that a trace may also have  *)
(* is ProbeSession's.                                                      *)
(***************************************************************************)
EXTENDS Naturals, FiniteSets

CONSTANTS
  Sids,       \* auth session ids
  Traces,     \* trace ids: a client's own, or a uuid
  Captures,   \* capture session ids, each a fresh uuid
  Requests,   \* the requests that may be in progress at the same time
  None        \* no capture, no auth session

ASSUME TraceAssumption == None \notin Captures /\ None \notin Sids

VARIABLES
  sessions,     \* the auth sessions in the store
  logout,       \* logout[a]: progress of a's handleAuthLogout
  owner,        \* owner[t]: AuthSessionID of t's entry in traceOwners, or None
  capOf,        \* its CaptureSessionID
  cancelOf,     \* whose context its captureCancel cancels
  ingest,       \* the goroutine runCaptureIngest of a capture
  cancelled,    \* the captures whose ingest context is cancelled
  captureOwner, \* captureOwners: who stored a capture, None when not stored
  active,       \* activeCaptureStreams
  origin,       \* history: the trace a capture was started for
  lost,         \* history: the captures whose cancel function left traceOwners uncalled
  pc, by, on, cap \* a request: its next step, authSID, its trace, its capture id

auth == <<sessions, logout>>
entries == <<owner, capOf, cancelOf, lost>>
captures == <<ingest, cancelled, captureOwner, active, origin>>
request == <<pc, by, on, cap>>
vars == <<auth, entries, captures, request>>

Steps == {"idle", "register", "existing", "lookup", "unlink", "prepare", "link",
          "stop", "release", "halt", "teardown", "delete"}

TypeOK ==
  /\ sessions \subseteq Sids
  /\ logout \in [Sids -> {"no", "captures", "traces", "done"}]
  /\ owner \in [Traces -> Sids \cup {None}]
  /\ capOf \in [Traces -> Captures \cup {None}]
  /\ cancelOf \in [Traces -> Captures \cup {None}]
  /\ ingest \in [Captures -> {"none", "prepared", "running", "done"}]
  /\ cancelled \subseteq Captures
  /\ captureOwner \in [Captures -> Sids \cup {None}]
  /\ active \subseteq Captures
  /\ origin \in [Captures -> Traces]
  /\ lost \subseteq Captures
  /\ pc \in [Requests -> Steps]
  /\ by \in [Requests -> Sids \cup {None}]
  /\ on \in [Requests -> Traces]
  /\ cap \in [Requests -> Captures \cup {None}]

Init ==
  /\ sessions = Sids
  /\ logout = [a \in Sids |-> "no"]
  /\ owner = [t \in Traces |-> None]
  /\ capOf = [t \in Traces |-> None]
  /\ cancelOf = [t \in Traces |-> None]
  /\ ingest = [c \in Captures |-> "none"]
  /\ cancelled = {}
  /\ captureOwner = [c \in Captures |-> None]
  /\ active = {}
  /\ origin \in [Captures -> Traces]
  /\ lost = {}
  /\ pc = [r \in Requests |-> "idle"]
  /\ by = [r \in Requests |-> None]
  /\ on \in [Requests -> Traces]
  /\ cap = [r \in Requests |-> None]

Goto(r, from, to) ==
  /\ pc[r] = from
  /\ pc' = [pc EXCEPT ![r] = to]

\* A request of auth session a for trace t arrives, and its first step is `to'.
Arrive(r, a, t, to) ==
  /\ a \in sessions
  /\ Goto(r, "idle", to)
  /\ by' = [by EXCEPT ![r] = a]
  /\ on' = [on EXCEPT ![r] = t]

\* It is answered: what it held is gone.
Answer(r, from) ==
  /\ Goto(r, from, "idle")
  /\ by' = [by EXCEPT ![r] = None]
  /\ cap' = [cap EXCEPT ![r] = None]
  /\ UNCHANGED on

Live(t) == owner[t] # None
Stored(c) == captureOwner[c] # None

-----------------------------------------------------------------------------
(* The registry's operations. *)

\* s.captureCancel(), when it is not nil.
CancelOf(t) == IF cancelOf[t] = None THEN {} ELSE {cancelOf[t]}

\* A new entry, whether there was one or not, and whoever's: the cancel
\* function of an older one is not called.
registerTraceSession(t, a) ==
  /\ owner' = [owner EXCEPT ![t] = a]
  /\ capOf' = [capOf EXCEPT ![t] = None]
  /\ cancelOf' = [cancelOf EXCEPT ![t] = None]
  /\ lost' = lost \cup CancelOf(t)

\* mutant: the cancel function is forgotten, not called.
stopTraceCaptureNoCancel(r, t) ==
  /\ cap' = [cap EXCEPT ![r] = IF Live(t) THEN capOf[t] ELSE None]
  /\ capOf' = [capOf EXCEPT ![t] = None]
  /\ cancelOf' = [cancelOf EXCEPT ![t] = None]
  /\ UNCHANGED <<owner, lost, ingest, cancelled, captureOwner, active, origin>>

\* r gets the id of the capture that t had.
stopTraceCapture(r, t) ==
  /\ cap' = [cap EXCEPT ![r] = IF Live(t) THEN capOf[t] ELSE None]
  /\ cancelled' = cancelled \cup CancelOf(t)
  /\ capOf' = [capOf EXCEPT ![t] = None]
  /\ cancelOf' = [cancelOf EXCEPT ![t] = None]
  /\ UNCHANGED <<owner, lost, ingest, captureOwner, active, origin>>

\* mutant: the two strings of the call are swapped.
linkTraceCaptureSwapped(t, c) ==
  IF Live(t)
  THEN /\ cancelled' = cancelled \cup CancelOf(t)
       /\ capOf' = [capOf EXCEPT ![t] = t]
       /\ cancelOf' = [cancelOf EXCEPT ![t] = c]
  ELSE /\ cancelled' = cancelled \cup {c}
       /\ UNCHANGED <<capOf, cancelOf>>

\* mutant: the previous capture's context is not cancelled.
linkTraceCaptureKeepsOld(t, c) ==
  IF Live(t)
  THEN /\ capOf' = [capOf EXCEPT ![t] = c]
       /\ cancelOf' = [cancelOf EXCEPT ![t] = c]
       /\ UNCHANGED cancelled
  ELSE /\ cancelled' = cancelled \cup {c}
       /\ UNCHANGED <<capOf, cancelOf>>

linkTraceCapture(t, c) ==
  IF Live(t)
  THEN /\ cancelled' = cancelled \cup CancelOf(t)
       /\ capOf' = [capOf EXCEPT ![t] = c]
       /\ cancelOf' = [cancelOf EXCEPT ![t] = c]
  ELSE /\ cancelled' = cancelled \cup {c}
       /\ UNCHANGED <<capOf, cancelOf>>

\* Entries leave the map, and their fields with them.
Drop(T) ==
  /\ owner' = [t \in Traces |-> IF t \in T THEN None ELSE owner[t]]
  /\ capOf' = [t \in Traces |-> IF t \in T THEN None ELSE capOf[t]]
  /\ cancelOf' = [t \in Traces |-> IF t \in T THEN None ELSE cancelOf[t]]

deleteTraceSession(t) ==
  /\ cancelled' = cancelled \cup CancelOf(t)
  /\ Drop({t})
  /\ UNCHANGED lost

-----------------------------------------------------------------------------
(* Requests.  All but Discover check that the trace is their session's own. *)

\* handleTraceStart: the session is checked before the cluster is asked, the
\* trace registered after, under the id the client sent or a fresh one.
Discover(r, a, t) ==
  /\ Arrive(r, a, t, "register")
  /\ UNCHANGED <<auth, entries, captures, cap>>

\* Nothing resolves.
DiscoverFails(r) ==
  /\ Answer(r, "register")
  /\ UNCHANGED <<auth, entries, captures>>

Register(r) ==
  /\ Answer(r, "register")
  /\ registerTraceSession(on[r], by[r])
  /\ UNCHANGED <<auth, captures>>

\* handleTraceCaptureStart or handleTraceProbeFire, up to ensureTraceCapture.
Start(r, a, t) ==
  /\ owner[t] = a
  /\ Arrive(r, a, t, "existing")
  /\ UNCHANGED <<auth, entries, captures, cap>>

\* traceCaptureSessionID(traceID)
Existing(r) ==
  /\ cap' = [cap EXCEPT ![r] = capOf[on[r]]]
  /\ Goto(r, "existing", IF cap'[r] = None THEN "prepare" ELSE "lookup")
  /\ UNCHANGED <<auth, entries, captures, by, on>>

\* pcap.Get finds it: AlreadyRunning.
AlreadyRunning(r) ==
  /\ Answer(r, "lookup")
  /\ Stored(cap[r])
  /\ UNCHANGED <<auth, entries, captures>>

Stale(r) ==
  /\ Goto(r, "lookup", "unlink")
  /\ ~Stored(cap[r])
  /\ UNCHANGED <<auth, entries, captures, by, on, cap>>

Unlink(r) ==
  /\ Goto(r, "unlink", "prepare")
  /\ stopTraceCapture(r, on[r])
  /\ UNCHANGED <<auth, by, on>>

\* prepareCaptureIngest stores, registers and marks a new capture ...
Prepare(r, c) ==
  /\ ingest[c] = "none"
  /\ Goto(r, "prepare", "link")
  /\ cap' = [cap EXCEPT ![r] = c]
  /\ ingest' = [ingest EXCEPT ![c] = "prepared"]
  /\ captureOwner' = [captureOwner EXCEPT ![c] = by[r]]
  /\ active' = active \cup {c}
  /\ origin' = [origin EXCEPT ![c] = on[r]]
  /\ UNCHANGED <<auth, entries, cancelled, by, on>>

\* ... or the entry or the session is gone, no pod resolves, or the limits refuse it.
PrepareFails(r) ==
  /\ Answer(r, "prepare")
  /\ UNCHANGED <<auth, entries, captures>>

\* linkTraceCapture, go runCaptureIngest
Link(r) ==
  /\ Answer(r, "link")
  /\ linkTraceCapture(on[r], cap[r])
  /\ ingest' = [ingest EXCEPT ![cap[r]] = "running"]
  /\ UNCHANGED <<auth, owner, lost, captureOwner, active, origin>>

\* handleTraceCaptureStop: stopTraceCapture, then releaseCaptureStream.
Stop(r, a, t) ==
  /\ owner[t] = a
  /\ Arrive(r, a, t, "stop")
  /\ UNCHANGED <<auth, entries, captures, cap>>

StopCapture(r) ==
  /\ Goto(r, "stop", "release")
  /\ stopTraceCapture(r, on[r])
  /\ UNCHANGED <<auth, by, on>>

ReleaseStream(r) ==
  /\ Answer(r, "release")
  /\ active' = active \ {cap[r]}
  /\ UNCHANGED <<auth, entries, ingest, cancelled, captureOwner, origin>>

\* handleTraceTeardown: stopTraceCapture, teardownCaptureSession,
\* deleteTraceSession.
Teardown(r, a, t) ==
  /\ owner[t] = a
  /\ Arrive(r, a, t, "halt")
  /\ UNCHANGED <<auth, entries, captures, cap>>

TeardownStop(r) ==
  /\ Goto(r, "halt", "teardown")
  /\ stopTraceCapture(r, on[r])
  /\ UNCHANGED <<auth, by, on>>

teardownCaptureSession(C) ==
  /\ captureOwner' = [c \in Captures |-> IF c \in C THEN None ELSE captureOwner[c]]
  /\ active' = active \ C
  /\ UNCHANGED <<ingest, origin>>

TeardownCapture(r) ==
  /\ Goto(r, "teardown", "delete")
  /\ teardownCaptureSession({cap[r]})
  /\ UNCHANGED <<auth, entries, cancelled, by, on, cap>>

TeardownDelete(r) ==
  /\ Answer(r, "delete")
  /\ deleteTraceSession(on[r])
  /\ UNCHANGED <<auth, ingest, captureOwner, active, origin>>

\* POST capture/teardown/c: the trace does not hear of it.
CaptureTeardown(c) ==
  /\ captureOwner[c] \in sessions
  /\ teardownCaptureSession({c})
  /\ UNCHANGED <<auth, entries, cancelled, request>>

-----------------------------------------------------------------------------
(* handleAuthLogout of session a, and the ingest goroutines. *)

purgeCaptureSessions(a) ==
  /\ logout[a] = "no"
  /\ logout' = [logout EXCEPT ![a] = "captures"]
  /\ teardownCaptureSession({c \in Captures : captureOwner[c] = a})
  /\ UNCHANGED <<sessions, entries, cancelled, request>>

\* The session's entries are deleted; no captureCancel is called.
purgeTraceSessions(a) ==
  LET own == {t \in Traces : owner[t] = a} IN
  /\ logout[a] = "captures"
  /\ logout' = [logout EXCEPT ![a] = "traces"]
  /\ Drop(own)
  /\ lost' = lost \cup UNION {CancelOf(t) : t \in own}
  /\ UNCHANGED <<sessions, captures, request>>

DeleteSession(a) ==
  /\ logout[a] = "traces"
  /\ logout' = [logout EXCEPT ![a] = "done"]
  /\ sessions' = sessions \ {a}
  /\ UNCHANGED <<entries, captures, request>>

Return(c) ==
  /\ ingest[c] = "running"
  /\ ingest' = [ingest EXCEPT ![c] = "done"]
  /\ active' = active \ {c}
  /\ UNCHANGED <<auth, entries, cancelled, captureOwner, origin, request>>

\* The ingest's context is cancelled: it returns, and so does its stream.
IngestCancelled(c) == c \in cancelled /\ Return(c)

\* The engine fails, or a packet comes and a limit is reached.
IngestEnds(c) == c \notin cancelled /\ Return(c)

-----------------------------------------------------------------------------
RequestStep(r) ==
  \/ DiscoverFails(r) \/ Register(r)
  \/ Existing(r) \/ AlreadyRunning(r) \/ Stale(r) \/ Unlink(r)
  \/ \E c \in Captures : Prepare(r, c)
  \/ PrepareFails(r) \/ Link(r) \/ StopCapture(r) \/ ReleaseStream(r)
  \/ TeardownStop(r) \/ TeardownCapture(r) \/ TeardownDelete(r)

LogoutStep(a) == purgeTraceSessions(a) \/ DeleteSession(a)

Next ==
  \/ \E r \in Requests, a \in Sids, t \in Traces :
       Discover(r, a, t) \/ Start(r, a, t) \/ Stop(r, a, t) \/ Teardown(r, a, t)
  \/ \E r \in Requests : RequestStep(r)
  \/ \E c \in Captures : IngestCancelled(c) \/ IngestEnds(c) \/ CaptureTeardown(c)
  \/ \E a \in Sids : purgeCaptureSessions(a) \/ LogoutStep(a)

Spec == Init /\ [][Next]_vars

\* Goroutines run; a cancelled context ends an ingest.
FairSpec ==
  /\ Spec
  /\ \A r \in Requests : WF_vars(RequestStep(r))
  /\ \A c \in Captures : WF_vars(IngestCancelled(c))
  /\ \A a \in Sids : WF_vars(LogoutStep(a))

-----------------------------------------------------------------------------
(* Properties. *)

Running(c) == ingest[c] = "running" /\ c \notin cancelled

\* A live trace's id and cancel function are of the same capture, which was
\* started for it and launched.
EntriesMatch ==
  \A t \in Traces :
    /\ capOf[t] = cancelOf[t]
    /\ capOf[t] # None =>
         Live(t) /\ origin[capOf[t]] = t /\ ingest[capOf[t]] \in {"running", "done"}

\* A prepared capture is in the hands of the one request that will link it.
PreparedByOne ==
  \A r \in Requests :
    pc[r] = "link" =>
      /\ cap[r] # None
      /\ ingest[cap[r]] = "prepared"
      /\ origin[cap[r]] = on[r]
      /\ \A q \in Requests \ {r} : pc[q] = "link" => cap[q] # cap[r]

\* An ingest that nobody told to stop is its trace's own, so that a teardown
\* leaves none behind; only a logout, or a trace registered again under its
\* id, takes an entry and leaves its ingest.
RunningIsLinked ==
  \A c \in Captures : Running(c) => cancelOf[origin[c]] = c \/ c \in lost

\* The inductive invariant behind OneIngestPerEntry.
LinkInv == EntriesMatch /\ PreparedByOne /\ RunningIsLinked

TraceInv == TypeOK /\ LinkInv

\* However starts, stops and teardowns of a trace interleave, at most one
\* ingest runs for it that has not been told to stop, those apart whose entry
\* was purged or overwritten while it held their cancel function.
OneIngestPerEntry ==
  \A c, d \in Captures :
    Running(c) /\ Running(d) /\ origin[c] = origin[d] /\ c # d =>
      c \in lost \/ d \in lost

\* ensureTraceCapture "starts trace-scoped capture ingest when missing": a
\* trace has one ingest at most.  Does not hold: a trace registered again
\* under its id forgets the ingest it has.
OneIngestPerTrace ==
  \A c, d \in Captures :
    Running(c) /\ Running(d) /\ origin[c] = origin[d] => c = d

\* A capture that a stop or a teardown took from its trace ends and gives its
\* slot back, though another start may race it.
StoppedCaptureEnds ==
  \A r \in Requests, c \in Captures :
    pc[r] \in {"release", "teardown"} /\ cap[r] = c ~> ingest[c] = "done" /\ c \notin active

\* A trace's ingest whose packets a logout has discarded ends.  Does not hold:
\* purgeTraceSessions calls no captureCancel.
LogoutEndsIngests ==
  \A a \in Sids, c \in Captures :
    Running(c) /\ ~Stored(c) /\ owner[origin[c]] = a /\ logout[a] = "captures"
      ~> ~Running(c)
=============================================================================
