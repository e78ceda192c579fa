------------------------ MODULE TraceRegistryProofs ------------------------
(***************************************************************************)
(* Theorems about the trace registry for every number of traces, captures  *)
(* and concurrent requests.                                                *)
(***************************************************************************)
EXTENDS TraceRegistry, TLAPS

Inv == TypeOK /\ LinkInv

-----------------------------------------------------------------------------
(* Type correctness. *)

LEMMA TypeInit == Init => TypeOK
  BY DEF Init, TypeOK, Steps

LEMMA TypeStep == TypeOK /\ PreparedByOne /\ [Next]_vars => TypeOK'
<1> SUFFICES ASSUME TypeOK, PreparedByOne, [Next]_vars
             PROVE  TypeOK'
  OBVIOUS
<1> USE DEF TypeOK, Steps, auth, entries, captures, request
<1>1. ASSUME NEW r \in Requests, NEW a \in Sids, NEW t \in Traces,
             \/ Discover(r, a, t) \/ Start(r, a, t)
             \/ Stop(r, a, t) \/ Teardown(r, a, t)
      PROVE  TypeOK'
  BY <1>1 DEF Discover, Start, Stop, Teardown, Arrive, Goto
<1>2. ASSUME NEW r \in Requests, RequestStep(r)
      PROVE  TypeOK'
  <2>1. CASE Existing(r)
    <3>1. pc' = [pc EXCEPT ![r] = IF cap'[r] = None THEN "prepare" ELSE "lookup"]
      BY <2>1 DEF Existing, Goto
    <3>2. QED
      BY <2>1, <3>1 DEF Existing
  <2>2. CASE DiscoverFails(r) \/ AlreadyRunning(r) \/ Stale(r) \/ PrepareFails(r)
    BY <2>2 DEF DiscoverFails, AlreadyRunning, Stale, PrepareFails, Answer, Goto
  <2>3. CASE Register(r)
    BY <2>3 DEF Register, registerTraceSession, Answer, Goto, CancelOf
  <2>4. CASE Unlink(r) \/ StopCapture(r) \/ TeardownStop(r)
    BY <2>4 DEF Unlink, StopCapture, TeardownStop, Goto, stopTraceCapture, CancelOf
  <2>5. ASSUME NEW c \in Captures, Prepare(r, c)
        PROVE  TypeOK'
    BY <2>5 DEF Prepare, Goto
  <2>6. CASE Link(r)
    <3>1. cap[r] \in Captures
      BY <2>6 DEF Link, Answer, Goto, PreparedByOne
    <3>2. QED
      BY <2>6, <3>1 DEF Link, Answer, Goto, linkTraceCapture, CancelOf
  <2>7. CASE ReleaseStream(r) \/ TeardownCapture(r)
    BY <2>7 DEF ReleaseStream, TeardownCapture, Answer, Goto, teardownCaptureSession
  <2>8. CASE TeardownDelete(r)
    BY <2>8 DEF TeardownDelete, Answer, Goto, deleteTraceSession, Drop, CancelOf
  <2>9. QED
    BY <1>2, <2>1, <2>2, <2>3, <2>4, <2>5, <2>6, <2>7, <2>8 DEF RequestStep
<1>3. ASSUME NEW c \in Captures,
             IngestCancelled(c) \/ IngestEnds(c) \/ CaptureTeardown(c)
      PROVE  TypeOK'
  BY <1>3 DEF IngestCancelled, IngestEnds, Return, CaptureTeardown,
              teardownCaptureSession
<1>4. ASSUME NEW a \in Sids, purgeCaptureSessions(a) \/ LogoutStep(a)
      PROVE  TypeOK'
  <2>1. CASE purgeCaptureSessions(a)
    BY <2>1 DEF purgeCaptureSessions, teardownCaptureSession
  <2>2. CASE purgeTraceSessions(a)
    <3>1. /\ owner' \in [Traces -> Sids \cup {None}]
          /\ capOf' \in [Traces -> Captures \cup {None}]
          /\ cancelOf' \in [Traces -> Captures \cup {None}]
      BY <2>2 DEF purgeTraceSessions, Drop
    <3>2. lost' \subseteq Captures
      BY <2>2 DEF purgeTraceSessions, CancelOf
    <3>3. QED
      BY <2>2, <3>1, <3>2 DEF purgeTraceSessions
  <2>3. CASE DeleteSession(a)
    BY <2>3 DEF DeleteSession
  <2>4. QED
    BY <1>4, <2>1, <2>2, <2>3 DEF LogoutStep
<1>5. CASE UNCHANGED vars
  BY <1>5 DEF vars
<1>6. QED
  BY <1>1, <1>2, <1>3, <1>4, <1>5 DEF Next

-----------------------------------------------------------------------------
(* The steps, by what they may touch. *)

\* Entries, ingests and origins stay.
Links == <<owner, capOf, cancelOf, lost, ingest, cancelled, origin>>

\* No request is about to link that was not, and those that are stay so.
NoNewLink ==
  \A r \in Requests :
    pc'[r] = "link" => pc[r] = "link" /\ cap'[r] = cap[r] /\ on'[r] = on[r]

\* Every step is of one of these kinds.
LEMMA StepKinds ==
  ASSUME TypeOK, [Next]_vars
  PROVE  \/ UNCHANGED Links /\ NoNewLink
         \/ \E r \in Requests : Register(r) \/ Link(r) \/ TeardownDelete(r)
         \/ \E r \in Requests : Unlink(r) \/ StopCapture(r) \/ TeardownStop(r)
         \/ \E r \in Requests, c \in Captures : Prepare(r, c)
         \/ \E c \in Captures : Return(c)
         \/ \E a \in Sids : purgeTraceSessions(a)
<1>1. ASSUME NEW r \in Requests, NEW a \in Sids, NEW t \in Traces,
             \/ Discover(r, a, t) \/ Start(r, a, t)
             \/ Stop(r, a, t) \/ Teardown(r, a, t)
      PROVE  UNCHANGED Links /\ NoNewLink
  BY <1>1 DEF Discover, Start, Stop, Teardown, Arrive, Links, entries, captures, NoNewLink, Goto, TypeOK
<1>2. ASSUME NEW r \in Requests, Existing(r)
      PROVE  UNCHANGED Links /\ NoNewLink
  BY <1>2 DEF Existing, Links, entries, captures, NoNewLink, Goto, TypeOK
<1>3. ASSUME NEW r \in Requests,
             DiscoverFails(r) \/ AlreadyRunning(r) \/ Stale(r) \/ PrepareFails(r)
      PROVE  UNCHANGED Links /\ NoNewLink
  BY <1>3 DEF DiscoverFails, AlreadyRunning, Stale, PrepareFails, Answer, Links,
              entries, captures, NoNewLink, Goto, TypeOK
<1>4. ASSUME NEW r \in Requests, ReleaseStream(r) \/ TeardownCapture(r)
      PROVE  UNCHANGED Links /\ NoNewLink
  BY <1>4 DEF ReleaseStream, TeardownCapture, teardownCaptureSession, Answer, Links,
              entries, NoNewLink, Goto, TypeOK
<1>5. ASSUME NEW c \in Captures, CaptureTeardown(c)
      PROVE  UNCHANGED Links /\ NoNewLink
  BY <1>5 DEF CaptureTeardown, teardownCaptureSession, Links, entries, request,
              NoNewLink
<1>6. ASSUME NEW a \in Sids, purgeCaptureSessions(a) \/ DeleteSession(a)
      PROVE  UNCHANGED Links /\ NoNewLink
  BY <1>6 DEF purgeCaptureSessions, DeleteSession, teardownCaptureSession, Links,
              entries, captures, request, NoNewLink
<1>7. CASE UNCHANGED vars
  <2>1. UNCHANGED Links /\ NoNewLink
    BY <1>7 DEF vars, Links, entries, captures, request, NoNewLink
  <2>2. QED
    BY <2>1
<1>8. QED
  BY <1>1, <1>2, <1>3, <1>4, <1>5, <1>6, <1>7, Zenon
     DEF Next, RequestStep, LogoutStep, IngestCancelled, IngestEnds

-----------------------------------------------------------------------------
(* The parts of the invariant, a lemma each. *)

LEMMA EntriesMatchStep ==
  ASSUME TypeOK, EntriesMatch, PreparedByOne, [Next]_vars
  PROVE  EntriesMatch'
<1> USE DEF TypeOK, EntriesMatch, Live
<1>1. CASE UNCHANGED Links
  BY <1>1 DEF Links
<1>2. ASSUME NEW r \in Requests, Register(r)
      PROVE  EntriesMatch'
  BY <1>2 DEF Register, registerTraceSession, captures
<1>3. ASSUME NEW r \in Requests, Unlink(r) \/ StopCapture(r) \/ TeardownStop(r)
      PROVE  EntriesMatch'
  BY <1>3 DEF Unlink, StopCapture, TeardownStop, stopTraceCapture
<1>4. ASSUME NEW r \in Requests, Link(r)
      PROVE  EntriesMatch'
  <2>1. cap[r] \in Captures /\ on[r] \in Traces /\ origin[cap[r]] = on[r]
    BY <1>4 DEF Link, Answer, Goto, PreparedByOne
  <2>2. ASSUME NEW t \in Traces
        PROVE  /\ capOf'[t] = cancelOf'[t]
               /\ capOf'[t] # None =>
                    Live(t)' /\ origin'[capOf'[t]] = t
                      /\ ingest'[capOf'[t]] \in {"running", "done"}
    <3>1. CASE Live(on[r]) /\ t = on[r]
      BY <1>4, <2>1, <3>1, TraceAssumption DEF Link, linkTraceCapture
    <3>2. CASE ~(Live(on[r]) /\ t = on[r])
      <4>1. capOf'[t] = capOf[t] /\ cancelOf'[t] = cancelOf[t]
        BY <1>4, <3>2 DEF Link, linkTraceCapture
      <4>2. ingest'[capOf[t]] \in {"running", "done"} \/ capOf[t] = None
        BY <1>4, <2>1 DEF Link
      <4>3. QED
        BY <1>4, <4>1, <4>2 DEF Link
    <3>3. QED
      BY <3>1, <3>2
  <2>3. QED
    BY <2>2
<1>5. ASSUME NEW r \in Requests, TeardownDelete(r)
      PROVE  EntriesMatch'
  BY <1>5 DEF TeardownDelete, deleteTraceSession, Drop
<1>6. ASSUME NEW r \in Requests, NEW c \in Captures, Prepare(r, c)
      PROVE  EntriesMatch'
  BY <1>6 DEF Prepare, entries
<1>7. ASSUME NEW c \in Captures, Return(c)
      PROVE  EntriesMatch'
  BY <1>7 DEF Return, entries
<1>8. ASSUME NEW a \in Sids, purgeTraceSessions(a)
      PROVE  EntriesMatch'
  BY <1>8 DEF purgeTraceSessions, Drop, captures
<1>9. QED
  BY StepKinds, <1>1, <1>2, <1>3, <1>4, <1>5, <1>6, <1>7, <1>8, Zenon

LEMMA PreparedByOneStep ==
  ASSUME TypeOK, PreparedByOne, [Next]_vars
  PROVE  PreparedByOne'
<1> USE DEF TypeOK, PreparedByOne
<1>1. CASE UNCHANGED Links /\ NoNewLink
  BY <1>1 DEF Links, NoNewLink
<1>2. ASSUME NEW r \in Requests, Register(r)
      PROVE  PreparedByOne'
  BY <1>2 DEF Register, Answer, Goto, captures
<1>3. ASSUME NEW r \in Requests, Unlink(r) \/ StopCapture(r) \/ TeardownStop(r)
      PROVE  PreparedByOne'
  <2>1. NoNewLink
    BY <1>3 DEF Unlink, StopCapture, TeardownStop, Goto, stopTraceCapture, NoNewLink
  <2>2. QED
    BY <1>3, <2>1 DEF Unlink, StopCapture, TeardownStop, stopTraceCapture, NoNewLink
<1>4. ASSUME NEW r \in Requests, TeardownDelete(r)
      PROVE  PreparedByOne'
  <2>1. NoNewLink
    BY <1>4 DEF TeardownDelete, Answer, Goto, NoNewLink
  <2>2. QED
    BY <1>4, <2>1 DEF TeardownDelete, NoNewLink
<1>5. ASSUME NEW r \in Requests, Link(r)
      PROVE  PreparedByOne'
  BY <1>5 DEF Link, Answer, Goto
<1>6. ASSUME NEW r \in Requests, NEW c \in Captures, Prepare(r, c)
      PROVE  PreparedByOne'
  BY <1>6, TraceAssumption DEF Prepare, Goto
<1>7. ASSUME NEW c \in Captures, Return(c)
      PROVE  PreparedByOne'
  BY <1>7 DEF Return, request
<1>8. ASSUME NEW a \in Sids, purgeTraceSessions(a)
      PROVE  PreparedByOne'
  BY <1>8 DEF purgeTraceSessions, captures, request
<1>9. QED
  BY StepKinds, <1>1, <1>2, <1>3, <1>4, <1>5, <1>6, <1>7, <1>8, Zenon

LEMMA RunningIsLinkedStep ==
  ASSUME TypeOK, EntriesMatch, PreparedByOne, RunningIsLinked, [Next]_vars
  PROVE  RunningIsLinked'
<1> USE DEF TypeOK, RunningIsLinked, Running
<1>1. CASE UNCHANGED Links
  BY <1>1 DEF Links
<1>2. ASSUME NEW r \in Requests, Register(r)
      PROVE  RunningIsLinked'
  BY <1>2, TraceAssumption DEF Register, registerTraceSession, CancelOf, captures
<1>3. ASSUME NEW t \in Traces,
             cancelled' = cancelled \cup CancelOf(t),
             cancelOf' = [cancelOf EXCEPT ![t] = None],
             UNCHANGED <<lost, ingest, origin>>
      PROVE  RunningIsLinked'
  BY <1>3, TraceAssumption DEF CancelOf
<1>4. ASSUME NEW r \in Requests, Unlink(r) \/ StopCapture(r) \/ TeardownStop(r)
      PROVE  RunningIsLinked'
  BY <1>3, <1>4 DEF Unlink, StopCapture, TeardownStop, stopTraceCapture
<1>5. ASSUME NEW r \in Requests, Link(r)
      PROVE  RunningIsLinked'
  <2>1. /\ cap[r] \in Captures /\ on[r] \in Traces
        /\ origin[cap[r]] = on[r] /\ ingest[cap[r]] = "prepared"
    BY <1>5 DEF Link, Answer, Goto, PreparedByOne
  <2>2. /\ ingest' = [ingest EXCEPT ![cap[r]] = "running"]
        /\ origin' = origin /\ lost' = lost
    BY <1>5 DEF Link
  <2>3. CASE Live(on[r])
    <3>1. /\ cancelled' = cancelled \cup CancelOf(on[r])
          /\ cancelOf' = [cancelOf EXCEPT ![on[r]] = cap[r]]
      BY <1>5, <2>3 DEF Link, linkTraceCapture
    <3>2. ASSUME NEW c \in Captures, Running(c)'
          PROVE  cancelOf'[origin'[c]] = c \/ c \in lost'
      <4>1. CASE c = cap[r]
        BY <2>1, <2>2, <3>1, <4>1
      <4>2. CASE c # cap[r]
        <5>1. Running(c)
          BY <2>1, <2>2, <3>1, <3>2, <4>2
        <5>2. CASE origin[c] = on[r]
          <6>1. cancelOf[on[r]] # c
            BY <3>1, <3>2, TraceAssumption DEF CancelOf
          <6>2. QED
            BY <2>2, <5>1, <5>2, <6>1
        <5>3. CASE origin[c] # on[r]
          BY <2>2, <3>1, <5>1, <5>3
        <5>4. QED
          BY <5>2, <5>3
      <4>3. QED
        BY <4>1, <4>2
    <3>3. QED
      BY <3>2
  <2>4. CASE ~Live(on[r])
    BY <1>5, <2>1, <2>2, <2>4 DEF Link, linkTraceCapture
  <2>5. QED
    BY <2>3, <2>4
<1>6. ASSUME NEW r \in Requests, TeardownDelete(r)
      PROVE  RunningIsLinked'
  BY <1>6, TraceAssumption
     DEF TeardownDelete, deleteTraceSession, Drop, CancelOf, EntriesMatch, Live
<1>7. ASSUME NEW r \in Requests, NEW c \in Captures, Prepare(r, c)
      PROVE  RunningIsLinked'
  BY <1>7 DEF Prepare, entries
<1>8. ASSUME NEW c \in Captures, Return(c)
      PROVE  RunningIsLinked'
  BY <1>8 DEF Return, entries
<1>9. ASSUME NEW a \in Sids, purgeTraceSessions(a)
      PROVE  RunningIsLinked'
  <2>1. ASSUME NEW c \in Captures, Running(c)'
        PROVE  cancelOf'[origin'[c]] = c \/ c \in lost'
    <3>1. Running(c) /\ origin'[c] = origin[c] /\ origin[c] \in Traces
      BY <1>9, <2>1 DEF purgeTraceSessions, captures
    <3>2. CASE c \in lost
      BY <1>9, <3>2 DEF purgeTraceSessions
    <3>3. CASE cancelOf[origin[c]] = c
      BY <1>9, <3>1, <3>3, TraceAssumption DEF purgeTraceSessions, Drop, CancelOf
    <3>4. QED
      BY <3>1, <3>2, <3>3
  <2>2. QED
    BY <2>1
<1>10. QED
  BY StepKinds, <1>1, <1>2, <1>4, <1>5, <1>6, <1>7, <1>8, <1>9, Zenon

-----------------------------------------------------------------------------
(* The theorems. *)

LEMMA InvInit == Init => Inv
  BY TypeInit DEF Init, Inv, LinkInv, EntriesMatch, PreparedByOne, RunningIsLinked,
                  Running

LEMMA InvStep == Inv /\ [Next]_vars => Inv'
  BY TypeStep, EntriesMatchStep, PreparedByOneStep, RunningIsLinkedStep
     DEF Inv, LinkInv

\* Type correctness, which rests on a request never linking a capture it does
\* not have.
THEOREM TypeCorrect == Spec => []TypeOK
<1>1. Inv => TypeOK
  BY DEF Inv
<1>2. QED
  BY InvInit, InvStep, <1>1, PTL DEF Spec

\* A live trace's id and cancel function are of one capture that was started
\* for it, and an ingest nobody told to stop is its trace's own, or its entry
\* was purged or overwritten.
THEOREM LinksMatch == Spec => []LinkInv
<1>1. Inv => LinkInv
  BY DEF Inv
<1>2. QED
  BY InvInit, InvStep, <1>1, PTL DEF Spec

\* The registry's invariant as the run checks it, for any number of auth
\* sessions, traces, captures and requests.
THEOREM TraceInvHolds == Spec => []TraceInv
<1>1. TypeOK /\ LinkInv => TraceInv
  BY DEF TraceInv
<1>2. QED
  BY <1>1, TypeCorrect, LinksMatch, PTL

\* However many requests register, start, stop and tear down a trace, at most
\* one ingest runs for it that has not been told to stop, those apart whose
\* entry was purged or overwritten: of two, the entry holds the cancel function
\* of one only.
THEOREM OneIngest == Spec => []OneIngestPerEntry
<1>1. TypeOK /\ LinkInv => OneIngestPerEntry
  BY DEF LinkInv, RunningIsLinked, OneIngestPerEntry
<1>2. QED
  BY <1>1, TypeCorrect, LinksMatch, PTL
=============================================================================
