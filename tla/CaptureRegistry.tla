-------------------------- MODULE CaptureRegistry --------------------------
(***************************************************************************)
(* The ui-portal's capture registry and everything that drives it: the SSE *)
(* handler handleCaptureStream, the trace-driven ingest prepareCapture-    *)
(* Ingest/runCaptureIngest, the release, teardown and logout endpoints.    *)
(*                                                                         *)
(* Every step is one critical section of captureOwnerMu (or one operation  *)
(* of the pcap.globalSessions map, or of the auth store): the code holds   *)
(* no lock from one step to the next, so the goroutines of different       *)
(* requests interleave between any two of them.  The packets inside a      *)
(* session, and its S3 upload, are PcapSession's; the graph and AI state   *)
(* that teardownCaptureSession also drops is DerivedData's.                *)
(***************************************************************************)
EXTENDS Naturals, FiniteSets

CONSTANTS
  Captures,     \* capture session ids; a start request makes one fresh uuid
  Ingests,      \* those started by ensureTraceCapture; the rest are SSE
  Auths,        \* auth session ids
  NoAuth,       \* "no entry" where an auth session id could stand
  MaxSessions   \* Limits.MaxConcurrentSessions; 0 is "no limit"

ASSUME RegistryAssumption ==
  /\ IsFiniteSet(Captures)
  /\ Ingests \subseteq Captures
  /\ NoAuth \notin Auths
  /\ MaxSessions \in Nat

VARIABLES
  sessions,  \* s.Sessions: the live auth sessions
  pc,        \* pc[c]: what the handler that starts c does next
  who,       \* who[c]: the handler's authSID
  live,      \* live[c]: the handler's context is not cancelled
  stream,    \* stream[c]: the gRPC stream to the backend engine
  stored,    \* pcap.globalSessions
  owners,    \* captureOwners, NoAuth where there is no entry
  active,    \* activeCaptureStreams
  td,        \* td[w][c]: the next step of w's teardownCaptureSession(c)
  logout,    \* logout[a]: progress of handleAuthLogout for a
  todo,      \* todo[a]: the ids purgeCaptureSessions has left to tear down
  overlap    \* history: how many starts have been in Window at one time

handler == <<pc, who, live, stream>>
registry == <<stored, owners, active>>
requests == <<td, logout, todo>>
vars == <<sessions, overlap, handler, registry, requests>>

\* What may be running teardownCaptureSession(c): the teardown endpoint, or
\* purgeCaptureSessions on behalf of a logout.
Workers == {"request", "purge"}

\* Before the capture's data exists.
EarlySteps == {"idle", "admit", "refused", "create"}

\* From the admission check to markCaptureStreamActive.
WindowSteps == {"create", "register", "mark"}

\* From markCaptureStreamActive to the deferred releaseCaptureStream.
SlotSteps == {"dial", "receive", "wait", "hangup", "release"}

TypeOK ==
  /\ sessions \subseteq Auths
  /\ pc \in [Captures -> EarlySteps \cup WindowSteps \cup SlotSteps \cup {"done"}]
  /\ who \in [Captures -> Auths \cup {NoAuth}]
  /\ live \in [Captures -> BOOLEAN]
  /\ stream \in [Captures -> {"none", "open", "closed"}]
  /\ stored \subseteq Captures
  /\ owners \in [Captures -> Auths \cup {NoAuth}]
  /\ active \subseteq Captures
  /\ td \in [Workers -> [Captures -> {"idle", "delete", "forget"}]]
  /\ logout \in [Auths -> {"no", "purging", "done"}]
  /\ todo \in [Auths -> SUBSET Captures]
  /\ overlap \in Nat

Init ==
  /\ sessions = Auths
  /\ pc = [c \in Captures |-> "idle"]
  /\ who = [c \in Captures |-> NoAuth]
  /\ live = [c \in Captures |-> TRUE]
  /\ stream = [c \in Captures |-> "none"]
  /\ stored = {}
  /\ owners = [c \in Captures |-> NoAuth]
  /\ active = {}
  /\ td = [w \in Workers |-> [c \in Captures |-> "idle"]]
  /\ logout = [a \in Auths |-> "no"]
  /\ todo = [a \in Auths |-> {}]
  /\ overlap = 0

Goto(c, from, to) ==
  /\ pc[c] = from
  /\ pc' = [pc EXCEPT ![c] = to]

Owned(a) == {c \in Captures : owners[c] = a}

-----------------------------------------------------------------------------
(* The start handlers, one action per shared access. *)

\* authSessionID and userClient: the session is valid now; the cluster is
\* then asked to resolve the pods, which takes a while.
Authenticate(c, a) ==
  /\ a \in sessions
  /\ Goto(c, "idle", "admit")
  /\ who' = [who EXCEPT ![c] = a]
  /\ UNCHANGED <<sessions, overlap, live, stream, registry, requests>>

\* ResolveCaptureSelections fails, or ValidateStart refuses the start.
Refuse(c) ==
  /\ Goto(c, "admit", "refused")
  /\ UNCHANGED <<sessions, overlap, who, live, stream, registry, requests>>

\* The starts between their admission check and the slot they take.
Window == {c \in Captures : pc[c] \in WindowSteps}

\* mutant: one capture too many passes.
HasRoomOffByOne == MaxSessions > 0 => Cardinality(active) <= MaxSessions

\* ValidateStart(len(pods), activeCaptureSessionCount(), s3), by the count of
\* a moment ago when it is used.
HasRoom == MaxSessions > 0 => Cardinality(active) < MaxSessions

Admit(c) ==
  /\ HasRoom
  /\ Goto(c, "admit", "create")
  /\ LET n == Cardinality(Window \cup {c}) IN
       overlap' = IF n > overlap THEN n ELSE overlap
  /\ UNCHANGED <<sessions, who, live, stream, registry, requests>>

\* NewSession or NewSessionWithS3, SetTrackedPods, pcap.Store.  Nobody else
\* knows the new id yet.
Create(c) ==
  /\ Goto(c, "create", "register")
  /\ stored' = stored \cup {c}
  /\ UNCHANGED <<sessions, overlap, who, live, stream, owners, active, requests>>

\* ValidForCapture or NewSessionWithS3 fails: the SSE handler returns.  (An
\* ingest never asks for S3.)
CreateFails(c) ==
  /\ c \notin Ingests
  /\ Goto(c, "create", "refused")
  /\ UNCHANGED <<sessions, overlap, who, live, stream, registry, requests>>

\* mutant: the two ids swapped in the call.
registerSwapped(c) ==
  /\ Goto(c, "register", "mark")
  /\ owners' = [owners EXCEPT ![c] = c]
  /\ UNCHANGED <<sessions, overlap, who, live, stream, stored, active, requests>>

registerCaptureSession(c) ==
  /\ Goto(c, "register", "mark")
  /\ owners' = [owners EXCEPT ![c] = who[c]]
  /\ UNCHANGED <<sessions, overlap, who, live, stream, stored, active, requests>>

\* mutant: the session is stored only now that the stream is active.
markAndStore(c) ==
  /\ Goto(c, "mark", "dial")
  /\ active' = active \cup {c}
  /\ stored' = stored \cup {c}
  /\ UNCHANGED <<sessions, overlap, who, live, stream, owners, requests>>

markCaptureStreamActive(c) ==
  /\ Goto(c, "mark", "dial")
  /\ active' = active \cup {c}
  /\ UNCHANGED <<sessions, overlap, who, live, stream, stored, owners, requests>>

\* grpc.NewClient, StreamPackets, Send for every target, CloseSend.
Dial(c) ==
  /\ live[c]
  /\ Goto(c, "dial", "receive")
  /\ stream' = [stream EXCEPT ![c] = "open"]
  /\ UNCHANGED <<sessions, overlap, who, live, registry, requests>>

\* mutant: the early return comes before the defer of the release.
DialFailsNoDefer(c) ==
  /\ Goto(c, "dial", "done")
  /\ UNCHANGED <<sessions, overlap, who, live, stream, registry, requests>>

\* One of them fails: the handler returns at once, running its defers.
DialFails(c) ==
  /\ Goto(c, "dial", "hangup")
  /\ UNCHANGED <<sessions, overlap, who, live, stream, registry, requests>>

\* Where the receive loop goes when it ends: the SSE handler still waits for
\* <-r.Context().Done(); runCaptureIngest returns.
AfterLoop(c) == IF c \in Ingests THEN "hangup" ELSE "wait"

\* mutant: the stream is not opened with the request's context.
RecvIgnoresContext(c) ==
  /\ stream[c] = "closed"
  /\ Goto(c, "receive", AfterLoop(c))
  /\ UNCHANGED <<sessions, overlap, who, live, stream, registry, requests>>

\* stream.Recv fails: the engine ended the stream, or the context is done.
RecvFails(c) ==
  /\ stream[c] = "closed" \/ ~live[c]
  /\ Goto(c, "receive", AfterLoop(c))
  /\ UNCHANGED <<sessions, overlap, who, live, stream, registry, requests>>

\* ShouldStopCapture or LastS3Error ends the loop after a chunk.
LimitReached(c) ==
  /\ stream[c] = "open"
  /\ Goto(c, "receive", AfterLoop(c))
  /\ UNCHANGED <<sessions, overlap, who, live, stream, registry, requests>>

\* <-r.Context().Done(), <-done, then FinalizeS3.
ClientGone(c) ==
  /\ ~live[c]
  /\ Goto(c, "wait", "hangup")
  /\ UNCHANGED <<sessions, overlap, who, live, stream, registry, requests>>

\* The handler returns: defer conn.Close() cancels the RPC first ...
Hangup(c) ==
  /\ Goto(c, "hangup", "release")
  /\ stream' = [stream EXCEPT ![c] = "closed"]
  /\ UNCHANGED <<sessions, overlap, who, live, registry, requests>>

\* ... then defer releaseCaptureStream(sess.ID).
Release(c) ==
  /\ Goto(c, "release", "done")
  /\ active' = active \ {c}
  /\ UNCHANGED <<sessions, overlap, who, live, stream, stored, owners, requests>>

-----------------------------------------------------------------------------
(* The environment: clients, trace handlers and the engine. *)

\* The browser drops the SSE request, or the trace registry calls the
\* ingest's cancel function.
Cancel(c) ==
  /\ live[c]
  /\ pc[c] \notin {"idle", "refused", "done"}
  /\ live' = [live EXCEPT ![c] = FALSE]
  /\ UNCHANGED <<sessions, overlap, pc, who, stream, registry, requests>>

\* The engine ends the stream: it fails, or its side saw the cancellation.
EngineEnds(c) ==
  /\ stream[c] = "open"
  /\ stream' = [stream EXCEPT ![c] = "closed"]
  /\ UNCHANGED <<sessions, overlap, pc, who, live, registry, requests>>

\* Store.Get finds the session older than the TTL and wipes it.
Expire(a) ==
  /\ a \in sessions
  /\ sessions' = sessions \ {a}
  /\ UNCHANGED <<overlap, handler, registry, requests>>

\* POST capture/release-stream/c by its owner.
ReleaseStream(c) ==
  /\ owners[c] \in sessions
  /\ active' = active \ {c}
  /\ UNCHANGED <<sessions, overlap, handler, stored, owners, requests>>

\* POST capture/release-all-streams
releaseAllCaptureStreamsForAuth(a) ==
  /\ a \in sessions
  /\ active' = active \ Owned(a)
  /\ UNCHANGED <<sessions, overlap, handler, stored, owners, requests>>

-----------------------------------------------------------------------------
(* teardownCaptureSession, and the two requests that run it. *)

\* w calls teardownCaptureSession(c): first FinalizeS3.
BeginTeardown(w, c) ==
  /\ td[w][c] = "idle"
  /\ td' = [td EXCEPT ![w][c] = "delete"]
  /\ UNCHANGED <<sessions, overlap, handler, registry, logout, todo>>

\* POST capture/teardown/c by its owner.
Teardown(c) ==
  /\ owners[c] \in sessions
  /\ BeginTeardown("request", c)

\* mutant: teardown without pcap.Delete.
TdDeleteGraphOnly(w, c) ==
  /\ td[w][c] = "delete"
  /\ td' = [td EXCEPT ![w][c] = "forget"]
  /\ UNCHANGED <<sessions, overlap, handler, registry, logout, todo>>

\* captureGraph.DeleteCapture, pcap.Delete, then the AI state.
TdDelete(w, c) ==
  /\ td[w][c] = "delete"
  /\ td' = [td EXCEPT ![w][c] = "forget"]
  /\ stored' = stored \ {c}
  /\ UNCHANGED <<sessions, overlap, handler, owners, active, logout, todo>>

\* mutant: the owner's entry is left behind.
TdForgetStreamOnly(w, c) ==
  /\ td[w][c] = "forget"
  /\ td' = [td EXCEPT ![w][c] = "idle"]
  /\ active' = active \ {c}
  /\ todo' = IF w = "purge" THEN [a \in Auths |-> todo[a] \ {c}] ELSE todo
  /\ UNCHANGED <<sessions, overlap, handler, stored, owners, logout>>

\* delete(captureOwners, c); delete(activeCaptureStreams, c)
TdForget(w, c) ==
  /\ td[w][c] = "forget"
  /\ td' = [td EXCEPT ![w][c] = "idle"]
  /\ owners' = [owners EXCEPT ![c] = NoAuth]
  /\ active' = active \ {c}
  /\ todo' = IF w = "purge" THEN [a \in Auths |-> todo[a] \ {c}] ELSE todo
  /\ UNCHANGED <<sessions, overlap, handler, stored, logout>>

\* mutant: the purge collects every registered capture.
LogoutPurgesAll(a) ==
  /\ logout[a] = "no"
  /\ logout' = [logout EXCEPT ![a] = "purging"]
  /\ todo' = [todo EXCEPT ![a] = {c \in Captures : owners[c] # NoAuth}]
  /\ UNCHANGED <<sessions, overlap, handler, registry, td>>

\* handleAuthLogout: purgeCaptureSessions takes the ids under the lock ...
Logout(a) ==
  /\ logout[a] = "no"
  /\ logout' = [logout EXCEPT ![a] = "purging"]
  /\ todo' = [todo EXCEPT ![a] = Owned(a)]
  /\ UNCHANGED <<sessions, overlap, handler, registry, td>>

\* ... and tears them down one after the other, without it.
PurgeNext(a, c) ==
  /\ c \in todo[a]
  /\ \A d \in todo[a] : td["purge"][d] = "idle"
  /\ BeginTeardown("purge", c)

\* purgeTraceSessions(sid), then s.Sessions.Delete(sid).
LogoutDone(a) ==
  /\ logout[a] = "purging"
  /\ todo[a] = {}
  /\ logout' = [logout EXCEPT ![a] = "done"]
  /\ sessions' = sessions \ {a}
  /\ UNCHANGED <<overlap, handler, registry, td, todo>>

-----------------------------------------------------------------------------
Handler(c) ==
  \/ Refuse(c) \/ Admit(c) \/ Create(c) \/ CreateFails(c)
  \/ registerCaptureSession(c) \/ markCaptureStreamActive(c)
  \/ Dial(c) \/ DialFails(c) \/ RecvFails(c) \/ ClientGone(c)
  \/ Hangup(c) \/ Release(c)

TeardownStep(w, c) == TdDelete(w, c) \/ TdForget(w, c)

PurgeStep(a) == LogoutDone(a) \/ \E c \in Captures : PurgeNext(a, c)

Next ==
  \/ \E c \in Captures :
       \/ \E a \in Auths : Authenticate(c, a)
       \/ Handler(c)
       \/ LimitReached(c)
       \/ Cancel(c) \/ EngineEnds(c)
       \/ ReleaseStream(c) \/ Teardown(c)
       \/ \E w \in Workers : TeardownStep(w, c)
  \/ \E a \in Auths :
       \/ Expire(a) \/ releaseAllCaptureStreamsForAuth(a)
       \/ Logout(a) \/ PurgeStep(a)

Spec == Init /\ [][Next]_vars

\* A goroutine that can run does: the handlers' own steps, teardown and
\* logout are finite calls bounded by timeouts.  Nothing obliges a client to
\* call, to leave, or a capture to reach its limit.
Fairness ==
  /\ \A c \in Captures : WF_vars(Handler(c))
  /\ \A w \in Workers, c \in Captures : WF_vars(TeardownStep(w, c))
  /\ \A a \in Auths : WF_vars(PurgeStep(a))

FairSpec == Spec /\ Fairness

-----------------------------------------------------------------------------
(* Safety. *)

\* Every admission slot belongs to a handler that is still on its way to the
\* deferred releaseCaptureStream, whatever order releases, teardowns and
\* early returns come in: no slot leaks.
SlotsHaveHandlers == \A c \in active : pc[c] \in SlotSteps

\* Packets in pcap.globalSessions always have their requester as registered
\* owner, who alone can read them or tear them down; the exception is the
\* moment between pcap.Store and registerCaptureSession.
StoredDataIsOwned ==
  \A c \in stored : owners[c] = who[c] \/ pc[c] = "register"

\* The inductive invariant behind the two: how the step of a capture's
\* handler, the registry's entries and the running teardowns fit together.
Unregistered == EarlySteps \cup {"register"}

HandlerInv(c) ==
  /\ pc[c] = "idle" \/ who[c] \in Auths
  /\ owners[c] # NoAuth => owners[c] = who[c] /\ pc[c] \notin Unregistered
  /\ c \in active => pc[c] \in SlotSteps
  /\ pc[c] = "register" => c \in stored
  /\ c \in stored =>
       pc[c] \notin EarlySteps /\ (pc[c] # "register" => owners[c] = who[c])

PurgeInv(c) ==
  /\ \A w \in Workers :
       /\ td[w][c] # "idle" => pc[c] \notin Unregistered
       /\ td[w][c] = "forget" => c \notin stored
  /\ \A a \in Auths : c \in todo[a] =>
       /\ pc[c] \notin Unregistered
       /\ who[c] = a
       /\ logout[a] = "purging"
  /\ td["purge"][c] # "idle" => c \in todo[who[c]]

RegistryInv == \A c \in Captures : HandlerInv(c) /\ PurgeInv(c)

CaptureInv == TypeOK /\ RegistryInv

\* Tenancy: packets are discarded, and the slot of a running capture freed,
\* only on behalf of the auth session that owns the capture: by its live
\* session or its logout, or by the capture's own handler returning.
OnlyOwnerEndsCapture ==
  [][\A c \in Captures :
       /\ c \in stored \ stored' =>
            td["request"][c] = "delete" \/ logout[who[c]] = "purging"
       /\ c \in active \ active' =>
            \/ pc[c] = "release"
            \/ who[c] \in sessions
            \/ td["request"][c] = "forget"
            \/ logout[who[c]] = "purging"]_vars

\* What is left of Limits.MaxConcurrentSessions when starts overlap: the slots
\* taken, and those that admitted starts will take, exceed it by less than the
\* most starts that ever were in Window together (portal/handlers.go:382).
\* Starts one at a time (overlap <= 1) keep to the limit.
SlotsWithinOverlap ==
  MaxSessions > 0 => Cardinality(active \cup Window) < MaxSessions + overlap

\* "Enforced in Go ... at capture stream start" (docs/DEPLOYMENT.md:157): the
\* limit bounds the captures that hold a slot.  Does not hold for starts that
\* overlap.
SlotCap == MaxSessions > 0 => Cardinality(active) <= MaxSessions

\* "purgeCaptureSessions removes PCAP/AI state for all captures owned by an
\* auth session" (capture_registry.go:87): none of them is left when the
\* logout has returned.  Does not hold: a start that looked its session up
\* before registers its capture after the purge.
LogoutLeavesNothing ==
  \A c \in stored : owners[c] \in Auths => logout[owners[c]] # "done"

\* The registry implements CaptureCustody: data is claimed for one auth
\* session, and what teardown discards never comes back.
PhaseOf(c) ==
  CASE pc[c] \in EarlySteps -> "absent"
    [] pc[c] \notin EarlySteps /\ c \notin stored -> "discarded"
    [] pc[c] \notin EarlySteps /\ c \in stored /\ owners[c] = NoAuth -> "unclaimed"
    [] OTHER -> "held"

Custodian(c) == IF PhaseOf(c) \in {"held", "discarded"} THEN who[c] ELSE NoAuth

Custody == INSTANCE CaptureCustody WITH
  phase <- [c \in Captures |-> PhaseOf(c)],
  custodian <- [c \in Captures |-> Custodian(c)]

ImplementsCustody == Custody!Spec

-----------------------------------------------------------------------------
(* Liveness, under Fairness. *)

\* When the client is gone (or the ingest cancelled), the handler finishes,
\* its slot is free and the engine's stream is over.
DisconnectEndsCapture ==
  \A c \in Captures :
    ~live[c] ~> /\ pc[c] \in {"refused", "done"}
                /\ c \notin active
                /\ stream[c] # "open"

\* Whatever a logout found registered is torn down for good, even when the
\* owner's own teardown requests run at the same time.
PurgeReachesEveryCapture ==
  \A a \in Auths, c \in Captures :
    c \in todo[a] ~> [](c \notin stored /\ owners[c] = NoAuth)
=============================================================================
