# Verifying SPCG, the secure packet capture gateway

This directory holds TLA+ modules of the SPCG control plane, the TLC
configurations that model-check them, and TLAPS proofs of what matters most.
Every definition is a translation of code under `src/`; `PROJECT.json` maps each
one to its lines. The modules keep the control of the code (state changes, guards,
early returns, the order of calls) and abstract its data.

## 1. The system

Two Go services and a browser front end.

* **ui-portal** (`internal/portal`) serves HTTP and SSE. It authenticates users,
  admits captures, keeps their packets in memory or streams them to S3, serves
  downloads, runs AI triage and chat, writes the Neo4j graph, and drives
  network-path traces.
* **backend-engine** (`internal/capture`) serves one gRPC call, `StreamPackets`. For
  each stream it creates a sensor DaemonSet, runs an in-process collector on a
  port derived from the session id, watches the pods, and streams chunks back.
* **frontend** (`frontend/`) is a Next.js application that holds a capture's state
  machine in a component.

A capture goes: browser -> `handleCaptureStream` (authenticate, resolve pods, admit,
create, register, mark) -> gRPC -> engine `StartSession` -> DaemonSet -> collector ->
chunks -> `pcap.Session.AppendFlow` and the probe correlator -> SSE events.

### Components, their state and operations

| component | state | operations | what makes it correct |
|---|---|---|---|
| capture registry and handlers (`portal/capture_registry.go`, `handlers.go`, `capture_ingest.go`) | `captureOwners`, `activeCaptureStreams`, the handler goroutines | start (SSE), ingest (trace), release, release-all, teardown, logout purge | no slot leaks, only starts that overlap exceed the cap, data has its owner, a purge is complete |
| capture session and S3 sink (`pcap/session.go`, `s3sink.go`) | per-pod buffers, the multipart upload | append, finalize, export | the object is the frames in order; memory is bounded and keeps the newest |
| trace registry (`portal/trace_registry.go`, `trace_*_handlers.go`) | `traceOwners`: a trace's capture and its cancel function | start (under the client's own id, if it sends one), ensure capture, stop, teardown, logout purge | an entry's id and cancel function are one capture's; one ingest per trace that was not posted again |
| probes (`trace/probe`) | `sessions`, `captureLinks`, subscribers, the correlator | fire, stop, subscribe, observe packets | channels closed once, nothing painted after the end, clients get an end |
| engine stream (`capture/grpc_server.go`, `capture/sensor`) | collectors, DaemonSets, watches | start, watch pods, stream, stop | one sensor per stream and none without one; a stream that listens loses no packet to another |
| derived data (`portal/ai_handlers.go`, `graph_handlers.go`, `graph/neo4j`, `ai/scrubber.go`) | graph rows, scrubbers, chat history, AI credentials | chat, reset, flush, context, topology, triage, delete | nothing outlives a teardown it did not overlap; a token means one address; one topology per capture |
| authentication (`auth`, `portal/auth_oauth_handlers.go`) | sessions, OAuth states, the references that requests hold | authorize, callback, login, expiry, logout, `userClient` | a state is used once, within its TTL, with its own redirect URI; credentials live as long as their session, also for the requests that hold them |
| observability view (`portal/observability_handlers.go`, `pcap/topology*.go`, `flowgraph.go`, `endpoints.go`, `summary.go`, `analytics.go`) | none but the capture's events | topology, selection, limits, sequences, summary | the reply hangs together and accounts for the packets whatever order maps and buffers bring them in |
| selection, access and RBAC views (`k8s/capture_resolve.go`, `owner.go`, `access.go`, `rbac`) | none; the cluster changes under it | resolve selections, verify namespaces, redact | each selected pod once, with its uid; the lists a tenant gets were redacted alike |
| path discovery (`trace/*.go`, `trace/engine`) | a graph under construction | resolve endpoints, services, routes, MetalLB, egress; focus; simplify; three planes | the focus is a shortest path; the reply holds its endpoints and no dangling edge |
| front end (`frontend/app/page.tsx`) | the capture, its abort controller | start, stop, logout | what is shown is the capture that runs |

### Interactions

Goroutines of different requests meet only in package-level maps, each with a lock of
its own (`captureOwnerMu`, `traceOwnerMu`, `chatHistMu`, `aiSessionsMu`, the map of
`pcap`, and `sessMu`, `captureMu`, `paintMu` and `subMu` of the probes). No code path
holds a lock while it asks the cluster, the engine or the graph, except that a capture
session's methods hold `s.mu` across their S3 calls. Cancellation travels by contexts: an SSE
request's ends with its client; an ingest's is a child of `context.Background()` that
the trace registry's `captureCancel` ends; the engine's is its gRPC stream's.

### Hard behaviour

Check-then-act on the admission count; teardown, logout and release racing the
handler that is still starting; S3 calls that fail after they took effect; writers
that finish after the teardown of what they write; a probe's deferred cleanup that
finds a newer session under the same trace; port and DaemonSet-name collisions;
dropped pod refreshes; the engine dying with DaemonSets up. `PROJECT.json` lists each
at its line under "hazards", with the property that covers it or why none does.

## 2. The modules

Every module has one action per critical section (or per call to the outside) and
keeps the source's names. Definitions marked "mutant" are plausible bugs of the
definition that follows them; each property is shown to fail with one of them.

| module | models | proofs | runs |
|---|---|---|---|
| `CaptureCustody` | what the registry promises for a capture's packets: claimed once, never back after they are discarded | | |
| `CaptureRegistry` | the start handlers (SSE and ingest), releases, teardown, expiry and logout | `PortalProofs` | `registry_*` |
| `PcapSession` | one capture session: RAM buffers, or the S3 sink and its multipart upload | `PcapSessionProofs` | `pcap` |
| `TraceRegistry` | traces, their one capture, `ensureTraceCapture`, stop, teardown and purge | `TraceRegistryProofs` | `trace` |
| `ProbeSession` | the probes of one trace: `Fire`, `stopSession`, both paint loops, observations, SSE subscribers | `ProbeSessionProofs` | `probe_*` |
| `EngineSession` | `StreamPackets`, `StartSession`, `StopSession`, `watchPods` | `EngineSessionProofs` | `engine` |
| `DerivedData` | what is derived from one capture: AI and graph handlers against the teardown | `DerivedDataProofs` | `derived` |
| `LoginState` | OAuth states, sessions and their credentials | `PortalProofs` | `login` |
| `FlowTopology`, `Observability` | the computations of the view, as operators; the handler that calls them while packets arrive | `ViewProofs` | `view` |
| `KubeCluster` | the API objects that selection and discovery read, as constants | `PathProofs` | |
| `CaptureSelection` | `ResolveCaptureSelections`, call by call, while pods change and calls fail | `PathProofs` | `paths` |
| `TraceGraph` | the path graph: what each object adds, focus marking, simplification, the planes, the redaction, as operators | `PathProofs` | `paths` |
| `PathDiscovery` | a capture's selection and `POST /trace/path`, from access to reply | `PathProofs` | `paths` |

`CaptureSelection` is the part of `PathDiscovery` that both of its requests share;
`PathDiscovery` composes it with `TraceGraph`, and `Observability` composes
`FlowTopology` with a capture session that keeps receiving.

`MC...` modules give the constants of these values for TLC.

**CaptureRegistry.** `pc[c]` is the step of the handler that starts the capture `c`;
`owners`, `active` and `stored` are `captureOwners`, `activeCaptureStreams` and
`pcap.globalSessions`; `td` and `todo` are the teardowns and purges under way. A
capture is a fresh uuid, so an id is started at most once. Packets, the graph and
the AI state are not in it. `live[c]` is the request's (or ingest's) context,
`stream[c]` its gRPC stream. The SSE handler after a limit waits for its client
(`"wait"`), an ingest returns (`AfterLoop`). `Window` is the starts between the count and
their slot; `overlap` is history, the most that ever were in it together.

**PcapSession.** A packet is its number in the stream and counts one byte;
`s3PartSize` is a number of packets. The methods hold `s.mu` across their S3 calls,
so each is one action. S3 (`upload`, `blobs`, `object`) is external: a call that fails may
have taken effect. `faults`, chosen at the start, says which calls do fail. The log
`log` is history, there to say what the object must be.

**TraceRegistry.** `owner`, `capOf` and `cancelOf` are a trace's entry;
`cancelOf` is the capture whose context the stored function ends, which is what
makes "cancel function and id belong together" a property. A trace id is the client's if
it sends one (`trace_handlers.go:59` makes one only if not), so any session may post any id
at any time: `registerTraceSession` overwrites an entry, whoever's, and does not call
the cancel function it held. `lost` is history: the captures whose cancel function left
`traceOwners` uncalled, in this way or in a logout's purge. `origin[c]` is the trace
that `c` was started for. A request holds its session, trace and capture in `by[r]`,
`on[r]` and `cap[r]` between critical sections, and works on with them though the entry
may have changed hands.

**ProbeSession.** `cur` is `sessions[traceID]`; a stopper is a fire request, a
session's goroutine or the teardown, and `step`/`victim` are its progress in
`stopSession`. `paintHop` holds `paintMu` across `finishProbe`, so its last hop
is split (`paintMu[f]`), since `stopSession` reads `finished` without the lock. A channel is
closed when `sse` says so. Which packets match a probe is data: an observation
may or may not come.

**EngineSession.** `hash[s]` is the port and the DaemonSet name that a session id
comes to; the initial states choose them, so ids that collide are included. A
packet is only the stream whose sensor sent it: `got[s]` is history, whose packets
`s`'s collector took. Kubernetes calls fail
when `Faults` allows; a Create that fails may have created. The history variables
`orphans` and `missed` name the two things the code gives up on: a DaemonSet it
lost track of, and a refresh that found the channel full.

**DerivedData.** `scrubbers` is every scrubber ever made for the capture, as the list of
addresses it numbered, and `current` the one in `sessionScrub`; `chatHist`, `aiSessions`
and `graph` are the maps and rows. A request looks its capture up once (`access`) and
works on afterwards. Texts are sets of tokens and of addresses in clear, each token
with the address it stood for when it was written: that is what makes "restored as
meant" a property. `overlap`, `cut` and `dropped` are history.

**LoginState.** `pending` is `oauthStateStore.states`, `store` and `cred` are the sessions and
the bytes of their kubeconfigs, which a request finds first (`of[r]`, the session it holds a reference to) and `userClient`
reads later, without the store's lock. Time is a clock of few ticks; the settings (methods, URLs, secret) are
chosen at the start. The authorization server is external.

**FlowTopology and Observability.** A packet is a record of what the functions read from its
frame and its enrichment. `events` and `sample` are the handler's two calls of
`Session.Events`, each with the pods' buffers in any order; `todo` is aggregated packet by
packet, and `unmerged` is what the random loop over the details has left.
Ties of sorts that are not stable are broken any way.

**CaptureSelection and PathDiscovery.** `res` is the resolution under way, `live` the uid a
pod name has now, `g` the graph builder's graph, `search` the breadth-first queue, `reply`
the `TopologyResult`. One action per call of the API server: between two of them
pods are recreated or deleted (selection), and any call may fail (`faults`); a list
whose error the code drops finds nothing then. Whatever comes from a Go map (the
namespaces, the destination ids, the services hit) comes in every order. Ids are
`<<kind, namespace, name>>`, as the code joins them. A reply has all that the handler
returns: the graph, the logical plane with its MetalLB paths and egress bindings, the
merged nodes and edges, and the states of the edges. The bindings are those of
the whole cluster. One reading, of `faults`, may fail for the planes, which are built
from lists of their own.

## 3. The runs

### Passing

| run | instance | shows |
|---|---|---|
| `registry_safety` | an SSE capture and an ingest of two auth sessions | `SlotsHaveHandlers`: no slot outlives its handler; `SlotsWithinOverlap`: the cap is exceeded by less than the most starts that overlapped; `StoredDataIsOwned`; `OnlyOwnerEndsCapture`: tenancy; `CaptureInv`, the inductive invariant |
| `registry_liveness` | one SSE capture, fair | `DisconnectEndsCapture`, `PurgeReachesEveryCapture` with a teardown request racing the purge; `ImplementsCustody`, the refinement |
| `pcap` | two pods, 7 packets, parts of 3, two teardowns, every subset of failing S3 calls; memory and S3 | `SinkInv`, `DoneMeansWholeObject`, `TeardownSettlesUpload`, `KeepsNewest` |
| `trace` | one trace id of an auth session, which that session and a second one may post again, two captures, two requests and a logout, fair | `TraceInv`; `OneIngestPerEntry`: a second ingest runs only beside one whose entry was overwritten or purged; `StoppedCaptureEnds` |
| `probe_paint` | one probe of three hops, simulated or of a capture, with and without a demo drop | `PaintInv`, `FinishedIsFinal` |
| `probe_subscribers` | two overlapping fires, a teardown and a client, a channel of one event, fair | `ChannelsOpen`, `SubscriberEnds` |
| `engine` | two streams whose ids collide in port, name, both or neither; every fault; a refresh channel of one event and two changes, fair | `EngineInv`, `SensorHasStream`, `MixOnlyWhileStopping`: a collector takes another stream's packets only after that stream closed its own; `SensorGoes`, `ChangesAreTracked` |
| `derived` | two chats or graph syncs and one more request of any kind, a teardown, packets that arrive, failing stores and LLM | `LeftoversOverlapTeardown`: only what a teardown overlapped survives it; `GraphInv`; `ContextFirst`; `RestoredAsMeant` |
| `login` | two states, two callbacks, a login, a request, an expiry and a logout, in the environments that differ | `StateInv`: a state makes one session and abandoned states are pruned; `ExchangeMatchesAuthorize`; `KubeconfigLivesWithSession`; `RefusedMeansEnded`: a request that found its session is refused only after that session ended |
| `view` | up to four packets of six kinds from two pods, limits of 3 nodes, 2 edges, 2 steps and 3 events | `ViewIsClosed`, `EdgesAccount`, `LanesKeepTheirPackets`, `HandshakesOrderFree` |
| `paths` | four pods in two namespaces, up to three selections out of seven with two faults, or one of 72 path requests with one fault and six choices of endpoints | `SelectionHonoured`, `FocusIsShortestPath`, `ReplyIsWhole`, `RedactedListsAgree`: a redacted graph and the merged planes beside it name no host, host network or MetalLB peer, and differ by address pools and secondary networks alone |

`...Inv` are type correctness and the component's invariant together: `CaptureInv`
(`TypeOK`, `RegistryInv`), `TraceInv` (`TypeOK`, `LinkInv`), `EngineInv` (`TypeOK`, `HoldsInv`), `SinkInv` (`TypeOK`,
`PartsInv`), `PaintInv` (`TypeOK`, `FinishedIsPainted`), `GraphInv` (`TypeOK`, `GraphIsOneTopology`), `StateInv`
(`LoginTypeOK`, `OneSessionPerState`, `AbandonedStatesArePruned`).

Why these bounds: the registry's, the traces' and the engine's rules relate at most two
captures (or requests) at a time, and the third adds no new pair; what is proved needs no
bound. Packets: seven is two full parts and a rest, past `maxFramesPerPod` (2) and
`MaxCaptureBytes` (4). `OneEach` (tenants) lets each auth session start the one capture
that is its own, `OneLogout` lets one of the two log out, in either role. `SecondPosts` (traces) lets the second session do no more than post the
trace. Three hops let an observation and the loop meet at a first, a middle
and a last edge. A probe's channel holds one event, so that events are dropped. In
`engine`, the pods of one of the two captures change, twice, with room for
one event, so that one is dropped. `derived`: an overlap has two requests, and
a third drops something under them; an export holds one packet of two, so that
successive exports differ (`TwoWriters`, `TwoAtTeardown`). `login`: TTLs of one and two ticks and
a clock of three reach expiry at, before and after each step. `view`: four packets
exceed the three events of a sample, and each limit is exceeded (more tracked pods than
`MaxNodes` are left to the proof). `paths`: three
selections are an owner twice with different selectors and a pod of it; two faults
let a pod go and come back; the two services of one name in two
namespaces, the unscheduled pod, the pool of no peer and the address of a foreign
namespace are each the only case of a branch.

Deadlock is checked in `paths`, whose requests must all come to a reply, a refusal or an
error (`Ended` stutters there). Elsewhere it is not: a finished instance (every handler done,
every session gone) may stop, and the spec says what must not wait for ever with a
liveness property.

### Divergences

One is a run that TLC refutes: `probe_request_context`. `Fire` "paints primary edges as
observations arrive" (`trace/probe/fire.go:75`), but its context is the request's, done
when the handler has answered (`trace_probe_handlers.go:99`).

The following statements are in the modules with a comment that says why they do not hold;
TLC refutes each when it is added to the configuration of its module's passing run
(`registry_safety` for the first two).

| statement | what a document says | what the code does |
|---|---|---|
| `CaptureRegistry!SlotCap` | the limit is "Enforced in Go ... at capture stream start" (`docs/DEPLOYMENT.md:157`) | two starts pass the count (`handlers.go:382`) before either takes its slot (429) |
| `CaptureRegistry!LogoutLeavesNothing` | "removes PCAP/AI state for all captures" (`capture_registry.go:87`) | a start authenticated before the logout registers its capture after it (`handlers.go:428`) |
| `TraceRegistry!OneIngestPerTrace` | `ensureTraceCapture` "starts trace-scoped capture ingest when missing" (`trace_capture_handlers.go:21`) | a trace posted to `/trace/start` again gets a new entry without the ingest it has (`trace_registry.go:31`) |
| `TraceRegistry!LogoutEndsIngests` | "Teardown / logout purge -> delete DS" (`docs/SECURE-ARCHITECTURE-PLAN.md:120`) | `purgeTraceSessions` drops the entries without calling `captureCancel` (`trace_registry.go:120`) |
| `EngineSession!OwnPackets` | "Pod scoping is enforced upstream" (`grpc_server.go:139`) | the port is freed (`manager.go:122`) before the DaemonSet is deleted, and may be another stream's at once |
| `EngineSession!SensorOnlyDuringCapture` | the DaemonSet "exists only during an active capture" (`docs/SECURE-ARCHITECTURE-PLAN.md:18`) | only the stream's deferred call deletes it (`grpc_server.go:65`): it outlives an engine that dies |
| `EngineSession!ChangesAreTold` | it "notifies the capture stream" of changed targets (`podwatch.go:17`) | a change that finds the channel full is dropped and never sent again (`podwatch.go:44`) |
| `DerivedData!UpstreamIsScrubbed` | "AI outbound scrubbing ... before external LLM calls" (`README.md:86`) | a reply is restored before it joins the history (`ai_handlers.go:320`, 329), which the next question sends |
| `Observability!SampleIsMostRecent` | the sample "keeps the most recent events" (`topology_limits.go:12`) | it keeps the tail of a list that is ordered by pod, in map order |
| `PathDiscovery!MergedNodesAreRedacted` | sanitize "strips infra-sensitive nodes/edges" (`rbac/sanitize.go:10`) | an address pool, infrastructure by `isInfraKind` (94), stays in the merged nodes and edges, which are filtered by layer (28) |
| `PathDiscovery!LogicalIsRedacted` | the same | the logical plane is that of before the redaction, with its hosts |
| `PathDiscovery!StatesAreRedacted` | the same | the states are kept under the ids of every edge, `bind:<host>:<interface>` and `cfg:<host>` among them (`orchestrator.go:111`) |
| `Observability!OneMarkerPerPacket` | none | the loop that merges the two directions (`topology.go:231`) reads what it has overwritten: the direction merged second shows its own packets again as replies |
| `PathDiscovery!EveryRequestIsAnswered` | none | a source address of no pod passes `catalog.go:55`, and line 98 takes `src.Pods[0]` of an empty list |
| `PathDiscovery!NamedPodIsCaptured` | none | a pod named in a selection is dropped when an owner selection covers it with a label selector that leaves it out (`capture_resolve.go:134`) |

Others were met while modelling. Captures: `release-stream` frees the slot of a stream
that still runs (`handlers.go:618`); a teardown does not end the stream
(`capture_registry.go:107`); a stream that hit its limit stays open until its client
leaves (`handlers.go:555`), and the duration limit is looked at only when a chunk
arrives (`admission/limits.go:63`); frames that arrive after a teardown finalized the S3 sink
go to memory (`pcap/session.go:115`, 161); a failed dial leaves the multipart upload to a later
teardown (`handlers.go:441`); an expired session's captures stay (`auth/session.go:81`).
Traces: `ensureTraceCapture` answers that a capture runs when only its packets are left
(`trace_capture_handlers.go:28`); the loser of two racing starts keeps its packets under an
id no trace has (59); an older probe's goroutine stops the trace's newer one
(`trace/probe/fire.go:142`); a client that subscribes to a session that was just stopped waits
for ever (`trace/probe/session.go:197`); a trace id that another session posts becomes its own,
and the first session loses it (`trace_registry.go:31`). Engine: chunks carry no pod uid (`grpc_server.go:163`), so a
download by uid finds no buffer. Derived data: the first question of a chat is lost
when the history is empty (`ai_handlers.go:267`); a sync of an older topology may commit after a
newer one; `handleAITriage` asks for no access. View: the summary counts protocols and
ports twice for some events, bucket 0 spans 200 ms since division truncates; the
"top edges by bytes" are cut again by the budget of nodes. Paths: an L2 advertisement
without peers is wired to every BGP peer (`metallb_trace.go:234`); `ipInRange` (189) ignores the start of
a range; the second resolution's error is dropped (`catalog.go:99`); the egress bindings of the
logical plane are those of the whole cluster, whoever asks (`trace/engine/logical.go:230`, 275); `/trace/start`
returns the graph with no redaction; a route
to a service not yet seen names a service that may not exist. The models contain
the behaviour, unless section 7 says otherwise.

## 4. Fairness

`FairSpec` of each module: weak fairness for each goroutine's own next step.
Goroutines are scheduled, timers and tickers fire, calls to the cluster, S3 and
the engine return or time out (each has a timeout or a context). Nothing
obliges a client to call or to leave, a capture to end, or a packet to come. Go's
`select` chooses among ready cases at random, so a loop whose `ctx.Done()` stays ready
takes it at last: that is `ContextEndsLoop`. `ProbeSession`'s `FireHandler` includes
the end of the request's context, because net/http ends it when the handler
returns. `SubscriberEnds` supposes that fires of one trace do not overlap, which the
UI's button ensures and the API does not.

## 5. What is proved

For all values of the constants, with no assumption but those named `...Assumption`
in the modules:

* `PortalProofs`, of `CaptureRegistry`: `TypeOK`; `RegistryInv`, from which, with `TypeOK`, `SlotsHaveHandlers` and
  `StoredDataIsOwned` follow (`CaptureInv` is both); `OnlyOwnerEndsCapture`, step by step from the same
  invariant; `ImplementsCustody`, by showing that every step is one of the
  abstract specification's or a stutter. `SlotsHaveHandlers` alone is not inductive: a
  teardown under way must be known to be after the registration, which is
  `PurgeInv`. `SlotsWithinOverlap` bounds what refutes `SlotCap`, for every number of captures:
  the slots taken and promised stay below the cap plus the most starts that ever were
  together between count and slot, so starts one at a time keep it. It is inductive as it stands: only an admission commits to
  a slot, and it saw all that are taken.
* `TraceRegistryProofs`: `TypeOK`; `LinkInv` (an entry's id and cancel function are of one
  capture, prepared by one request, and an ingest nobody told to stop is its
  trace's, or its entry was overwritten or purged), with every session free to post
  every trace id at any time; `OneIngestPerEntry` from it.
* `EngineSessionProofs`: `TypeOK`; `HoldsInv` (a stream has its port and its
  DaemonSet at exactly the steps it should, whatever ids hash to); `SensorHasStream` and `MixOnlyWhileStopping`
  from it: since a port has one holder, a stream whose packets another collector took had
  closed its own, and it does not open it again.
* `PortalProofs`, of `LoginState`: all four properties of the run. `IssuedInv` is the strengthening: a
  pending state carries the URI that was sent, and a
  consumed one is pending no more and was sent, so it cannot be issued again.
  `HeldInv` says that a session a request holds was stored, and ended if the store has it no
  more, from which `RefusedMeansEnded` follows.
  `KubeconfigInv` adds that a callback's session is never a kubeconfig's. The assumptions
  (`NamesAssumption`) say that ids of callbacks and logins differ and that `None`,
  `Ended` and `NoUri` are none of the values they stand beside.
* `ProbeSessionProofs`: `ChannelsOpen`, `PaintInv` and `FinishedIsFinal`. `HopsInv` is the
  strengthening: a session is unpainted before its request, and one whose `paintMu` is
  kept for the final event has every hop, which is why `Finish` may set the flag.
  `TakenInv` says that a stopper past its first step, and a subscriber that found a
  session, hold a session. `HopStep` does the step that both painters share once.
* `PcapSessionProofs`: all four properties of the run, for any number of pods, packets and
  concurrent teardowns, any part size and capacity, and any failing S3 calls. The
  invariant says that what was sent and `partBuf` are together the stream
  (`WholeStream`), that S3 holds each part under its number, in order (`PartsHeld`), and
  that an upload whose sink is gone was settled (`SettledInv`). `DoneMeansWholeObject` follows
  because assembling the parts gives what was sent (`AssembledIsSent`). `KeepsNewest` is
  inductive once it is read as a set: what a trimmed buffer has lost is older than what it
  keeps.
* `DerivedDataProofs`: all four properties of the run, for any number of requests,
  addresses and packets; each has an invariant. `LeftInv`: from its first step the
  teardown's `overlap` has every request under way, and what a step deleted comes back only
  from those. `OneTopologyInv`: rows seen or stored are of ended syncs. `ContextInv`: a
  chat that waits for its answer finds the history it asked with, unless it was
  dropped. `RestoreInv`: every message's scrubber masks with its tokens the addresses they
  stand for, because a scrubber's map only grows (`ScrubHolds`), and until one is
  dropped there is one.
* `ViewProofs`: all four properties of the run, and `SummaryCoversView`, for any packets, selection and limits.
  `Tracks` says what the map of flows knows after the first k events, in terms of
  their set, which is why the order does not matter (`HandshakesOrderFree`); `Accounts` says the same
  of the topology (`EdgesAccount`). `LimitIsClosed` takes an accounted topology through the
  selection and the limits, whichever of equally heavy edges and nodes are kept
  (`ViewIsClosed`). For `LanesKeepTheirPackets`, `Carries` says of an edge under
  construction that its bytes are those of its packets and its steps are of distinct packets of
  its lane, and `MergedIs` what a merge makes of it, in any order `sort.Slice` may leave
  and whether or not the opposite lane has been overwritten already; `KeyInv` adds that the
  buffers hold a packet once. For `SummaryCoversView`, the sample is mapped one to
  one into the events, so that each of its sums is at most theirs (`SumOfPart`,
  `SumOfFibres`). `PacketsAssumption` gives the packets' fields their types: counters, lengths and
  ports are natural numbers, since the code treats what is not positive as zero
  (`pcap/topology.go:134`, 404). TLC found no violation of `ViewInv` or of
  `SummaryCoversView` on the instance of `view`.
* `PathProofs`: all four properties of the run, for any cluster, requests and number of
  faults. `PathInv` is the strengthening. It says at which steps a request is where; that the graph under
  construction is sound (every edge's ends are nodes, infrastructure ids are of the physical layer, endpoints are
  tracked, and a node's namespace is one the caller may list or MetalLB's), for every object that a step adds;
  and that the queue of the search holds walks of two successive lengths only, the shorter
  first, with every node of a lower layer seen, which is why the first walk to reach the goal
  is a shortest (`FocusIsShortestPath`). `ReplyIsWhole` and `RedactedListsAgree` follow from the soundness, through focus,
  simplification, the planes and the redaction: of the kinds of the logical layer only an address pool
  counts as infrastructure (`KindFits`). `SelectionHonoured` has an invariant of its own, `HonourInv`,
  pod by pod: one that nothing disturbs is among the resolved only if it is asked for, and is
  among them once the selections that ask for it were expanded.
  `ClusterAssumption` says that the lists are finite, that a namespace has one route of a name and
  that advertisements are read from MetalLB's namespaces; `ReferencesAssumption` that a
  pod has at most one owner of the kinds `owner.go` follows, as the cluster's own
  controllers leave it; `RequestsAssumption` that requests are of the forms the handlers decode.

Induction. `FlattenSeq`, `FoldLeft` and the sums of the community modules are recursive functions. A
theorem over a predicate cannot be instantiated here, so these modules prove
`InductionOverNat` with a set in the predicate's place, from the library's theorem that
`<` is well-founded on the naturals. With it they show that the recursive function
exists, what its value is at each argument, and what follows for the sequence
(`FlattenAppend`, `ScrubIs`, `FlowsAre`, `TopologyIs`). `SumFunctionOnSet` takes the elements of its
set in an order of its own: `InductionOverSubsets` shows that the sum does not depend on
it (`SumAdds`). These lemmas are repeated in each module since
each is about its own operator.

Every invariant and every action property that a passing run checks is a theorem of its
specification. Only model-checked are the properties that something happens at last, with
the fairness they need, which are out of the prover's reach: `DisconnectEndsCapture`,
`PurgeReachesEveryCapture`, `StoppedCaptureEnds`, `SubscriberEnds`, `SensorGoes` and
`ChangesAreTracked`.

## 6. Plan

1. Done: `CaptureCustody`, `CaptureRegistry` and proofs: the portal's capture life cycle.
2. Done: `PcapSession` and proofs.
3. Done: `TraceRegistry` and proofs.
4. Done: `ProbeSession` and proofs.
5. Done: `EngineSession` and proofs.
6. Done: `DerivedData` and proofs.
7. Done: `LoginState` and proofs.
8. Done: `FlowTopology` with `Observability`, and proofs; `CaptureSelection` and `TraceGraph`
   with `PathDiscovery`, and proofs.
9. Open: `CaptureClient`, the front end's start, stop and logout composed with the registry
   (`frontend/app/page.tsx:502` awaits a release between aborting the old controller and
   creating the new one); then the portal's stream composed with the engine's.

## 7. Not modelled

Packet parsing, pcapng and JSON formats, flow aggregation, LLM request formats, the text of
Cypher, eBPF loading, certificates, generated code, manifests and rendering: data
transformations or pure I/O without shared state. Of path discovery: path
summaries, tracks and layout, OpenFlow dumps and chassis bindings, host routes, admin policy
routes, the second resolution of the source pods once the graph is finished, and the
ranges of address pools (a pool holds a VIP or not). Of the redaction: labels that are
reworded. Of a trace: the graph that discovery returns. Of the view: diagram text,
drop diagnoses, address classes and the DNS, SNI, ICMP and port tables.
`PROJECT.json` gives the reason for each under "components". Time is abstracted: a
timeout may happen at any moment it is enabled. The engine's sensors stop sending when their
DaemonSet is deleted, which is kinder than the cluster.
