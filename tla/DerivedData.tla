---------------------------- MODULE DerivedData ----------------------------
(***************************************************************************)
(* What the portal derives from one capture and keeps outside its packets: *)
(* the session's scrubber, the chat history, the AI credentials and the    *)
(* rows of the graph store; the requests that write them, and the teardown *)
(* that discards them.                                                     *)
(*                                                                         *)
(* Each step is one critical section (scrubMu, chatHistMu, aiSessionsMu,   *)
(* captureOwnerMu, the map of pcap) or one call to the graph store or the  *)
(* LLM.  A request looks its capture up once and works on afterwards: that *)
(* is where it meets resets, flushes and teardowns.                        *)
(*                                                                         *)
(* Data: packet i of the capture shows address i, and an export the last   *)
(* Window packets.  A text is what it shows: tokens, each with the address *)
(* it stood for when it was written, and addresses in clear.               *)
(***************************************************************************)
EXTENDS Naturals, Sequences, SequencesExt

CONSTANTS
  Requests,    \* requests to the AI and graph endpoints, each with its goroutine
  NoRequest,
  MaxFrames,   \* bound: packets that arrive
  Window       \* packets in an export (400 in the code)

ASSUME DerivedAssumption ==
  /\ NoRequest \notin Requests
  /\ MaxFrames \in Nat \ {0}
  /\ Window \in 1..MaxFrames

VARIABLES
  owned,      \* captureOwners has the capture
  stored,     \* pcap.globalSessions has it
  frames,     \* packets received so far
  scrubbers,  \* every Scrubber ever made: the addresses it masks, by token
  current,    \* sessionScrub of the capture, 0 for none
  maker,      \* the request that made the current scrubber
  chatHist,   \* chatHist of the capture, a sequence of messages
  aiSessions, \* who stored the credentials of the capture, or NoRequest
  graph,      \* the syncs whose topology the graph store holds
  pc, kind,   \* each request's next step, and what it is
  scrub,      \* the scrubber a request holds
  topo,       \* the version (number of packets) of the topology it built
  asked,      \* the messages it sends to the LLM
  matched,    \* the syncs whose rows its transaction deletes
  td,         \* the next step of teardownCaptureSession
  overlap,    \* history: requests that were under way during the teardown
  cut,        \* history: chats whose history was dropped under them
  dropped,    \* history: a scrubber of the capture has been dropped
  kept        \* history: DeleteCapture failed

local == <<pc, kind, scrub, topo, asked, matched>>
ai == <<scrubbers, current, maker, chatHist, aiSessions>>
history == <<overlap, cut, dropped, kept>>
vars == <<owned, stored, frames, ai, graph, local, td, history>>

Kinds == {"chat", "question", "reset", "flush", "context", "topology", "triage", "triageFlush"}
Chatting == {"chat", "question", "reset"}
Addresses == 1..MaxFrames
Tokens == Nat \X Addresses
Message == [what : {"context", "question", "reply"}, by : Requests, gen : Nat,
            tokens : SUBSET Tokens, clear : SUBSET Addresses]

Steps == {"idle", "access", "scrubber", "get", "reset", "export", "hist", "creds",
          "reply", "dropHist", "dropCreds", "sync", "commit", "done"}

TypeOK ==
  /\ owned \in BOOLEAN /\ stored \in BOOLEAN
  /\ frames \in 1..MaxFrames
  /\ scrubbers \in Seq(Seq(Addresses))
  /\ current \in 0..Len(scrubbers)
  /\ maker \in Requests \cup {NoRequest}
  /\ chatHist \in Seq(Message)
  /\ aiSessions \in Requests \cup {NoRequest}
  /\ graph \subseteq Requests
  /\ pc \in [Requests -> Steps] /\ kind \in [Requests -> Kinds]
  /\ \A r \in Requests : scrub[r] \in 0..Len(scrubbers)
  /\ topo \in [Requests -> 0..MaxFrames]
  /\ asked \in [Requests -> Seq(Message)]
  /\ matched \in [Requests -> SUBSET Requests]
  /\ td \in {"no", "graph", "pcap", "scrubber", "hist", "creds", "owner", "done"}
  /\ overlap \subseteq Requests /\ cut \subseteq Requests
  /\ dropped \in BOOLEAN /\ kept \in BOOLEAN

Init ==
  /\ owned = TRUE /\ stored = TRUE /\ frames = 1
  /\ scrubbers = <<>> /\ current = 0 /\ maker = NoRequest
  /\ chatHist = <<>> /\ aiSessions = NoRequest /\ graph = {}
  /\ pc = [r \in Requests |-> "idle"]
  /\ kind \in [Requests -> Kinds]
  /\ scrub = [r \in Requests |-> 0]
  /\ topo = [r \in Requests |-> 0]
  /\ asked = [r \in Requests |-> <<>>]
  /\ matched = [r \in Requests |-> {}]
  /\ td = "no"
  /\ overlap = {} /\ cut = {} /\ dropped = FALSE /\ kept = FALSE

InFlight == {r \in Requests : pc[r] \notin {"idle", "done"}}
TearingDown == td \notin {"no", "done"}

Goto(r, from, to) ==
  /\ pc[r] = from
  /\ pc' = [pc EXCEPT ![r] = to]

\* The packets in an export, oldest first.
Exported == [i \in 1..(IF frames < Window THEN frames ELSE Window) |->
               frames - (IF frames < Window THEN frames ELSE Window) + i]

-----------------------------------------------------------------------------
(* The scrubber: maskIP numbers what it has not seen. *)

maskIP(map, a) == IF a \in ToSet(map) THEN map ELSE Append(map, a)

\* The map after the addresses of a text have been masked.
Scrub(map, text) == FoldLeft(maskIP, map, text)

TokenOf(map, a) == CHOOSE n \in DOMAIN map : map[n] = a

ScrubbedText(map, text) == {<<TokenOf(map, a), a>> : a \in ToSet(text)}

\* What Restore puts for a token; an unknown one stays.
Restore(map, n) == IF n \in DOMAIN map THEN {map[n]} ELSE {}

\* mutant: a request gets a scrubber of its own.
ScrubberForSessionFresh(r) ==
  /\ scrubbers' = Append(scrubbers, <<>>)
  /\ current' = Len(scrubbers')
  /\ scrub' = [scrub EXCEPT ![r] = current']
  /\ maker' = r

ScrubberForSession(r) ==
  \/ /\ current # 0
     /\ scrub' = [scrub EXCEPT ![r] = current]
     /\ UNCHANGED <<scrubbers, current, maker>>
  \/ /\ current = 0
     /\ scrubbers' = Append(scrubbers, <<>>)
     /\ current' = Len(scrubbers')
     /\ scrub' = [scrub EXCEPT ![r] = current']
     /\ maker' = r

DropScrubber ==
  /\ current' = 0
  /\ dropped' = (dropped \/ current # 0)
  /\ UNCHANGED <<scrubbers, maker>>

\* delete(chatHist, captureID): the chats between their two accesses to the
\* history lose what they read.
DropHist ==
  /\ chatHist' = <<>>
  /\ cut' = cut \cup {r \in Requests : pc[r] \in {"creds", "reply"}}

-----------------------------------------------------------------------------
(* handleAIChat *)

\* mutant: the owner of the capture is not asked for.
BeginUnchecked(r) ==
  /\ Goto(r, "idle", IF kind[r] \in Chatting THEN "scrubber" ELSE "get")
  /\ overlap' = IF TearingDown THEN overlap \cup {r} ELSE overlap
  /\ UNCHANGED <<owned, stored, frames, ai, graph, kind, scrub, topo, asked, matched, td,
                 cut, dropped, kept>>

\* requireCaptureAccess; triage asks nobody.
Begin(r) ==
  /\ pc[r] = "idle"
  /\ kind[r] \in {"triage", "triageFlush"} \/ owned
  /\ pc' = [pc EXCEPT ![r] =
       CASE kind[r] \in Chatting -> "scrubber"
         [] kind[r] \in {"context", "topology"} -> "get"
         [] kind[r] = "triage" -> "creds"
         [] OTHER -> "access"]
  /\ overlap' = IF TearingDown THEN overlap \cup {r} ELSE overlap
  /\ UNCHANGED <<owned, stored, frames, ai, graph, kind, scrub, topo, asked, matched, td,
                 cut, dropped, kept>>

GetScrubber(r) ==
  /\ Goto(r, "scrubber", IF kind[r] = "context" THEN "export" ELSE "get")
  /\ ScrubberForSession(r)
  /\ UNCHANGED <<owned, stored, frames, chatHist, aiSessions, graph, kind, topo, asked, matched,
                 td, history>>

\* pcap.Get: from here on the request holds the session itself.
GetSession(r) ==
  /\ pc[r] = "get"
  /\ pc' = [pc EXCEPT ![r] =
       CASE ~stored -> "done"
         [] stored /\ kind[r] = "reset" -> "reset"
         [] stored /\ kind[r] = "context" -> "scrubber"
         [] OTHER -> "export"]
  /\ UNCHANGED <<owned, stored, frames, ai, graph, kind, scrub, topo, asked, matched, td, history>>

ResetChat(r) ==
  /\ Goto(r, "reset", "export")
  /\ DropHist
  /\ UNCHANGED <<owned, stored, frames, scrubbers, current, maker, aiSessions, graph, kind, scrub,
                 topo, asked, matched, td, overlap, dropped, kept>>

\* One message stands for those that open a conversation.
BuildTriageMessages(r, map) ==
  <<[what |-> "context", by |-> r, gen |-> scrub[r], clear |-> {},
     tokens |-> ScrubbedText(map, Exported)]>>

\* ExportJSONL, BuildBoundedTopology and buildScrubbedGraphContext.
Export(r) ==
  /\ Goto(r, "export", IF kind[r] \in Chatting THEN "hist" ELSE "sync")
  /\ topo' = [topo EXCEPT ![r] = frames]
  /\ scrubbers' = IF kind[r] = "topology" THEN scrubbers
                  ELSE [scrubbers EXCEPT ![scrub[r]] = Scrub(@, Exported)]
  /\ asked' = IF kind[r] \notin Chatting THEN asked
              ELSE [asked EXCEPT ![r] = BuildTriageMessages(r, scrubbers'[scrub[r]])]
  /\ UNCHANGED <<owned, stored, frames, current, maker, chatHist, aiSessions, graph, kind, scrub,
                 matched, td, history>>

Asks(r) == kind[r] # "chat"

\* The question of the request, about the oldest packet it sees.
UserMessage(r, map) ==
  [what |-> "question", by |-> r, gen |-> scrub[r], clear |-> {},
   tokens |-> ScrubbedText(map, <<Head(Exported)>>)]

\* system prompt, graph summary, JSONL and the request to analyse them
ContextLen == 4

\* len(hist): a context is the messages of BuildTriageMessages.
MessageCount(hist) ==
  Len(hist) + (ContextLen - 1) * Len(SelectSeq(hist, LAMBDA m : m.what = "context"))

\* mutant: the question is appended whatever the history holds.
NextHistAlways(r, map) ==
  IF Asks(r) THEN Append(chatHist, UserMessage(r, map)) ELSE asked[r]

NextHist(r, map) ==
  IF chatHist = <<>> THEN asked[r]
  ELSE IF Asks(r) THEN Append(chatHist, UserMessage(r, map))
  ELSE chatHist

\* The first section on chatHist; without a question there may be nothing to
\* ask.
ReadHist(r) ==
  LET map == IF chatHist # <<>> /\ Asks(r)
             THEN Scrub(scrubbers[scrub[r]], <<Head(Exported)>>) ELSE scrubbers[scrub[r]]
      hist == NextHist(r, map)
  IN  /\ Goto(r, "hist",
              IF ~Asks(r) /\ MessageCount(hist) <= ContextLen THEN "done" ELSE "creds")
      /\ scrubbers' = [scrubbers EXCEPT ![scrub[r]] = map]
      /\ chatHist' = hist
      /\ asked' = [asked EXCEPT ![r] = hist]
      /\ UNCHANGED <<owned, stored, frames, current, maker, aiSessions, graph, kind, scrub, topo,
                     matched, td, history>>

\* The credentials are stored, then the LLM is called with the history.
StoreCreds(r) ==
  /\ pc[r] = "creds" /\ kind[r] \in Chatting
  /\ Goto(r, "creds", "reply")
  /\ aiSessions' = IF aiSessions = NoRequest THEN r ELSE aiSessions
  /\ UNCHANGED <<owned, stored, frames, scrubbers, current, maker, chatHist, graph, kind, scrub,
                 topo, asked, matched, td, history>>

\* What the model can quote from the messages it was sent.
Quotable(r) == UNION {m.tokens : m \in {q \in ToSet(asked[r]) : q.what # "reply"}}

\* The answer quotes a token t; Restore; the second section on chatHist.
Answer(r, t) ==
  /\ Goto(r, "reply", "done")
  /\ chatHist' = Append(chatHist,
       [what |-> "reply", by |-> r, gen |-> scrub[r], tokens |-> {t},
        clear |-> Restore(scrubbers[scrub[r]], t[1])])
  /\ UNCHANGED <<owned, stored, frames, scrubbers, current, maker, aiSessions, graph, kind, scrub,
                 topo, asked, matched, td, history>>

\* 180 s are over, or the endpoint failed.
CallFails(r) ==
  /\ Goto(r, "reply", "done")
  /\ UNCHANGED <<owned, stored, frames, ai, graph, kind, scrub, topo, asked, matched, td, history>>

-----------------------------------------------------------------------------
(* The flushes, and triage. *)

\* flush_session of a chat: scrubber, history, credentials.
FlushScrubber(r) ==
  /\ kind[r] = "flush"
  /\ Goto(r, "access", "dropHist")
  /\ DropScrubber
  /\ UNCHANGED <<owned, stored, frames, chatHist, aiSessions, graph, kind, scrub, topo, asked,
                 matched, td, overlap, cut, kept>>

FlushHist(r) ==
  /\ Goto(r, "dropHist", "dropCreds")
  /\ DropHist
  /\ UNCHANGED <<owned, stored, frames, scrubbers, current, maker, aiSessions, graph, kind, scrub,
                 topo, asked, matched, td, overlap, dropped, kept>>

\* Of triage, the credentials go first.
FlushCreds(r) ==
  /\ \/ kind[r] = "flush" /\ Goto(r, "dropCreds", "done")
     \/ kind[r] = "triageFlush" /\ Goto(r, "access", "dropCreds")
  /\ aiSessions' = NoRequest
  /\ UNCHANGED <<owned, stored, frames, scrubbers, current, maker, chatHist, graph, kind, scrub,
                 topo, asked, matched, td, history>>

\* ResetMaps: the scrubbers of all captures; DropScrubber has nothing left.
ResetMaps(r) ==
  /\ kind[r] = "triageFlush"
  /\ Goto(r, "dropCreds", "done")
  /\ DropScrubber
  /\ UNCHANGED <<owned, stored, frames, chatHist, aiSessions, graph, kind, scrub, topo, asked,
                 matched, td, overlap, cut, kept>>

\* handleAITriage asks the LLM about the merged packets, scrubbed with a
\* scrubber of its own; of the capture's state it stores the credentials.
Triage(r) ==
  /\ kind[r] = "triage"
  /\ Goto(r, "creds", "done")
  /\ aiSessions' = r
  /\ UNCHANGED <<owned, stored, frames, scrubbers, current, maker, chatHist, graph, kind, scrub,
                 topo, asked, matched, td, history>>

-----------------------------------------------------------------------------
(* syncTopologyToGraph, in a goroutine that outlives its request. *)

\* The auth session is gone, the graph is capped or has too many nodes, or
\* the store is off.
SkipSync(r) ==
  /\ Goto(r, "sync", "done")
  /\ UNCHANGED <<owned, stored, frames, ai, graph, kind, scrub, topo, asked, matched, td, history>>

\* ReplaceTopology: its transaction sees the rows committed by now ...
MatchRows(r) ==
  /\ Goto(r, "sync", "commit")
  /\ matched' = [matched EXCEPT ![r] = graph]
  /\ UNCHANGED <<owned, stored, frames, ai, graph, kind, scrub, topo, asked, td, history>>

\* mutant: the rows are added to what is there.
CommitAdds(r) ==
  /\ Goto(r, "commit", "done")
  /\ graph' = graph \cup {r}
  /\ UNCHANGED <<owned, stored, frames, ai, kind, scrub, topo, asked, matched, td, history>>

\* ... deletes those, and commits its own.
Commit(r) ==
  /\ Goto(r, "commit", "done")
  /\ graph' = (graph \ matched[r]) \cup {r}
  /\ UNCHANGED <<owned, stored, frames, ai, kind, scrub, topo, asked, matched, td, history>>

\* Rolled back: the store fails, or the 20 s are over.
CommitFails(r) ==
  /\ Goto(r, "commit", "done")
  /\ UNCHANGED <<owned, stored, frames, ai, graph, kind, scrub, topo, asked, matched, td, history>>

-----------------------------------------------------------------------------
(* The capture: packets, and one teardownCaptureSession. *)

AppendFlow ==
  /\ stored /\ frames < MaxFrames
  /\ frames' = frames + 1
  /\ UNCHANGED <<owned, stored, ai, graph, local, td, history>>

TdBegin ==
  /\ td = "no" /\ owned
  /\ td' = "graph"
  /\ overlap' = InFlight
  /\ UNCHANGED <<owned, stored, frames, ai, graph, local, cut, dropped, kept>>

\* The error of DeleteCapture is ignored.
DeleteCapture ==
  /\ td = "graph" /\ td' = "pcap"
  /\ \/ graph' = {} /\ UNCHANGED kept
     \/ kept' = TRUE /\ UNCHANGED graph
  /\ UNCHANGED <<owned, stored, frames, ai, local, overlap, cut, dropped>>

TdDelete ==
  /\ td = "pcap" /\ td' = "scrubber"
  /\ stored' = FALSE
  /\ UNCHANGED <<owned, frames, ai, graph, local, history>>

TdScrubber ==
  /\ td = "scrubber" /\ td' = "hist"
  /\ DropScrubber
  /\ UNCHANGED <<owned, stored, frames, chatHist, aiSessions, graph, local, overlap, cut, kept>>

TdHist ==
  /\ td = "hist" /\ td' = "creds"
  /\ DropHist
  /\ UNCHANGED <<owned, stored, frames, scrubbers, current, maker, aiSessions, graph, local,
                 overlap, dropped, kept>>

TdCreds ==
  /\ td = "creds" /\ td' = "owner"
  /\ aiSessions' = NoRequest
  /\ UNCHANGED <<owned, stored, frames, scrubbers, current, maker, chatHist, graph, local, history>>

TdOwner ==
  /\ td = "owner" /\ td' = "done"
  /\ owned' = FALSE
  /\ UNCHANGED <<stored, frames, ai, graph, local, history>>

-----------------------------------------------------------------------------
ChatStep(r) ==
  \/ GetScrubber(r) \/ GetSession(r) \/ ResetChat(r) \/ Export(r) \/ ReadHist(r) \/ StoreCreds(r)
  \/ (\E t \in Quotable(r) : Answer(r, t)) \/ CallFails(r)

FlushStep(r) == FlushScrubber(r) \/ FlushHist(r) \/ FlushCreds(r) \/ ResetMaps(r) \/ Triage(r)

SyncStep(r) == SkipSync(r) \/ MatchRows(r) \/ Commit(r) \/ CommitFails(r)

TeardownStep ==
  TdBegin \/ DeleteCapture \/ TdDelete \/ TdScrubber \/ TdHist \/ TdCreds \/ TdOwner

Next ==
  \/ \E r \in Requests : Begin(r) \/ ChatStep(r) \/ FlushStep(r) \/ SyncStep(r)
  \/ AppendFlow
  \/ TeardownStep

Spec == Init /\ [][Next]_vars

-----------------------------------------------------------------------------
\* What is left of a capture after its teardown was written by a request that
\* was under way during it, or is the graph that DeleteCapture failed to
\* delete, or the credentials of a triage, which asks nobody: a request that
\* begins later finds no owner, and one that had ended before left nothing
\* the teardown misses.
LeftoversOverlapTeardown ==
  td = "done" =>
    /\ graph \subseteq overlap \/ kept
    /\ \A m \in ToSet(chatHist) : m.by \in overlap
    /\ current # 0 => maker \in overlap
    /\ aiSessions = NoRequest \/ aiSessions \in overlap \/ kind[aiSessions] = "triage"

\* The graph store holds one topology of a capture, the last committed;
\* several only of transactions that overlapped.
GraphIsOneTopology ==
  \A r, s \in graph : r # s => r \notin matched[s] /\ s \notin matched[r]

GraphInv == TypeOK /\ GraphIsOneTopology

\* Every conversation with the LLM starts with the system prompt and the
\* capture's context, unless the history was dropped under a chat that was
\* waiting for its answer and appended it to nothing.
ContextFirst ==
  chatHist # <<>> =>
    \/ Head(chatHist).what = "context"
    \/ Head(chatHist).what = "reply" /\ Head(chatHist).by \in cut

\* A token that the LLM quotes is restored to the address it stood for in
\* what the LLM was sent, unless a dropped scrubber left tokens of its own in
\* the history.
RestoredAsMeant ==
  \A m \in ToSet(chatHist) : m.what = "reply" =>
    \/ \A t \in m.tokens : m.clear = {t[2]}
    \/ dropped /\ \E q \in ToSet(asked[m.by]) : q.what # "reply" /\ q.gen # m.gen

\* "Public LLMs receive scrubbed tokens only": no address in clear in what is
\* sent.  Does not hold: a reply is restored before it joins the history
\* (portal/ai_handlers.go:320).
UpstreamIsScrubbed ==
  \A r \in Requests : pc[r] = "reply" => \A m \in ToSet(asked[r]) : m.clear = {}
=============================================================================
