---------------------------- MODULE PcapSession ----------------------------
(***************************************************************************)
(* One capture session of the ui-portal: the chunks its receive loop       *)
(* appends, kept in per-pod buffers or streamed to S3 as the parts of one  *)
(* multipart upload, and FinalizeS3, which the handler calls when its      *)
(* client is gone and teardownCaptureSession calls at any time.            *)
(*                                                                         *)
(* Session methods hold s.mu across their S3 calls, so each is one action. *)
(* S3 itself is external: a call may be refused, or take effect and lose   *)
(* its reply.  A packet is its number in the stream (0 is the pcapng       *)
(* header); a packet is one byte, and s3PartSize a number of packets.      *)
(***************************************************************************)
EXTENDS Integers, Sequences, FiniteSets, SequencesExt, FiniteSetsExt

CONSTANTS
  Pods,             \* buffer keys: podUID, or podName when it is empty
  Faults,           \* the S3 calls that may fail
  Workers,          \* concurrent teardownCaptureSession calls
  s3PartSize,
  maxFramesPerPod,
  MaxCaptureBytes,
  MaxChunks         \* bound: chunks the engine sends

ASSUME PcapAssumption ==
  /\ Faults \subseteq {"upload", "complete", "abort"}
  /\ {s3PartSize, maxFramesPerPod, MaxCaptureBytes} \subseteq Nat \ {0}
  /\ MaxChunks \in Nat

VARIABLES
  S3Mode,    \* NewSessionWithS3, or NewSession
  faults,    \* the S3 calls that do fail at times
  pc,        \* the SSE handler
  td,        \* td[w]: the teardown w
  log,       \* the pods of the chunks received so far
  frames,    \* buf.Frames of each pod
  bytes,     \* buf.Bytes of each pod
  s3sink,    \* s.s3sink # nil
  s3err,     \* s.s3err # nil
  done,      \* s.s3info.UploadDone
  partBuf, parts, partNum,  \* the S3Sink
  upload,    \* S3: the multipart upload
  blobs,     \* S3: the parts it holds, by number
  object     \* S3: the object, once there is one

buffers == <<frames, bytes>>
sink == <<partBuf, parts, partNum>>
s3 == <<upload, blobs, object>>
setting == <<S3Mode, faults>>
vars == <<setting, pc, td, log, buffers, s3sink, s3err, done, sink, s3>>

TypeOK ==
  /\ S3Mode \in BOOLEAN /\ faults \subseteq Faults
  /\ pc \in {"dial", "receive", "check", "wait", "finalize", "done"}
  /\ td \in [Workers -> {"idle", "delete", "done"}]
  /\ log \in Seq(Pods)
  /\ frames \in [Pods -> Seq(Nat)]
  /\ bytes \in [Pods -> Nat]
  /\ s3sink \in BOOLEAN /\ s3err \in BOOLEAN /\ done \in BOOLEAN
  /\ partBuf \in Seq(Nat)
  /\ parts \in Seq([num : Nat, data : Seq(Nat)])
  /\ partNum \in Nat
  /\ upload \in {"open", "completed", "aborted"}
  /\ DOMAIN blobs \subseteq 1..partNum
  /\ \A n \in DOMAIN blobs : blobs[n] \in Seq(Nat)
  /\ object \in Seq(Nat)

Init ==
  /\ S3Mode \in BOOLEAN
  /\ faults \in IF S3Mode THEN SUBSET Faults ELSE {{}}
  /\ pc = "dial"
  /\ td = [w \in Workers |-> "idle"]
  /\ log = <<>>
  /\ frames = [p \in Pods |-> <<>>]
  /\ bytes = [p \in Pods |-> 0]
  /\ s3sink = S3Mode
  /\ s3err = FALSE /\ done = FALSE
  /\ partBuf = <<0>> /\ parts = <<>> /\ partNum = 0
  /\ upload = "open" /\ blobs = <<>> /\ object = <<>>

Goto(from, to) == pc = from /\ pc' = to

-----------------------------------------------------------------------------
(* S3.  An UploadPart that fails may still have stored its part.           *)

PutPart(num, data) == blobs' = [n \in DOMAIN blobs \cup {num} |->
                                  IF n = num THEN data ELSE blobs[n]]

\* mutant: the buffer is emptied before the outcome is known.
UploadFailsReset(data) ==
  /\ "upload" \in faults \/ upload # "open"
  /\ partNum' = partNum + 1
  /\ partBuf' = <<>>
  /\ \/ UNCHANGED blobs
     \/ upload = "open" /\ PutPart(partNum', data)
  /\ UNCHANGED parts

\* UploadPart with data, the buffer, as the next part.
UploadFails(data) ==
  /\ "upload" \in faults \/ upload # "open"
  /\ partNum' = partNum + 1
  /\ partBuf' = data
  /\ \/ UNCHANGED blobs
     \/ upload = "open" /\ PutPart(partNum', data)
  /\ UNCHANGED parts

\* mutant: the number is only taken once the part is there, after a retry.
UploadSucceedsSameNum(data) ==
  /\ upload = "open"
  /\ partNum' = partNum
  /\ parts' = Append(parts, [num |-> partNum + 1, data |-> data])
  /\ PutPart(partNum + 1, data)
  /\ partBuf' = <<>>

UploadSucceeds(data) ==
  /\ upload = "open"
  /\ partNum' = partNum + 1
  /\ parts' = Append(parts, [num |-> partNum', data |-> data])
  /\ PutPart(partNum', data)
  /\ partBuf' = <<>>

Assembled == FlattenSeq([i \in DOMAIN parts' |-> blobs'[parts'[i].num]])

\* CompleteMultipartUpload with the list of parts; its reply may be lost.
CompleteSucceeds ==
  /\ upload = "open"
  /\ upload' = "completed"
  /\ object' = Assembled

CompleteFails ==
  \/ /\ "complete" \in faults \/ upload # "open"
     /\ UNCHANGED <<upload, object>>
  \/ "complete" \in faults /\ CompleteSucceeds

\* Its error is ignored.
AbortMultipartUpload ==
  /\ \/ upload' = IF upload = "open" THEN "aborted" ELSE upload
     \/ "abort" \in faults /\ UNCHANGED upload
  /\ UNCHANGED object

-----------------------------------------------------------------------------
(* The session. *)

\* mutant: a failed flush just returns its error.
FinalizeS3NoAbort ==
  \/ /\ ~s3sink
     /\ UNCHANGED <<s3sink, done, sink, s3>>
  \/ /\ s3sink /\ partBuf # <<>> /\ UploadFails(partBuf)
     /\ UNCHANGED <<s3sink, done, upload, object>>
  \/ /\ s3sink
     /\ IF partBuf = <<>> THEN UNCHANGED <<sink, blobs>> ELSE UploadSucceeds(partBuf)
     /\ \/ CompleteSucceeds /\ s3sink' = FALSE /\ done' = TRUE
        \/ CompleteFails /\ UNCHANGED <<s3sink, done>>

\* FinalizeS3, and S3Sink.Close: flush what is buffered, complete the upload.
FinalizeS3 ==
  \/ /\ ~s3sink
     /\ UNCHANGED <<s3sink, done, sink, s3>>
  \/ /\ s3sink /\ partBuf # <<>> /\ UploadFails(partBuf)
     /\ AbortMultipartUpload
     /\ UNCHANGED <<s3sink, done>>
  \/ /\ s3sink
     /\ IF partBuf = <<>> THEN UNCHANGED <<sink, blobs>> ELSE UploadSucceeds(partBuf)
     /\ \/ CompleteSucceeds /\ s3sink' = FALSE /\ done' = TRUE
        \/ CompleteFails /\ UNCHANGED <<s3sink, done>>

NextPacket == Len(log) + 1

\* WriteFrame: the part is sent as soon as it is large enough.
WriteFrameOK(data) ==
  IF Len(data) < s3PartSize
  THEN /\ partBuf' = data
       /\ UNCHANGED <<parts, partNum, blobs>>
  ELSE UploadSucceeds(data)

WriteFrameFails(data) == Len(data) >= s3PartSize /\ UploadFails(data)

\* AppendFlow while the sink is open: a failed write is remembered.
AppendS3(p) ==
  /\ s3sink
  /\ LET data == Append(partBuf, NextPacket) IN
       \/ /\ WriteFrameOK(data)
          /\ bytes' = [bytes EXCEPT ![p] = @ + 1]
          /\ UNCHANGED s3err
       \/ /\ WriteFrameFails(data)
          /\ s3err' = TRUE
          /\ UNCHANGED bytes
  /\ UNCHANGED <<frames, upload, object>>

\* mutant: trimPodBuffer keeps the oldest frames.
trimPodBufferOldest(fs) == SubSeq(fs, 1, Min({Len(fs), maxFramesPerPod}))

trimPodBuffer(fs) == SubSeq(fs, Max({1, Len(fs) - maxFramesPerPod + 1}), Len(fs))

\* AppendFlow into the pod's buffer.
AppendRAM(p) ==
  /\ ~s3sink
  /\ frames' = [frames EXCEPT ![p] = trimPodBuffer(Append(@, NextPacket))]
  /\ bytes' = [bytes EXCEPT ![p] = @ + 1]
  /\ UNCHANGED <<s3err, sink, s3>>

TotalBytes == MapThenSumSet(LAMBDA p : bytes[p], Pods)

-----------------------------------------------------------------------------
(* The handler: handleCaptureStream from NewSession on. *)

Dial ==
  /\ Goto("dial", "receive")
  /\ UNCHANGED <<setting, td, log, buffers, s3sink, s3err, done, sink, s3>>

\* An early return: no FinalizeS3.
DialFails ==
  /\ Goto("dial", "done")
  /\ UNCHANGED <<setting, td, log, buffers, s3sink, s3err, done, sink, s3>>

\* stream.Recv and AppendFlow
Receive(p) ==
  /\ Goto("receive", "check")
  /\ Len(log) < MaxChunks
  /\ log' = Append(log, p)
  /\ AppendS3(p) \/ AppendRAM(p)
  /\ UNCHANGED <<setting, td, s3sink, done>>

\* LastS3Error, then ShouldStopCapture's byte cap for what is in memory.
MustStop == s3err \/ (~s3sink /\ TotalBytes > MaxCaptureBytes)

\* The duration limit may end the loop after any chunk.
Check ==
  /\ \/ Goto("check", "wait")
     \/ ~MustStop /\ Goto("check", "receive")
  /\ UNCHANGED <<setting, td, log, buffers, s3sink, s3err, done, sink, s3>>

\* stream.Recv fails; and <-r.Context().Done(), which may be long after.
RecvFails ==
  /\ Goto("receive", "wait")
  /\ UNCHANGED <<setting, td, log, buffers, s3sink, s3err, done, sink, s3>>

ClientGone ==
  /\ Goto("wait", "finalize")
  /\ UNCHANGED <<setting, td, log, buffers, s3sink, s3err, done, sink, s3>>

Finalize ==
  /\ Goto("finalize", "done")
  /\ FinalizeS3
  /\ UNCHANGED <<setting, td, log, buffers, s3err>>

\* teardownCaptureSession: FinalizeS3 if pcap.Get finds the session ...
TdFinalize(w) ==
  /\ td[w] = "idle"
  /\ td' = [td EXCEPT ![w] = "delete"]
  /\ IF \E v \in Workers : td[v] = "done"
     THEN UNCHANGED <<s3sink, done, sink, s3>>
     ELSE FinalizeS3
  /\ UNCHANGED <<setting, pc, log, buffers, s3err>>

\* ... then pcap.Delete.
TdDelete(w) ==
  /\ td[w] = "delete"
  /\ td' = [td EXCEPT ![w] = "done"]
  /\ UNCHANGED <<setting, pc, log, buffers, s3sink, s3err, done, sink, s3>>

Next ==
  \/ Dial \/ DialFails \/ Check \/ RecvFails \/ ClientGone \/ Finalize
  \/ \E p \in Pods : Receive(p)
  \/ \E w \in Workers : TdFinalize(w) \/ TdDelete(w)

Spec == Init /\ [][Next]_vars

-----------------------------------------------------------------------------
(* Properties. *)

\* The header and the packets 1 .. n, each once and in order.
Stream(n) == [i \in 1..(n + 1) |-> i - 1]

\* What the sink has sent and what it still buffers is the whole stream, its
\* parts are numbered upwards, and S3 holds each under its number: whatever
\* parts failed, or were stored by a call that failed.
PartsInv ==
  /\ \A i \in DOMAIN parts :
       /\ parts[i].num \in DOMAIN blobs
       /\ blobs[parts[i].num] = parts[i].data
       /\ \A j \in DOMAIN parts : i < j => parts[i].num < parts[j].num
  /\ s3sink =>
       FlattenSeq([i \in DOMAIN parts |-> parts[i].data]) \o partBuf = Stream(Len(log))

SinkInv == TypeOK /\ PartsInv

\* An upload is only reported done with an object that holds every packet
\* received until then, once and in order.
DoneMeansWholeObject ==
  [][done' /\ ~done => upload' = "completed" /\ object' = Stream(Len(log))]_vars

\* "Finalize S3 multipart": after a teardown the upload is completed or
\* aborted, never left open with its parts, whatever parts failed before; S3
\* answering the last call.
TeardownSettlesUpload ==
  \A w \in Workers :
    S3Mode /\ faults \subseteq {"upload"} /\ td[w] = "done" => upload # "open"

\* A download from memory has the newest packets of each pod, once and in
\* order: what was trimmed is older than all that is kept, and nothing is
\* trimmed before the buffer is full.
PacketsOf(p) == {i \in DOMAIN log : log[i] = p}

KeepsNewest ==
  ~S3Mode => \A p \in Pods :
    /\ \A i, j \in DOMAIN frames[p] : i < j => frames[p][i] < frames[p][j]
    /\ ToSet(frames[p]) \subseteq PacketsOf(p)
    /\ Len(frames[p]) <= maxFramesPerPod
    /\ \A old \in PacketsOf(p) \ ToSet(frames[p]) :
         /\ \A new \in ToSet(frames[p]) : old < new
         /\ Len(frames[p]) = maxFramesPerPod
=============================================================================
