------------------------- MODULE PcapSessionProofs -------------------------
(* What a capture session promises, for any number of pods, chunks and      *)
(* concurrent teardowns, any part size, and any S3 calls that fail.         *)
(*                                                                          *)
(* The parts' data is put together with FlattenSeq, a recursive function:   *)
(* the first lemmas are an induction over the naturals, from the library's  *)
(* theorem that a well-founded relation has minimal elements, and what      *)
(* FlattenSeq does with one more part.                                      *)
EXTENDS PcapSession, WellFoundedInduction, SequenceTheorems, TLAPS

\* A set of natural numbers has a least one.
LEMMA LeastNatural ==
  ASSUME NEW T \in SUBSET Nat, T # {}
  PROVE  \E m \in T : \A n \in T : m <= n
<1> DEFINE R == OpToRel(<, Nat)
<1>1. IsWellFoundedOn(R, Nat)
  BY NatLessThanWellFounded
<1>2. \A x, y \in Nat : <<y, x>> \in R <=> y < x
  BY DEF OpToRel
<1> HIDE DEF R
<1>3. PICK x \in T : \A y \in T : ~ (<<y, x>> \in R)
  BY <1>1, WFMin
<1>4. \A y \in T : ~ (y < x)
  BY <1>2, <1>3
<1>5. QED
  BY <1>4

\* Induction, with a set for the predicate: the provers cannot instantiate an
\* operator.
LEMMA InductionOverNat ==
  ASSUME NEW S, 0 \in S, \A n \in Nat : n \in S => n + 1 \in S
  PROVE  Nat \subseteq S
<1>1. SUFFICES ASSUME Nat \ S # {} PROVE FALSE
  OBVIOUS
<1>2. PICK m \in Nat \ S : \A n \in Nat \ S : m <= n
  BY <1>1, LeastNatural
<1>3. m - 1 \in Nat /\ m - 1 \notin Nat \ S
  BY <1>2
<1>4. QED
  BY <1>2, <1>3

\* The function that FlattenSeq computes with.
IsFlat(f, s, n) == f = [i \in 1..n |-> IF i = 1 THEN s[i] ELSE f[i-1] \o s[i]]

\* The equation of a recursive function, at one argument ...
LEMMA FlatValue ==
  ASSUME NEW f, NEW s, NEW n \in Nat, IsFlat(f, s, n), NEW i \in 1..n
  PROVE  f[i] = IF i = 1 THEN s[i] ELSE f[i-1] \o s[i]
<1> DEFINE e(k) == IF k = 1 THEN s[k] ELSE f[k-1] \o s[k]
<1>1. f = [k \in 1..n |-> e(k)]
  BY DEF IsFlat
<1>2. f[i] = e(i)
  <2> HIDE DEF e
  <2>1. QED
    BY <1>1
<1>3. QED
  BY <1>2

\* ... at the first ...
LEMMA FlatFirst ==
  ASSUME NEW f, NEW s, NEW n \in Nat, IsFlat(f, s, n), n # 0
  PROVE  f[1] = s[1]
<1>1. f[1] = IF 1 = 1 THEN s[1] ELSE f[1-1] \o s[1]
  BY 1 \in 1..n, FlatValue
<1>2. QED
  BY <1>1

\* ... and at the others.
LEMMA FlatNext ==
  ASSUME NEW f, NEW s, NEW n \in Nat, IsFlat(f, s, n),
         NEW k \in Nat, k # 0, k + 1 \in 1..n
  PROVE  f[k+1] = f[k] \o s[k+1]
<1>1. f[k+1] = IF k + 1 = 1 THEN s[k+1] ELSE f[(k+1)-1] \o s[k+1]
  BY FlatValue
<1>2. k + 1 # 1 /\ (k+1) - 1 = k
  OBVIOUS
<1>3. QED
  BY <1>1, <1>2

\* There is such a function for every length.
LEMMA FlatExists == ASSUME NEW s PROVE \A n \in Nat : \E f : IsFlat(f, s, n)
<1> DEFINE S == {n \in Nat : \E f : IsFlat(f, s, n)}
<1>1. 0 \in S
  <2>1. IsFlat([i \in 1..0 |-> 0], s, 0)
    BY DEF IsFlat
  <2>2. QED
    BY <2>1
<1>2. ASSUME NEW n \in Nat, n \in S PROVE n + 1 \in S
  <2>1. PICK f : IsFlat(f, s, n)
    BY <1>2
  <2> DEFINE ef(i) == IF i = 1 THEN s[i] ELSE f[i-1] \o s[i]
             g == [i \in 1..(n+1) |-> ef(i)]
             eg(i) == IF i = 1 THEN s[i] ELSE g[i-1] \o s[i]
  <2>2. f = [i \in 1..n |-> ef(i)]
    BY <2>1 DEF IsFlat
  <2>3. \A i \in 1..n : g[i] = f[i]
    <3> HIDE DEF ef
    <3> QED BY <2>2
  <2>4. \A i \in 1..(n+1) : ef(i) = eg(i)
    <3> HIDE DEF g
    <3>1. \A i \in 1..(n+1) : i # 1 => f[i-1] = g[i-1]
      BY <2>3
    <3>2. QED
      BY <3>1
  <2>5. g = [i \in 1..(n+1) |-> eg(i)]
    <3> HIDE DEF ef, eg
    <3> QED BY <2>4
  <2>6. IsFlat(g, s, n+1)
    <3> HIDE DEF g
    <3> QED BY <2>5 DEF IsFlat
  <2>7. QED
    BY <2>6
<1> HIDE DEF S
<1>3. Nat \subseteq S
  BY <1>1, <1>2, InductionOverNat
<1>4. QED
  BY <1>3 DEF S

\* FlattenSeq is the last value of such a function.
LEMMA FlattenIs ==
  ASSUME NEW s, Len(s) \in Nat, Len(s) # 0
  PROVE  \E f : IsFlat(f, s, Len(s)) /\ FlattenSeq(s) = f[Len(s)]
<1> DEFINE f == CHOOSE f : IsFlat(f, s, Len(s))
<1>1. IsFlat(f, s, Len(s))
  BY FlatExists
<1>2. FlattenSeq(s) = f[Len(s)]
  BY DEF FlattenSeq, IsFlat
<1>3. QED
  BY <1>1, <1>2

\* Flattening sequences over a set gives a sequence over it.
LEMMA FlattenType ==
  ASSUME NEW T, NEW s \in Seq(Seq(T))
  PROVE  FlattenSeq(s) \in Seq(T)
<1>1. CASE Len(s) = 0
  BY <1>1 DEF FlattenSeq
<1>2. CASE Len(s) # 0
  <2>1. PICK f : IsFlat(f, s, Len(s)) /\ FlattenSeq(s) = f[Len(s)]
    BY <1>2, FlattenIs
  <2> DEFINE S == {k \in Nat : k \in 1..Len(s) => f[k] \in Seq(T)}
  <2>2. 0 \in S
    OBVIOUS
  <2>3. ASSUME NEW k \in Nat, k \in S PROVE k + 1 \in S
    <3> SUFFICES ASSUME k + 1 \in 1..Len(s) PROVE f[k+1] \in Seq(T)
      OBVIOUS
    <3>1. s[k+1] \in Seq(T)
      OBVIOUS
    <3>2. CASE k = 0
      BY <2>1, <3>1, <3>2, FlatFirst
    <3>3. CASE k # 0
      <4>1. f[k+1] = f[k] \o s[k+1]
        BY <2>1, <3>3, Len(s) \in Nat, FlatNext, Zenon
      <4>2. f[k] \in Seq(T)
        BY <2>3, <3>3
      <4>3. QED
        BY <3>1, <4>1, <4>2, ConcatProperties
    <3>4. QED
      BY <3>2, <3>3
  <2> HIDE DEF S
  <2>4. Nat \subseteq S
    BY <2>2, <2>3, InductionOverNat
  <2>5. QED
    BY <1>2, <2>1, <2>4 DEF S
<1>3. QED
  BY <1>1, <1>2

\* One more part is appended to what the others were flattened to.
LEMMA FlattenAppend ==
  ASSUME NEW T, NEW s \in Seq(Seq(T)), NEW x \in Seq(T)
  PROVE  FlattenSeq(Append(s, x)) = FlattenSeq(s) \o x
<1> DEFINE t == Append(s, x)
<1>1. t \in Seq(Seq(T)) /\ Len(t) = Len(s) + 1 /\ t[Len(s) + 1] = x
      /\ \A i \in 1..Len(s) : t[i] = s[i]
  OBVIOUS
<1>2. PICK g : IsFlat(g, t, Len(t)) /\ FlattenSeq(t) = g[Len(t)]
  <2>1. Len(t) \in Nat /\ Len(t) # 0
    BY <1>1
  <2>2. QED
    BY <2>1, FlattenIs, Zenon
<1>3. CASE Len(s) = 0
  <2>1. s = <<>> /\ FlattenSeq(s) = <<>>
    BY <1>3 DEF FlattenSeq
  <2>2. FlattenSeq(t) = x
    BY <1>1, <1>2, <1>3, FlatFirst
  <2>3. QED
    BY <2>1, <2>2, ConcatEmptySeq
<1>4. CASE Len(s) # 0
  <2> HIDE DEF t
  <2>1. /\ Len(s) \in Nat /\ Len(t) \in Nat /\ Len(s) <= Len(t)
        /\ Len(s) \in 1..Len(s) /\ Len(s) + 1 \in 1..Len(t)
    BY <1>1, <1>4
  <2>2. PICK f : IsFlat(f, s, Len(s)) /\ FlattenSeq(s) = f[Len(s)]
    BY <1>4, <2>1, FlattenIs
  <2>3. \A i \in 1..Len(s) : s[i] = t[i]
    BY <1>1
  <2> DEFINE S == {k \in Nat : k \in 1..Len(s) => f[k] = g[k]}
  <2>4. f[Len(s)] = g[Len(s)]
    <3>1. 0 \in S
      OBVIOUS
    <3>2. ASSUME NEW k \in Nat, k \in S PROVE k + 1 \in S
      <4> SUFFICES ASSUME k + 1 \in 1..Len(s) PROVE f[k+1] = g[k+1]
        OBVIOUS
      <4>1. CASE k = 0
        BY <1>2, <1>4, <2>1, <2>2, <2>3, <4>1, FlatFirst
      <4>2. CASE k # 0
        <5>1. k # 0 /\ k + 1 \in 1..Len(t) /\ k \in 1..Len(s)
          BY <2>1, <4>2
        <5>2. f[k+1] = f[k] \o s[k+1]
          BY <2>1, <2>2, <5>1, FlatNext, ZenonT(30)
        <5>3. g[k+1] = g[k] \o t[k+1]
          BY <1>2, <2>1, <5>1, FlatNext, ZenonT(30)
        <5>4. f[k] = g[k] /\ s[k+1] = t[k+1]
          BY <2>3, <3>2, <5>1
        <5>5. QED
          BY <5>2, <5>3, <5>4, Zenon
      <4>3. QED
        BY <4>1, <4>2
    <3> HIDE DEF S
    <3>3. Nat \subseteq S
      BY <3>1, <3>2, InductionOverNat
    <3>4. QED
      BY <2>1, <3>3 DEF S
  <2>5. g[Len(s) + 1] = g[Len(s)] \o t[Len(s) + 1]
    BY <1>2, <1>4, <2>1, FlatNext, Zenon
  <2>6. FlattenSeq(t) = g[Len(s)] \o x
    BY <1>1, <1>2, <2>5
  <2>7. FlattenSeq(t) = FlattenSeq(s) \o x
    BY <2>1, <2>2, <2>4, <2>6
  <2>8. QED
    BY <2>7 DEF t
<1>5. QED
  BY <1>3, <1>4

-----------------------------------------------------------------------------
(* The sink. *)

\* What has been sent in the parts of the upload.
Datas == [i \in DOMAIN parts |-> parts[i].data]
Sent == FlattenSeq(Datas)

SinkType ==
  /\ partBuf \in Seq(Nat)
  /\ parts \in Seq([num : Nat, data : Seq(Nat)])
  /\ partNum \in Nat
  /\ DOMAIN blobs \subseteq 1..partNum
  /\ \A n \in DOMAIN blobs : blobs[n] \in Seq(Nat)

PartsHeld ==
  \A i \in DOMAIN parts :
    /\ parts[i].num \in DOMAIN blobs
    /\ blobs[parts[i].num] = parts[i].data
    /\ \A j \in DOMAIN parts : i < j => parts[i].num < parts[j].num

\* A function on 1..n is a sequence of length n.
LEMMA SeqOfFcn ==
  ASSUME NEW S, NEW n \in Nat, NEW f \in [1..n -> S]
  PROVE  f \in Seq(S) /\ Len(f) = n
<1>1. f \in Seq(S)
  BY SeqDef
<1>2. DOMAIN f = 1..n /\ DOMAIN f = 1..Len(f) /\ Len(f) \in Nat
  BY <1>1
<1>3. QED
  BY <1>1, <1>2

\* The data of a list of parts.
LEMMA DatasOf ==
  ASSUME NEW ps \in Seq([num : Nat, data : Seq(Nat)])
  PROVE  LET ds == [i \in DOMAIN ps |-> ps[i].data]
         IN  ds \in Seq(Seq(Nat)) /\ Len(ds) = Len(ps)
<1> DEFINE R == [num : Nat, data : Seq(Nat)]
           ds == [i \in DOMAIN ps |-> ps[i].data]
<1>1. Len(ps) \in Nat /\ DOMAIN ps = 1..Len(ps)
  OBVIOUS
<1>2. \A r \in R : r.data \in Seq(Nat)
  OBVIOUS
<1>3. \A i \in 1..Len(ps) : ps[i] \in R
  <2> HIDE DEF R
  <2>1. ps \in Seq(R)
    BY DEF R
  <2>2. QED
    BY <2>1, ElementOfSeq
<1>4. ds \in [1..Len(ps) -> Seq(Nat)]
  <2> HIDE DEF R
  <2>1. \A i \in 1..Len(ps) : ps[i].data \in Seq(Nat)
    BY <1>2, <1>3
  <2>2. QED
    BY <1>1, <2>1, Zenon
<1> HIDE DEF ds
<1>5. ds \in Seq(Seq(Nat)) /\ Len(ds) = Len(ps)
  BY <1>1, <1>4, SeqOfFcn
<1>6. QED
  BY <1>5 DEF ds

\* What was sent is a sequence of packets.
LEMMA DatasType == ASSUME SinkType 
  PROVE  Datas \in Seq(Seq(Nat)) /\ Len(Datas) = Len(parts) /\ Sent \in Seq(Nat)
<1>1. Datas \in Seq(Seq(Nat)) /\ Len(Datas) = Len(parts)
  BY DatasOf DEF SinkType, Datas
<1>2. QED
  BY <1>1, FlattenType DEF Sent

\* A part is stored under a number that no part of the list has.
LEMMA PutPartHolds ==
  ASSUME SinkType, PartsHeld, NEW data \in Seq(Nat), partNum' = partNum + 1,
         PutPart(partNum', data)
  PROVE  /\ DOMAIN blobs' \subseteq 1..partNum'
         /\ \A n \in DOMAIN blobs' : blobs'[n] \in Seq(Nat)
         /\ partNum' \in DOMAIN blobs' /\ blobs'[partNum'] = data
         /\ \A i \in DOMAIN parts :
              parts[i].num \in DOMAIN blobs' /\ blobs'[parts[i].num] = parts[i].data
         /\ \A i \in DOMAIN parts : parts[i].num < partNum'
<1> USE DEF SinkType, PartsHeld
<1>1. /\ DOMAIN blobs' = DOMAIN blobs \cup {partNum'}
      /\ \A n \in DOMAIN blobs' : blobs'[n] = IF n = partNum' THEN data ELSE blobs[n]
  BY DEF PutPart
<1>2. \A n \in DOMAIN blobs : n \in Nat /\ n < partNum'
  OBVIOUS
<1>3. \A i \in DOMAIN parts : parts[i].num \in DOMAIN blobs
  OBVIOUS
<1>4. DOMAIN blobs' \subseteq 1..partNum'
  BY <1>1
<1>5. QED
  BY <1>1, <1>2, <1>3, <1>4

\* A failed upload keeps the buffer, and S3 what the list of parts says.
LEMMA UploadFailsHolds ==
  ASSUME SinkType, PartsHeld, NEW data \in Seq(Nat), UploadFails(data)
  PROVE  SinkType' /\ PartsHeld' /\ partBuf' = data /\ Sent' = Sent
<1>1. parts' = parts /\ partNum' = partNum + 1 /\ partBuf' = data
  BY DEF UploadFails
<1>2. CASE UNCHANGED blobs
  BY <1>1, <1>2 DEF SinkType, PartsHeld, Sent, Datas
<1>3. CASE PutPart(partNum', data)
  BY <1>1, <1>3, PutPartHolds DEF SinkType, PartsHeld, Sent, Datas
<1>4. QED
  BY <1>2, <1>3 DEF UploadFails

\* A part that is there adds its data to what was sent.
LEMMA UploadSucceedsHolds ==
  ASSUME SinkType, PartsHeld, NEW data \in Seq(Nat), UploadSucceeds(data)
  PROVE  SinkType' /\ PartsHeld' /\ partBuf' = <<>> /\ Sent' = Sent \o data
<1> DEFINE part == [num |-> partNum', data |-> data]
<1>1. parts' = Append(parts, part) /\ partNum' = partNum + 1 /\ partBuf' = <<>>
      /\ PutPart(partNum', data)
  BY DEF UploadSucceeds
<1>2. part \in [num : Nat, data : Seq(Nat)] /\ parts \in Seq([num : Nat, data : Seq(Nat)])
  BY <1>1 DEF SinkType
<1>3. parts' \in Seq([num : Nat, data : Seq(Nat)])
  BY <1>1, <1>2
<1>4. SinkType'
  BY <1>1, <1>3, PutPartHolds DEF SinkType
<1>5. /\ DOMAIN parts' = DOMAIN parts \cup {Len(parts) + 1} /\ DOMAIN parts = 1..Len(parts)
      /\ Len(parts) \in Nat
      /\ \A i \in DOMAIN parts : parts'[i] = parts[i]
      /\ parts'[Len(parts) + 1] = part
  BY <1>1, <1>2
<1>6. PartsHeld'
  <2>1. ASSUME NEW i \in DOMAIN parts'
        PROVE  parts'[i].num \in DOMAIN blobs' /\ blobs'[parts'[i].num] = parts'[i].data
    BY <1>1, <1>5, <2>1, PutPartHolds
  <2>2. ASSUME NEW i \in DOMAIN parts', NEW j \in DOMAIN parts', i < j
        PROVE  parts'[i].num < parts'[j].num
    <3>1. i \in DOMAIN parts
      BY <1>5, <2>2
    <3>2. CASE j \in DOMAIN parts
      BY <1>5, <2>2, <3>1, <3>2 DEF PartsHeld
    <3>3. CASE j = Len(parts) + 1
      BY <1>1, <1>5, <3>1, <3>3, PutPartHolds
    <3>4. QED
      BY <1>5, <3>2, <3>3
  <2>3. QED
    BY <2>1, <2>2 DEF PartsHeld
<1>7. Datas' = Append(Datas, data)
  <2>1. Datas \in Seq(Seq(Nat)) /\ Len(Datas) = Len(parts)
    BY DatasType
  <2>2. Datas' \in Seq(Seq(Nat)) /\ Len(Datas') = Len(parts) + 1
    <3>1. Len(parts') = Len(parts) + 1
      BY <1>1, <1>2
    <3>2. QED
      BY <1>3, <3>1, DatasOf DEF Datas
  <2>3. ASSUME NEW i \in 1..(Len(parts) + 1) PROVE Datas'[i] = Append(Datas, data)[i]
    BY <1>5, <2>1 DEF Datas
  <2>4. QED
    <3>1. Append(Datas, data) \in Seq(Seq(Nat)) /\ Len(Append(Datas, data)) = Len(parts) + 1
      BY <2>1
    <3>2. QED
      BY <2>2, <2>3, <3>1, SeqEqual, Zenon
<1>8. Sent' = Sent \o data
  BY <1>7, DatasType, FlattenAppend DEF Sent
<1>9. QED
  BY <1>1, <1>4, <1>6, <1>8

-----------------------------------------------------------------------------
(* The stream. *)

\* The stream is a sequence of packets.
LEMMA StreamType ==
  ASSUME NEW n \in Nat
  PROVE  Stream(n) \in Seq(Nat) /\ Len(Stream(n)) = n + 1 /\ \A i \in 1..(n+1) : Stream(n)[i] = i - 1
<1>1. Stream(n) \in [1..(n+1) -> Nat] /\ \A i \in 1..(n+1) : Stream(n)[i] = i - 1
  BY DEF Stream
<1>2. QED
  BY <1>1, SeqOfFcn

\* At first it is the header.
LEMMA StreamFirst == Stream(0) = <<0>>
<1>1. <<0>> \in Seq(Nat) /\ Len(<<0>>) = 1 /\ <<0>>[1] = 0
  OBVIOUS
<1>2. Stream(0) \in Seq(Nat) /\ Len(Stream(0)) = 1 /\ Stream(0)[1] = 0
  <2>1. /\ Stream(0) \in Seq(Nat) /\ Len(Stream(0)) = 0 + 1
        /\ \A i \in 1..(0+1) : Stream(0)[i] = i - 1
    BY StreamType, Zenon
  <2>2. QED
    BY <2>1
<1>3. \A i \in 1..Len(Stream(0)) : Stream(0)[i] = <<0>>[i]
  BY <1>1, <1>2
<1>4. QED
  BY <1>1, <1>2, <1>3, SeqEqual

\* A packet that is received continues it.
LEMMA StreamNext ==
  ASSUME NEW n \in Nat
  PROVE  Append(Stream(n), n + 1) = Stream(n + 1)
<1> DEFINE a == Append(Stream(n), n + 1)
<1>1. a \in Seq(Nat) /\ Len(a) = n + 2 /\ \A i \in 1..(n+2) : a[i] = i - 1
  <2>1. /\ Stream(n) \in Seq(Nat) /\ Len(Stream(n)) = n + 1
        /\ \A i \in 1..(n+1) : Stream(n)[i] = i - 1
    BY StreamType
  <2>2. a \in Seq(Nat) /\ Len(a) = n + 2
    BY <2>1
  <2>3. ASSUME NEW i \in 1..(n+2) PROVE a[i] = i - 1
    <3>1. CASE i = n + 2
      BY <2>1, <3>1
    <3>2. CASE i \in 1..(n+1)
      BY <2>1, <3>2
    <3>3. i = n + 2 \/ i \in 1..(n+1)
      OBVIOUS
    <3>4. QED
      BY <3>1, <3>2, <3>3, Zenon
  <2>4. QED
    BY <2>2, <2>3
<1>2. Stream(n+1) \in Seq(Nat) /\ Len(Stream(n+1)) = n + 2
      /\ \A i \in 1..(n+2) : Stream(n+1)[i] = i - 1
  BY StreamType
<1>3. \A i \in 1..Len(a) : a[i] = Stream(n+1)[i]
  BY <1>1, <1>2
<1> HIDE DEF a
<1>4. a = Stream(n + 1)
  BY <1>1, <1>2, <1>3, SeqEqual
<1>5. QED
  BY <1>4 DEF a

-----------------------------------------------------------------------------
(* FinalizeS3. *)

WholeStream == s3sink => Sent \o partBuf = Stream(Len(log))

Settings ==
  /\ S3Mode \in BOOLEAN /\ faults \subseteq Faults
  /\ s3sink \in BOOLEAN /\ done \in BOOLEAN
  /\ upload \in {"open", "completed", "aborted"}
  /\ object \in Seq(Nat)
  /\ log \in Seq(Pods)

\* What an upload that is over, and a teardown that looked at it, have in common.
Quiet == S3Mode /\ faults \subseteq {"upload"}

SettledInv ==
  /\ s3sink => S3Mode
  /\ Quiet /\ ~s3sink => upload # "open"
  /\ Quiet => \A w \in Workers : td[w] # "idle" => upload # "open"

\* The object of an upload that completes is what was sent.
LEMMA AssembledIsSent ==
  ASSUME PartsHeld' PROVE Assembled = Sent'
<1>1. [i \in DOMAIN parts' |-> blobs'[parts'[i].num]] = Datas'
  BY DEF PartsHeld, Datas
<1>2. QED
  BY <1>1 DEF Assembled, Sent

\* Flushing the buffer, or nothing, before the upload completes.
LEMMA FlushHolds ==
  ASSUME SinkType, PartsHeld, WholeStream, s3sink, log \in Seq(Pods), log' = log,
         IF partBuf = <<>> THEN UNCHANGED <<sink, blobs>> ELSE UploadSucceeds(partBuf)
  PROVE  SinkType' /\ PartsHeld' /\ Sent' = Stream(Len(log)) /\ partBuf' = <<>>
<1>1. Sent \in Seq(Nat) /\ Sent \o partBuf = Stream(Len(log)) /\ partBuf \in Seq(Nat)
  BY DatasType DEF WholeStream, SinkType
<1>2. CASE partBuf = <<>>
  <2>1. SinkType' /\ PartsHeld' /\ Sent' = Sent /\ partBuf' = <<>>
    BY <1>2 DEF sink, SinkType, PartsHeld, Sent, Datas
  <2>2. Sent = Stream(Len(log))
    BY <1>1, <1>2, ConcatEmptySeq
  <2>3. QED
    BY <2>1, <2>2
<1>3. CASE partBuf # <<>>
  BY <1>1, <1>3, UploadSucceedsHolds
<1>4. QED
  BY <1>2, <1>3

\* What FinalizeS3 leaves, whoever calls it.
LEMMA FinalizeHolds ==
  ASSUME SinkType, PartsHeld, WholeStream, Settings, SettledInv, FinalizeS3,
         UNCHANGED <<S3Mode, faults, log>>
  PROVE  /\ SinkType' /\ PartsHeld' /\ WholeStream' /\ Settings'
         /\ s3sink' => s3sink
         /\ Quiet => upload' # "open"
         /\ upload # "open" => upload' # "open"
         /\ done' /\ ~done => upload' = "completed" /\ object' = Stream(Len(log))
<1> USE DEF Settings, SettledInv, Quiet
<1>1. CASE ~s3sink /\ UNCHANGED <<s3sink, done, sink, s3>>
  BY <1>1 DEF sink, s3, SinkType, PartsHeld, WholeStream
<1>2. CASE /\ s3sink /\ partBuf # <<>> /\ UploadFails(partBuf)
           /\ AbortMultipartUpload
           /\ UNCHANGED <<s3sink, done>>
  <2>1. SinkType' /\ PartsHeld' /\ partBuf' = partBuf /\ Sent' = Sent
    BY <1>2, UploadFailsHolds DEF SinkType
  <2>2. /\ upload' \in {"open", "completed", "aborted"} /\ object' = object
        /\ Quiet => upload' # "open"
        /\ upload # "open" => upload' # "open"
    BY <1>2 DEF AbortMultipartUpload
  <2>3. QED
    BY <1>2, <2>1, <2>2 DEF WholeStream
<1>3. CASE /\ s3sink
           /\ IF partBuf = <<>> THEN UNCHANGED <<sink, blobs>> ELSE UploadSucceeds(partBuf)
           /\ \/ CompleteSucceeds /\ s3sink' = FALSE /\ done' = TRUE
              \/ CompleteFails /\ UNCHANGED <<s3sink, done>>
  <2>1. SinkType' /\ PartsHeld' /\ Sent' = Stream(Len(log)) /\ partBuf' = <<>>
    BY <1>3, FlushHolds
  <2>2. Assembled = Stream(Len(log)) /\ Stream(Len(log)) \in Seq(Nat)
    BY <2>1, AssembledIsSent, StreamType
  <2>3. WholeStream'
    BY <2>1, <2>2, ConcatEmptySeq DEF WholeStream
  <2>4. CASE CompleteSucceeds /\ s3sink' = FALSE /\ done' = TRUE
    BY <1>3, <2>1, <2>2, <2>3, <2>4 DEF CompleteSucceeds
  <2>5. CASE CompleteFails /\ UNCHANGED <<s3sink, done>>
    BY <1>3, <2>1, <2>2, <2>3, <2>5 DEF CompleteFails, CompleteSucceeds
  <2>6. QED
    BY <1>3, <2>4, <2>5
<1>4. QED
  BY <1>1, <1>2, <1>3 DEF FinalizeS3

-----------------------------------------------------------------------------
(* Receive, into the sink. *)

\* A packet that is received goes to the sink, whatever the upload does.
LEMMA AppendS3Holds ==
  ASSUME SinkType, PartsHeld, WholeStream, Settings, NEW p \in Pods,
         AppendS3(p), log' = Append(log, p), s3sink' = s3sink
  PROVE  SinkType' /\ PartsHeld' /\ WholeStream'
<1> DEFINE data == Append(partBuf, NextPacket)
<1>1. Len(log) \in Nat /\ NextPacket = Len(log) + 1 /\ Len(log') = Len(log) + 1
  BY DEF Settings, NextPacket
<1>2. data \in Seq(Nat) /\ partBuf \in Seq(Nat) /\ Sent \in Seq(Nat)
  BY <1>1, DatasType DEF SinkType
<1>3. Sent \o partBuf = Stream(Len(log))
  BY DEF AppendS3, WholeStream
<1>4. Sent \o data = Stream(Len(log'))
  <2>1. Sent \o data = Append(Sent \o partBuf, NextPacket)
    <3>1. NextPacket \in Nat
      BY <1>1
    <3>2. data = partBuf \o <<NextPacket>> /\ <<NextPacket>> \in Seq(Nat)
      BY <1>2, <3>1, AppendIsConcat
    <3>3. Sent \o data = (Sent \o partBuf) \o <<NextPacket>>
      BY <1>2, <3>2, ConcatAssociative, SMTT(30)
    <3>4. Sent \o partBuf \in Seq(Nat)
      BY <1>2
    <3>5. QED
      BY <3>1, <3>3, <3>4, AppendIsConcat
  <2>2. QED
    BY <1>1, <1>3, <2>1, StreamNext
<1> HIDE DEF data
<1>5. CASE /\ partBuf' = data
           /\ UNCHANGED <<parts, partNum, blobs>>
  BY <1>2, <1>4, <1>5 DEF SinkType, PartsHeld, WholeStream, Sent, Datas
<1>6. CASE UploadSucceeds(data)
  <2>1. SinkType' /\ PartsHeld' /\ partBuf' = <<>> /\ Sent' = Sent \o data
    BY <1>2, <1>6, UploadSucceedsHolds
  <2>2. Sent' \in Seq(Nat)
    BY <1>2, <2>1
  <2>3. Sent' \o partBuf' = Stream(Len(log'))
    BY <1>4, <2>1, <2>2, ConcatEmptySeq
  <2>4. QED
    BY <2>1, <2>3 DEF WholeStream
<1>7. CASE UploadFails(data)
  <2>1. SinkType' /\ PartsHeld' /\ partBuf' = data /\ Sent' = Sent
    BY <1>2, <1>7, UploadFailsHolds
  <2>2. QED
    BY <1>4, <2>1 DEF WholeStream
<1>8. QED
  BY <1>5, <1>6, <1>7 DEF AppendS3, WriteFrameOK, WriteFrameFails, data

-----------------------------------------------------------------------------
(* Receive, into the pod's buffer. *)

\* What KeepsNewest says of one pod's buffer fs, of the packets that came.
Newest(fs, all) ==
  /\ \A i, j \in DOMAIN fs : i < j => fs[i] < fs[j]
  /\ ToSet(fs) \subseteq all
  /\ Len(fs) <= maxFramesPerPod
  /\ \A old \in all \ ToSet(fs) :
       /\ \A new \in ToSet(fs) : old < new
       /\ Len(fs) = maxFramesPerPod

\* The greater of two numbers.
LEMMA MaxOfTwo ==
  ASSUME NEW x \in Int, NEW y \in Int
  PROVE  Max({x, y}) = IF x >= y THEN x ELSE y
BY DEF Max

\* A full buffer loses its oldest frame to the new one.
LEMMA TrimHolds ==
  ASSUME NEW fs \in Seq(Nat), NEW n \in Nat, NEW all \in SUBSET (1..n), Newest(fs, all)
  PROVE  /\ trimPodBuffer(Append(fs, n + 1)) \in Seq(Nat)
         /\ Newest(trimPodBuffer(Append(fs, n + 1)), all \cup {n + 1})
<1> DEFINE m == maxFramesPerPod
           L == Len(fs)
           long == Append(fs, n + 1)
           new == trimPodBuffer(long)
<1>1. m \in Nat /\ m >= 1 /\ L \in Nat /\ L <= m
  BY PcapAssumption DEF Newest
<1>2. /\ long \in Seq(Nat) /\ Len(long) = L + 1 /\ long[L + 1] = n + 1
      /\ \A i \in 1..L : long[i] = fs[i]
  OBVIOUS
<1>3. \A i \in 1..L : fs[i] \in all /\ fs[i] <= n
  BY DEF Newest, ToSet
<1>4. ASSUME NEW i \in 1..(L+1), NEW j \in 1..(L+1), i < j PROVE long[i] < long[j]
  <2>1. i \in 1..L /\ long[i] = fs[i]
    BY <1>1, <1>2, <1>4
  <2>2. CASE j = L + 1
    <3>1. fs[i] <= n /\ fs[i] \in Nat
      BY <1>3, <2>1
    <3>2. QED
      BY <1>2, <2>1, <2>2, <3>1
  <2>3. CASE j # L + 1
    <3>1. j \in 1..L /\ long[j] = fs[j]
      BY <1>1, <1>2, <2>3
    <3>2. fs[i] < fs[j]
      BY <1>4, <2>1, <3>1 DEF Newest
    <3>3. QED
      BY <2>1, <3>1, <3>2
  <2>4. QED
    BY <2>2, <2>3
<1>5. CASE L < m
  <2>1. new = long
    <3>1. Max({1, (L+1) - m + 1}) = 1
      BY <1>1, <1>5, MaxOfTwo
    <3>2. new = SubSeq(long, 1, L + 1)
      BY <1>2, <3>1 DEF trimPodBuffer
    <3>3. QED
      BY <1>2, <3>2, SubSeqFull
  <2>2. Newest(long, all \cup {n + 1})
    <3>1. DOMAIN long = 1..(L+1) /\ DOMAIN fs = 1..L
      BY <1>1, <1>2
    <3>2. ToSet(long) = ToSet(fs) \cup {n + 1}
      BY <1>1, <1>2, <3>1 DEF ToSet
    <3>3. all \ ToSet(fs) = {}
      <4>1. \A old \in all \ ToSet(fs) : L = m
        BY DEF Newest
      <4>2. L # m
        BY <1>1, <1>5
      <4> HIDE DEF L, m
      <4>3. QED
        BY <4>1, <4>2, Zenon
    <3>4. Len(long) <= m /\ ToSet(long) \subseteq all \cup {n + 1}
      BY <1>1, <1>2, <1>5, <3>2 DEF Newest
    <3>5. (all \cup {n + 1}) \ ToSet(long) = {}
      BY <3>2, <3>3
    <3>6. \A i, j \in DOMAIN long : i < j => long[i] < long[j]
      BY <1>4, <3>1
    <3> HIDE DEF long
    <3>7. QED
      BY <3>4, <3>5, <3>6 DEF Newest
  <2>3. QED
    BY <1>2, <2>1, <2>2
<1>6. CASE L = m
  <2>1. /\ new \in Seq(Nat) /\ Len(new) = m
        /\ \A i \in 1..m : new[i] = long[i + 1]
    <3>1. Max({1, (L+1) - m + 1}) = 2
      BY <1>1, <1>6, MaxOfTwo
    <3>2. new = SubSeq(long, 2, L + 1)
      BY <1>2, <3>1 DEF trimPodBuffer
    <3>3. QED
      <4> HIDE DEF long
      <4>1. \A i \in 2..(L+1) : long[i] \in Nat
        BY <1>1, <1>2
      <4>2. /\ new \in Seq(Nat)
            /\ Len(new) = (L+1) - 2 + 1
            /\ \A i \in 1..((L+1) - 2 + 1) : new[i] = long[2 + i - 1]
        <5> HIDE DEF new
        <5>1. QED
          BY <1>1, <1>6, <3>2, <4>1, 2 <= (L+1) + 1, SubSeqProperties
      <4>3. (L+1) - 2 + 1 = m /\ \A i \in 1..m : 2 + i - 1 = i + 1
        BY <1>1, <1>6
      <4> HIDE DEF new
      <4>4. QED
        BY <4>2, <4>3
  <2>2. DOMAIN new = 1..m
    BY <2>1
  <2> HIDE DEF new
  <2>3. \A i, j \in DOMAIN new : i < j => new[i] < new[j]
    <3>1. ASSUME NEW i \in 1..m, NEW j \in 1..m, i < j PROVE new[i] < new[j]
      <4>1. i + 1 \in 1..(L+1) /\ j + 1 \in 1..(L+1) /\ i + 1 < j + 1
        BY <1>1, <1>6, <3>1
      <4> HIDE DEF long
      <4>2. long[i + 1] < long[j + 1]
        BY <1>4, <4>1
      <4>3. QED
        BY <2>1, <4>2
    <3>2. QED
      BY <2>2, <3>1
  <2>4. ToSet(new) = (ToSet(fs) \ {fs[1]}) \cup {n + 1}
    <3>1. ToSet(new) = {long[i + 1] : i \in 1..m}
      BY <2>1, <2>2 DEF ToSet
    <3>2. ToSet(fs) = {fs[i] : i \in 1..m}
      BY <1>6 DEF ToSet
    <3>3. \A i \in 1..m : i # 1 => fs[i] # fs[1]
      BY <1>1, <1>2, <1>3, <1>4, <1>6
    <3>4. ASSUME NEW x \in ToSet(new) PROVE x \in (ToSet(fs) \ {fs[1]}) \cup {n + 1}
      BY <1>1, <1>2, <1>6, <3>1, <3>2, <3>3
    <3>5. ASSUME NEW x \in ToSet(fs), x # fs[1] PROVE x \in ToSet(new)
      <4>1. PICK i \in 1..m : x = fs[i]
        BY <3>2
      <4>2. i # 1 /\ i - 1 \in 1..m /\ long[(i - 1) + 1] = x
        BY <1>2, <1>6, <3>5, <4>1
      <4>3. QED
        BY <3>1, <4>2
    <3>6. n + 1 \in ToSet(new)
      BY <1>1, <1>2, <1>6, <3>1
    <3>7. QED
      BY <3>4, <3>5, <3>6
  <2>5. ToSet(new) \subseteq all \cup {n + 1}
    BY <2>4 DEF Newest
  <2>6. ASSUME NEW old \in (all \cup {n + 1}) \ ToSet(new), NEW x \in ToSet(new)
        PROVE  old < x
    <3>1. old \in all /\ old \in 1..n
      BY <2>4
    <3>2. CASE x = n + 1
      BY <3>1, <3>2
    <3>3. CASE x \in ToSet(fs) /\ x # fs[1] /\ old \notin ToSet(fs)
      BY <3>1, <3>3 DEF Newest
    <3>4. CASE x \in ToSet(fs) /\ x # fs[1] /\ old = fs[1]
      <4>1. PICK i \in 1..m : x = fs[i]
        BY <1>6, <3>4 DEF ToSet
      <4>2. QED
        BY <1>1, <1>2, <1>4, <1>6, <3>4, <4>1
    <3>5. QED
      BY <2>4, <2>6, <3>1, <3>2, <3>3, <3>4
  <2>7. Newest(new, all \cup {n + 1})
    BY <1>1, <2>1, <2>3, <2>5, <2>6 DEF Newest
  <2>8. QED
    BY <2>1, <2>7 DEF new
<1>7. QED
  BY <1>1, <1>5, <1>6

-----------------------------------------------------------------------------
(* Every step keeps the invariant. *)

\* What is left of the types.
RestType ==
  /\ pc \in {"dial", "receive", "check", "wait", "finalize", "done"}
  /\ td \in [Workers -> {"idle", "delete", "done"}]
  /\ frames \in [Pods -> Seq(Nat)]
  /\ bytes \in [Pods -> Nat]
  /\ s3err \in BOOLEAN

Inv ==
  SinkType /\ PartsHeld /\ WholeStream /\ Settings /\ SettledInv /\ RestType /\ KeepsNewest

\* What is left of a buffer is packets.
LEMMA TrimType ==
  ASSUME NEW fs \in Seq(Nat), NEW n \in Nat
  PROVE  trimPodBuffer(Append(fs, n + 1)) \in Seq(Nat)
<1> DEFINE long == Append(fs, n + 1)
           from == Max({1, Len(long) - maxFramesPerPod + 1})
<1>1. long \in Seq(Nat) /\ Len(long) \in Nat /\ maxFramesPerPod \in Nat
  BY PcapAssumption
<1>2. from \in Int /\ from >= 1
  BY <1>1, MaxOfTwo
<1> HIDE DEF long, from
<1>3. SubSeq(long, from, Len(long)) \in Seq(Nat)
  <2>1. \A i \in from..Len(long) : long[i] \in Nat
    BY <1>1, <1>2
  <2>2. QED
    BY <1>1, <1>2, <2>1, SubSeqProperties
<1>4. QED
  BY <1>3 DEF trimPodBuffer, long, from

\* The invariant holds of a new session.
LEMMA InvInit == Init => Inv
<1> SUFFICES ASSUME Init PROVE Inv
  OBVIOUS
<1> USE DEF Init
<1>1. SinkType /\ PartsHeld
  BY DEF SinkType, PartsHeld
<1>2. WholeStream
  <2>1. Datas = <<>>
    BY DEF Datas
  <2>2. Sent = <<>>
    BY <2>1 DEF Sent, FlattenSeq
  <2>3. <<>> \o <<0>> = <<0>> /\ Len(log) = 0
    OBVIOUS
  <2>4. QED
    BY <2>2, <2>3, StreamFirst DEF WholeStream
<1>3. Settings /\ SettledInv /\ RestType
  <2>1. faults \subseteq Faults /\ <<>> \in Seq(Nat) /\ <<>> \in Seq(Pods)
    OBVIOUS
  <2>2. Settings
    BY <2>1 DEF Settings
  <2>3. SettledInv
    <3>1. s3sink = S3Mode /\ \A w \in Workers : td[w] = "idle"
      OBVIOUS
    <3>2. QED
      BY <3>1 DEF SettledInv, Quiet
  <2>4. RestType
    BY <2>1 DEF RestType
  <2>5. QED
    BY <2>2, <2>3, <2>4
<1>4. KeepsNewest
  <2>1. \A p \in Pods : frames[p] = <<>> /\ DOMAIN frames[p] = {} /\ Len(frames[p]) = 0
    OBVIOUS
  <2>2. \A p \in Pods : ToSet(frames[p]) = {} /\ PacketsOf(p) = {}
    BY <2>1 DEF ToSet, PacketsOf
  <2>3. QED
    BY <2>1, <2>2, PcapAssumption DEF KeepsNewest
<1>5. QED
  BY <1>1, <1>2, <1>3, <1>4 DEF Inv

\* A chunk from the engine keeps it.
LEMMA ReceiveHolds == ASSUME Inv, NEW p \in Pods, Receive(p) PROVE Inv'
<1> USE DEF Inv
<1>1. /\ log' = Append(log, p) /\ log \in Seq(Pods) /\ log' \in Seq(Pods)
      /\ pc' = "check"
      /\ UNCHANGED <<S3Mode, faults, td, s3sink, done>>
  BY DEF Receive, Goto, setting, Settings
<1>2. CASE AppendS3(p)
  <2>1. SinkType' /\ PartsHeld' /\ WholeStream'
    BY <1>1, <1>2, AppendS3Holds
  <2>2. UNCHANGED <<frames, upload, object>> /\ s3sink
    BY <1>2 DEF AppendS3
  <2>3. Settings' /\ SettledInv'
    BY <1>1, <2>2 DEF Settings, SettledInv, Quiet
  <2>4. RestType'
    <3>1. /\ bytes' = [bytes EXCEPT ![p] = @ + 1] \/ bytes' = bytes
          /\ s3err' = s3err \/ s3err' = TRUE
      BY <1>2 DEF AppendS3
    <3>2. bytes' \in [Pods -> Nat]
      BY <3>1 DEF RestType
    <3>3. QED
      BY <1>1, <2>2, <3>1, <3>2 DEF RestType
  <2>5. KeepsNewest'
    BY <1>1, <2>2 DEF SettledInv, KeepsNewest
  <2>6. QED
    BY <2>1, <2>3, <2>4, <2>5
<1>3. CASE AppendRAM(p)
  <2> DEFINE n == Len(log)
  <2>1. /\ ~s3sink /\ UNCHANGED <<s3err, sink, s3>>
        /\ frames' = [frames EXCEPT ![p] = trimPodBuffer(Append(frames[p], n + 1))]
        /\ bytes' = [bytes EXCEPT ![p] = @ + 1]
    BY <1>3 DEF AppendRAM, NextPacket
  <2>2. SinkType' /\ PartsHeld' /\ WholeStream'
    BY <1>1, <2>1 DEF SinkType, PartsHeld, WholeStream, sink, s3
  <2>3. Settings' /\ SettledInv'
    BY <1>1, <2>1 DEF Settings, SettledInv, Quiet, s3
  <2>4. n \in Nat /\ PacketsOf(p) \in SUBSET (1..n)
    BY <1>1 DEF PacketsOf
  <2>5. frames[p] \in Seq(Nat)
    BY DEF RestType
  <2>6. /\ DOMAIN log' = 1..(n+1) /\ DOMAIN log = 1..n
        /\ log'[n+1] = p /\ \A i \in 1..n : log'[i] = log[i]
    BY <1>1
  <2>7. /\ PacketsOf(p)' = PacketsOf(p) \cup {n + 1}
        /\ \A q \in Pods : q # p => PacketsOf(q)' = PacketsOf(q)
    BY <2>4, <2>6 DEF PacketsOf
  <2>8. CASE S3Mode
    <3>1. trimPodBuffer(Append(frames[p], n + 1)) \in Seq(Nat)
      BY <2>4, <2>5, TrimType
    <3>2. RestType'
      BY <1>1, <2>1, <3>1 DEF RestType
    <3>3. KeepsNewest'
      BY <1>1, <2>8 DEF KeepsNewest
    <3>4. QED
      BY <2>2, <2>3, <3>2, <3>3
  <2>9. CASE ~S3Mode
    <3>1. \A q \in Pods : Newest(frames[q], PacketsOf(q))
      BY <2>9 DEF KeepsNewest, Newest
    <3>2. /\ trimPodBuffer(Append(frames[p], n + 1)) \in Seq(Nat)
          /\ Newest(trimPodBuffer(Append(frames[p], n + 1)), PacketsOf(p) \cup {n + 1})
      BY <2>4, <2>5, <3>1, TrimHolds
    <3>3. RestType'
      BY <1>1, <2>1, <3>2 DEF RestType
    <3>4. ASSUME NEW q \in Pods PROVE Newest(frames'[q], PacketsOf(q)')
      BY <2>1, <2>7, <3>1, <3>2 DEF RestType
    <3>5. KeepsNewest'
      BY <3>4 DEF KeepsNewest, Newest
    <3>6. QED
      BY <2>2, <2>3, <3>3, <3>5
  <2>10. QED
    BY <2>8, <2>9
<1>4. QED
  BY <1>2, <1>3 DEF Receive

\* Steps that leave the session and S3 alone.
LEMMA OtherStepsHold ==
  ASSUME Inv, UNCHANGED <<setting, log, buffers, s3sink, s3err, done, sink, s3>>,
         RestType', SettledInv'
  PROVE  Inv'
<1>1. SinkType' /\ PartsHeld'
  BY DEF Inv, sink, s3, SinkType, PartsHeld
<1>2. WholeStream'
  BY DEF Inv, sink, WholeStream, Sent, Datas
<1>3. Settings'
  BY DEF Inv, setting, s3, Settings
<1>4. KeepsNewest'
  BY DEF Inv, setting, buffers, KeepsNewest, PacketsOf
<1>5. QED
  BY <1>1, <1>2, <1>3, <1>4 DEF Inv

\* A call of FinalizeS3 keeps it, when its caller has done its part.
LEMMA FinalizeStepHolds ==
  ASSUME Inv, FinalizeS3, UNCHANGED <<setting, log, buffers, s3err>>, RestType',
         \A w \in Workers : Quiet /\ td'[w] # "idle" => td[w] # "idle" \/ upload' # "open"
  PROVE  Inv'
<1>1. /\ SinkType' /\ PartsHeld' /\ WholeStream' /\ Settings'
      /\ s3sink' => s3sink
      /\ Quiet => upload' # "open"
      /\ upload # "open" => upload' # "open"
  BY FinalizeHolds DEF Inv, setting
<1>2. SettledInv'
  BY <1>1 DEF Inv, SettledInv, Quiet, setting
<1>3. KeepsNewest'
  BY DEF Inv, setting, buffers, KeepsNewest, PacketsOf
<1>4. QED
  BY <1>1, <1>2, <1>3 DEF Inv

\* Every step keeps it.
LEMMA InvNext == Inv /\ [Next]_vars => Inv'
<1> SUFFICES ASSUME Inv, [Next]_vars PROVE Inv'
  OBVIOUS
<1>1. CASE Dial \/ DialFails \/ Check \/ RecvFails \/ ClientGone
  <2>1. /\ UNCHANGED <<setting, td, log, buffers, s3sink, s3err, done, sink, s3>>
        /\ pc' \in {"receive", "wait", "finalize", "done"}
    BY <1>1 DEF Dial, DialFails, Check, RecvFails, ClientGone, Goto
  <2>2. RestType' /\ SettledInv'
    BY <2>1 DEF Inv, RestType, SettledInv, Quiet, setting, buffers, s3
  <2>3. QED
    BY <2>1, <2>2, OtherStepsHold
<1>2. CASE Finalize
  <2>1. RestType'
    BY <1>2 DEF Finalize, Goto, Inv, RestType, buffers
  <2>2. QED
    BY <1>2, <2>1, FinalizeStepHolds DEF Finalize
<1>3. ASSUME NEW p \in Pods, Receive(p) PROVE Inv'
  BY <1>3, ReceiveHolds
<1>4. ASSUME NEW w \in Workers, TdFinalize(w) PROVE Inv'
  <2>1. RestType'
    BY <1>4 DEF TdFinalize, Inv, RestType, buffers
  <2>2. CASE \E v \in Workers : td[v] = "done"
    <3>1. UNCHANGED <<setting, log, buffers, s3sink, s3err, done, sink, s3>>
      BY <1>4, <2>2 DEF TdFinalize
    <3>2. SettledInv'
      BY <2>2, <3>1 DEF Inv, SettledInv, Quiet, setting, s3
    <3>3. QED
      BY <2>1, <3>1, <3>2, OtherStepsHold
  <2>3. CASE FinalizeS3
    <3>1. UNCHANGED <<setting, log, buffers, s3err>>
      BY <1>4 DEF TdFinalize
    <3>2. Quiet => upload' # "open"
      BY <2>3, <3>1, FinalizeHolds DEF Inv, setting
    <3>3. QED
      BY <2>1, <2>3, <3>1, <3>2, FinalizeStepHolds
  <2>4. QED
    BY <1>4, <2>2, <2>3 DEF TdFinalize
<1>5. ASSUME NEW w \in Workers, TdDelete(w) PROVE Inv'
  <2>1. /\ UNCHANGED <<setting, pc, log, buffers, s3sink, s3err, done, sink, s3>>
        /\ td[w] = "delete" /\ td' = [td EXCEPT ![w] = "done"]
    BY <1>5 DEF TdDelete
  <2>2. RestType' /\ SettledInv'
    BY <2>1 DEF Inv, RestType, SettledInv, Quiet, setting, buffers, s3
  <2>3. QED
    BY <2>1, <2>2, OtherStepsHold
<1>6. CASE UNCHANGED vars
  <2>1. RestType' /\ SettledInv'
    BY <1>6 DEF vars, Inv, RestType, SettledInv, Quiet, setting, buffers, s3
  <2>2. QED
    BY <1>6, <2>1, OtherStepsHold DEF vars
<1>7. QED
  BY <1>1, <1>2, <1>3, <1>4, <1>5, <1>6 DEF Next

\* The invariant, of every behaviour.
LEMMA InvHolds == Spec => []Inv
BY InvInit, InvNext, PTL DEF Spec

-----------------------------------------------------------------------------
(* The theorems. *)

\* Every variable keeps its type; what was sent and what is buffered is the
\* whole stream, and S3 holds every part under its number, whatever calls fail.
THEOREM SinkHoldsStream == Spec => []SinkInv
<1>1. Inv => SinkInv
  <2> SUFFICES ASSUME Inv PROVE SinkInv
    OBVIOUS
  <2>1. TypeOK
    BY DEF Inv, TypeOK, Settings, RestType, SinkType
  <2>2. PartsInv
    BY DEF Inv, PartsInv, PartsHeld, WholeStream, Sent, Datas
  <2>3. QED
    BY <2>1, <2>2 DEF SinkInv
<1>2. QED
  BY <1>1, InvHolds, PTL

\* The upload is reported done with an object that is the whole stream.
THEOREM DoneObjectIsWhole == Spec => DoneMeansWholeObject
<1>1. ASSUME Inv, [Next]_vars, done', ~done
      PROVE  upload' = "completed" /\ object' = Stream(Len(log))
  <2>1. FinalizeS3 /\ UNCHANGED <<setting, log>>
    BY <1>1 DEF Next, vars, Dial, DialFails, Check, RecvFails, ClientGone, Finalize, Receive,
                TdFinalize, TdDelete
  <2>2. QED
    BY <1>1, <2>1, FinalizeHolds DEF Inv, setting
<1>2. QED
  BY <1>1, InvHolds, PTL DEF Spec, DoneMeansWholeObject

\* After a teardown the upload is completed or aborted.
THEOREM TeardownsSettle == Spec => []TeardownSettlesUpload
<1>1. Inv => TeardownSettlesUpload
  BY DEF Inv, SettledInv, Quiet, TeardownSettlesUpload
<1>2. QED
  BY <1>1, InvHolds, PTL

\* A buffer in memory has the newest packets of its pod.
THEOREM BuffersKeepNewest == Spec => []KeepsNewest
<1>1. Inv => KeepsNewest
  BY DEF Inv
<1>2. QED
  BY <1>1, InvHolds, PTL
=============================================================================
