------------------------------ MODULE ViewProofs ------------------------------
(***************************************************************************)
(* What the observability reply promises, for any packets and any limits.  *)
(* The two loops over the events, trackTCPFlows and BuildFlowTopology, are  *)
(* folds: their turns are one induction each.  Tracks says what the map of  *)
(* flows knows after k events, Accounts what the topology holds after k,    *)
(* Closed what is left after the selection and the limits; ViewInv carries  *)
(* them through the handler.  Carries adds the bytes and the steps of each  *)
(* edge, Lane what becomes of the steps when two directions are merged;     *)
(* FlowInv carries these, and what the buffers and the snapshots hold, each *)
(* packet once.  Sums over sets are the community modules' folds, which     *)
(* pick the elements in an order of their own: SumAdds and SumOfFibres say  *)
(* that it does not matter.                                                 *)
(***************************************************************************)
EXTENDS Observability, WellFoundedInduction, FiniteSetTheorems, SequenceTheorems, TLAPS

\* A set of natural numbers has a least one.
LEMMA LeastNatural ==
  ASSUME NEW T \in SUBSET Nat, T # {}
  PROVE  \E m \in T : \A n \in T : m <= n
<1> DEFINE R == OpToRel(<, Nat)
<1>1. IsWellFoundedOn(R, Nat)
  BY NatLessThanWellFounded
<1>2. \A x, y \in Nat : <<y, x>> \in R <=> y < x
  BY DEF OpToRel
<1> HIDE DEF R
<1>3. PICK x \in T : \A y \in T : ~ (<<y, x>> \in R)
  BY <1>1, WFMin
<1>4. \A y \in T : ~ (y < x)
  BY <1>2, <1>3
<1>5. QED
  BY <1>4

\* Induction, with a set for the predicate: the provers cannot instantiate an
\* operator.
LEMMA InductionOverNat ==
  ASSUME NEW S, 0 \in S, \A n \in Nat : n \in S => n + 1 \in S
  PROVE  Nat \subseteq S
<1>1. SUFFICES ASSUME Nat \ S # {} PROVE FALSE
  OBVIOUS
<1>2. PICK m \in Nat \ S : \A n \in Nat \ S : m <= n
  BY <1>1, LeastNatural
<1>3. m - 1 \in Nat /\ m - 1 \notin Nat \ S
  BY <1>2
<1>4. QED
  BY <1>2, <1>3

\* The function that FlattenSeq computes with.
IsFlat(f, s, n) == f = [i \in 1..n |-> IF i = 1 THEN s[i] ELSE f[i-1] \o s[i]]

\* The equation of a recursive function, at one argument ...
LEMMA FlatValue ==
  ASSUME NEW f, NEW s, NEW n \in Nat, IsFlat(f, s, n), NEW i \in 1..n
  PROVE  f[i] = IF i = 1 THEN s[i] ELSE f[i-1] \o s[i]
<1> DEFINE e(k) == IF k = 1 THEN s[k] ELSE f[k-1] \o s[k]
<1>1. f = [k \in 1..n |-> e(k)]
  BY DEF IsFlat
<1>2. f[i] = e(i)
  <2> HIDE DEF e
  <2>1. QED
    BY <1>1
<1>3. QED
  BY <1>2

\* ... at the first ...
LEMMA FlatFirst ==
  ASSUME NEW f, NEW s, NEW n \in Nat, IsFlat(f, s, n), n # 0
  PROVE  f[1] = s[1]
<1>1. f[1] = IF 1 = 1 THEN s[1] ELSE f[1-1] \o s[1]
  BY 1 \in 1..n, FlatValue
<1>2. QED
  BY <1>1

\* ... and at the others.
LEMMA FlatNext ==
  ASSUME NEW f, NEW s, NEW n \in Nat, IsFlat(f, s, n),
         NEW k \in Nat, k # 0, k + 1 \in 1..n
  PROVE  f[k+1] = f[k] \o s[k+1]
<1>1. f[k+1] = IF k + 1 = 1 THEN s[k+1] ELSE f[(k+1)-1] \o s[k+1]
  BY FlatValue
<1>2. k + 1 # 1 /\ (k+1) - 1 = k
  OBVIOUS
<1>3. QED
  BY <1>1, <1>2

\* There is such a function for every length.
LEMMA FlatExists == ASSUME NEW s PROVE \A n \in Nat : \E f : IsFlat(f, s, n)
<1> DEFINE S == {n \in Nat : \E f : IsFlat(f, s, n)}
<1>1. 0 \in S
  <2>1. IsFlat([i \in 1..0 |-> 0], s, 0)
    BY DEF IsFlat
  <2>2. QED
    BY <2>1
<1>2. ASSUME NEW n \in Nat, n \in S PROVE n + 1 \in S
  <2>1. PICK f : IsFlat(f, s, n)
    BY <1>2
  <2> DEFINE ef(i) == IF i = 1 THEN s[i] ELSE f[i-1] \o s[i]
             g == [i \in 1..(n+1) |-> ef(i)]
             eg(i) == IF i = 1 THEN s[i] ELSE g[i-1] \o s[i]
  <2>2. f = [i \in 1..n |-> ef(i)]
    BY <2>1 DEF IsFlat
  <2>3. \A i \in 1..n : g[i] = f[i]
    <3> HIDE DEF ef
    <3> QED BY <2>2
  <2>4. \A i \in 1..(n+1) : ef(i) = eg(i)
    <3> HIDE DEF g
    <3>1. \A i \in 1..(n+1) : i # 1 => f[i-1] = g[i-1]
      BY <2>3
    <3>2. QED
      BY <3>1
  <2>5. g = [i \in 1..(n+1) |-> eg(i)]
    <3> HIDE DEF ef, eg
    <3> QED BY <2>4
  <2>6. IsFlat(g, s, n+1)
    <3> HIDE DEF g
    <3> QED BY <2>5 DEF IsFlat
  <2>7. QED
    BY <2>6
<1> HIDE DEF S
<1>3. Nat \subseteq S
  BY <1>1, <1>2, InductionOverNat
<1>4. QED
  BY <1>3 DEF S

\* FlattenSeq is the last value of such a function.
LEMMA FlattenIs ==
  ASSUME NEW s, Len(s) \in Nat, Len(s) # 0
  PROVE  \E f : IsFlat(f, s, Len(s)) /\ FlattenSeq(s) = f[Len(s)]
<1> DEFINE f == CHOOSE f : IsFlat(f, s, Len(s))
<1>1. IsFlat(f, s, Len(s))
  BY FlatExists
<1>2. FlattenSeq(s) = f[Len(s)]
  BY DEF FlattenSeq, IsFlat
<1>3. QED
  BY <1>1, <1>2

\* Flattening sequences over a set gives a sequence over it.
LEMMA FlattenType ==
  ASSUME NEW T, NEW s \in Seq(Seq(T))
  PROVE  FlattenSeq(s) \in Seq(T)
<1>1. CASE Len(s) = 0
  BY <1>1 DEF FlattenSeq
<1>2. CASE Len(s) # 0
  <2>1. PICK f : IsFlat(f, s, Len(s)) /\ FlattenSeq(s) = f[Len(s)]
    BY <1>2, FlattenIs
  <2> DEFINE S == {k \in Nat : k \in 1..Len(s) => f[k] \in Seq(T)}
  <2>2. 0 \in S
    OBVIOUS
  <2>3. ASSUME NEW k \in Nat, k \in S PROVE k + 1 \in S
    <3> SUFFICES ASSUME k + 1 \in 1..Len(s) PROVE f[k+1] \in Seq(T)
      OBVIOUS
    <3>1. s[k+1] \in Seq(T)
      OBVIOUS
    <3>2. CASE k = 0
      BY <2>1, <3>1, <3>2, FlatFirst
    <3>3. CASE k # 0
      <4>1. f[k+1] = f[k] \o s[k+1]
        BY <2>1, <3>3, Len(s) \in Nat, FlatNext, Zenon
      <4>2. f[k] \in Seq(T)
        BY <2>3, <3>3
      <4>3. QED
        BY <3>1, <4>1, <4>2, ConcatProperties
    <3>4. QED
      BY <3>2, <3>3
  <2> HIDE DEF S
  <2>4. Nat \subseteq S
    BY <2>2, <2>3, InductionOverNat
  <2>5. QED
    BY <1>2, <2>1, <2>4 DEF S
<1>3. QED
  BY <1>1, <1>2

\* A function on 1..n is a sequence of length n.
LEMMA SeqOfFcn ==
  ASSUME NEW S, NEW n \in Nat, NEW f \in [1..n -> S]
  PROVE  f \in Seq(S) /\ Len(f) = n
<1>1. f \in Seq(S)
  BY SeqDef
<1>2. DOMAIN f = 1..n /\ DOMAIN f = 1..Len(f) /\ Len(f) \in Nat
  BY <1>1
<1>3. QED
  BY <1>1, <1>2

-----------------------------------------------------------------------------
(* The two loops over events are FoldLeft of a turn: a recursive function on   *)
(* sets of indices.                                                            *)

Turn(loop, x, ev) == IF loop = "flows" THEN trackTCPFlows(x, ev) ELSE Aggregate(x, ev)

FoldStep(loop, f, evs, s) == Turn(loop, f[s \ {Max(s)}], evs[Max(s)])

IsFold(f, loop, base, evs, n) ==
  f = [s \in SUBSET (1..n) |-> IF s = {} THEN base ELSE FoldStep(loop, f, evs, s)]

\* The equation of the function, at one set.
LEMMA FoldValue ==
  ASSUME NEW f, NEW loop, NEW base, NEW evs, NEW n \in Nat, IsFold(f, loop, base, evs, n),
         NEW s \in SUBSET (1..n)
  PROVE  f[s] = IF s = {} THEN base ELSE FoldStep(loop, f, evs, s)
<1> DEFINE e(t) == IF t = {} THEN base ELSE FoldStep(loop, f, evs, t)
<1>1. f = [t \in SUBSET (1..n) |-> e(t)]
  BY DEF IsFold
<1>2. f[s] = e(s)
  <2> HIDE DEF e
  <2>1. QED
    BY <1>1
<1>3. QED
  BY <1>2

\* The greatest element of a set with the top of a range.
LEMMA MaxOfRange ==
  ASSUME NEW n \in Nat, NEW s \in SUBSET (1..(n+1)), n + 1 \in s
  PROVE  Max(s) = n + 1
<1>1. \A y \in s : n + 1 >= y
  OBVIOUS
<1>2. \A x \in s : (\A y \in s : x >= y) => x = n + 1
  BY <1>1
<1>3. QED
  BY <1>1, <1>2 DEF Max

\* There is such a function for every length.
LEMMA FoldExists ==
  ASSUME NEW loop, NEW base, NEW evs
  PROVE  \A n \in Nat : \E f : IsFold(f, loop, base, evs, n)
<1> DEFINE S == {n \in Nat : \E f : IsFold(f, loop, base, evs, n)}
<1>1. 0 \in S
  <2> DEFINE f == [s \in SUBSET (1..0) |-> base]
  <2>1. \A s \in SUBSET (1..0) : base = IF s = {} THEN base ELSE FoldStep(loop, f, evs, s)
    OBVIOUS
  <2>2. f = [s \in SUBSET (1..0) |-> IF s = {} THEN base ELSE FoldStep(loop, f, evs, s)]
    BY <2>1
  <2> HIDE DEF f
  <2>3. IsFold(f, loop, base, evs, 0)
    BY <2>2 DEF IsFold
  <2>4. QED
    BY <2>3
<1>2. ASSUME NEW n \in Nat, n \in S PROVE n + 1 \in S
  <2>1. PICK f : IsFold(f, loop, base, evs, n)
    BY <1>2
  <2> DEFINE ef(s) == IF n + 1 \in s THEN Turn(loop, f[s \ {n+1}], evs[n+1]) ELSE f[s]
             g == [s \in SUBSET (1..(n+1)) |-> ef(s)]
             eg(s) == IF s = {} THEN base ELSE FoldStep(loop, g, evs, s)
  <2>2. \A s \in SUBSET (1..n) : n + 1 \notin s /\ s \in SUBSET (1..(n+1))
    OBVIOUS
  <2>3. \A s \in SUBSET (1..n) : g[s] = f[s]
    BY <2>2
  <2>4. ASSUME NEW s \in SUBSET (1..(n+1)) PROVE ef(s) = eg(s)
    <3> HIDE DEF g
    <3>1. CASE n + 1 \in s
      <4>1. Max(s) = n + 1 /\ s # {}
        BY <3>1, MaxOfRange
      <4>2. s \ {n+1} \in SUBSET (1..n)
        OBVIOUS
      <4>3. g[s \ {n+1}] = f[s \ {n+1}]
        BY <2>3, <4>2
      <4>4. ef(s) = Turn(loop, f[s \ {n+1}], evs[n+1])
        BY <3>1
      <4>5. eg(s) = Turn(loop, g[s \ {n+1}], evs[n+1])
        BY <4>1 DEF FoldStep
      <4>6. QED
        BY <4>3, <4>4, <4>5
    <3>2. CASE n + 1 \notin s
      <4>1. s \in SUBSET (1..n)
        BY <3>2
      <4>2. f[s] = IF s = {} THEN base ELSE FoldStep(loop, f, evs, s)
        BY <2>1, <4>1, FoldValue
      <4>3. s \ {Max(s)} \in SUBSET (1..n)
        BY <4>1
      <4>4. g[s \ {Max(s)}] = f[s \ {Max(s)}]
        BY <2>3, <4>3
      <4>5. FoldStep(loop, f, evs, s) = FoldStep(loop, g, evs, s)
        BY <4>4 DEF FoldStep
      <4>6. QED
        BY <3>2, <4>2, <4>5
    <3>3. QED
      BY <3>1, <3>2
  <2>5. g = [s \in SUBSET (1..(n+1)) |-> eg(s)]
    <3> HIDE DEF ef, eg
    <3> QED BY <2>4
  <2>6. IsFold(g, loop, base, evs, n+1)
    <3> HIDE DEF g
    <3> QED BY <2>5 DEF IsFold
  <2>7. QED
    BY <2>6
<1> HIDE DEF S
<1>3. Nat \subseteq S
  BY <1>1, <1>2, InductionOverNat
<1>4. QED
  BY <1>3 DEF S

\* Its values at the ranges are the turns of the loop, one after the other.
LEMMA FoldTurns ==
  ASSUME NEW f, NEW loop, NEW base, NEW evs, NEW n \in Nat, IsFold(f, loop, base, evs, n)
  PROVE  /\ f[1..0] = base
         /\ \A k \in Nat : k < n => f[1..(k+1)] = Turn(loop, f[1..k], evs[k+1])
<1>1. f[1..0] = base
  <2>1. 1..0 = {} /\ {} \in SUBSET (1..n)
    OBVIOUS
  <2>2. QED
    BY <2>1, FoldValue
<1>2. ASSUME NEW k \in Nat, k < n PROVE f[1..(k+1)] = Turn(loop, f[1..k], evs[k+1])
  <2>1. k + 1 \in 1..(k+1) /\ 1..(k+1) \in SUBSET (1..n)
    BY <1>2
  <2>2. Max(1..(k+1)) = k + 1
    BY <2>1, MaxOfRange
  <2>3. (1..(k+1)) \ {k+1} = 1..k
    <3>1. \A i : i \in (1..(k+1)) \ {k+1} <=> i \in 1..k
      OBVIOUS
    <3>2. QED
      BY <3>1
  <2>4. f[1..(k+1)] = FoldStep(loop, f, evs, 1..(k+1))
    BY <2>1, FoldValue
  <2>5. QED
    BY <2>2, <2>3, <2>4 DEF FoldStep
<1>3. QED
  BY <1>1, <1>2

\* The loop of AnalyzeEvents over the flows, turn by turn.
LEMMA FlowsAre ==
  ASSUME NEW evs \in Seq(Packet)
  PROVE  \E h : /\ h[0] = <<>>
                /\ \A k \in Nat : k < Len(evs) => h[k+1] = trackTCPFlows(h[k], evs[k+1])
                /\ h[Len(evs)] = FoldLeft(trackTCPFlows, <<>>, evs)
<1> DEFINE P(f) == f = [s \in SUBSET (DOMAIN evs) |->
                         IF s = {} THEN <<>> ELSE trackTCPFlows(f[s \ {Max(s)}], evs[Max(s)])]
           f == CHOOSE f : P(f)
           n == Len(evs)
           h == [k \in 0..n |-> f[1..k]]
<1>1. n \in Nat /\ DOMAIN evs = 1..n
  OBVIOUS
<1>2. \A g : P(g) <=> IsFold(g, "flows", <<>>, evs, n)
  BY <1>1 DEF IsFold, FoldStep, Turn
<1>3. P(f) /\ IsFold(f, "flows", <<>>, evs, n)
  <2>1. \E g : P(g)
    BY <1>1, <1>2, FoldExists
  <2> HIDE DEF P
  <2>2. P(f)
    BY <2>1
  <2>3. QED
    BY <1>2, <2>2
<1>4. FoldLeft(trackTCPFlows, <<>>, evs) = f[1..n]
  BY <1>1 DEF FoldLeft, MapThenFoldSet
<1> HIDE DEF P, f, h
<1>5. f[1..0] = <<>> /\ \A k \in Nat : k < n => f[1..(k+1)] = Turn("flows", f[1..k], evs[k+1])
  BY <1>1, <1>3, FoldTurns
<1>6. /\ h[0] = <<>> /\ h[n] = f[1..n]
      /\ \A k \in Nat : k < n => h[k+1] = trackTCPFlows(h[k], evs[k+1])
  <2>1. 0 \in 0..n /\ n \in 0..n /\ \A k \in Nat : k < n => k \in 0..n /\ k + 1 \in 0..n
    BY <1>1
  <2>2. QED
    BY <1>5, <2>1 DEF Turn, h
<1>7. QED
  BY <1>4, <1>6

\* BuildFlowTopology, turn by turn.
LEMMA TopologyIs ==
  ASSUME NEW evs \in Seq(Packet)
  PROVE  \E h : /\ h[0] = EmptyTopology
                /\ \A k \in Nat : k < Len(evs) => h[k+1] = Aggregate(h[k], evs[k+1])
                /\ h[Len(evs)] = BuildFlowTopology(evs)
<1> DEFINE P(f) == f = [s \in SUBSET (DOMAIN evs) |->
                         IF s = {} THEN EmptyTopology ELSE Aggregate(f[s \ {Max(s)}], evs[Max(s)])]
           f == CHOOSE f : P(f)
           n == Len(evs)
           h == [k \in 0..n |-> f[1..k]]
<1>1. n \in Nat /\ DOMAIN evs = 1..n
  OBVIOUS
<1>2. \A g : P(g) <=> IsFold(g, "topology", EmptyTopology, evs, n)
  BY <1>1 DEF IsFold, FoldStep, Turn
<1>3. P(f) /\ IsFold(f, "topology", EmptyTopology, evs, n)
  <2>1. \E g : P(g)
    BY <1>1, <1>2, FoldExists
  <2> HIDE DEF P
  <2>2. P(f)
    BY <2>1
  <2>3. QED
    BY <1>2, <2>2
<1>4. BuildFlowTopology(evs) = f[1..n]
  BY <1>1 DEF BuildFlowTopology, FoldLeft, MapThenFoldSet
<1> HIDE DEF P, f, h
<1>5. /\ f[1..0] = EmptyTopology
      /\ \A k \in Nat : k < n => f[1..(k+1)] = Turn("topology", f[1..k], evs[k+1])
  BY <1>1, <1>3, FoldTurns
<1>6. /\ h[0] = EmptyTopology /\ h[n] = f[1..n]
      /\ \A k \in Nat : k < n => h[k+1] = Aggregate(h[k], evs[k+1])
  <2>1. 0 \in 0..n /\ n \in 0..n /\ \A k \in Nat : k < n => k \in 0..n /\ k + 1 \in 0..n
    BY <1>1
  <2>2. QED
    BY <1>5, <2>1 DEF Turn, h
<1>7. QED
  BY <1>4, <1>6

-----------------------------------------------------------------------------
(* Handshakes.                                                                 *)

Conn == STRING \X Nat \X STRING \X Nat

Flow(ev) == <<ev.src, ev.sport, ev.dst, ev.dport>>
Back(f) == <<f[3], f[4], f[1], f[2]>>
Syn(ev) == ev.proto = "TCP" /\ ev.len > 0 /\ ev.sport # 0 /\ "SYN" \in ev.flags

\* What the first k events open and answer.
Opens(evs, k) == {Flow(evs[i]) : i \in {j \in 1..k : Syn(evs[j]) /\ "ACK" \notin evs[j].flags}}
Answers(evs, k) == {Flow(evs[i]) : i \in {j \in 1..k : Syn(evs[j]) /\ "ACK" \in evs[j].flags}}

Tcp == [syn : BOOLEAN, synAck : BOOLEAN]

\* The record of a flow that knows these.
Knows(t, x, opens, answers) ==
  /\ t \in Tcp
  /\ t.syn <=> x \in opens
  /\ t.synAck <=> x \in answers \/ Back(x) \in answers

\* The map of flows that knows these.
Tracks(flows, opens, answers) ==
  /\ opens \subseteq DOMAIN flows /\ DOMAIN flows \subseteq Conn
  /\ \A a \in answers : a \in DOMAIN flows /\ Back(a) \in DOMAIN flows
  /\ \A x \in DOMAIN flows : Knows(flows[x], x, opens, answers)

\* The other direction's other direction.
LEMMA BackBack == ASSUME NEW f \in Conn PROVE Back(f) \in Conn /\ Back(Back(f)) = f
BY DEF Back, Conn

\* A flow that is marked.
LEMMA MarkedIs ==
  ASSUME NEW flows, NEW k, NEW field \in {"syn", "synAck"}, Track(flows, k) \in Tcp
  PROVE  /\ DOMAIN Marked(flows, k, field) = DOMAIN flows \cup {k}
         /\ \A x \in DOMAIN flows : x # k => Marked(flows, k, field)[x] = flows[x]
         /\ Marked(flows, k, field)[k] \in Tcp
         /\ Marked(flows, k, field)[k].syn <=> Track(flows, k).syn \/ field = "syn"
         /\ Marked(flows, k, field)[k].synAck <=> Track(flows, k).synAck \/ field = "synAck"
<1> DEFINE t == Track(flows, k)
           u == [t EXCEPT ![field] = TRUE]
           new == Marked(flows, k, field)
<1>1. new = [x \in DOMAIN flows \cup {k} |-> IF x = k THEN u ELSE flows[x]]
  BY DEF Marked
<1> HIDE DEF t, u, new
<1>2. /\ DOMAIN new = DOMAIN flows \cup {k} /\ new[k] = u
      /\ \A x \in DOMAIN flows : x # k => new[x] = flows[x]
  BY <1>1
<1>3. t \in Tcp /\ u = [t EXCEPT ![field] = TRUE]
  BY DEF t, u
<1>4. u \in Tcp /\ (u.syn <=> t.syn \/ field = "syn") /\ (u.synAck <=> t.synAck \/ field = "synAck")
  <2>1. CASE field = "syn"
    BY <1>3, <2>1 DEF Tcp
  <2>2. CASE field = "synAck"
    BY <1>3, <2>2 DEF Tcp
  <2>3. QED
    BY <2>1, <2>2
<1>5. QED
  BY <1>2, <1>4 DEF new, t

\* What is known of a flow, seen or not.
LEMMA TrackIs ==
  ASSUME NEW flows, NEW opens, NEW answers, answers \subseteq Conn,
         Tracks(flows, opens, answers), NEW k \in Conn
  PROVE  Knows(Track(flows, k), k, opens, answers)
<1>1. CASE k \in DOMAIN flows
  BY <1>1 DEF Tracks, Track
<1>2. CASE k \notin DOMAIN flows
  <2>1. k \notin opens /\ k \notin answers
    BY <1>2 DEF Tracks
  <2>2. Back(k) \notin answers
    BY <1>2, BackBack DEF Tracks
  <2>3. Track(flows, k) = [syn |-> FALSE, synAck |-> FALSE]
    BY <1>2 DEF Track
  <2>4. QED
    BY <2>1, <2>2, <2>3 DEF Knows, Tcp
<1>3. QED
  BY <1>1, <1>2

\* A SYN.
LEMMA OpenTracks ==
  ASSUME NEW flows, NEW opens, NEW answers, answers \subseteq Conn,
         Tracks(flows, opens, answers), NEW k \in Conn
  PROVE  Tracks(Marked(flows, k, "syn"), opens \cup {k}, answers)
<1> DEFINE new == Marked(flows, k, "syn")
<1>1. Knows(Track(flows, k), k, opens, answers)
  BY TrackIs
<1>2. /\ DOMAIN new = DOMAIN flows \cup {k}
      /\ \A x \in DOMAIN flows : x # k => new[x] = flows[x]
      /\ new[k] \in Tcp /\ new[k].syn /\ (new[k].synAck <=> Track(flows, k).synAck)
  BY <1>1, MarkedIs DEF Knows
<1> HIDE DEF new
<1>3. Knows(new[k], k, opens \cup {k}, answers)
  BY <1>1, <1>2 DEF Knows
<1>4. ASSUME NEW x \in DOMAIN flows, x # k PROVE Knows(new[x], x, opens \cup {k}, answers)
  <2>1. Knows(flows[x], x, opens, answers) /\ new[x] = flows[x]
    BY <1>2, <1>4 DEF Tracks
  <2>2. QED
    BY <1>4, <2>1 DEF Knows
<1>5. QED
  BY <1>2, <1>3, <1>4 DEF Tracks, new

\* A SYN+ACK.
LEMMA AnswerTracks ==
  ASSUME NEW flows, NEW opens, NEW answers, answers \subseteq Conn,
         Tracks(flows, opens, answers), NEW k \in Conn
  PROVE  Tracks(Marked(Marked(flows, Back(k), "synAck"), k, "synAck"), opens, answers \cup {k})
<1> DEFINE rev == Back(k)
           mid == Marked(flows, rev, "synAck")
           new == Marked(mid, k, "synAck")
<1>1. rev \in Conn /\ Back(rev) = k
  BY BackBack
<1>2. Knows(Track(flows, k), k, opens, answers) /\ Knows(Track(flows, rev), rev, opens, answers)
  BY <1>1, TrackIs
<1>3. /\ DOMAIN mid = DOMAIN flows \cup {rev}
      /\ \A x \in DOMAIN flows : x # rev => mid[x] = flows[x]
      /\ mid[rev] \in Tcp /\ mid[rev].synAck /\ (mid[rev].syn <=> rev \in opens)
  <2>1. Track(flows, rev) \in Tcp /\ (Track(flows, rev).syn <=> rev \in opens)
    BY <1>2 DEF Knows
  <2>2. QED
    BY <2>1, MarkedIs
<1> HIDE DEF mid, rev
<1>4. Track(mid, k) \in Tcp /\ (Track(mid, k).syn <=> k \in opens)
  <2>1. CASE k = rev
    BY <1>3, <2>1 DEF Track
  <2>2. CASE k # rev
    <3>1. Track(mid, k) = Track(flows, k)
      BY <1>3, <2>2 DEF Track
    <3>2. QED
      BY <1>2, <3>1 DEF Knows
  <2>3. QED
    BY <2>1, <2>2
<1>5. /\ DOMAIN new = DOMAIN mid \cup {k}
      /\ \A x \in DOMAIN mid : x # k => new[x] = mid[x]
      /\ new[k] \in Tcp /\ new[k].synAck /\ (new[k].syn <=> k \in opens)
  BY <1>4, MarkedIs
<1> HIDE DEF new
<1>6. ASSUME NEW x \in DOMAIN new PROVE Knows(new[x], x, opens, answers \cup {k})
  <2>1. CASE x = k
    BY <1>5, <2>1 DEF Knows
  <2>2. CASE x # k /\ x = rev
    BY <1>1, <1>3, <1>5, <2>2 DEF Knows
  <2>3. CASE x # k /\ x # rev
    <3>1. x \in DOMAIN flows /\ x \in Conn /\ new[x] = flows[x]
      BY <1>3, <1>5, <2>3 DEF Tracks
    <3>2. Back(x) # k
      BY <2>3, <3>1, BackBack DEF rev
    <3>3. Knows(flows[x], x, opens, answers)
      BY <3>1 DEF Tracks
    <3>4. QED
      BY <2>3, <3>1, <3>2, <3>3 DEF Knows
  <2>4. QED
    BY <2>1, <2>2, <2>3
<1>7. /\ DOMAIN new = DOMAIN flows \cup {rev, k} /\ DOMAIN new \subseteq Conn
      /\ opens \subseteq DOMAIN new
  BY <1>1, <1>3, <1>5 DEF Tracks
<1>8. \A a \in answers \cup {k} : a \in DOMAIN new /\ Back(a) \in DOMAIN new
  BY <1>7 DEF Tracks, rev
<1>9. Tracks(new, opens, answers \cup {k})
  BY <1>6, <1>7, <1>8 DEF Tracks
<1>10. QED
  BY <1>9 DEF new, mid, rev

\* One event more: what it opens and answers.
LEMMA EventOpens ==
  ASSUME NEW evs, NEW k \in Nat
  PROVE  LET ev == evs[k+1]
             opens == Syn(ev) /\ "ACK" \notin ev.flags
             answers == Syn(ev) /\ "ACK" \in ev.flags
         IN /\ opens => Opens(evs, k+1) = Opens(evs, k) \cup {Flow(ev)}
            /\ ~opens => Opens(evs, k+1) = Opens(evs, k)
            /\ answers => Answers(evs, k+1) = Answers(evs, k) \cup {Flow(ev)}
            /\ ~answers => Answers(evs, k+1) = Answers(evs, k)
<1> DEFINE ev == evs[k+1]
           o(j) == Syn(evs[j]) /\ "ACK" \notin evs[j].flags
           a(j) == Syn(evs[j]) /\ "ACK" \in evs[j].flags
           w(j) == Flow(evs[j])
<1>1. 1..(k+1) = 1..k \cup {k+1}
  OBVIOUS
<1>2. /\ \A i : Opens(evs, i) = {w(j) : j \in {j \in 1..i : o(j)}}
      /\ \A i : Answers(evs, i) = {w(j) : j \in {j \in 1..i : a(j)}}
  BY DEF Opens, Answers
<1> HIDE DEF o, a, w
<1>3. /\ o(k+1) => {j \in 1..(k+1) : o(j)} = {j \in 1..k : o(j)} \cup {k+1}
      /\ ~o(k+1) => {j \in 1..(k+1) : o(j)} = {j \in 1..k : o(j)}
      /\ a(k+1) => {j \in 1..(k+1) : a(j)} = {j \in 1..k : a(j)} \cup {k+1}
      /\ ~a(k+1) => {j \in 1..(k+1) : a(j)} = {j \in 1..k : a(j)}
  BY <1>1
<1>4. \A J : {w(j) : j \in J \cup {k+1}} = {w(j) : j \in J} \cup {w(k+1)}
  OBVIOUS
<1>5. /\ o(k+1) => Opens(evs, k+1) = Opens(evs, k) \cup {w(k+1)}
      /\ ~o(k+1) => Opens(evs, k+1) = Opens(evs, k)
      /\ a(k+1) => Answers(evs, k+1) = Answers(evs, k) \cup {w(k+1)}
      /\ ~a(k+1) => Answers(evs, k+1) = Answers(evs, k)
  BY <1>2, <1>3, <1>4
<1>6. QED
  BY <1>5 DEF o, a, w

\* The map after all events.
LEMMA FlowsTrack ==
  ASSUME NEW evs \in Seq(Packet)
  PROVE  Tracks(FoldLeft(trackTCPFlows, <<>>, evs), Opens(evs, Len(evs)), Answers(evs, Len(evs)))
<1>1. PICK h : /\ h[0] = <<>>
               /\ \A k \in Nat : k < Len(evs) => h[k+1] = trackTCPFlows(h[k], evs[k+1])
               /\ h[Len(evs)] = FoldLeft(trackTCPFlows, <<>>, evs)
  BY FlowsAre
<1> DEFINE S == {k \in Nat : k <= Len(evs) => Tracks(h[k], Opens(evs, k), Answers(evs, k))}
<1>2. Len(evs) \in Nat
  OBVIOUS
<1>3. 0 \in S
  <2>1. Opens(evs, 0) = {} /\ Answers(evs, 0) = {} /\ DOMAIN <<>> = {}
    BY DEF Opens, Answers
  <2>2. QED
    BY <1>1, <2>1 DEF Tracks
<1>4. ASSUME NEW k \in Nat, k \in S PROVE k + 1 \in S
  <2> SUFFICES ASSUME k + 1 <= Len(evs)
               PROVE  Tracks(h[k+1], Opens(evs, k+1), Answers(evs, k+1))
    OBVIOUS
  <2> DEFINE ev == evs[k+1]
  <2>1. ev \in Packet
    BY <1>2
  <2>2. Flow(ev) \in Conn /\ ev.len \in Nat
    BY <2>1 DEF Flow, Conn, Packet
  <2>3. Tracks(h[k], Opens(evs, k), Answers(evs, k)) /\ h[k+1] = trackTCPFlows(h[k], ev)
    BY <1>1, <1>2, <1>4
  <2>4. Answers(evs, k) \subseteq Conn
    BY <2>3 DEF Tracks
  <2>5. CASE ~Syn(ev)
    <3>1. h[k+1] = h[k]
      BY <2>2, <2>3, <2>5 DEF trackTCPFlows, FrameFlags, Syn
    <3>2. Opens(evs, k+1) = Opens(evs, k) /\ Answers(evs, k+1) = Answers(evs, k)
      BY <2>5, EventOpens
    <3>3. QED
      BY <2>3, <3>1, <3>2
  <2>6. CASE Syn(ev) /\ "ACK" \notin ev.flags
    <3>1. h[k+1] = Marked(h[k], Flow(ev), "syn")
      BY <2>2, <2>3, <2>6 DEF trackTCPFlows, FrameFlags, Syn, Flow
    <3>2. /\ Opens(evs, k+1) = Opens(evs, k) \cup {Flow(ev)}
          /\ Answers(evs, k+1) = Answers(evs, k)
      BY <2>6, EventOpens
    <3>3. QED
      BY <2>2, <2>3, <2>4, <3>1, <3>2, OpenTracks
  <2>7. CASE Syn(ev) /\ "ACK" \in ev.flags
    <3>1. h[k+1] = Marked(Marked(h[k], Back(Flow(ev)), "synAck"), Flow(ev), "synAck")
      <4>1. Back(Flow(ev)) = <<ev.dst, ev.dport, ev.src, ev.sport>>
        BY DEF Back, Flow
      <4>2. ev.proto = "TCP" /\ ev.len # 0 /\ ev.sport # 0 /\ FrameFlags(ev) = ev.flags
        BY <2>2, <2>7 DEF Syn, FrameFlags
      <4>3. "SYN" \in ev.flags /\ "ACK" \in ev.flags
        BY <2>7 DEF Syn
      <4>4. trackTCPFlows(h[k], ev)
              = Marked(Marked(h[k], Back(Flow(ev)), "synAck"), Flow(ev), "synAck")
        BY <4>1, <4>2, <4>3, Zenon DEF trackTCPFlows, Flow
      <4>5. QED
        BY <2>3, <4>4
    <3>2. /\ Opens(evs, k+1) = Opens(evs, k)
          /\ Answers(evs, k+1) = Answers(evs, k) \cup {Flow(ev)}
      BY <2>7, EventOpens
    <3>3. QED
      BY <2>2, <2>3, <2>4, <3>1, <3>2, AnswerTracks
  <2>8. QED
    BY <2>5, <2>6, <2>7
<1> HIDE DEF S
<1>5. Nat \subseteq S
  BY <1>3, <1>4, InductionOverNat
<1>6. QED
  BY <1>1, <1>2, <1>5 DEF S

\* The count of the analytics.
LEMMA FailedIs ==
  ASSUME NEW evs \in Seq(Packet)
  PROVE  countFailedTCP(evs) =
           Cardinality({f \in Opens(evs, Len(evs)) : f \notin Answers(evs, Len(evs))
                                                     /\ Back(f) \notin Answers(evs, Len(evs))})
<1> DEFINE flows == FoldLeft(trackTCPFlows, <<>>, evs)
           O == Opens(evs, Len(evs))
           A == Answers(evs, Len(evs))
<1>1. Tracks(flows, O, A)
  BY FlowsTrack
<1>2. countFailedTCP(evs) = Cardinality({k \in DOMAIN flows : flows[k].syn /\ ~flows[k].synAck})
  BY DEF countFailedTCP
<1> HIDE DEF flows, O, A
<1>3. {k \in DOMAIN flows : flows[k].syn /\ ~flows[k].synAck}
        = {f \in O : f \notin A /\ Back(f) \notin A}
  <2>1. \A k \in DOMAIN flows : /\ flows[k].syn <=> k \in O
                                /\ flows[k].synAck <=> k \in A \/ Back(k) \in A
    BY <1>1 DEF Tracks, Knows
  <2>2. O \subseteq DOMAIN flows
    BY <1>1 DEF Tracks
  <2>3. QED
    BY <2>1, <2>2, Zenon
<1>4. QED
  BY <1>2, <1>3 DEF O, A

-----------------------------------------------------------------------------
(* The map of edges.                                                           *)

\* The edges of the first k events, and the events of an edge.
Known(evs, k) == {i \in 1..k : NoNode \notin Range(resolveFlowEndpoints(evs[i]))}
Ends(evs, k) == {resolveFlowEndpoints(evs[i]) : i \in Known(evs, k)}
On(evs, k, e) == {i \in 1..k : resolveFlowEndpoints(evs[i]) = e}
Dropped(ev) == ev.dropped \/ ev.cause # ""

\* A topology that has these edges, and on each its events.
Accounts(t, evs, k) ==
  /\ DOMAIN t.edges = Ends(evs, k)
  /\ t.nodes = UNION {Range(e) : e \in Ends(evs, k)}
  /\ \A e \in Ends(evs, k) :
       /\ {"count", "cause"} \subseteq DOMAIN t.edges[e]
       /\ t.edges[e].count = Cardinality(On(evs, k, e))
       /\ t.edges[e].cause # "" <=> \E i \in On(evs, k, e) : Dropped(evs[i])

\* A pair of vertices.
LEMMA RangeOfPair == ASSUME NEW a, NEW b PROVE Range(<<a, b>>) = {a, b}
BY DEF Range

\* One event more, on an edge or on none.
LEMMA EventEnds ==
  ASSUME NEW evs, NEW k \in Nat
  PROVE  LET e == resolveFlowEndpoints(evs[k+1]) IN
         /\ Ends(evs, k+1) = Ends(evs, k) \cup (IF NoNode \in Range(e) THEN {} ELSE {e})
         /\ On(evs, k+1, e) = On(evs, k, e) \cup {k+1} /\ k + 1 \notin On(evs, k, e)
         /\ \A x : x # e => On(evs, k+1, x) = On(evs, k, x)
<1> DEFINE e == resolveFlowEndpoints(evs[k+1])
<1>1. 1..(k+1) = 1..k \cup {k+1} /\ k + 1 \notin 1..k
  OBVIOUS
<1>2. Known(evs, k+1) = Known(evs, k) \cup (IF NoNode \in Range(e) THEN {} ELSE {k+1})
  BY <1>1 DEF Known
<1>3. Ends(evs, k+1) = Ends(evs, k) \cup (IF NoNode \in Range(e) THEN {} ELSE {e})
  BY <1>2 DEF Ends
<1>4. On(evs, k+1, e) = On(evs, k, e) \cup {k+1} /\ k + 1 \notin On(evs, k, e)
  BY <1>1 DEF On
<1>5. ASSUME NEW x, x # e PROVE On(evs, k+1, x) = On(evs, k, x)
  BY <1>1, <1>5 DEF On
<1>6. QED
  BY <1>3, <1>4, <1>5

\* The events of an edge are finitely many, and one more counts one more.
LEMMA EventCounts ==
  ASSUME NEW evs, NEW k \in Nat
  PROVE  LET e == resolveFlowEndpoints(evs[k+1]) IN
         /\ Cardinality(On(evs, k, e)) \in Nat
         /\ Cardinality(On(evs, k+1, e)) = Cardinality(On(evs, k, e)) + 1
<1> DEFINE e == resolveFlowEndpoints(evs[k+1])
<1>1. IsFiniteSet(1..k) /\ On(evs, k, e) \in SUBSET (1..k)
  BY FS_Interval DEF On
<1>2. IsFiniteSet(On(evs, k, e))
  BY <1>1, FS_Subset
<1>3. On(evs, k+1, e) = On(evs, k, e) \cup {k+1} /\ k + 1 \notin On(evs, k, e)
  BY EventEnds
<1>4. Cardinality(On(evs, k, e)) \in Nat
  BY <1>2, FS_CardinalityType
<1>5. Cardinality(On(evs, k, e) \cup {k+1}) = Cardinality(On(evs, k, e)) + 1
  BY <1>2, <1>3, FS_AddElement
<1>6. QED
  BY <1>3, <1>4, <1>5

\* What a packet adds to its edge.
LEMMA AddedIs ==
  ASSUME NEW e, {"count", "cause"} \subseteq DOMAIN e, NEW ev
  PROVE  /\ DOMAIN AddToEdge(e, ev) = DOMAIN e
         /\ AddToEdge(e, ev).count = e.count + 1
         /\ AddToEdge(e, ev).cause = LatestCause(e.cause, ev)
BY DEF AddToEdge

\* A cause once seen stays, and a dropped packet leaves one.
LEMMA CauseIs ==
  ASSUME NEW ev \in Packet, NEW cause
  PROVE  LatestCause(cause, ev) # "" <=> cause # "" \/ Dropped(ev)
<1>1. ev.dropped \in BOOLEAN
  BY DEF Packet
<1>2. QED
  BY <1>1, Zenon DEF LatestCause, Dropped

\* One turn of BuildFlowTopology.
LEMMA AggregateAccounts ==
  ASSUME NEW evs \in Seq(Packet), NEW k \in Nat, k + 1 <= Len(evs), NEW t, Accounts(t, evs, k)
  PROVE  Accounts(Aggregate(t, evs[k+1]), evs, k+1)
<1> DEFINE ev == evs[k+1]
           e == resolveFlowEndpoints(ev)
           new == Aggregate(t, ev)
           old == IF e \in DOMAIN t.edges THEN t.edges[e] ELSE NewEdge
<1>1. ev \in Packet
  <2>1. k + 1 \in 1..Len(evs)
    OBVIOUS
  <2>2. QED
    BY <2>1
<1>2. /\ Ends(evs, k+1) = Ends(evs, k) \cup (IF NoNode \in Range(e) THEN {} ELSE {e})
      /\ On(evs, k+1, e) = On(evs, k, e) \cup {k+1}
      /\ \A x : x # e => On(evs, k+1, x) = On(evs, k, x)
  BY EventEnds
<1>3. CASE NoNode \in Range(e)
  <2>1. new = t
    BY <1>3 DEF Aggregate
  <2>2. Ends(evs, k+1) = Ends(evs, k)
    <3>1. \A S : S \cup {} = S
      OBVIOUS
    <3>2. QED
      BY <1>2, <1>3, <3>1, Zenon
  <2>3. \A x \in Ends(evs, k) : x # e
    BY <1>3 DEF Ends, Known
  <2>4. QED
    BY <1>2, <2>1, <2>2, <2>3 DEF Accounts
<1>4. CASE NoNode \notin Range(e)
  <2>1. /\ new.nodes = t.nodes \cup Range(e)
        /\ new.edges = [x \in DOMAIN t.edges \cup {e} |->
                          IF x = e THEN AddToEdge(old, ev) ELSE t.edges[x]]
    BY <1>4 DEF Aggregate
  <2>2. Ends(evs, k+1) = Ends(evs, k) \cup {e}
    BY <1>2, <1>4
  <2>3. /\ {"count", "cause"} \subseteq DOMAIN old
        /\ old.count = Cardinality(On(evs, k, e))
        /\ old.cause # "" <=> \E i \in On(evs, k, e) : Dropped(evs[i])
    <3>1. CASE e \in DOMAIN t.edges
      BY <3>1 DEF Accounts
    <3>2. CASE e \notin DOMAIN t.edges
      <4>1. On(evs, k, e) = {}
        BY <1>4, <3>2 DEF Accounts, Ends, Known, On
      <4>2. old = NewEdge
        BY <3>2
      <4>3. NewEdge.count = 0 /\ NewEdge.cause = "" /\ {"count", "cause"} \subseteq DOMAIN NewEdge
        BY DEF NewEdge
      <4>4. Cardinality(On(evs, k, e)) = 0
        BY <4>1, FS_EmptySet
      <4>5. QED
        BY <4>1, <4>2, <4>3, <4>4
    <3>3. QED
      BY <3>1, <3>2
  <2> HIDE DEF old, new
  <2>4. /\ {"count", "cause"} \subseteq DOMAIN new.edges[e]
        /\ new.edges[e].count = Cardinality(On(evs, k+1, e))
        /\ new.edges[e].cause # "" <=> \E i \in On(evs, k+1, e) : Dropped(evs[i])
    <3>1. new.edges[e] = AddToEdge(old, ev)
      BY <2>1
    <3>2. /\ DOMAIN new.edges[e] = DOMAIN old /\ new.edges[e].count = old.count + 1
          /\ new.edges[e].cause = LatestCause(old.cause, ev)
      <4>1. {"count", "cause"} \subseteq DOMAIN old
        BY <2>3
      <4> HIDE DEF ev
      <4>2. QED
        BY <3>1, <4>1, AddedIs
    <3>3. new.edges[e].cause # "" <=> old.cause # "" \/ Dropped(ev)
      BY <1>1, <3>2, CauseIs
    <3>4. new.edges[e].count = Cardinality(On(evs, k+1, e))
      <4>1. Cardinality(On(evs, k+1, e)) = Cardinality(On(evs, k, e)) + 1
        BY EventCounts
      <4>2. QED
        BY <2>3, <3>2, <4>1
    <3>5. QED
      BY <1>2, <2>3, <3>2, <3>3, <3>4
  <2>5. ASSUME NEW x \in Ends(evs, k), x # e
        PROVE  /\ {"count", "cause"} \subseteq DOMAIN new.edges[x]
               /\ new.edges[x].count = Cardinality(On(evs, k+1, x))
               /\ new.edges[x].cause # "" <=> \E i \in On(evs, k+1, x) : Dropped(evs[i])
    <3>1. new.edges[x] = t.edges[x] /\ On(evs, k+1, x) = On(evs, k, x)
      BY <1>2, <2>1, <2>5 DEF Accounts
    <3>2. QED
      BY <3>1 DEF Accounts
  <2>6. DOMAIN new.edges = Ends(evs, k+1)
    BY <2>1, <2>2 DEF Accounts
  <2>7. new.nodes = UNION {Range(x) : x \in Ends(evs, k+1)}
    <3>1. t.nodes = UNION {Range(x) : x \in Ends(evs, k)}
      BY DEF Accounts
    <3>2. {Range(x) : x \in Ends(evs, k+1)} = {Range(x) : x \in Ends(evs, k)} \cup {Range(e)}
      BY <2>2
    <3>3. QED
      BY <2>1, <3>1, <3>2
  <2>8. QED
    BY <2>2, <2>4, <2>5, <2>6, <2>7 DEF Accounts, new
<1>5. QED
  BY <1>3, <1>4

\* Nothing is on the empty topology.
LEMMA EmptyAccounts == ASSUME NEW evs PROVE Accounts(EmptyTopology, evs, 0)
<1>1. Ends(evs, 0) = {}
  BY DEF Ends, Known
<1>2. DOMAIN EmptyTopology.edges = {} /\ EmptyTopology.nodes = {}
  BY DEF EmptyTopology
<1>3. QED
  BY <1>1, <1>2 DEF Accounts

\* BuildFlowTopology accounts for all events.
LEMMA BuildAccounts ==
  ASSUME NEW evs \in Seq(Packet)
  PROVE  Accounts(BuildFlowTopology(evs), evs, Len(evs))
<1>1. PICK h : /\ h[0] = EmptyTopology
               /\ \A k \in Nat : k < Len(evs) => h[k+1] = Aggregate(h[k], evs[k+1])
               /\ h[Len(evs)] = BuildFlowTopology(evs)
  BY TopologyIs
<1> DEFINE S == {k \in Nat : k <= Len(evs) => Accounts(h[k], evs, k)}
<1>2. Len(evs) \in Nat
  OBVIOUS
<1>3. 0 \in S
  BY <1>1, EmptyAccounts
<1>4. ASSUME NEW k \in Nat, k \in S PROVE k + 1 \in S
  <2>1. SUFFICES ASSUME k + 1 <= Len(evs) PROVE Accounts(h[k+1], evs, k+1)
    OBVIOUS
  <2>2. Accounts(h[k], evs, k) /\ h[k+1] = Aggregate(h[k], evs[k+1])
    BY <1>1, <1>2, <1>4, <2>1
  <2>3. QED
    BY <2>1, <2>2, AggregateAccounts
<1> HIDE DEF S
<1>5. Nat \subseteq S
  BY <1>3, <1>4, InductionOverNat
<1>6. QED
  BY <1>1, <1>2, <1>5 DEF S

-----------------------------------------------------------------------------
(* The selection and the limits.                                               *)

\* The greater of two.
LEMMA MaxOfTwo ==
  ASSUME NEW x \in Int, NEW y \in Int
  PROVE  Max({x, y}) = IF x >= y THEN x ELSE y
BY DEF Max

\* The smaller of two.
LEMMA MinOfTwo ==
  ASSUME NEW x \in Int, NEW y \in Int
  PROVE  Min({x, y}) = IF x <= y THEN x ELSE y
BY DEF Min

\* The values of a function are finitely many where its arguments are.
LEMMA ImageIsFinite ==
  ASSUME NEW S, IsFiniteSet(S), NEW f, f = [x \in S |-> f[x]]
  PROVE  IsFiniteSet({f[x] : x \in S})
<1> DEFINE T == {f[x] : x \in S}
<1>1. f \in [S -> T]
  OBVIOUS
<1>2. \A y \in T : \E x \in S : f[x] = y
  OBVIOUS
<1>3. f \in Surjection(S, T)
  BY <1>1, <1>2 DEF Surjection
<1>4. QED
  BY <1>3, FS_Surjection

\* The tracked pods are finitely many: Tracked is a sequence.
LEMMA TrackedIsFinite == IsFiniteSet(TrackedPods)
<1> DEFINE n == Len(Tracked)
           node(i) == [kind |-> "pod", ns |-> Tracked[i].ns, name |-> Tracked[i].name]
           f == [i \in 1..n |-> node(i)]
<1>1. n \in Nat /\ DOMAIN Tracked = 1..n
  BY LimitsAssumption
<1>2. IsFiniteSet(1..n)
  BY <1>1, FS_Interval
<1>3. f = [i \in 1..n |-> f[i]] /\ {f[i] : i \in 1..n} = {node(i) : i \in 1..n}
  OBVIOUS
<1>4. TrackedPods = {node(i) : i \in 1..n}
  BY <1>1 DEF TrackedPods, Range
<1> HIDE DEF f
<1>5. IsFiniteSet({f[i] : i \in 1..n})
  BY <1>2, <1>3, ImageIsFinite
<1>6. QED
  BY <1>3, <1>4, <1>5

\* An edge is a pair.
LEMMA EndsArePairs == ASSUME NEW ev PROVE \E a, b : resolveFlowEndpoints(ev) = <<a, b>>
BY DEF resolveFlowEndpoints

\* Finitely many packets are on finitely many edges.
LEMMA EndsAreFinite ==
  ASSUME NEW evs, NEW k \in Nat
  PROVE  IsFiniteSet(Ends(evs, k)) /\ \A e \in Ends(evs, k) : IsFiniteSet(Range(e))
<1> DEFINE K == Known(evs, k)
           f == [i \in K |-> resolveFlowEndpoints(evs[i])]
<1>1. IsFiniteSet(K)
  <2>1. IsFiniteSet(1..k) /\ K \in SUBSET (1..k)
    BY FS_Interval DEF Known
  <2>2. QED
    BY <2>1, FS_Subset
<1>2. f = [i \in K |-> f[i]] /\ {f[i] : i \in K} = Ends(evs, k)
  BY DEF Ends
<1> HIDE DEF f, K
<1>3. IsFiniteSet(Ends(evs, k))
  BY <1>1, <1>2, ImageIsFinite
<1>4. ASSUME NEW e \in Ends(evs, k) PROVE IsFiniteSet(Range(e))
  <2>1. PICK a, b : e = <<a, b>>
    BY EndsArePairs DEF Ends
  <2>2. Range(e) = {a} \cup {b}
    BY <2>1, RangeOfPair
  <2>3. IsFiniteSet({a} \cup {b})
    BY FS_Singleton, FS_AddElement
  <2>4. QED
    BY <2>2, <2>3
<1>5. QED
  BY <1>3, <1>4

\* The ends of finitely many edges.
LEMMA VerticesAreFinite ==
  ASSUME NEW E, IsFiniteSet(E), \A e \in E : IsFiniteSet(Range(e))
  PROVE  IsFiniteSet(UNION {Range(e) : e \in E})
<1> DEFINE f == [e \in E |-> Range(e)]
<1>1. f = [e \in E |-> f[e]] /\ {f[e] : e \in E} = {Range(e) : e \in E}
  OBVIOUS
<1>2. IsFiniteSet({Range(e) : e \in E})
  <2> HIDE DEF f
  <2>1. QED
    BY <1>1, ImageIsFinite
<1>3. QED
  BY <1>2, FS_UNION

\* What the selection keeps of a topology whose vertices are those of its edges.
LEMMA FilterIs ==
  ASSUME NEW t, t.nodes = UNION {Range(e) : e \in DOMAIN t.edges},
         NEW u, u = FilterTopologyToSelection(t)
  PROVE  /\ DOMAIN u.edges \subseteq DOMAIN t.edges
         /\ u.nodes = UNION {Range(e) : e \in DOMAIN u.edges}
         /\ TrackedPods # {} => \A e \in DOMAIN u.edges : Range(e) \cap TrackedPods # {}
         /\ \A n \in TrackedPods : n \in u.nodes <=> \E e \in DOMAIN t.edges : n \in Range(e)
<1>1. CASE TrackedPods = {}
  BY <1>1 DEF FilterTopologyToSelection
<1>2. CASE TrackedPods # {}
  <2> DEFINE kept == {k \in DOMAIN t.edges : Range(k) \cap TrackedPods # {}}
  <2>1. u.nodes = UNION {Range(k) : k \in kept} /\ DOMAIN u.edges = kept
    BY <1>2 DEF FilterTopologyToSelection, Restrict
  <2>2. QED
    BY <1>2, <2>1
<1>3. QED
  BY <1>1, <1>2

\* The edges that the limit keeps.
LEMMA TopEdgesAre ==
  ASSUME NEW t, IsFiniteSet(DOMAIN t.edges), NEW edges \in TopEdges(t)
  PROVE  edges \subseteq DOMAIN t.edges /\ IsFiniteSet(edges) /\ Cardinality(edges) <= MaxEdges
<1>1. /\ edges \in SUBSET DOMAIN t.edges
      /\ Cardinality(edges) = Min({MaxEdges, Cardinality(DOMAIN t.edges)})
  BY DEF TopEdges, Heaviest, kSubset
<1>2. MaxEdges \in Nat /\ Cardinality(DOMAIN t.edges) \in Nat
  BY LimitsAssumption, FS_CardinalityType
<1>3. Cardinality(edges) <= MaxEdges
  BY <1>1, <1>2, MinOfTwo
<1>4. IsFiniteSet(edges)
  BY <1>1, FS_Subset
<1>5. QED
  BY <1>1, <1>3, <1>4

\* The vertices that it keeps.
LEMMA KeepNodesAre ==
  ASSUME NEW t, NEW edges, IsFiniteSet(edges), \A e \in edges : IsFiniteSet(Range(e)),
         NEW keep \in KeepNodes(t, edges)
  PROVE  /\ TrackedPods \subseteq keep /\ IsFiniteSet(keep)
         /\ Cardinality(keep) <= Max({MaxNodes, Cardinality(TrackedPods)})
<1> DEFINE all == TrackedPods \cup UNION {Range(k) : k \in edges}
           budget == Max({0, MaxNodes - Cardinality(TrackedPods)})
<1>1. /\ MaxNodes \in Nat /\ IsFiniteSet(TrackedPods)
      /\ Cardinality(TrackedPods) \in Nat
  BY LimitsAssumption, TrackedIsFinite, FS_CardinalityType
<1>2. IsFiniteSet(all)
  BY <1>1, VerticesAreFinite, FS_Union
<1>3. Cardinality(all) \in Nat
  BY <1>2, FS_CardinalityType
<1>4. CASE Cardinality(all) <= MaxNodes
  <2>1. keep = all
    BY <1>4 DEF KeepNodes
  <2> HIDE DEF all
  <2>2. Cardinality(keep) <= Max({MaxNodes, Cardinality(TrackedPods)})
    BY <1>1, <1>3, <1>4, <2>1, MaxOfTwo
  <2>3. QED
    BY <1>2, <2>1, <2>2 DEF all
<1>5. CASE ~(Cardinality(all) <= MaxNodes)
  <2> DEFINE rest == all \ TrackedPods
  <2>1. PICK T : /\ keep = TrackedPods \cup T /\ T \in SUBSET rest
                 /\ Cardinality(T) = Min({budget, Cardinality(rest)})
    BY <1>5 DEF KeepNodes, Heaviest, kSubset
  <2>2. IsFiniteSet(rest) /\ Cardinality(rest) \in Nat
    BY <1>2, FS_Difference, FS_CardinalityType
  <2> HIDE DEF rest, all
  <2>3. IsFiniteSet(T) /\ Cardinality(T) \in Nat
    BY <2>1, <2>2, FS_Subset, FS_CardinalityType
  <2>4. budget = IF MaxNodes >= Cardinality(TrackedPods)
                 THEN MaxNodes - Cardinality(TrackedPods) ELSE 0
    BY <1>1, MaxOfTwo
  <2> HIDE DEF budget
  <2>5. Cardinality(T) <= budget
    BY <1>1, <2>1, <2>2, <2>4, MinOfTwo
  <2>6. /\ IsFiniteSet(keep)
        /\ Cardinality(keep) = Cardinality(TrackedPods) + Cardinality(T)
                                 - Cardinality(TrackedPods \cap T)
    BY <1>1, <2>1, <2>3, FS_Union
  <2>7. Cardinality(TrackedPods \cap T) \in Nat
    BY <1>1, FS_Intersection, FS_CardinalityType
  <2>8. Cardinality(keep) <= Max({MaxNodes, Cardinality(TrackedPods)})
    BY <1>1, <2>3, <2>4, <2>5, <2>6, <2>7, MaxOfTwo
  <2>9. QED
    BY <2>1, <2>6, <2>8
<1>6. QED
  BY <1>4, <1>5

\* What a reply shows of a topology that accounts for some events.
Closed(u, evs) ==
  /\ Cardinality(DOMAIN u.edges) <= MaxEdges
  /\ Cardinality(u.nodes) <= Max({MaxNodes, Cardinality(TrackedPods)})
  /\ \A k \in DOMAIN u.edges : Range(k) \subseteq u.nodes
  /\ TrackedPods # {} => \A k \in DOMAIN u.edges : Range(k) \cap TrackedPods # {}
  /\ \A n \in TrackedPods : n \in u.nodes <=> \E k \in Ends(evs, Len(evs)) : n \in Range(k)

\* LimitFlowTopology gives such a reply, whichever of equally heavy edges and nodes it keeps.
LEMMA LimitIsClosed ==
  ASSUME NEW evs \in Seq(Packet), NEW t, Accounts(t, evs, Len(evs)),
         NEW u \in LimitFlowTopology(FilterTopologyToSelection(t))
  PROVE  Closed(u, evs)
<1> DEFINE s == FilterTopologyToSelection(t)
           E == Ends(evs, Len(evs))
<1>1. Len(evs) \in Nat
  OBVIOUS
<1>2. IsFiniteSet(E) /\ \A e \in E : IsFiniteSet(Range(e))
  BY <1>1, EndsAreFinite
<1>3. DOMAIN t.edges = E /\ t.nodes = UNION {Range(e) : e \in E}
  BY DEF Accounts
<1>4. /\ DOMAIN s.edges \subseteq E
      /\ s.nodes = UNION {Range(e) : e \in DOMAIN s.edges}
      /\ TrackedPods # {} => \A e \in DOMAIN s.edges : Range(e) \cap TrackedPods # {}
      /\ \A n \in TrackedPods : n \in s.nodes <=> \E e \in E : n \in Range(e)
  BY <1>3, FilterIs
<1>5. u \in LimitFlowTopology(s)
  OBVIOUS
<1> HIDE DEF s, E
<1>6. IsFiniteSet(DOMAIN s.edges)
  BY <1>2, <1>4, FS_Subset
<1>7. /\ MaxNodes \in Nat /\ MaxEdges \in Nat /\ Cardinality(TrackedPods) \in Nat
      /\ MaxNodes <= Max({MaxNodes, Cardinality(TrackedPods)})
  <2>1. MaxNodes \in Nat /\ MaxEdges \in Nat /\ Cardinality(TrackedPods) \in Nat
    BY LimitsAssumption, TrackedIsFinite, FS_CardinalityType
  <2>2. QED
    BY <2>1, MaxOfTwo
<1>8. IsFiniteSet(s.nodes)
  BY <1>2, <1>4, <1>6, VerticesAreFinite
<1>9. CASE Cardinality(s.nodes) <= MaxNodes /\ Cardinality(DOMAIN s.edges) <= MaxEdges
  <2>1. u = s
    BY <1>5, <1>9 DEF LimitFlowTopology
  <2>2. Cardinality(s.nodes) <= Max({MaxNodes, Cardinality(TrackedPods)})
    <3>1. Cardinality(s.nodes) \in Nat /\ Max({MaxNodes, Cardinality(TrackedPods)}) \in Nat
      BY <1>7, <1>8, MaxOfTwo, FS_CardinalityType
    <3>2. QED
      BY <1>7, <1>9, <3>1
  <2>3. QED
    BY <1>4, <1>9, <2>1, <2>2 DEF Closed, E
<1>10. CASE ~(Cardinality(s.nodes) <= MaxNodes /\ Cardinality(DOMAIN s.edges) <= MaxEdges)
  <2>1. PICK edges \in TopEdges(s) : \E keep \in KeepNodes(s, edges) :
          u = [nodes |-> s.nodes \cap keep,
               edges |-> Restrict(s.edges, {k \in edges : Range(k) \subseteq keep})]
    BY <1>5, <1>10 DEF LimitFlowTopology
  <2>2. PICK keep \in KeepNodes(s, edges) :
          u = [nodes |-> s.nodes \cap keep,
               edges |-> Restrict(s.edges, {k \in edges : Range(k) \subseteq keep})]
    BY <2>1
  <2>3. /\ u.nodes = s.nodes \cap keep
        /\ DOMAIN u.edges = {k \in edges : Range(k) \subseteq keep}
    BY <2>2 DEF Restrict
  <2>4. edges \subseteq DOMAIN s.edges /\ IsFiniteSet(edges) /\ Cardinality(edges) <= MaxEdges
    BY <1>6, TopEdgesAre
  <2>5. \A e \in edges : IsFiniteSet(Range(e))
    BY <1>2, <1>4, <2>4
  <2>6. /\ TrackedPods \subseteq keep /\ IsFiniteSet(keep)
        /\ Cardinality(keep) <= Max({MaxNodes, Cardinality(TrackedPods)})
    BY <2>4, <2>5, KeepNodesAre
  <2>7. Cardinality(DOMAIN u.edges) <= MaxEdges
    <3>1. DOMAIN u.edges \in SUBSET edges
      BY <2>3
    <3>2. /\ Cardinality(DOMAIN u.edges) <= Cardinality(edges)
          /\ IsFiniteSet(DOMAIN u.edges)
      BY <2>4, <3>1, FS_Subset
    <3>3. Cardinality(DOMAIN u.edges) \in Nat /\ Cardinality(edges) \in Nat
      BY <2>4, <3>2, FS_CardinalityType
    <3>4. QED
      BY <1>7, <2>4, <3>2, <3>3
  <2>8. Cardinality(u.nodes) <= Max({MaxNodes, Cardinality(TrackedPods)})
    <3>1. u.nodes \in SUBSET keep
      BY <2>3
    <3>2. Cardinality(u.nodes) <= Cardinality(keep) /\ IsFiniteSet(u.nodes)
      BY <2>6, <3>1, FS_Subset
    <3>3. /\ Cardinality(u.nodes) \in Nat /\ Cardinality(keep) \in Nat
          /\ Max({MaxNodes, Cardinality(TrackedPods)}) \in Nat
      BY <1>7, <2>6, <3>2, MaxOfTwo, FS_CardinalityType
    <3>4. QED
      BY <2>6, <3>2, <3>3
  <2>9. \A k \in DOMAIN u.edges : Range(k) \subseteq u.nodes
    BY <1>4, <2>3, <2>4
  <2>10. TrackedPods # {} => \A k \in DOMAIN u.edges : Range(k) \cap TrackedPods # {}
    BY <1>4, <2>3, <2>4
  <2>11. \A n \in TrackedPods : n \in u.nodes <=> \E k \in E : n \in Range(k)
    BY <1>4, <2>3, <2>6
  <2>12. QED
    BY <2>7, <2>8, <2>9, <2>10, <2>11 DEF Closed, E
<1>11. QED
  BY <1>9, <1>10


-----------------------------------------------------------------------------
(* The handler.                                                                *)

\* Everything kept and every snapshot is of packets.
Snapshots ==
  /\ IsFiniteSet(DOMAIN buffers) /\ clock \in Nat
  /\ \A pod \in DOMAIN buffers : buffers[pod] \in Seq(Packet)
  /\ events \in Seq(Packet) /\ sample \in Seq(Packet) /\ todo \in Seq(Packet)

\* Where the handler is with the sample.
Unread == phase \in {"idle", "events"} => topo = EmptyTopology

Aggregating ==
  phase = "aggregate" =>
    LET done == Len(sample) - Len(todo)
    IN /\ done \in Nat
       /\ \A i \in 1..Len(todo) : todo[i] = sample[done + i]
       /\ Accounts(topo, sample, done)

Aggregated ==
  phase = "merge" =>
    Accounts(topo, sample, Len(sample)) /\ DOMAIN details = DOMAIN topo.edges

Replied == phase = "replied" => Closed(topo, sample) /\ DOMAIN details = DOMAIN topo.edges

ViewInv == Snapshots /\ Unread /\ Aggregating /\ Aggregated /\ Replied

\* A snapshot is of packets.
LEMMA EventsNowArePackets ==
  ASSUME Snapshots, NEW evs \in EventsNow
  PROVE  evs \in Seq(Packet)
<1> DEFINE n == Cardinality(DOMAIN buffers)
<1>1. PICK o \in SetToSeqs(DOMAIN buffers) : evs = FlattenSeq([i \in DOMAIN o |-> buffers[o[i]]])
  BY DEF EventsNow
<1>2. n \in Nat
  BY FS_CardinalityType DEF Snapshots
<1>3. o \in [1..n -> DOMAIN buffers]
  BY DEF SetToSeqs
<1>4. [i \in 1..n |-> buffers[o[i]]] \in [1..n -> Seq(Packet)]
  BY <1>3 DEF Snapshots
<1>5. DOMAIN o = 1..n
  BY <1>3
<1>6. [i \in DOMAIN o |-> buffers[o[i]]] \in Seq(Seq(Packet))
  BY <1>2, <1>4, <1>5, SeqOfFcn
<1>7. QED
  BY <1>1, <1>6, FlattenType

\* And so is its sample.
LEMMA SampleIsPackets ==
  ASSUME NEW evs \in Seq(Packet)
  PROVE  SampleEventsForGraph(evs) \in Seq(Packet)
<1> DEFINE first == Max({1, Len(evs) - MaxEvents + 1})
<1>1. MaxEvents \in Nat \ {0} /\ Len(evs) \in Nat
  BY LimitsAssumption
<1>2. first \in 1..(Len(evs) + 1)
  BY <1>1, MaxOfTwo
<1> HIDE DEF first
<1>3. Len(evs) \in (first - 1)..Len(evs)
  BY <1>1, <1>2
<1>4. SubSeq(evs, first, Len(evs)) \in Seq(Packet)
  BY <1>2, <1>3, SubSeqProperties
<1>5. QED
  BY <1>4 DEF SampleEventsForGraph, first

\* The handler starts with nothing read.
LEMMA ViewInit == Init => ViewInv
<1> SUFFICES ASSUME Init PROVE ViewInv
  OBVIOUS
<1>1. DOMAIN <<>> = {} /\ IsFiniteSet({})
  BY FS_EmptySet
<1>2. Snapshots
  BY <1>1 DEF Init, Snapshots
<1>3. QED
  BY <1>2 DEF Init, ViewInv, Unread, Aggregating, Aggregated, Replied

\* A packet and a step of the handler preserve the invariant.
LEMMA ViewStep == ViewInv /\ [Next]_vars => ViewInv'
<1> SUFFICES ASSUME ViewInv, [Next]_vars PROVE ViewInv'
  OBVIOUS
<1> USE DEF ViewInv
<1>1. ASSUME NEW p \in Packets, AppendFlow(p) PROVE ViewInv'
  <2> DEFINE ev == [p EXCEPT !.at = 1 + clock * Gap, !.pkt = clock]
             of(pod) == IF pod \in DOMAIN buffers THEN buffers[pod] ELSE <<>>
  <2>1. p \in Packet /\ clock \in Nat /\ Gap \in Nat
    BY PacketsAssumption, LimitsAssumption DEF Snapshots
  <2>2. 1 + clock * Gap \in Nat
    BY <2>1
  <2>3. ev \in Packet
    <3>1. \A a, b \in Nat : [p EXCEPT !.at = a, !.pkt = b] \in Packet
      BY <2>1 DEF Packet
    <3>2. QED
      BY <2>1, <2>2, <3>1
  <2>4. of(p.pod) \in Seq(Packet)
    BY DEF Snapshots
  <2>5. /\ clock' = clock + 1
        /\ buffers' = [x \in DOMAIN buffers \cup {p.pod} |->
                         IF x = p.pod THEN Append(of(x), ev) ELSE buffers[x]]
        /\ UNCHANGED <<phase, view>>
    BY <1>1 DEF AppendFlow
  <2> HIDE DEF ev, of
  <2>6. Append(of(p.pod), ev) \in Seq(Packet)
    BY <2>3, <2>4
  <2>7. \A pod \in DOMAIN buffers' : buffers'[pod] \in Seq(Packet)
    BY <2>5, <2>6 DEF Snapshots
  <2>8. IsFiniteSet(DOMAIN buffers')
    BY <2>5, FS_AddElement DEF Snapshots
  <2>9. Snapshots'
    <3>1. clock' \in Nat
      BY <2>1, <2>5
    <3>2. UNCHANGED <<events, sample, todo>>
      BY <2>5 DEF view
    <3>3. QED
      BY <2>7, <2>8, <3>1, <3>2 DEF Snapshots
  <2>10. QED
    BY <2>5, <2>9 DEF view, Unread, Aggregating, Aggregated, Replied
<1>2. ASSUME HandleObservability PROVE ViewInv'
  <2>1. events' \in Seq(Packet)
    BY <1>2, EventsNowArePackets DEF HandleObservability
  <2>2. Snapshots'
    BY <1>2, <2>1 DEF HandleObservability, Snapshots
  <2>3. QED
    BY <1>2, <2>2 DEF HandleObservability, Unread, Aggregating, Aggregated, Replied
<1>3. ASSUME BuildBoundedTopology PROVE ViewInv'
  <2>1. sample' \in Seq(Packet) /\ todo' = sample'
    BY <1>3, EventsNowArePackets, SampleIsPackets DEF BuildBoundedTopology
  <2>2. Snapshots'
    BY <1>3, <2>1 DEF BuildBoundedTopology, Snapshots
  <2>3. Aggregating'
    <3>1. Len(sample') \in Nat /\ Len(sample') - Len(todo') = 0
      BY <2>1
    <3>2. topo' = EmptyTopology
      BY <1>3 DEF BuildBoundedTopology, Unread
    <3>3. Accounts(topo', sample', 0)
      BY <3>2, EmptyAccounts
    <3>4. \A i \in 1..Len(todo') : todo'[i] = sample'[0 + i]
      BY <2>1
    <3>5. QED
      BY <3>1, <3>3, <3>4 DEF Aggregating
  <2>4. QED
    BY <1>3, <2>2, <2>3 DEF BuildBoundedTopology, Unread, Aggregated, Replied
<1>4. ASSUME AggregateEvent PROVE ViewInv'
  <2> DEFINE d == Len(sample) - Len(todo)
  <2>1. /\ phase = "aggregate" /\ phase' = "aggregate" /\ todo # <<>>
        /\ topo' = Aggregate(topo, Head(todo)) /\ todo' = Tail(todo)
        /\ UNCHANGED <<buffers, clock, events, sample>>
    BY <1>4 DEF AggregateEvent
  <2>2. sample \in Seq(Packet) /\ todo \in Seq(Packet)
    BY DEF Snapshots
  <2>3. /\ d \in Nat /\ Accounts(topo, sample, d)
        /\ \A i \in 1..Len(todo) : todo[i] = sample[d + i]
    BY <2>1 DEF Aggregating
  <2>4. /\ Len(todo) \in Nat \ {0} /\ Len(sample) \in Nat
        /\ Head(todo) = todo[1] /\ Tail(todo) \in Seq(Packet)
        /\ Len(Tail(todo)) = Len(todo) - 1
        /\ \A i \in 1..Len(Tail(todo)) : Tail(todo)[i] = todo[i+1]
    BY <2>1, <2>2
  <2>5. Head(todo) = sample[d+1] /\ Len(sample') - Len(todo') = d + 1
    BY <2>1, <2>3, <2>4
  <2>6. Accounts(topo', sample, d+1)
    <3>1. d + 1 <= Len(sample)
      BY <2>2, <2>4
    <3>2. Aggregate(topo, sample[d+1]) = topo'
      BY <2>1, <2>5
    <3> HIDE DEF d
    <3>3. Accounts(Aggregate(topo, sample[d+1]), sample, d+1)
      BY <2>2, <2>3, <3>1, AggregateAccounts
    <3>4. QED
      BY <3>2, <3>3
  <2>7. \A i \in 1..Len(todo') : todo'[i] = sample'[d + 1 + i]
    <3> SUFFICES ASSUME NEW i \in 1..Len(todo') PROVE todo'[i] = sample'[d + 1 + i]
      OBVIOUS
    <3>1. i + 1 \in 1..Len(todo) /\ todo'[i] = todo[i+1]
      BY <2>1, <2>4
    <3>2. todo[i+1] = sample[d + (i+1)] /\ d + (i+1) = d + 1 + i
      BY <2>3, <3>1
    <3>3. QED
      BY <2>1, <3>1, <3>2
  <2>8. Aggregating'
    <3>1. /\ Len(sample') - Len(todo') = d + 1 /\ d + 1 \in Nat
          /\ Accounts(topo', sample', d + 1)
      BY <2>1, <2>3, <2>5, <2>6
    <3>2. QED
      BY <2>7, <3>1, Zenon DEF Aggregating
  <2>9. Snapshots'
    BY <2>1, <2>4 DEF Snapshots
  <2>10. QED
    BY <2>1, <2>8, <2>9 DEF Unread, Aggregated, Replied
<1>5. ASSUME FinishTopology PROVE ViewInv'
  <2>1. Accounts(topo, sample, Len(sample))
    <3>1. Len(todo) = 0 /\ Len(sample) \in Nat
      BY <1>5 DEF FinishTopology, Snapshots
    <3>2. Len(sample) - Len(todo) = Len(sample)
      BY <3>1
    <3>3. QED
      BY <1>5, <3>2 DEF FinishTopology, Aggregating
  <2>2. Aggregated'
    BY <1>5, <2>1 DEF FinishTopology, Aggregated
  <2>3. QED
    BY <1>5, <2>2 DEF FinishTopology, Snapshots, Unread, Aggregating, Replied
<1>6. ASSUME NEW k \in unmerged, MergeSequence(k) PROVE ViewInv'
  <2>1. DOMAIN details' = DOMAIN details
    BY <1>6 DEF MergeSequence
  <2>2. QED
    BY <1>6, <2>1 DEF MergeSequence, Snapshots, Unread, Aggregating, Aggregated, Replied
<1>7. ASSUME Reply PROVE ViewInv'
  <2>1. sample \in Seq(Packet) /\ Accounts(topo, sample, Len(sample))
    BY <1>7 DEF Reply, Snapshots, Aggregated
  <2>2. Closed(topo', sample)
    BY <1>7, <2>1, LimitIsClosed DEF Reply
  <2>3. DOMAIN details' = DOMAIN topo'.edges
    BY <1>7 DEF Reply, Restrict
  <2>4. Replied'
    BY <1>7, <2>2, <2>3 DEF Reply, Replied
  <2>5. QED
    BY <1>7, <2>4 DEF Reply, Snapshots, Unread, Aggregating, Aggregated
<1>8. CASE UNCHANGED vars
  BY <1>8 DEF vars, Snapshots, Unread, Aggregating, Aggregated, Replied
<1>9. QED
  BY <1>1, <1>2, <1>3, <1>4, <1>5, <1>6, <1>7, <1>8 DEF Next

\* It holds in every state.
LEMMA ViewInvariant == Spec => []ViewInv
<1>1. QED
  BY ViewInit, ViewStep, PTL DEF Spec

-----------------------------------------------------------------------------
(* What it says to the reader of the reply.                                    *)

\* The failed handshakes of a snapshot are those of its packets.
LEMMA FailedHandshakes == ASSUME ViewInv PROVE HandshakesOrderFree
<1> DEFINE tcp(i) == events[i].proto = "TCP" /\ events[i].len > 0 /\ events[i].sport # 0
           flow(i) == <<events[i].src, events[i].sport, events[i].dst, events[i].dport>>
           back(f) == <<f[3], f[4], f[1], f[2]>>
           syns == {i \in DOMAIN events : tcp(i) /\ "SYN" \in events[i].flags}
           opens == {flow(i) : i \in {j \in syns : "ACK" \notin events[j].flags}}
           answers == {flow(i) : i \in {j \in syns : "ACK" \in events[j].flags}}
           n == Len(events)
<1>1. events \in Seq(Packet) /\ DOMAIN events = 1..n
  BY DEF ViewInv, Snapshots
<1>2. \A i : flow(i) = Flow(events[i]) /\ (Syn(events[i]) <=> tcp(i) /\ "SYN" \in events[i].flags)
  BY DEF Flow, Syn
<1>3. \A f : back(f) = Back(f)
  BY DEF Back
<1> HIDE DEF tcp, flow, back, n
<1>4. opens = Opens(events, n) /\ answers = Answers(events, n)
  <2>1. /\ {j \in syns : "ACK" \notin events[j].flags}
             = {j \in 1..n : Syn(events[j]) /\ "ACK" \notin events[j].flags}
        /\ {j \in syns : "ACK" \in events[j].flags}
             = {j \in 1..n : Syn(events[j]) /\ "ACK" \in events[j].flags}
    BY <1>1, <1>2
  <2>2. QED
    BY <1>2, <2>1 DEF Opens, Answers
<1>5. countFailedTCP(events) =
        Cardinality({f \in Opens(events, n) : f \notin Answers(events, n)
                                              /\ Back(f) \notin Answers(events, n)})
  BY <1>1, FailedIs DEF n
<1> HIDE DEF opens, answers
<1>6. countFailedTCP(events) =
        Cardinality({f \in opens : f \notin answers /\ back(f) \notin answers})
  BY <1>3, <1>4, <1>5
<1>7. QED
  BY <1>6, Zenon DEF HandshakesOrderFree, opens, answers, syns, tcp, flow, back

\* The topology so far is that of the packets so far.
LEMMA EdgesOfTheDone == ASSUME ViewInv PROVE EdgesAccount
<1> SUFFICES ASSUME phase = "aggregate" PROVE EdgesAccount
  BY DEF EdgesAccount
<1> DEFINE d == Len(sample) - Len(todo)
           done == SubSeq(sample, 1, d)
           on(k) == {i \in DOMAIN done : resolveFlowEndpoints(done[i]) = k}
           flows == BuildFlowGraph(done)
<1>1. /\ sample \in Seq(Packet) /\ todo \in Seq(Packet) /\ d \in Nat /\ d <= Len(sample)
      /\ Accounts(topo, sample, d)
  BY DEF ViewInv, Snapshots, Aggregating
<1>2. DOMAIN done = 1..d /\ \A i \in 1..d : done[i] = sample[i]
  BY <1>1
<1> HIDE DEF done, d
<1>3. /\ DOMAIN flows = Ends(sample, d)
      /\ \A k \in Ends(sample, d) : flows[k] = Cardinality(On(sample, d, k))
  <2> DEFINE ends(i) == resolveFlowEndpoints(done[i])
             known == {i \in DOMAIN done : NoNode \notin Range(ends(i))}
  <2>1. known = Known(sample, d) /\ \A i \in 1..d : ends(i) = resolveFlowEndpoints(sample[i])
    BY <1>2 DEF Known
  <2>2. \A i \in Known(sample, d) :
          i \in 1..d /\ NoNode \notin Range(resolveFlowEndpoints(sample[i]))
    BY DEF Known
  <2>3. flows = [k \in {ends(i) : i \in known} |-> Cardinality({i \in known : ends(i) = k})]
    BY DEF BuildFlowGraph
  <2> HIDE DEF flows, known, ends
  <2>4. {ends(i) : i \in known} = Ends(sample, d)
    BY <2>1, <2>2 DEF Ends
  <2>5. ASSUME NEW k \in Ends(sample, d)
        PROVE  {i \in known : ends(i) = k} = On(sample, d, k)
    <3>1. NoNode \notin Range(k)
      BY <2>2 DEF Ends
    <3>2. \A i \in On(sample, d, k) : i \in Known(sample, d)
      BY <3>1 DEF On, Known
    <3>3. QED
      BY <2>1, <2>2, <3>2 DEF On
  <2>6. QED
    BY <2>3, <2>4, <2>5
<1>4. \A k : on(k) = On(sample, d, k)
  BY <1>2 DEF On
<1>5. \A e : edgeHealth(e) = "dropped" <=> e.cause # ""
  BY DEF edgeHealth
<1> HIDE DEF flows
<1>6. /\ DOMAIN topo.edges = Ends(sample, d)
      /\ topo.nodes = UNION {Range(k) : k \in DOMAIN topo.edges}
      /\ \A k \in Ends(sample, d) :
           /\ topo.edges[k].count = Cardinality(On(sample, d, k))
           /\ topo.edges[k].cause # "" <=> \E i \in On(sample, d, k) : Dropped(sample[i])
  BY <1>1 DEF Accounts
<1>7. ASSUME NEW k \in DOMAIN topo.edges
      PROVE  /\ topo.edges[k].count = flows[k]
             /\ edgeHealth(topo.edges[k]) = "dropped" <=>
                  \E i \in on(k) : done[i].dropped \/ done[i].cause # ""
  <2>1. topo.edges[k].count = flows[k]
    BY <1>3, <1>6
  <2>2. \A i \in on(k) : done[i] = sample[i]
    BY <1>2
  <2>3. on(k) = On(sample, d, k)
    BY <1>4
  <2>4. edgeHealth(topo.edges[k]) = "dropped" <=> \E i \in On(sample, d, k) : Dropped(sample[i])
    BY <1>5, <1>6
  <2> HIDE DEF on
  <2>5. QED
    BY <2>1, <2>2, <2>3, <2>4 DEF Dropped
<1>8. DOMAIN topo.edges = DOMAIN flows
  BY <1>3, <1>6
<1>9. QED
  BY <1>6, <1>7, <1>8, Zenon DEF EdgesAccount, done, d, on, flows

\* The reply hangs together.
LEMMA ReplyHangsTogether == ASSUME ViewInv PROVE ViewIsClosed
<1> SUFFICES ASSUME phase = "replied" PROVE ViewIsClosed
  BY DEF ViewIsClosed
<1>1. Closed(topo, sample) /\ DOMAIN details = DOMAIN topo.edges /\ sample \in Seq(Packet)
  BY DEF ViewInv, Replied, Snapshots
<1>2. DOMAIN BuildFlowTopology(sample).edges = Ends(sample, Len(sample))
  BY <1>1, BuildAccounts DEF Accounts
<1>3. QED
  BY <1>1, <1>2 DEF Closed, ViewIsClosed

-----------------------------------------------------------------------------
(* Sums.  SumFunctionOnSet picks the elements in an order of its own: what it  *)
(* adds up to does not depend on it.                                           *)

\* Induction over the subsets of a finite set, with a set for the predicate.
LEMMA InductionOverSubsets ==
  ASSUME NEW S, IsFiniteSet(S), NEW Q, {} \in Q,
         \A T \in SUBSET S : \A x \in S \ T : T \in Q => T \cup {x} \in Q
  PROVE  \A T \in SUBSET S : T \in Q
<1> DEFINE N == {n \in Nat : \A T \in SUBSET S : Cardinality(T) = n => T \in Q}
<1>1. \A T \in SUBSET S : IsFiniteSet(T) /\ Cardinality(T) \in Nat
  BY FS_Subset, FS_CardinalityType
<1>2. 0 \in N
  BY <1>1, FS_EmptySet
<1>3. ASSUME NEW n \in Nat, n \in N PROVE n + 1 \in N
  <2> SUFFICES ASSUME NEW T \in SUBSET S, Cardinality(T) = n + 1 PROVE T \in Q
    OBVIOUS
  <2>1. PICK x \in T : TRUE
    BY <1>1, FS_EmptySet
  <2>2. Cardinality(T \ {x}) = n
    <3>1. IsFiniteSet(T)
      BY <1>1
    <3>2. Cardinality(T \ {x}) = Cardinality(T) - 1
      BY <2>1, <3>1, FS_RemoveElement
    <3>3. QED
      BY <3>2
  <2>3. T \ {x} \in Q
    BY <1>3, <2>2
  <2>4. (T \ {x}) \cup {x} \in Q
    BY <2>3
  <2>5. (T \ {x}) \cup {x} = T
    BY <2>1
  <2>6. QED
    BY <2>4, <2>5
<1> HIDE DEF N
<1>4. Nat \subseteq N
  BY <1>2, <1>3, InductionOverNat
<1>5. QED
  BY <1>1, <1>4 DEF N

\* The function that SumFunctionOnSet computes with, on the sets of n elements
\* at most.
Pick(s) == CHOOSE x \in s : TRUE

Small(S, n) == {s \in SUBSET S : Cardinality(s) <= n}

SumStep(f, w, s) == IF s = {} THEN 0 ELSE w[Pick(s)] + f[s \ {Pick(s)}]

IsSum(f, w, S, n) == f = [s \in Small(S, n) |-> SumStep(f, w, s)]

\* What remains of a set when one is picked is smaller.
LEMMA PickLeaves ==
  ASSUME NEW S, IsFiniteSet(S), NEW s \in SUBSET S, s # {}
  PROVE  /\ Pick(s) \in s /\ s \ {Pick(s)} \in SUBSET S /\ Cardinality(s) \in Nat \ {0}
         /\ Cardinality(s \ {Pick(s)}) = Cardinality(s) - 1
<1>1. Pick(s) \in s
  BY DEF Pick
<1>2. IsFiniteSet(s) /\ Cardinality(s) \in Nat /\ Cardinality(s) # 0
  BY FS_Subset, FS_CardinalityType, FS_EmptySet
<1>3. Cardinality(s \ {Pick(s)}) = Cardinality(s) - 1
  BY <1>1, <1>2, FS_RemoveElement
<1>4. QED
  BY <1>1, <1>2, <1>3

\* The equation of the function, at one set.
LEMMA SumValue ==
  ASSUME NEW f, NEW w, NEW S, NEW n, IsSum(f, w, S, n), NEW s \in Small(S, n)
  PROVE  f[s] = SumStep(f, w, s)
<1> DEFINE e(t) == SumStep(f, w, t)
<1>1. f = [t \in Small(S, n) |-> e(t)]
  BY DEF IsSum
<1>2. f[s] = e(s)
  <2> HIDE DEF e
  <2>1. QED
    BY <1>1
<1>3. QED
  BY <1>2

\* There is such a function for every n.
LEMMA SumExists ==
  ASSUME NEW S, IsFiniteSet(S), NEW w
  PROVE  \A n \in Nat : \E f : IsSum(f, w, S, n)
<1> DEFINE N == {n \in Nat : \E f : IsSum(f, w, S, n)}
<1>1. \A s \in SUBSET S : Cardinality(s) \in Nat /\ (Cardinality(s) = 0 <=> s = {})
  BY FS_Subset, FS_CardinalityType, FS_EmptySet
<1>2. 0 \in N
  <2> DEFINE f == [s \in Small(S, 0) |-> 0]
  <2>1. \A s \in Small(S, 0) : s = {}
    BY <1>1 DEF Small
  <2>2. \A s \in Small(S, 0) : SumStep(f, w, s) = 0
    BY <2>1 DEF SumStep
  <2>3. f = [s \in Small(S, 0) |-> SumStep(f, w, s)]
    BY <2>2
  <2> HIDE DEF f
  <2>4. IsSum(f, w, S, 0)
    BY <2>3 DEF IsSum
  <2>5. QED
    BY <2>4
<1>3. ASSUME NEW n \in Nat, n \in N PROVE n + 1 \in N
  <2>1. PICK f : IsSum(f, w, S, n)
    BY <1>3
  <2> DEFINE ef(s) == IF s \in Small(S, n) THEN f[s] ELSE SumStep(f, w, s)
             g == [s \in Small(S, n + 1) |-> ef(s)]
             eg(s) == SumStep(g, w, s)
  <2>2. \A s \in Small(S, n) : s \in Small(S, n + 1) /\ g[s] = f[s]
    <3>1. \A s \in Small(S, n) : s \in Small(S, n + 1)
      BY <1>1 DEF Small
    <3>2. QED
      BY <3>1
  <2>3. \A s \in Small(S, n + 1) : s # {} => s \ {Pick(s)} \in Small(S, n)
    <3> SUFFICES ASSUME NEW s \in Small(S, n + 1), s # {} PROVE s \ {Pick(s)} \in Small(S, n)
      OBVIOUS
    <3>1. s \in SUBSET S /\ Cardinality(s) <= n + 1
      BY DEF Small
    <3>2. /\ s \ {Pick(s)} \in SUBSET S /\ Cardinality(s) \in Nat
          /\ Cardinality(s \ {Pick(s)}) = Cardinality(s) - 1
      BY <3>1, PickLeaves
    <3>3. QED
      BY <3>1, <3>2 DEF Small
  <2> HIDE DEF g
  <2>4. \A s \in Small(S, n + 1) : SumStep(f, w, s) = SumStep(g, w, s)
    BY <2>2, <2>3 DEF SumStep
  <2>5. \A s \in Small(S, n + 1) : ef(s) = eg(s)
    BY <2>1, <2>4, SumValue
  <2>6. g = [s \in Small(S, n + 1) |-> eg(s)]
    <3>1. g = [s \in Small(S, n + 1) |-> ef(s)]
      BY DEF g
    <3> HIDE DEF ef, eg
    <3>2. QED
      BY <2>5, <3>1
  <2>7. IsSum(g, w, S, n + 1)
    BY <2>6 DEF IsSum
  <2>8. QED
    BY <2>7
<1> HIDE DEF N
<1>4. Nat \subseteq N
  BY <1>2, <1>3, InductionOverNat
<1>5. QED
  BY <1>4 DEF N

\* SumFunctionOnSet is the value of such a function at the whole set.
LEMMA SumIs ==
  ASSUME NEW S, IsFiniteSet(S), NEW w
  PROVE  \E f : IsSum(f, w, S, Cardinality(S)) /\ SumFunctionOnSet(w, S) = f[S]
<1> DEFINE P(f) == f = [s \in SUBSET S |-> IF s = {} THEN 0
                          ELSE w[CHOOSE x \in s : TRUE] + f[s \ {CHOOSE x \in s : TRUE}]]
           f == CHOOSE f : P(f)
           n == Cardinality(S)
<1>1. n \in Nat /\ Small(S, n) = SUBSET S
  BY FS_CardinalityType, FS_Subset DEF Small
<1>2. \A g : P(g) <=> IsSum(g, w, S, n)
  BY <1>1 DEF IsSum, SumStep, Pick
<1>3. IsSum(f, w, S, n)
  <2> HIDE DEF P
  <2>1. \E g : P(g)
    <3>1. PICK g : IsSum(g, w, S, n)
      BY <1>1, SumExists
    <3>2. QED
      BY <1>2, <3>1
  <2>2. P(f)
    BY <2>1
  <2>3. QED
    BY <1>2, <2>2
<1>4. SumFunctionOnSet(w, S) = f[S]
  BY DEF SumFunctionOnSet, FoldFunctionOnSet, MapThenFoldSet
<1>5. QED
  BY <1>3, <1>4

\* Two such functions agree where their weights do.
LEMMA SumsAgree ==
  ASSUME NEW S, IsFiniteSet(S), NEW S2, IsFiniteSet(S2), NEW w, NEW w2, NEW f, NEW f2,
         IsSum(f, w, S, Cardinality(S)), IsSum(f2, w2, S2, Cardinality(S2)),
         NEW T \in SUBSET (S \cap S2), \A x \in T : w[x] = w2[x]
  PROVE  f[T] = f2[T]
<1> DEFINE N == {n \in Nat : \A R \in SUBSET T : Cardinality(R) = n => f[R] = f2[R]}
<1>1. IsFiniteSet(T) /\ \A R \in SUBSET T : IsFiniteSet(R) /\ Cardinality(R) \in Nat
  BY FS_Subset, FS_CardinalityType
<1>2. \A R \in SUBSET T : f[R] = SumStep(f, w, R) /\ f2[R] = SumStep(f2, w2, R)
  <2>1. \A R \in SUBSET T : R \in Small(S, Cardinality(S)) /\ R \in Small(S2, Cardinality(S2))
    BY FS_Subset DEF Small
  <2>2. QED
    BY <2>1, SumValue
<1>3. 0 \in N
  BY <1>1, <1>2, FS_EmptySet DEF SumStep
<1>4. ASSUME NEW n \in Nat, n \in N PROVE n + 1 \in N
  <2> SUFFICES ASSUME NEW R \in SUBSET T, Cardinality(R) = n + 1 PROVE f[R] = f2[R]
    OBVIOUS
  <2>1. R # {}
    BY FS_EmptySet
  <2>2. Pick(R) \in R /\ R \ {Pick(R)} \in SUBSET T /\ Cardinality(R \ {Pick(R)}) = n
    BY <1>1, <2>1, PickLeaves
  <2>3. f[R \ {Pick(R)}] = f2[R \ {Pick(R)}] /\ w[Pick(R)] = w2[Pick(R)]
    BY <1>4, <2>2
  <2>4. QED
    BY <1>2, <2>1, <2>3 DEF SumStep
<1> HIDE DEF N
<1>5. Nat \subseteq N
  BY <1>3, <1>4, InductionOverNat
<1>6. QED
  BY <1>1, <1>5 DEF N

\* A sum depends only on the weights of its elements.
LEMMA SumAgrees ==
  ASSUME NEW S, IsFiniteSet(S), NEW w, NEW w2, \A x \in S : w[x] = w2[x]
  PROVE  SumFunctionOnSet(w, S) = SumFunctionOnSet(w2, S)
<1>1. PICK f : IsSum(f, w, S, Cardinality(S)) /\ SumFunctionOnSet(w, S) = f[S]
  BY SumIs
<1>2. PICK f2 : IsSum(f2, w2, S, Cardinality(S)) /\ SumFunctionOnSet(w2, S) = f2[S]
  BY SumIs
<1>3. S \in SUBSET (S \cap S)
  OBVIOUS
<1>4. f[S] = f2[S]
  BY <1>1, <1>2, <1>3, SumsAgree
<1>5. QED
  BY <1>1, <1>2, <1>4

\* The element that is picked first.
LEMMA SumUnfolds ==
  ASSUME NEW S, IsFiniteSet(S), NEW w
  PROVE  SumFunctionOnSet(w, S) =
           IF S = {} THEN 0 ELSE w[Pick(S)] + SumFunctionOnSet(w, S \ {Pick(S)})
<1>1. PICK f : IsSum(f, w, S, Cardinality(S)) /\ SumFunctionOnSet(w, S) = f[S]
  BY SumIs
<1>2. S \in Small(S, Cardinality(S))
  BY FS_CardinalityType DEF Small
<1>3. f[S] = SumStep(f, w, S)
  BY <1>1, <1>2, SumValue
<1>4. SumFunctionOnSet(w, S \ {Pick(S)}) = f[S \ {Pick(S)}]
  <2> DEFINE R == S \ {Pick(S)}
  <2>1. IsFiniteSet(R) /\ R \in SUBSET (R \cap S)
    BY FS_Subset
  <2> HIDE DEF R
  <2>2. PICK g : IsSum(g, w, R, Cardinality(R)) /\ SumFunctionOnSet(w, R) = g[R]
    BY <2>1, SumIs
  <2>3. g[R] = f[R]
    BY <1>1, <2>1, <2>2, SumsAgree
  <2>4. QED
    BY <2>2, <2>3 DEF R
<1>5. QED
  BY <1>1, <1>3, <1>4 DEF SumStep

\* A sum of natural numbers is one.
LEMMA SumIsNat ==
  ASSUME NEW S, IsFiniteSet(S), NEW w, \A x \in S : w[x] \in Nat
  PROVE  SumFunctionOnSet(w, S) \in Nat
<1> DEFINE N == {n \in Nat : \A R \in SUBSET S : Cardinality(R) = n => SumFunctionOnSet(w, R) \in Nat}
<1>1. \A R \in SUBSET S : IsFiniteSet(R) /\ Cardinality(R) \in Nat
  BY FS_Subset, FS_CardinalityType
<1>2. 0 \in N
  BY <1>1, FS_EmptySet, SumUnfolds
<1>3. ASSUME NEW n \in Nat, n \in N PROVE n + 1 \in N
  <2> SUFFICES ASSUME NEW R \in SUBSET S, Cardinality(R) = n + 1 PROVE SumFunctionOnSet(w, R) \in Nat
    OBVIOUS
  <2>1. R # {} /\ IsFiniteSet(R)
    BY <1>1, FS_EmptySet
  <2>2. Pick(R) \in R /\ R \ {Pick(R)} \in SUBSET S /\ Cardinality(R \ {Pick(R)}) = n
    BY <2>1, PickLeaves
  <2>3. SumFunctionOnSet(w, R \ {Pick(R)}) \in Nat /\ w[Pick(R)] \in Nat
    BY <1>3, <2>2
  <2>4. SumFunctionOnSet(w, R) = w[Pick(R)] + SumFunctionOnSet(w, R \ {Pick(R)})
    BY <2>1, SumUnfolds
  <2>5. QED
    BY <2>3, <2>4
<1> HIDE DEF N
<1>4. Nat \subseteq N
  BY <1>2, <1>3, InductionOverNat
<1>5. QED
  BY <1>1, <1>4 DEF N

\* One element more, whichever is picked first.
LEMMA SumAdds ==
  ASSUME NEW S, IsFiniteSet(S), NEW w, \A x \in S : w[x] \in Nat,
         NEW T \in SUBSET S, NEW x \in S \ T
  PROVE  SumFunctionOnSet(w, T \cup {x}) = w[x] + SumFunctionOnSet(w, T)
<1> DEFINE Adds(R, y) == SumFunctionOnSet(w, R \cup {y}) = w[y] + SumFunctionOnSet(w, R)
           N == {n \in Nat : \A R \in SUBSET S : \A y \in S \ R : Cardinality(R) = n => Adds(R, y)}
<1>1. \A R \in SUBSET S : /\ IsFiniteSet(R) /\ Cardinality(R) \in Nat
                          /\ SumFunctionOnSet(w, R) \in Nat
  BY FS_Subset, FS_CardinalityType, SumIsNat
<1>2. ASSUME NEW R \in SUBSET S, NEW y \in S \ R, Pick(R \cup {y}) = y PROVE Adds(R, y)
  <2>1. R \cup {y} # {} /\ IsFiniteSet(R \cup {y}) /\ (R \cup {y}) \ {y} = R
    BY <1>1, FS_AddElement
  <2>2. QED
    BY <1>2, <2>1, SumUnfolds
<1>3. \A R \in SUBSET S : \A y \in S \ R : Pick(R \cup {y}) \in R \cup {y}
  BY DEF Pick
<1>4. 0 \in N
  <2> SUFFICES ASSUME NEW R \in SUBSET S, NEW y \in S \ R, Cardinality(R) = 0 PROVE Adds(R, y)
    BY Zenon
  <2>1. R = {}
    BY <1>1, FS_EmptySet
  <2>2. Pick(R \cup {y}) = y
    BY <1>3, <2>1
  <2>3. QED
    BY <1>2, <2>2
<1>5. ASSUME NEW n \in Nat, n \in N PROVE n + 1 \in N
  <2> HIDE DEF Adds
  <2> SUFFICES ASSUME NEW R \in SUBSET S, NEW y \in S \ R, Cardinality(R) = n + 1 PROVE Adds(R, y)
    BY SMT
  <2> USE DEF Adds
  <2> DEFINE c == Pick(R \cup {y})
             Q == R \ {c}
  <2>1. CASE c = y
    BY <1>2, <2>1
  <2>2. CASE c # y
    <3>1. c \in R /\ Q \in SUBSET S /\ c \in S \ Q /\ y \in S \ Q /\ y # c
      BY <1>3, <2>2
    <3>2. Cardinality(Q) = n
      <4>1. IsFiniteSet(R)
        BY <1>1
      <4>2. c \in R
        BY <3>1
      <4> HIDE DEF c, Adds
      <4>3. Cardinality(R \ {c}) = Cardinality(R) - 1
        BY <4>1, <4>2, FS_RemoveElement
      <4>4. QED
        BY <4>3
    <3>3. R \cup {y} # {} /\ IsFiniteSet(R \cup {y})
      BY <1>1, FS_AddElement
    <3>4. (R \cup {y}) \ {c} = Q \cup {y} /\ Q \cup {c} = R
      BY <3>1
    <3>5. Adds(Q, c) /\ Adds(Q, y)
      <4> HIDE DEF Q, c, Adds
      <4>1. QED
        BY <1>5, <3>1, <3>2
    <3>6. SumFunctionOnSet(w, R \cup {y}) = w[c] + SumFunctionOnSet(w, (R \cup {y}) \ {c})
      BY <3>3, SumUnfolds
    <3>7. w[c] \in Nat /\ w[y] \in Nat /\ SumFunctionOnSet(w, Q) \in Nat
      BY <1>1, <3>1
    <3> HIDE DEF Q, c
    <3>8. QED
      BY <3>4, <3>5, <3>6, <3>7
  <2>3. QED
    BY <2>1, <2>2
<1> HIDE DEF N, Adds
<1>6. Nat \subseteq N
  BY <1>4, <1>5, InductionOverNat
<1>7. Adds(T, x)
  BY <1>1, <1>6 DEF N
<1>8. QED
  BY <1>7 DEF Adds

\* No element, or none with a weight.
LEMMA SumOfNone == ASSUME NEW w PROVE SumFunctionOnSet(w, {}) = 0
BY FS_EmptySet, SumUnfolds

LEMMA SumOfZeros ==
  ASSUME NEW S, IsFiniteSet(S), NEW w, \A x \in S : w[x] = 0
  PROVE  SumFunctionOnSet(w, S) = 0
<1> DEFINE Q == {T \in SUBSET S : SumFunctionOnSet(w, T) = 0}
<1>1. {} \in Q
  BY SumOfNone
<1>2. \A T \in SUBSET S : \A x \in S \ T : T \in Q => T \cup {x} \in Q
  <2> SUFFICES ASSUME NEW T \in SUBSET S, NEW x \in S \ T, T \in Q PROVE T \cup {x} \in Q
    OBVIOUS
  <2>1. SumFunctionOnSet(w, T \cup {x}) = w[x] + SumFunctionOnSet(w, T)
    BY SumAdds
  <2>2. QED
    BY <2>1
<1> HIDE DEF Q
<1>3. S \in Q
  BY <1>1, <1>2, InductionOverSubsets
<1>4. QED
  BY <1>3 DEF Q

\* The weight of one element is raised.
LEMMA SumRises ==
  ASSUME NEW S, IsFiniteSet(S), NEW w, NEW w2, \A x \in S : w[x] \in Nat,
         NEW v \in S, NEW c \in Nat, w2[v] = w[v] + c, \A x \in S \ {v} : w2[x] = w[x]
  PROVE  SumFunctionOnSet(w2, S) = SumFunctionOnSet(w, S) + c
<1> DEFINE R == S \ {v}
<1>1. IsFiniteSet(R) /\ R \in SUBSET S /\ v \in S \ R /\ R \cup {v} = S
  BY FS_Subset
<1>2. \A x \in R : w2[x] = w[x]
  OBVIOUS
<1>3. \A x \in S : w2[x] \in Nat
  OBVIOUS
<1> HIDE DEF R
<1>4. SumFunctionOnSet(w2, R) = SumFunctionOnSet(w, R)
  BY <1>1, <1>2, SumAgrees
<1>5. SumFunctionOnSet(w, R) \in Nat
  BY <1>1, SumIsNat
<1>6. SumFunctionOnSet(w, R \cup {v}) = w[v] + SumFunctionOnSet(w, R)
  BY <1>1, SumAdds
<1>7. SumFunctionOnSet(w2, R \cup {v}) = w2[v] + SumFunctionOnSet(w2, R)
  BY <1>1, <1>3, SumAdds
<1>8. w[v] \in Nat
  OBVIOUS
<1>9. QED
  BY <1>1, <1>4, <1>5, <1>6, <1>7, <1>8

\* A part sums to no more than the whole.
LEMMA SumOfPart ==
  ASSUME NEW S, IsFiniteSet(S), NEW w, \A x \in S : w[x] \in Nat, NEW R \in SUBSET S
  PROVE  SumFunctionOnSet(w, R) <= SumFunctionOnSet(w, S)
<1> DEFINE Q == {T \in SUBSET S : SumFunctionOnSet(w, R) <= SumFunctionOnSet(w, R \cup T)}
<1>1. \A T \in SUBSET S : SumFunctionOnSet(w, T) \in Nat
  BY FS_Subset, SumIsNat
<1>2. {} \in Q
  <2>1. R \cup {} = R
    OBVIOUS
  <2>2. QED
    BY <1>1, <2>1
<1>3. \A T \in SUBSET S : \A x \in S \ T : T \in Q => T \cup {x} \in Q
  <2> SUFFICES ASSUME NEW T \in SUBSET S, NEW x \in S \ T, T \in Q PROVE T \cup {x} \in Q
    OBVIOUS
  <2>1. CASE x \in R
    <3>1. R \cup (T \cup {x}) = R \cup T
      BY <2>1
    <3>2. QED
      BY <3>1
  <2>2. CASE x \notin R
    <3> DEFINE U == R \cup T
    <3>1. U \in SUBSET S /\ x \in S \ U /\ R \cup (T \cup {x}) = U \cup {x}
      BY <2>2
    <3> HIDE DEF U
    <3>2. SumFunctionOnSet(w, U \cup {x}) = w[x] + SumFunctionOnSet(w, U)
      BY <3>1, SumAdds
    <3>3. SumFunctionOnSet(w, R) <= SumFunctionOnSet(w, U)
      BY DEF U
    <3>4. w[x] \in Nat /\ SumFunctionOnSet(w, U) \in Nat /\ SumFunctionOnSet(w, R) \in Nat
      BY <1>1, <3>1
    <3>5. SumFunctionOnSet(w, R) <= SumFunctionOnSet(w, U \cup {x})
      BY <3>2, <3>3, <3>4
    <3>6. QED
      BY <3>1, <3>5
  <2>3. QED
    BY <2>1, <2>2
<1> HIDE DEF Q
<1>4. S \in Q
  BY <1>2, <1>3, InductionOverSubsets
<1>5. R \cup S = S
  OBVIOUS
<1>6. QED
  BY <1>4, <1>5 DEF Q

\* What is summed over a set may be summed over its image instead.
LEMMA SumOfImage ==
  ASSUME NEW S, IsFiniteSet(S), NEW w, \A x \in S : w[x] \in Nat,
         NEW f, \A x, y \in S : f[x] = f[y] => x = y,
         NEW w2, \A x \in S : w2[f[x]] = w[x]
  PROVE  /\ IsFiniteSet({f[x] : x \in S})
         /\ SumFunctionOnSet(w2, {f[x] : x \in S}) = SumFunctionOnSet(w, S)
<1> DEFINE Im(T) == {f[x] : x \in T}
           Q == {T \in SUBSET S : IsFiniteSet(Im(T)) /\ SumFunctionOnSet(w2, Im(T)) = SumFunctionOnSet(w, T)}
<1>1. {} \in Q
  <2>1. Im({}) = {}
    OBVIOUS
  <2>2. QED
    BY <2>1, FS_EmptySet, SumOfNone
<1>2. \A T \in SUBSET S : \A x \in S \ T : T \in Q => T \cup {x} \in Q
  <2> SUFFICES ASSUME NEW T \in SUBSET S, NEW x \in S \ T, T \in Q PROVE T \cup {x} \in Q
    OBVIOUS
  <2>1. Im(T \cup {x}) = Im(T) \cup {f[x]} /\ f[x] \notin Im(T)
    OBVIOUS
  <2>2. \A y \in Im(T \cup {x}) : w2[y] \in Nat
    OBVIOUS
  <2>3. IsFiniteSet(Im(T)) /\ SumFunctionOnSet(w2, Im(T)) = SumFunctionOnSet(w, T)
    OBVIOUS
  <2> DEFINE I == Im(T)
             J == Im(T \cup {x})
             y == f[x]
  <2>4. w2[y] = w[x]
    OBVIOUS
  <2> HIDE DEF I, J, y
  <2>5. I \in SUBSET J /\ y \in J \ I /\ J = I \cup {y} /\ IsFiniteSet(I)
    BY <2>1, <2>3 DEF I, J, y
  <2>6. IsFiniteSet(J)
    BY <2>5, FS_AddElement
  <2>7. \A z \in J : w2[z] \in Nat
    BY <2>2 DEF J
  <2>8. SumFunctionOnSet(w2, I \cup {y}) = w2[y] + SumFunctionOnSet(w2, I)
    BY <2>5, <2>6, <2>7, SumAdds
  <2>9. SumFunctionOnSet(w, T \cup {x}) = w[x] + SumFunctionOnSet(w, T)
    BY SumAdds
  <2>10. SumFunctionOnSet(w2, J) = SumFunctionOnSet(w, T \cup {x})
    BY <2>3, <2>4, <2>5, <2>8, <2>9 DEF I
  <2>11. QED
    BY <2>6, <2>10 DEF J
<1> HIDE DEF Q
<1>3. S \in Q
  BY <1>1, <1>2, InductionOverSubsets
<1>4. QED
  BY <1>3 DEF Q

\* A sum of ones counts.
LEMMA SumOfOnes ==
  ASSUME NEW S, IsFiniteSet(S), NEW w, \A x \in S : w[x] = 1
  PROVE  SumFunctionOnSet(w, S) = Cardinality(S)
<1> DEFINE Q == {T \in SUBSET S : SumFunctionOnSet(w, T) = Cardinality(T)}
<1>1. {} \in Q
  BY SumOfNone, FS_EmptySet
<1>2. \A T \in SUBSET S : \A x \in S \ T : T \in Q => T \cup {x} \in Q
  <2> SUFFICES ASSUME NEW T \in SUBSET S, NEW x \in S \ T, T \in Q PROVE T \cup {x} \in Q
    OBVIOUS
  <2>1. SumFunctionOnSet(w, T \cup {x}) = w[x] + SumFunctionOnSet(w, T)
    BY SumAdds
  <2>2. IsFiniteSet(T) /\ Cardinality(T) \in Nat
    BY FS_Subset, FS_CardinalityType
  <2>3. Cardinality(T \cup {x}) = Cardinality(T) + 1
    BY <2>2, FS_AddElement
  <2>4. w[x] = 1 /\ SumFunctionOnSet(w, T) = Cardinality(T)
    OBVIOUS
  <2>5. QED
    BY <2>1, <2>2, <2>3, <2>4
<1> HIDE DEF Q
<1>3. S \in Q
  BY <1>1, <1>2, InductionOverSubsets
<1>4. QED
  BY <1>3 DEF Q

\* The sums of the elements with one value each, over all values, sum all.
Fibre(of, T, v) == {x \in T : of[x] = v}

LEMMA SumOfFibres ==
  ASSUME NEW S, IsFiniteSet(S), NEW w, \A x \in S : w[x] \in Nat,
         NEW of, NEW V, IsFiniteSet(V), \A x \in S : of[x] \in V,
         NEW h, \A v \in V : h[v] = SumFunctionOnSet(w, Fibre(of, S, v))
  PROVE  SumFunctionOnSet(h, V) = SumFunctionOnSet(w, S)
<1> DEFINE sums(T) == [v \in V |-> SumFunctionOnSet(w, Fibre(of, T, v))]
           Q == {T \in SUBSET S : SumFunctionOnSet(sums(T), V) = SumFunctionOnSet(w, T)}
<1>1. {} \in Q
  <2>1. \A v \in V : Fibre(of, {}, v) = {}
    BY DEF Fibre
  <2>2. \A v \in V : sums({})[v] = 0
    BY <2>1, SumOfNone
  <2> HIDE DEF sums
  <2>3. SumFunctionOnSet(sums({}), V) = 0
    BY <2>2, SumOfZeros
  <2>4. QED
    BY <2>3, SumOfNone
<1>2. \A T \in SUBSET S : \A x \in S \ T : T \in Q => T \cup {x} \in Q
  <2> SUFFICES ASSUME NEW T \in SUBSET S, NEW x \in S \ T, T \in Q PROVE T \cup {x} \in Q
    OBVIOUS
  <2> DEFINE a == of[x]
             A == Fibre(of, T, a)
             old == sums(T)
             new == sums(T \cup {x})
  <2>1. A \in SUBSET S /\ x \in S \ A /\ Fibre(of, T \cup {x}, a) = A \cup {x}
    BY DEF Fibre
  <2>2. \A v \in V \ {a} : Fibre(of, T \cup {x}, v) = Fibre(of, T, v)
    BY DEF Fibre
  <2>3. \A v \in V : Fibre(of, T, v) \in SUBSET S
    BY DEF Fibre
  <2>4. \A v \in V : SumFunctionOnSet(w, Fibre(of, T, v)) \in Nat
    BY <2>3, FS_Subset, SumIsNat
  <2> HIDE DEF A
  <2>5. SumFunctionOnSet(w, A \cup {x}) = w[x] + SumFunctionOnSet(w, A)
    BY <2>1, SumAdds
  <2>6. a \in V /\ w[x] \in Nat
    OBVIOUS
  <2>7. old[a] = SumFunctionOnSet(w, A) /\ new[a] = SumFunctionOnSet(w, A \cup {x})
    BY <2>1, <2>6 DEF A
  <2>8. \A v \in V \ {a} : new[v] = old[v]
    BY <2>2
  <2>9. \A v \in V : old[v] \in Nat
    BY <2>4
  <2>10. SumFunctionOnSet(old, V) = SumFunctionOnSet(w, T)
    OBVIOUS
  <2> HIDE DEF old, new, sums, a
  <2>11. new[a] = old[a] + w[x]
    BY <2>5, <2>6, <2>7, <2>9
  <2>12. SumFunctionOnSet(new, V) = SumFunctionOnSet(old, V) + w[x]
    BY <2>6, <2>8, <2>9, <2>11, SumRises
  <2>13. SumFunctionOnSet(w, T \cup {x}) = w[x] + SumFunctionOnSet(w, T)
    BY SumAdds
  <2>14. SumFunctionOnSet(w, T) \in Nat
    BY FS_Subset, SumIsNat
  <2>15. SumFunctionOnSet(new, V) = SumFunctionOnSet(w, T \cup {x})
    BY <2>6, <2>10, <2>12, <2>13, <2>14
  <2>16. QED
    BY <2>15 DEF new
<1>3. \A v \in V : sums(S)[v] = h[v]
  OBVIOUS
<1> HIDE DEF Q, sums
<1>4. S \in Q
  BY <1>1, <1>2, InductionOverSubsets
<1>5. SumFunctionOnSet(sums(S), V) = SumFunctionOnSet(h, V)
  BY <1>3, SumAgrees
<1>6. QED
  BY <1>4, <1>5 DEF Q

-----------------------------------------------------------------------------
(* A packet is known by its number: no buffer and no snapshot has two of one.  *)

Keyed(evs) == \A i, j \in 1..Len(evs) : evs[i].pkt = evs[j].pkt => i = j

\* No two of the sequences share a packet.
Apart(s) ==
  \A i, j \in 1..Len(s) : \A x \in 1..Len(s[i]), y \in 1..Len(s[j]) :
    s[i][x].pkt = s[j][y].pkt => i = j /\ x = y

\* Every element is one of the first n sequences.
Among(evs, s, n) ==
  \A x \in 1..Len(evs) : \E i \in 1..n : \E y \in 1..Len(s[i]) : evs[x] = s[i][y]

\* The elements of two sequences, one after the other.
LEMMA ConcatAt ==
  ASSUME NEW T, NEW a \in Seq(T), NEW b \in Seq(T), NEW x \in 1..Len(a \o b)
  PROVE  \/ x \in 1..Len(a) /\ (a \o b)[x] = a[x]
         \/ x - Len(a) \in 1..Len(b) /\ (a \o b)[x] = b[x - Len(a)]
<1>1. Len(a \o b) = Len(a) + Len(b) /\ Len(a) \in Nat /\ Len(b) \in Nat
  BY ConcatProperties
<1>2. \A i \in 1..(Len(a) + Len(b)) : (a \o b)[i] = IF i <= Len(a) THEN a[i] ELSE b[i - Len(a)]
  BY ConcatProperties
<1>3. x \in 1..(Len(a) + Len(b))
  BY <1>1
<1>4. QED
  BY <1>1, <1>2, <1>3

\* Flattening such sequences repeats no packet and brings in no other.
LEMMA FlattenKeeps ==
  ASSUME NEW T, NEW s \in Seq(Seq(T)), Apart(s)
  PROVE  Keyed(FlattenSeq(s)) /\ Among(FlattenSeq(s), s, Len(s))
<1>1. CASE Len(s) = 0
  <2>1. FlattenSeq(s) = <<>>
    BY <1>1 DEF FlattenSeq
  <2>2. QED
    BY <2>1 DEF Keyed, Among
<1>2. CASE Len(s) # 0
  <2>1. PICK f : IsFlat(f, s, Len(s)) /\ FlattenSeq(s) = f[Len(s)]
    BY <1>2, FlattenIs
  <2> DEFINE Good(k) == f[k] \in Seq(T) /\ Keyed(f[k]) /\ Among(f[k], s, k)
             S == {k \in Nat : k # 0 /\ k \in 1..Len(s) => Good(k)}
  <2>2. 0 \in S
    OBVIOUS
  <2>3. ASSUME NEW k \in Nat, k \in S PROVE k + 1 \in S
    <3> SUFFICES ASSUME k + 1 \in 1..Len(s) PROVE Good(k + 1)
      OBVIOUS
    <3>1. s[k+1] \in Seq(T)
      OBVIOUS
    <3>2. CASE k = 0
      <4>1. f[1] = s[1] /\ 1 \in 1..Len(s)
        BY <2>1, <1>2, FlatFirst
      <4>2. Keyed(s[1])
        BY <4>1 DEF Apart, Keyed
      <4>3. Among(s[1], s, 1)
        BY DEF Among
      <4>4. QED
        BY <3>1, <3>2, <4>1, <4>2, <4>3
    <3>3. CASE k # 0
      <4> DEFINE a == f[k]
                 b == s[k+1]
      <4>1. f[k+1] = a \o b
        BY <2>1, <3>3, Len(s) \in Nat, FlatNext, Zenon
      <4>2. a \in Seq(T) /\ Keyed(a) /\ Among(a, s, k)
        BY <2>3, <3>3
      <4>3. b \in Seq(T)
        BY <3>1
      <4>4. \A i \in 1..k : i \in 1..Len(s) /\ i # k + 1
        OBVIOUS
      <4>5. \A x \in 1..Len(a), y \in 1..Len(b) : a[x].pkt # b[y].pkt
        <5> SUFFICES ASSUME NEW x \in 1..Len(a), NEW y \in 1..Len(b), a[x].pkt = b[y].pkt PROVE FALSE
          OBVIOUS
        <5>1. PICK i \in 1..k : \E z \in 1..Len(s[i]) : a[x] = s[i][z]
          BY <4>2 DEF Among
        <5>2. PICK z \in 1..Len(s[i]) : a[x] = s[i][z]
          BY <5>1
        <5>3. QED
          BY <4>4, <5>2 DEF Apart
      <4>6. \A x, y \in 1..Len(b) : b[x].pkt = b[y].pkt => x = y
        BY DEF Apart
      <4> HIDE DEF a, b, Good
      <4>7. Keyed(a \o b)
        <5> SUFFICES ASSUME NEW x \in 1..Len(a \o b), NEW y \in 1..Len(a \o b),
                            (a \o b)[x].pkt = (a \o b)[y].pkt
                     PROVE  x = y
          BY DEF Keyed
        <5>1. \/ x \in 1..Len(a) /\ (a \o b)[x] = a[x]
              \/ x - Len(a) \in 1..Len(b) /\ (a \o b)[x] = b[x - Len(a)]
          BY <4>2, <4>3, ConcatAt
        <5>2. \/ y \in 1..Len(a) /\ (a \o b)[y] = a[y]
              \/ y - Len(a) \in 1..Len(b) /\ (a \o b)[y] = b[y - Len(a)]
          BY <4>2, <4>3, ConcatAt
        <5>3. Len(a) \in Nat /\ Len(a \o b) \in Nat
          BY <4>2, <4>3, ConcatProperties
        <5>4. CASE x \in 1..Len(a) /\ (a \o b)[x] = a[x]
          BY <4>2, <4>5, <5>2, <5>4 DEF Keyed
        <5>5. CASE x - Len(a) \in 1..Len(b) /\ (a \o b)[x] = b[x - Len(a)]
          <6>1. CASE y \in 1..Len(a) /\ (a \o b)[y] = a[y]
            BY <4>5, <5>5, <6>1
          <6>2. CASE y - Len(a) \in 1..Len(b) /\ (a \o b)[y] = b[y - Len(a)]
            <7>1. x - Len(a) = y - Len(a)
              BY <4>6, <5>5, <6>2
            <7>2. QED
              BY <5>3, <7>1
          <6>3. QED
            BY <5>2, <6>1, <6>2
        <5>6. QED
          BY <5>1, <5>4, <5>5
      <4>8. Among(a \o b, s, k + 1)
        <5> SUFFICES ASSUME NEW x \in 1..Len(a \o b)
                     PROVE  \E i \in 1..(k+1) : \E y \in 1..Len(s[i]) : (a \o b)[x] = s[i][y]
          BY DEF Among
        <5>1. \/ x \in 1..Len(a) /\ (a \o b)[x] = a[x]
              \/ x - Len(a) \in 1..Len(b) /\ (a \o b)[x] = b[x - Len(a)]
          BY <4>2, <4>3, ConcatAt
        <5>2. \A i \in 1..k : i \in 1..(k+1)
          OBVIOUS
        <5>3. CASE x \in 1..Len(a) /\ (a \o b)[x] = a[x]
          BY <4>2, <5>2, <5>3 DEF Among
        <5>4. CASE x - Len(a) \in 1..Len(b) /\ (a \o b)[x] = b[x - Len(a)]
          <6>1. k + 1 \in 1..(k+1)
            OBVIOUS
          <6>2. QED
            BY <5>4, <6>1 DEF b
        <5>5. QED
          BY <5>1, <5>3, <5>4
      <4>9. a \o b \in Seq(T)
        BY <4>2, <4>3, ConcatProperties
      <4>10. QED
        BY <4>1, <4>7, <4>8, <4>9 DEF Good
    <3>4. QED
      BY <3>2, <3>3
  <2> HIDE DEF S
  <2>4. Nat \subseteq S
    BY <2>2, <2>3, InductionOverNat
  <2>5. Len(s) \in Nat /\ Len(s) \in 1..Len(s)
    BY <1>2
  <2>6. QED
    BY <1>2, <2>1, <2>4, <2>5 DEF S
<1>3. QED
  BY <1>1, <1>2

\* What the buffers hold: packets stamped before, each once.
Logged ==
  /\ \A pod \in DOMAIN buffers : \A i \in 1..Len(buffers[pod]) : buffers[pod][i].pkt \in 0..(clock - 1)
  /\ \A p, q \in DOMAIN buffers : \A i \in 1..Len(buffers[p]), j \in 1..Len(buffers[q]) :
       buffers[p][i].pkt = buffers[q][j].pkt => p = q /\ i = j

\* A snapshot holds packets that are in the buffers.
Buffered(evs) ==
  \A x \in 1..Len(evs) : \E pod \in DOMAIN buffers : \E i \in 1..Len(buffers[pod]) :
    evs[x] = buffers[pod][i]

KeyInv ==
  /\ Logged
  /\ Keyed(events) /\ Buffered(events) /\ Keyed(sample) /\ Buffered(sample)

\* A snapshot has each packet of the buffers once.
LEMMA EventsNowAreKeyed ==
  ASSUME Snapshots, Logged, NEW evs \in EventsNow
  PROVE  Keyed(evs) /\ Buffered(evs)
<1> DEFINE n == Cardinality(DOMAIN buffers)
<1>1. PICK o \in SetToSeqs(DOMAIN buffers) : evs = FlattenSeq([i \in DOMAIN o |-> buffers[o[i]]])
  BY DEF EventsNow
<1> DEFINE s == [i \in DOMAIN o |-> buffers[o[i]]]
<1>2. n \in Nat
  BY FS_CardinalityType DEF Snapshots
<1>3. o \in [1..n -> DOMAIN buffers] /\ \A i, j \in 1..n : o[i] = o[j] => i = j
  BY DEF SetToSeqs, IsInjective
<1>4. [i \in 1..n |-> buffers[o[i]]] \in [1..n -> Seq(Packet)]
  BY <1>3 DEF Snapshots
<1>5. DOMAIN o = 1..n
  BY <1>3
<1>6. s \in Seq(Seq(Packet)) /\ Len(s) = n
  BY <1>2, <1>4, <1>5, SeqOfFcn
<1>7. \A i \in 1..n : s[i] = buffers[o[i]] /\ o[i] \in DOMAIN buffers
  BY <1>3, <1>5
<1> HIDE DEF s, n
<1>8. Apart(s)
  BY <1>3, <1>6, <1>7 DEF Apart, Logged
<1>9. Keyed(FlattenSeq(s)) /\ Among(FlattenSeq(s), s, n)
  BY <1>6, <1>8, FlattenKeeps
<1>10. evs = FlattenSeq(s)
  BY <1>1 DEF s
<1>11. Buffered(evs)
  BY <1>7, <1>9, <1>10 DEF Among, Buffered
<1>12. QED
  BY <1>9, <1>10, <1>11

\* The sample of such a snapshot is one too.
LEMMA SampleIsKeyed ==
  ASSUME NEW evs \in Seq(Packet), Keyed(evs), Buffered(evs)
  PROVE  Keyed(SampleEventsForGraph(evs)) /\ Buffered(SampleEventsForGraph(evs))
<1> DEFINE first == Max({1, Len(evs) - MaxEvents + 1})
           s == SubSeq(evs, first, Len(evs))
<1>1. MaxEvents \in Nat \ {0} /\ Len(evs) \in Nat
  BY LimitsAssumption
<1>2. first \in 1..(Len(evs) + 1)
  BY <1>1, MaxOfTwo
<1> HIDE DEF first
<1>3. Len(evs) \in (first - 1)..Len(evs)
  BY <1>1, <1>2
<1>4. Len(s) = Len(evs) - first + 1 /\ \A i \in 1..Len(s) : s[i] = evs[first + i - 1]
  BY <1>2, <1>3, SubSeqProperties
<1>5. \A i \in 1..Len(s) : first + i - 1 \in 1..Len(evs)
  BY <1>1, <1>2, <1>4
<1> HIDE DEF s
<1>6. Keyed(s)
  <2> SUFFICES ASSUME NEW i \in 1..Len(s), NEW j \in 1..Len(s), s[i].pkt = s[j].pkt PROVE i = j
    BY DEF Keyed
  <2>1. first + i - 1 = first + j - 1
    BY <1>4, <1>5 DEF Keyed
  <2>2. QED
    BY <1>2, <2>1
<1>7. Buffered(s)
  <2> SUFFICES ASSUME NEW x \in 1..Len(s)
               PROVE  \E pod \in DOMAIN buffers : \E i \in 1..Len(buffers[pod]) : s[x] = buffers[pod][i]
    BY DEF Buffered
  <2> DEFINE y == first + x - 1
  <2>1. y \in 1..Len(evs) /\ s[x] = evs[y]
    BY <1>4, <1>5
  <2> HIDE DEF y
  <2>2. \E pod \in DOMAIN buffers : \E i \in 1..Len(buffers[pod]) : evs[y] = buffers[pod][i]
    BY <2>1 DEF Buffered
  <2>3. QED
    BY <2>1, <2>2
<1>8. SampleEventsForGraph(evs) = s
  BY DEF SampleEventsForGraph, s, first
<1>9. QED
  BY <1>6, <1>7, <1>8

-----------------------------------------------------------------------------
(* What an edge carries: the bytes of its packets, and a step for each of the  *)
(* first of them.                                                              *)

Phases == {"start", "reply", "data", "close"}

StepType == [at : Nat, rel : Int, dir : {"forward", "reverse"}, phase : Phases, pkt : Nat]

\* Steps of packets among the first k, each once.
StepsOf(s, evs, k) ==
  /\ s \in Seq(StepType)
  /\ \A i \in 1..Len(s) : \E x \in 1..k : s[i].pkt = evs[x].pkt
  /\ \A i, j \in 1..Len(s) : s[i].pkt = s[j].pkt => i = j

Bytes(evs) == [i \in 1..Len(evs) |-> flowCounters(evs[i]).bytes]

CarriesOn(d, evs, k, e) ==
  /\ {"bytes", "steps"} \subseteq DOMAIN d
  /\ d.bytes = SumFunctionOnSet(Bytes(evs), On(evs, k, e))
  /\ StepsOf(d.steps, evs, k)

Carries(t, evs, k) == \A e \in DOMAIN t.edges : CarriesOn(t.edges[e], evs, k, e)

\* The bytes of packets, and of the packets of an edge.
LEMMA BytesAreNat ==
  ASSUME NEW evs \in Seq(Packet)
  PROVE  /\ \A i \in 1..Len(evs) : Bytes(evs)[i] \in Nat
         /\ \A k \in 0..Len(evs) : \A e : /\ On(evs, k, e) \in SUBSET (1..Len(evs))
                                          /\ IsFiniteSet(On(evs, k, e))
<1>1. ASSUME NEW i \in 1..Len(evs) PROVE Bytes(evs)[i] \in Nat
  <2>1. evs[i] \in Packet
    OBVIOUS
  <2>2. evs[i].metaBytes \in Nat /\ evs[i].len \in Nat
    BY <2>1 DEF Packet
  <2>3. flowCounters(evs[i]).bytes = IF evs[i].metaBytes > 0 THEN evs[i].metaBytes ELSE evs[i].len
    BY DEF flowCounters
  <2>4. Bytes(evs)[i] = flowCounters(evs[i]).bytes
    BY DEF Bytes
  <2>5. QED
    BY <2>2, <2>3, <2>4
<1>2. ASSUME NEW k \in 0..Len(evs), NEW e
      PROVE  On(evs, k, e) \in SUBSET (1..Len(evs)) /\ IsFiniteSet(On(evs, k, e))
  <2>1. On(evs, k, e) \in SUBSET (1..Len(evs))
    BY DEF On
  <2>2. IsFiniteSet(1..Len(evs))
    BY FS_Interval
  <2>3. QED
    BY <2>1, <2>2, FS_Subset
<1>3. QED
  BY <1>1, <1>2

\* A step of a packet.
LEMMA StepIs ==
  ASSUME NEW e, e.steps \in Seq(StepType), NEW ev \in Packet
  PROVE  Step(e, ev) \in StepType /\ Step(e, ev).pkt = ev.pkt
<1>1. ev.at \in Nat /\ ev.pkt \in Nat
  BY DEF Packet
<1>2. (IF e.steps = <<>> THEN ev.at ELSE e.steps[1].at) \in Nat
  <2>1. CASE e.steps = <<>>
    BY <1>1, <2>1
  <2>2. CASE e.steps # <<>>
    <3>1. e.steps[1] \in StepType
      BY <2>2
    <3>2. e.steps[1].at \in Nat
      BY <3>1 DEF StepType
    <3>3. QED
      BY <2>2, <3>2
  <2>3. QED
    BY <2>1, <2>2
<1>3. sequencePhase(ev.flags) \in Phases
  BY Zenon DEF sequencePhase, Phases
<1> DEFINE r == ev.at - (IF e.steps = <<>> THEN ev.at ELSE e.steps[1].at)
           f == sequencePhase(ev.flags)
<1>4. r \in Int
  BY <1>1, <1>2
<1>5. Step(e, ev) = [at |-> ev.at, rel |-> r, dir |-> "forward", phase |-> f, pkt |-> ev.pkt]
  BY DEF Step
<1> HIDE DEF r
<1>6. f \in Phases
  BY <1>3
<1> HIDE DEF f
<1>7. QED
  BY <1>1, <1>4, <1>5, <1>6 DEF StepType

\* One step more, of a packet that has none yet.
LEMMA StepsGrow ==
  ASSUME NEW evs \in Seq(Packet), Keyed(evs), NEW k \in Nat, k + 1 <= Len(evs),
         NEW s, StepsOf(s, evs, k), NEW x \in StepType, x.pkt = evs[k+1].pkt
  PROVE  StepsOf(s, evs, k+1) /\ StepsOf(Append(s, x), evs, k+1)
<1>1. 1..(k+1) = 1..k \cup {k+1} /\ \A i \in 1..k : i \in 1..Len(evs) /\ i # k + 1
  OBVIOUS
<1>2. s \in Seq(StepType) /\ Len(s) \in Nat /\ k + 1 \in 1..Len(evs)
  BY DEF StepsOf
<1>3. StepsOf(s, evs, k+1)
  BY <1>1 DEF StepsOf
<1>4. /\ Append(s, x) \in Seq(StepType) /\ Len(Append(s, x)) = Len(s) + 1
      /\ \A i \in 1..Len(s) : Append(s, x)[i] = s[i]
      /\ Append(s, x)[Len(s) + 1] = x
  BY <1>2
<1> DEFINE a == Append(s, x)
<1> HIDE DEF a
<1>5. \A i \in 1..Len(a) : i \in 1..Len(s) \/ i = Len(s) + 1
  BY <1>2, <1>4 DEF a
<1>6. \A i \in 1..Len(s) : \E y \in 1..k : a[i].pkt = evs[y].pkt
  BY <1>4 DEF a, StepsOf
<1>7. \A i \in 1..Len(s) : a[i].pkt # evs[k+1].pkt
  BY <1>1, <1>2, <1>6 DEF Keyed
<1>8. a[Len(s) + 1].pkt = evs[k+1].pkt
  BY <1>4 DEF a
<1>9. \A i \in 1..Len(a) : \E y \in 1..(k+1) : a[i].pkt = evs[y].pkt
  BY <1>1, <1>5, <1>6, <1>8
<1>10. \A i, j \in 1..Len(s) : a[i].pkt = a[j].pkt => i = j
  BY <1>4 DEF a, StepsOf
<1>11. \A i, j \in 1..Len(a) : a[i].pkt = a[j].pkt => i = j
  BY <1>5, <1>7, <1>8, <1>10
<1>12. StepsOf(a, evs, k+1)
  BY <1>4, <1>9, <1>11 DEF StepsOf, a
<1>13. QED
  BY <1>3, <1>12 DEF a

\* What a packet adds to what its edge carries.
LEMMA AddedCarries ==
  ASSUME NEW evs \in Seq(Packet), Keyed(evs), NEW k \in Nat, k + 1 <= Len(evs),
         NEW d, NEW e, e = resolveFlowEndpoints(evs[k+1]), CarriesOn(d, evs, k, e)
  PROVE  CarriesOn(AddToEdge(d, evs[k+1]), evs, k+1, e)
<1> DEFINE ev == evs[k+1]
           n == flowCounters(ev).bytes
           x == Step(d, ev)
           new == AddToEdge(d, ev)
<1>1. /\ {"bytes", "steps"} \subseteq DOMAIN d
      /\ d.bytes = SumFunctionOnSet(Bytes(evs), On(evs, k, e))
      /\ StepsOf(d.steps, evs, k)
  BY DEF CarriesOn
<1>2. /\ DOMAIN new = DOMAIN d /\ new.bytes = d.bytes + n
      /\ new.steps = IF Len(d.steps) < MaxSteps THEN Append(d.steps, x) ELSE d.steps
  BY <1>1 DEF AddToEdge
<1>3. k + 1 \in 1..Len(evs) /\ k \in 0..Len(evs) /\ k + 1 \in 0..Len(evs)
  OBVIOUS
<1>4. ev \in Packet
  BY <1>3
<1>5. x \in StepType /\ x.pkt = ev.pkt
  <2>1. d.steps \in Seq(StepType)
    BY <1>1 DEF StepsOf
  <2> HIDE DEF ev
  <2>2. QED
    BY <1>4, <2>1, StepIs
<1>6. n = Bytes(evs)[k+1]
  BY <1>3 DEF Bytes
<1>7. On(evs, k+1, e) = On(evs, k, e) \cup {k+1} /\ k + 1 \notin On(evs, k, e)
  BY EventEnds
<1> HIDE DEF new, n, x
<1>8. StepsOf(d.steps, evs, k+1) /\ StepsOf(Append(d.steps, x), evs, k+1)
  BY <1>1, <1>5, StepsGrow
<1>9. SumFunctionOnSet(Bytes(evs), On(evs, k+1, e)) = n + SumFunctionOnSet(Bytes(evs), On(evs, k, e))
  <2> DEFINE S == On(evs, k+1, e)
             T == On(evs, k, e)
             w == Bytes(evs)
  <2>1. IsFiniteSet(S) /\ \A i \in S : w[i] \in Nat
    BY <1>3, BytesAreNat
  <2>2. T \in SUBSET S /\ k + 1 \in S \ T /\ S = T \cup {k+1}
    BY <1>7
  <2> HIDE DEF S, T, w
  <2>3. SumFunctionOnSet(w, T \cup {k+1}) = w[k+1] + SumFunctionOnSet(w, T)
    BY <2>1, <2>2, SumAdds
  <2>4. SumFunctionOnSet(w, S) = n + SumFunctionOnSet(w, T)
    BY <1>6, <2>2, <2>3 DEF w
  <2>5. QED
    BY <2>4 DEF S, T, w
<1>10. n \in Nat /\ SumFunctionOnSet(Bytes(evs), On(evs, k, e)) \in Nat
  <2>1. \A i \in On(evs, k, e) : Bytes(evs)[i] \in Nat
    BY <1>3, BytesAreNat
  <2>2. IsFiniteSet(On(evs, k, e))
    BY <1>3, BytesAreNat
  <2>3. n \in Nat
    BY <1>3, <1>6, BytesAreNat
  <2>4. QED
    BY <2>1, <2>2, <2>3, SumIsNat
<1>11. new.bytes = SumFunctionOnSet(Bytes(evs), On(evs, k+1, e))
  BY <1>1, <1>2, <1>9, <1>10
<1>12. StepsOf(new.steps, evs, k+1)
  BY <1>2, <1>8
<1>13. {"bytes", "steps"} \subseteq DOMAIN new
  BY <1>1, <1>2
<1>14. QED
  BY <1>11, <1>12, <1>13 DEF CarriesOn, new

\* An edge without packets.
LEMMA NewCarries ==
  ASSUME NEW evs, NEW k, NEW e, On(evs, k, e) = {}
  PROVE  CarriesOn(NewEdge, evs, k, e)
<1>1. NewEdge.bytes = 0 /\ NewEdge.steps = <<>> /\ {"bytes", "steps"} \subseteq DOMAIN NewEdge
  BY DEF NewEdge
<1>2. SumFunctionOnSet(Bytes(evs), On(evs, k, e)) = 0
  BY SumOfNone
<1>3. StepsOf(<<>>, evs, k)
  <2>1. <<>> \in Seq(StepType) /\ 1..Len(<<>>) = {}
    OBVIOUS
  <2>2. QED
    BY <2>1 DEF StepsOf
<1>4. QED
  BY <1>1, <1>2, <1>3 DEF CarriesOn

\* The steps of an edge are of the packets before.
LEMMA StepsStay ==
  ASSUME NEW evs, NEW k \in Nat, NEW s, StepsOf(s, evs, k)
  PROVE  StepsOf(s, evs, k+1)
<1>1. \A x \in 1..k : x \in 1..(k+1)
  OBVIOUS
<1>2. QED
  BY <1>1 DEF StepsOf

\* One turn of BuildFlowTopology.
LEMMA AggregateCarries ==
  ASSUME NEW evs \in Seq(Packet), Keyed(evs), NEW k \in Nat, k + 1 <= Len(evs), NEW t,
         Accounts(t, evs, k), Carries(t, evs, k)
  PROVE  Carries(Aggregate(t, evs[k+1]), evs, k+1)
<1> DEFINE ev == evs[k+1]
           e == resolveFlowEndpoints(ev)
           new == Aggregate(t, ev)
           old == IF e \in DOMAIN t.edges THEN t.edges[e] ELSE NewEdge
<1>1. \A x : x # e => On(evs, k+1, x) = On(evs, k, x)
  BY EventEnds
<1>2. ASSUME NEW x \in DOMAIN t.edges, x # e PROVE CarriesOn(t.edges[x], evs, k+1, x)
  <2>1. CarriesOn(t.edges[x], evs, k, x) /\ On(evs, k+1, x) = On(evs, k, x)
    BY <1>1, <1>2 DEF Carries
  <2>2. StepsOf(t.edges[x].steps, evs, k+1)
    BY <2>1, StepsStay DEF CarriesOn
  <2>3. QED
    BY <2>1, <2>2 DEF CarriesOn
<1>3. CASE NoNode \in Range(e)
  <2>1. new = t
    BY <1>3 DEF Aggregate
  <2>2. \A x \in DOMAIN t.edges : x # e
    BY <1>3 DEF Accounts, Ends, Known
  <2>3. QED
    BY <1>2, <2>1, <2>2 DEF Carries
<1>4. CASE NoNode \notin Range(e)
  <2>1. new.edges = [x \in DOMAIN t.edges \cup {e} |->
                       IF x = e THEN AddToEdge(old, ev) ELSE t.edges[x]]
    BY <1>4 DEF Aggregate
  <2>2. CarriesOn(old, evs, k, e)
    <3>1. CASE e \in DOMAIN t.edges
      BY <3>1 DEF Carries
    <3>2. CASE e \notin DOMAIN t.edges
      <4>1. On(evs, k, e) = {}
        BY <1>4, <3>2 DEF Accounts, Ends, Known, On
      <4>2. old = NewEdge
        BY <3>2
      <4> HIDE DEF e, old
      <4>3. QED
        BY <4>1, <4>2, NewCarries
    <3>3. QED
      BY <3>1, <3>2
  <2> HIDE DEF old
  <2>3. CarriesOn(AddToEdge(old, ev), evs, k+1, e)
    BY <2>2, AddedCarries
  <2> HIDE DEF e, ev, new
  <2>4. \A x \in DOMAIN new.edges : CarriesOn(new.edges[x], evs, k+1, x)
    BY <1>2, <2>1, <2>3
  <2>5. QED
    BY <2>4 DEF Carries, new, ev
<1>5. QED
  BY <1>3, <1>4

\* BuildFlowTopology carries all events.
LEMMA BuildCarries ==
  ASSUME NEW evs \in Seq(Packet), Keyed(evs)
  PROVE  Carries(BuildFlowTopology(evs), evs, Len(evs))
<1>1. PICK h : /\ h[0] = EmptyTopology
               /\ \A k \in Nat : k < Len(evs) => h[k+1] = Aggregate(h[k], evs[k+1])
               /\ h[Len(evs)] = BuildFlowTopology(evs)
  BY TopologyIs
<1> DEFINE S == {k \in Nat : k <= Len(evs) => Accounts(h[k], evs, k) /\ Carries(h[k], evs, k)}
<1>2. Len(evs) \in Nat
  OBVIOUS
<1>3. 0 \in S
  <2>1. DOMAIN EmptyTopology.edges = {}
    BY DEF EmptyTopology
  <2>2. QED
    BY <1>1, <2>1, EmptyAccounts DEF Carries
<1>4. ASSUME NEW k \in Nat, k \in S PROVE k + 1 \in S
  <2>1. SUFFICES ASSUME k + 1 <= Len(evs)
                 PROVE  Accounts(h[k+1], evs, k+1) /\ Carries(h[k+1], evs, k+1)
    OBVIOUS
  <2>2. Accounts(h[k], evs, k) /\ Carries(h[k], evs, k) /\ h[k+1] = Aggregate(h[k], evs[k+1])
    BY <1>1, <1>2, <1>4, <2>1
  <2>3. Accounts(Aggregate(h[k], evs[k+1]), evs, k+1)
    BY <2>1, <2>2, AggregateAccounts
  <2>4. Carries(Aggregate(h[k], evs[k+1]), evs, k+1)
    BY <2>1, <2>2, AggregateCarries
  <2>5. QED
    BY <2>2, <2>3, <2>4
<1> HIDE DEF S
<1>5. Nat \subseteq S
  BY <1>3, <1>4, InductionOverNat
<1>6. QED
  BY <1>1, <1>2, <1>5 DEF S

-----------------------------------------------------------------------------
(* The two directions of an edge, merged.                                      *)

\* A forward lane: in the order of time, each step of the edge's own once, and
\* all of those before the last one shown.
Lane(seq, own) ==
  LET fwd == {i \in DOMAIN seq : seq[i].dir = "forward"}
  IN /\ \A i, j \in DOMAIN seq : i < j => seq[i].at <= seq[j].at
     /\ \A i, j \in fwd : seq[i].pkt = seq[j].pkt => i = j
     /\ \A i \in fwd : \E j \in DOMAIN own : seq[i].pkt = own[j].pkt
     /\ \A j \in DOMAIN own : own[j].at < seq[Len(seq)].at =>
          \E i \in fwd : seq[i].pkt = own[j].pkt /\ seq[i].at = own[j].at

\* Steps with another direction.
LEMMA CloneIs ==
  ASSUME NEW s \in Seq(StepType), NEW d \in {"forward", "reverse"}
  PROVE  /\ cloneSequenceSteps(s, d) \in Seq(StepType)
         /\ Len(cloneSequenceSteps(s, d)) = Len(s)
         /\ \A i \in 1..Len(s) : /\ cloneSequenceSteps(s, d)[i].dir = d
                                 /\ cloneSequenceSteps(s, d)[i].at = s[i].at
                                 /\ cloneSequenceSteps(s, d)[i].pkt = s[i].pkt
<1> DEFINE n == Len(s)
           e(i) == [s[i] EXCEPT !.dir = d]
           c == [i \in 1..n |-> e(i)]
<1>1. n \in Nat /\ DOMAIN s = 1..n /\ \A i \in 1..n : s[i] \in StepType
  OBVIOUS
<1>2. \A i \in 1..n : e(i) \in StepType /\ e(i).dir = d /\ e(i).at = s[i].at /\ e(i).pkt = s[i].pkt
  BY <1>1 DEF StepType
<1>3. cloneSequenceSteps(s, d) = c
  BY <1>1 DEF cloneSequenceSteps
<1> HIDE DEF e, n
<1>4. c \in [1..n -> StepType] /\ \A i \in 1..n : c[i] = e(i)
  BY <1>2
<1> HIDE DEF c
<1>5. c \in Seq(StepType) /\ Len(c) = n
  BY <1>1, <1>4, SeqOfFcn
<1>6. QED
  BY <1>2, <1>3, <1>4, <1>5 DEF n

\* What sort.Slice leaves: every element once, none after one it precedes.
Ordered(s, t) ==
  \E p \in Bijection(DOMAIN s, DOMAIN s) :
    /\ t = [i \in DOMAIN s |-> s[p[i]]]
    /\ \A i, j \in DOMAIN s : i < j =>
         ~(\/ s[p[j]].at < s[p[i]].at
           \/ (s[p[j]].at = s[p[i]].at /\ s[p[j]].rel < s[p[i]].rel))

Shuffled(s, t) ==
  \E p \in [1..Len(s) -> 1..Len(s)] :
    /\ \A i \in 1..Len(s) : t[i] = s[p[i]]
    /\ \A i, j \in 1..Len(s) : p[i] = p[j] => i = j
    /\ \A x \in 1..Len(s) : \E i \in 1..Len(s) : p[i] = x

LEMMA SortedIs ==
  ASSUME NEW s \in Seq(StepType), NEW t, Ordered(s, t)
  PROVE  /\ t \in Seq(StepType) /\ Len(t) = Len(s)
         /\ \A i, j \in 1..Len(s) : i < j => t[i].at <= t[j].at
         /\ Shuffled(s, t)
<1> DEFINE n == Len(s)
<1>1. n \in Nat /\ DOMAIN s = 1..n /\ \A i \in 1..n : s[i] \in StepType
  OBVIOUS
<1>2. PICK p \in Bijection(1..n, 1..n) :
        /\ t = [i \in 1..n |-> s[p[i]]]
        /\ \A i, j \in 1..n : i < j => ~(\/ s[p[j]].at < s[p[i]].at
                                          \/ (s[p[j]].at = s[p[i]].at /\ s[p[j]].rel < s[p[i]].rel))
  BY <1>1 DEF Ordered
<1>3. /\ p \in [1..n -> 1..n] /\ \A i, j \in 1..n : p[i] = p[j] => i = j
      /\ \A x \in 1..n : \E i \in 1..n : p[i] = x
  BY <1>2 DEF Bijection, Injection, Surjection, IsInjective
<1> HIDE DEF n
<1>4. t \in [1..n -> StepType] /\ \A i \in 1..n : t[i] = s[p[i]]
  BY <1>1, <1>2, <1>3
<1>5. t \in Seq(StepType) /\ Len(t) = n
  BY <1>1, <1>4, SeqOfFcn
<1>6. \A i \in 1..n : s[p[i]].at \in Nat
  BY <1>1, <1>3 DEF StepType
<1>7. \A i, j \in 1..n : i < j => s[p[i]].at <= s[p[j]].at
  BY <1>2, <1>6
<1>8. \A i, j \in 1..n : i < j => t[i].at <= t[j].at
  BY <1>4, <1>7
<1>9. QED
  BY <1>3, <1>4, <1>5, <1>8 DEF n, Shuffled

\* How ConversationSequence comes to a sequence.
Both(own, opp) == cloneSequenceSteps(own, "forward") \o cloneSequenceSteps(opp, "reverse")

Cut(all) == [i \in 1..Min({MaxSteps, Len(all)}) |-> [all[i] EXCEPT !.rel = all[i].at - all[1].at]]

LEMMA ConversationIs ==
  ASSUME NEW det, NEW k, k \in DOMAIN det, NEW opp,
         opp = IF Opposite(k) \in DOMAIN det THEN det[Opposite(k)] ELSE <<>>,
         NEW seq \in ConversationSequence(det, k)
  PROVE  \E all : Ordered(Both(det[k], opp), all) /\ seq = Cut(all)
<1> DEFINE sequence(x) == IF x \in DOMAIN det THEN det[x] ELSE <<>>
           earlier(x, y) == x.at < y.at \/ (x.at = y.at /\ x.rel < y.rel)
           both == cloneSequenceSteps(sequence(k), "forward")
                     \o cloneSequenceSteps(sequence(Opposite(k)), "reverse")
<1>1. sequence(k) = det[k] /\ sequence(Opposite(k)) = opp
  OBVIOUS
<1>2. both = Both(det[k], opp)
  <2> HIDE DEF sequence
  <2>1. QED
    BY <1>1 DEF Both
<1>3. seq \in {Cut(all) : all \in Sorted(both, earlier)}
  BY Zenon DEF ConversationSequence, Cut
<1>4. Sorted(both, earlier) = {all \in Sorted(both, earlier) : Ordered(both, all)}
  BY DEF Sorted, Ordered
<1>5. QED
  BY <1>2, <1>3, <1>4, Zenon

\* Two sequences, one after the other.
LEMMA TwoLanes ==
  ASSUME NEW a, a \in Seq(StepType), NEW b, b \in Seq(StepType),
         \A i \in 1..Len(b) : b[i].dir = "reverse"
  PROVE  /\ a \o b \in Seq(StepType)
         /\ \A x \in 1..Len(a) : x \in 1..Len(a \o b) /\ (a \o b)[x] = a[x]
         /\ \A x \in 1..Len(a \o b) : x \notin 1..Len(a) => (a \o b)[x].dir = "reverse"
<1>1. Len(a) \in Nat /\ Len(b) \in Nat
  OBVIOUS
<1>2. /\ a \o b \in Seq(StepType) /\ Len(a \o b) = Len(a) + Len(b)
      /\ \A i \in 1..(Len(a) + Len(b)) : (a \o b)[i] = IF i <= Len(a) THEN a[i] ELSE b[i - Len(a)]
  BY ConcatProperties
<1>3. \A x \in 1..Len(a) : x \in 1..Len(a \o b) /\ (a \o b)[x] = a[x]
  BY <1>1, <1>2
<1>4. ASSUME NEW x \in 1..Len(a \o b), x \notin 1..Len(a) PROVE (a \o b)[x].dir = "reverse"
  <2>1. (a \o b)[x] = b[x - Len(a)] /\ x - Len(a) \in 1..Len(b)
    BY <1>1, <1>2, <1>4
  <2>2. QED
    BY <2>1
<1>5. QED
  BY <1>2, <1>3, <1>4

LEMMA BothIs ==
  ASSUME NEW own, own \in Seq(StepType), NEW opp, opp \in Seq(StepType)
  PROVE  /\ Both(own, opp) \in Seq(StepType)
         /\ \A x \in 1..Len(own) :
              /\ x \in 1..Len(Both(own, opp)) /\ Both(own, opp)[x].dir = "forward"
              /\ Both(own, opp)[x].at = own[x].at /\ Both(own, opp)[x].pkt = own[x].pkt
         /\ \A x \in 1..Len(Both(own, opp)) :
              x \notin 1..Len(own) => Both(own, opp)[x].dir = "reverse"
<1> DEFINE a == cloneSequenceSteps(own, "forward")
           b == cloneSequenceSteps(opp, "reverse")
<1>1. /\ a \in Seq(StepType) /\ Len(a) = Len(own)
      /\ \A i \in 1..Len(own) : a[i].dir = "forward" /\ a[i].at = own[i].at /\ a[i].pkt = own[i].pkt
  BY CloneIs
<1>2. b \in Seq(StepType) /\ \A i \in 1..Len(b) : b[i].dir = "reverse"
  BY CloneIs
<1>3. Both(own, opp) = a \o b
  BY DEF Both
<1> HIDE DEF a, b
<1>4. /\ a \o b \in Seq(StepType)
      /\ \A x \in 1..Len(a) : x \in 1..Len(a \o b) /\ (a \o b)[x] = a[x]
      /\ \A x \in 1..Len(a \o b) : x \notin 1..Len(a) => (a \o b)[x].dir = "reverse"
  BY <1>1, <1>2, TwoLanes
<1>5. QED
  BY <1>1, <1>3, <1>4

\* The merged sequence has such a lane, however equal times fall.
LEMMA MergedIs ==
  ASSUME NEW det, NEW k, k \in DOMAIN det, NEW own, own = det[k], own \in Seq(StepType),
         \A i, j \in 1..Len(own) : own[i].pkt = own[j].pkt => i = j,
         Opposite(k) \in DOMAIN det => det[Opposite(k)] \in Seq(StepType),
         NEW seq \in ConversationSequence(det, k)
  PROVE  seq \in Seq(StepType) /\ Lane(seq, own)
<1> DEFINE opp == IF Opposite(k) \in DOMAIN det THEN det[Opposite(k)] ELSE <<>>
           both == Both(own, opp)
           n == Len(both)
<1>1. opp \in Seq(StepType)
  BY SMT
<1>2. PICK all : Ordered(both, all) /\ seq = Cut(all)
  BY ConversationIs
<1> HIDE DEF opp
<1>3. both \in Seq(StepType) /\ n \in Nat
  BY <1>1, BothIs
<1>4. /\ \A x \in 1..Len(own) : /\ x \in 1..n /\ both[x].dir = "forward"
                                /\ both[x].at = own[x].at /\ both[x].pkt = own[x].pkt
      /\ \A x \in 1..n : x \notin 1..Len(own) => both[x].dir = "reverse"
  BY <1>1, BothIs
<1> HIDE DEF both, n
<1>5. /\ all \in Seq(StepType) /\ Len(all) = n
      /\ \A i, j \in 1..n : i < j => all[i].at <= all[j].at
  BY <1>2, <1>3, SortedIs DEF n
<1>6. PICK p \in [1..n -> 1..n] :
        /\ \A i \in 1..n : all[i] = both[p[i]]
        /\ \A i, j \in 1..n : p[i] = p[j] => i = j
        /\ \A x \in 1..n : \E i \in 1..n : p[i] = x
  <2>1. Shuffled(both, all)
    BY <1>2, <1>3, SortedIs
  <2>2. QED
    BY <2>1 DEF n, Shuffled
<1> DEFINE m == Min({MaxSteps, n})
           e(i) == [all[i] EXCEPT !.rel = all[i].at - all[1].at]
<1>7. MaxSteps \in Nat \ {0}
  BY LimitsAssumption
<1>8. m \in Nat /\ m <= n /\ (m = n \/ m # 0)
  <2>1. m = IF MaxSteps <= n THEN MaxSteps ELSE n
    BY <1>3, <1>7, MinOfTwo
  <2>2. n \in Nat /\ MaxSteps \in Nat /\ MaxSteps # 0
    BY <1>3, <1>7
  <2> HIDE DEF m, n
  <2>3. QED
    BY <2>1, <2>2
<1>9. seq = [i \in 1..m |-> e(i)]
  BY <1>2, <1>5 DEF Cut
<1> HIDE DEF m
<1>10. \A i \in 1..m : /\ i \in 1..n /\ all[i] \in StepType /\ 1 \in 1..n /\ all[1] \in StepType
  BY <1>3, <1>5, <1>8
<1>11. \A i \in 1..m : /\ e(i) \in StepType /\ e(i).at = all[i].at /\ e(i).dir = all[i].dir
                       /\ e(i).pkt = all[i].pkt
  <2> SUFFICES ASSUME NEW i \in 1..m
               PROVE  /\ e(i) \in StepType /\ e(i).at = all[i].at /\ e(i).dir = all[i].dir
                      /\ e(i).pkt = all[i].pkt
    OBVIOUS
  <2> DEFINE x == all[i]
             r == all[i].at - all[1].at
  <2>1. x \in StepType /\ all[1].at \in Nat
    BY <1>10 DEF StepType
  <2>2. r \in Int
    BY <2>1 DEF StepType
  <2> HIDE DEF r, x
  <2>3. [x EXCEPT !.rel = r] \in StepType
    BY <2>1, <2>2 DEF StepType
  <2>4. /\ [x EXCEPT !.rel = r].at = x.at /\ [x EXCEPT !.rel = r].dir = x.dir
        /\ [x EXCEPT !.rel = r].pkt = x.pkt
    BY <2>1 DEF StepType
  <2>5. QED
    BY <2>3, <2>4 DEF x, r
<1> HIDE DEF e
<1>12. seq \in [1..m -> StepType] /\ \A i \in 1..m : seq[i] = e(i)
  BY <1>9, <1>11
<1>13. seq \in Seq(StepType) /\ Len(seq) = m /\ DOMAIN seq = 1..m
  BY <1>8, <1>12, SeqOfFcn
<1>14. \A i \in 1..m : /\ i \in 1..n /\ seq[i].at = all[i].at /\ seq[i].dir = both[p[i]].dir
                       /\ seq[i].pkt = both[p[i]].pkt /\ p[i] \in 1..n
  BY <1>6, <1>10, <1>11, <1>12
<1>15. \A i \in 1..m : seq[i].dir = "forward" =>
          p[i] \in 1..Len(own) /\ seq[i].pkt = own[p[i]].pkt
  <2> SUFFICES ASSUME NEW i \in 1..m, seq[i].dir = "forward"
               PROVE  p[i] \in 1..Len(own) /\ seq[i].pkt = own[p[i]].pkt
    OBVIOUS
  <2>1. p[i] \in 1..Len(own)
    BY <1>4, <1>14
  <2>2. QED
    BY <1>4, <1>14, <2>1
<1>16. \A i, j \in DOMAIN seq : i < j => seq[i].at <= seq[j].at
  BY <1>5, <1>13, <1>14
<1> DEFINE fwd == {i \in DOMAIN seq : seq[i].dir = "forward"}
<1>17. \A i, j \in fwd : seq[i].pkt = seq[j].pkt => i = j
  <2> SUFFICES ASSUME NEW i \in fwd, NEW j \in fwd, seq[i].pkt = seq[j].pkt PROVE i = j
    OBVIOUS
  <2>1. i \in 1..n /\ j \in 1..n
    BY <1>13, <1>14
  <2>2. /\ p[i] \in 1..Len(own) /\ p[j] \in 1..Len(own)
        /\ own[p[i]].pkt = own[p[j]].pkt
    BY <1>13, <1>15
  <2>3. p[i] = p[j]
    BY <2>2
  <2>4. QED
    BY <1>6, <2>1, <2>3
<1>18. \A i \in fwd : \E j \in DOMAIN own : seq[i].pkt = own[j].pkt
  BY <1>13, <1>15
<1>19. ASSUME NEW j \in DOMAIN own, own[j].at < seq[Len(seq)].at
       PROVE  \E i \in fwd : seq[i].pkt = own[j].pkt /\ seq[i].at = own[j].at
  <2>1. j \in 1..Len(own) /\ j \in 1..n
    BY <1>4
  <2>2. PICK i \in 1..n : p[i] = j
    BY <1>6, <2>1
  <2>3. all[i].at = own[j].at /\ all[i].pkt = own[j].pkt /\ all[i].dir = "forward"
    <3>1. all[i] = both[j]
      BY <1>6, <2>2
    <3>2. both[j].at = own[j].at /\ both[j].pkt = own[j].pkt /\ both[j].dir = "forward"
      BY <1>4, <2>1
    <3>3. QED
      BY <3>1, <3>2
  <2>4. m \in 1..m
    BY <1>8, <2>1
  <2>5. all[m].at \in Nat /\ all[i].at \in Nat /\ seq[Len(seq)].at = all[m].at
    <3>1. all[m] \in StepType /\ all[i] \in StepType
      BY <1>5, <1>10, <2>4
    <3>2. seq[Len(seq)].at = all[m].at
      BY <1>13, <1>14, <2>4
    <3>3. QED
      BY <3>1, <3>2 DEF StepType
  <2>6. i <= m
    <3>1. SUFFICES ASSUME m < i PROVE FALSE
      BY <1>8
    <3>2. m \in 1..n /\ all[m].at <= all[i].at
      BY <1>5, <1>10, <2>4, <3>1
    <3>3. QED
      BY <1>19, <2>3, <2>5, <3>2
  <2>7. i \in 1..m
    BY <2>6
  <2>8. seq[i].at = all[i].at /\ seq[i].pkt = all[i].pkt /\ seq[i].dir = all[i].dir
    BY <1>11, <1>12, <2>7
  <2>9. QED
    BY <1>13, <2>3, <2>7, <2>8
<1>20. QED
  BY <1>13, <1>16, <1>17, <1>18, <1>19 DEF Lane

-----------------------------------------------------------------------------
(* The handler, with what the packets carry.                                   *)

\* Whether the selection keeps an edge.
Selected(k) == TrackedPods = {} \/ Range(k) \cap TrackedPods # {}

\* The selection leaves edges as they are ...
LEMMA FilterKeeps ==
  ASSUME NEW t, NEW u, u = FilterTopologyToSelection(t)
  PROVE  /\ \A k : k \in DOMAIN u.edges <=> k \in DOMAIN t.edges /\ Selected(k)
         /\ \A k \in DOMAIN u.edges : u.edges[k] = t.edges[k]
<1>1. CASE TrackedPods = {}
  BY <1>1 DEF FilterTopologyToSelection, Selected
<1>2. CASE TrackedPods # {}
  <2> DEFINE kept == {k \in DOMAIN t.edges : Range(k) \cap TrackedPods # {}}
  <2>1. u.edges = Restrict(t.edges, kept)
    BY <1>2 DEF FilterTopologyToSelection
  <2>2. u.edges = [k \in kept |-> t.edges[k]]
    BY <2>1 DEF Restrict
  <2>3. \A k : k \in kept <=> k \in DOMAIN t.edges /\ Selected(k)
    BY <1>2 DEF Selected
  <2> HIDE DEF kept
  <2>4. QED
    BY <2>2, <2>3
<1>3. QED
  BY <1>1, <1>2

\* ... and so do the limits.
LEMMA LimitKeeps ==
  ASSUME NEW s, NEW u \in LimitFlowTopology(s)
  PROVE  \A k \in DOMAIN u.edges : k \in DOMAIN s.edges /\ u.edges[k] = s.edges[k]
<1>1. CASE Cardinality(s.nodes) <= MaxNodes /\ Cardinality(DOMAIN s.edges) <= MaxEdges
  BY <1>1 DEF LimitFlowTopology
<1>2. CASE ~(Cardinality(s.nodes) <= MaxNodes /\ Cardinality(DOMAIN s.edges) <= MaxEdges)
  <2>1. PICK edges \in TopEdges(s) : \E keep \in KeepNodes(s, edges) :
          u = [nodes |-> s.nodes \cap keep,
               edges |-> Restrict(s.edges, {k \in edges : Range(k) \subseteq keep})]
    BY <1>2 DEF LimitFlowTopology
  <2>2. PICK keep \in KeepNodes(s, edges) :
          u = [nodes |-> s.nodes \cap keep,
               edges |-> Restrict(s.edges, {k \in edges : Range(k) \subseteq keep})]
    BY <2>1
  <2>3. edges \in SUBSET DOMAIN s.edges
    BY <2>1 DEF TopEdges, Heaviest, kSubset
  <2>4. u.edges = [k \in {k \in edges : Range(k) \subseteq keep} |-> s.edges[k]]
    BY <2>2 DEF Restrict
  <2>5. QED
    BY <2>3, <2>4
<1>3. QED
  BY <1>1, <1>2

\* What the handler has of the packets, from one phase to the next.
Carried == phase = "aggregate" => Carries(topo, sample, Len(sample) - Len(todo))

InLane(k) ==
  /\ details[k] \in Seq(StepType)
  /\ k \in unmerged => details[k] = topo.edges[k].steps
  /\ k \notin unmerged => Lane(details[k], topo.edges[k].steps)

Merging ==
  phase = "merge" =>
    /\ Carries(topo, sample, Len(sample))
    /\ unmerged \subseteq DOMAIN details
    /\ \A k \in DOMAIN details : InLane(k)

Covered ==
  phase = "replied" =>
    /\ summary = BuildCaptureSummary(events)
    /\ \A k \in DOMAIN topo.edges :
         /\ k \in Ends(sample, Len(sample)) /\ Selected(k)
         /\ topo.edges[k].bytes = SumFunctionOnSet(Bytes(sample), On(sample, Len(sample), k))

FlowInv == KeyInv /\ Carried /\ Merging /\ Covered

LEMMA FlowInit == Init => FlowInv
<1> SUFFICES ASSUME Init PROVE FlowInv
  OBVIOUS
<1>1. DOMAIN buffers = {} /\ 1..Len(<<>>) = {}
  BY DEF Init
<1>2. KeyInv
  BY <1>1 DEF Init, KeyInv, Logged, Keyed, Buffered
<1>3. QED
  BY <1>2 DEF Init, FlowInv, Carried, Merging, Covered

\* A packet is logged; the snapshots hold what they held.
LEMMA AppendKeepsKeys ==
  ASSUME Snapshots, KeyInv, NEW p \in Packets, AppendFlow(p)
  PROVE  KeyInv'
<1> DEFINE ev == [p EXCEPT !.at = 1 + clock * Gap, !.pkt = clock]
           of(pod) == IF pod \in DOMAIN buffers THEN buffers[pod] ELSE <<>>
           old == of(p.pod)
           n == Len(old)
<1>1. p \in Packet /\ clock \in Nat
  BY PacketsAssumption DEF Snapshots
<1>2. ev.pkt = clock
  BY <1>1 DEF Packet
<1>3. old \in Seq(Packet) /\ n \in Nat
  BY DEF Snapshots
<1>4. /\ clock' = clock + 1
      /\ buffers' = [x \in DOMAIN buffers \cup {p.pod} |->
                       IF x = p.pod THEN Append(old, ev) ELSE buffers[x]]
      /\ UNCHANGED <<events, sample>>
  BY DEF AppendFlow, view
<1>5. \A pod \in DOMAIN buffers : \A i \in 1..Len(buffers[pod]) : buffers[pod][i].pkt \in 0..(clock - 1)
  BY DEF KeyInv, Logged
<1>6. \A i \in 1..n : p.pod \in DOMAIN buffers /\ old = buffers[p.pod]
  BY <1>3
<1> HIDE DEF ev, old, of
<1> DEFINE new == Append(old, ev)
<1>7. Len(new) = n + 1 /\ new[n+1] = ev /\ \A i \in 1..n : new[i] = old[i]
  BY <1>3
<1> HIDE DEF new, n
\* Where an element of the new buffers was, unless it is the new one.
<1>8. ASSUME NEW q \in DOMAIN buffers', NEW i \in 1..Len(buffers'[q])
      PROVE  \/ q = p.pod /\ i = n + 1 /\ buffers'[q][i].pkt = clock
             \/ q \in DOMAIN buffers /\ i \in 1..Len(buffers[q]) /\ buffers'[q][i] = buffers[q][i]
  <2>1. CASE q = p.pod
    <3>1. buffers'[q] = new
      BY <1>4, <2>1 DEF new
    <3>2. i = n + 1 \/ i \in 1..n
      BY <1>3, <1>7, <3>1
    <3>3. CASE i = n + 1
      BY <1>2, <1>7, <2>1, <3>1, <3>3
    <3>4. CASE i \in 1..n
      BY <1>6, <1>7, <2>1, <3>1, <3>4 DEF n
    <3>5. QED
      BY <3>2, <3>3, <3>4
  <2>2. CASE q # p.pod
    BY <1>4, <2>2
  <2>3. QED
    BY <2>1, <2>2
<1>9. Logged'
  <2>1. \A q \in DOMAIN buffers' : \A i \in 1..Len(buffers'[q]) : buffers'[q][i].pkt \in 0..(clock' - 1)
    <3>0. clock' - 1 = clock
      BY <1>1, <1>4
    <3> SUFFICES ASSUME NEW q \in DOMAIN buffers', NEW i \in 1..Len(buffers'[q])
                 PROVE  buffers'[q][i].pkt \in 0..clock
      BY <3>0
    <3>1. CASE buffers'[q][i].pkt = clock
      BY <1>1, <3>1
    <3>2. CASE buffers'[q][i].pkt # clock
      <4>1. q \in DOMAIN buffers /\ i \in 1..Len(buffers[q]) /\ buffers'[q][i] = buffers[q][i]
        BY <1>8, <3>2
      <4>2. buffers[q][i].pkt \in 0..(clock - 1)
        BY <1>5, <4>1
      <4>3. QED
        BY <1>1, <4>1, <4>2
    <3>3. QED
      BY <3>1, <3>2
  <2>2. ASSUME NEW q \in DOMAIN buffers', NEW r \in DOMAIN buffers', NEW i \in 1..Len(buffers'[q]),
               NEW j \in 1..Len(buffers'[r]), buffers'[q][i].pkt = buffers'[r][j].pkt
        PROVE  q = r /\ i = j
    <3>1. CASE buffers'[q][i].pkt = clock
      <4>1. clock \notin 0..(clock - 1)
        BY <1>1
      <4>2. q = p.pod /\ i = n + 1
        BY <1>5, <1>8, <3>1, <4>1
      <4>3. buffers'[r][j].pkt = clock
        BY <2>2, <3>1
      <4>4. r = p.pod /\ j = n + 1
        BY <1>5, <1>8, <4>1, <4>3
      <4>5. QED
        BY <4>2, <4>4
    <3>2. CASE buffers'[q][i].pkt # clock
      <4>1. /\ q \in DOMAIN buffers /\ i \in 1..Len(buffers[q]) /\ buffers'[q][i] = buffers[q][i]
            /\ r \in DOMAIN buffers /\ j \in 1..Len(buffers[r]) /\ buffers'[r][j] = buffers[r][j]
        BY <1>8, <2>2, <3>2
      <4>2. QED
        BY <2>2, <4>1 DEF KeyInv, Logged
    <3>3. QED
      BY <3>1, <3>2
  <2>3. QED
    BY <2>1, <2>2 DEF Logged
\* Nothing logged is lost.
<1>10. ASSUME NEW q \in DOMAIN buffers, NEW i \in 1..Len(buffers[q])
       PROVE  q \in DOMAIN buffers' /\ i \in 1..Len(buffers'[q]) /\ buffers'[q][i] = buffers[q][i]
  <2>1. CASE q = p.pod
    <3>1. old = buffers[q]
      BY <2>1 DEF old, of
    <3>2. buffers'[q] = new /\ q \in DOMAIN buffers'
      BY <1>4, <2>1 DEF new
    <3>3. i \in 1..n /\ n \in Nat
      BY <1>3, <3>1 DEF n
    <3>4. QED
      BY <1>7, <3>1, <3>2, <3>3
  <2>2. CASE q # p.pod
    BY <1>4, <2>2
  <2>3. QED
    BY <2>1, <2>2
<1>11. Buffered(events)' /\ Buffered(sample)'
  <2>1. \A x \in 1..Len(events) : \E q \in DOMAIN buffers' : \E i \in 1..Len(buffers'[q]) :
          events[x] = buffers'[q][i]
    BY <1>10 DEF KeyInv, Buffered
  <2>2. \A x \in 1..Len(sample) : \E q \in DOMAIN buffers' : \E i \in 1..Len(buffers'[q]) :
          sample[x] = buffers'[q][i]
    BY <1>10 DEF KeyInv, Buffered
  <2>3. events' = events /\ sample' = sample
    BY <1>4
  <2>4. Buffered(events)'
    BY <2>1, <2>3, Zenon DEF Buffered
  <2>5. Buffered(sample)'
    BY <2>2, <2>3, Zenon DEF Buffered
  <2>6. QED
    BY <2>4, <2>5
<1>12. QED
  BY <1>4, <1>9, <1>11 DEF KeyInv, Keyed

\* One merge.
LEMMA MergeKeepsLanes ==
  ASSUME ViewInv, Merging, NEW k \in unmerged, MergeSequence(k)
  PROVE  Merging'
<1>1. /\ phase = "merge" /\ unmerged' = unmerged \ {k} /\ UNCHANGED <<phase, sample, topo>>
  BY DEF MergeSequence
<1>2. PICK seq \in ConversationSequence(details, k) : details' = [details EXCEPT ![k] = seq]
  BY DEF MergeSequence
<1>3. /\ Carries(topo, sample, Len(sample)) /\ unmerged \subseteq DOMAIN details
      /\ \A x \in DOMAIN details : InLane(x) /\ DOMAIN details = DOMAIN topo.edges
  BY <1>1 DEF Merging, ViewInv, Aggregated
<1>4. k \in DOMAIN details /\ details[k] = topo.edges[k].steps /\ details[k] \in Seq(StepType)
  BY <1>3 DEF InLane
<1>5. \A i, j \in 1..Len(details[k]) : details[k][i].pkt = details[k][j].pkt => i = j
  BY <1>3, <1>4 DEF Carries, CarriesOn, StepsOf
<1>6. Opposite(k) \in DOMAIN details => details[Opposite(k)] \in Seq(StepType)
  BY <1>3 DEF InLane
<1>7. seq \in Seq(StepType) /\ Lane(seq, details[k])
  BY <1>4, <1>5, <1>6, MergedIs
<1>8. DOMAIN details' = DOMAIN details /\ details'[k] = seq
      /\ \A x \in DOMAIN details : x # k => details'[x] = details[x]
  BY <1>2, <1>4
<1>9. InLane(k)'
  <2>1. details'[k] \in Seq(StepType) /\ Lane(details'[k], topo'.edges[k].steps)
    BY <1>1, <1>4, <1>7, <1>8
  <2>2. k \notin unmerged'
    BY <1>1
  <2>3. QED
    BY <2>1, <2>2 DEF InLane
<1>10. ASSUME NEW x \in DOMAIN details, x # k PROVE InLane(x)'
  <2>1. InLane(x) /\ details'[x] = details[x] /\ (x \in unmerged' <=> x \in unmerged)
    BY <1>1, <1>3, <1>8, <1>10
  <2>2. QED
    BY <1>1, <2>1 DEF InLane
<1>11. \A x \in DOMAIN details' : InLane(x)'
  BY <1>8, <1>9, <1>10
<1>12. QED
  BY <1>1, <1>3, <1>8, <1>11 DEF Merging

\* The reply.
LEMMA ReplyCovers ==
  ASSUME ViewInv, Merging, Reply
  PROVE  Covered'
<1>1. /\ topo' \in LimitFlowTopology(FilterTopologyToSelection(topo))
      /\ summary' = BuildCaptureSummary(events) /\ UNCHANGED <<events, sample>>
      /\ phase = "merge"
  BY DEF Reply
<1>2. Carries(topo, sample, Len(sample)) /\ DOMAIN topo.edges = Ends(sample, Len(sample))
  BY <1>1 DEF Merging, ViewInv, Aggregated, Accounts
<1> DEFINE s == FilterTopologyToSelection(topo)
<1>3. \A k \in DOMAIN topo'.edges : k \in DOMAIN s.edges /\ topo'.edges[k] = s.edges[k]
  BY <1>1, LimitKeeps
<1>4. /\ \A k : k \in DOMAIN s.edges <=> k \in DOMAIN topo.edges /\ Selected(k)
      /\ \A k \in DOMAIN s.edges : s.edges[k] = topo.edges[k]
  BY FilterKeeps
<1> HIDE DEF s
<1>5. ASSUME NEW k \in DOMAIN topo'.edges
      PROVE  /\ k \in Ends(sample, Len(sample)) /\ Selected(k)
             /\ topo'.edges[k].bytes = SumFunctionOnSet(Bytes(sample), On(sample, Len(sample), k))
  <2>1. k \in DOMAIN topo.edges /\ Selected(k) /\ topo'.edges[k] = topo.edges[k]
    BY <1>3, <1>4
  <2>2. CarriesOn(topo.edges[k], sample, Len(sample), k)
    BY <1>2, <2>1 DEF Carries
  <2>3. QED
    BY <1>2, <2>1, <2>2 DEF CarriesOn
<1>6. summary' = BuildCaptureSummary(events') /\ sample' = sample
  BY <1>1
<1>7. \A k \in DOMAIN topo'.edges : Selected(k)'
  BY <1>5 DEF Selected, TrackedPods
<1>8. QED
  BY <1>5, <1>6, <1>7 DEF Covered

\* A packet and a step of the handler preserve all of it.
LEMMA FlowStep == ViewInv /\ FlowInv /\ [Next]_vars => FlowInv'
<1> SUFFICES ASSUME ViewInv, FlowInv, [Next]_vars PROVE FlowInv'
  OBVIOUS
<1>0. Snapshots /\ KeyInv /\ Carried /\ Merging /\ Covered
  BY DEF ViewInv, FlowInv
<1>1. ASSUME NEW p \in Packets, AppendFlow(p) PROVE FlowInv'
  <2>1. KeyInv'
    BY <1>0, <1>1, AppendKeepsKeys
  <2>2. UNCHANGED <<phase, events, sample, todo, topo, details, unmerged, summary>>
    BY <1>1 DEF AppendFlow, view
  <2>3. Carried' /\ Merging' /\ Covered'
    BY <1>0, <2>2 DEF Carried, Merging, InLane, Covered
  <2>4. QED
    BY <2>1, <2>3 DEF FlowInv
<1>2. ASSUME HandleObservability PROVE FlowInv'
  <2>1. Keyed(events') /\ Buffered(events')
    BY <1>0, <1>2, EventsNowAreKeyed DEF HandleObservability, KeyInv
  <2>2. UNCHANGED <<buffers, clock, sample>> /\ phase' = "events"
    BY <1>2 DEF HandleObservability
  <2>3. KeyInv'
    BY <1>0, <2>1, <2>2 DEF KeyInv, Logged, Keyed, Buffered
  <2>4. QED
    BY <2>2, <2>3 DEF FlowInv, Carried, Merging, Covered
<1>3. ASSUME BuildBoundedTopology PROVE FlowInv'
  <2>1. /\ UNCHANGED <<buffers, clock, events, topo>> /\ phase' = "aggregate" /\ todo' = sample'
        /\ phase = "events"
    BY <1>3 DEF BuildBoundedTopology
  <2>2. PICK evs \in EventsNow : sample' = SampleEventsForGraph(evs)
    BY <1>3 DEF BuildBoundedTopology
  <2>3. evs \in Seq(Packet) /\ Keyed(evs) /\ Buffered(evs)
    BY <1>0, EventsNowArePackets, EventsNowAreKeyed DEF KeyInv
  <2>4. Keyed(sample') /\ Buffered(sample')
    BY <2>2, <2>3, SampleIsKeyed
  <2>5. KeyInv'
    BY <1>0, <2>1, <2>4 DEF KeyInv, Logged, Keyed, Buffered
  <2>6. Carried'
    <3>1. topo' = EmptyTopology
      BY <2>1 DEF ViewInv, Unread
    <3>2. DOMAIN topo'.edges = {}
      BY <3>1 DEF EmptyTopology
    <3>3. QED
      BY <3>2 DEF Carried, Carries
  <2>7. QED
    BY <2>1, <2>5, <2>6 DEF FlowInv, Merging, Covered
<1>4. ASSUME AggregateEvent PROVE FlowInv'
  <2> DEFINE d == Len(sample) - Len(todo)
  <2>1. /\ phase = "aggregate" /\ phase' = "aggregate" /\ todo # <<>>
        /\ topo' = Aggregate(topo, Head(todo)) /\ todo' = Tail(todo)
        /\ UNCHANGED <<buffers, clock, events, sample>>
    BY <1>4 DEF AggregateEvent
  <2>2. sample \in Seq(Packet) /\ todo \in Seq(Packet) /\ Keyed(sample)
    BY <1>0 DEF Snapshots, KeyInv
  <2>3. /\ d \in Nat /\ Accounts(topo, sample, d) /\ Carries(topo, sample, d)
        /\ \A i \in 1..Len(todo) : todo[i] = sample[d + i]
    BY <1>0, <2>1 DEF ViewInv, Aggregating, Carried
  <2>4. /\ Len(todo) \in Nat \ {0} /\ Len(sample) \in Nat
        /\ Head(todo) = todo[1] /\ Len(Tail(todo)) = Len(todo) - 1
    BY <2>1, <2>2
  <2>5. Head(todo) = sample[d+1] /\ Len(sample') - Len(todo') = d + 1 /\ d + 1 <= Len(sample)
    BY <2>1, <2>3, <2>4
  <2> HIDE DEF d
  <2>6. Carries(Aggregate(topo, sample[d+1]), sample, d+1)
    BY <2>2, <2>3, <2>5, AggregateCarries
  <2>7. Carried'
    BY <2>1, <2>5, <2>6 DEF Carried
  <2>8. KeyInv'
    BY <1>0, <2>1 DEF KeyInv, Logged, Keyed, Buffered
  <2>9. QED
    BY <2>1, <2>7, <2>8 DEF FlowInv, Merging, Covered
<1>5. ASSUME FinishTopology PROVE FlowInv'
  <2>1. /\ phase = "aggregate" /\ phase' = "merge" /\ todo = <<>>
        /\ details' = [k \in DOMAIN topo.edges |-> topo.edges[k].steps]
        /\ unmerged' = DOMAIN topo.edges
        /\ UNCHANGED <<buffers, clock, events, sample, topo>>
    BY <1>5 DEF FinishTopology
  <2>2. Carries(topo, sample, Len(sample))
    <3>1. Len(sample) \in Nat /\ Len(todo) = 0
      BY <1>0, <2>1 DEF Snapshots
    <3>2. Len(sample) - Len(todo) = Len(sample)
      BY <3>1
    <3>3. QED
      BY <1>0, <2>1, <3>2 DEF Carried
  <2>3. ASSUME NEW k \in DOMAIN details' PROVE InLane(k)'
    <3>1. k \in DOMAIN topo.edges /\ details'[k] = topo.edges[k].steps
      BY <2>1
    <3>2. topo.edges[k].steps \in Seq(StepType)
      BY <2>2, <3>1 DEF Carries, CarriesOn, StepsOf
    <3>3. QED
      BY <2>1, <3>1, <3>2 DEF InLane
  <2>4. Merging'
    BY <2>1, <2>2, <2>3 DEF Merging
  <2>5. KeyInv'
    BY <1>0, <2>1 DEF KeyInv, Logged, Keyed, Buffered
  <2>6. QED
    BY <2>1, <2>4, <2>5 DEF FlowInv, Carried, Covered
<1>6. ASSUME NEW k \in unmerged, MergeSequence(k) PROVE FlowInv'
  <2>1. phase' = "merge" /\ UNCHANGED <<buffers, clock, events, sample>>
    BY <1>6 DEF MergeSequence
  <2>2. Merging'
    BY <1>0, <1>6, MergeKeepsLanes
  <2>3. KeyInv'
    BY <1>0, <2>1 DEF KeyInv, Logged, Keyed, Buffered
  <2>4. QED
    BY <2>1, <2>2, <2>3 DEF FlowInv, Carried, Covered
<1>7. ASSUME Reply PROVE FlowInv'
  <2>1. phase' = "replied" /\ UNCHANGED <<buffers, clock, events, sample>>
    BY <1>7 DEF Reply
  <2>2. Covered'
    BY <1>0, <1>7, ReplyCovers
  <2>3. KeyInv'
    BY <1>0, <2>1 DEF KeyInv, Logged, Keyed, Buffered
  <2>4. QED
    BY <2>1, <2>2, <2>3 DEF FlowInv, Carried, Merging
<1>8. CASE UNCHANGED vars
  <2>1. /\ UNCHANGED <<buffers, clock, phase, events, sample>>
        /\ UNCHANGED <<todo, topo, details, unmerged, summary>>
    BY <1>8 DEF vars
  <2>2. KeyInv'
    BY <1>0, <2>1 DEF KeyInv, Logged, Keyed, Buffered
  <2>3. Carried' /\ Merging' /\ Covered'
    BY <1>0, <2>1 DEF Carried, Merging, InLane, Covered
  <2>4. QED
    BY <2>2, <2>3 DEF FlowInv
<1>9. QED
  BY <1>1, <1>2, <1>3, <1>4, <1>5, <1>6, <1>7, <1>8 DEF Next

LEMMA FlowInvariant == Spec => [](ViewInv /\ FlowInv)
<1>1. QED
  BY ViewInit, ViewStep, FlowInit, FlowStep, PTL DEF Spec

LEMMA LanesAreKept == ASSUME ViewInv, FlowInv PROVE LanesKeepTheirPackets
<1> SUFFICES ASSUME phase = "merge" PROVE LanesKeepTheirPackets
  BY DEF LanesKeepTheirPackets
<1>1. \A k \in DOMAIN details \ unmerged : Lane(details[k], topo.edges[k].steps)
  BY DEF FlowInv, Merging, InLane
<1>2. QED
  BY <1>1, Zenon DEF LanesKeepTheirPackets, Lane

-----------------------------------------------------------------------------
(* The statistics, against the map.                                            *)

\* The sum of a function is that over its domain.
LEMMA SumFunctionIs == ASSUME NEW f PROVE SumFunction(f) = SumFunctionOnSet(f, DOMAIN f)
BY DEF SumFunction, SumFunctionOnSet, FoldFunction

Caused(d) == d.cause # ""

Full(evs) == FilterTopologyToSelection(BuildFlowTopology(evs))

HealthOf(edges) == [k \in DOMAIN edges |-> edgeHealth(edges[k])]

\* The parts of the summary that the reply's map is held against.
LEMMA SummaryIs ==
  ASSUME NEW evs, NEW s, s = BuildCaptureSummary(evs)
  PROVE  /\ s.edges = Full(evs).edges
         /\ s.health = CountBy(HealthOf(Full(evs).edges), Counts(Full(evs)))
         /\ s.dropEdges = Cardinality({k \in DOMAIN Full(evs).edges : Caused(Full(evs).edges[k])})
         /\ s.buckets = sortedBuckets(evs)
<1>1. s.edges = Full(evs).edges /\ s.buckets = sortedBuckets(evs)
  BY Zenon DEF BuildCaptureSummary, Full
<1>2. s.health = CountBy(HealthOf(Full(evs).edges), Counts(Full(evs)))
  BY Zenon DEF BuildCaptureSummary, Full, HealthOf
<1>3. s.dropEdges = Cardinality({k \in DOMAIN Full(evs).edges : Caused(Full(evs).edges[k])})
  BY Zenon DEF BuildCaptureSummary, Full, Caused
<1>4. QED
  BY <1>1, <1>2, <1>3

\* The edges that the statistics are of.
LEMMA FullIs ==
  ASSUME NEW evs \in Seq(Packet), Keyed(evs)
  PROVE  /\ \A k : k \in DOMAIN Full(evs).edges <=> k \in Ends(evs, Len(evs)) /\ Selected(k)
         /\ IsFiniteSet(DOMAIN Full(evs).edges)
         /\ \A k \in DOMAIN Full(evs).edges :
              /\ Full(evs).edges[k].bytes = SumFunctionOnSet(Bytes(evs), On(evs, Len(evs), k))
              /\ Full(evs).edges[k].count \in Nat
<1> DEFINE t == BuildFlowTopology(evs)
           u == Full(evs)
           n == Len(evs)
<1>1. n \in Nat /\ n \in 0..n
  OBVIOUS
<1>2. Accounts(t, evs, n) /\ Carries(t, evs, n)
  BY BuildAccounts, BuildCarries
<1>3. /\ \A k : k \in DOMAIN u.edges <=> k \in DOMAIN t.edges /\ Selected(k)
      /\ \A k \in DOMAIN u.edges : u.edges[k] = t.edges[k]
  BY FilterKeeps DEF Full
<1> HIDE DEF t, u, n
<1>4. \A k \in Ends(evs, n) : t.edges[k].count = Cardinality(On(evs, n, k))
  BY <1>2 DEF Accounts
<1>5. DOMAIN t.edges = Ends(evs, n)
  BY <1>2 DEF Accounts
<1>6. \A k : Cardinality(On(evs, n, k)) \in Nat
  BY <1>1, BytesAreNat, FS_CardinalityType DEF n
<1>7. \A k \in DOMAIN u.edges : /\ u.edges[k].bytes = SumFunctionOnSet(Bytes(evs), On(evs, n, k))
                                /\ u.edges[k].count \in Nat
  <2> SUFFICES ASSUME NEW k \in DOMAIN u.edges
               PROVE  /\ u.edges[k].bytes = SumFunctionOnSet(Bytes(evs), On(evs, n, k))
                      /\ u.edges[k].count \in Nat
    OBVIOUS
  <2>1. k \in DOMAIN t.edges /\ u.edges[k] = t.edges[k]
    BY <1>3
  <2>2. CarriesOn(t.edges[k], evs, n, k)
    BY <1>2, <2>1 DEF Carries
  <2>3. t.edges[k].count \in Nat
    BY <1>4, <1>5, <1>6, <2>1
  <2>4. QED
    BY <2>1, <2>2, <2>3 DEF CarriesOn
<1>8. IsFiniteSet(DOMAIN u.edges)
  <2>1. IsFiniteSet(Ends(evs, n)) /\ DOMAIN u.edges \in SUBSET Ends(evs, n)
    BY <1>1, <1>3, <1>5, EndsAreFinite
  <2>2. QED
    BY <2>1, FS_Subset
<1>9. \A k : k \in DOMAIN u.edges <=> k \in Ends(evs, n) /\ Selected(k)
  BY <1>3, <1>5
<1>10. QED
  BY <1>7, <1>8, <1>9 DEF u, n

\* The buckets hold every packet once.
LEMMA BucketsCount ==
  ASSUME NEW evs \in Seq(Packet)
  PROVE  LET buckets == sortedBuckets(evs)
         IN SumFunction([b \in DOMAIN buckets |-> buckets[b].packets]) = Len(evs)
<1> DEFINE n == Len(evs)
           I == 1..n
           buckets == sortedBuckets(evs)
           h == [b \in DOMAIN buckets |-> buckets[b].packets]
           of == [i \in I |-> bucketOf(evs[i], evs[1].at)]
           V == {of[i] : i \in I}
           w == [i \in I |-> 1]
<1>1. n \in Nat /\ DOMAIN evs = I /\ IsFiniteSet(I) /\ Cardinality(I) = n
  <2>1. n \in Nat /\ DOMAIN evs = I
    OBVIOUS
  <2> HIDE DEF n
  <2>2. IsFiniteSet(1..n) /\ Cardinality(1..n) = IF 1 > n THEN 0 ELSE n - 1 + 1
    BY <2>1, FS_Interval
  <2>3. QED
    BY <2>1, <2>2
<1>2. DOMAIN buckets = V /\ \A b \in V : buckets[b].packets = Cardinality(Fibre(of, I, b))
  <2> DEFINE in(b) == {i \in I : bucketOf(evs[i], evs[1].at) = b}
             r(b) == [packets |-> Cardinality(in(b)), bytes |-> SumFunction([i \in in(b) |-> evs[i].len])]
  <2>1. V = {bucketOf(evs[i], evs[1].at) : i \in I}
    OBVIOUS
  <2>2. buckets = [b \in {bucketOf(evs[i], evs[1].at) : i \in I} |-> r(b)]
    BY <1>1 DEF sortedBuckets
  <2>3. \A b : Fibre(of, I, b) = in(b)
    BY DEF Fibre
  <2>4. \A b : r(b).packets = Cardinality(in(b))
    OBVIOUS
  <2> HIDE DEF r, in, V, of, buckets
  <2>5. QED
    BY <2>1, <2>2, <2>3, <2>4
<1>3. IsFiniteSet(V)
  <2>1. of = [i \in I |-> of[i]]
    OBVIOUS
  <2>2. IsFiniteSet(I)
    BY <1>1
  <2> HIDE DEF of, I
  <2>3. IsFiniteSet({of[i] : i \in I})
    BY <2>1, <2>2, ImageIsFinite
  <2>4. QED
    BY <2>3
<1>4. \A i \in I : w[i] = 1 /\ w[i] \in Nat /\ of[i] \in V
  OBVIOUS
<1> HIDE DEF n, I, buckets, of, V, w
<1>5. DOMAIN h = V /\ \A b \in V : h[b] = Cardinality(Fibre(of, I, b))
  BY <1>2
<1> HIDE DEF h
<1>6. ASSUME NEW b \in V PROVE h[b] = SumFunctionOnSet(w, Fibre(of, I, b))
  <2> DEFINE F == Fibre(of, I, b)
  <2>1. F \in SUBSET I
    BY DEF Fibre
  <2> HIDE DEF F
  <2>2. IsFiniteSet(F)
    BY <1>1, <2>1, FS_Subset
  <2>3. \A i \in F : w[i] = 1
    BY <1>4, <2>1
  <2>4. SumFunctionOnSet(w, F) = Cardinality(F)
    BY <2>2, <2>3, SumOfOnes
  <2>5. QED
    BY <1>5, <2>4 DEF F
<1>7. SumFunctionOnSet(h, V) = SumFunctionOnSet(w, I)
  <2>1. \A i \in I : w[i] \in Nat
    BY <1>4
  <2>2. \A i \in I : of[i] \in V
    BY <1>4
  <2>3. QED
    BY <1>1, <1>3, <1>6, <2>1, <2>2, SumOfFibres
<1>8. SumFunctionOnSet(w, I) = Cardinality(I)
  <2>1. \A i \in I : w[i] = 1
    BY <1>4
  <2>2. QED
    BY <1>1, <2>1, SumOfOnes
<1>9. SumFunction(h) = SumFunctionOnSet(h, V)
  BY <1>5, SumFunctionIs
<1>10. QED
  BY <1>1, <1>7, <1>8, <1>9 DEF h, buckets, n

\* The health counts every packet of an edge once.
LEMMA HealthCounts ==
  ASSUME NEW t, IsFiniteSet(DOMAIN t.edges), \A k \in DOMAIN t.edges : t.edges[k].count \in Nat
  PROVE  SumFunction(CountBy(HealthOf(t.edges), Counts(t))) = SumFunction(Counts(t))
<1> DEFINE S == DOMAIN t.edges
           w == Counts(t)
           of == HealthOf(t.edges)
           V == {of[k] : k \in S}
           h == CountBy(of, w)
<1>1. DOMAIN w = S /\ \A k \in S : w[k] \in Nat
  BY DEF Counts
<1>2. DOMAIN of = S /\ of = [k \in S |-> of[k]] /\ \A k \in S : of[k] \in V
  BY DEF HealthOf
<1> HIDE DEF w, of
<1>3. Range(of) = V
  BY <1>2 DEF Range
<1>4. h = [v \in V |-> SumFunctionOnSet(w, Fibre(of, S, v))]
  BY <1>2, <1>3 DEF CountBy, Fibre
<1>5. DOMAIN h = V /\ \A v \in V : h[v] = SumFunctionOnSet(w, Fibre(of, S, v))
  BY <1>4
<1> HIDE DEF S, h
<1>6. IsFiniteSet(S)
  BY DEF S
<1>7. IsFiniteSet(V)
  BY <1>2, <1>6, ImageIsFinite
<1> HIDE DEF V
<1>8. SumFunctionOnSet(h, V) = SumFunctionOnSet(w, S)
  BY <1>1, <1>2, <1>5, <1>6, <1>7, SumOfFibres
<1>9. SumFunction(h) = SumFunctionOnSet(h, V) /\ SumFunction(w) = SumFunctionOnSet(w, S)
  BY <1>1, <1>5, SumFunctionIs
<1>10. QED
  BY <1>8, <1>9 DEF h, w, of

\* Drops are in the health just when there are edges with one.
LEMMA DropsAreInHealth ==
  ASSUME NEW edges, IsFiniteSet(DOMAIN edges), NEW w
  PROVE  Cardinality({k \in DOMAIN edges : Caused(edges[k])}) > 0
           <=> "dropped" \in DOMAIN CountBy(HealthOf(edges), w)
<1> DEFINE D == {k \in DOMAIN edges : Caused(edges[k])}
<1>1. DOMAIN CountBy(HealthOf(edges), w) = {edgeHealth(edges[k]) : k \in DOMAIN edges}
  BY DEF CountBy, HealthOf, Range
<1>2. \A d : edgeHealth(d) = "dropped" <=> Caused(d)
  BY Zenon DEF edgeHealth, Caused
<1>3. D # {} <=> \E k \in DOMAIN edges : Caused(edges[k])
  OBVIOUS
<1>4. IsFiniteSet(D)
  BY FS_Subset
<1> HIDE DEF D
<1>5. Cardinality(D) \in Nat /\ (Cardinality(D) = 0 <=> D = {})
  BY <1>4, FS_CardinalityType, FS_EmptySet
<1>6. Cardinality(D) > 0 <=> D # {}
  BY <1>5
<1>7. QED
  BY <1>1, <1>2, <1>3, <1>6 DEF D

\* Every packet of the sample is one of the events, when those are all.
LEMMA SampledAreEvents ==
  ASSUME KeyInv, clock \in Nat, events \in Seq(Packet), sample \in Seq(Packet),
         {ev.pkt : ev \in Range(events)} = 0..(clock - 1), NEW x \in 1..Len(sample)
  PROVE  \E y \in 1..Len(events) : events[y] = sample[x]
<1>1. PICK p \in DOMAIN buffers : \E i \in 1..Len(buffers[p]) : sample[x] = buffers[p][i]
  BY DEF KeyInv, Buffered
<1>2. PICK i \in 1..Len(buffers[p]) : sample[x] = buffers[p][i]
  BY <1>1
<1>3. sample[x].pkt \in 0..(clock - 1)
  BY <1>2 DEF KeyInv, Logged
<1>4. PICK y \in 1..Len(events) : events[y].pkt = sample[x].pkt
  BY <1>3 DEF Range
<1>5. PICK q \in DOMAIN buffers : \E j \in 1..Len(buffers[q]) : events[y] = buffers[q][j]
  BY DEF KeyInv, Buffered
<1>6. PICK j \in 1..Len(buffers[q]) : events[y] = buffers[q][j]
  BY <1>5
<1>7. p = q /\ i = j
  BY <1>2, <1>4, <1>6 DEF KeyInv, Logged
<1>8. QED
  BY <1>2, <1>6, <1>7

\* What the sample has on an edge, the events have.
LEMMA EventsCarryMore ==
  ASSUME NEW evs \in Seq(Packet), NEW smp \in Seq(Packet), Keyed(smp),
         \A x \in 1..Len(smp) : \E y \in 1..Len(evs) : evs[y] = smp[x], NEW k
  PROVE  /\ k \in Ends(smp, Len(smp)) => k \in Ends(evs, Len(evs))
         /\ SumFunctionOnSet(Bytes(smp), On(smp, Len(smp), k))
              <= SumFunctionOnSet(Bytes(evs), On(evs, Len(evs), k))
<1> DEFINE n == Len(smp)
           m == Len(evs)
           f == [x \in 1..n |-> CHOOSE y \in 1..m : evs[y] = smp[x]]
           S == On(smp, n, k)
           T == On(evs, m, k)
           w == Bytes(smp)
           w2 == Bytes(evs)
<1>1. \A x \in 1..n : f[x] \in 1..m /\ evs[f[x]] = smp[x]
  OBVIOUS
<1> HIDE DEF f
<1>2. n \in Nat /\ m \in Nat /\ n \in 0..n /\ m \in 0..m
  OBVIOUS
<1>3. \A x, y \in 1..n : f[x] = f[y] => x = y
  <2> SUFFICES ASSUME NEW x \in 1..n, NEW y \in 1..n, f[x] = f[y] PROVE x = y
    OBVIOUS
  <2>1. smp[x] = smp[y]
    BY <1>1
  <2>2. QED
    BY <2>1 DEF Keyed
<1>4. k \in Ends(smp, n) => k \in Ends(evs, m)
  BY <1>1 DEF Ends, Known
<1>5. S \in SUBSET (1..n) /\ IsFiniteSet(S) /\ \A x \in 1..n : w[x] \in Nat
  BY <1>2, BytesAreNat
<1>6. T \in SUBSET (1..m) /\ IsFiniteSet(T) /\ \A y \in 1..m : w2[y] \in Nat
  BY <1>2, BytesAreNat
<1>7. \A x \in S : f[x] \in T
  BY <1>1 DEF On
<1>8. \A x \in S : w2[f[x]] = w[x]
  <2>1. \A x \in 1..n : w[x] = flowCounters(smp[x]).bytes
    BY DEF Bytes
  <2>2. \A y \in 1..m : w2[y] = flowCounters(evs[y]).bytes
    BY DEF Bytes
  <2> HIDE DEF w, w2
  <2> SUFFICES ASSUME NEW x \in S PROVE w2[f[x]] = w[x]
    OBVIOUS
  <2>3. x \in 1..n
    BY <1>5
  <2> HIDE DEF S, n, m
  <2>4. f[x] \in 1..m /\ evs[f[x]] = smp[x]
    BY <1>1, <2>3
  <2>5. w2[f[x]] = flowCounters(evs[f[x]]).bytes
    BY <2>2, <2>4
  <2>6. w[x] = flowCounters(smp[x]).bytes
    BY <2>1, <2>3
  <2>7. QED
    BY <2>4, <2>5, <2>6
<1> HIDE DEF S, T, w, w2
<1>9. SumFunctionOnSet(w2, {f[x] : x \in S}) = SumFunctionOnSet(w, S)
  <2>1. \A x \in S : w[x] \in Nat
    BY <1>5
  <2>2. \A x, y \in S : f[x] = f[y] => x = y
    BY <1>3, <1>5
  <2>3. IsFiniteSet(S)
    BY <1>5
  <2>4. QED
    BY <1>8, <2>1, <2>2, <2>3, SumOfImage
<1>10. SumFunctionOnSet(w2, {f[x] : x \in S}) <= SumFunctionOnSet(w2, T)
  <2> DEFINE R == {f[x] : x \in S}
  <2>1. R \in SUBSET T /\ \A y \in T : w2[y] \in Nat
    BY <1>6, <1>7
  <2> HIDE DEF R
  <2>2. SumFunctionOnSet(w2, R) <= SumFunctionOnSet(w2, T)
    BY <1>6, <2>1, SumOfPart
  <2>3. QED
    BY <2>2 DEF R
<1>11. QED
  BY <1>4, <1>9, <1>10 DEF S, T, w, w2

\* The statistics of the reply cover its map.
LEMMA StatisticsCover == ASSUME ViewInv, FlowInv PROVE SummaryCoversView
<1> DEFINE cut == {ev.pkt : ev \in Range(events)} = 0..(clock - 1)
           buckets == summary.buckets
<1> SUFFICES ASSUME phase = "replied", cut
             PROVE  /\ DOMAIN topo.edges \subseteq DOMAIN summary.edges
                    /\ \A k \in DOMAIN topo.edges : topo.edges[k].bytes <= summary.edges[k].bytes
                    /\ SumFunction([b \in DOMAIN buckets |-> buckets[b].packets]) = Len(events)
                    /\ SumFunction(summary.health) = SumFunction(Counts(summary))
                    /\ summary.dropEdges > 0 <=> "dropped" \in DOMAIN summary.health
  BY Zenon DEF SummaryCoversView
<1>1. /\ events \in Seq(Packet) /\ sample \in Seq(Packet) /\ clock \in Nat
      /\ KeyInv /\ Keyed(events) /\ Keyed(sample)
  BY DEF ViewInv, Snapshots, FlowInv, KeyInv
<1>2. /\ summary = BuildCaptureSummary(events)
      /\ \A k \in DOMAIN topo.edges :
           /\ k \in Ends(sample, Len(sample)) /\ Selected(k)
           /\ topo.edges[k].bytes = SumFunctionOnSet(Bytes(sample), On(sample, Len(sample), k))
  BY DEF FlowInv, Covered
<1> DEFINE full == Full(events)
<1>3. /\ summary.edges = full.edges
      /\ summary.health = CountBy(HealthOf(full.edges), Counts(full))
      /\ summary.dropEdges = Cardinality({k \in DOMAIN full.edges : Caused(full.edges[k])})
      /\ buckets = sortedBuckets(events)
  BY <1>2, SummaryIs
<1>4. /\ \A k : k \in DOMAIN full.edges <=> k \in Ends(events, Len(events)) /\ Selected(k)
      /\ IsFiniteSet(DOMAIN full.edges)
      /\ \A k \in DOMAIN full.edges :
           /\ full.edges[k].bytes = SumFunctionOnSet(Bytes(events), On(events, Len(events), k))
           /\ full.edges[k].count \in Nat
  BY <1>1, FullIs
<1> HIDE DEF full
<1>5. \A x \in 1..Len(sample) : \E y \in 1..Len(events) : events[y] = sample[x]
  BY <1>1, SampledAreEvents
<1>6. ASSUME NEW k \in DOMAIN topo.edges
      PROVE  k \in DOMAIN summary.edges /\ topo.edges[k].bytes <= summary.edges[k].bytes
  <2>1. /\ k \in Ends(sample, Len(sample)) => k \in Ends(events, Len(events))
        /\ SumFunctionOnSet(Bytes(sample), On(sample, Len(sample), k))
             <= SumFunctionOnSet(Bytes(events), On(events, Len(events), k))
    BY <1>1, <1>5, EventsCarryMore
  <2>2. k \in DOMAIN full.edges
    BY <1>2, <1>4, <2>1
  <2>3. QED
    BY <1>2, <1>3, <1>4, <2>1, <2>2
<1>7. SumFunction([b \in DOMAIN buckets |-> buckets[b].packets]) = Len(events)
  BY <1>1, <1>3, BucketsCount
<1>8. SumFunction(summary.health) = SumFunction(Counts(summary))
  <2>1. Counts(summary) = Counts(full)
    BY <1>3 DEF Counts
  <2>2. SumFunction(CountBy(HealthOf(full.edges), Counts(full))) = SumFunction(Counts(full))
    BY <1>4, HealthCounts
  <2>3. QED
    BY <1>3, <2>1, <2>2
<1>9. summary.dropEdges > 0 <=> "dropped" \in DOMAIN summary.health
  BY <1>3, <1>4, DropsAreInHealth
<1>10. QED
  BY <1>6, <1>7, <1>8, <1>9

-----------------------------------------------------------------------------
(* The theorems.                                                               *)

\* For any packets and limits, the failed handshakes that a reply counts are
\* the SYNs of its snapshot that no SYN+ACK of either direction answers, in
\* whatever order the pods' buffers brought the two.
THEOREM HandshakesAreCounted == Spec => []HandshakesOrderFree
<1>1. QED
  BY ViewInvariant, FailedHandshakes, PTL

\* For any packets, the topology that BuildFlowTopology has after each packet
\* is that of the packets so far: its edges and their counts are those of
\* BuildFlowGraph, and an edge is shown as dropped iff one of its packets was.
THEOREM TopologyAccounts == Spec => []EdgesAccount
<1>1. QED
  BY ViewInvariant, EdgesOfTheDone, PTL

\* For any packets, selection and limits, and however the ties between equally
\* heavy edges and nodes fall, the reply is closed: its edges join nodes that
\* it shows, they have their details, the limits hold, and a tracked pod is
\* missing only when no packet of the sample was its own.
THEOREM RepliesAreClosed == Spec => []ViewIsClosed
<1>1. QED
  BY ViewInvariant, ReplyHangsTogether, PTL

\* For any packets and limits, and whichever way sort.Slice leaves packets of
\* one time, a merged sequence has a forward lane that is in the order of time,
\* shows packets of the edge itself, each once, and misses none that the edge
\* kept and that is older than the last one shown; also when the opposite edge
\* was merged before it and is read as already merged.
THEOREM LanesKeep == Spec => []LanesKeepTheirPackets
<1>1. QED
  BY FlowInvariant, LanesAreKept, PTL

\* For any packets, selection and limits, a reply whose snapshot had every
\* packet has in its statistics each edge that its map shows, with no fewer
\* bytes than the map gives it, though the map is of a later, cut snapshot; the
\* buckets hold every packet once, the health counts the packets of the edges
\* once, and it speaks of drops just when an edge has one.
THEOREM SummaryCovers == Spec => []SummaryCoversView
<1>1. QED
  BY FlowInvariant, StatisticsCover, PTL
=============================================================================
