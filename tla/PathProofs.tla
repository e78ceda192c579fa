------------------------------ MODULE PathProofs ------------------------------
(***************************************************************************)
(* What a capture's selection and the reply of POST /trace/path promise,   *)
(* for any cluster.  First the folds and the operators of TraceGraph, turn *)
(* by turn: whatever an object adds, the graph stays Sound.  Then the      *)
(* search: Balls are what so many steps reach, and Searching says that     *)
(* the queue holds walks of two successive lengths.  PathInv carries both  *)
(* through the handler, HonourInv what each undisturbed pod is owed.       *)
(***************************************************************************)
EXTENDS PathDiscovery, WellFoundedInduction, FiniteSetTheorems, SequenceTheorems, TLAPS

\* A set of natural numbers has a least one.
LEMMA LeastNatural ==
  ASSUME NEW T \in SUBSET Nat, T # {}
  PROVE  \E m \in T : \A n \in T : m <= n
<1> DEFINE R == OpToRel(<, Nat)
<1>1. IsWellFoundedOn(R, Nat)
  BY NatLessThanWellFounded
<1>2. \A x, y \in Nat : <<y, x>> \in R <=> y < x
  BY DEF OpToRel
<1> HIDE DEF R
<1>3. PICK x \in T : \A y \in T : ~ (<<y, x>> \in R)
  BY <1>1, WFMin
<1>4. \A y \in T : ~ (y < x)
  BY <1>2, <1>3
<1>5. QED
  BY <1>4

\* Induction, with a set for the predicate: the provers cannot instantiate an
\* operator.
LEMMA InductionOverNat ==
  ASSUME NEW S, 0 \in S, \A n \in Nat : n \in S => n + 1 \in S
  PROVE  Nat \subseteq S
<1>1. SUFFICES ASSUME Nat \ S # {} PROVE FALSE
  OBVIOUS
<1>2. PICK m \in Nat \ S : \A n \in Nat \ S : m <= n
  BY <1>1, LeastNatural
<1>3. m - 1 \in Nat /\ m - 1 \notin Nat \ S
  BY <1>2
<1>4. QED
  BY <1>2, <1>3

-----------------------------------------------------------------------------
(* The loops of discovery are FoldLeft of a turn.  Turn names them all, so that *)
(* what a fold does is proved once: t says which loop it is and what it uses.   *)

\* The name of a loop, with what its body reads besides the value so far and the item.
Loop(name, a, b) == [loop |-> name, a |-> a, b |-> b]

\* One turn of each loop: the value x after item i.
Turn(t, x, i) ==
  CASE t.loop = "node" -> addNode(x, i)
    [] t.loop = "edge" -> addEdge(x, i)
    [] t.loop = "endpoint" -> Endpoint(x, i)
    [] t.loop = "source" -> SourceEndpoint(x, i)
    [] t.loop = "service" -> ServiceHit(x, i, t.a)
    [] t.loop = "nad" -> AttachNad(x, i, t.a)
    [] t.loop = "route" -> RouteHit(x, i)
    [] t.loop = "peer" -> AddPeer(x, t.a, i)
    [] t.loop = "ad" -> AddAd(x, t.a, i, t.b)
    [] t.loop = "egressip" -> EgressIPHit(x, i, t.a, t.b)
    [] t.loop = "egressservice" -> EgressServiceHit(x, i, t.a)
    [] t.loop = "visit" -> (IF Last(t.a) \in {i.from, i.to} /\ Other(i, Last(t.a)) \notin x.visited
                            THEN [x EXCEPT !.visited = @ \cup {Other(i, Last(t.a))},
                                           !.queue = Append(@, Append(t.a, Other(i, Last(t.a))))]
                            ELSE x)
    [] t.loop = "unseen" -> (IF \E f \in Range(x) : f.uid = t.a[i] /\ f.pod = i THEN x
                             ELSE Append(x, [pod |-> i, uid |-> t.a[i]]))
    [] t.loop = "within" -> IF i.from \in t.a /\ i.to \in t.a THEN Append(x, i) ELSE x
    [] t.loop = "owners" -> IF i.type # "owner" \/ \E o \in Range(x) : ownerKey(o) = ownerKey(i)
                            THEN x ELSE Append(x, i)
    [] t.loop = "pods" -> IF i.type = "pod" THEN Append(x, i) ELSE x

\* The recursive function that a fold computes with, and what it returns.
FoldStep(f, t, s, x) == Turn(t, f[x \ {Max(x)}], s[Max(x)])

\* f is the recursive function by which a fold over s is computed.
IsFold(f, t, base, s) ==
  f = [x \in SUBSET (DOMAIN s) |-> IF x = {} THEN base ELSE FoldStep(f, t, s, x)]

\* The fold of a loop over the sequence s.
Fold(t, base, s) == (CHOOSE f : IsFold(f, t, base, s))[DOMAIN s]

\* The recursive function of a fold takes the turn of the last index.
LEMMA FoldValue ==
  ASSUME NEW f, NEW t, NEW base, NEW s, IsFold(f, t, base, s), NEW x \in SUBSET (DOMAIN s)
  PROVE  f[x] = IF x = {} THEN base ELSE FoldStep(f, t, s, x)
<1> DEFINE e(y) == IF y = {} THEN base ELSE FoldStep(f, t, s, y)
<1>1. f = [y \in SUBSET (DOMAIN s) |-> e(y)]
  BY DEF IsFold
<1>2. f[x] = e(x)
  <2> HIDE DEF e
  <2>1. QED
    BY <1>1
<1>3. QED
  BY <1>2

\* The greatest element of a set with the top of a range.
LEMMA MaxOfRange ==
  ASSUME NEW n \in Nat, NEW s \in SUBSET (1..(n+1)), n + 1 \in s
  PROVE  Max(s) = n + 1
<1>1. \A y \in s : n + 1 >= y
  OBVIOUS
<1>2. \A x \in s : (\A y \in s : x >= y) => x = n + 1
  BY <1>1
<1>3. QED
  BY <1>1, <1>2 DEF Max

\* The greatest element of any set of indices is one of them.
LEMMA MaxIsMember ==
  ASSUME NEW n \in Nat, NEW x \in SUBSET (1..n), x # {}
  PROVE  Max(x) \in x
<1> DEFINE T == {n - i : i \in x}
<1>1. T \in SUBSET Nat /\ T # {}
  <2>1. \A i \in x : n - i \in Nat
    OBVIOUS
  <2>2. QED
    BY <2>1
<1>2. PICK m \in T : \A k \in T : m <= k
  BY <1>1, LeastNatural
<1>3. PICK i \in x : m = n - i
  BY <1>2
<1>4. \A j \in x : i >= j
  <2> TAKE j \in x
  <2>1. n - j \in T
    OBVIOUS
  <2>2. n - i <= n - j
    BY <1>2, <1>3, <2>1
  <2>3. i \in 1..n /\ j \in 1..n
    OBVIOUS
  <2> HIDE DEF T
  <2>4. QED
    BY <2>2, <2>3
<1>5. QED
  BY <1>4 DEF Max

\* There is such a function for every length: with one item more, the last turn
\* is taken on what the function has for the rest.
LEMMA FoldExists ==
  ASSUME NEW t, NEW base
  PROVE  \A n \in Nat : \A s : DOMAIN s = 1..n => \E f : IsFold(f, t, base, s)
<1> DEFINE S == {n \in Nat : \A s : DOMAIN s = 1..n => \E f : IsFold(f, t, base, s)}
<1>1. 0 \in S
  <2> SUFFICES ASSUME NEW s, DOMAIN s = 1..0 PROVE \E f : IsFold(f, t, base, s)
    OBVIOUS
  <2> DEFINE f == [x \in SUBSET (DOMAIN s) |-> base]
  <2>1. \A x \in SUBSET (DOMAIN s) : x = {}
    OBVIOUS
  <2>2. f = [x \in SUBSET (DOMAIN s) |-> IF x = {} THEN base ELSE FoldStep(f, t, s, x)]
    BY <2>1
  <2> HIDE DEF f
  <2>3. QED
    BY <2>2 DEF IsFold
<1>2. ASSUME NEW n \in Nat, n \in S PROVE n + 1 \in S
  <2> SUFFICES ASSUME NEW s, DOMAIN s = 1..(n+1) PROVE \E f : IsFold(f, t, base, s)
    OBVIOUS
  <2> DEFINE r == [i \in 1..n |-> s[i]]
  <2>1. DOMAIN r = 1..n
    OBVIOUS
  <2>2. PICK f : IsFold(f, t, base, r)
    BY <1>2, <2>1
  <2> DEFINE ef(x) == IF n + 1 \in x THEN Turn(t, f[x \ {n+1}], s[n+1]) ELSE f[x]
             h == [x \in SUBSET (1..(n+1)) |-> ef(x)]
             eg(x) == IF x = {} THEN base ELSE FoldStep(h, t, s, x)
  <2>3. \A x \in SUBSET (1..n) : n + 1 \notin x /\ x \in SUBSET (1..(n+1))
    OBVIOUS
  <2>4. \A x \in SUBSET (1..n) : h[x] = f[x]
    BY <2>3
  <2>5. ASSUME NEW x \in SUBSET (1..(n+1)) PROVE ef(x) = eg(x)
    <3> HIDE DEF h
    <3>1. CASE n + 1 \in x
      <4>1. Max(x) = n + 1 /\ x # {}
        BY <3>1, MaxOfRange
      <4>2. x \ {n+1} \in SUBSET (1..n)
        OBVIOUS
      <4>3. h[x \ {n+1}] = f[x \ {n+1}]
        BY <2>4, <4>2
      <4>4. QED
        BY <3>1, <4>1, <4>3 DEF FoldStep
    <3>2. CASE n + 1 \notin x
      <4>1. x \in SUBSET (1..n) /\ x \in SUBSET (DOMAIN r)
        BY <2>1, <3>2
      <4>2. f[x] = IF x = {} THEN base ELSE FoldStep(f, t, r, x)
        <5> HIDE DEF r
        <5> QED BY <2>2, <4>1, FoldValue
      <4>3. x \ {Max(x)} \in SUBSET (1..n)
        BY <4>1
      <4>4. h[x \ {Max(x)}] = f[x \ {Max(x)}]
        BY <2>4, <4>3
      <4>5. x # {} => r[Max(x)] = s[Max(x)]
        BY <4>1, MaxIsMember
      <4> HIDE DEF r
      <4>6. QED
        BY <3>2, <4>2, <4>4, <4>5 DEF FoldStep
    <3>3. QED
      BY <3>1, <3>2
  <2>6. h = [x \in SUBSET (1..(n+1)) |-> eg(x)]
    <3> HIDE DEF ef, eg
    <3> QED BY <2>5
  <2>7. IsFold(h, t, base, s)
    <3> HIDE DEF h
    <3> QED BY <2>6 DEF IsFold
  <2>8. QED
    BY <2>7
<1> HIDE DEF S
<1>3. Nat \subseteq S
  BY <1>1, <1>2, InductionOverNat
<1>4. QED
  BY <1>3 DEF S

\* What the loop has before its first and after each turn.
Turns(h, t, base, s, n) ==
  /\ h[0] = base /\ h[n] = Fold(t, base, s)
  /\ \A k \in Nat : k < n => h[k+1] = Turn(t, h[k], s[k+1])

\* A fold takes its turns one after the other.
LEMMA FoldTurns ==
  ASSUME NEW t, NEW base, NEW s, NEW n \in Nat, DOMAIN s = 1..n
  PROVE  \E h : Turns(h, t, base, s, n)
<1> DEFINE f == CHOOSE f : IsFold(f, t, base, s)
           h == [k \in 0..n |-> f[1..k]]
<1>1. IsFold(f, t, base, s)
  <2>1. \E y : IsFold(y, t, base, s)
    BY FoldExists
  <2>2. QED
    BY <2>1
<1>2. Fold(t, base, s) = f[1..n]
  BY DEF Fold
<1> HIDE DEF f
<1>3. f[1..0] = base
  <2>1. 1..0 = {} /\ {} \in SUBSET (DOMAIN s)
    OBVIOUS
  <2>2. QED
    BY <1>1, <2>1, FoldValue
<1>4. ASSUME NEW k \in Nat, k < n PROVE f[1..(k+1)] = Turn(t, f[1..k], s[k+1])
  <2>1. k + 1 \in 1..(k+1) /\ 1..(k+1) \in SUBSET (DOMAIN s) /\ 1..(k+1) # {}
    BY <1>4
  <2>2. Max(1..(k+1)) = k + 1
    BY <2>1, MaxOfRange
  <2>3. (1..(k+1)) \ {k+1} = 1..k
    <3>1. \A i : i \in (1..(k+1)) \ {k+1} <=> i \in 1..k
      OBVIOUS
    <3>2. QED
      BY <3>1
  <2>4. f[1..(k+1)] = FoldStep(f, t, s, 1..(k+1))
    BY <1>1, <2>1, FoldValue
  <2>5. QED
    BY <2>2, <2>3, <2>4 DEF FoldStep
<1>5. h[0] = base /\ h[n] = Fold(t, base, s)
  BY <1>2, <1>3
<1>6. \A k \in Nat : k < n => h[k+1] = Turn(t, h[k], s[k+1])
  <2> TAKE k \in Nat
  <2> HAVE k < n
  <2>1. k \in 0..n /\ k + 1 \in 0..n
    OBVIOUS
  <2>2. QED
    BY <1>4, <2>1
<1> HIDE DEF h
<1>7. Turns(h, t, base, s, n)
  BY <1>5, <1>6 DEF Turns
<1>8. QED
  BY <1>7

\* Each loop of the model is the fold of its turn.
LEMMA NodesFold ==
  ASSUME NEW x, NEW s
  PROVE  FoldLeft(addNode, x, s) = Fold(Loop("node", 0, 0), x, s)
<1> DEFINE t == Loop("node", 0, 0)
           P(f) == f = [y \in SUBSET (DOMAIN s) |->
                          IF y = {} THEN x ELSE addNode(f[y \ {Max(y)}], s[Max(y)])]
<1>1. \A f : P(f) <=> IsFold(f, t, x, s)
  BY DEF IsFold, FoldStep, Turn, Loop
<1>2. FoldLeft(addNode, x, s) = (CHOOSE f : P(f))[DOMAIN s]
  BY DEF FoldLeft, MapThenFoldSet
<1>3. Fold(t, x, s) = (CHOOSE f : IsFold(f, t, x, s))[DOMAIN s]
  BY DEF Fold
<1> HIDE DEF P, t
<1>4. (CHOOSE f : P(f)) = (CHOOSE f : IsFold(f, t, x, s))
  BY <1>1
<1>5. QED
  BY <1>2, <1>3, <1>4 DEF t

\* Adding edges.
LEMMA EdgesFold ==
  ASSUME NEW x, NEW s
  PROVE  FoldLeft(addEdge, x, s) = Fold(Loop("edge", 0, 0), x, s)
<1> DEFINE t == Loop("edge", 0, 0)
           P(f) == f = [y \in SUBSET (DOMAIN s) |->
                          IF y = {} THEN x ELSE addEdge(f[y \ {Max(y)}], s[Max(y)])]
<1>1. \A f : P(f) <=> IsFold(f, t, x, s)
  BY DEF IsFold, FoldStep, Turn, Loop
<1>2. FoldLeft(addEdge, x, s) = (CHOOSE f : P(f))[DOMAIN s]
  BY DEF FoldLeft, MapThenFoldSet
<1>3. Fold(t, x, s) = (CHOOSE f : IsFold(f, t, x, s))[DOMAIN s]
  BY DEF Fold
<1> HIDE DEF P, t
<1>4. (CHOOSE f : P(f)) = (CHOOSE f : IsFold(f, t, x, s))
  BY <1>1
<1>5. QED
  BY <1>2, <1>3, <1>4 DEF t

\* Seeding the pods of the destination.
LEMMA EndpointsFold ==
  ASSUME NEW x, NEW s
  PROVE  FoldLeft(Endpoint, x, s) = Fold(Loop("endpoint", 0, 0), x, s)
<1> DEFINE t == Loop("endpoint", 0, 0)
           P(f) == f = [y \in SUBSET (DOMAIN s) |->
                          IF y = {} THEN x ELSE Endpoint(f[y \ {Max(y)}], s[Max(y)])]
<1>1. \A f : P(f) <=> IsFold(f, t, x, s)
  BY DEF IsFold, FoldStep, Turn, Loop
<1>2. FoldLeft(Endpoint, x, s) = (CHOOSE f : P(f))[DOMAIN s]
  BY DEF FoldLeft, MapThenFoldSet
<1>3. Fold(t, x, s) = (CHOOSE f : IsFold(f, t, x, s))[DOMAIN s]
  BY DEF Fold
<1> HIDE DEF P, t
<1>4. (CHOOSE f : P(f)) = (CHOOSE f : IsFold(f, t, x, s))
  BY <1>1
<1>5. QED
  BY <1>2, <1>3, <1>4 DEF t

\* Seeding the pods of the source.
LEMMA SourcesFold ==
  ASSUME NEW x, NEW s
  PROVE  FoldLeft(SourceEndpoint, x, s) = Fold(Loop("source", 0, 0), x, s)
<1> DEFINE t == Loop("source", 0, 0)
           P(f) == f = [y \in SUBSET (DOMAIN s) |->
                          IF y = {} THEN x ELSE SourceEndpoint(f[y \ {Max(y)}], s[Max(y)])]
<1>1. \A f : P(f) <=> IsFold(f, t, x, s)
  BY DEF IsFold, FoldStep, Turn, Loop
<1>2. FoldLeft(SourceEndpoint, x, s) = (CHOOSE f : P(f))[DOMAIN s]
  BY DEF FoldLeft, MapThenFoldSet
<1>3. Fold(t, x, s) = (CHOOSE f : IsFold(f, t, x, s))[DOMAIN s]
  BY DEF Fold
<1> HIDE DEF P, t
<1>4. (CHOOSE f : P(f)) = (CHOOSE f : IsFold(f, t, x, s))
  BY <1>1
<1>5. QED
  BY <1>2, <1>3, <1>4 DEF t

\* Drawing the services of a pod.
LEMMA ServicesFold ==
  ASSUME NEW x, NEW s, NEW p
  PROVE  FoldLeft(LAMBDA h, v : ServiceHit(h, v, p), x, s) = Fold(Loop("service", p, 0), x, s)
<1> DEFINE t == Loop("service", p, 0)
           P(f) == f = [y \in SUBSET (DOMAIN s) |->
                          IF y = {} THEN x ELSE ServiceHit(f[y \ {Max(y)}], s[Max(y)], p)]
<1>1. \A f : P(f) <=> IsFold(f, t, x, s)
  BY DEF IsFold, FoldStep, Turn, Loop
<1>2. FoldLeft(LAMBDA h, v : ServiceHit(h, v, p), x, s) = (CHOOSE f : P(f))[DOMAIN s]
  BY DEF FoldLeft, MapThenFoldSet
<1>3. Fold(t, x, s) = (CHOOSE f : IsFold(f, t, x, s))[DOMAIN s]
  BY DEF Fold
<1> HIDE DEF P, t
<1>4. (CHOOSE f : P(f)) = (CHOOSE f : IsFold(f, t, x, s))
  BY <1>1
<1>5. QED
  BY <1>2, <1>3, <1>4 DEF t

\* Attaching a pod's secondary networks.
LEMMA NadsFold ==
  ASSUME NEW x, NEW s, NEW p
  PROVE  FoldLeft(LAMBDA h, v : AttachNad(h, v, p), x, s) = Fold(Loop("nad", p, 0), x, s)
<1> DEFINE t == Loop("nad", p, 0)
           P(f) == f = [y \in SUBSET (DOMAIN s) |->
                          IF y = {} THEN x ELSE AttachNad(f[y \ {Max(y)}], s[Max(y)], p)]
<1>1. \A f : P(f) <=> IsFold(f, t, x, s)
  BY DEF IsFold, FoldStep, Turn, Loop
<1>2. FoldLeft(LAMBDA h, v : AttachNad(h, v, p), x, s) = (CHOOSE f : P(f))[DOMAIN s]
  BY DEF FoldLeft, MapThenFoldSet
<1>3. Fold(t, x, s) = (CHOOSE f : IsFold(f, t, x, s))[DOMAIN s]
  BY DEF Fold
<1> HIDE DEF P, t
<1>4. (CHOOSE f : P(f)) = (CHOOSE f : IsFold(f, t, x, s))
  BY <1>1
<1>5. QED
  BY <1>2, <1>3, <1>4 DEF t

\* Drawing the routes.
LEMMA RoutesFold ==
  ASSUME NEW x, NEW s
  PROVE  FoldLeft(RouteHit, x, s) = Fold(Loop("route", 0, 0), x, s)
<1> DEFINE t == Loop("route", 0, 0)
           P(f) == f = [y \in SUBSET (DOMAIN s) |->
                          IF y = {} THEN x ELSE RouteHit(f[y \ {Max(y)}], s[Max(y)])]
<1>1. \A f : P(f) <=> IsFold(f, t, x, s)
  BY DEF IsFold, FoldStep, Turn, Loop
<1>2. FoldLeft(RouteHit, x, s) = (CHOOSE f : P(f))[DOMAIN s]
  BY DEF FoldLeft, MapThenFoldSet
<1>3. Fold(t, x, s) = (CHOOSE f : IsFold(f, t, x, s))[DOMAIN s]
  BY DEF Fold
<1> HIDE DEF P, t
<1>4. (CHOOSE f : P(f)) = (CHOOSE f : IsFold(f, t, x, s))
  BY <1>1
<1>5. QED
  BY <1>2, <1>3, <1>4 DEF t

\* Drawing the peers of an advertisement.
LEMMA PeersFold ==
  ASSUME NEW x, NEW s, NEW ad
  PROVE  FoldLeft(LAMBDA h, v : AddPeer(h, ad, v), x, s) = Fold(Loop("peer", ad, 0), x, s)
<1> DEFINE t == Loop("peer", ad, 0)
           P(f) == f = [y \in SUBSET (DOMAIN s) |->
                          IF y = {} THEN x ELSE AddPeer(f[y \ {Max(y)}], ad, s[Max(y)])]
<1>1. \A f : P(f) <=> IsFold(f, t, x, s)
  BY DEF IsFold, FoldStep, Turn, Loop
<1>2. FoldLeft(LAMBDA h, v : AddPeer(h, ad, v), x, s) = (CHOOSE f : P(f))[DOMAIN s]
  BY DEF FoldLeft, MapThenFoldSet
<1>3. Fold(t, x, s) = (CHOOSE f : IsFold(f, t, x, s))[DOMAIN s]
  BY DEF Fold
<1> HIDE DEF P, t
<1>4. (CHOOSE f : P(f)) = (CHOOSE f : IsFold(f, t, x, s))
  BY <1>1
<1>5. QED
  BY <1>2, <1>3, <1>4 DEF t

\* Drawing the advertisements of a pool.
LEMMA AdsFold ==
  ASSUME NEW x, NEW s, NEW pool, NEW peers
  PROVE  FoldLeft(LAMBDA h, v : AddAd(h, pool, v, peers), x, s) = Fold(Loop("ad", pool, peers), x, s)
<1> DEFINE t == Loop("ad", pool, peers)
           P(f) == f = [y \in SUBSET (DOMAIN s) |->
                          IF y = {} THEN x ELSE AddAd(f[y \ {Max(y)}], pool, s[Max(y)], peers)]
<1>1. \A f : P(f) <=> IsFold(f, t, x, s)
  BY DEF IsFold, FoldStep, Turn, Loop
<1>2. FoldLeft(LAMBDA h, v : AddAd(h, pool, v, peers), x, s) = (CHOOSE f : P(f))[DOMAIN s]
  BY DEF FoldLeft, MapThenFoldSet
<1>3. Fold(t, x, s) = (CHOOSE f : IsFold(f, t, x, s))[DOMAIN s]
  BY DEF Fold
<1> HIDE DEF P, t
<1>4. (CHOOSE f : P(f)) = (CHOOSE f : IsFold(f, t, x, s))
  BY <1>1
<1>5. QED
  BY <1>2, <1>3, <1>4 DEF t

\* Drawing the egress addresses.
LEMMA EgressIPsFold ==
  ASSUME NEW x, NEW s, NEW p, NEW dest
  PROVE  FoldLeft(LAMBDA h, v : EgressIPHit(h, v, p, dest), x, s) = Fold(Loop("egressip", p, dest), x, s)
<1> DEFINE t == Loop("egressip", p, dest)
           P(f) == f = [y \in SUBSET (DOMAIN s) |->
                          IF y = {} THEN x ELSE EgressIPHit(f[y \ {Max(y)}], s[Max(y)], p, dest)]
<1>1. \A f : P(f) <=> IsFold(f, t, x, s)
  BY DEF IsFold, FoldStep, Turn, Loop
<1>2. FoldLeft(LAMBDA h, v : EgressIPHit(h, v, p, dest), x, s) = (CHOOSE f : P(f))[DOMAIN s]
  BY DEF FoldLeft, MapThenFoldSet
<1>3. Fold(t, x, s) = (CHOOSE f : IsFold(f, t, x, s))[DOMAIN s]
  BY DEF Fold
<1> HIDE DEF P, t
<1>4. (CHOOSE f : P(f)) = (CHOOSE f : IsFold(f, t, x, s))
  BY <1>1
<1>5. QED
  BY <1>2, <1>3, <1>4 DEF t

\* Drawing the egress services.
LEMMA EgressServicesFold ==
  ASSUME NEW x, NEW s, NEW p
  PROVE  FoldLeft(LAMBDA h, v : EgressServiceHit(h, v, p), x, s) = Fold(Loop("egressservice", p, 0), x, s)
<1> DEFINE t == Loop("egressservice", p, 0)
           P(f) == f = [y \in SUBSET (DOMAIN s) |->
                          IF y = {} THEN x ELSE EgressServiceHit(f[y \ {Max(y)}], s[Max(y)], p)]
<1>1. \A f : P(f) <=> IsFold(f, t, x, s)
  BY DEF IsFold, FoldStep, Turn, Loop
<1>2. FoldLeft(LAMBDA h, v : EgressServiceHit(h, v, p), x, s) = (CHOOSE f : P(f))[DOMAIN s]
  BY DEF FoldLeft, MapThenFoldSet
<1>3. Fold(t, x, s) = (CHOOSE f : IsFold(f, t, x, s))[DOMAIN s]
  BY DEF Fold
<1> HIDE DEF P, t
<1>4. (CHOOSE f : P(f)) = (CHOOSE f : IsFold(f, t, x, s))
  BY <1>1
<1>5. QED
  BY <1>2, <1>3, <1>4 DEF t

\* Keeping the edges within a set of nodes.
LEMMA WithinFold ==
  ASSUME NEW x, NEW s, NEW ids
  PROVE  FoldLeft(LAMBDA kept, e : IF e.from \in ids /\ e.to \in ids THEN Append(kept, e) ELSE kept, x, s)
           = Fold(Loop("within", ids, 0), x, s)
<1> DEFINE t == Loop("within", ids, 0)
           P(f) == f = [y \in SUBSET (DOMAIN s) |->
                          IF y = {} THEN x
                          ELSE IF s[Max(y)].from \in ids /\ s[Max(y)].to \in ids
                               THEN Append(f[y \ {Max(y)}], s[Max(y)]) ELSE f[y \ {Max(y)}]]
<1>1. \A f : P(f) <=> IsFold(f, t, x, s)
  BY DEF IsFold, FoldStep, Turn, Loop
<1>2. FoldLeft(LAMBDA kept, e : IF e.from \in ids /\ e.to \in ids THEN Append(kept, e) ELSE kept, x, s)
        = (CHOOSE f : P(f))[DOMAIN s]
  BY DEF FoldLeft, MapThenFoldSet
<1>3. Fold(t, x, s) = (CHOOSE f : IsFold(f, t, x, s))[DOMAIN s]
  BY DEF Fold
<1> HIDE DEF P, t
<1>4. (CHOOSE f : P(f)) = (CHOOSE f : IsFold(f, t, x, s))
  BY <1>1
<1>5. QED
  BY <1>2, <1>3, <1>4 DEF t

\* Collecting the selected owners.
LEMMA OwnersFold ==
  ASSUME NEW x, NEW s
  PROVE  FoldLeft(LAMBDA acc, e : IF e.type # "owner" \/ \E o \in Range(acc) : ownerKey(o) = ownerKey(e)
                                  THEN acc ELSE Append(acc, e), x, s)
           = Fold(Loop("owners", 0, 0), x, s)
<1> DEFINE t == Loop("owners", 0, 0)
           P(f) == f = [y \in SUBSET (DOMAIN s) |->
                          IF y = {} THEN x
                          ELSE IF \/ s[Max(y)].type # "owner"
                                  \/ \E o \in Range(f[y \ {Max(y)}]) : ownerKey(o) = ownerKey(s[Max(y)])
                               THEN f[y \ {Max(y)}] ELSE Append(f[y \ {Max(y)}], s[Max(y)])]
<1>1. \A f : P(f) <=> IsFold(f, t, x, s)
  BY DEF IsFold, FoldStep, Turn, Loop
<1>2. FoldLeft(LAMBDA acc, e : IF e.type # "owner" \/ \E o \in Range(acc) : ownerKey(o) = ownerKey(e)
                               THEN acc ELSE Append(acc, e), x, s)
        = (CHOOSE f : P(f))[DOMAIN s]
  BY DEF FoldLeft, MapThenFoldSet
<1>3. Fold(t, x, s) = (CHOOSE f : IsFold(f, t, x, s))[DOMAIN s]
  BY DEF Fold
<1> HIDE DEF P, t
<1>4. (CHOOSE f : P(f)) = (CHOOSE f : IsFold(f, t, x, s))
  BY <1>1
<1>5. QED
  BY <1>2, <1>3, <1>4 DEF t

\* Collecting the pod selections.
LEMMA PodsFold ==
  ASSUME NEW x, NEW s
  PROVE  FoldLeft(LAMBDA acc, e : IF e.type = "pod" THEN Append(acc, e) ELSE acc, x, s)
           = Fold(Loop("pods", 0, 0), x, s)
<1> DEFINE t == Loop("pods", 0, 0)
           P(f) == f = [y \in SUBSET (DOMAIN s) |->
                          IF y = {} THEN x
                          ELSE IF s[Max(y)].type = "pod"
                               THEN Append(f[y \ {Max(y)}], s[Max(y)]) ELSE f[y \ {Max(y)}]]
<1>1. \A f : P(f) <=> IsFold(f, t, x, s)
  BY DEF IsFold, FoldStep, Turn, Loop
<1>2. FoldLeft(LAMBDA acc, e : IF e.type = "pod" THEN Append(acc, e) ELSE acc, x, s)
        = (CHOOSE f : P(f))[DOMAIN s]
  BY DEF FoldLeft, MapThenFoldSet
<1>3. Fold(t, x, s) = (CHOOSE f : IsFold(f, t, x, s))[DOMAIN s]
  BY DEF Fold
<1> HIDE DEF P, t
<1>4. (CHOOSE f : P(f)) = (CHOOSE f : IsFold(f, t, x, s))
  BY <1>1
<1>5. QED
  BY <1>2, <1>3, <1>4 DEF t

-----------------------------------------------------------------------------
(* Sets as sequences.                                                          *)

\* The sequence of a finite set has each of its elements once.
LEMMA SetToSeqIs ==
  ASSUME NEW S, IsFiniteSet(S)
  PROVE  /\ Cardinality(S) \in Nat
         /\ SetToSeq(S) \in [1..Cardinality(S) -> S]
         /\ DOMAIN SetToSeq(S) = 1..Cardinality(S)
         /\ \A a, b \in 1..Cardinality(S) : SetToSeq(S)[a] = SetToSeq(S)[b] => a = b
         /\ Range(SetToSeq(S)) = S
<1> DEFINE n == Cardinality(S)
<1>1. n \in Nat /\ ExistsBijection(1..n, S)
  BY FS_CardinalityType
<1>2. \E f \in [1..n -> S] : IsInjective(f)
  BY <1>1 DEF ExistsBijection, Bijection, Injection
<1>3. SetToSeq(S) \in [1..n -> S] /\ IsInjective(SetToSeq(S))
  BY <1>2 DEF SetToSeq
<1>4. SetToSeq(S) \in Injection(1..n, S)
  BY <1>3 DEF Injection
<1>5. Cardinality(1..n) = n /\ IsFiniteSet(1..n)
  BY <1>1, FS_Interval
<1>6. SetToSeq(S) \in Surjection(1..n, S)
  BY <1>4, <1>5, FS_Injection
<1>7. Range(SetToSeq(S)) = S
  BY <1>6 DEF Surjection, Range
<1>8. QED
  BY <1>1, <1>3, <1>7 DEF IsInjective

-----------------------------------------------------------------------------
(* What the graph keeps through discovery.                                     *)

\* The ids of endpoints, the kinds they are drawn as, and the namespaces that nodes
\* may name (MetalLB's own are read for every caller).
EndpointID(id) == id[1] \in {"pod", "ip"} \/ id = <<"external", "", "destination">>
EndpointKinds == {"pod", "pod-ip", "external"}
SeenSpaces == Accessible \cup {""} \cup MetalLBNamespaces
RouteID(r) == <<"route", r.ns, r.name>>
ClientID == <<"external", "", "client-route">>

\* The edge to the service that a route names, whether or not it was found.
Guessed(e) == \E r \in Routes : e.from = RouteID(r) /\ e.to = serviceID(r.ns, r.to)

\* The kinds that an id is drawn as: hosts and the like are of the physical layer,
\* and of the logical kinds only an address pool counts as infrastructure.
KindFits(id, kind) ==
  /\ id[1] \in InfraIds => layerForKind(kind) = "physical"
  /\ id[1] = "metallb-pool" => isInfraKind(kind)
  /\ isInfraKind(kind) => layerForKind(kind) = "physical" \/ id[1] = "metallb-pool"
  /\ id[1] # "nad:"

\* A node that may be added: its kind fits, endpoints are tracked, and the namespace is one the caller may list, or MetalLB's.
NodeFits(n) ==
  /\ KindFits(n.id, n.kind)
  /\ EndpointID(n.id) => n.tracked /\ n.kind \in EndpointKinds
  /\ n.id[2] \in SeenSpaces

\* An edge that may be added between nodes of ids.
EdgeFits(ids, e) ==
  /\ DOMAIN e = {"from", "to", "type", "primary"}
  /\ e.from \in ids
  /\ e.to \in ids \/ (Guessed(e) /\ ~e.primary)
  /\ e.from[1] = "route" => Guessed(e)
  /\ e.to[1] = "route" => e.from = ClientID

\* Every node of the graph fits, as it is held.
NodesSound(h) ==
  \A id \in DOMAIN h.nodes :
    /\ DOMAIN h.nodes[id] = {"kind", "ns", "tracked", "focused"}
    /\ KindFits(id, h.nodes[id].kind)
    /\ EndpointID(id) => h.nodes[id].tracked /\ h.nodes[id].kind \in EndpointKinds
    /\ h.nodes[id].ns \in SeenSpaces

\* Every edge of the graph fits the graph's nodes.
EdgesSound(h) ==
  /\ h.edges \in Seq(Range(h.edges))
  /\ \A e \in Range(h.edges) : EdgeFits(DOMAIN h.nodes, e)

\* A sound graph that holds the nodes ids.
Sound(ids, h) ==
  /\ h = [nodes |-> h.nodes, edges |-> h.edges] /\ IsFiniteSet(DOMAIN h.nodes)
  /\ NodesSound(h) /\ EdgesSound(h)
  /\ ids \subseteq DOMAIN h.nodes

\* An edge fits more nodes too.
LEMMA MoreIdsFit == ASSUME NEW X, NEW Y, X \subseteq Y, NEW e, EdgeFits(X, e) PROVE EdgeFits(Y, e)
BY DEF EdgeFits

\* A graph that is sound with some nodes is sound with fewer.
LEMMA FewerIds == ASSUME NEW X, NEW Y, X \subseteq Y, NEW h, Sound(Y, h) PROVE Sound(X, h)
BY DEF Sound

\* Adding a node that fits (addNode of graph_builder.go).
LEMMA AddNodeSound ==
  ASSUME NEW H, NEW h, Sound(H, h), NEW n, NodeFits(n)
  PROVE  Sound(H \cup {n.id}, addNode(h, n))
<1>1. CASE n.id \in DOMAIN h.nodes
  BY <1>1 DEF addNode, Sound
<1>2. CASE n.id \notin DOMAIN h.nodes
  <2> DEFINE k == addNode(h, n)
             new == [kind |-> n.kind, ns |-> n.id[2], tracked |-> n.tracked, focused |-> FALSE]
  <2>1. k = [nodes |-> [id \in DOMAIN h.nodes \cup {n.id} |-> IF id \in DOMAIN h.nodes THEN h.nodes[id] ELSE new],
             edges |-> h.edges]
    BY <1>2 DEF addNode, Sound
  <2>2. k = [nodes |-> k.nodes, edges |-> k.edges] /\ k.edges = h.edges
    BY <2>1
  <2>3. DOMAIN k.nodes = DOMAIN h.nodes \cup {n.id}
    BY <2>1
  <2>4. k.nodes[n.id] = new /\ \A id \in DOMAIN h.nodes : k.nodes[id] = h.nodes[id]
    BY <1>2, <2>1
  <2> HIDE DEF k
  <2>5. NodesSound(k)
    <3>1. SUFFICES ASSUME NEW id \in DOMAIN k.nodes
                   PROVE  /\ DOMAIN k.nodes[id] = {"kind", "ns", "tracked", "focused"}
                          /\ KindFits(id, k.nodes[id].kind)
                          /\ EndpointID(id) => k.nodes[id].tracked /\ k.nodes[id].kind \in EndpointKinds
                          /\ k.nodes[id].ns \in SeenSpaces
      BY DEF NodesSound
    <3>2. CASE id \in DOMAIN h.nodes
      BY <2>4, <3>2 DEF Sound, NodesSound
    <3>3. CASE id = n.id
      BY <2>4, <3>3 DEF NodeFits
    <3>4. QED
      BY <2>3, <3>2, <3>3
  <2>6. EdgesSound(k)
    <3>1. \A e \in Range(k.edges) : EdgeFits(DOMAIN h.nodes, e)
      BY <2>2 DEF Sound, EdgesSound
    <3>2. QED
      BY <2>2, <2>3, <3>1, MoreIdsFit DEF Sound, EdgesSound
  <2>7. IsFiniteSet(DOMAIN k.nodes)
    BY <2>3, FS_AddElement DEF Sound
  <2>8. QED
    BY <2>2, <2>3, <2>5, <2>6, <2>7 DEF Sound, k
<1>3. QED
  BY <1>1, <1>2

\* A sequence with one more element.
LEMMA AppendIs ==
  ASSUME NEW s, s \in Seq(Range(s)), NEW e
  PROVE  /\ Append(s, e) \in Seq(Range(Append(s, e)))
         /\ Range(Append(s, e)) = Range(s) \cup {e}
         /\ Len(Append(s, e)) = Len(s) + 1 /\ Len(s) \in Nat
         /\ \A i \in 1..Len(s) : Append(s, e)[i] = s[i]
         /\ Append(s, e)[Len(s) + 1] = e
<1> DEFINE T == Range(s) \cup {e}
           a == Append(s, e)
<1>1. s \in Seq(T) /\ e \in T
  BY SeqMonotonic
<1>2. /\ a \in Seq(T) /\ Len(a) = Len(s) + 1 /\ Len(s) \in Nat
      /\ \A i \in 1..Len(s) : a[i] = s[i]
      /\ a[Len(s) + 1] = e
  <2> HIDE DEF T
  <2> QED BY <1>1, AppendProperties
<1>3. DOMAIN a = 1..(Len(s) + 1) /\ DOMAIN s = 1..Len(s)
  BY <1>1, <1>2, LenProperties
<1> HIDE DEF a
<1>4. Range(a) = T
  <2>1. \A y \in Range(a) : y \in T
    BY <1>2, <1>3 DEF Range
  <2>2. \A y \in Range(s) : y \in Range(a)
    <3> TAKE y \in Range(s)
    <3>1. PICK i \in 1..Len(s) : s[i] = y
      BY <1>3 DEF Range
    <3>2. i \in DOMAIN a /\ a[i] = y
      BY <1>2, <1>3, <3>1
    <3>3. QED
      BY <3>2 DEF Range
  <2>3. e \in Range(a)
    <3>1. Len(s) + 1 \in DOMAIN a
      BY <1>2, <1>3
    <3>2. QED
      BY <1>2, <3>1 DEF Range
  <2>4. QED
    BY <2>1, <2>2, <2>3
<1>5. QED
  BY <1>2, <1>4 DEF a

\* Adding an edge that fits (addEdge).
LEMMA AddEdgeSound ==
  ASSUME NEW H, NEW h, Sound(H, h), NEW e, EdgeFits(H, e)
  PROVE  Sound(H, addEdge(h, e))
<1>1. CASE addEdge(h, e) = h
  BY <1>1
<1>2. CASE addEdge(h, e) # h
  <2> DEFINE k == addEdge(h, e)
  <2>1. k = [nodes |-> h.nodes, edges |-> Append(h.edges, e)]
    BY <1>2 DEF addEdge, Sound
  <2>2. k = [nodes |-> k.nodes, edges |-> k.edges] /\ k.nodes = h.nodes /\ k.edges = Append(h.edges, e)
    BY <2>1
  <2> HIDE DEF k
  <2>3. k.edges \in Seq(Range(k.edges)) /\ Range(k.edges) = Range(h.edges) \cup {e}
    BY <2>2, AppendIs DEF Sound, EdgesSound
  <2>4. EdgeFits(DOMAIN h.nodes, e)
    BY MoreIdsFit DEF Sound
  <2>5. EdgesSound(k)
    BY <2>2, <2>3, <2>4 DEF Sound, EdgesSound
  <2>6. NodesSound(k)
    BY <2>2 DEF Sound, NodesSound
  <2>7. QED
    BY <2>2, <2>5, <2>6 DEF Sound, k
<1>3. QED
  BY <1>1, <1>2

\* Each turn keeps a graph sound and adds the ids that it got.
Keeps(H, t, s, n, got) ==
  \A k \in 1..n : \A x : \A G :
    H \subseteq G /\ Sound(G, x) => Sound(G \cup got[k], Turn(t, x, s[k]))

\* What the first n turns got.
Gained(got, n) == UNION {got[k] : k \in 1..n}

\* Turns that keep the graph sound and add the ids got make a fold that does.
LEMMA FoldSound ==
  ASSUME NEW t, NEW s, NEW n \in Nat, DOMAIN s = 1..n, NEW H, NEW base, Sound(H, base), NEW got,
         Keeps(H, t, s, n, got)
  PROVE  Sound(H \cup Gained(got, n), Fold(t, base, s))
<1>1. PICK h : Turns(h, t, base, s, n)
  BY FoldTurns
<1> DEFINE Had(k) == H \cup Gained(got, k)
<1> DEFINE K == {k \in Nat : k <= n => Sound(Had(k), h[k])}
<1>2. 0 \in K
  <2>1. Had(0) = H
    BY DEF Gained
  <2> HIDE DEF Had
  <2>2. QED
    BY <1>1, <2>1 DEF Turns
<1>3. ASSUME NEW k \in Nat, k \in K PROVE k + 1 \in K
  <2>1. SUFFICES ASSUME k + 1 <= n PROVE Sound(Had(k + 1), h[k + 1])
    OBVIOUS
  <2>2. Sound(Had(k), h[k])
    BY <1>3, <2>1
  <2>3. H \subseteq Had(k) /\ k + 1 \in 1..n
    BY <2>1
  <2>4. Had(k + 1) = Had(k) \cup got[k + 1]
    <3>1. 1..(k+1) = (1..k) \cup {k+1}
      OBVIOUS
    <3>2. QED
      BY <3>1 DEF Gained
  <2>5. h[k + 1] = Turn(t, h[k], s[k + 1])
    BY <1>1, <2>1 DEF Turns
  <2> HIDE DEF Had
  <2>6. Sound(Had(k) \cup got[k + 1], Turn(t, h[k], s[k + 1]))
    BY <2>2, <2>3 DEF Keeps
  <2>7. QED
    BY <2>4, <2>5, <2>6
<1> HIDE DEF K
<1>4. n \in K
  BY <1>2, <1>3, InductionOverNat
<1>5. QED
  BY <1>1, <1>4 DEF K, Turns

\* Nodes that fit and edges between what is there then.
LEMMA ExtendSound ==
  ASSUME NEW H, NEW h, Sound(H, h),
         NEW ns, NEW m \in Nat, DOMAIN ns = 1..m, \A i \in 1..m : NodeFits(ns[i]),
         NEW G, G = H \cup {ns[i].id : i \in 1..m},
         NEW es, NEW n \in Nat, DOMAIN es = 1..n, \A i \in 1..n : EdgeFits(G, es[i])
  PROVE  Sound(G, Extend(h, ns, es))
<1> DEFINE t == Loop("node", 0, 0)
           u == Loop("edge", 0, 0)
           ids == [i \in 1..m |-> {ns[i].id}]
           none == [i \in 1..n |-> {}]
           k == Fold(t, h, ns)
<1>1. \A x, i : Turn(t, x, i) = addNode(x, i) /\ Turn(u, x, i) = addEdge(x, i)
  BY DEF Turn, Loop
<1> HIDE DEF t, u
<1>2. ASSUME NEW i \in 1..m, NEW x, NEW F, H \subseteq F, Sound(F, x)
      PROVE  Sound(F \cup ids[i], Turn(t, x, ns[i]))
  BY <1>1, <1>2, AddNodeSound
<1>3. Gained(ids, m) = {ns[i].id : i \in 1..m}
  BY DEF Gained
<1> HIDE DEF ids
<1>4. Sound(G, k)
  <2>1. Sound(H \cup Gained(ids, m), k)
    <3>1. Keeps(H, t, ns, m, ids)
      BY <1>2 DEF Keeps
    <3>2. QED
      BY <3>1, FoldSound
  <2>2. QED
    BY <1>3, <2>1
<1>5. ASSUME NEW i \in 1..n, NEW x, NEW F, G \subseteq F, Sound(F, x)
      PROVE  Sound(F \cup none[i], Turn(u, x, es[i]))
  <2>1. EdgeFits(F, es[i])
    BY <1>5, MoreIdsFit
  <2>2. F \cup none[i] = F
    OBVIOUS
  <2>3. QED
    BY <1>1, <1>5, <2>1, <2>2, AddEdgeSound
<1>6. Gained(none, n) = {}
  BY DEF Gained
<1> HIDE DEF none, k
<1>7. Sound(G, Fold(u, k, es))
  <2>1. Sound(G \cup Gained(none, n), Fold(u, k, es))
    <3>1. Keeps(G, u, es, n, none)
      BY <1>5 DEF Keeps
    <3>2. QED
      BY <1>4, <3>1, FoldSound
  <2>2. QED
    BY <1>6, <2>1
<1>8. Extend(h, ns, es) = Fold(u, k, es)
  BY NodesFold, EdgesFold DEF Extend, t, u, k
<1>9. QED
  BY <1>7, <1>8

\* Seeding a pod.
LEMMA EndpointSound ==
  ASSUME NEW H, NEW h, Sound(H, h), NEW p, NsOf[p] \in SeenSpaces
  PROVE  Sound(H \cup {podNodeID(p)}, Endpoint(h, p))
<1> DEFINE n == [id |-> podNodeID(p), kind |-> "pod", tracked |-> TRUE]
<1>1. NodeFits(n)
  BY DEF NodeFits, podNodeID, EndpointKinds, KindFits, InfraIds, layerForKind, isInfraKind
<1>2. QED
  BY <1>1, AddNodeSound DEF Endpoint

\* An edge that no route is an end of.
LEMMA PlainEdgeFits ==
  ASSUME NEW H, NEW a \in H, NEW b \in H, NEW ty, a[1] # "route", b[1] # "route"
  PROVE  EdgeFits(H, Edge(a, b, ty)) /\ EdgeFits(H, Primary(a, b, ty))
<1>1. EdgeFits(H, Edge(a, b, ty))
  BY DEF EdgeFits, Edge
<1>2. /\ Primary(a, b, ty).from = a /\ Primary(a, b, ty).to = b
      /\ DOMAIN Primary(a, b, ty) = {"from", "to", "type", "primary"}
  BY DEF Primary, Edge
<1>3. QED
  BY <1>1, <1>2 DEF EdgeFits

\* One node with one edge.
LEMMA ExtendByOne ==
  ASSUME NEW H, NEW h, Sound(H, h), NEW n, NodeFits(n), NEW e, EdgeFits(H \cup {n.id}, e)
  PROVE  Sound(H \cup {n.id}, Extend(h, <<n>>, <<e>>))
<1>1. DOMAIN <<n>> = 1..1 /\ DOMAIN <<e>> = 1..1 /\ <<n>>[1] = n /\ <<e>>[1] = e
  OBVIOUS
<1> DEFINE ns == <<n>>
           es == <<e>>
           G == H \cup {n.id}
<1>2. G = H \cup {ns[i].id : i \in 1..1}
  BY <1>1
<1>3. \A i \in 1..1 : NodeFits(ns[i]) /\ EdgeFits(G, es[i])
  BY <1>1
<1> HIDE DEF ns, es, G
<1>4. DOMAIN ns = 1..1 /\ DOMAIN es = 1..1
  BY <1>1 DEF ns, es
<1>5. Sound(G, Extend(h, ns, es))
  BY <1>2, <1>3, <1>4, ExtendSound
<1>6. QED
  BY <1>5 DEF ns, es, G

\* Two nodes with two edges.
LEMMA ExtendByTwo ==
  ASSUME NEW H, NEW h, Sound(H, h), NEW n, NEW m, NodeFits(n), NodeFits(m), NEW e, NEW f,
         EdgeFits(H \cup {n.id, m.id}, e), EdgeFits(H \cup {n.id, m.id}, f)
  PROVE  Sound(H \cup {n.id, m.id}, Extend(h, <<n, m>>, <<e, f>>))
<1> DEFINE ns == <<n, m>>
           es == <<e, f>>
           G == H \cup {n.id, m.id}
<1>1. DOMAIN ns = 1..2 /\ DOMAIN es = 1..2 /\ ns[1] = n /\ ns[2] = m /\ es[1] = e /\ es[2] = f
  OBVIOUS
<1> HIDE DEF ns, es
<1>2. G = H \cup {ns[i].id : i \in 1..2}
  <2>1. 1..2 = {1, 2}
    OBVIOUS
  <2>2. QED
    BY <1>1, <2>1
<1>3. \A i \in 1..2 : NodeFits(ns[i]) /\ EdgeFits(G, es[i])
  <2>1. \A i \in 1..2 : i = 1 \/ i = 2
    OBVIOUS
  <2>2. QED
    BY <1>1, <2>1
<1> HIDE DEF G
<1>4. Sound(G, Extend(h, ns, es))
  BY <1>1, <1>2, <1>3, ExtendSound
<1>5. QED
  BY <1>4 DEF ns, es, G

\* Whether a pod has a host, and the node of it.
Scheduled(p) == NodeOf[p] # ""
HostOf(p) == IF Scheduled(p) THEN {hostID(NodeOf[p])} ELSE {}

\* Seeding a pod of the source, with its host.
LEMMA SourceSound ==
  ASSUME NEW H, NEW h, Sound(H, h), NEW p, NsOf[p] \in SeenSpaces
  PROVE  Sound(H \cup {podNodeID(p)} \cup HostOf(p), SourceEndpoint(h, p))
<1>1. Sound(H \cup {podNodeID(p)}, Endpoint(h, p))
  BY EndpointSound
<1>2. CASE ~Scheduled(p)
  BY <1>1, <1>2 DEF SourceEndpoint, Scheduled, HostOf
<1>3. CASE Scheduled(p)
  <2> DEFINE n == Node(hostID(NodeOf[p]), "node")
             e == Edge(podNodeID(p), hostID(NodeOf[p]), "scheduled")
  <2>1. n.id = hostID(NodeOf[p]) /\ NodeFits(n)
    BY DEF NodeFits, Node, hostID, EndpointID, KindFits, InfraIds, layerForKind, isInfraKind, SeenSpaces
  <2>2. HostOf(p) = {n.id}
    BY <1>3, <2>1 DEF HostOf
  <2>3. EdgeFits(H \cup {podNodeID(p)} \cup {n.id}, e)
    BY <2>1, PlainEdgeFits DEF podNodeID, hostID
  <2> HIDE DEF n, e
  <2>4. Sound(H \cup {podNodeID(p)} \cup {n.id}, Extend(Endpoint(h, p), <<n>>, <<e>>))
    BY <1>1, <2>1, <2>3, ExtendByOne
  <2>5. QED
    BY <1>3, <2>2, <2>4 DEF SourceEndpoint, Scheduled, n, e
<1>4. QED
  BY <1>2, <1>3

\* Drawing a service in front of a pod.
LEMMA ServiceHitSound ==
  ASSUME NEW H, NEW h, Sound(H, h), NEW svc, svc.ns \in SeenSpaces, NEW p, podNodeID(p) \in H
  PROVE  Sound(H \cup {serviceID(svc.ns, svc.name)}, ServiceHit(h, svc, p))
<1> DEFINE id == serviceID(svc.ns, svc.name)
           n == Node(id, serviceKind(svc))
           e == Edge(id, podNodeID(p), "direct")
<1>1. n.id = id /\ NodeFits(n)
  <2>1. serviceKind(svc) \in {"service-loadbalancer", "service-nodeport", "service-clusterip"}
    BY DEF serviceKind
  <2>2. QED
    BY <2>1 DEF NodeFits, Node, serviceID, EndpointID, KindFits, InfraIds, layerForKind, isInfraKind
<1>2. EdgeFits(H \cup {n.id}, e)
  BY <1>1, PlainEdgeFits DEF podNodeID, serviceID
<1> HIDE DEF n, e
<1>3. QED
  BY <1>1, <1>2, ExtendByOne DEF ServiceHit, n, e

\* Attaching a secondary network to a pod.
LEMMA AttachNadSound ==
  ASSUME NEW H, NEW h, Sound(H, h), NEW nad, NEW p, NsOf[p] \in SeenSpaces, podNodeID(p) \in H
  PROVE  Sound(H, AttachNad(h, nad, p))
<1> DEFINE id == <<"nad", NsOf[p], nad.name>>
           n == Node(id, "nad")
           e == Edge(podNodeID(p), id, "direct")
<1>1. n.id = id /\ NodeFits(n)
  BY DEF NodeFits, Node, EndpointID, KindFits, InfraIds, layerForKind, isInfraKind
<1>2. EdgeFits(H \cup {n.id}, e)
  BY <1>1, PlainEdgeFits DEF podNodeID
<1> HIDE DEF n, e
<1>3. Sound(H \cup {n.id}, AttachNad(h, nad, p))
  BY <1>1, <1>2, ExtendByOne DEF AttachNad, n, e
<1>4. QED
  BY <1>3, FewerIds

\* Drawing a route, whose service may be a guess.
LEMMA RouteHitSound ==
  ASSUME NEW H, NEW h, Sound(H, h), NEW r \in Routes, r.ns \in SeenSpaces
  PROVE  Sound(H, RouteHit(h, r))
<1> DEFINE n == Node(RouteID(r), "route")
           m == Node(ClientID, "external-client")
           e == Edge(RouteID(r), serviceID(r.ns, r.to), "https")
           f == Edge(ClientID, RouteID(r), "ingress")
           G == H \cup {n.id, m.id}
<1>1. n.id = RouteID(r) /\ m.id = ClientID
  BY DEF Node
<1>2. NodeFits(n) /\ NodeFits(m)
  BY DEF NodeFits, Node, EndpointID, RouteID, ClientID, KindFits, InfraIds, layerForKind, isInfraKind, SeenSpaces
<1>3. EdgeFits(G, e)
  <2>1. /\ DOMAIN e = {"from", "to", "type", "primary"}
        /\ e.from = RouteID(r) /\ e.to = serviceID(r.ns, r.to) /\ e.primary = FALSE
    BY DEF Edge
  <2>2. e.to[1] # "route"
    BY <2>1 DEF serviceID
  <2>3. Guessed(e)
    BY <2>1 DEF Guessed
  <2> HIDE DEF e
  <2>4. QED
    BY <1>1, <2>1, <2>2, <2>3 DEF EdgeFits
<1>4. EdgeFits(G, f)
  <2>1. /\ DOMAIN f = {"from", "to", "type", "primary"}
        /\ f.from = ClientID /\ f.to = RouteID(r)
    BY DEF Edge
  <2>2. ClientID[1] # "route"
    BY DEF ClientID
  <2> HIDE DEF f
  <2>3. QED
    BY <1>1, <2>1, <2>2 DEF EdgeFits
<1>5. RouteHit(h, r) = Extend(h, <<n, m>>, <<e, f>>)
  BY DEF RouteHit, RouteID, ClientID
<1> HIDE DEF n, m, e, f
<1>6. Sound(G, RouteHit(h, r))
  BY <1>2, <1>3, <1>4, <1>5, ExtendByTwo
<1>7. QED
  BY <1>6, FewerIds

\* The turns of a loop over a set, in whatever order, keep a graph sound.
LEMMA LoopSound ==
  ASSUME NEW S, IsFiniteSet(S), NEW t, NEW H, NEW base, Sound(H, base),
         \A v \in S : \A x : Sound(H, x) => Sound(H, Turn(t, x, v))
  PROVE  Sound(H, Fold(t, base, SetToSeq(S)))
<1> DEFINE s == SetToSeq(S)
           n == Cardinality(S)
           none == [k \in 1..n |-> {}]
<1>1. n \in Nat /\ DOMAIN s = 1..n /\ \A k \in 1..n : s[k] \in S
  BY SetToSeqIs
<1> HIDE DEF s, n
<1>2. ASSUME NEW k \in 1..n, NEW x, NEW G, H \subseteq G, Sound(G, x) PROVE Sound(H, Turn(t, x, s[k]))
  BY <1>1, <1>2, FewerIds
<1>3. PICK h : Turns(h, t, base, s, n)
  BY <1>1, FoldTurns
<1> DEFINE L == {k \in Nat : k <= n => Sound(H, h[k])}
<1>4. 0 \in L
  BY <1>3 DEF Turns
<1>5. ASSUME NEW k \in Nat, k \in L PROVE k + 1 \in L
  <2>1. SUFFICES ASSUME k + 1 <= n PROVE Sound(H, h[k + 1])
    OBVIOUS
  <2>2. Sound(H, h[k]) /\ k + 1 \in 1..n /\ k < n
    BY <1>1, <1>5, <2>1
  <2>3. h[k + 1] = Turn(t, h[k], s[k + 1])
    BY <1>3, <2>2 DEF Turns
  <2>4. QED
    BY <1>2, <2>2, <2>3
<1> HIDE DEF L
<1>6. n \in L
  BY <1>1, <1>4, <1>5, InductionOverNat
<1>7. QED
  BY <1>1, <1>3, <1>6 DEF L, Turns, s, n

\* Wiring a load balancer without a pool.
LEMMA VIPOnlySound ==
  ASSUME NEW H, NEW h, Sound(H, h), NEW svc, svc.ns \in SeenSpaces, serviceID(svc.ns, svc.name) \in H
  PROVE  Sound(H, wireMetalLBVIPOnly(h, svc))
<1> DEFINE n == Node(LbID(svc), "loadbalancer-external")
           m == Node(LbClient, "external-client")
           G == H \cup {n.id, m.id}
           e == Primary(LbID(svc), serviceID(svc.ns, svc.name), "direct")
           f == Primary(LbClient, LbID(svc), "ingress")
<1>1. n.id = LbID(svc) /\ m.id = LbClient /\ NodeFits(n) /\ NodeFits(m)
  BY DEF NodeFits, Node, LbID, LbClient, EndpointID, KindFits, InfraIds, layerForKind, isInfraKind, SeenSpaces
<1>2. EdgeFits(G, e) /\ EdgeFits(G, f)
  <2>1. LbID(svc)[1] # "route" /\ LbClient[1] # "route" /\ serviceID(svc.ns, svc.name)[1] # "route"
    BY DEF LbID, LbClient, serviceID
  <2>2. QED
    BY <1>1, <2>1, PlainEdgeFits
<1>3. wireMetalLBVIPOnly(h, svc) = Extend(h, <<n, m>>, <<e, f>>)
  BY DEF wireMetalLBVIPOnly
<1> HIDE DEF n, m, e, f
<1>4. Sound(G, wireMetalLBVIPOnly(h, svc))
  BY <1>1, <1>2, <1>3, ExtendByTwo
<1>5. QED
  BY <1>4, FewerIds

\* The id of an advertisement.
AdID(ad) == <<"metallb-ad", ad.ns, ad.name>>

\* Drawing a peer of an advertisement.
LEMMA AddPeerSound ==
  ASSUME NEW H, NEW h, Sound(H, h), NEW ad, AdID(ad) \in H, NEW peer
  PROVE  Sound(H, AddPeer(h, ad, peer))
<1> DEFINE id == <<"bgp-peer", "metallb-system", peer>>
           n == Node(id, "bgp-peer")
           e == Primary(AdID(ad), id, "direct")
<1>1. n.id = id /\ NodeFits(n)
  BY DEF NodeFits, Node, EndpointID, KindFits, InfraIds, layerForKind, isInfraKind, SeenSpaces, MetalLBNamespaces
<1>2. EdgeFits(H \cup {n.id}, e)
  BY <1>1, PlainEdgeFits DEF AdID
<1>3. AddPeer(h, ad, peer) = Extend(h, <<n>>, <<e>>)
  BY DEF AddPeer, AdID
<1> HIDE DEF n, e
<1>4. Sound(H \cup {n.id}, AddPeer(h, ad, peer))
  BY <1>1, <1>2, <1>3, ExtendByOne
<1>5. QED
  BY <1>4, FewerIds

\* Drawing an advertisement with its peers.
LEMMA AddAdSound ==
  ASSUME NEW H, NEW h, Sound(H, h), NEW pool \in H, pool[1] # "route",
         NEW ad \in Ads, NEW peers \in SUBSET Peers
  PROVE  Sound(H, AddAd(h, pool, ad, peers))
<1> DEFINE n == Node(AdID(ad), "metallb-advertisement")
           e == Primary(pool, AdID(ad), "direct")
           G == H \cup {n.id}
           t == Loop("peer", ad, 0)
           S == peersForAdvertisement(ad, peers)
           x0 == Extend(h, <<n>>, <<e>>)
<1>1. n.id = AdID(ad) /\ NodeFits(n)
  BY ClusterAssumption DEF NodeFits, Node, AdID, EndpointID, KindFits, InfraIds, layerForKind, isInfraKind, SeenSpaces
<1>2. EdgeFits(G, e)
  BY <1>1, PlainEdgeFits DEF AdID
<1>3. AddAd(h, pool, ad, peers) = Fold(t, x0, SetToSeq(S))
  BY PeersFold DEF AddAd, AdID
<1>4. \A x, v : Turn(t, x, v) = AddPeer(x, ad, v)
  BY DEF Turn, Loop
<1>5. IsFiniteSet(S)
  <2>1. S \in SUBSET Peers
    BY DEF peersForAdvertisement
  <2>2. QED
    BY <2>1, ClusterAssumption, FS_Subset
<1> HIDE DEF n, e, t, S
<1>6. Sound(G, x0)
  BY <1>1, <1>2, ExtendByOne
<1>7. \A v \in S : \A x : Sound(G, x) => Sound(G, Turn(t, x, v))
  BY <1>1, <1>4, AddPeerSound
<1> HIDE DEF G, x0
<1>8. Sound(G, AddAd(h, pool, ad, peers))
  BY <1>3, <1>5, <1>6, <1>7, LoopSound
<1>9. QED
  BY <1>8, FewerIds DEF G

\* Wiring a load balancer through its pool, advertisements and peers.
LEMMA WirePoolSound ==
  ASSUME NEW H, NEW h, Sound(H, h), NEW svc, svc.ns \in SeenSpaces, serviceID(svc.ns, svc.name) \in H,
         NEW pool, NEW idx, idx.ads \subseteq Ads, idx.peers \subseteq Peers
  PROVE  Sound(H, WirePool(h, svc, pool, idx))
<1> DEFINE poolID == <<"metallb-pool", "metallb-system", pool>>
           ns == <<Node(poolID, "metallb-pool"), Node(LbID(svc), "loadbalancer-external"),
                   Node(LbClient, "external-client")>>
           es == <<Primary(LbID(svc), poolID, "direct"),
                   Primary(poolID, serviceID(svc.ns, svc.name), "direct"),
                   Primary(LbClient, LbID(svc), "ingress")>>
           G == H \cup {poolID, LbID(svc), LbClient}
           t == Loop("ad", poolID, idx.peers)
           S == advertisementsForPool(idx.ads, pool)
           x0 == Extend(h, ns, es)
<1>1. 1..3 = {1, 2, 3}
  OBVIOUS
<1>2. /\ DOMAIN ns = 1..3 /\ ns[1] = Node(poolID, "metallb-pool")
      /\ ns[2] = Node(LbID(svc), "loadbalancer-external") /\ ns[3] = Node(LbClient, "external-client")
  OBVIOUS
<1>3. /\ DOMAIN es = 1..3 /\ es[1] = Primary(LbID(svc), poolID, "direct")
      /\ es[2] = Primary(poolID, serviceID(svc.ns, svc.name), "direct")
      /\ es[3] = Primary(LbClient, LbID(svc), "ingress")
  OBVIOUS
<1>4. WirePool(h, svc, pool, idx) = Fold(t, x0, SetToSeq(S))
  BY AdsFold DEF WirePool
<1> HIDE DEF ns, es
<1>5. /\ NodeFits(Node(poolID, "metallb-pool")) /\ NodeFits(Node(LbClient, "external-client"))
      /\ NodeFits(Node(LbID(svc), "loadbalancer-external"))
  BY DEF NodeFits, Node, LbID, LbClient, EndpointID, KindFits, InfraIds, layerForKind, isInfraKind, SeenSpaces, MetalLBNamespaces
<1>6. \A id, k : Node(id, k).id = id
  BY DEF Node
<1>7. \A i \in 1..3 : NodeFits(ns[i])
  BY <1>1, <1>2, <1>5
<1>8. G = H \cup {ns[i].id : i \in 1..3}
  BY <1>1, <1>2, <1>6
<1>9. \A i \in 1..3 : EdgeFits(G, es[i])
  <2>1. /\ LbID(svc)[1] # "route" /\ LbClient[1] # "route" /\ poolID[1] # "route"
        /\ serviceID(svc.ns, svc.name)[1] # "route"
    BY DEF LbID, LbClient, serviceID
  <2> HIDE DEF poolID
  <2>2. EdgeFits(G, es[1]) /\ EdgeFits(G, es[2]) /\ EdgeFits(G, es[3])
    BY <1>3, <2>1, PlainEdgeFits
  <2>3. QED
    BY <1>1, <2>2
<1>10. \A x, v : Turn(t, x, v) = AddAd(x, poolID, v, idx.peers)
  BY DEF Turn, Loop
<1>11. poolID[1] # "route" /\ poolID \in G
  OBVIOUS
<1>12. S \in SUBSET Ads /\ IsFiniteSet(S)
  <2>1. S \in SUBSET Ads
    BY DEF advertisementsForPool
  <2>2. QED
    BY <2>1, ClusterAssumption, FS_Subset
<1> HIDE DEF G, poolID, t, S
<1>13. Sound(G, x0)
  BY <1>2, <1>3, <1>7, <1>8, <1>9, ExtendSound
<1>14. \A v \in S : \A x : Sound(G, x) => Sound(G, Turn(t, x, v))
  BY <1>10, <1>11, <1>12, AddAdSound
<1> HIDE DEF x0
<1>15. Sound(G, WirePool(h, svc, pool, idx))
  BY <1>4, <1>12, <1>13, <1>14, LoopSound
<1>16. QED
  BY <1>15, FewerIds DEF G

\* An egress address is placed in the namespace it is for.
LEMMA PlaceSound ==
  ASSUME NEW H, NEW h, Sound(H, h), NEW id \in H, NEW ns \in SeenSpaces
  PROVE  Sound(H, [h EXCEPT !.nodes[id].ns = ns])
<1> DEFINE k == [h EXCEPT !.nodes[id].ns = ns]
           new == [h.nodes[id] EXCEPT !.ns = ns]
<1>1. k = [nodes |-> [h.nodes EXCEPT ![id] = new], edges |-> h.edges]
  BY DEF Sound
<1>2. k = [nodes |-> k.nodes, edges |-> k.edges] /\ k.edges = h.edges
  BY <1>1
<1>3. k.nodes = [i \in DOMAIN h.nodes |-> IF i = id THEN new ELSE h.nodes[i]]
  BY <1>1
<1>4. id \in DOMAIN h.nodes
  BY DEF Sound
<1>5. /\ DOMAIN new = {"kind", "ns", "tracked", "focused"} /\ new.kind = h.nodes[id].kind
      /\ new.ns = ns /\ new.tracked = h.nodes[id].tracked
  BY <1>4 DEF Sound, NodesSound
<1> HIDE DEF k, new
<1>6. NodesSound(k)
  BY <1>3, <1>5 DEF Sound, NodesSound
<1>7. DOMAIN k.nodes = DOMAIN h.nodes
  BY <1>3
<1>8. EdgesSound(k)
  BY <1>2, <1>7 DEF Sound, EdgesSound
<1>9. QED
  BY <1>2, <1>6, <1>7, <1>8 DEF Sound, k

\* Drawing an egress address on the way to the destination.
LEMMA EgressIPSound ==
  ASSUME NEW H, NEW h, Sound(H, h), NEW item, item.ns \in SeenSpaces, NEW p, podNodeID(p) \in H,
         NEW dest \in H, dest[1] # "route"
  PROVE  Sound(H, EgressIPHit(h, item, p, dest))
<1> DEFINE id == <<"egressip", "", item.name>>
           n == Node(id, "egressip")
           G == H \cup {n.id}
           seen == addNode(h, n)
           placed == IF seen = h THEN h ELSE [seen EXCEPT !.nodes[id].ns = item.ns]
           ns == <<>>
           es == <<Edge(podNodeID(p), id, "egress"), Edge(id, dest, "egress")>>
<1>1. n.id = id /\ NodeFits(n) /\ id[1] # "route"
  BY DEF NodeFits, Node, EndpointID, KindFits, InfraIds, layerForKind, isInfraKind, SeenSpaces
<1>2. EgressIPHit(h, item, p, dest) = Extend(placed, ns, es)
  BY DEF EgressIPHit
<1>3. DOMAIN ns = 1..0
  OBVIOUS
<1>4. DOMAIN es = 1..2 /\ es[1] = Edge(podNodeID(p), id, "egress") /\ es[2] = Edge(id, dest, "egress")
  OBVIOUS
<1> HIDE DEF n, seen, es, ns, id
<1>5. Sound(G, seen)
  BY <1>1, AddNodeSound DEF seen
<1>6. Sound(G, placed)
  <2>1. CASE seen = h
    BY <1>5, <2>1
  <2>2. CASE seen # h
    BY <1>1, <1>5, <2>2, PlaceSound
  <2>3. QED
    BY <2>1, <2>2
<1>7. podNodeID(p)[1] # "route"
  BY DEF podNodeID
<1>8. EdgeFits(G, es[1]) /\ EdgeFits(G, es[2])
  BY <1>1, <1>4, <1>7, PlainEdgeFits
<1>9. \A i \in 1..2 : EdgeFits(G, es[i])
  <2>1. \A i \in 1..2 : i = 1 \/ i = 2
    OBVIOUS
  <2>2. QED
    BY <1>8, <2>1
<1> HIDE DEF placed
<1>10. G = G \cup {ns[i].id : i \in 1..0}
  OBVIOUS
<1>11. \A i \in 1..0 : NodeFits(ns[i])
  OBVIOUS
<1> HIDE DEF G
<1>12. Sound(G, Extend(placed, ns, es))
  BY <1>3, <1>4, <1>6, <1>9, <1>10, <1>11, ExtendSound
<1>13. QED
  BY <1>2, <1>12, FewerIds DEF G

\* Drawing an egress service.
LEMMA EgressServiceSound ==
  ASSUME NEW H, NEW h, Sound(H, h), NEW item, item.ns \in SeenSpaces, NEW p, podNodeID(p) \in H
  PROVE  Sound(H, EgressServiceHit(h, item, p))
<1> DEFINE id == <<"egressservice", item.ns, item.name>>
           n == Node(id, "egressservice")
           e == Edge(podNodeID(p), id, "egressservice")
<1>1. n.id = id /\ NodeFits(n) /\ id[1] # "route"
  BY DEF NodeFits, Node, EndpointID, KindFits, InfraIds, layerForKind, isInfraKind
<1>2. EdgeFits(H \cup {n.id}, e)
  BY <1>1, PlainEdgeFits DEF podNodeID
<1>3. EgressServiceHit(h, item, p) = IF item.ns = NsOf[p] THEN Extend(h, <<n>>, <<e>>) ELSE Extend(h, <<n>>, <<>>)
  BY DEF EgressServiceHit
<1> HIDE DEF n, e
<1>4. CASE item.ns = NsOf[p]
  <2>1. Sound(H \cup {n.id}, Extend(h, <<n>>, <<e>>))
    BY <1>1, <1>2, ExtendByOne
  <2>2. Sound(H \cup {n.id}, EgressServiceHit(h, item, p))
    BY <1>3, <1>4, <2>1
  <2>3. QED
    BY <2>2, FewerIds
<1>5. CASE item.ns # NsOf[p]
  <2> DEFINE ns == <<n>>
             es == <<>>
             G == H \cup {n.id}
  <2>1. DOMAIN ns = 1..1 /\ DOMAIN es = 1..0 /\ ns[1] = n
    OBVIOUS
  <2> HIDE DEF ns, es
  <2>2. G = H \cup {ns[i].id : i \in 1..1} /\ \A i \in 1..1 : NodeFits(ns[i])
    <3>1. 1..1 = {1}
      OBVIOUS
    <3>2. QED
      BY <1>1, <2>1, <3>1
  <2> HIDE DEF G
  <2>3. \A i \in 1..0 : EdgeFits(G, es[i])
    OBVIOUS
  <2>4. Sound(G, Extend(h, ns, es))
    BY <2>1, <2>2, <2>3, ExtendSound
  <2>5. QED
    BY <1>3, <1>5, <2>4, FewerIds DEF G, ns, es
<1>6. QED
  BY <1>4, <1>5

\* Two nodes with four edges.
LEMMA ExtendByChain ==
  ASSUME NEW H, NEW h, Sound(H, h), NEW n, NEW m, NodeFits(n), NodeFits(m), NEW G,
         G = H \cup {n.id, m.id},
         NEW a, NEW b, NEW c, NEW d, EdgeFits(G, a), EdgeFits(G, b), EdgeFits(G, c), EdgeFits(G, d)
  PROVE  Sound(G, Extend(h, <<n, m>>, <<a, b, c, d>>))
<1> DEFINE ns == <<n, m>>
           es == <<a, b, c, d>>
<1>1. DOMAIN ns = 1..2 /\ ns[1] = n /\ ns[2] = m
  OBVIOUS
<1>2. DOMAIN es = 1..4 /\ es[1] = a /\ es[2] = b /\ es[3] = c /\ es[4] = d
  OBVIOUS
<1> HIDE DEF ns, es
<1>3. (\A i \in 1..2 : NodeFits(ns[i])) /\ G = H \cup {ns[i].id : i \in 1..2}
  <2>1. 1..2 = {1, 2}
    OBVIOUS
  <2>2. QED
    BY <1>1, <2>1
<1>4. \A i \in 1..4 : EdgeFits(G, es[i])
  <2>1. \A i \in 1..4 : i = 1 \/ i = 2 \/ i = 3 \/ i = 4
    OBVIOUS
  <2>2. QED
    BY <1>2, <2>1
<1>5. Sound(G, Extend(h, ns, es))
  BY <1>1, <1>2, <1>3, <1>4, ExtendSound
<1>6. QED
  BY <1>5 DEF ns, es

\* Drawing the chain of interfaces from a pod's host to the destination.
LEMMA HostChainSound ==
  ASSUME NEW H, NEW h, Sound(H, h), NEW p, NsOf[p] \in SeenSpaces, podNodeID(p) \in H,
         Scheduled(p) => hostID(NodeOf[p]) \in H, NEW dest \in H, dest[1] # "route"
  PROVE  Sound(H, HostChain(h, p, dest))
<1>1. CASE ~Scheduled(p)
  BY <1>1 DEF HostChain, Scheduled
<1>2. CASE Scheduled(p)
  <2> DEFINE name == NodeOf[p] \o "-bond0"
             ovn == <<"ovn", NsOf[p], p>>
             host == hostID(NodeOf[p])
             bond == <<"bond", "", name>>
             n == Node(ovn, "ovn-logical-port")
             m == Node(bond, "bond")
             a == Edge(podNodeID(p), ovn, "direct")
             b == Edge(ovn, host, "direct")
             c == Edge(host, bond, "host")
             d == Edge(bond, dest, "egress")
             G == H \cup {ovn, bond}
  <2>1. HostChain(h, p, dest) = Extend(h, <<n, m>>, <<a, b, c, d>>)
    BY <1>2 DEF HostChain, Scheduled
  <2> HIDE DEF name
  <2>2. NodeFits(n) /\ NodeFits(m) /\ n.id = ovn /\ m.id = bond
    BY DEF NodeFits, Node, EndpointID, KindFits, InfraIds, layerForKind, isInfraKind, SeenSpaces
  <2>3. ovn[1] # "route" /\ bond[1] # "route" /\ host[1] # "route" /\ podNodeID(p)[1] # "route"
    BY DEF hostID, podNodeID
  <2>4. host \in H
    BY <1>2
  <2> HIDE DEF ovn, bond, host, n, m
  <2>5. EdgeFits(G, a) /\ EdgeFits(G, b) /\ EdgeFits(G, c) /\ EdgeFits(G, d)
    BY <2>3, <2>4, PlainEdgeFits
  <2>6. G = H \cup {n.id, m.id}
    BY <2>2
  <2> HIDE DEF a, b, c, d, G
  <2>7. Sound(G, Extend(h, <<n, m>>, <<a, b, c, d>>))
    BY <2>2, <2>5, <2>6, ExtendByChain
  <2>8. QED
    BY <2>1, <2>7, FewerIds DEF G
<1>3. QED
  BY <1>1, <1>2

\* The pods of a sequence become nodes.
LEMMA IdsGained ==
  ASSUME NEW s, NEW n \in Nat, DOMAIN s = 1..n
  PROVE  Ids(s) = Gained([k \in 1..n |-> {podNodeID(s[k])}], n)
<1> DEFINE got == [k \in 1..n |-> {podNodeID(s[k])}]
<1>1. Range(s) = {s[k] : k \in 1..n}
  BY DEF Range
<1>2. \A x : x \in Ids(s) <=> \E k \in 1..n : x = podNodeID(s[k])
  BY <1>1 DEF Ids
<1>3. \A x : x \in Gained(got, n) <=> \E k \in 1..n : x = podNodeID(s[k])
  BY DEF Gained
<1>4. QED
  BY <1>2, <1>3

\* The nodes of the hosts that pods are on.
HostIDs(pods) == UNION {HostOf(p) : p \in Range(pods)}

\* An endpoint that is an address.
IpFits(n) == EndpointID(n.id) /\ n.id[1] \in {"ip", "external"} /\ n.kind \in EndpointKinds /\ n.id[2] \in SeenSpaces

\* An endpoint as it is resolved.
Resolved(ep) ==
  /\ ep.pods \in Seq(Pods) /\ \A p \in Range(ep.pods) : NsOf[p] \in Accessible
  /\ IsFiniteSet(ep.ip) /\ \A n \in ep.ip : IpFits(n)

\* What seeding the pods s gains, pod by pod.
LEMMA HostsGained ==
  ASSUME NEW s, NEW n \in Nat, DOMAIN s = 1..n
  PROVE  Ids(s) \cup HostIDs(s)
           = Gained([k \in 1..n |-> {podNodeID(s[k])} \cup HostOf(s[k])], n)
<1> DEFINE got == [k \in 1..n |-> {podNodeID(s[k])} \cup HostOf(s[k])]
<1>1. Range(s) = {s[k] : k \in 1..n}
  BY DEF Range
<1>2. \A x : x \in HostIDs(s) <=> \E k \in 1..n : x \in HostOf(s[k])
  BY <1>1 DEF HostIDs
<1>3. \A x : x \in Ids(s) <=> \E k \in 1..n : x = podNodeID(s[k])
  BY <1>1 DEF Ids
<1>4. \A x : x \in Gained(got, n) <=> \E k \in 1..n : x = podNodeID(s[k]) \/ x \in HostOf(s[k])
  BY DEF Gained
<1>5. QED
  BY <1>2, <1>3, <1>4

\* The graph begins sound.
LEMMA EmptySound == Sound({}, EmptyGraph)
<1>1. EmptyGraph.nodes = <<>> /\ EmptyGraph.edges = <<>> /\ DOMAIN EmptyGraph.nodes = {}
  BY DEF EmptyGraph
<1>2. EmptyGraph = [nodes |-> EmptyGraph.nodes, edges |-> EmptyGraph.edges]
  BY DEF EmptyGraph
<1>3. Range(EmptyGraph.edges) = {} /\ EmptyGraph.edges \in Seq({})
  BY <1>1 DEF Range
<1>4. QED
  BY <1>1, <1>2, <1>3, FS_EmptySet DEF Sound, NodesSound, EdgesSound

\* Seeding draws both endpoints and the hosts of the source.
LEMMA SeedSound ==
  ASSUME NEW a, NEW b, Resolved(a), Resolved(b)
  PROVE  Sound(sourceIDs(a) \cup HostIDs(a.pods) \cup destIDs(b), seedEndpoints(a, b))
<1>1. \A p \in Range(a.pods) \cup Range(b.pods) : NsOf[p] \in SeenSpaces
  BY DEF Resolved, SeenSpaces
<1> DEFINE la == Len(a.pods)
           lb == Len(b.pods)
           ga == [k \in 1..la |-> {podNodeID(a.pods[k])} \cup HostOf(a.pods[k])]
           gb == [k \in 1..lb |-> {podNodeID(b.pods[k])}]
           S == {[id |-> n.id, kind |-> n.kind, tracked |-> TRUE] : n \in b.ip}
           s == SetToSeq(S)
           ls == Cardinality(S)
           gs == [k \in 1..ls |-> {s[k].id}]
           ta == Loop("source", 0, 0)
           tb == Loop("endpoint", 0, 0)
           ts == Loop("node", 0, 0)
           x == Fold(ta, EmptyGraph, a.pods)
           y == Fold(tb, x, b.pods)
           A == Ids(a.pods) \cup HostIDs(a.pods)
           B == A \cup Ids(b.pods)
<1>2. la \in Nat /\ DOMAIN a.pods = 1..la /\ lb \in Nat /\ DOMAIN b.pods = 1..lb
  BY LenProperties DEF Resolved
<1>3. IsFiniteSet(S) /\ \A r \in S : NodeFits(r)
  <2>1. \E f : f \in Surjection(b.ip, S)
    <3> DEFINE f == [n \in b.ip |-> [id |-> n.id, kind |-> n.kind, tracked |-> TRUE]]
    <3>1. f \in Surjection(b.ip, S)
      BY DEF Surjection
    <3>2. QED
      BY <3>1
  <2>2. IsFiniteSet(S)
    BY <2>1, FS_Surjection DEF Resolved
  <2>3. ASSUME NEW n \in b.ip PROVE NodeFits([id |-> n.id, kind |-> n.kind, tracked |-> TRUE])
    BY DEF Resolved, IpFits, NodeFits, KindFits, InfraIds, EndpointKinds, layerForKind, isInfraKind
  <2>4. QED
    BY <2>2, <2>3
<1>4. seedEndpoints(a, b) = Fold(ts, y, s)
  BY SourcesFold, EndpointsFold, NodesFold DEF seedEndpoints
<1>5. \A v, i : Turn(ta, v, i) = SourceEndpoint(v, i) /\ Turn(tb, v, i) = Endpoint(v, i) /\ Turn(ts, v, i) = addNode(v, i)
  BY DEF Turn, Loop
<1>6. Gained(ga, la) = A /\ Gained(gb, lb) = Ids(b.pods)
  BY <1>2, IdsGained, HostsGained
<1>7. \A k \in 1..la : a.pods[k] \in Range(a.pods)
  BY <1>2 DEF Range
<1>8. \A k \in 1..lb : b.pods[k] \in Range(b.pods)
  BY <1>2 DEF Range
<1> HIDE DEF la, lb, ta, tb, ts
<1>9. Sound(A, x)
  <2>1. ASSUME NEW k \in 1..la, NEW v, NEW G, Sound(G, v)
        PROVE  Sound(G \cup ga[k], Turn(ta, v, a.pods[k]))
    <3>1. Sound(G \cup {podNodeID(a.pods[k])} \cup HostOf(a.pods[k]), SourceEndpoint(v, a.pods[k]))
      BY <1>1, <1>7, <2>1, SourceSound
    <3>2. ga[k] = {podNodeID(a.pods[k])} \cup HostOf(a.pods[k])
      OBVIOUS
    <3> HIDE DEF ga
    <3>3. G \cup ga[k] = G \cup {podNodeID(a.pods[k])} \cup HostOf(a.pods[k])
      BY <3>2
    <3>4. QED
      BY <1>5, <3>1, <3>3
  <2> HIDE DEF ga, A
  <2>2. Keeps({}, ta, a.pods, la, ga)
    BY <2>1 DEF Keeps
  <2>3. Sound({} \cup Gained(ga, la), x)
    BY <1>2, <2>2, EmptySound, FoldSound
  <2>4. QED
    BY <1>6, <2>3
<1> HIDE DEF x, ga
<1>10. Sound(B, y)
  <2>1. ASSUME NEW k \in 1..lb, NEW v, NEW G, Sound(G, v)
        PROVE  Sound(G \cup gb[k], Turn(tb, v, b.pods[k]))
    BY <1>1, <1>5, <1>8, <2>1, EndpointSound
  <2> HIDE DEF gb, A
  <2>2. Keeps(A, tb, b.pods, lb, gb)
    BY <2>1 DEF Keeps
  <2>3. Sound(A \cup Gained(gb, lb), y)
    BY <1>2, <1>9, <2>2, FoldSound
  <2>4. QED
    BY <1>6, <2>3
<1> HIDE DEF y, gb
<1>11. ls \in Nat /\ DOMAIN s = 1..ls /\ Range(s) = S /\ \A k \in 1..ls : s[k] \in S
  BY <1>3, SetToSeqIs
<1>12. Gained(gs, ls) = {n.id : n \in b.ip}
  <2>1. \A z : z \in Gained(gs, ls) <=> \E k \in 1..ls : z = s[k].id
    BY DEF Gained
  <2> HIDE DEF gs, ls, s
  <2>2. \A z : (\E k \in 1..ls : z = s[k].id) <=> \E r \in S : z = r.id
    BY <1>11 DEF Range
  <2>3. \A z : (\E r \in S : z = r.id) <=> \E n \in b.ip : z = n.id
    <3>1. ASSUME NEW n \in b.ip PROVE \E r \in S : n.id = r.id
      <4>1. [id |-> n.id, kind |-> n.kind, tracked |-> TRUE] \in S
        OBVIOUS
      <4>2. [id |-> n.id, kind |-> n.kind, tracked |-> TRUE].id = n.id
        OBVIOUS
      <4> HIDE DEF S
      <4>3. QED
        BY <4>1, <4>2
    <3>2. ASSUME NEW r \in S PROVE \E n \in b.ip : r.id = n.id
      <4>1. PICK n \in b.ip : r = [id |-> n.id, kind |-> n.kind, tracked |-> TRUE]
        OBVIOUS
      <4>2. QED
        BY <4>1
    <3> HIDE DEF S
    <3>3. QED
      BY <3>1, <3>2
  <2>4. QED
    BY <2>1, <2>2, <2>3
<1> HIDE DEF ls, s
<1>13. Sound(B \cup Gained(gs, ls), seedEndpoints(a, b))
  <2>1. ASSUME NEW k \in 1..ls, NEW v, NEW G, Sound(G, v) PROVE Sound(G \cup gs[k], Turn(ts, v, s[k]))
    BY <1>3, <1>5, <1>11, <2>1, AddNodeSound
  <2> HIDE DEF gs, B, S
  <2>2. Keeps(B, ts, s, ls, gs)
    BY <2>1 DEF Keeps
  <2>3. Sound(B \cup Gained(gs, ls), Fold(ts, y, s))
    BY <1>10, <1>11, <2>2, FoldSound
  <2>4. QED
    BY <1>4, <2>3
<1>14. B \cup Gained(gs, ls) = sourceIDs(a) \cup HostIDs(a.pods) \cup destIDs(b)
  BY <1>12 DEF sourceIDs, destIDs
<1>15. QED
  BY <1>13, <1>14

-----------------------------------------------------------------------------
(* What the reply keeps of the graph.                                          *)

\* A loop that keeps the members of Q.
Filters(t, s, Q) ==
  \A x : \A i \in Range(s) : Turn(t, x, i) = IF i \in Q THEN Append(x, i) ELSE x

\* It keeps exactly those.
LEMMA FilterIs ==
  ASSUME NEW t, NEW s, s \in Seq(Range(s)), NEW Q, Filters(t, s, Q)
  PROVE  /\ Fold(t, <<>>, s) \in Seq(Range(Fold(t, <<>>, s)))
         /\ Range(Fold(t, <<>>, s)) = Range(s) \cap Q
<1> DEFINE n == Len(s)
<1>1. n \in Nat /\ DOMAIN s = 1..n
  BY LenProperties
<1> HIDE DEF n
<1>2. PICK h : Turns(h, t, <<>>, s, n)
  BY <1>1, FoldTurns
<1> DEFINE To(k) == {s[i] : i \in 1..k}
           K == {k \in Nat : k <= n => h[k] \in Seq(Range(h[k])) /\ Range(h[k]) = To(k) \cap Q}
<1>3. 0 \in K
  <2>1. h[0] = <<>> /\ To(0) = {}
    BY <1>2 DEF Turns
  <2>2. Range(<<>>) = {} /\ <<>> \in Seq({})
    BY DEF Range
  <2>3. QED
    BY <2>1, <2>2
<1>4. ASSUME NEW k \in Nat, k \in K PROVE k + 1 \in K
  <2>1. SUFFICES ASSUME k + 1 <= n
                 PROVE  h[k + 1] \in Seq(Range(h[k + 1])) /\ Range(h[k + 1]) = To(k + 1) \cap Q
    OBVIOUS
  <2>2. h[k] \in Seq(Range(h[k])) /\ Range(h[k]) = To(k) \cap Q
    <3> HIDE DEF To
    <3>1. k <= n
      BY <1>1, <2>1
    <3>2. QED
      BY <1>4, <3>1
  <2>3. s[k + 1] \in Range(s)
    BY <1>1, <2>1 DEF Range
  <2>4. h[k + 1] = IF s[k + 1] \in Q THEN Append(h[k], s[k + 1]) ELSE h[k]
    <3>1. h[k + 1] = Turn(t, h[k], s[k + 1])
      BY <1>1, <1>2, <2>1 DEF Turns
    <3>2. QED
      BY <2>3, <3>1 DEF Filters
  <2>5. To(k + 1) = To(k) \cup {s[k + 1]}
    <3>1. 1..(k+1) = (1..k) \cup {k+1}
      OBVIOUS
    <3>2. QED
      BY <3>1
  <2> HIDE DEF To
  <2>6. CASE s[k + 1] \in Q
    <3> DEFINE a == Append(h[k], s[k + 1])
    <3>1. a \in Seq(Range(a)) /\ Range(a) = Range(h[k]) \cup {s[k + 1]}
      BY <2>2, AppendIs
    <3>2. h[k + 1] = a
      BY <2>4, <2>6
    <3> HIDE DEF a
    <3>3. QED
      BY <2>2, <2>5, <2>6, <3>1, <3>2
  <2>7. CASE s[k + 1] \notin Q
    BY <2>2, <2>4, <2>5, <2>7
  <2>8. QED
    BY <2>6, <2>7
<1> HIDE DEF K
<1>5. n \in K
  BY <1>1, <1>3, <1>4, InductionOverNat
<1>6. To(n) = Range(s)
  BY <1>1 DEF Range
<1>7. QED
  BY <1>1, <1>2, <1>5, <1>6 DEF K, Turns

\* The graph between the nodes ids.
LEMMA WithinIs ==
  ASSUME NEW h, h.edges \in Seq(Range(h.edges)), NEW ids
  PROVE  /\ DOMAIN Within(h, ids).nodes = DOMAIN h.nodes \cap ids
         /\ \A id \in DOMAIN h.nodes \cap ids : Within(h, ids).nodes[id] = h.nodes[id]
         /\ Within(h, ids).edges \in Seq(Range(Within(h, ids).edges))
         /\ Range(Within(h, ids).edges) = {e \in Range(h.edges) : e.from \in ids /\ e.to \in ids}
<1> DEFINE t == Loop("within", ids, 0)
           Q == {e \in Range(h.edges) : e.from \in ids /\ e.to \in ids}
<1>1. Within(h, ids).edges = Fold(t, <<>>, h.edges)
  BY WithinFold DEF Within
<1>2. Filters(t, h.edges, Q)
  BY DEF Filters, Turn, Loop
<1>3. Range(h.edges) \cap Q = Q
  OBVIOUS
<1> HIDE DEF t, Q
<1>4. /\ Fold(t, <<>>, h.edges) \in Seq(Range(Fold(t, <<>>, h.edges)))
      /\ Range(Fold(t, <<>>, h.edges)) = Q
  BY <1>2, <1>3, FilterIs
<1>5. /\ DOMAIN Within(h, ids).nodes = DOMAIN h.nodes \cap ids
      /\ \A id \in DOMAIN h.nodes \cap ids : Within(h, ids).nodes[id] = h.nodes[id]
  BY DEF Within
<1>6. QED
  BY <1>1, <1>4, <1>5 DEF Q

\* The simplified graph keeps its endpoints and its focus and joins only what
\* it keeps.
LEMMA SimplifySound ==
  ASSUME NEW H, NEW h, Sound(H, h)
  PROVE  /\ simplifyGraph(h).edges \in Seq(Range(simplifyGraph(h).edges))
         /\ DOMAIN simplifyGraph(h).nodes \subseteq DOMAIN h.nodes
         /\ \A id \in DOMAIN simplifyGraph(h).nodes : simplifyGraph(h).nodes[id] = h.nodes[id]
         /\ Ends(Range(simplifyGraph(h).edges)) \subseteq DOMAIN simplifyGraph(h).nodes
         /\ \A id \in DOMAIN h.nodes :
              h.nodes[id].tracked \/ h.nodes[id].focused => id \in DOMAIN simplifyGraph(h).nodes
<1> DEFINE marked == {id \in DOMAIN h.nodes : h.nodes[id].tracked \/ h.nodes[id].focused}
           primary == {e \in Range(h.edges) : e.primary}
           ids == marked \cup {e.from : e \in primary} \cup {e.to : e \in primary}
           k == Within(h, ids)
<1>1. simplifyGraph(h) = k
  BY DEF simplifyGraph
<1>2. ids \subseteq DOMAIN h.nodes
  BY DEF Sound, EdgesSound, EdgeFits
<1>3. marked \subseteq ids
  OBVIOUS
<1> HIDE DEF ids
<1>4. /\ DOMAIN k.nodes = DOMAIN h.nodes \cap ids
      /\ \A id \in DOMAIN h.nodes \cap ids : k.nodes[id] = h.nodes[id]
      /\ k.edges \in Seq(Range(k.edges))
      /\ Range(k.edges) = {e \in Range(h.edges) : e.from \in ids /\ e.to \in ids}
  BY WithinIs DEF Sound, EdgesSound
<1> HIDE DEF k
<1>5. Ends(Range(k.edges)) \subseteq ids
  BY <1>4 DEF Ends
<1>6. QED
  BY <1>1, <1>2, <1>3, <1>4, <1>5

\* Marking nodes, and edges between nodes that are there, keeps a graph sound.
\* P is the set of the edges that become primary.
Marked(h, ids, P) ==
  [nodes |-> [id \in DOMAIN h.nodes |-> [h.nodes[id] EXCEPT !.focused = id \in ids]],
   edges |-> [i \in DOMAIN h.edges |-> [h.edges[i] EXCEPT !.primary = @ \/ h.edges[i] \in P]]]

\* What the marking leaves as it was.
LEMMA MarkedIs ==
  ASSUME NEW H, NEW h, Sound(H, h), NEW ids, NEW P
  PROVE  /\ DOMAIN Marked(h, ids, P).nodes = DOMAIN h.nodes
         /\ \A id \in DOMAIN h.nodes :
              LET n == Marked(h, ids, P).nodes[id]
              IN  /\ DOMAIN n = {"kind", "ns", "tracked", "focused"}
                  /\ n.kind = h.nodes[id].kind /\ n.ns = h.nodes[id].ns
                  /\ n.tracked = h.nodes[id].tracked /\ n.focused = (id \in ids)
         /\ Len(h.edges) \in Nat /\ DOMAIN h.edges = 1..Len(h.edges)
         /\ DOMAIN Marked(h, ids, P).edges = DOMAIN h.edges
         /\ Marked(h, ids, P).edges \in Seq(Range(Marked(h, ids, P).edges))
         /\ \A i \in DOMAIN h.edges :
              LET e == Marked(h, ids, P).edges[i]
              IN  /\ DOMAIN e = {"from", "to", "type", "primary"}
                  /\ e.from = h.edges[i].from /\ e.to = h.edges[i].to /\ e.type = h.edges[i].type
                  /\ e.primary = (h.edges[i].primary \/ h.edges[i] \in P)
<1> DEFINE k == Marked(h, ids, P)
<1>1. \A id \in DOMAIN h.nodes : DOMAIN h.nodes[id] = {"kind", "ns", "tracked", "focused"}
  BY DEF Sound, NodesSound
<1>2. Len(h.edges) \in Nat /\ DOMAIN h.edges = 1..Len(h.edges)
  BY LenProperties DEF Sound, EdgesSound
<1>3. \A i \in DOMAIN h.edges : DOMAIN h.edges[i] = {"from", "to", "type", "primary"}
  BY DEF Sound, EdgesSound, EdgeFits, Range
<1>4. DOMAIN k.nodes = DOMAIN h.nodes /\ DOMAIN k.edges = DOMAIN h.edges
  BY DEF Marked
<1>5. \A id \in DOMAIN h.nodes : k.nodes[id] = [h.nodes[id] EXCEPT !.focused = id \in ids]
  BY DEF Marked
<1>6. \A i \in DOMAIN h.edges : k.edges[i] = [h.edges[i] EXCEPT !.primary = @ \/ h.edges[i] \in P]
  BY DEF Marked
<1>7. k.edges = [i \in 1..Len(h.edges) |-> k.edges[i]]
  BY <1>2 DEF Marked
<1> HIDE DEF k
<1>8. k.edges \in Seq(Range(k.edges))
  <2>1. \A i \in 1..Len(h.edges) : k.edges[i] \in Range(k.edges)
    BY <1>2, <1>4 DEF Range
  <2>2. k.edges \in [1..Len(h.edges) -> Range(k.edges)]
    BY <1>7, <2>1
  <2>3. QED
    BY <1>2, <2>2, SeqDef
<1>9. ASSUME NEW id \in DOMAIN h.nodes
      PROVE  LET n == k.nodes[id]
             IN  /\ DOMAIN n = {"kind", "ns", "tracked", "focused"}
                 /\ n.kind = h.nodes[id].kind /\ n.ns = h.nodes[id].ns
                 /\ n.tracked = h.nodes[id].tracked /\ n.focused = (id \in ids)
  BY <1>1, <1>5
<1>10. ASSUME NEW i \in DOMAIN h.edges
       PROVE  LET e == k.edges[i]
              IN  /\ DOMAIN e = {"from", "to", "type", "primary"}
                  /\ e.from = h.edges[i].from /\ e.to = h.edges[i].to /\ e.type = h.edges[i].type
                  /\ e.primary = (h.edges[i].primary \/ h.edges[i] \in P)
  BY <1>3, <1>6
<1>11. QED
  BY <1>2, <1>4, <1>8, <1>9, <1>10 DEF k

\* Marking keeps a graph sound as long as no edge to a guess becomes primary.
LEMMA MarkedSound ==
  ASSUME NEW H, NEW h, Sound(H, h), NEW ids, NEW P,
         \A e \in Range(h.edges) : e \in P => e.to \in DOMAIN h.nodes
  PROVE  Sound(H, Marked(h, ids, P))
<1> DEFINE k == Marked(h, ids, P)
<1>1. k = [nodes |-> k.nodes, edges |-> k.edges]
  BY DEF Marked
<1>2. DOMAIN k.nodes = DOMAIN h.nodes /\ k.edges \in Seq(Range(k.edges))
  BY MarkedIs
<1>3. NodesSound(k)
  <2>1. SUFFICES ASSUME NEW id \in DOMAIN h.nodes
                 PROVE  /\ DOMAIN k.nodes[id] = {"kind", "ns", "tracked", "focused"}
                        /\ KindFits(id, k.nodes[id].kind)
                        /\ EndpointID(id) => k.nodes[id].tracked /\ k.nodes[id].kind \in EndpointKinds
                        /\ k.nodes[id].ns \in SeenSpaces
    BY <1>2 DEF NodesSound
  <2>2. /\ DOMAIN k.nodes[id] = {"kind", "ns", "tracked", "focused"} /\ k.nodes[id].kind = h.nodes[id].kind
        /\ k.nodes[id].ns = h.nodes[id].ns /\ k.nodes[id].tracked = h.nodes[id].tracked
    BY MarkedIs
  <2> HIDE DEF k
  <2>3. QED
    BY <2>2 DEF Sound, NodesSound
<1>4. \A e \in Range(k.edges) : EdgeFits(DOMAIN h.nodes, e)
  <2>1. DOMAIN k.edges = DOMAIN h.edges
    BY DEF Marked
  <2>2. SUFFICES ASSUME NEW i \in DOMAIN h.edges PROVE EdgeFits(DOMAIN h.nodes, k.edges[i])
    <3> HIDE DEF k
    <3>1. QED
      BY <2>1 DEF Range
  <2>3. /\ DOMAIN k.edges[i] = {"from", "to", "type", "primary"}
        /\ k.edges[i].from = h.edges[i].from /\ k.edges[i].to = h.edges[i].to
        /\ k.edges[i].primary = (h.edges[i].primary \/ h.edges[i] \in P)
    BY MarkedIs
  <2>4. h.edges[i] \in Range(h.edges)
    BY DEF Range
  <2>5. EdgeFits(DOMAIN h.nodes, h.edges[i])
    BY <2>4 DEF Sound, EdgesSound
  <2> HIDE DEF k
  <2>6. QED
    BY <2>3, <2>4, <2>5 DEF EdgeFits, Guessed
<1> HIDE DEF k
<1>5. EdgesSound(k)
  BY <1>2, <1>4 DEF EdgesSound
<1>6. QED
  BY <1>1, <1>2, <1>3, <1>5 DEF Sound, k

\* MarkPath focuses the nodes of a path and the edges on it.
LEMMA MarkPathIs ==
  ASSUME NEW h, NEW best
  PROVE  MarkPath(h, best) = Marked(h, Range(best), {e \in Range(h.edges) : OnPath(best, e)})
<1> DEFINE P == {e \in Range(h.edges) : OnPath(best, e)}
<1>1. \A i \in DOMAIN h.edges : h.edges[i] \in P <=> OnPath(best, h.edges[i])
  BY DEF Range
<1> HIDE DEF P
<1>2. MarkPath(h, best) = Marked(h, Range(best), P)
  BY <1>1 DEF MarkPath, Focus, Marked
<1>3. QED
  BY <1>2 DEF P

\* MarkEndpoints focuses the endpoints and the edges that join them.
LEMMA MarkEndpointsIs ==
  ASSUME NEW h, NEW A, NEW B
  PROVE  MarkEndpoints(h, A, B) = Marked(h, A \cup B, {e \in Range(h.edges) : e.from \in A /\ e.to \in B})
<1> DEFINE P == {e \in Range(h.edges) : e.from \in A /\ e.to \in B}
<1>1. \A i \in DOMAIN h.edges : h.edges[i] \in P <=> h.edges[i].from \in A /\ h.edges[i].to \in B
  BY DEF Range
<1> HIDE DEF P
<1>2. MarkEndpoints(h, A, B) = Marked(h, A \cup B, P)
  BY <1>1 DEF MarkEndpoints, Focus, Marked
<1>3. QED
  BY <1>2 DEF P

-----------------------------------------------------------------------------
(* Walks through the graph.                                                    *)

\* An edge of h joins x and y, whichever way it points.
Step(h, x, y) ==
  \E e \in Range(h.edges) : (e.from = x /\ e.to = y) \/ (e.from = y /\ e.to = x)

\* A walk from one of A, no node twice.
Walk(h, A, path) ==
  /\ path \in Seq(Range(path)) /\ path # <<>> /\ path[1] \in A
  /\ \A i, j \in 1..Len(path) : path[i] = path[j] => i = j
  /\ \A i \in 1..Len(path) : i < Len(path) => Step(h, path[i], path[i + 1])

\* A node that is a guess has only the route that guesses it for a neighbour.
LEMMA GuessStep ==
  ASSUME NEW H, NEW h, Sound(H, h), NEW x, x \notin DOMAIN h.nodes, NEW y,
         Step(h, x, y) \/ Step(h, y, x)
  PROVE  \E r \in Routes : y = RouteID(r) /\ x = serviceID(r.ns, r.to)
<1>1. PICK e \in Range(h.edges) : (e.from = x /\ e.to = y) \/ (e.from = y /\ e.to = x)
  BY DEF Step
<1>2. EdgeFits(DOMAIN h.nodes, e)
  BY DEF Sound, EdgesSound
<1>3. QED
  BY <1>1, <1>2 DEF EdgeFits, Guessed

\* A route's neighbours are what it guesses and the client.
LEMMA RouteStep ==
  ASSUME NEW H, NEW h, Sound(H, h), NEW r \in Routes, NEW y,
         Step(h, RouteID(r), y) \/ Step(h, y, RouteID(r))
  PROVE  y = serviceID(r.ns, r.to) \/ y = ClientID
<1>1. PICK e \in Range(h.edges) : (e.from = RouteID(r) /\ e.to = y) \/ (e.from = y /\ e.to = RouteID(r))
  BY DEF Step
<1>2. EdgeFits(DOMAIN h.nodes, e)
  BY DEF Sound, EdgesSound
<1>3. RouteID(r)[1] = "route"
  BY DEF RouteID
<1>4. CASE e.from = RouteID(r) /\ e.to = y
  <2>1. PICK s \in Routes : e.from = RouteID(s) /\ e.to = serviceID(s.ns, s.to)
    BY <1>2, <1>3, <1>4 DEF EdgeFits, Guessed
  <2>2. r.ns = s.ns /\ r.name = s.name
    BY <1>4, <2>1 DEF RouteID
  <2>3. r = s
    BY <2>2, ClusterAssumption
  <2>4. QED
    BY <1>4, <2>1, <2>3
<1>5. CASE e.from = y /\ e.to = RouteID(r)
  BY <1>2, <1>3, <1>5 DEF EdgeFits
<1>6. QED
  BY <1>1, <1>4, <1>5

\* A walk between endpoints takes no guess: it would have to leave the guess by
\* the route it came from, or reach another route from the client it came from.
LEMMA WalkIsInside ==
  ASSUME NEW H, NEW h, Sound(H, h), NEW A \in SUBSET H, NEW path, Walk(h, A, path),
         path[Len(path)] \in H,
         \A id \in A \cup {path[Len(path)]} : id[1] # "route"
  PROVE  Range(path) \subseteq DOMAIN h.nodes
<1> DEFINE n == Len(path)
<1>1. n \in Nat \ {0} /\ DOMAIN path = 1..n
  BY LenProperties DEF Walk
<1>2. SUFFICES ASSUME NEW i \in 1..n, path[i] \notin DOMAIN h.nodes PROVE FALSE
  BY <1>1 DEF Range
<1>3. path[1] \in H /\ path[n] \in H /\ H \subseteq DOMAIN h.nodes
  BY DEF Walk, Sound
<1>4. \A j, k \in 1..n : path[j] = path[k] => j = k
  BY DEF Walk
<1>5. \A j \in 1..n : j < n => Step(h, path[j], path[j + 1])
  BY DEF Walk
<1>6. \A id \in {path[1], path[n]} : id[1] # "route"
  BY DEF Walk
<1> HIDE DEF n
<1>7. i \in 2..(n - 1)
  BY <1>1, <1>2, <1>3
<1>8. i - 1 \in 1..n /\ i - 1 < n /\ (i - 1) + 1 = i /\ i + 1 \in 1..n /\ i < n
  BY <1>1, <1>7
<1>9. PICK r \in Routes : path[i - 1] = RouteID(r) /\ path[i] = serviceID(r.ns, r.to)
  BY <1>2, <1>5, <1>8, GuessStep
<1>10. PICK s \in Routes : path[i + 1] = RouteID(s) /\ path[i] = serviceID(s.ns, s.to)
  BY <1>2, <1>5, <1>8, GuessStep
<1>11. RouteID(r)[1] = "route" /\ RouteID(s)[1] = "route"
  BY DEF RouteID
<1>12. i - 1 # 1 /\ i + 1 # n
  BY <1>6, <1>9, <1>10, <1>11
<1>13. /\ i - 2 \in 1..n /\ i - 2 < n /\ (i - 2) + 1 = i - 1 /\ i + 2 \in 1..n /\ i + 1 < n
       /\ (i + 1) + 1 = i + 2
  BY <1>1, <1>7, <1>12
<1>14. path[i - 2] = path[i] \/ path[i - 2] = ClientID
  BY <1>5, <1>9, <1>13, RouteStep
<1>15. path[i + 2] = path[i] \/ path[i + 2] = ClientID
  BY <1>5, <1>8, <1>10, <1>13, RouteStep
<1>16. QED
  BY <1>1, <1>4, <1>13, <1>14, <1>15

-----------------------------------------------------------------------------
(* The planes and the redaction.                                               *)

\* The planes of the hosts are marked as sensitive.
LEMMA HostPlanesAreSensitive ==
  ASSUME NEW hosts, NEW first, NEW reported
  PROVE  /\ \A n \in InfrastructurePlane(hosts, first).nodes : n.sensitive
         /\ \A n \in PhysicalPlane(hosts, reported).nodes : n.sensitive
         /\ InfrastructurePlane(hosts, first).edges = {}
         /\ \A e \in PhysicalPlane(hosts, reported).edges :
              \A id \in {e.from, e.to} : \E n \in PhysicalPlane(hosts, reported).nodes : n.id = id
<1>1. \A id, k, l : PlaneNode(id, k, l, TRUE).sensitive /\ PlaneNode(id, k, l, TRUE).id = id
  BY DEF PlaneNode
<1>2. \A n \in InfrastructurePlane(hosts, first).nodes : n.sensitive
  <2> DEFINE A == {PlaneNode(<<"ovs", w, br>>, "ovs-bridge", "infrastructure", TRUE) : w \in hosts, br \in {"br-int", "br-ext"}}
             B == {PlaneNode(<<"lr", "", "ovn-cluster-router">>, "logical-router", "infrastructure", TRUE)}
             L == {"ovn-cluster"} \cup {"join-" \o w : w \in first}
             C == {PlaneNode(<<"ls", "", l>>, "logical-switch", "infrastructure", TRUE) : l \in L}
  <2>1. InfrastructurePlane(hosts, first) = [nodes |-> A \cup B \cup C, edges |-> {}]
    BY DEF InfrastructurePlane
  <2> HIDE DEF C
  <2>2. \A n \in A : n.sensitive
    BY DEF PlaneNode
  <2>3. \A n \in B : n.sensitive
    BY <1>1
  <2> HIDE DEF L
  <2>4. \A n \in C : n.sensitive
    BY <1>1 DEF C
  <2> HIDE DEF A, B
  <2>5. QED
    BY <2>1, <2>2, <2>3, <2>4
<1>3. InfrastructurePlane(hosts, first).edges = {}
  BY DEF InfrastructurePlane
<1> DEFINE host(w) == <<"node:", "", w>>
           below(w) == {<<"iface", w, i>> : i \in Interfaces} \cup {<<"nmstate", "", w>>}
           items(w) == IF reported THEN below(w) ELSE {}
           edgeID(w, id) == IF id[1] = "iface" THEN <<"bind", w, id[3]>> ELSE <<"cfg", "", w>>
           own == {PlaneNode(host(w), "node", "physical", TRUE) : w \in hosts}
           part(w) == {PlaneNode(id, id[1], "physical", TRUE) : id \in items(w)}
           join(w) == {PlaneEdge(edgeID(w, id), host(w), id, "physical") : id \in items(w)}
           P == PhysicalPlane(hosts, reported)
<1>4. P.nodes = own \cup UNION {part(w) : w \in hosts} /\ P.edges = UNION {join(w) : w \in hosts}
  BY DEF PhysicalPlane
<1> HIDE DEF items, host, edgeID, P
<1>5. \A n \in own : n.sensitive
  BY <1>1
<1>6. ASSUME NEW w \in hosts, NEW n \in part(w) PROVE n.sensitive
  BY <1>1
<1>7. ASSUME NEW w \in hosts, NEW e \in join(w), NEW id \in {e.from, e.to}
      PROVE  \E n \in P.nodes : n.id = id
  <2>1. PICK x \in items(w) : e = PlaneEdge(edgeID(w, x), host(w), x, "physical")
    OBVIOUS
  <2>2. id = host(w) \/ id = x
    BY <2>1 DEF PlaneEdge
  <2>3. PlaneNode(host(w), "node", "physical", TRUE) \in P.nodes
    BY <1>4
  <2>4. PlaneNode(x, x[1], "physical", TRUE) \in P.nodes
    <3>1. PlaneNode(x, x[1], "physical", TRUE) \in part(w)
      OBVIOUS
    <3> HIDE DEF part
    <3>2. QED
      BY <1>4, <3>1
  <2>5. QED
    BY <1>1, <2>2, <2>3, <2>4
<1> HIDE DEF own, part, join
<1>8. \A n \in P.nodes : n.sensitive
  BY <1>4, <1>5, <1>6
<1>9. \A e \in P.edges : \A id \in {e.from, e.to} : \E n \in P.nodes : n.id = id
  BY <1>4, <1>7
<1>10. QED
  BY <1>2, <1>3, <1>8, <1>9 DEF P

\* The logical plane shows the nodes of the graph, each on its layer, and the
\* networks that its pods are attached to; its edges are those of the graph.
LEMMA LogicalPlaneIs ==
  ASSUME NEW k, NEW read
  PROVE  /\ \A n \in LogicalPlane(k, read).nodes :
              \/ n.id \in DOMAIN k.nodes /\ n.layer = layerForKind(k.nodes[n.id].kind)
              \/ n.id[1] = "nad:"
         /\ \A id \in DOMAIN k.nodes : \E n \in LogicalPlane(k, read).nodes :
              n.id = id /\ n.layer = layerForKind(k.nodes[id].kind) /\ ~n.sensitive
         /\ \A e \in LogicalPlane(k, read).edges : \A id \in {e.from, e.to} : id \in Ends(Range(k.edges))
         /\ LogicalPlane(k, read).paths = read.paths
<1> DEFINE A == {PlaneNode(id, k.nodes[id].kind, layerForKind(k.nodes[id].kind), FALSE) : id \in DOMAIN k.nodes}
           B == {PlaneNode(<<"nad:", n.ns, n.name>>, "nad", "logical", FALSE) : n \in read.nads}
<1>1. LogicalPlane(k, read).nodes = A \cup B
  BY DEF LogicalPlane
<1>2. LogicalPlane(k, read).edges = {PlaneEdge(<<"e", "", "">>, e.from, e.to, "logical") : e \in Range(k.edges)}
  BY DEF LogicalPlane
<1>3. \A id, kind, l, s : PlaneNode(id, kind, l, s).id = id /\ PlaneNode(id, kind, l, s).layer = l
  BY DEF PlaneNode
<1>4. ASSUME NEW n \in A PROVE n.id \in DOMAIN k.nodes /\ n.layer = layerForKind(k.nodes[n.id].kind)
  <2>1. PICK id \in DOMAIN k.nodes :
          n = PlaneNode(id, k.nodes[id].kind, layerForKind(k.nodes[id].kind), FALSE)
    OBVIOUS
  <2>2. QED
    BY <2>1 DEF PlaneNode
<1>5. ASSUME NEW n \in B PROVE n.id[1] = "nad:"
  <2>1. PICK m \in read.nads : n = PlaneNode(<<"nad:", m.ns, m.name>>, "nad", "logical", FALSE)
    OBVIOUS
  <2>2. n.id = <<"nad:", m.ns, m.name>>
    BY <1>3, <2>1
  <2>3. QED
    BY <2>2
<1>6. ASSUME NEW id \in DOMAIN k.nodes
      PROVE  \E n \in A : n.id = id /\ n.layer = layerForKind(k.nodes[id].kind) /\ ~n.sensitive
  <2> DEFINE kind == k.nodes[id].kind
             l == layerForKind(kind)
             m == PlaneNode(id, kind, l, FALSE)
  <2>1. m \in A
    OBVIOUS
  <2> HIDE DEF kind, l
  <2>2. m.id = id /\ m.layer = l
    BY DEF PlaneNode
  <2>3. \A x, y, z : ~PlaneNode(x, y, z, FALSE).sensitive
    BY DEF PlaneNode
  <2>4. ~m.sensitive
    BY <2>3
  <2> HIDE DEF m, A
  <2>5. QED
    BY <2>1, <2>2, <2>4 DEF kind, l
<1>7. ASSUME NEW e \in LogicalPlane(k, read).edges, NEW id \in {e.from, e.to}
      PROVE  id \in Ends(Range(k.edges))
  <2>1. PICK f \in Range(k.edges) : e = PlaneEdge(<<"e", "", "">>, f.from, f.to, "logical")
    BY <1>2
  <2>2. e.from = f.from /\ e.to = f.to
    BY <2>1 DEF PlaneEdge
  <2>3. QED
    BY <2>2 DEF Ends
<1>8. LogicalPlane(k, read).paths = read.paths
  BY DEF LogicalPlane
<1> HIDE DEF A, B
<1>9. QED
  BY <1>1, <1>4, <1>5, <1>6, <1>7, <1>8

\* The reply that is built for a graph.
Built(h, read, hosts, first) ==
  mergeTopology(simplifyGraph(h), LogicalPlane(simplifyGraph(h), read),
                InfrastructurePlane(hosts, first), PhysicalPlane(hosts, read.reported))

\* A whole view: the graph joins only what it holds, and so do the planes.
WholeView(E, out) ==
  /\ E \subseteq DOMAIN out.graph.nodes
  /\ Ends(Range(out.graph.edges)) \subseteq DOMAIN out.graph.nodes
  /\ Ends(out.edges) \subseteq {n.id : n \in out.nodes}
  /\ \A id \in DOMAIN out.graph.nodes : out.graph.nodes[id].ns \in SeenSpaces
  /\ \A s \in out.logical.paths : s.ns \in Accessible

\* A view without a host, its network or a peer of MetalLB, whose graph and merged
\* planes differ by address pools and secondary networks alone.
TenantsView(out) ==
  LET shown == DOMAIN out.graph.nodes
      merged == {n.id : n \in out.nodes}
  IN  /\ shown \subseteq merged
      /\ \A id \in merged \ shown : id[1] \in {"metallb-pool", "nad:"}
      /\ \A id \in shown \cup Ends(Range(out.graph.edges)) : id[1] \notin InfraIds \cup {"metallb-pool", "nad:"}
      /\ \A id \in merged \cup Ends(out.edges) : id[1] \notin InfraIds

\* What is built for a sound graph is whole, with all that is in focus.
LEMMA BuiltIsWhole ==
  ASSUME NEW E, NEW h, Sound(E, h), \A id \in E : EndpointID(id),
         NEW read, \A s \in read.paths : s.ns \in Accessible, NEW hosts, NEW first
  PROVE  /\ WholeView(E, Built(h, read, hosts, first))
         /\ \A id \in DOMAIN h.nodes :
              h.nodes[id].focused => id \in DOMAIN Built(h, read, hosts, first).graph.nodes
<1> DEFINE k == simplifyGraph(h)
           logical == LogicalPlane(k, read)
           infra == InfrastructurePlane(hosts, first)
           physical == PhysicalPlane(hosts, read.reported)
           out == Built(h, read, hosts, first)
<1>1. /\ out.graph = k /\ out.nodes = logical.nodes \cup infra.nodes \cup physical.nodes
      /\ out.edges = logical.edges \cup infra.edges \cup physical.edges /\ out.logical = logical
  BY DEF Built, mergeTopology
<1>2. /\ DOMAIN k.nodes \subseteq DOMAIN h.nodes
      /\ \A id \in DOMAIN k.nodes : k.nodes[id] = h.nodes[id]
      /\ Ends(Range(k.edges)) \subseteq DOMAIN k.nodes
      /\ \A id \in DOMAIN h.nodes : h.nodes[id].tracked \/ h.nodes[id].focused => id \in DOMAIN k.nodes
  BY SimplifySound
<1>3. /\ logical.paths = read.paths
      /\ \A id \in DOMAIN k.nodes : \E n \in logical.nodes : n.id = id
      /\ \A e \in logical.edges : \A id \in {e.from, e.to} : id \in Ends(Range(k.edges))
  BY LogicalPlaneIs
<1>4. /\ infra.edges = {}
      /\ \A e \in physical.edges : \A id \in {e.from, e.to} : \E n \in physical.nodes : n.id = id
  BY HostPlanesAreSensitive
<1> HIDE DEF k, logical, infra, physical, out
<1>5. E \subseteq DOMAIN k.nodes
  <2>1. \A id \in E : id \in DOMAIN h.nodes /\ h.nodes[id].tracked
    BY DEF Sound, NodesSound
  <2>2. QED
    BY <1>2, <2>1
<1>6. \A id \in DOMAIN k.nodes : k.nodes[id].ns \in SeenSpaces
  BY <1>2 DEF Sound, NodesSound
<1>7. Ends(out.edges) \subseteq {n.id : n \in out.nodes}
  <2>1. SUFFICES ASSUME NEW e \in out.edges, NEW id \in {e.from, e.to}
                 PROVE  \E n \in out.nodes : n.id = id
    BY DEF Ends
  <2>2. CASE e \in logical.edges
    BY <1>1, <1>2, <1>3, <2>2
  <2>3. CASE e \in physical.edges
    BY <1>1, <1>4, <2>3
  <2>4. QED
    BY <1>1, <1>4, <2>2, <2>3
<1>8. WholeView(E, out)
  BY <1>1, <1>2, <1>3, <1>5, <1>6, <1>7 DEF WholeView
<1>9. QED
  BY <1>1, <1>2, <1>8 DEF out

\* Redaction leaves a whole view, and one that a tenant may see.
LEMMA SanitizedIsWhole ==
  ASSUME NEW E, NEW h, Sound(E, h), \A id \in E : EndpointID(id),
         NEW read, \A s \in read.paths : s.ns \in Accessible, NEW hosts, NEW first
  PROVE  /\ WholeView(E, SanitizeTopologyResult(Built(h, read, hosts, first)))
         /\ TenantsView(SanitizeTopologyResult(Built(h, read, hosts, first)))
<1> DEFINE k == simplifyGraph(h)
           logical == LogicalPlane(k, read)
           infra == InfrastructurePlane(hosts, first)
           physical == PhysicalPlane(hosts, read.reported)
           topo == Built(h, read, hosts, first)
           out == SanitizeTopologyResult(topo)
           kept == {id \in DOMAIN k.nodes : layerForKind(k.nodes[id].kind) # "physical" /\ ~isInfraKind(k.nodes[id].kind)}
           w == Within(k, kept)
<1>1. /\ topo.graph = k /\ topo.nodes = logical.nodes \cup infra.nodes \cup physical.nodes
      /\ topo.logical = logical
  BY DEF Built, mergeTopology
<1>2. /\ out.graph = w /\ out.nodes = filterNodes(topo.nodes)
      /\ out.edges = filterEdges(topo.nodes, topo.edges) /\ out.logical = logical
  <2>1. DOMAIN topo = {"graph", "logical", "infra", "physical", "nodes", "edges", "states"}
    BY DEF Built, mergeTopology
  <2>2. /\ out.graph = sanitizeTraceGraph(topo.graph) /\ out.nodes = filterNodes(topo.nodes)
        /\ out.edges = filterEdges(topo.nodes, topo.edges) /\ out.logical = topo.logical
    <3> HIDE DEF topo
    <3>1. QED
      BY <2>1 DEF SanitizeTopologyResult
  <2> HIDE DEF topo
  <2>3. sanitizeTraceGraph(k) = w
    BY DEF sanitizeTraceGraph
  <2>4. QED
    BY <1>1, <2>2, <2>3
<1>3. /\ k.edges \in Seq(Range(k.edges))
      /\ DOMAIN k.nodes \subseteq DOMAIN h.nodes
      /\ \A id \in DOMAIN k.nodes : k.nodes[id] = h.nodes[id]
      /\ \A id \in DOMAIN h.nodes : h.nodes[id].tracked \/ h.nodes[id].focused => id \in DOMAIN k.nodes
  BY SimplifySound
<1>4. /\ logical.paths = read.paths
      /\ \A n \in logical.nodes :
           \/ n.id \in DOMAIN k.nodes /\ n.layer = layerForKind(k.nodes[n.id].kind)
           \/ n.id[1] = "nad:"
      /\ \A id \in DOMAIN k.nodes : \E n \in logical.nodes :
           n.id = id /\ n.layer = layerForKind(k.nodes[id].kind) /\ ~n.sensitive
  BY LogicalPlaneIs
<1>5. (\A n \in infra.nodes : n.sensitive) /\ (\A n \in physical.nodes : n.sensitive)
  BY HostPlanesAreSensitive
<1>6. /\ kept \subseteq DOMAIN k.nodes
      /\ \A id \in DOMAIN k.nodes :
           id \in kept <=> layerForKind(k.nodes[id].kind) # "physical" /\ ~isInfraKind(k.nodes[id].kind)
  OBVIOUS
<1>7. \A id \in DOMAIN k.nodes : k.nodes[id].kind \in EndpointKinds => id \in kept
  BY DEF EndpointKinds, layerForKind, isInfraKind
<1> HIDE DEF k, logical, infra, physical, topo, out, kept
<1>8. /\ DOMAIN w.nodes = DOMAIN k.nodes \cap kept
      /\ \A id \in DOMAIN k.nodes \cap kept : w.nodes[id] = k.nodes[id]
      /\ Range(w.edges) = {e \in Range(k.edges) : e.from \in kept /\ e.to \in kept}
  BY <1>3, WithinIs
<1> HIDE DEF w
<1>9. \A id \in DOMAIN k.nodes : KindFits(id, k.nodes[id].kind)
  BY <1>3 DEF Sound, NodesSound
<1>10. E \subseteq DOMAIN w.nodes
  <2>1. \A id \in E : id \in DOMAIN h.nodes /\ h.nodes[id].tracked /\ h.nodes[id].kind \in EndpointKinds
    BY DEF Sound, NodesSound
  <2>2. QED
    BY <1>3, <1>7, <1>8, <2>1
<1>11. Ends(Range(w.edges)) \subseteq DOMAIN w.nodes
  BY <1>6, <1>8 DEF Ends
<1>12. \A id \in DOMAIN w.nodes : w.nodes[id].ns \in SeenSpaces
  BY <1>3, <1>8 DEF Sound, NodesSound
<1>13. Ends(out.edges) \subseteq {n.id : n \in out.nodes}
  BY <1>2 DEF Ends, filterEdges
<1>14. ASSUME NEW n \in out.nodes
       PROVE  n.id[1] \notin InfraIds /\ (n.id \in DOMAIN w.nodes \/ n.id[1] \in {"metallb-pool", "nad:"})
  <2>1. n \in topo.nodes /\ ~n.sensitive /\ n.layer = "logical"
    BY <1>2 DEF filterNodes
  <2>2. n \in logical.nodes
    BY <1>1, <1>5, <2>1
  <2>3. CASE n.id[1] = "nad:"
    BY <2>3 DEF InfraIds
  <2>4. CASE n.id \in DOMAIN k.nodes /\ n.layer = layerForKind(k.nodes[n.id].kind)
    <3>1. layerForKind(k.nodes[n.id].kind) # "physical"
      BY <2>1, <2>4
    <3>2. QED
      BY <1>6, <1>8, <1>9, <2>4, <3>1 DEF KindFits
  <2>5. QED
    BY <1>4, <2>2, <2>3, <2>4
<1>15. ASSUME NEW id \in DOMAIN w.nodes
       PROVE  /\ \E n \in out.nodes : n.id = id
              /\ id[1] \notin InfraIds \cup {"metallb-pool", "nad:"}
  <2>1. id \in DOMAIN k.nodes /\ layerForKind(k.nodes[id].kind) # "physical" /\ ~isInfraKind(k.nodes[id].kind)
    BY <1>6, <1>8
  <2>2. PICK n \in logical.nodes : n.id = id /\ n.layer = layerForKind(k.nodes[id].kind) /\ ~n.sensitive
    BY <1>4, <2>1
  <2>3. n.layer = "logical"
    BY <2>1, <2>2 DEF layerForKind
  <2>4. n \in out.nodes
    BY <1>1, <1>2, <2>2, <2>3 DEF filterNodes
  <2>5. QED
    BY <1>9, <2>1, <2>2, <2>4 DEF KindFits
<1>16. WholeView(E, out)
  BY <1>2, <1>4, <1>10, <1>11, <1>12, <1>13 DEF WholeView
<1>17. TenantsView(out)
  BY <1>2, <1>11, <1>13, <1>14, <1>15 DEF TenantsView
<1>18. QED
  BY <1>16, <1>17 DEF out, topo

-----------------------------------------------------------------------------
(* The search, breadth first.                                                  *)

\* Visiting the neighbours of the last node of a path is a fold.
LEMMA VisitFold ==
  ASSUME NEW x, NEW s, NEW path
  PROVE  FoldLeft(LAMBDA acc, e :
                    IF Last(path) \in {e.from, e.to} /\ Other(e, Last(path)) \notin acc.visited
                    THEN [acc EXCEPT !.visited = @ \cup {Other(e, Last(path))},
                                     !.queue = Append(@, Append(path, Other(e, Last(path))))]
                    ELSE acc, x, s) = Fold(Loop("visit", path, 0), x, s)
<1> DEFINE t == Loop("visit", path, 0)
           turn(acc, e) ==
             IF Last(path) \in {e.from, e.to} /\ Other(e, Last(path)) \notin acc.visited
             THEN [acc EXCEPT !.visited = @ \cup {Other(e, Last(path))},
                              !.queue = Append(@, Append(path, Other(e, Last(path))))]
             ELSE acc
           P(f) == f = [y \in SUBSET (DOMAIN s) |->
                          IF y = {} THEN x ELSE turn(f[y \ {Max(y)}], s[Max(y)])]
<1>1. \A acc, e : Turn(t, acc, e) = turn(acc, e)
  BY DEF Turn, Loop
<1>2. \A f : P(f) <=> IsFold(f, t, x, s)
  <2> HIDE DEF turn, t
  <2>1. QED
    BY <1>1 DEF IsFold, FoldStep
<1>3. FoldLeft(turn, x, s) = (CHOOSE f : P(f))[DOMAIN s]
  BY DEF FoldLeft, MapThenFoldSet
<1>4. Fold(t, x, s) = (CHOOSE f : IsFold(f, t, x, s))[DOMAIN s]
  BY DEF Fold
<1> HIDE DEF P, t
<1>5. (CHOOSE f : P(f)) = (CHOOSE f : IsFold(f, t, x, s))
  BY <1>2
<1>6. QED
  BY <1>3, <1>4, <1>5 DEF t

\* The rest of a queue.
LEMMA TailIs ==
  ASSUME NEW q, q \in Seq(Range(q)), q # <<>>
  PROVE  /\ Tail(q) \in Seq(Range(Tail(q))) /\ Range(Tail(q)) \subseteq Range(q)
         /\ Len(q) \in Nat \ {0} /\ Len(Tail(q)) = Len(q) - 1
         /\ DOMAIN q = 1..Len(q) /\ DOMAIN Tail(q) = 1..(Len(q) - 1)
         /\ \A i \in 1..(Len(q) - 1) : Tail(q)[i] = q[i + 1]
         /\ Head(q) = q[1] /\ Head(q) \in Range(q)
<1>1. Len(q) \in Nat \ {0} /\ DOMAIN q = 1..Len(q) /\ Head(q) = q[1] /\ Head(q) \in Range(q)
  BY LenProperties, HeadTailProperties
<1>2. Tail(q) \in Seq(Range(q)) /\ Len(Tail(q)) = Len(q) - 1 /\ \A i \in 1..(Len(q) - 1) : Tail(q)[i] = q[i + 1]
  BY <1>1, HeadTailProperties
<1>3. DOMAIN Tail(q) = 1..(Len(q) - 1)
  BY <1>2, LenProperties
<1>4. Tail(q) = [i \in 1..(Len(q) - 1) |-> Tail(q)[i]]
  <2>1. Tail(q) \in [1..(Len(q) - 1) -> Range(q)]
    BY <1>2, LenProperties
  <2>2. QED
    BY <2>1
<1>5. \A i \in 1..(Len(q) - 1) : Tail(q)[i] \in Range(Tail(q)) /\ Tail(q)[i] \in Range(q)
  BY <1>1, <1>2, <1>3 DEF Range
<1>6. Tail(q) \in Seq(Range(Tail(q)))
  <2> DEFINE tl == Tail(q)
  <2> HIDE DEF tl
  <2>1. tl \in [1..(Len(q) - 1) -> Range(tl)]
    BY <1>4, <1>5 DEF tl
  <2>2. Len(q) - 1 \in Nat
    BY <1>1
  <2>3. tl \in Seq(Range(tl))
    BY <2>1, <2>2, SeqDef
  <2>4. QED
    BY <2>3 DEF tl
<1>7. QED
  BY <1>1, <1>2, <1>3, <1>5, <1>6 DEF Range

\* A search as a record with a queue of paths.
SearchShape(s) ==
  /\ s = [queue |-> s.queue, visited |-> s.visited, best |-> s.best]
  /\ s.queue \in Seq(Range(s.queue))

\* What one step has after the first n edges: behind the rest of the queue the
\* path is lengthened by each neighbour that was not visited.
Visited(h, path, s, acc, n) ==
  /\ SearchShape(acc) /\ acc.best = s.best
  /\ Len(acc.queue) >= Len(s.queue) - 1
  /\ \A i \in 1..Len(acc.queue) : i < Len(s.queue) => acc.queue[i] = s.queue[i + 1]
  /\ \A i \in 1..Len(acc.queue) : i >= Len(s.queue) =>
       \E y : /\ acc.queue[i] = Append(path, y) /\ Step(h, Last(path), y)
              /\ y \notin s.visited /\ y \in acc.visited
  /\ s.visited \subseteq acc.visited
  /\ \A x \in acc.visited \ s.visited :
       Step(h, Last(path), x) /\ \E i \in 1..Len(acc.queue) : acc.queue[i] = Append(path, x)
  /\ \A i \in 1..n :
       Last(path) \in {h.edges[i].from, h.edges[i].to} => Other(h.edges[i], Last(path)) \in acc.visited

\* One edge.
LEMMA VisitEdge ==
  ASSUME NEW h, NEW n \in Nat, n + 1 \in DOMAIN h.edges, NEW s, NEW path, NEW acc,
         Visited(h, path, s, acc, n),
         s.queue # <<>>, s.queue \in Seq(Range(s.queue))
  PROVE  Visited(h, path, s, Turn(Loop("visit", path, 0), acc, h.edges[n + 1]), n + 1)
<1> DEFINE u == Last(path)
           e == h.edges[n + 1]
           y == Other(e, u)
           k == Turn(Loop("visit", path, 0), acc, e)
<1>1. k = IF u \in {e.from, e.to} /\ y \notin acc.visited
          THEN [acc EXCEPT !.visited = @ \cup {y}, !.queue = Append(@, Append(path, y))] ELSE acc
  BY DEF Turn, Loop
<1>2. e \in Range(h.edges)
  BY DEF Range
<1>3. \A i \in 1..(n + 1) : i \in 1..n \/ i = n + 1
  OBVIOUS
<1>4. CASE ~ (u \in {e.from, e.to} /\ y \notin acc.visited)
  <2>1. k = acc /\ (u \in {e.from, e.to} => y \in acc.visited)
    BY <1>1, <1>4
  <2> HIDE DEF k, u, y, e
  <2>2. \A i \in 1..(n + 1) : u \in {h.edges[i].from, h.edges[i].to} => Other(h.edges[i], u) \in acc.visited
    BY <1>3, <2>1 DEF Visited, u, y, e
  <2>3. Visited(h, path, s, k, n + 1)
    BY <2>1, <2>2 DEF Visited, u
  <2>4. QED
    BY <2>3 DEF k, e
<1>5. CASE u \in {e.from, e.to} /\ y \notin acc.visited
  <2>1. k = [acc EXCEPT !.visited = @ \cup {y}, !.queue = Append(@, Append(path, y))]
    BY <1>1, <1>5
  <2>2. Step(h, u, y)
    BY <1>2, <1>5 DEF Step, Other
  <2> HIDE DEF k, u, y, e
  <2>3. acc = [queue |-> acc.queue, visited |-> acc.visited, best |-> acc.best]
    BY DEF Visited, SearchShape
  <2>4. k = [queue |-> Append(acc.queue, Append(path, y)), visited |-> acc.visited \cup {y}, best |-> acc.best]
    BY <2>1, <2>3
  <2>5. /\ k.queue = Append(acc.queue, Append(path, y)) /\ k.visited = acc.visited \cup {y}
        /\ k.best = acc.best
    BY <2>4
  <2>6. k = [queue |-> k.queue, visited |-> k.visited, best |-> k.best]
    BY <2>4
  <2> DEFINE l == Len(acc.queue)
  <2>7. /\ k.queue \in Seq(Range(k.queue)) /\ Len(k.queue) = l + 1 /\ l \in Nat
        /\ \A i \in 1..l : k.queue[i] = acc.queue[i]
        /\ k.queue[l + 1] = Append(path, y)
    BY <2>5, AppendIs DEF Visited, SearchShape
  <2>8. Len(s.queue) \in Nat /\ l >= Len(s.queue) - 1
    BY TailIs DEF Visited
  <2>9. \A i \in 1..Len(k.queue) : i \in 1..l \/ i = l + 1
    BY <2>7
  <2>10. \A i \in 1..l : i \in 1..Len(k.queue)
    BY <2>7
  <2>11. ASSUME NEW i \in 1..Len(k.queue), i < Len(s.queue) PROVE k.queue[i] = s.queue[i + 1]
    <3>1. i \in 1..l
      BY <2>8, <2>9, <2>11
    <3>2. acc.queue[i] = s.queue[i + 1]
      BY <2>11, <3>1 DEF Visited
    <3>3. QED
      BY <2>7, <3>1, <3>2
  <2>12. ASSUME NEW i \in 1..Len(k.queue), i >= Len(s.queue)
         PROVE  \E z : /\ k.queue[i] = Append(path, z) /\ Step(h, u, z)
                       /\ z \notin s.visited /\ z \in k.visited
    <3>1. CASE i = l + 1
      <4>1. y \notin s.visited
        BY <1>5 DEF Visited
      <4>2. QED
        BY <2>2, <2>5, <2>7, <3>1, <4>1
    <3>2. CASE i \in 1..l
      <4>1. PICK z : /\ acc.queue[i] = Append(path, z) /\ Step(h, u, z)
                     /\ z \notin s.visited /\ z \in acc.visited
        BY <2>12, <3>2 DEF Visited, u
      <4>2. QED
        BY <2>5, <2>7, <3>2, <4>1
    <3>3. QED
      BY <2>9, <3>1, <3>2
  <2>13. ASSUME NEW x \in k.visited \ s.visited
         PROVE  Step(h, u, x) /\ \E i \in 1..Len(k.queue) : k.queue[i] = Append(path, x)
    <3>1. CASE x = y
      <4>1. l + 1 \in 1..Len(k.queue)
        BY <2>7
      <4>2. QED
        BY <2>2, <2>7, <3>1, <4>1
    <3>2. CASE x \in acc.visited
      <4>1. PICK i \in 1..l : acc.queue[i] = Append(path, x)
        BY <2>13, <3>2 DEF Visited
      <4>2. Step(h, u, x)
        BY <2>13, <3>2 DEF Visited, u
      <4>3. QED
        BY <2>7, <2>10, <4>1, <4>2
    <3>3. QED
      BY <2>5, <3>1, <3>2
  <2>14. \A i \in 1..(n + 1) : u \in {h.edges[i].from, h.edges[i].to} => Other(h.edges[i], u) \in k.visited
    BY <1>3, <2>5 DEF Visited, u, y, e
  <2>15. Len(k.queue) >= Len(s.queue) - 1 /\ k.best = s.best /\ s.visited \subseteq k.visited
    BY <2>5, <2>7, <2>8 DEF Visited
  <2>16. SearchShape(k)
    BY <2>6, <2>7 DEF SearchShape
  <2>17. Visited(h, path, s, k, n + 1)
    BY <2>11, <2>12, <2>13, <2>14, <2>15, <2>16 DEF Visited, u
  <2>18. QED
    BY <2>17 DEF k, e
<1>6. QED
  BY <1>4, <1>5

\* All edges.
LEMMA VisitIs ==
  ASSUME NEW h, h.edges \in Seq(Range(h.edges)), NEW s, SearchShape(s), s.queue # <<>>, NEW path
  PROVE  Visited(h, path, s, Fold(Loop("visit", path, 0), [s EXCEPT !.queue = Tail(@)], h.edges), Len(h.edges))
<1> DEFINE t == Loop("visit", path, 0)
           n == Len(h.edges)
           x0 == [s EXCEPT !.queue = Tail(@)]
<1>1. n \in Nat /\ DOMAIN h.edges = 1..n
  BY LenProperties
<1>2. s = [queue |-> s.queue, visited |-> s.visited, best |-> s.best]
  BY DEF SearchShape
<1>3. x0 = [queue |-> Tail(s.queue), visited |-> s.visited, best |-> s.best]
  <2> DEFINE r == Tail(s.queue)
  <2>1. x0 = [s EXCEPT !.queue = r]
    OBVIOUS
  <2> HIDE DEF r
  <2>2. [s EXCEPT !.queue = r] = [queue |-> r, visited |-> s.visited, best |-> s.best]
    BY <1>2
  <2>3. QED
    BY <2>1, <2>2 DEF r
<1> HIDE DEF n, x0
<1>4. Visited(h, path, s, x0, 0)
  <2>1. x0.queue = Tail(s.queue) /\ x0.visited = s.visited /\ x0.best = s.best
    BY <1>3
  <2>2. x0 = [queue |-> x0.queue, visited |-> x0.visited, best |-> x0.best]
    BY <1>3
  <2>3. /\ x0.queue \in Seq(Range(x0.queue)) /\ Len(x0.queue) = Len(s.queue) - 1 /\ Len(s.queue) \in Nat
        /\ \A i \in 1..(Len(s.queue) - 1) : x0.queue[i] = s.queue[i + 1]
    BY <2>1, TailIs DEF SearchShape
  <2>4. QED
    BY <2>1, <2>2, <2>3 DEF Visited, SearchShape
<1>5. PICK f : Turns(f, t, x0, h.edges, n)
  BY <1>1, FoldTurns
<1> DEFINE K == {k \in Nat : k <= n => Visited(h, path, s, f[k], k)}
<1>6. 0 \in K
  BY <1>4, <1>5 DEF Turns
<1>7. ASSUME NEW k \in Nat, k \in K PROVE k + 1 \in K
  <2>1. SUFFICES ASSUME k + 1 <= n PROVE Visited(h, path, s, f[k + 1], k + 1)
    OBVIOUS
  <2>2. Visited(h, path, s, f[k], k) /\ k < n /\ k + 1 \in DOMAIN h.edges
    BY <1>1, <1>7, <2>1
  <2>3. f[k + 1] = Turn(t, f[k], h.edges[k + 1])
    BY <1>5, <2>2 DEF Turns
  <2>4. QED
    BY <2>2, <2>3, VisitEdge DEF SearchShape
<1> HIDE DEF K
<1>8. n \in K
  BY <1>1, <1>6, <1>7, InductionOverNat
<1>9. QED
  BY <1>1, <1>5, <1>8 DEF K, Turns, n, x0

\* b[k] is what can be reached from A in at most k steps.
Balls(h, A, b) ==
  /\ b[0] = A
  /\ \A k \in Nat : \A y : y \in b[k + 1] <=> (y \in b[k] \/ \E x \in b[k] : Step(h, x, y))

\* Balls grow with the distance.
LEMMA BallGrows ==
  ASSUME NEW h, NEW A, NEW b, Balls(h, A, b), NEW m \in Nat, NEW n \in Nat, m <= n
  PROVE  b[m] \subseteq b[n]
<1> DEFINE K == {k \in Nat : b[m] \subseteq b[m + k]}
<1>1. 0 \in K
  <2>1. m + 0 = m
    OBVIOUS
  <2>2. QED
    BY <2>1
<1>2. ASSUME NEW k \in Nat, k \in K PROVE k + 1 \in K
  <2>1. m + k \in Nat /\ (m + k) + 1 = m + (k + 1)
    OBVIOUS
  <2>2. b[m + k] \subseteq b[(m + k) + 1]
    BY <2>1 DEF Balls
  <2>3. b[m] \subseteq b[m + k]
    BY <1>2
  <2>4. b[m] \subseteq b[m + (k + 1)]
    BY <2>1, <2>2, <2>3
  <2>5. QED
    BY <2>4
<1> HIDE DEF K
<1>3. n - m \in Nat /\ m + (n - m) = n
  OBVIOUS
<1>4. n - m \in K
  BY <1>1, <1>2, <1>3, InductionOverNat
<1>5. QED
  BY <1>3, <1>4 DEF K

\* Each node of the walk is in the layer of its place.
Layered(b, p) ==
  \A i \in 1..Len(p) : p[i] \in b[i - 1] /\ (i > 1 => p[i] \notin b[i - 2])

\* A walk with one node more.
LEMMA WalkGrows ==
  ASSUME NEW h, NEW A, NEW p, Walk(h, A, p), NEW y, Step(h, p[Len(p)], y), y \notin Range(p)
  PROVE  /\ Walk(h, A, Append(p, y)) /\ Range(Append(p, y)) = Range(p) \cup {y}
         /\ Len(p) \in Nat \ {0} /\ Len(Append(p, y)) = Len(p) + 1
         /\ Append(p, y)[Len(p) + 1] = y
         /\ \A i \in 1..Len(p) : Append(p, y)[i] = p[i]
<1> DEFINE a == Append(p, y)
           n == Len(p)
<1>1. /\ a \in Seq(Range(a)) /\ Range(a) = Range(p) \cup {y} /\ Len(a) = n + 1
      /\ \A i \in 1..n : a[i] = p[i]
      /\ a[n + 1] = y
  BY AppendIs DEF Walk
<1>2. n \in Nat \ {0} /\ DOMAIN p = 1..n
  BY LenProperties DEF Walk
<1>3. \A i \in 1..n : p[i] \in Range(p)
  BY <1>2 DEF Range
<1>4. p[1] \in A /\ \A i, j \in 1..n : p[i] = p[j] => i = j
  BY DEF Walk
<1>5. \A i \in 1..n : i < n => Step(h, p[i], p[i + 1])
  BY DEF Walk
<1>6. Step(h, p[n], y)
  OBVIOUS
<1> HIDE DEF a, n
<1>7. a # <<>> /\ a[1] \in A
  BY <1>1, <1>2, <1>4
<1>8. ASSUME NEW i \in 1..(n + 1), NEW j \in 1..(n + 1), a[i] = a[j] PROVE i = j
  <2>1. (i \in 1..n \/ i = n + 1) /\ (j \in 1..n \/ j = n + 1)
    BY <1>2
  <2>2. QED
    BY <1>1, <1>3, <1>4, <1>8, <2>1
<1>9. ASSUME NEW i \in 1..(n + 1), i < n + 1 PROVE Step(h, a[i], a[i + 1])
  <2>1. CASE i < n
    <3>1. i \in 1..n /\ i + 1 \in 1..n
      BY <1>2, <2>1
    <3>2. QED
      BY <1>1, <1>5, <2>1, <3>1
  <2>2. CASE i = n
    BY <1>1, <1>2, <1>6, <2>2
  <2>3. QED
    BY <1>2, <1>9, <2>1, <2>2
<1>10. Walk(h, A, a)
  BY <1>1, <1>7, <1>8, <1>9 DEF Walk
<1>11. QED
  BY <1>1, <1>2, <1>10 DEF a, n

\* What the search keeps: its queue holds walks in layers, the shorter first and
\* the longest by one node longer; what is visited is at the end of one of them,
\* or no destination and all around it visited.
Searching(h, A, B, b, s) ==
  /\ SearchShape(s) /\ A \subseteq s.visited
  /\ \A i \in 1..Len(s.queue) :
       Walk(h, A, s.queue[i]) /\ Range(s.queue[i]) \subseteq s.visited /\ Layered(b, s.queue[i])
  /\ \A i, j \in 1..Len(s.queue) :
       i <= j => Len(s.queue[i]) <= Len(s.queue[j]) /\ Len(s.queue[j]) <= Len(s.queue[1]) + 1
  /\ s.queue # <<>> => s.visited \subseteq b[Len(s.queue[1])] /\ b[Len(s.queue[1]) - 1] \subseteq s.visited
  /\ \A x \in s.visited :
       \/ \E i \in 1..Len(s.queue) : Last(s.queue[i]) = x
       \/ x \notin B /\ \A y : Step(h, x, y) => y \in s.visited

\* Every neighbour of what is looked at is visited then.
LEMMA VisitedAround ==
  ASSUME NEW h, h.edges \in Seq(Range(h.edges)), NEW s, NEW path, NEW acc,
         Visited(h, path, s, acc, Len(h.edges)), NEW y, Step(h, Last(path), y)
  PROVE  y \in acc.visited
<1>1. PICK e \in Range(h.edges) : (e.from = Last(path) /\ e.to = y) \/ (e.from = y /\ e.to = Last(path))
  BY DEF Step
<1>2. PICK i \in 1..Len(h.edges) : h.edges[i] = e
  <2>1. DOMAIN h.edges = 1..Len(h.edges)
    BY LenProperties
  <2>2. QED
    BY <2>1 DEF Range
<1>3. Other(e, Last(path)) = y /\ Last(path) \in {e.from, e.to}
  BY <1>1 DEF Other
<1> DEFINE u == Last(path)
<1> HIDE DEF u
<1>4. u \in {h.edges[i].from, h.edges[i].to} => Other(h.edges[i], u) \in acc.visited
  BY DEF Visited, u
<1>5. QED
  BY <1>2, <1>3, <1>4 DEF u

\* One step of the search.
LEMMA SearchGoesOn ==
  ASSUME NEW h, h.edges \in Seq(Range(h.edges)), NEW A, NEW B, NEW b, Balls(h, A, b), NEW s,
         Searching(h, A, B, b, s), s.queue # <<>>, Last(s.queue[1]) \notin B,
         NEW acc, Visited(h, s.queue[1], s, acc, Len(h.edges))
  PROVE  Searching(h, A, B, b, acc)
<1> DEFINE q == s.queue
           path == q[1]
           m == Len(path)
           u == Last(path)
           n == Len(q)
           r == acc.queue
<1>1. n \in Nat \ {0} /\ 1 \in 1..n
  <2>1. n \in Nat \ {0}
    BY TailIs DEF Searching, SearchShape
  <2>2. QED
    BY <2>1
<1>2. \A i \in 1..n : Walk(h, A, q[i]) /\ Range(q[i]) \subseteq s.visited /\ Layered(b, q[i])
  BY DEF Searching
<1>3. \A i \in 1..n : Len(q[i]) \in Nat \ {0} /\ DOMAIN q[i] = 1..Len(q[i])
  BY <1>2, LenProperties DEF Walk
<1>4. \A i, j \in 1..n : i <= j => Len(q[i]) <= Len(q[j]) /\ Len(q[j]) <= m + 1
  BY DEF Searching
<1>5. s.visited \subseteq b[m] /\ b[m - 1] \subseteq s.visited /\ A \subseteq s.visited
  BY DEF Searching
<1>6. \A x \in s.visited :
        \/ \E i \in 1..n : Last(q[i]) = x
        \/ x \notin B /\ \A y : Step(h, x, y) => y \in s.visited
  BY DEF Searching
<1>7. /\ SearchShape(acc) /\ Len(r) >= n - 1
      /\ \A i \in 1..Len(r) : i < n => r[i] = q[i + 1]
      /\ \A i \in 1..Len(r) : i >= n =>
           \E y : r[i] = Append(path, y) /\ Step(h, u, y) /\ y \notin s.visited /\ y \in acc.visited
      /\ s.visited \subseteq acc.visited
      /\ \A x \in acc.visited \ s.visited :
           Step(h, u, x) /\ \E i \in 1..Len(r) : r[i] = Append(path, x)
  BY DEF Visited
<1>8. Len(r) \in Nat
  BY <1>7, LenProperties DEF SearchShape
<1>9. \A y : Step(h, u, y) => y \in acc.visited
  BY VisitedAround
<1>10. m \in Nat \ {0} /\ u = path[m] /\ u \in b[m - 1] /\ u \notin B
  <2>1. m \in Nat \ {0} /\ Layered(b, path)
    BY <1>1, <1>2, <1>3
  <2>2. u = path[m]
    BY DEF Last
  <2> HIDE DEF path, m, u
  <2>3. m \in 1..m
    BY <2>1
  <2>4. u \in b[m - 1]
    BY <2>1, <2>2, <2>3 DEF Layered, m
  <2>5. QED
    BY <2>1, <2>2, <2>4 DEF u, path
<1>11. Walk(h, A, path) /\ Range(path) \subseteq s.visited /\ Layered(b, path)
  BY <1>1, <1>2
<1>12. (m - 1) \in Nat /\ (m - 1) + 1 = m
  BY <1>10
<1> HIDE DEF q, path, m, u, n, r
\* A walk that is new.
<1>13. ASSUME NEW y, Step(h, u, y), y \notin s.visited, y \in acc.visited
       PROVE  /\ Walk(h, A, Append(path, y)) /\ Range(Append(path, y)) \subseteq acc.visited
              /\ Layered(b, Append(path, y)) /\ Len(Append(path, y)) = m + 1
              /\ Last(Append(path, y)) = y
  <2>1. /\ Walk(h, A, Append(path, y)) /\ Range(Append(path, y)) = Range(path) \cup {y}
        /\ Len(Append(path, y)) = m + 1 /\ Append(path, y)[m + 1] = y
        /\ \A i \in 1..m : Append(path, y)[i] = path[i]
    BY <1>10, <1>11, <1>13, WalkGrows DEF m
  <2>2. y \in b[m]
    BY <1>10, <1>12, <1>13 DEF Balls
  <2>3. y \notin b[m - 1]
    BY <1>5, <1>13
  <2>4. ASSUME NEW i \in 1..(m + 1)
        PROVE  Append(path, y)[i] \in b[i - 1] /\ (i > 1 => Append(path, y)[i] \notin b[i - 2])
    <3>1. CASE i = m + 1
      <4>1. i - 1 = m /\ i - 2 = m - 1
        BY <1>10, <3>1
      <4>2. QED
        BY <2>1, <2>2, <2>3, <3>1, <4>1
    <3>2. CASE i \in 1..m
      BY <1>11, <2>1, <3>2 DEF Layered, m
    <3>3. i = m + 1 \/ i \in 1..m
      BY <1>10
    <3>4. QED
      BY <3>1, <3>2, <3>3
  <2>5. Layered(b, Append(path, y))
    BY <2>1, <2>4 DEF Layered
  <2>6. Last(Append(path, y)) = y
    BY <2>1 DEF Last
  <2>7. QED
    BY <1>7, <1>11, <1>13, <2>1, <2>5, <2>6
\* Every walk of the new queue.
<1>14. ASSUME NEW i \in 1..Len(r)
       PROVE  /\ Walk(h, A, r[i]) /\ Range(r[i]) \subseteq acc.visited /\ Layered(b, r[i])
              /\ i < n => i + 1 \in 1..n /\ r[i] = q[i + 1]
              /\ i >= n => Len(r[i]) = m + 1
              /\ Len(r[i]) \in Nat /\ m <= Len(r[i]) /\ Len(r[i]) <= m + 1
  <2>1. CASE i < n
    <3>1. i + 1 \in 1..n /\ r[i] = q[i + 1] /\ 1 <= i + 1
      BY <1>1, <1>7, <1>8, <2>1
    <3>2. m <= Len(q[i + 1]) /\ Len(q[i + 1]) <= m + 1
      BY <1>1, <1>4, <3>1 DEF m, path
    <3>3. QED
      BY <1>1, <1>2, <1>3, <1>7, <1>8, <2>1, <3>1, <3>2
  <2>2. CASE i >= n
    <3>1. PICK y : r[i] = Append(path, y) /\ Step(h, u, y) /\ y \notin s.visited /\ y \in acc.visited
      BY <1>7, <2>2
    <3>2. QED
      BY <1>1, <1>8, <1>10, <1>13, <2>2, <3>1
  <2>3. QED
    BY <1>1, <1>8, <2>1, <2>2
<1>15. ASSUME NEW i \in 1..Len(r), NEW j \in 1..Len(r), i <= j
       PROVE  Len(r[i]) <= Len(r[j]) /\ Len(r[j]) <= Len(r[1]) + 1
  <2>1. 1 \in 1..Len(r)
    BY <1>8
  <2>2. /\ m <= Len(r[1]) /\ Len(r[1]) \in Nat /\ Len(r[j]) <= m + 1 /\ Len(r[j]) \in Nat
        /\ Len(r[i]) \in Nat /\ Len(r[i]) <= m + 1
    BY <1>14, <2>1
  <2>3. CASE j < n
    <3>1. i < n
      BY <1>1, <1>8, <1>15, <2>3
    <3>2. r[i] = q[i + 1] /\ r[j] = q[j + 1] /\ i + 1 \in 1..n /\ j + 1 \in 1..n /\ i + 1 <= j + 1
      BY <1>8, <1>14, <1>15, <2>3, <3>1
    <3>3. Len(r[i]) <= Len(r[j])
      BY <1>4, <3>2
    <3>4. QED
      BY <1>10, <2>2, <3>3
  <2>4. CASE j >= n
    BY <1>10, <1>14, <2>2, <2>4
  <2>5. QED
    BY <1>1, <1>8, <2>3, <2>4
<1>16. ASSUME NEW x \in acc.visited
       PROVE  \/ \E i \in 1..Len(r) : Last(r[i]) = x
              \/ x \notin B /\ \A y : Step(h, x, y) => y \in acc.visited
  <2>1. CASE x \notin s.visited
    <3>1. Step(h, u, x) /\ \E i \in 1..Len(r) : r[i] = Append(path, x)
      BY <1>7, <2>1
    <3>2. QED
      BY <1>13, <2>1, <3>1
  <2>2. CASE x \in s.visited
    <3>1. CASE \E i \in 1..n : Last(q[i]) = x
      <4>1. PICK i \in 1..n : Last(q[i]) = x
        BY <3>1
      <4>2. CASE i = 1
        BY <1>9, <1>10, <4>1, <4>2 DEF u, path
      <4>3. CASE i > 1
        <5>1. i - 1 \in 1..Len(r) /\ i - 1 < n /\ (i - 1) + 1 = i
          BY <1>1, <1>7, <1>8, <4>3
        <5>2. r[i - 1] = q[i]
          BY <1>7, <5>1
        <5>3. QED
          BY <4>1, <5>1, <5>2
      <4>4. QED
        BY <1>1, <4>2, <4>3
    <3>2. CASE x \notin B /\ \A y : Step(h, x, y) => y \in s.visited
      BY <1>7, <3>2
    <3>3. QED
      BY <1>6, <2>2, <3>1, <3>2
  <2>3. QED
    BY <2>1, <2>2
<1>17. acc.visited \subseteq b[m]
  <2>1. SUFFICES ASSUME NEW x \in acc.visited \ s.visited PROVE x \in b[m]
    BY <1>5
  <2>2. Step(h, u, x)
    BY <1>7
  <2>3. QED
    BY <1>10, <1>12, <2>2 DEF Balls
<1>18. ASSUME r # <<>>
       PROVE  acc.visited \subseteq b[Len(r[1])] /\ b[Len(r[1]) - 1] \subseteq acc.visited
  <2>1. Len(r) # 0
    BY <1>7, <1>18, EmptySeq DEF SearchShape, r
  <2>2. 1 \in 1..Len(r)
    BY <1>8, <2>1
  <2>3. Len(r[1]) = m \/ Len(r[1]) = m + 1
    BY <1>10, <1>14, <2>2
  <2>4. CASE Len(r[1]) = m
    BY <1>5, <1>7, <1>17, <2>4
  <2>5. CASE Len(r[1]) = m + 1
    <3>1. b[m] \subseteq b[m + 1]
      BY <1>10, BallGrows
    <3>2. ASSUME NEW y \in b[m] PROVE y \in acc.visited
      <4>1. CASE y \in b[m - 1]
        BY <1>5, <1>7, <4>1
      <4>2. CASE y \notin b[m - 1]
        <5>1. PICK x \in b[m - 1] : Step(h, x, y)
          BY <1>12, <3>2, <4>2 DEF Balls
        <5>2. x \in acc.visited
          BY <1>5, <1>7
        <5>3. ASSUME NEW i \in 1..Len(r), Last(r[i]) = x PROVE FALSE
          <6>1. Len(r[i]) = m + 1 /\ Layered(b, r[i])
            <7>1. Len(r[1]) <= Len(r[i])
              BY <1>15, <2>2
            <7>2. QED
              BY <1>10, <1>14, <2>5, <7>1
          <6>2. m + 1 \in 1..Len(r[i]) /\ m + 1 > 1 /\ (m + 1) - 2 = m - 1
            BY <1>10, <6>1
          <6>3. r[i][m + 1] \notin b[m - 1]
            BY <6>1, <6>2 DEF Layered
          <6>4. QED
            BY <5>1, <5>3, <6>1, <6>3 DEF Last
        <5>4. QED
          BY <1>16, <5>1, <5>2, <5>3
      <4>3. QED
        BY <4>1, <4>2
    <3>3. (m + 1) - 1 = m
      BY <1>10
    <3>4. QED
      BY <1>17, <2>5, <3>1, <3>2, <3>3
  <2>6. QED
    BY <2>3, <2>4, <2>5
<1>19. A \subseteq acc.visited
  BY <1>5, <1>7
<1>20. QED
  BY <1>7, <1>14, <1>15, <1>16, <1>18, <1>19 DEF Searching, r

\* The search begins with every source as a walk of its own.
LEMMA SearchBegins ==
  ASSUME NEW h, NEW A, NEW B, NEW b, Balls(h, A, b), NEW n \in Nat, NEW o \in [1..n -> A], Range(o) = A
  PROVE  Searching(h, A, B, b, [queue |-> [i \in DOMAIN o |-> <<o[i]>>], visited |-> Range(o), best |-> <<>>])
<1> DEFINE q == [i \in DOMAIN o |-> <<o[i]>>]
           s == [queue |-> q, visited |-> A, best |-> <<>>]
<1>1. DOMAIN q = 1..n /\ q = [i \in 1..n |-> q[i]]
  OBVIOUS
<1>2. \A i \in 1..n : q[i] = <<o[i]>> /\ o[i] \in A
  OBVIOUS
<1>3. \A x \in A : \E i \in 1..n : o[i] = x
  BY DEF Range
<1>4. \A x : /\ <<x>> \in Seq({x}) /\ Len(<<x>>) = 1 /\ <<x>>[1] = x /\ <<x>> # <<>>
             /\ DOMAIN <<x>> = 1..1
  OBVIOUS
<1>5. s.queue = q /\ s.visited = A /\ s.best = <<>>
  OBVIOUS
<1>6. s = [queue |-> s.queue, visited |-> s.visited, best |-> s.best]
  OBVIOUS
<1> HIDE DEF q, s
<1>7. q \in Seq(Range(q)) /\ Len(q) = n
  <2>1. \A i \in 1..n : q[i] \in Range(q)
    BY <1>1 DEF Range
  <2>2. q \in [1..n -> Range(q)]
    BY <1>1, <2>1
  <2>3. QED
    BY <2>2, SeqDef, LenProperties, <1>1
<1>8. b[0] = A /\ A \subseteq b[1]
  <2>1. b[0] = A
    BY DEF Balls
  <2>2. b[0] \subseteq b[1]
    BY BallGrows
  <2>3. QED
    BY <2>1, <2>2
<1>9. ASSUME NEW i \in 1..n
      PROVE  /\ Walk(h, A, q[i]) /\ Range(q[i]) \subseteq A /\ Layered(b, q[i])
             /\ Len(q[i]) = 1 /\ Last(q[i]) = o[i]
  <2> DEFINE p == q[i]
  <2> DEFINE one == <<o[i]>>
  <2>0. p = one
    BY <1>2
  <2>1. /\ p \in Seq({o[i]}) /\ Len(p) = 1 /\ p[1] = o[i] /\ p # <<>> /\ DOMAIN p = 1..1
        /\ o[i] \in A
    <3>1. /\ one \in Seq({o[i]}) /\ Len(one) = 1 /\ one[1] = o[i] /\ one # <<>>
          /\ DOMAIN one = 1..1
      BY <1>4
    <3> HIDE DEF p, one
    <3>2. QED
      BY <1>2, <2>0, <3>1
  <2> HIDE DEF p, one
  <2>2. \A k \in 1..1 : k = 1
    OBVIOUS
  <2>3. Range(p) = {o[i]}
    <3>1. 1 \in DOMAIN p /\ \A k \in DOMAIN p : k = 1
      BY <2>1, <2>2
    <3>2. QED
      BY <2>1, <3>1 DEF Range
  <2>4. Walk(h, A, p)
    BY <2>1, <2>2, <2>3 DEF Walk
  <2>5. Layered(b, p)
    <3>1. \A k \in 1..Len(p) : k = 1 /\ k - 1 = 0 /\ ~ (k > 1)
      BY <2>1, <2>2
    <3>2. QED
      BY <1>8, <2>1, <3>1 DEF Layered
  <2>6. Last(p) = o[i]
    BY <2>1 DEF Last
  <2>7. QED
    BY <2>1, <2>3, <2>4, <2>5, <2>6 DEF p
<1>10. \A i, j \in 1..n : Len(q[i]) <= Len(q[j]) /\ Len(q[j]) <= Len(q[1]) + 1
  <2>1. \A i \in 1..n : 1 \in 1..n
    OBVIOUS
  <2>2. QED
    BY <1>9, <2>1
<1>11. ASSUME q # <<>> PROVE A \subseteq b[Len(q[1])] /\ b[Len(q[1]) - 1] \subseteq A
  <2>1. n # 0
    BY <1>7, <1>11, EmptySeq
  <2>2. 1 \in 1..n
    BY <2>1
  <2>3. Len(q[1]) = 1 /\ Len(q[1]) - 1 = 0
    BY <1>9, <2>2
  <2>4. QED
    BY <1>8, <2>3
<1>12. \A x \in A : \E i \in 1..n : Last(q[i]) = x
  BY <1>3, <1>9
<1>13. Searching(h, A, B, b, s)
  BY <1>5, <1>6, <1>7, <1>9, <1>10, <1>11, <1>12 DEF Searching, SearchShape
<1>14. QED
  BY <1>13 DEF s, q

\* A search that ends with an empty queue has seen all that can be reached, and
\* no destination.
LEMMA SearchInVain ==
  ASSUME NEW h, NEW A, NEW B, NEW b, Balls(h, A, b), NEW s, Searching(h, A, B, b, s), s.queue = <<>>
  PROVE  \A k \in Nat : b[k] \cap B = {}
<1>1. Len(s.queue) = 0
  BY EmptySeq
<1>2. \A x \in s.visited : x \notin B /\ \A y : Step(h, x, y) => y \in s.visited
  <2>1. 1..0 = {}
    OBVIOUS
  <2>2. QED
    BY <1>1, <2>1 DEF Searching
<1> DEFINE K == {k \in Nat : b[k] \subseteq s.visited}
<1>3. 0 \in K
  BY DEF Searching, Balls
<1>4. ASSUME NEW k \in Nat, k \in K PROVE k + 1 \in K
  <2>1. b[k] \subseteq s.visited
    BY <1>4
  <2>2. b[k + 1] \subseteq s.visited
    BY <1>2, <2>1 DEF Balls
  <2>3. QED
    BY <2>2
<1> HIDE DEF K
<1>5. Nat \subseteq K
  BY <1>3, <1>4, InductionOverNat
<1>6. QED
  BY <1>2, <1>5 DEF K

\* A walk of l nodes goes no further than it must.
Nearest(b, B, l) ==
  l \in Nat \ {0} /\ b[l - 1] \cap B # {} /\ \A k \in Nat : k < l - 1 => b[k] \cap B = {}

\* A search that ends at a destination is as near as any.
LEMMA SearchFinds ==
  ASSUME NEW h, NEW A, NEW B, NEW b, Balls(h, A, b), NEW s, Searching(h, A, B, b, s), s.queue # <<>>,
         Last(s.queue[1]) \in B
  PROVE  Nearest(b, B, Len(s.queue[1]))
<1> DEFINE q == s.queue
           n == Len(q)
           m == Len(q[1])
<1>1. n \in Nat \ {0} /\ 1 \in 1..n
  <2>1. n \in Nat \ {0}
    BY TailIs DEF Searching, SearchShape
  <2>2. QED
    BY <2>1
<1>2. \A i \in 1..n : Len(q[i]) \in Nat \ {0} /\ Layered(b, q[i])
  BY LenProperties DEF Searching, Walk
<1>3. \A i \in 1..n : m <= Len(q[i])
  BY <1>1 DEF Searching
<1>4. b[m - 1] \subseteq s.visited
  BY DEF Searching
<1>5. \A x \in s.visited : x \in B => \E i \in 1..n : Last(q[i]) = x
  BY DEF Searching
<1>6. Last(q[1]) \in B
  OBVIOUS
<1> HIDE DEF q, n, m
<1>7. \A i \in 1..n : Last(q[i]) \in b[Len(q[i]) - 1] /\ (Len(q[i]) > 1 => Last(q[i]) \notin b[Len(q[i]) - 2])
  <2> TAKE i \in 1..n
  <2>1. Len(q[i]) \in 1..Len(q[i])
    BY <1>2
  <2>2. QED
    BY <1>2, <2>1 DEF Layered, Last
<1>8. m \in Nat \ {0} /\ b[m - 1] \cap B # {}
  <2>1. m \in Nat \ {0} /\ Last(q[1]) \in b[m - 1]
    BY <1>1, <1>2, <1>7 DEF m
  <2>2. QED
    BY <1>6, <2>1
<1>9. ASSUME NEW k \in Nat, k < m - 1, NEW x \in b[k] \cap B PROVE FALSE
  <2>1. m - 1 \in Nat /\ b[k] \subseteq b[m - 1]
    <3>1. m - 1 \in Nat
      BY <1>8
    <3>2. QED
      BY <1>9, <3>1, BallGrows
  <2>2. PICK i \in 1..n : Last(q[i]) = x
    BY <1>4, <1>5, <1>9, <2>1
  <2>3. Len(q[i]) \in Nat /\ m <= Len(q[i])
    BY <1>2, <1>3
  <2>4. Len(q[i]) - 2 \in Nat /\ k <= Len(q[i]) - 2 /\ Len(q[i]) > 1
    BY <1>8, <1>9, <2>3
  <2>5. b[k] \subseteq b[Len(q[i]) - 2]
    BY <2>4, BallGrows
  <2>6. QED
    BY <1>7, <1>9, <2>2, <2>4, <2>5
<1>10. Nearest(b, B, m)
  BY <1>8, <1>9 DEF Nearest
<1>11. QED
  BY <1>10 DEF m, q

-----------------------------------------------------------------------------
(* What can be reached.                                                        *)

\* The edges at a set of nodes, and the set with their other ends.
Touch(h, ids) == {e \in Range(h.edges) : e.from \in ids \/ e.to \in ids}
NearTo(h, ids) == ids \cup {e.from : e \in Touch(h, ids)} \cup {e.to : e \in Touch(h, ids)}

\* Ball of PathDiscovery.tla for a graph h and sources A.
IsBall(h, A, f) == f = [k \in Nat |-> IF k = 0 THEN A ELSE NearTo(h, f[k - 1])]
BallOf(h, A) == CHOOSE f : IsBall(h, A, f)

\* NearTo adds what one step reaches.
LEMMA NearIs ==
  ASSUME NEW h, NEW X, NEW y
  PROVE  y \in NearTo(h, X) <=> (y \in X \/ \E x \in X : Step(h, x, y))
<1>1. ASSUME NEW x \in X, Step(h, x, y) PROVE y \in NearTo(h, X)
  <2>1. PICK e \in Range(h.edges) : (e.from = x /\ e.to = y) \/ (e.from = y /\ e.to = x)
    BY <1>1 DEF Step
  <2>2. e \in Touch(h, X)
    BY <2>1 DEF Touch
  <2>3. QED
    BY <2>1, <2>2 DEF NearTo
<1>2. ASSUME y \in NearTo(h, X), y \notin X PROVE \E x \in X : Step(h, x, y)
  <2>1. PICK e \in Touch(h, X) : e.from = y \/ e.to = y
    BY <1>2 DEF NearTo
  <2>2. QED
    BY <1>2, <2>1 DEF Touch, Step
<1>3. QED
  BY <1>1, <1>2 DEF NearTo

\* The walks of k steps that may rest show that there is such a function.
LEMMA BallExists ==
  ASSUME NEW h, NEW A
  PROVE  \E f : IsBall(h, A, f)
<1> DEFINE U == A \cup Ends(Range(h.edges))
           Rests(w, k) == \A i \in 0..(k - 1) : w[i + 1] = w[i] \/ Step(h, w[i], w[i + 1])
           Is(w, k, y) == w[0] \in A /\ w[k] = y /\ Rests(w, k)
           F(k) == {y \in U : \E w \in [0..k -> U] : Is(w, k, y)}
           f == [k \in Nat |-> F(k)]
<1>1. \A x, y : Step(h, x, y) => x \in U /\ y \in U
  BY DEF Step, Ends
<1>2. F(0) = A
  <2>1. ASSUME NEW y \in A PROVE y \in F(0)
    <3> DEFINE w == [i \in 0..0 |-> y]
    <3>1. w \in [0..0 -> U] /\ w[0] = y /\ 0..(0 - 1) = {}
      OBVIOUS
    <3>2. Is(w, 0, y)
      BY <3>1
    <3>3. QED
      BY <3>1, <3>2
  <2>2. ASSUME NEW y \in F(0) PROVE y \in A
    <3>1. PICK w \in [0..0 -> U] : Is(w, 0, y)
      OBVIOUS
    <3>2. QED
      BY <3>1
  <2>3. QED
    BY <2>1, <2>2
<1>3. ASSUME NEW k \in Nat, NEW y PROVE y \in F(k + 1) <=> (y \in F(k) \/ \E x \in F(k) : Step(h, x, y))
  <2>1. ASSUME NEW x \in F(k), x = y \/ Step(h, x, y) PROVE y \in F(k + 1)
    <3>1. PICK w \in [0..k -> U] : Is(w, k, x)
      OBVIOUS
    <3> DEFINE v == [i \in 0..(k + 1) |-> IF i = k + 1 THEN y ELSE w[i]]
    <3>2. y \in U
      BY <1>1, <2>1
    <3>3. v \in [0..(k + 1) -> U]
      BY <3>2
    <3>4. v[k + 1] = y /\ \A i \in 0..k : v[i] = w[i]
      OBVIOUS
    <3> HIDE DEF v, U
    <3>5. v[0] \in A
      BY <3>1, <3>4
    <3>6. ASSUME NEW i \in 0..((k + 1) - 1) PROVE v[i + 1] = v[i] \/ Step(h, v[i], v[i + 1])
      <4>1. CASE i = k
        BY <2>1, <3>1, <3>4, <4>1
      <4>2. CASE i \in 0..(k - 1)
        <5>1. i + 1 \in 0..k /\ i \in 0..k
          BY <4>2
        <5>2. QED
          BY <3>1, <3>4, <4>2, <5>1
      <4>3. i = k \/ i \in 0..(k - 1)
        OBVIOUS
      <4>4. QED
        BY <4>1, <4>2, <4>3
    <3>7. Is(v, k + 1, y)
      BY <3>4, <3>5, <3>6
    <3>8. QED
      BY <3>2, <3>3, <3>7
  <2>2. ASSUME y \in F(k + 1) PROVE \E x \in F(k) : x = y \/ Step(h, x, y)
    <3>1. PICK w \in [0..(k + 1) -> U] : Is(w, k + 1, y)
      BY <2>2
    <3> DEFINE v == [i \in 0..k |-> w[i]]
    <3>2. \A i \in 0..k : i \in 0..(k + 1)
      OBVIOUS
    <3>3. v \in [0..k -> U] /\ \A i \in 0..k : v[i] = w[i]
      BY <3>2
    <3>4. w[k] \in U /\ k \in 0..k /\ k \in 0..((k + 1) - 1) /\ 0 \in 0..k
      BY <3>2
    <3> HIDE DEF v, U
    <3>5. w[k + 1] = w[k] \/ Step(h, w[k], w[k + 1])
      BY <3>1, <3>4
    <3>6. ASSUME NEW i \in 0..(k - 1) PROVE v[i + 1] = v[i] \/ Step(h, v[i], v[i + 1])
      <4>1. i \in 0..((k + 1) - 1) /\ i \in 0..k /\ i + 1 \in 0..k
        OBVIOUS
      <4>2. QED
        BY <3>1, <3>3, <4>1
    <3>7. Is(v, k, w[k])
      BY <3>1, <3>3, <3>4, <3>6
    <3>8. w[k] \in F(k)
      BY <3>3, <3>4, <3>7
    <3>9. QED
      BY <3>1, <3>5, <3>8
  <2> HIDE DEF F
  <2>3. QED
    BY <2>1, <2>2
<1> HIDE DEF F
<1>4. \A k \in Nat : F(k) = IF k = 0 THEN A ELSE NearTo(h, f[k - 1])
  <2> TAKE k \in Nat
  <2>1. CASE k = 0
    BY <1>2, <2>1
  <2>2. CASE k # 0
    <3>1. k - 1 \in Nat /\ (k - 1) + 1 = k
      BY <2>2
    <3>2. f[k - 1] = F(k - 1)
      BY <3>1
    <3> HIDE DEF f
    <3>3. ASSUME NEW y PROVE y \in F(k) <=> y \in NearTo(h, F(k - 1))
      <4>1. y \in F(k) <=> (y \in F(k - 1) \/ \E x \in F(k - 1) : Step(h, x, y))
        BY <1>3, <3>1
      <4>2. QED
        BY <4>1, NearIs
    <3>4. F(k) = NearTo(h, F(k - 1))
      BY <3>3 DEF NearTo
    <3>5. QED
      BY <2>2, <3>2, <3>4
  <2>3. QED
    BY <2>1, <2>2
<1>5. IsBall(h, A, f)
  <2> DEFINE e(k) == IF k = 0 THEN A ELSE NearTo(h, f[k - 1])
  <2>1. \A k \in Nat : F(k) = e(k)
    BY <1>4
  <2>2. f = [k \in Nat |-> e(k)]
    <3> HIDE DEF e
    <3>1. QED
      BY <2>1
  <2> HIDE DEF f
  <2>3. QED
    BY <2>2 DEF IsBall
<1>6. QED
  BY <1>5

\* BallOf has the balls of the graph.
LEMMA BallsAre ==
  ASSUME NEW h, NEW A
  PROVE  Balls(h, A, BallOf(h, A))
<1> DEFINE f == BallOf(h, A)
           e(k) == IF k = 0 THEN A ELSE NearTo(h, f[k - 1])
<1>1. IsBall(h, A, f)
  BY BallExists DEF BallOf
<1> HIDE DEF f
<1>2. f = [k \in Nat |-> e(k)]
  BY <1>1 DEF IsBall
<1>3. \A k \in Nat : f[k] = e(k)
  <2> HIDE DEF e
  <2>1. QED
    BY <1>2
<1>4. f[0] = A
  BY <1>3
<1>5. ASSUME NEW k \in Nat PROVE f[k + 1] = NearTo(h, f[k])
  <2>1. k + 1 \in Nat /\ k + 1 # 0 /\ (k + 1) - 1 = k
    OBVIOUS
  <2>2. QED
    BY <1>3, <2>1
<1>6. QED
  BY <1>4, <1>5, NearIs DEF Balls, f

\* Graphs with the same steps have the same balls.
LEMMA SameBalls ==
  ASSUME NEW h, NEW k, \A x, y : Step(h, x, y) <=> Step(k, x, y), NEW A
  PROVE  BallOf(h, A) = BallOf(k, A)
<1>1. ASSUME NEW X PROVE NearTo(h, X) = NearTo(k, X)
  <2>1. \A y : y \in NearTo(h, X) <=> y \in NearTo(k, X)
    BY NearIs
  <2>2. QED
    BY <2>1 DEF NearTo
<1>2. \A f : IsBall(h, A, f) <=> IsBall(k, A, f)
  BY <1>1 DEF IsBall
<1>3. QED
  BY <1>2 DEF BallOf

-----------------------------------------------------------------------------
(* The focus.                                                                  *)

\* Marking does not change what can be reached.
LEMMA MarkedSteps ==
  ASSUME NEW H, NEW h, Sound(H, h), NEW ids, NEW P
  PROVE  \A x, y : Step(h, x, y) <=> Step(Marked(h, ids, P), x, y)
<1> DEFINE k == Marked(h, ids, P)
<1>1. /\ DOMAIN k.edges = DOMAIN h.edges
      /\ \A i \in DOMAIN h.edges : k.edges[i].from = h.edges[i].from /\ k.edges[i].to = h.edges[i].to
  BY MarkedIs
<1> HIDE DEF k
<1>2. \A x, y : Step(h, x, y) <=>
        \E i \in DOMAIN h.edges : \/ h.edges[i].from = x /\ h.edges[i].to = y
                                  \/ h.edges[i].from = y /\ h.edges[i].to = x
  BY DEF Step, Range
<1>3. \A x, y : Step(k, x, y) <=>
        \E i \in DOMAIN h.edges : \/ h.edges[i].from = x /\ h.edges[i].to = y
                                  \/ h.edges[i].from = y /\ h.edges[i].to = x
  BY <1>1 DEF Step, Range
<1>4. QED
  BY <1>2, <1>3 DEF k

\* Focused, Joined and Layer of PathDiscovery.tla for a graph k and balls b.
FocusOf(k) == {id \in DOMAIN k.nodes : k.nodes[id].focused}
JoinedIn(k, x, y) == \E e \in Range(k.edges) : e.primary /\ {e.from, e.to} = {x, y}
LayerOf(b, j) == IF j = 0 THEN b[0] ELSE b[j] \ b[j - 1]

\* FocusIsShortestPath of a graph k.
Shortest(k, A, B, b) ==
  LET far == Cardinality(DOMAIN k.nodes)
      met == {j \in 0..far : b[j] \cap B # {}}
  IN  IF met = {} \/ 0 \in met THEN FocusOf(k) = A \cup B
      ELSE /\ Cardinality(FocusOf(k)) = Min(met) + 1
           /\ FocusOf(k) \cap B # {}
           /\ \A j \in 0..Min(met) : FocusOf(k) \cap LayerOf(b, j) # {}
           /\ \A j \in 1..Min(met) :
                \E x \in FocusOf(k) \cap LayerOf(b, j - 1), y \in FocusOf(k) \cap LayerOf(b, j) : JoinedIn(k, x, y)

\* What is in focus after marking.
LEMMA MarkedFocus ==
  ASSUME NEW H, NEW h, Sound(H, h), NEW ids, ids \subseteq DOMAIN h.nodes, NEW P
  PROVE  /\ FocusOf(Marked(h, ids, P)) = ids
         /\ DOMAIN Marked(h, ids, P).nodes = DOMAIN h.nodes
<1> DEFINE k == Marked(h, ids, P)
<1>1. DOMAIN k.nodes = DOMAIN h.nodes /\ \A id \in DOMAIN h.nodes : k.nodes[id].focused = (id \in ids)
  BY MarkedIs
<1> HIDE DEF k
<1>2. FocusOf(k) = ids
  BY <1>1 DEF FocusOf
<1>3. QED
  BY <1>1, <1>2 DEF k

\* Without a route, or when a source is a destination, the endpoints are marked.
LEMMA EndpointsInFocus ==
  ASSUME NEW H, NEW h, Sound(H, h), NEW A \in SUBSET H, NEW B \in SUBSET H, NEW b,
         b[0] \cap B # {} \/ \A j \in Nat : b[j] \cap B = {}
  PROVE  Shortest(MarkEndpoints(h, A, B), A, B, b)
<1> DEFINE k == MarkEndpoints(h, A, B)
           far == Cardinality(DOMAIN k.nodes)
           met == {j \in 0..far : b[j] \cap B # {}}
<1>1. A \cup B \subseteq DOMAIN h.nodes
  BY DEF Sound
<1>2. FocusOf(k) = A \cup B /\ DOMAIN k.nodes = DOMAIN h.nodes
  BY <1>1, MarkedFocus, MarkEndpointsIs
<1>3. far \in Nat
  BY <1>2, FS_CardinalityType DEF Sound
<1> HIDE DEF far
<1>4. met = {} \/ 0 \in met
  BY <1>3
<1>5. QED
  BY <1>2, <1>4 DEF Shortest, far

\* No more nodes are on a walk inside the graph than there are in it.
LEMMA WalkLength ==
  ASSUME NEW h, NEW A, NEW p, Walk(h, A, p), NEW S, IsFiniteSet(S), Range(p) \subseteq S
  PROVE  /\ Len(p) \in Nat \ {0} /\ DOMAIN p = 1..Len(p)
         /\ Cardinality(Range(p)) = Len(p) /\ Len(p) <= Cardinality(S)
<1> DEFINE n == Len(p)
           f == [i \in 1..n |-> p[i]]
<1>1. n \in Nat \ {0} /\ DOMAIN p = 1..n
  BY LenProperties DEF Walk
<1>2. \A i, j \in 1..n : p[i] = p[j] => i = j
  BY DEF Walk
<1>3. \A i \in 1..n : p[i] \in Range(p)
  BY <1>1 DEF Range
<1> HIDE DEF n
<1>4. f \in [1..n -> Range(p)]
  BY <1>3
<1>5. \A x \in Range(p) : \E i \in 1..n : f[i] = x
  BY <1>1 DEF Range
<1>6. \A i, j \in 1..n : f[i] = f[j] => i = j
  BY <1>2
<1> HIDE DEF f
<1>7. f \in Injection(1..n, Range(p)) /\ f \in Surjection(1..n, Range(p))
  BY <1>4, <1>5, <1>6 DEF Injection, IsInjective, Surjection
<1>8. IsFiniteSet(1..n) /\ Cardinality(1..n) = n
  BY <1>1, FS_Interval
<1>9. IsFiniteSet(Range(p)) /\ Cardinality(Range(p)) <= Cardinality(S)
  BY FS_Subset
<1>10. Cardinality(Range(p)) = n
  <2>1. Cardinality(1..n) = Cardinality(Range(p)) <=> f \in Surjection(1..n, Range(p))
    BY <1>7, <1>9, FS_Injection
  <2>2. QED
    BY <1>7, <1>8, <2>1
<1>11. QED
  BY <1>1, <1>9, <1>10 DEF n

\* The least element of a set of numbers.
LEMMA MinIs ==
  ASSUME NEW S \in SUBSET Nat, NEW m \in S, \A k \in S : m <= k
  PROVE  Min(S) = m
<1>1. \A k \in S : (\A l \in S : k <= l) => k = m
  OBVIOUS
<1>2. QED
  BY <1>1 DEF Min

\* A walk to a destination that is nearest, and as long as its layer says, is
\* marked as the shortest route.
LEMMA PathInFocus ==
  ASSUME NEW H, NEW h, Sound(H, h), NEW A \in SUBSET H, NEW B \in SUBSET H,
         \A id \in A \cup B : id[1] # "route",
         NEW b, NEW p, Walk(h, A, p), Layered(b, p), p[Len(p)] \in B, Len(p) >= 2,
         \A j \in Nat : j < Len(p) - 1 => b[j] \cap B = {}
  PROVE  Shortest(MarkPath(h, p), A, B, b)
<1> DEFINE k == MarkPath(h, p)
           far == Cardinality(DOMAIN k.nodes)
           met == {j \in 0..far : b[j] \cap B # {}}
           n == Len(p)
           P == {e \in Range(h.edges) : OnPath(p, e)}
<1>1. Range(p) \subseteq DOMAIN h.nodes
  BY WalkIsInside
<1>2. k = Marked(h, Range(p), P)
  BY MarkPathIs
<1>3. FocusOf(k) = Range(p) /\ DOMAIN k.nodes = DOMAIN h.nodes
  BY <1>1, <1>2, MarkedFocus
<1>4. n \in Nat \ {0} /\ DOMAIN p = 1..n /\ Cardinality(Range(p)) = n /\ n <= far
  BY <1>1, <1>3, WalkLength DEF Sound
<1>5. far \in Nat
  BY <1>3, FS_CardinalityType DEF Sound
<1>6. \A i \in 1..n : p[i] \in b[i - 1] /\ (i > 1 => p[i] \notin b[i - 2])
  BY DEF Layered
<1>7. \A i \in 1..n : i < n => Step(h, p[i], p[i + 1])
  BY DEF Walk
<1>8. p[n] \in B /\ n >= 2 /\ \A j \in Nat : j < n - 1 => b[j] \cap B = {}
  OBVIOUS
<1> HIDE DEF n, far, k, P
<1>9. n - 1 \in met /\ \A j \in met : n - 1 <= j
  <2>1. n - 1 \in 0..far /\ n \in 1..n
    BY <1>4, <1>5, <1>8
  <2>2. p[n] \in b[n - 1]
    BY <1>6, <2>1
  <2>3. QED
    BY <1>4, <1>5, <1>8, <2>1, <2>2
<1>10. met \in SUBSET Nat
  BY <1>5
<1>11. 0 \notin met
  BY <1>8, <1>4
<1> HIDE DEF met
<1>12. Min(met) = n - 1
  BY <1>9, <1>10, MinIs
<1>13. \A i \in 1..n : p[i] \in Range(p)
  BY <1>4 DEF Range
<1>14. Range(p) \cap B # {}
  <2>1. n \in 1..n
    BY <1>4
  <2>2. QED
    BY <1>8, <1>13, <2>1
<1>15. ASSUME NEW j \in 0..(n - 1) PROVE j + 1 \in 1..n /\ p[j + 1] \in Range(p) \cap LayerOf(b, j)
  <2>1. j + 1 \in 1..n /\ (j + 1) - 1 = j /\ (j + 1) - 2 = j - 1 /\ (j # 0 => j + 1 > 1)
    BY <1>4
  <2>2. QED
    BY <1>6, <1>13, <2>1 DEF LayerOf
<1>16. ASSUME NEW j \in 1..(n - 1)
       PROVE  \E x \in Range(p) \cap LayerOf(b, j - 1), y \in Range(p) \cap LayerOf(b, j) : JoinedIn(k, x, y)
  <2>1. /\ j \in 1..n /\ j < n /\ j \in 0..(n - 1) /\ j - 1 \in 0..(n - 1) /\ (j - 1) + 1 = j
        /\ j \in 1..(n - 1)
    BY <1>4
  <2>2. p[j] \in Range(p) \cap LayerOf(b, j - 1) /\ p[j + 1] \in Range(p) \cap LayerOf(b, j)
    BY <1>15, <2>1
  <2>3. PICK e \in Range(h.edges) : (e.from = p[j] /\ e.to = p[j + 1]) \/ (e.from = p[j + 1] /\ e.to = p[j])
    BY <1>7, <2>1 DEF Step
  <2>4. {e.from, e.to} = {p[j], p[j + 1]}
    BY <2>3
  <2>5. e \in P
    BY <2>1, <2>4 DEF P, OnPath, n
  <2>6. PICK i \in DOMAIN h.edges : h.edges[i] = e
    BY DEF Range
  <2>7. i \in DOMAIN k.edges /\ k.edges[i].from = e.from /\ k.edges[i].to = e.to /\ k.edges[i].primary
    <3>1. /\ DOMAIN Marked(h, Range(p), P).edges = DOMAIN h.edges
          /\ Marked(h, Range(p), P).edges[i].from = h.edges[i].from
          /\ Marked(h, Range(p), P).edges[i].to = h.edges[i].to
          /\ Marked(h, Range(p), P).edges[i].primary = (h.edges[i].primary \/ h.edges[i] \in P)
      BY MarkedIs
    <3>2. QED
      BY <1>2, <2>5, <2>6, <3>1
  <2>8. JoinedIn(k, p[j], p[j + 1])
    BY <2>4, <2>7 DEF JoinedIn, Range
  <2>9. QED
    BY <2>2, <2>8
<1>17. Cardinality(FocusOf(k)) = Min(met) + 1
  BY <1>3, <1>4, <1>12
<1>18. \A j \in 0..Min(met) : FocusOf(k) \cap LayerOf(b, j) # {}
  BY <1>3, <1>12, <1>15
<1>19. \A j \in 1..Min(met) :
         \E x \in FocusOf(k) \cap LayerOf(b, j - 1), y \in FocusOf(k) \cap LayerOf(b, j) : JoinedIn(k, x, y)
  BY <1>3, <1>12, <1>16
<1>20. met # {}
  BY <1>9
<1>21. Shortest(k, A, B, b)
  BY <1>3, <1>11, <1>14, <1>17, <1>18, <1>19, <1>20 DEF Shortest, met, far
<1>22. QED
  BY <1>21 DEF k

-----------------------------------------------------------------------------
(* Selections.                                                                 *)

\* No entry is there twice.
Distinct(q) == \A i, j \in 1..Len(q) : q[i] = q[j] => i = j

\* Pods as they were found, each once.
Founds(q) ==
  /\ q \in Seq(Range(q)) /\ Distinct(q)
  /\ \A f \in Range(q) : f = [pod |-> f.pod, uid |-> f.uid]

\* One pod, unless it is there with this uid.
LEMMA UnseenOne ==
  ASSUME NEW q, Founds(q), NEW p, NEW uid, NEW r,
         r = IF \E f \in Range(q) : f.uid = uid /\ f.pod = p THEN q ELSE Append(q, [pod |-> p, uid |-> uid])
  PROVE  /\ Founds(r) /\ Range(r) = Range(q) \cup {[pod |-> p, uid |-> uid]}
         /\ r = q <=> [pod |-> p, uid |-> uid] \in Range(q)
<1> DEFINE new == [pod |-> p, uid |-> uid]
<1>1. new.pod = p /\ new.uid = uid /\ new = [pod |-> new.pod, uid |-> new.uid]
  OBVIOUS
<1>2. (\E f \in Range(q) : f.uid = uid /\ f.pod = p) <=> new \in Range(q)
  BY DEF Founds
<1>3. CASE new \in Range(q)
  BY <1>2, <1>3
<1>4. CASE new \notin Range(q)
  <2>1. r = Append(q, new)
    BY <1>2, <1>4
  <2> HIDE DEF new
  <2>2. /\ r \in Seq(Range(r)) /\ Range(r) = Range(q) \cup {new} /\ Len(r) = Len(q) + 1 /\ Len(q) \in Nat
        /\ \A i \in 1..Len(q) : r[i] = q[i]
        /\ r[Len(q) + 1] = new
    <3> DEFINE a == Append(q, new)
    <3>1. q \in Seq(Range(q))
      BY DEF Founds
    <3>2. /\ a \in Seq(Range(a)) /\ Range(a) = Range(q) \cup {new} /\ Len(a) = Len(q) + 1 /\ Len(q) \in Nat
          /\ \A i \in 1..Len(q) : a[i] = q[i]
          /\ a[Len(q) + 1] = new
      BY <3>1, AppendIs
    <3>3. r = a
      BY <2>1
    <3> HIDE DEF a
    <3>4. QED
      BY <3>2, <3>3
  <2>3. \A i \in 1..Len(q) : q[i] \in Range(q)
    BY LenProperties DEF Founds, Range
  <2>4. ASSUME NEW i \in 1..Len(r), NEW j \in 1..Len(r), r[i] = r[j] PROVE i = j
    <3>1. (i \in 1..Len(q) \/ i = Len(q) + 1) /\ (j \in 1..Len(q) \/ j = Len(q) + 1)
      BY <2>2
    <3>2. QED
      BY <1>4, <2>2, <2>3, <2>4, <3>1 DEF Founds, Distinct
  <2>5. Founds(r)
    BY <1>1, <2>2, <2>4 DEF Founds, Distinct
  <2>6. r # q
    BY <2>2
  <2>7. QED
    BY <1>4, <2>2, <2>5, <2>6 DEF new
<1>5. QED
  BY <1>3, <1>4

\* The same of AppendUnseen.
LEMMA AppendUnseenIs ==
  ASSUME NEW q, Founds(q), NEW p
  PROVE  /\ Founds(AppendUnseen(q, p))
         /\ Range(AppendUnseen(q, p)) = Range(q) \cup {[pod |-> p, uid |-> live[p]]}
         /\ AppendUnseen(q, p) = q <=> [pod |-> p, uid |-> live[p]] \in Range(q)
<1> DEFINE r == AppendUnseen(q, p)
           uid == live[p]
<1>1. r = IF \E f \in Range(q) : f.uid = uid /\ f.pod = p THEN q ELSE Append(q, [pod |-> p, uid |-> uid])
  BY DEF AppendUnseen
<1> HIDE DEF r, uid
<1>2. /\ Founds(r) /\ Range(r) = Range(q) \cup {[pod |-> p, uid |-> uid]}
      /\ r = q <=> [pod |-> p, uid |-> uid] \in Range(q)
  BY <1>1, UnseenOne
<1>3. QED
  BY <1>2 DEF r, uid

\* The loop over the pods of a list is the fold of its turn.
LEMMA UnseenFold ==
  ASSUME NEW x, NEW s
  PROVE  FoldLeft(AppendUnseen, x, s) = Fold(Loop("unseen", live, 0), x, s)
<1> DEFINE t == Loop("unseen", live, 0)
           P(f) == f = [y \in SUBSET (DOMAIN s) |->
                          IF y = {} THEN x ELSE AppendUnseen(f[y \ {Max(y)}], s[Max(y)])]
<1>1. \A acc, e : Turn(t, acc, e) = AppendUnseen(acc, e)
  BY DEF Turn, Loop, AppendUnseen
<1>2. \A f : P(f) <=> IsFold(f, t, x, s)
  <2> HIDE DEF t
  <2>1. QED
    BY <1>1 DEF IsFold, FoldStep
<1>3. FoldLeft(AppendUnseen, x, s) = (CHOOSE f : P(f))[DOMAIN s]
  BY DEF FoldLeft, MapThenFoldSet
<1>4. Fold(t, x, s) = (CHOOSE f : IsFold(f, t, x, s))[DOMAIN s]
  BY DEF Fold
<1> HIDE DEF P, t
<1>5. (CHOOSE f : P(f)) = (CHOOSE f : IsFold(f, t, x, s))
  BY <1>2
<1>6. QED
  BY <1>3, <1>4, <1>5 DEF t

\* The pods of a set, each unless it is there.
LEMMA UnseenIs ==
  ASSUME NEW q, Founds(q), NEW S, IsFiniteSet(S)
  PROVE  LET r == FoldLeft(AppendUnseen, q, SetToSeq(S))
         IN  Founds(r) /\ Range(r) = Range(q) \cup {[pod |-> p, uid |-> live[p]] : p \in S}
<1> DEFINE t == Loop("unseen", live, 0)
           s == SetToSeq(S)
           n == Cardinality(S)
           New(p) == [pod |-> p, uid |-> live[p]]
<1>1. n \in Nat /\ DOMAIN s = 1..n /\ Range(s) = S
  BY SetToSeqIs
<1> HIDE DEF s, n
<1>2. PICK h : Turns(h, t, q, s, n)
  BY <1>1, FoldTurns
<1> DEFINE To(k) == {New(s[i]) : i \in 1..k}
           K == {k \in Nat : k <= n => Founds(h[k]) /\ Range(h[k]) = Range(q) \cup To(k)}
<1>3. 0 \in K
  <2>1. h[0] = q /\ To(0) = {}
    BY <1>2 DEF Turns
  <2>2. QED
    BY <2>1
<1>4. ASSUME NEW k \in Nat, k \in K PROVE k + 1 \in K
  <2>1. SUFFICES ASSUME k + 1 <= n PROVE Founds(h[k + 1]) /\ Range(h[k + 1]) = Range(q) \cup To(k + 1)
    OBVIOUS
  <2>2. Founds(h[k]) /\ Range(h[k]) = Range(q) \cup To(k)
    <3> HIDE DEF To
    <3>1. k <= n
      BY <1>1, <2>1
    <3>2. QED
      BY <1>4, <3>1
  <2>3. h[k + 1] = Turn(t, h[k], s[k + 1])
    BY <1>1, <1>2, <2>1 DEF Turns
  <2>4. h[k + 1] = IF \E f \in Range(h[k]) : f.uid = live[s[k + 1]] /\ f.pod = s[k + 1] THEN h[k]
                   ELSE Append(h[k], [pod |-> s[k + 1], uid |-> live[s[k + 1]]])
    BY <2>3 DEF Turn, Loop
  <2>5. Founds(h[k + 1]) /\ Range(h[k + 1]) = Range(h[k]) \cup {New(s[k + 1])}
    <3> DEFINE p == s[k + 1]
               q0 == h[k]
               r0 == h[k + 1]
               uid == live[s[k + 1]]
    <3>1. Founds(q0) /\ New(p) = [pod |-> p, uid |-> uid]
      BY <2>2
    <3>2. r0 = IF \E f \in Range(q0) : f.uid = uid /\ f.pod = p THEN q0 ELSE Append(q0, [pod |-> p, uid |-> uid])
      BY <2>4
    <3>3. Founds(r0) /\ Range(r0) = Range(q0) \cup {New(p)}
      <4> HIDE DEF p, q0, r0, uid, New
      <4>1. Founds(r0) /\ Range(r0) = Range(q0) \cup {[pod |-> p, uid |-> uid]}
        BY <3>1, <3>2, UnseenOne
      <4>2. QED
        BY <3>1, <4>1
    <3>4. QED
      BY <3>3
  <2>6. To(k + 1) = To(k) \cup {New(s[k + 1])}
    <3>1. 1..(k+1) = (1..k) \cup {k+1}
      OBVIOUS
    <3> HIDE DEF New
    <3>2. QED
      BY <3>1
  <2> HIDE DEF To, New
  <2>7. QED
    BY <2>2, <2>5, <2>6
<1> HIDE DEF K
<1>5. n \in K
  BY <1>1, <1>3, <1>4, InductionOverNat
<1>6. To(n) = {New(p) : p \in S}
  <2> HIDE DEF New
  <2>1. QED
    BY <1>1 DEF Range
<1>7. h[n] = FoldLeft(AppendUnseen, q, SetToSeq(S))
  BY <1>2, UnseenFold DEF Turns, s
<1> HIDE DEF To
<1>8. QED
  BY <1>1, <1>5, <1>6, <1>7 DEF K

\* The selected owners are among what is asked for.
LEMMA OwnersAre ==
  ASSUME NEW a, a \in Seq(Range(a))
  PROVE  /\ Owners(a) \in Seq(Range(Owners(a))) /\ Range(Owners(a)) \subseteq Range(a)
         /\ \A o \in Range(Owners(a)) : o.type = "owner"
<1> DEFINE t == Loop("owners", 0, 0)
           n == Len(a)
           Q(x) == x \in Seq(Range(x)) /\ Range(x) \subseteq Range(a) /\ \A o \in Range(x) : o.type = "owner"
<1>1. n \in Nat /\ DOMAIN a = 1..n
  BY LenProperties
<1> HIDE DEF n
<1>2. Owners(a) = Fold(t, <<>>, a)
  BY OwnersFold DEF Owners
<1>3. PICK h : Turns(h, t, <<>>, a, n)
  BY <1>1, FoldTurns
<1> DEFINE K == {k \in Nat : k <= n => Q(h[k])}
<1>4. 0 \in K
  <2>1. Range(<<>>) = {} /\ <<>> \in Seq({})
    BY DEF Range
  <2>2. QED
    BY <1>3, <2>1 DEF Turns
<1>5. ASSUME NEW k \in Nat, k \in K PROVE k + 1 \in K
  <2>1. SUFFICES ASSUME k + 1 <= n PROVE Q(h[k + 1])
    OBVIOUS
  <2>2. Q(h[k]) /\ k < n
    BY <1>1, <1>5, <2>1
  <2>3. a[k + 1] \in Range(a)
    BY <1>1, <2>1 DEF Range
  <2>4. h[k + 1] = Turn(t, h[k], a[k + 1])
    BY <1>3, <2>2 DEF Turns
  <2>5. h[k + 1] = h[k] \/ (a[k + 1].type = "owner" /\ h[k + 1] = Append(h[k], a[k + 1]))
    BY <2>4 DEF Turn, Loop
  <2>6. CASE a[k + 1].type = "owner" /\ h[k + 1] = Append(h[k], a[k + 1])
    <3> DEFINE x == Append(h[k], a[k + 1])
    <3>1. x \in Seq(Range(x)) /\ Range(x) = Range(h[k]) \cup {a[k + 1]}
      BY <2>2, AppendIs
    <3> HIDE DEF x
    <3>2. Q(x)
      BY <2>2, <2>3, <2>6, <3>1
    <3>3. QED
      BY <2>6, <3>2 DEF x
  <2>7. QED
    BY <2>2, <2>5, <2>6
<1> HIDE DEF K
<1>6. n \in K
  BY <1>1, <1>4, <1>5, InductionOverNat
<1>7. QED
  BY <1>1, <1>2, <1>3, <1>6 DEF K, Turns

\* The pod selections are those of what is asked for.
PodSelections(a) == FoldLeft(LAMBDA acc, s : IF s.type = "pod" THEN Append(acc, s) ELSE acc, <<>>, a)

\* They are all of them and no others.
LEMMA PodSelectionsAre ==
  ASSUME NEW a, a \in Seq(Range(a))
  PROVE  /\ PodSelections(a) \in Seq(Range(PodSelections(a)))
         /\ Range(PodSelections(a)) = {s \in Range(a) : s.type = "pod"}
<1> DEFINE t == Loop("pods", 0, 0)
           Q == {s \in Range(a) : s.type = "pod"}
<1>1. PodSelections(a) = Fold(t, <<>>, a)
  BY PodsFold DEF PodSelections
<1>2. Filters(t, a, Q)
  BY DEF Filters, Turn, Loop
<1>3. Range(a) \cap Q = Q
  OBVIOUS
<1> HIDE DEF t, Q
<1>4. QED
  BY <1>1, <1>2, <1>3, FilterIs DEF Q

\* What may be asked for.
Asks(a) == a \in Seq(Range(a)) /\ \A s \in Range(a) : s.selector \subseteq SUBSET Pods

\* A resolution has the fields of Idle.
Fields(r) ==
  r = [status |-> r.status, owners |-> r.owners, oleft |-> r.oleft, pleft |-> r.pleft, selector |-> r.selector,
       uncovered |-> r.uncovered, targets |-> r.targets, found |-> r.found]

\* A resolution of the selections a that is under way or done.
InHand(a, r) ==
  /\ Fields(r) /\ r.owners = Owners(a)
  /\ r.oleft \in Seq(Range(r.oleft)) /\ Range(r.oleft) \subseteq Range(a)
  /\ r.pleft \in Seq(Range(r.pleft)) /\ Range(r.pleft) \subseteq Range(a)
  /\ r.selector \subseteq SUBSET Pods
  /\ r.uncovered \in BOOLEAN /\ (r.uncovered => r.pleft # <<>>)
  /\ r.targets \in Seq(Range(r.targets))
  /\ Founds(r.found) /\ \A f \in Range(r.found) : f.pod \in Pods /\ \E s \in Range(a) : s.ns = NsOf[f.pod]

\* A resolution has a status and, unless it is idle or failed, is in hand.
Shape(a, r) ==
  /\ r.status \in {"idle", "running", "done", "failed"}
  /\ r.status \in {"running", "done"} => InHand(a, r)

\* A pod selection that is done with.
LEMMA PodDone ==
  ASSUME NEW r, Fields(r), NEW pl, NEW u
  PROVE  [r EXCEPT !.pleft = pl, !.uncovered = u]
           = [status |-> r.status, owners |-> r.owners, oleft |-> r.oleft, pleft |-> pl,
              selector |-> r.selector, uncovered |-> u, targets |-> r.targets, found |-> r.found]
<1> DEFINE n == [r EXCEPT !.pleft = pl, !.uncovered = u]
           k == [r EXCEPT !.pleft = pl]
<1>1. k = [status |-> r.status, owners |-> r.owners, oleft |-> r.oleft, pleft |-> pl,
              selector |-> r.selector, uncovered |-> r.uncovered, targets |-> r.targets, found |-> r.found]
  BY DEF Fields
<1>2. n = [k EXCEPT !.uncovered = u]
  OBVIOUS
<1> HIDE DEF k, n
<1>3. n = [status |-> r.status, owners |-> r.owners, oleft |-> r.oleft, pleft |-> pl,
              selector |-> r.selector, uncovered |-> u, targets |-> r.targets, found |-> r.found]
  BY <1>1, <1>2
<1>4. QED
  BY <1>3 DEF n

\* A resolution begins with nothing found.
LEMMA ResolutionShape ==
  ASSUME NEW a, Asks(a)
  PROVE  Shape(a, Resolution(a))
<1> DEFINE r == Resolution(a)
<1>1. r = Failed \/ r = [Idle EXCEPT !.status = "running", !.owners = Owners(a), !.oleft = Owners(a),
                                     !.pleft = PodSelections(a)]
  BY DEF Resolution, PodSelections
<1>2. CASE r = Failed
  BY <1>2 DEF Failed, Idle, Shape
<1>3. CASE r = [Idle EXCEPT !.status = "running", !.owners = Owners(a), !.oleft = Owners(a),
                            !.pleft = PodSelections(a)]
  <2> DEFINE ow == Owners(a)
             pl == PodSelections(a)
  <2>1. /\ ow \in Seq(Range(ow)) /\ Range(ow) \subseteq Range(a)
        /\ pl \in Seq(Range(pl)) /\ Range(pl) \subseteq Range(a)
    BY OwnersAre, PodSelectionsAre DEF Asks
  <2> HIDE DEF pl, ow
  <2>2. r = [status |-> "running", owners |-> ow, oleft |-> ow, pleft |-> pl,
             selector |-> {}, uncovered |-> FALSE, targets |-> <<>>, found |-> <<>>]
    BY <1>3 DEF Idle, pl, ow
  <2> HIDE DEF r
  <2>3. /\ r.status = "running" /\ r.owners = ow /\ r.oleft = ow /\ r.pleft = pl /\ r.selector = {}
        /\ r.uncovered = FALSE /\ r.targets = <<>> /\ r.found = <<>>
    BY <2>2
  <2>4. Range(<<>>) = {} /\ <<>> \in Seq({}) /\ Len(<<>>) = 0
    BY DEF Range
  <2>5. Founds(<<>>)
    BY <2>4 DEF Founds, Distinct
  <2>6. Fields(r)
    BY <2>2, <2>3 DEF Fields
  <2>7. InHand(a, r)
    BY <2>1, <2>3, <2>4, <2>5, <2>6 DEF InHand, ow
  <2>8. QED
    BY <2>3, <2>7 DEF Shape, r
<1>4. QED
  BY <1>1, <1>2, <1>3

\* Reading a selector.
LEMMA ReadSelectorShape ==
  ASSUME NEW a, Asks(a), Shape(a, res), ReadSelector
  PROVE  Shape(a, res')
<1>1. InHand(a, res) /\ res.oleft # <<>> /\ res.status = "running"
  BY DEF ReadSelector, Running, Shape
<1> DEFINE o == Head(res.oleft)
<1>2. o \in Range(a)
  BY <1>1, TailIs DEF InHand
<1>3. o.selector \subseteq SUBSET Pods /\ controllerLabelSelector(o) \subseteq SUBSET Pods
  BY <1>2, ClusterAssumption DEF Asks, controllerLabelSelector
<1>4. res' = Failed \/ \E sel \in {o.selector, controllerLabelSelector(o)} : res' = Expand(o, sel)
  BY DEF ReadSelector
<1>5. CASE res' = Failed
  BY <1>5 DEF Failed, Idle, Shape
<1>6. ASSUME NEW sel, sel \subseteq SUBSET Pods, res' = Expand(o, sel) PROVE Shape(a, res')
  <2> DEFINE t == [ns |-> o.ns, owner |-> o.owner, pod |-> "", uid |-> 0]
             ts == Append(res.targets, t)
  <2>1. ts \in Seq(Range(ts))
    <3> HIDE DEF t
    <3>1. res.targets \in Seq(Range(res.targets))
      BY <1>1 DEF InHand
    <3>2. QED
      BY <3>1, AppendIs
  <2>2. res' = [res EXCEPT !.selector = sel, !.targets = ts]
    BY <1>6 DEF Expand
  <2> HIDE DEF ts, t, o
  <2>3. res' = [status |-> res.status, owners |-> res.owners, oleft |-> res.oleft, pleft |-> res.pleft,
                selector |-> sel, uncovered |-> res.uncovered, targets |-> ts, found |-> res.found]
    BY <1>1, <2>2 DEF InHand, Fields
  <2>4. /\ res'.status = "running" /\ res'.owners = res.owners /\ res'.oleft = res.oleft
        /\ res'.pleft = res.pleft
        /\ res'.selector = sel /\ res'.uncovered = res.uncovered /\ res'.targets = ts
        /\ res'.found = res.found
    BY <1>1, <2>3
  <2>5. Fields(res')
    BY <1>1, <2>3, <2>4 DEF Fields
  <2>6. InHand(a, res')
    BY <1>1, <1>6, <2>1, <2>4, <2>5 DEF InHand
  <2>7. QED
    BY <2>4, <2>6 DEF Shape
<1>7. QED
  BY <1>3, <1>4, <1>5, <1>6

\* The pods that a list answers, and those of them that the owner has.
Listed(o, sel) == {p \in UNION sel : NsOf[p] = o.ns /\ live[p] # 0}
Taken(o, sel, lost) == {p \in Listed(o, sel) : podMatchesOwner(p, o.owner, p \in lost)}

\* Listing the pods of an owner.
LEMMA ListOwnerPodsShape ==
  ASSUME NEW a, Asks(a), Shape(a, res), ListOwnerPods
  PROVE  Shape(a, res')
<1>1. InHand(a, res) /\ res.oleft # <<>> /\ res.status = "running"
  BY DEF ListOwnerPods, Running, Shape
<1> DEFINE o == Head(res.oleft)
<1>2. /\ o \in Range(a) /\ Tail(res.oleft) \in Seq(Range(Tail(res.oleft)))
      /\ Range(Tail(res.oleft)) \subseteq Range(a)
  BY <1>1, TailIs DEF InHand
<1>3. res' = Failed \/ \E lost :
        res' = [res EXCEPT !.oleft = Tail(@), !.selector = {},
                           !.found = FoldLeft(AppendUnseen, @, SetToSeq(Taken(o, res.selector, lost)))]
  BY DEF ListOwnerPods, Listed, Taken
<1>4. CASE res' = Failed
  BY <1>4 DEF Failed, Idle, Shape
<1>5. ASSUME NEW lost,
             res' = [res EXCEPT !.oleft = Tail(@), !.selector = {},
                                !.found = FoldLeft(AppendUnseen, @, SetToSeq(Taken(o, res.selector, lost)))]
      PROVE  Shape(a, res')
  <2> DEFINE S == Taken(o, res.selector, lost)
             q == FoldLeft(AppendUnseen, res.found, SetToSeq(S))
             ol == Tail(res.oleft)
  <2>1. \A p \in S : p \in Pods /\ NsOf[p] = o.ns
    BY <1>1 DEF Taken, Listed, InHand
  <2>2. IsFiniteSet(S)
    <3>1. S \subseteq Pods
      BY <2>1
    <3> HIDE DEF S
    <3>2. QED
      BY <3>1, FS_Subset, ClusterAssumption
  <2>3. res' = [res EXCEPT !.oleft = ol, !.selector = {}, !.found = q]
    BY <1>5
  <2> HIDE DEF S
  <2>4. Founds(q) /\ Range(q) = Range(res.found) \cup {[pod |-> p, uid |-> live[p]] : p \in S}
    BY <1>1, <2>2, UnseenIs DEF InHand
  <2> HIDE DEF q, ol
  <2>5. \A f \in Range(q) : f.pod \in Pods /\ \E s \in Range(a) : s.ns = NsOf[f.pod]
    <3> TAKE f \in Range(q)
    <3>1. CASE f \in Range(res.found)
      BY <1>1, <3>1 DEF InHand
    <3>2. CASE \E p \in S : f = [pod |-> p, uid |-> live[p]]
      BY <1>2, <2>1, <3>2
    <3>3. QED
      BY <2>4, <3>1, <3>2
  <2>6. res' = [status |-> res.status, owners |-> res.owners, oleft |-> ol, pleft |-> res.pleft,
                selector |-> {}, uncovered |-> res.uncovered, targets |-> res.targets, found |-> q]
    BY <1>1, <2>3 DEF InHand, Fields
  <2>7. /\ res'.status = "running" /\ res'.owners = res.owners /\ res'.oleft = ol /\ res'.pleft = res.pleft
        /\ res'.selector = {} /\ res'.uncovered = res.uncovered /\ res'.targets = res.targets
        /\ res'.found = q
    BY <1>1, <2>6
  <2>8. Fields(res')
    BY <1>1, <2>6, <2>7 DEF Fields
  <2>9. ol \in Seq(Range(ol)) /\ Range(ol) \subseteq Range(a)
    BY <1>2 DEF ol
  <2>10. InHand(a, res')
    BY <1>1, <2>4, <2>5, <2>7, <2>8, <2>9 DEF InHand
  <2>11. QED
    BY <2>7, <2>10 DEF Shape
<1>6. QED
  BY <1>3, <1>4, <1>5

\* Asking whether a selected owner covers a named pod.
LEMMA CheckCoveredShape ==
  ASSUME NEW a, Asks(a), Shape(a, res), CheckCovered
  PROVE  Shape(a, res')
<1>1. InHand(a, res) /\ res.pleft # <<>> /\ res.status = "running"
  BY DEF CheckCovered, Running, Shape
<1>2. Tail(res.pleft) \in Seq(Range(Tail(res.pleft))) /\ Range(Tail(res.pleft)) \subseteq Range(a)
  BY <1>1, TailIs DEF InHand
<1>3. PICK c \in BOOLEAN : res' = [res EXCEPT !.uncovered = ~c, !.pleft = IF c THEN Tail(@) ELSE @]
  BY DEF CheckCovered, Named, coveredByOwnerSelection
<1> DEFINE pl == IF c THEN Tail(res.pleft) ELSE res.pleft
           u == ~c
<1>4. u \in BOOLEAN /\ (u => pl # <<>>) /\ pl \in Seq(Range(pl)) /\ Range(pl) \subseteq Range(a)
  BY <1>1, <1>2 DEF InHand
<1>5. res' = [res EXCEPT !.uncovered = u, !.pleft = pl]
  BY <1>3
<1> HIDE DEF pl, u
<1>6. res' = [status |-> res.status, owners |-> res.owners, oleft |-> res.oleft, pleft |-> pl,
              selector |-> res.selector, uncovered |-> u, targets |-> res.targets, found |-> res.found]
  BY <1>1, <1>5 DEF InHand, Fields
<1>7. /\ res'.status = "running" /\ res'.owners = res.owners /\ res'.oleft = res.oleft /\ res'.pleft = pl
      /\ res'.selector = res.selector /\ res'.uncovered = u /\ res'.targets = res.targets
      /\ res'.found = res.found
  BY <1>1, <1>6
<1>8. Fields(res')
  BY <1>1, <1>6, <1>7 DEF Fields
<1>9. InHand(a, res')
  BY <1>1, <1>4, <1>7, <1>8 DEF InHand
<1>10. QED
  BY <1>7, <1>9 DEF Shape

\* A named pod's target, which it has unless an owner's selector found the pod.
PodTarget(s) == [ns |-> s.ns, owner |-> NoOwner, pod |-> s.pod, uid |-> live[s.pod]]
TargetsWith(r, s) ==
  IF AppendUnseen(r.found, s.pod) = r.found THEN r.targets ELSE Append(r.targets, PodTarget(s))

\* What getting a named pod adds.
LEMMA GetPodIs ==
  ASSUME Fields(res), GetPod, res' # Failed
  PROVE  LET s == Head(res.pleft) IN
         /\ Named(s)
         /\ res' = [status |-> res.status, owners |-> res.owners, oleft |-> res.oleft, pleft |-> Tail(res.pleft),
                    selector |-> res.selector, uncovered |-> FALSE, targets |-> TargetsWith(res, s),
                    found |-> AppendUnseen(res.found, s.pod)]
<1> DEFINE s == Head(res.pleft)
           pl == Tail(res.pleft)
           q == AppendUnseen(res.found, s.pod)
           t == PodTarget(s)
           tt == Append(res.targets, t)
           n == [res EXCEPT !.pleft = pl, !.uncovered = FALSE]
<1>1. /\ Named(s)
      /\ res' = IF q = res.found THEN n
                ELSE [n EXCEPT !.found = AppendUnseen(@, s.pod), !.targets = Append(@, t)]
  BY DEF GetPod, PodTarget
<1> HIDE DEF t, pl, s
<1>2. n = [status |-> res.status, owners |-> res.owners, oleft |-> res.oleft, pleft |-> pl,
           selector |-> res.selector, uncovered |-> FALSE, targets |-> res.targets, found |-> res.found]
  BY PodDone
<1> HIDE DEF n
<1>3. n.found = res.found /\ n.targets = res.targets
  BY <1>2
<1>4. res' = IF q = res.found THEN n ELSE [n EXCEPT !.found = q, !.targets = tt]
  <2>1. res' = IF q = res.found THEN n
               ELSE [n EXCEPT !.found = AppendUnseen(n.found, s.pod), !.targets = Append(n.targets, t)]
    BY <1>1
  <2>2. QED
    BY <1>3, <2>1
<1>5. TargetsWith(res, s) = IF q = res.found THEN res.targets ELSE tt
  BY DEF TargetsWith, t
<1> HIDE DEF tt, q
<1>6. res' = [status |-> res.status, owners |-> res.owners, oleft |-> res.oleft, pleft |-> pl,
              selector |-> res.selector, uncovered |-> FALSE, targets |-> TargetsWith(res, s), found |-> q]
  <2>1. CASE q = res.found
    BY <1>2, <1>4, <1>5, <2>1
  <2>2. CASE q # res.found
    <3> DEFINE ts == TargetsWith(res, s)
    <3>1. res' = [n EXCEPT !.found = q, !.targets = ts]
      BY <1>4, <1>5, <2>2
    <3> HIDE DEF ts
    <3>2. res' = [status |-> res.status, owners |-> res.owners, oleft |-> res.oleft, pleft |-> pl,
                  selector |-> res.selector, uncovered |-> FALSE, targets |-> ts, found |-> q]
      BY <1>2, <3>1
    <3>3. QED
      BY <3>2 DEF ts
  <2>3. QED
    BY <2>1, <2>2
<1>7. QED
  BY <1>1, <1>6 DEF s, pl, q

\* Getting a named pod.
LEMMA GetPodShape ==
  ASSUME NEW a, Asks(a), Shape(a, res), GetPod
  PROVE  Shape(a, res')
<1>1. InHand(a, res) /\ res.pleft # <<>> /\ res.status = "running"
  BY DEF GetPod, Running, Shape, InHand
<1> DEFINE s == Head(res.pleft)
           pl == Tail(res.pleft)
           q == AppendUnseen(res.found, s.pod)
           ts == TargetsWith(res, s)
<1>2. s \in Range(a) /\ pl \in Seq(Range(pl)) /\ Range(pl) \subseteq Range(a)
  BY <1>1, TailIs DEF InHand
<1>3. ts \in Seq(Range(ts))
  <2> DEFINE t == PodTarget(s)
  <2>1. ts = res.targets \/ ts = Append(res.targets, t)
    BY DEF TargetsWith
  <2> HIDE DEF t, ts
  <2>2. res.targets \in Seq(Range(res.targets))
    BY <1>1 DEF InHand
  <2>3. Append(res.targets, t) \in Seq(Range(Append(res.targets, t)))
    BY <2>2, AppendIs
  <2>4. QED
    BY <2>1, <2>2, <2>3
<1>4. CASE res' = Failed
  BY <1>4 DEF Failed, Idle, Shape
<1>5. CASE res' # Failed
  <2>1. /\ Named(s)
        /\ res' = [status |-> res.status, owners |-> res.owners, oleft |-> res.oleft, pleft |-> pl,
                   selector |-> res.selector, uncovered |-> FALSE, targets |-> ts, found |-> q]
    BY <1>1, <1>5, GetPodIs DEF InHand
  <2>2. Founds(q) /\ Range(q) = Range(res.found) \cup {[pod |-> s.pod, uid |-> live[s.pod]]}
    BY <1>1, AppendUnseenIs DEF InHand
  <2>3. \A f \in Range(q) : f.pod \in Pods /\ \E sel \in Range(a) : sel.ns = NsOf[f.pod]
    <3> TAKE f \in Range(q)
    <3> HIDE DEF q
    <3>1. CASE f \in Range(res.found)
      BY <1>1, <3>1 DEF InHand
    <3>2. CASE f = [pod |-> s.pod, uid |-> live[s.pod]]
      BY <1>2, <2>1, <3>2 DEF Named
    <3>3. QED
      BY <2>2, <3>1, <3>2
  <2> HIDE DEF q, ts, pl, s
  <2>4. /\ res'.status = "running" /\ res'.owners = res.owners /\ res'.oleft = res.oleft /\ res'.pleft = pl
        /\ res'.selector = res.selector /\ res'.uncovered = FALSE /\ res'.targets = ts /\ res'.found = q
    BY <1>1, <2>1
  <2>5. Fields(res')
    BY <1>1, <2>1, <2>4 DEF Fields
  <2>6. InHand(a, res')
    BY <1>1, <1>2, <1>3, <2>2, <2>3, <2>4, <2>5 DEF InHand
  <2>7. QED
    BY <2>4, <2>6 DEF Shape
<1>6. QED
  BY <1>4, <1>5

\* Every step of a resolution.
LEMMA SelectionShape ==
  ASSUME NEW a, Asks(a), Shape(a, res), SelectionStep
  PROVE  Shape(a, res')
<1>1. CASE FinishSelection
  <2>1. InHand(a, res) /\ res.status = "running"
    BY <1>1 DEF FinishSelection, Running, Shape
  <2>2. res' = Failed \/ res' = [res EXCEPT !.status = "done"]
    BY <1>1 DEF FinishSelection
  <2>3. CASE res' = Failed
    BY <2>3 DEF Failed, Idle, Shape
  <2>4. CASE res' = [res EXCEPT !.status = "done"]
    <3>1. res' = [status |-> "done", owners |-> res.owners, oleft |-> res.oleft, pleft |-> res.pleft,
                  selector |-> res.selector, uncovered |-> res.uncovered, targets |-> res.targets,
                  found |-> res.found]
      BY <2>1, <2>4 DEF InHand, Fields
    <3>2. /\ res'.status = "done" /\ res'.owners = res.owners /\ res'.oleft = res.oleft
          /\ res'.pleft = res.pleft /\ res'.selector = res.selector /\ res'.uncovered = res.uncovered
          /\ res'.targets = res.targets /\ res'.found = res.found
      BY <3>1
    <3>3. Fields(res')
      BY <3>1, <3>2 DEF Fields
    <3>4. InHand(a, res')
      BY <2>1, <3>2, <3>3 DEF InHand
    <3>5. QED
      BY <3>2, <3>4 DEF Shape
  <2>5. QED
    BY <2>2, <2>3, <2>4
<1>2. QED
  BY <1>1, ReadSelectorShape, ListOwnerPodsShape, CheckCoveredShape, GetPodShape
     DEF SelectionStep

-----------------------------------------------------------------------------
(* The invariant of a path request.                                            *)

\* The places of a path request, and those of it where the graph is there.
PathSteps == {"received", "source", "destination", "seed", "services", "metallb", "wire", "focus", "search",
              "reply", "done", "failed", "panicked"}
Building ==
  /\ req.kind = "path"
  /\ pc \in {"services", "metallb", "wire", "focus", "search", "reply", "done", "panicked"}

\* Whose the request is and how far its selections are.
RequestInv ==
  /\ req \in Requests /\ Shape(Asked, res)
  /\ req.kind = "capture" => pc \in {"received", "selecting", "done", "failed"}
  /\ req.kind = "path" =>
       /\ pc \in PathSteps
       /\ pc \notin {"received", "failed"} => VerifyNamespaces(req) /\ ValidateEndpoints(req)
       /\ pc \notin {"source", "destination"} => res.status = "idle"
       /\ res.status # "idle" => AskedEndpoint.mode = "namespace"

\* What was found lies in the namespaces that the caller may list.
FoundInv ==
  /\ Resolved(src) /\ Resolved(dst)
  /\ hits \subseteq Services /\ lbs \subseteq hits /\ \A s \in hits : s.ns \in Accessible
  /\ index.ads \subseteq Ads /\ index.peers \subseteq Peers
  /\ pc \in {"received", "source", "destination", "seed"} => hits = {}

\* The ids that were drawn for certain.
Drawn ==
  sourceIDs(src) \cup HostIDs(src.pods) \cup destIDs(dst) \cup {serviceID(s.ns, s.name) : s \in hits}

\* A pod whose services are to be listed.
Pending(pods, w) ==
  /\ w = [pod |-> w.pod, role |-> w.role, left |-> w.left]
  /\ w.pod \in pods /\ w.left \subseteq Accessible

\* The graph is sound and holds what was drawn; what is left to list is of its pods.
GraphInv ==
  Building => /\ Sound(Drawn, g)
              /\ work \in Seq(Range(work))
              /\ \A w \in Range(work) : Pending(Range(src.pods) \cup Range(dst.pods), w)

\* What was found by the search is the head of its queue.
SearchInv ==
  req.kind = "path" /\ pc = "search" =>
    /\ Searching(g, sourceIDs(src), destIDs(dst), BallOf(g, sourceIDs(src)), search)
    /\ \/ search.best = <<>>
       \/ search.queue # <<>> /\ search.best = search.queue[1] /\ Last(search.best) \in destIDs(dst)

\* The focus is decided when the reply is built.
Shown ==
  req.kind = "path" /\ pc = "reply" /\ sourceIDs(src) # {} =>
    Shortest(g, sourceIDs(src), destIDs(dst), BallOf(g, sourceIDs(src)))

\* A reply is whole and, for a tenant, redacted.
Replied ==
  req.kind = "path" /\ pc = "done" =>
    /\ WholeView(sourceIDs(src) \cup destIDs(dst), reply)
    /\ tc.sanitize \/ FocusOf(g) \subseteq DOMAIN reply.graph.nodes
    /\ tc.sanitize => TenantsView(reply)

\* The inductive invariant of a path request.
PathInv == RequestInv /\ FoundInv /\ GraphInv /\ SearchInv /\ Shown /\ Replied

\* A request's selections may be asked for.
LEMMA AskedFits ==
  ASSUME req \in Requests
  PROVE  Asks(Asked)
<1>1. CASE req.kind = "capture"
  BY <1>1, RequestsAssumption DEF Asked, Asks
<1>2. CASE req.kind # "capture"
  <2> DEFINE s == AskedEndpoint.sel
  <2>1. s.selector \subseteq SUBSET Pods
    BY RequestsAssumption DEF AskedEndpoint
  <2>2. Asked = <<s>>
    BY <1>2 DEF Asked
  <2> HIDE DEF s
  <2>3. Range(<<s>>) = {s}
    BY DEF Range
  <2>4. QED
    BY <2>1, <2>2, <2>3 DEF Asks
<1>3. QED
  BY <1>1, <1>2

\* A request begins with nothing resolved, drawn or found.
LEMMA PathInit == Init => PathInv
<1> SUFFICES ASSUME Init PROVE PathInv
  OBVIOUS
<1> USE DEF Init
<1>1. res.status = "idle"
  BY DEF InitSelection, Idle
<1>2. RequestInv
  BY <1>1, RequestsAssumption DEF RequestInv, Shape, PathSteps
<1>3. Resolved(src) /\ Resolved(dst)
  <2>1. <<>> \in Seq(Pods) /\ Range(<<>>) = {} /\ IsFiniteSet({})
    BY FS_EmptySet DEF Range
  <2>2. QED
    BY <2>1 DEF Unresolved, Resolved
<1>4. FoundInv
  BY <1>3 DEF FoundInv, NoIndex
<1>5. QED
  BY <1>2, <1>4 DEF PathInv, GraphInv, Building, SearchInv, Shown, Replied

\* An answered selection is an endpoint in a namespace that was cleared.
LEMMA FoundPodsResolve ==
  ASSUME PathInv, req.kind = "path", pc \in {"source", "destination"}, res.status = "done"
  PROVE  Resolved([pods |-> FoundPods, ip |-> {}])
<1> DEFINE s == AskedEndpoint.sel
           q == res.found
           P == FoundPods
<1>1. InHand(<<s>>, res) /\ AskedEndpoint.mode = "namespace"
  BY DEF PathInv, RequestInv, Shape, Asked
<1>2. s.ns \in Accessible
  BY <1>1 DEF PathInv, RequestInv, ValidateEndpoints, ValidateEndpoint, AskedEndpoint, At
<1>3. Range(<<s>>) = {s}
  <2> HIDE DEF s
  <2>1. QED
    BY DEF Range
<1>4. \A f \in Range(q) : f.pod \in Pods /\ NsOf[f.pod] = s.ns
  BY <1>1, <1>3 DEF InHand
<1>5. q \in Seq(Range(q)) /\ DOMAIN q = 1..Len(q) /\ Len(q) \in Nat
  BY <1>1, LenProperties DEF InHand, Founds
<1>6. P = [i \in 1..Len(q) |-> q[i].pod]
  BY <1>5 DEF FoundPods
<1> HIDE DEF q, P, s
<1>7. \A i \in 1..Len(q) : q[i] \in Range(q)
  BY <1>5 DEF Range
<1>8. P \in Seq(Pods)
  BY <1>4, <1>5, <1>6, <1>7, SeqDef
<1>9. \A p \in Range(P) : NsOf[p] \in Accessible
  BY <1>2, <1>4, <1>6, <1>7 DEF Range
<1>10. QED
  BY <1>8, <1>9, FS_EmptySet DEF Resolved, P

\* So is an address, with the pod that has it.
LEMMA AddressResolves ==
  ASSUME PathInv, req.kind = "path", pc \in {"source", "destination"}, NEW addr,
         NEW matched, matched \subseteq findPodsByIP(addr)
  PROVE  Resolved([pods |-> SetToSeq(matched), ip |-> {IpNode(addr, matched)}])
<1> DEFINE n == IpNode(addr, matched)
           P == SetToSeq(matched)
<1>1. \A p \in matched : p \in Pods /\ NsOf[p] \in Accessible
  BY DEF findPodsByIP, PathInv, RequestInv, VerifyNamespaces
<1>2. IsFiniteSet(matched)
  <2>1. matched \subseteq Pods
    BY <1>1
  <2>2. QED
    BY <2>1, FS_Subset, ClusterAssumption
<1>3. P \in [1..Cardinality(matched) -> matched] /\ Cardinality(matched) \in Nat /\ Range(P) = matched
  BY <1>2, SetToSeqIs
<1> HIDE DEF P
<1>4. P \in Seq(Pods)
  <2>1. P \in [1..Cardinality(matched) -> Pods]
    BY <1>1, <1>3
  <2>2. QED
    BY <1>3, <2>1, SeqDef
<1>5. IpFits(n)
  <2>1. CASE addr = "external"
    <3>1. n = [id |-> <<"external", "", "destination">>, kind |-> "external"]
      BY <2>1 DEF IpNode
    <3> HIDE DEF n
    <3>2. QED
      BY <3>1 DEF IpFits, EndpointID, EndpointKinds, SeenSpaces
  <2>2. CASE addr # "external"
    <3>1. n = [id |-> <<"ip", "", addr>>, kind |-> IF matched = {} THEN "external" ELSE "pod-ip"]
      BY <2>2 DEF IpNode
    <3> HIDE DEF n
    <3>2. QED
      BY <3>1 DEF IpFits, EndpointID, EndpointKinds, SeenSpaces
  <2>3. QED
    BY <2>1, <2>2
<1> HIDE DEF n
<1>6. IsFiniteSet({n})
  BY FS_Singleton
<1>7. QED
  BY <1>1, <1>3, <1>4, <1>5, <1>6 DEF Resolved, P, n

\* The endpoint is set, and the next is asked for or the graph is begun.
LEMMA EndpointSet ==
  ASSUME PathInv, req.kind = "path", pc \in {"source", "destination"}, NEW ep, Resolved(ep),
         SetEndpoint(ep),
         res'.status = "idle", UNCHANGED <<requestVars, buildVars, g, search, reply>>
  PROVE  PathInv'
<1> USE DEF requestVars, buildVars
<1>1. (Resolved(src) /\ Resolved(dst))' /\ pc' \in {"destination", "seed"}
  BY DEF SetEndpoint, PathInv, FoundInv, At, Goto
<1>2. RequestInv'
  BY <1>1 DEF PathInv, RequestInv, Shape, PathSteps
<1>3. FoundInv'
  BY <1>1 DEF PathInv, FoundInv
<1>4. QED
  BY <1>1, <1>2, <1>3 DEF PathInv, GraphInv, Building, SearchInv, Shown, Replied

\* A request that ends without a reply.
LEMMA RequestFails ==
  ASSUME PathInv, req.kind = "path", pc' = "failed", res'.status = "idle",
         UNCHANGED <<requestVars, src, dst, buildVars, g, search, reply>> \/
         UNCHANGED <<req, slices, tc, src, dst, hits, work, lbs, index, g, search, reply>>
  PROVE  PathInv'
<1> USE DEF requestVars, buildVars
<1>1. RequestInv'
  BY DEF PathInv, RequestInv, Shape, PathSteps
<1>2. FoundInv'
  BY DEF PathInv, FoundInv
<1>3. QED
  BY <1>1, <1>2 DEF PathInv, GraphInv, Building, SearchInv, Shown, Replied

\* A step of the request that leaves what was found and drawn alone.
LEMMA RequestStep ==
  ASSUME PathInv, RequestInv', ~(req.kind = "path" /\ pc = "search"),
         ~Building' \/ (Building /\ pc' = pc), pc' \in {"search", "reply", "done"} => pc' = pc,
         pc' \in {"received", "source", "destination", "seed"} =>
           pc \in {"received", "source", "destination", "seed"},
         UNCHANGED <<req, slices, src, dst, buildVars, g, search, reply>>, tc' = tc \/ pc = "received"
  PROVE  PathInv'
<1> USE DEF buildVars
<1>1. FoundInv'
  BY DEF PathInv, FoundInv
<1>2. GraphInv'
  BY DEF PathInv, GraphInv, Building, Drawn
<1>3. SearchInv' /\ Shown'
  BY DEF PathInv, SearchInv, Shown
<1>4. Replied'
  BY DEF PathInv, Replied
<1>5. QED
  BY <1>1, <1>2, <1>3, <1>4 DEF PathInv

\* StartCapture: a capture's selections are read.
LEMMA StartCaptureStep ==
  ASSUME PathInv, StartCapture
  PROVE  PathInv'
<1>1. /\ req.kind = "capture" /\ pc = "received" /\ res' = Resolution(req.sels) /\ pc' = "selecting"
      /\ UNCHANGED <<req, slices, tc, src, dst, buildVars, g, search, reply>>
  BY DEF StartCapture, requestVars, At, Goto
<1>2. Asked = req.sels /\ Asked' = req.sels
  BY <1>1 DEF Asked
<1>3. Shape(Asked', res')
  <2>1. Asks(req.sels)
    BY <1>2, AskedFits DEF PathInv, RequestInv
  <2>2. QED
    BY <1>1, <1>2, <2>1, ResolutionShape
<1>4. RequestInv'
  BY <1>1, <1>3 DEF PathInv, RequestInv
<1>5. QED
  BY <1>1, <1>4, RequestStep DEF Building

\* CaptureSelected: a capture ends as its resolution did.
LEMMA CaptureSelectedStep ==
  ASSUME PathInv, CaptureSelected
  PROVE  PathInv'
<1>1. /\ pc = "selecting" /\ pc' \in {"done", "failed"} /\ res' = res
      /\ UNCHANGED <<req, slices, tc, src, dst, buildVars, g, search, reply>>
  BY DEF CaptureSelected, requestVars, selectionVars, At, Goto
<1>2. req.kind = "capture"
  BY <1>1, RequestsAssumption DEF PathInv, RequestInv, PathSteps
<1>3. Asked' = Asked
  BY <1>1, <1>2 DEF Asked
<1>4. RequestInv'
  BY <1>1, <1>2, <1>3 DEF PathInv, RequestInv
<1>5. FoundInv'
  BY <1>1 DEF PathInv, FoundInv, buildVars
<1>6. QED
  BY <1>1, <1>2, <1>4, <1>5 DEF PathInv, GraphInv, Building, SearchInv, Shown, Replied

\* VerifyAccess: a path request goes on only if every namespace of it was cleared.
LEMMA VerifyAccessStep ==
  ASSUME PathInv, VerifyAccess
  PROVE  PathInv'
<1>1. /\ pc = "received" /\ req.kind = "path" /\ pc' \in {"source", "failed"} /\ res' = res
      /\ pc' = "source" => VerifyNamespaces(req) /\ ValidateEndpoints(req)
      /\ UNCHANGED <<req, slices, src, dst, buildVars, g, search, reply>>
  BY DEF VerifyAccess, At, Goto
<1>2. res.status = "idle"
  BY <1>1 DEF PathInv, RequestInv
<1>3. RequestInv'
  BY <1>1, <1>2 DEF PathInv, RequestInv, Shape, PathSteps
<1>4. QED
  BY <1>1, <1>3, RequestStep DEF Building

\* ResolveIPEndpoint: an address and the pods that have it.
LEMMA ResolveIPEndpointStep ==
  ASSUME PathInv, ResolveIPEndpoint
  PROVE  PathInv'
<1>1. /\ pc \in {"source", "destination"} /\ AskedEndpoint.mode = "ip" /\ res' = res
      /\ UNCHANGED <<requestVars, buildVars, g, search, reply>>
  BY DEF ResolveIPEndpoint
<1>2. req.kind = "path" /\ res.status = "idle" /\ res'.status = "idle"
  BY <1>1, RequestsAssumption DEF PathInv, RequestInv
<1>3. CASE AskedEndpoint.ip = "invalid"
  <2>1. pc' = "failed" /\ UNCHANGED <<src, dst>>
    BY <1>3 DEF ResolveIPEndpoint, Goto
  <2>2. QED
    BY <1>1, <1>2, <2>1, RequestFails
<1>4. CASE AskedEndpoint.ip # "invalid"
  <2> DEFINE addr == AskedEndpoint.ip
             ep(matched) == [pods |-> SetToSeq(matched), ip |-> {IpNode(addr, matched)}]
  <2>1. \E matched : matched \subseteq findPodsByIP(addr) /\ SetEndpoint(ep(matched))
    BY <1>4 DEF ResolveIPEndpoint, Optional
  <2>2. PICK matched : matched \subseteq findPodsByIP(addr) /\ SetEndpoint(ep(matched))
    BY <2>1
  <2>3. Resolved(ep(matched))
    BY <1>1, <1>2, <2>2, AddressResolves
  <2> HIDE DEF ep
  <2>4. QED
    BY <1>1, <1>2, <2>2, <2>3, EndpointSet
<1>5. QED
  BY <1>3, <1>4

\* ResolveNamespaceEndpoint: a selection in a cleared namespace begins.
LEMMA ResolveNamespaceEndpointStep ==
  ASSUME PathInv, ResolveNamespaceEndpoint
  PROVE  PathInv'
<1>1. /\ pc \in {"source", "destination"} /\ AskedEndpoint.mode = "namespace" /\ pc' = pc
      /\ res' = Resolution(<<AskedEndpoint.sel>>)
      /\ UNCHANGED <<req, slices, tc, src, dst, buildVars, g, search, reply>>
  BY DEF ResolveNamespaceEndpoint, requestVars
<1>2. req.kind = "path"
  BY <1>1, RequestsAssumption DEF PathInv, RequestInv
<1>3. Asked = <<AskedEndpoint.sel>> /\ AskedEndpoint' = AskedEndpoint /\ Asked' = Asked
  BY <1>1, <1>2 DEF Asked, AskedEndpoint, At
<1>4. Shape(Asked', res')
  <2>1. Asks(Asked)
    BY AskedFits DEF PathInv, RequestInv
  <2>2. QED
    BY <1>1, <1>3, <2>1, ResolutionShape
<1>5. RequestInv'
  BY <1>1, <1>2, <1>3, <1>4 DEF PathInv, RequestInv
<1>6. QED
  BY <1>1, <1>5, RequestStep DEF Building

\* EndpointSelected: what it found is an endpoint.
LEMMA EndpointSelectedStep ==
  ASSUME PathInv, EndpointSelected
  PROVE  PathInv'
<1>1. /\ pc \in {"source", "destination"} /\ res.status \in {"done", "failed"} /\ res' = Idle
      /\ UNCHANGED <<requestVars, buildVars, g, search, reply>>
  BY DEF EndpointSelected
<1>2. req.kind = "path" /\ res'.status = "idle"
  BY <1>1, RequestsAssumption DEF PathInv, RequestInv, Idle
<1>3. CASE res.status = "failed" \/ res.found = <<>>
  <2>1. pc' = "failed" /\ UNCHANGED <<src, dst>>
    BY <1>3 DEF EndpointSelected, Goto
  <2>2. QED
    BY <1>1, <1>2, <2>1, RequestFails
<1>4. CASE ~(res.status = "failed" \/ res.found = <<>>)
  <2> DEFINE ep == [pods |-> FoundPods, ip |-> {}]
  <2>1. SetEndpoint(ep)
    BY <1>4 DEF EndpointSelected
  <2>2. Resolved(ep)
    BY <1>1, <1>2, <1>4, FoundPodsResolve
  <2> HIDE DEF ep
  <2>3. QED
    BY <1>1, <1>2, <2>1, <2>2, EndpointSet
<1>5. QED
  BY <1>3, <1>4

\* Select: a step of a resolution.
LEMMA SelectStep ==
  ASSUME PathInv, Select
  PROVE  PathInv'
<1>1. /\ SelectionStep /\ pc' = pc
      /\ UNCHANGED <<req, slices, tc, src, dst, buildVars, g, search, reply>>
  BY DEF Select, requestVars
<1>2. res.status = "running"
  BY <1>1
     DEF SelectionStep, ReadSelector, ListOwnerPods, CheckCovered, GetPod, FinishSelection, Running
<1>3. Asked' = Asked /\ AskedEndpoint' = AskedEndpoint
  BY <1>1 DEF Asked, AskedEndpoint, At
<1>4. Shape(Asked', res')
  <2>1. Asks(Asked) /\ Shape(Asked, res)
    BY AskedFits DEF PathInv, RequestInv
  <2>2. Shape(Asked, res')
    BY <1>1, <2>1, SelectionShape
  <2>3. QED
    BY <1>3, <2>2
<1>5. req.kind = "path" => pc \in {"source", "destination"}
  BY <1>2 DEF PathInv, RequestInv
<1>6. RequestInv'
  BY <1>1, <1>2, <1>3, <1>4, <1>5 DEF PathInv, RequestInv
<1>7. QED
  BY <1>1, <1>5, <1>6, RequestStep DEF Building

\* Pods come and go without a step of the request.
LEMMA IdleStep ==
  ASSUME PathInv, UNCHANGED <<res, requestVars, pc, src, dst, buildVars, g, search, reply>>
  PROVE  PathInv'
<1> USE DEF requestVars, buildVars
<1>1. Asked' = Asked /\ AskedEndpoint' = AskedEndpoint
  BY DEF Asked, AskedEndpoint, At
<1>2. RequestInv'
  BY <1>1 DEF PathInv, RequestInv
<1>3. FoundInv'
  BY DEF PathInv, FoundInv
<1>4. GraphInv'
  BY DEF PathInv, GraphInv, Building, Drawn
<1>5. SearchInv' /\ Shown'
  BY DEF PathInv, SearchInv, Shown
<1>6. Replied'
  BY DEF PathInv, Replied
<1>7. QED
  BY <1>2, <1>3, <1>4, <1>5, <1>6 DEF PathInv

\* Churn: a pod is recreated or deleted.
LEMMA ChurnStep ==
  ASSUME PathInv, Churn
  PROVE  PathInv'
BY IdleStep DEF Churn, Recreate, DeletePod

\* A step of discovery that finds and draws as it should.
LEMMA DrawStep ==
  ASSUME PathInv, req.kind = "path", pc \in {"seed", "services", "metallb", "wire"},
         pc' \in {"services", "metallb", "wire", "focus"}, FoundInv', GraphInv',
         UNCHANGED <<res, requestVars, src, dst, search, reply>>
  PROVE  PathInv'
<1> USE DEF requestVars
<1>1. RequestInv'
  BY DEF PathInv, RequestInv, Shape, PathSteps
<1>2. QED
  BY <1>1 DEF PathInv, SearchInv, Shown, Replied

\* What discovery looks at is in the namespaces that the caller may list.
LEMMA ScopeIsAccessible ==
  ASSUME PathInv, req.kind = "path", pc \notin {"received", "failed"}
  PROVE  Scope \subseteq Accessible
BY DEF PathInv, RequestInv, FoundInv, Scope, VerifyNamespaces, Resolved

\* The pods whose services are listed are nodes of the graph.
LEMMA PodsAreDrawn ==
  ASSUME NEW p \in Range(src.pods) \cup Range(dst.pods)
  PROVE  podNodeID(p) \in Drawn
BY DEF Drawn, sourceIDs, destIDs, Ids

\* The services of a pod become nodes.
LEMMA ServicesSound ==
  ASSUME NEW S, IsFiniteSet(S), NEW H, NEW h, Sound(H, h), NEW p, podNodeID(p) \in H,
         \A v \in S : v.ns \in SeenSpaces
  PROVE  Sound(H \cup {serviceID(v.ns, v.name) : v \in S},
               Fold(Loop("service", p, 0), h, SetToSeq(S)))
<1> DEFINE t == Loop("service", p, 0)
           s == SetToSeq(S)
           n == Cardinality(S)
           got == [k \in 1..n |-> {serviceID(s[k].ns, s[k].name)}]
<1>1. n \in Nat /\ DOMAIN s = 1..n /\ Range(s) = S /\ \A k \in 1..n : s[k] \in S
  BY SetToSeqIs
<1>2. \A x, v : Turn(t, x, v) = ServiceHit(x, v, p)
  BY DEF Turn, Loop
<1> HIDE DEF s, n, t
<1>3. ASSUME NEW k \in 1..n, NEW x, NEW G, H \subseteq G, Sound(G, x)
      PROVE  Sound(G \cup got[k], Turn(t, x, s[k]))
  <2>1. Sound(G \cup {serviceID(s[k].ns, s[k].name)}, ServiceHit(x, s[k], p))
    BY <1>1, <1>3, ServiceHitSound
  <2>2. QED
    BY <1>2, <2>1
<1>4. Gained(got, n) = {serviceID(v.ns, v.name) : v \in S}
  <2>1. \A z : z \in Gained(got, n) <=> \E k \in 1..n : z = serviceID(s[k].ns, s[k].name)
    BY DEF Gained
  <2> HIDE DEF got
  <2>2. \A z : (\E k \in 1..n : z = serviceID(s[k].ns, s[k].name)) <=> \E v \in S : z = serviceID(v.ns, v.name)
    BY <1>1 DEF Range
  <2>3. QED
    BY <2>1, <2>2
<1> HIDE DEF got
<1>5. Keeps(H, t, s, n, got)
  BY <1>3 DEF Keeps
<1>6. Sound(H \cup Gained(got, n), Fold(t, h, s))
  BY <1>1, <1>5, FoldSound
<1>7. QED
  BY <1>4, <1>6 DEF s, t

\* Seed: the endpoints are drawn and their pods queued.
LEMMA SeedStep ==
  ASSUME PathInv, Seed
  PROVE  PathInv'
<1> DEFINE todo(role, pods) == [i \in DOMAIN pods |-> [pod |-> pods[i], role |-> role, left |-> Scope]]
           wa == todo("source", src.pods)
           wb == todo("destination", dst.pods)
           W == wa \o wb
           P == Range(src.pods) \cup Range(dst.pods)
<1>1. /\ pc = "seed" /\ pc' = "services" /\ g' = seedEndpoints(src, dst) /\ work' = W
      /\ UNCHANGED <<res, requestVars, src, dst, hits, lbs, index, search, reply>>
  BY DEF Seed, At, Goto, selectionVars
<1>2. req.kind = "path"
  BY <1>1, RequestsAssumption DEF PathInv, RequestInv
<1>3. Resolved(src) /\ Resolved(dst) /\ hits = {}
  BY <1>1 DEF PathInv, FoundInv
<1>4. FoundInv'
  BY <1>1 DEF PathInv, FoundInv
<1>5. Drawn' = sourceIDs(src) \cup HostIDs(src.pods) \cup destIDs(dst)
  BY <1>1, <1>3 DEF Drawn
<1>6. Sound(Drawn', g')
  BY <1>1, <1>3, <1>5, SeedSound
<1>7. ASSUME NEW role, NEW pods, pods \in Seq(Pods),
             Range(pods) \subseteq Range(src.pods) \cup Range(dst.pods)
      PROVE  /\ todo(role, pods) \in Seq(Range(todo(role, pods)))
             /\ \A w \in Range(todo(role, pods)) : Pending(P, w)
  <2> DEFINE q == todo(role, pods)
  <2>1. Len(pods) \in Nat /\ DOMAIN pods = 1..Len(pods)
    BY <1>7, LenProperties
  <2>2. \A i \in 1..Len(pods) : pods[i] \in Range(src.pods) \cup Range(dst.pods)
    BY <1>7, <2>1 DEF Range
  <2>3. Scope \subseteq Accessible
    BY <1>1, <1>2, ScopeIsAccessible
  <2>4. \A i \in 1..Len(pods) : Pending(P, q[i])
    <3> TAKE i \in 1..Len(pods)
    <3> DEFINE w == [pod |-> pods[i], role |-> role, left |-> Scope]
    <3>1. q[i] = w
      BY <2>1
    <3>2. w.pod = pods[i] /\ w.left = Scope /\ w = [pod |-> w.pod, role |-> w.role, left |-> w.left]
      OBVIOUS
    <3> HIDE DEF w, q
    <3>3. QED
      BY <2>2, <2>3, <3>1, <3>2 DEF Pending
  <2>5. q \in [1..Len(pods) -> Range(q)]
    BY <2>1 DEF Range
  <2>6. \A w \in Range(q) : \E i \in 1..Len(pods) : w = q[i]
    BY <2>1 DEF Range
  <2> HIDE DEF q
  <2>7. q \in Seq(Range(q))
    BY <2>1, <2>5, SeqDef
  <2>8. QED
    BY <2>4, <2>6, <2>7 DEF q
<1>8. W \in Seq(Range(W)) /\ \A w \in Range(W) : w \in Range(wa) \cup Range(wb)
  <2>1. wa \in Seq(Range(wa)) /\ wb \in Seq(Range(wb))
    BY <1>3, <1>7 DEF Resolved
  <2> DEFINE T == Range(wa) \cup Range(wb)
  <2> HIDE DEF wa, wb
  <2>2. wa \in Seq(T) /\ wb \in Seq(T)
    BY <2>1, SeqMonotonic
  <2> HIDE DEF T
  <2>3. W \in Seq(T)
    BY <2>2
  <2> HIDE DEF W
  <2>4. DOMAIN W = 1..Len(W) /\ Len(W) \in Nat /\ \A i \in 1..Len(W) : W[i] \in T
    BY <2>3, LenProperties
  <2>5. W \in [1..Len(W) -> Range(W)] /\ \A w \in Range(W) : w \in T
    BY <2>3, <2>4 DEF Range
  <2>6. W \in Seq(Range(W))
    BY <2>4, <2>5, SeqDef
  <2>7. QED
    BY <2>5, <2>6 DEF T
<1>9. \A w \in Range(W) : Pending(P, w)
  <2>1. \A w \in Range(wa) \cup Range(wb) : Pending(P, w)
    BY <1>3, <1>7 DEF Resolved
  <2> HIDE DEF W, wa, wb
  <2>2. QED
    BY <1>8, <2>1
<1>10. GraphInv'
  <2> HIDE DEF W
  <2>1. QED
    BY <1>1, <1>6, <1>8, <1>9 DEF GraphInv, P
<1>11. QED
  BY <1>1, <1>2, <1>4, <1>10, DrawStep

\* The services of one namespace.
LEMMA ListServicesStep ==
  ASSUME PathInv, ListServices
  PROVE  PathInv'
<1> DEFINE w == Head(work)
           p == w.pod
           P == Range(src.pods) \cup Range(dst.pods)
           Hit(h, ss) == FoldLeft(LAMBDA k, v : ServiceHit(k, v, p), h, SetToSeq(ss))
<1>1. /\ pc = "services" /\ work # <<>>
      /\ UNCHANGED <<res, requestVars, src, dst, lbs, index, search, reply>>
  BY DEF ListServices, At
<1>2. req.kind = "path" /\ Building /\ res.status = "idle"
  BY <1>1, RequestsAssumption DEF PathInv, RequestInv, Building
<1>3. Sound(Drawn, g) /\ work \in Seq(Range(work)) /\ \A x \in Range(work) : Pending(P, x)
  BY <1>2 DEF PathInv, GraphInv
<1>4. /\ Len(work) \in Nat \ {0} /\ DOMAIN work = 1..Len(work) /\ w = work[1] /\ w \in Range(work)
  BY <1>1, <1>3, TailIs
<1>5. Pending(P, w)
  BY <1>3, <1>4
<1>6. \/ pc' = "failed" /\ UNCHANGED <<hits, g, work>>
      \/ \E ns \in w.left : \E ss \in SUBSET {s \in Services : s.ns = ns} :
           /\ hits' = hits \cup ss /\ g' = Hit(g, ss)
           /\ work' = [work EXCEPT ![1].left = @ \ {ns}] /\ pc' = pc
  <2> HIDE DEF Hit
  <2>1. PICK ns \in w.left :
          LET found(ss) == /\ hits' = hits \cup ss
                           /\ g' = FoldLeft(LAMBDA h, s : ServiceHit(h, s, p), g, SetToSeq(ss))
                           /\ work' = [work EXCEPT ![1].left = @ \ {ns}]
                           /\ UNCHANGED pc
          IN \/ Optional({s \in Services : s.ns = ns /\ serviceTargetsPod(s, p)}, found)
             \/ Fault({}) /\ Goto("failed") /\ UNCHANGED <<hits, g, work>>
    BY DEF ListServices
  <2> DEFINE all == {s \in Services : s.ns = ns /\ serviceTargetsPod(s, p)}
  <2>2. all \in SUBSET {s \in Services : s.ns = ns} /\ {} \in SUBSET {s \in Services : s.ns = ns}
    OBVIOUS
  <2>3. \/ pc' = "failed" /\ UNCHANGED <<hits, g, work>>
        \/ \E ss \in {all, {}} :
           /\ hits' = hits \cup ss /\ g' = FoldLeft(LAMBDA h, s : ServiceHit(h, s, p), g, SetToSeq(ss))
           /\ work' = [work EXCEPT ![1].left = @ \ {ns}] /\ pc' = pc
    BY <2>1 DEF Optional, Goto
  <2> HIDE DEF all
  <2>4. QED
    BY <2>2, <2>3 DEF Hit
<1>7. CASE pc' = "failed" /\ UNCHANGED <<hits, g, work>>
  BY <1>1, <1>2, <1>7, RequestFails DEF requestVars, buildVars
<1>8. ASSUME NEW ns \in w.left, NEW ss \in SUBSET {s \in Services : s.ns = ns},
             hits' = hits \cup ss, g' = Hit(g, ss),
             work' = [work EXCEPT ![1].left = @ \ {ns}], pc' = pc
      PROVE  PathInv'
  <2>1. ns \in Accessible
    BY <1>5 DEF Pending
  <2>2. FoundInv'
    BY <1>1, <1>8, <2>1 DEF PathInv, FoundInv
  <2>3. Sound(Drawn', g')
    <3>1. IsFiniteSet(ss)
      <4>1. ss \subseteq Services
        OBVIOUS
      <4>2. QED
        BY <4>1, FS_Subset, ClusterAssumption
    <3>2. \A v \in ss : v.ns \in SeenSpaces
      BY <2>1 DEF SeenSpaces
    <3>3. podNodeID(p) \in Drawn
      BY <1>5, PodsAreDrawn DEF Pending
    <3>4. Sound(Drawn \cup {serviceID(v.ns, v.name) : v \in ss}, Hit(g, ss))
      <4> DEFINE k == Fold(Loop("service", p, 0), g, SetToSeq(ss))
      <4>1. Hit(g, ss) = k
        BY ServicesFold
      <4> HIDE DEF Hit
      <4>2. Sound(Drawn \cup {serviceID(v.ns, v.name) : v \in ss}, k)
        BY <1>3, <3>1, <3>2, <3>3, ServicesSound
      <4>3. QED
        BY <4>1, <4>2
    <3>5. Drawn' = Drawn \cup {serviceID(v.ns, v.name) : v \in ss}
      BY <1>1, <1>8 DEF Drawn
    <3> HIDE DEF Hit
    <3>6. QED
      BY <1>8, <3>4, <3>5
  <2>4. work' \in Seq(Range(work')) /\ \A x \in Range(work') : Pending(P, x)
    <3> DEFINE l == w.left \ {ns}
               v == [w EXCEPT !.left = l]
    <3>1. v = [pod |-> w.pod, role |-> w.role, left |-> l]
      <4> HIDE DEF l
      <4>1. QED
        BY <1>5 DEF Pending
    <3>2. Pending(P, v)
      <4> HIDE DEF v
      <4>1. QED
        BY <1>5, <3>1 DEF Pending
    <3>3. work' = [work EXCEPT ![1] = v]
      BY <1>4, <1>8
    <3> HIDE DEF v, w
    <3>4. /\ DOMAIN work' = 1..Len(work) /\ 1 \in 1..Len(work) /\ work'[1] = v
          /\ \A i \in 1..Len(work) : i # 1 => work'[i] = work[i]
      BY <1>4, <3>3
    <3>5. \A x \in Range(work') : Pending(P, x)
      <4> TAKE x \in Range(work')
      <4>1. PICK i \in 1..Len(work) : x = work'[i]
        BY <3>4 DEF Range
      <4>2. work[i] \in Range(work)
        BY <1>4 DEF Range
      <4>3. QED
        BY <1>3, <3>2, <3>4, <4>1, <4>2
    <3>6. work' \in [1..Len(work) -> Range(work')]
      BY <3>3, <3>4 DEF Range
    <3>7. work' \in Seq(Range(work'))
      BY <1>4, <3>6, SeqDef
    <3>8. QED
      BY <3>5, <3>7
  <2>5. GraphInv'
    BY <1>1, <2>3, <2>4 DEF GraphInv
  <2>6. QED
    BY <1>1, <1>2, <1>8, <2>2, <2>5, DrawStep
<1> HIDE DEF Hit
<1>9. QED
  BY <1>6, <1>7, <1>8

\* The networks of a source.
LEMMA FinishPodStep ==
  ASSUME PathInv, FinishPod
  PROVE  PathInv'
<1> DEFINE w == Head(work)
           p == w.pod
           P == Range(src.pods) \cup Range(dst.pods)
<1>1. /\ pc = "services" /\ work # <<>> /\ work' = Tail(work) /\ pc' = pc
      /\ UNCHANGED <<res, requestVars, src, dst, hits, lbs, index, search, reply>>
  BY DEF FinishPod, At
<1>2. req.kind = "path" /\ Building
  BY <1>1, RequestsAssumption DEF PathInv, RequestInv, Building
<1>3. Sound(Drawn, g) /\ work \in Seq(Range(work)) /\ \A x \in Range(work) : Pending(P, x)
  BY <1>2 DEF PathInv, GraphInv
<1>4. /\ w \in Range(work) /\ Tail(work) \in Seq(Range(Tail(work)))
      /\ Range(Tail(work)) \subseteq Range(work)
  BY <1>1, <1>3, TailIs
<1>5. p \in P /\ podNodeID(p) \in Drawn /\ NsOf[p] \in SeenSpaces
  <2>1. p \in P
    BY <1>3, <1>4 DEF Pending
  <2>2. NsOf[p] \in Accessible
    BY <2>1 DEF PathInv, FoundInv, Resolved
  <2>3. QED
    BY <2>1, <2>2, PodsAreDrawn DEF SeenSpaces
<1>6. g' = g \/ \E ns \in SUBSET Nads : g' = FoldLeft(LAMBDA h, n : AttachNad(h, n, p), g, SetToSeq(ns))
  <2>1. NadsOf(p) \in SUBSET Nads /\ {} \in SUBSET Nads
    BY DEF NadsOf
  <2>2. CASE w.role = "source"
    <3>1. Optional(NadsOf(p), LAMBDA ns : g' = FoldLeft(LAMBDA h, n : AttachNad(h, n, p), g, SetToSeq(ns)))
      BY <2>2 DEF FinishPod
    <3>2. QED
      BY <2>1, <3>1 DEF Optional
  <2>3. CASE w.role # "source"
    BY <2>3 DEF FinishPod
  <2>4. QED
    BY <2>2, <2>3
<1>7. Sound(Drawn, g')
  <2>1. CASE g' = g
    BY <1>3, <2>1
  <2>2. ASSUME NEW ns \in SUBSET Nads, g' = FoldLeft(LAMBDA h, n : AttachNad(h, n, p), g, SetToSeq(ns))
        PROVE  Sound(Drawn, g')
    <3> DEFINE t == Loop("nad", p, 0)
    <3>1. g' = Fold(t, g, SetToSeq(ns))
      BY <2>2, NadsFold
    <3>2. \A x, v : Turn(t, x, v) = AttachNad(x, v, p)
      BY DEF Turn, Loop
    <3> HIDE DEF t
    <3>3. \A v \in ns : \A x : Sound(Drawn, x) => Sound(Drawn, Turn(t, x, v))
      <4> HIDE DEF p
      <4>1. QED
        BY <1>5, <3>2, AttachNadSound
    <3>4. IsFiniteSet(ns)
      BY FS_Subset, ClusterAssumption
    <3>5. Sound(Drawn, Fold(t, g, SetToSeq(ns)))
      BY <1>3, <3>3, <3>4, LoopSound
    <3>6. QED
      BY <3>1, <3>5
  <2>3. QED
    BY <1>6, <2>1, <2>2
<1>8. FoundInv'
  BY <1>1 DEF PathInv, FoundInv
<1>9. Drawn' = Drawn
  BY <1>1 DEF Drawn
<1>10. GraphInv'
  BY <1>1, <1>3, <1>4, <1>7, <1>9 DEF GraphInv
<1>11. QED
  BY <1>1, <1>2, <1>8, <1>10, DrawStep

\* The routes to the services.
LEMMA FindRoutesStep ==
  ASSUME PathInv, FindRoutes
  PROVE  PathInv'
<1>1. /\ pc = "services" /\ pc' = "metallb"
      /\ UNCHANGED <<res, requestVars, src, dst, buildVars, search, reply>>
  BY DEF FindRoutes, At, Goto
<1>2. req.kind = "path" /\ Building
  BY <1>1, RequestsAssumption DEF PathInv, RequestInv, Building
<1> DEFINE found == {r \in Routes : /\ tc.dynamic /\ src.pods # <<>> /\ r.ns = NsOf[src.pods[1]]
                                    /\ \E s \in hits : s.name = r.to}
<1>3. \E rs : rs \subseteq found /\ g' = FoldLeft(RouteHit, g, SetToSeq(rs))
  <2>1. Optional(found, LAMBDA rs : g' = FoldLeft(RouteHit, g, SetToSeq(rs)))
    BY DEF FindRoutes
  <2> HIDE DEF found
  <2>2. QED
    BY <2>1 DEF Optional
<1>4. PICK rs : rs \subseteq found /\ g' = FoldLeft(RouteHit, g, SetToSeq(rs))
  BY <1>3
<1>5. \A r \in rs : r \in Routes /\ r.ns \in SeenSpaces
  <2> TAKE r \in rs
  <2>1. r \in Routes /\ src.pods # <<>> /\ r.ns = NsOf[src.pods[1]]
    BY <1>4
  <2>2. src.pods \in Seq(Pods) /\ \A p \in Range(src.pods) : NsOf[p] \in Accessible
    BY DEF PathInv, FoundInv, Resolved
  <2>3. src.pods[1] \in Range(src.pods)
    BY <2>1, <2>2, LenProperties, EmptySeq DEF Range
  <2>4. QED
    BY <2>1, <2>2, <2>3 DEF SeenSpaces
<1>6. IsFiniteSet(rs)
  <2>1. rs \subseteq Routes
    BY <1>5
  <2>2. QED
    BY <2>1, FS_Subset, ClusterAssumption
<1> HIDE DEF found
<1> DEFINE t == Loop("route", 0, 0)
<1>7. g' = Fold(t, g, SetToSeq(rs))
  BY <1>4, RoutesFold
<1>8. \A x, v : Turn(t, x, v) = RouteHit(x, v)
  BY DEF Turn, Loop
<1> HIDE DEF t
<1>9. Sound(Drawn, g')
  <2>1. \A v \in rs : \A x : Sound(Drawn, x) => Sound(Drawn, Turn(t, x, v))
    BY <1>5, <1>8, RouteHitSound
  <2>2. Sound(Drawn, g)
    BY <1>2 DEF PathInv, GraphInv
  <2>3. QED
    BY <1>6, <1>7, <2>1, <2>2, LoopSound
<1>10. FoundInv'
  BY <1>1 DEF PathInv, FoundInv, buildVars
<1>11. Drawn' = Drawn
  BY <1>1 DEF Drawn, buildVars
<1>12. GraphInv'
  BY <1>1, <1>2, <1>9, <1>11 DEF PathInv, GraphInv, buildVars
<1>13. QED
  BY <1>1, <1>2, <1>10, <1>12, DrawStep

\* MetalLB's objects, as far as they could be read.
LEMMA LoadMetalLBIndexStep ==
  ASSUME PathInv, LoadMetalLBIndex
  PROVE  PathInv'
<1>1. /\ pc = "metallb" /\ pc' = "wire" /\ lbs' \subseteq hits
      /\ UNCHANGED <<res, requestVars, src, dst, work, hits, g, search, reply>>
  BY DEF LoadMetalLBIndex, At, Goto
<1>2. req.kind = "path" /\ Building
  BY <1>1, RequestsAssumption DEF PathInv, RequestInv, Building
<1>3. index'.ads \subseteq Ads /\ index'.peers \subseteq Peers
  <2> DEFINE whole == [pools |-> UNION {s.pools : s \in Services}, ads |-> Ads, peers |-> Peers]
  <2>1. index' \in {NoIndex, whole, [whole EXCEPT !.pools = {}], [whole EXCEPT !.ads = {}],
                    [whole EXCEPT !.peers = {}]}
    BY DEF LoadMetalLBIndex
  <2>2. CASE index' = NoIndex
    BY <2>2 DEF NoIndex
  <2>3. CASE index' = whole
    BY <2>3
  <2>4. CASE index' = [whole EXCEPT !.pools = {}]
    BY <2>4
  <2>5. CASE index' = [whole EXCEPT !.ads = {}]
    BY <2>5
  <2>6. CASE index' = [whole EXCEPT !.peers = {}]
    BY <2>6
  <2> HIDE DEF whole
  <2>7. QED
    BY <2>1, <2>2, <2>3, <2>4, <2>5, <2>6
<1>4. FoundInv'
  BY <1>1, <1>3 DEF PathInv, FoundInv
<1>5. Drawn' = Drawn
  BY <1>1 DEF Drawn
<1>6. GraphInv'
  BY <1>1, <1>2, <1>5 DEF PathInv, GraphInv
<1>7. QED
  BY <1>1, <1>2, <1>4, <1>6, DrawStep

\* One load balancer.
LEMMA WireLoadBalancerStep ==
  ASSUME PathInv, WireLoadBalancer
  PROVE  PathInv'
<1>1. PICK s \in lbs :
        /\ lbs' = lbs \ {s}
        /\ IF resolvePoolForVIP(s) = {} THEN g' = wireMetalLBVIPOnly(g, s)
           ELSE \E pool \in resolvePoolForVIP(s) : g' = WirePool(g, s, pool, index)
  BY DEF WireLoadBalancer
<1>2. /\ pc = "wire" /\ pc' = pc
      /\ UNCHANGED <<res, requestVars, src, dst, work, hits, index, search, reply>>
  BY DEF WireLoadBalancer, At, selectionVars
<1>3. req.kind = "path" /\ Building
  BY <1>2, RequestsAssumption DEF PathInv, RequestInv, Building
<1>4. s \in hits /\ s.ns \in SeenSpaces /\ index.ads \subseteq Ads /\ index.peers \subseteq Peers
  BY DEF PathInv, FoundInv, SeenSpaces
<1>5. serviceID(s.ns, s.name) \in Drawn
  BY <1>4 DEF Drawn
<1>6. Sound(Drawn, g)
  BY <1>3 DEF PathInv, GraphInv
<1>7. Sound(Drawn, g')
  <2>1. g' = wireMetalLBVIPOnly(g, s) \/ \E pool : g' = WirePool(g, s, pool, index)
    BY <1>1
  <2>2. QED
    BY <1>4, <1>5, <1>6, <2>1, VIPOnlySound, WirePoolSound
<1>8. FoundInv'
  BY <1>1, <1>2 DEF PathInv, FoundInv
<1>9. Drawn' = Drawn
  BY <1>2 DEF Drawn
<1>10. GraphInv'
  BY <1>2, <1>3, <1>7, <1>9 DEF PathInv, GraphInv
<1>11. QED
  BY <1>2, <1>3, <1>8, <1>10, DrawStep

\* The egress addresses and services, and the chain of the host.
LEMMA EgressSound ==
  ASSUME NEW H, NEW h, Sound(H, h), NEW p, NsOf[p] \in SeenSpaces, podNodeID(p) \in H,
         Scheduled(p) => hostID(NodeOf[p]) \in H, NEW dest \in H, dest[1] # "route",
         NEW X \in SUBSET EgressIPs, \A i \in X : i.ns \in SeenSpaces,
         NEW Y \in SUBSET EgressServices, \A i \in Y : i.ns \in SeenSpaces
  PROVE  Sound(H, HostChain(Fold(Loop("egressservice", p, 0),
                                 Fold(Loop("egressip", p, dest), h, SetToSeq(X)), SetToSeq(Y)), p, dest))
<1> DEFINE tx == Loop("egressip", p, dest)
           ty == Loop("egressservice", p, 0)
           x == Fold(tx, h, SetToSeq(X))
           y == Fold(ty, x, SetToSeq(Y))
<1>1. \A v, i : Turn(tx, v, i) = EgressIPHit(v, i, p, dest) /\ Turn(ty, v, i) = EgressServiceHit(v, i, p)
  BY DEF Turn, Loop
<1>2. IsFiniteSet(X) /\ IsFiniteSet(Y)
  BY FS_Subset, ClusterAssumption
<1> HIDE DEF tx, ty
<1>3. Sound(H, x)
  <2>1. \A i \in X : \A v : Sound(H, v) => Sound(H, Turn(tx, v, i))
    BY <1>1, EgressIPSound
  <2>2. QED
    BY <1>2, <2>1, LoopSound
<1> HIDE DEF x
<1>4. Sound(H, y)
  <2>1. \A i \in Y : \A v : Sound(H, v) => Sound(H, Turn(ty, v, i))
    BY <1>1, EgressServiceSound
  <2>2. QED
    BY <1>2, <1>3, <2>1, LoopSound
<1> HIDE DEF y
<1>5. Sound(H, HostChain(y, p, dest))
  BY <1>4, HostChainSound
<1>6. QED
  BY <1>5 DEF y, x, tx, ty

\* The first pod of an endpoint.
LEMMA FirstPod ==
  ASSUME NEW ep, Resolved(ep), ep.pods # <<>>
  PROVE  ep.pods[1] \in Range(ep.pods) /\ ep.pods[1] \in Pods /\ NsOf[ep.pods[1]] \in Accessible
<1>1. ep.pods \in Seq(Pods)
  BY DEF Resolved
<1>2. 1 \in DOMAIN ep.pods
  BY <1>1, LenProperties, EmptySeq
<1>3. QED
  BY <1>1, <1>2, LenProperties DEF Resolved, Range

\* No endpoint is a route.
LEMMA EndpointIDs ==
  ASSUME Resolved(src), Resolved(dst)
  PROVE  \A id \in sourceIDs(src) \cup destIDs(dst) : EndpointID(id) /\ id[1] # "route"
<1>1. \A n \in dst.ip : EndpointID(n.id) /\ n.id[1] # "route"
  BY DEF Resolved, IpFits
<1>2. \A p : EndpointID(podNodeID(p)) /\ podNodeID(p)[1] # "route"
  BY DEF podNodeID, EndpointID
<1>3. QED
  BY <1>1, <1>2 DEF sourceIDs, destIDs, Ids

\* The egress of a source.
LEMMA FindEgressStep ==
  ASSUME PathInv, FindEgress
  PROVE  PathInv'
<1> DEFINE p == src.pods[1]
           Drew(dest, X, Y) ==
             HostChain(Fold(Loop("egressservice", p, 0),
                            Fold(Loop("egressip", p, dest), g, SetToSeq(X)), SetToSeq(Y)), p, dest)
<1>1. /\ pc = "wire" /\ pc' = "focus" /\ UNCHANGED <<res, requestVars, src, dst, buildVars, search, reply>>
  BY DEF FindEgress, At, Goto
<1>2. req.kind = "path" /\ Building
  BY <1>1, RequestsAssumption DEF PathInv, RequestInv, Building
<1>3. Resolved(src) /\ Resolved(dst) /\ Sound(Drawn, g)
  BY <1>2 DEF PathInv, FoundInv, GraphInv
<1>4. Scope \subseteq Accessible
  BY <1>1, <1>2, ScopeIsAccessible
<1>5. \/ g' = g
      \/ /\ src.pods # <<>>
         /\ \E dest \in destIDs(dst) : \E X \in SUBSET {i \in EgressIPs : InScope(i, Scope)} :
              \E Y \in SUBSET {i \in EgressServices : i.ns \in Scope} : g' = Drew(dest, X, Y)
  <2> DEFINE egress(dest, items) ==
               LET ips == FoldLeft(LAMBDA h, i : EgressIPHit(h, i, p, dest), g,
                                   SetToSeq({i \in items \cap EgressIPs : InScope(i, Scope)}))
                   all == FoldLeft(LAMBDA h, i : EgressServiceHit(h, i, p), ips,
                                   SetToSeq({i \in items \cap EgressServices : i.ns \in Scope}))
               IN g' = HostChain(all, p, dest)
  <2>1. ASSUME NEW dest, NEW items, egress(dest, items)
        PROVE  \E X \in SUBSET {i \in EgressIPs : InScope(i, Scope)} :
                 \E Y \in SUBSET {i \in EgressServices : i.ns \in Scope} : g' = Drew(dest, X, Y)
    <3> DEFINE X == {i \in items \cap EgressIPs : InScope(i, Scope)}
               Y == {i \in items \cap EgressServices : i.ns \in Scope}
    <3>1. g' = Drew(dest, X, Y)
      BY <2>1, EgressIPsFold, EgressServicesFold
    <3> HIDE DEF Drew
    <3>2. QED
      BY <3>1
  <2>2. CASE ~tc.dynamic \/ src.pods = <<>>
    BY <2>2 DEF FindEgress
  <2>3. CASE ~(~tc.dynamic \/ src.pods = <<>>)
    <3>1. PICK dest \in destIDs(dst) :
            \/ egress(dest, EgressIPs \cup EgressServices) \/ egress(dest, EgressServices)
            \/ egress(dest, EgressIPs)
      BY <2>3 DEF FindEgress
    <3> HIDE DEF egress, Drew
    <3>2. QED
      BY <2>1, <2>3, <3>1
  <2>4. QED
    BY <2>2, <2>3
<1>6. ASSUME src.pods # <<>>, NEW dest \in destIDs(dst),
             NEW X \in SUBSET {i \in EgressIPs : InScope(i, Scope)},
             NEW Y \in SUBSET {i \in EgressServices : i.ns \in Scope}
      PROVE  Sound(Drawn, Drew(dest, X, Y))
  <2>1. p \in Range(src.pods) /\ NsOf[p] \in SeenSpaces
    BY <1>3, <1>6, FirstPod DEF SeenSpaces
  <2>2. podNodeID(p) \in Drawn
    BY <2>1, PodsAreDrawn
  <2>3. Scheduled(p) => hostID(NodeOf[p]) \in Drawn
    <3>1. HostOf(p) \subseteq Drawn
      <4> HIDE DEF p
      <4>1. QED
        BY <2>1 DEF Drawn, HostIDs
    <3>2. QED
      BY <3>1 DEF HostOf
  <2>4. dest \in Drawn /\ dest[1] # "route"
    BY <1>3, EndpointIDs DEF Drawn
  <2>5. X \in SUBSET EgressIPs /\ Y \in SUBSET EgressServices
    OBVIOUS
  <2>6. \A i \in X : i.ns \in SeenSpaces
    BY <1>4 DEF InScope, SeenSpaces
  <2>7. \A i \in Y : i.ns \in SeenSpaces
    BY <1>4 DEF SeenSpaces
  <2> HIDE DEF p
  <2>8. QED
    BY <1>3, <2>1, <2>2, <2>3, <2>4, <2>5, <2>6, <2>7, EgressSound
<1> HIDE DEF Drew
<1>7. Sound(Drawn, g')
  BY <1>3, <1>5, <1>6
<1>8. FoundInv'
  BY <1>1 DEF PathInv, FoundInv, buildVars
<1>9. Drawn' = Drawn
  BY <1>1 DEF Drawn, buildVars
<1>10. GraphInv'
  BY <1>1, <1>2, <1>7, <1>9 DEF PathInv, GraphInv, buildVars
<1>11. QED
  BY <1>1, <1>2, <1>8, <1>10, DrawStep

\* The sources and destinations are nodes of the graph.
LEMMA EndpointsDrawn ==
  ASSUME PathInv, Building
  PROVE  /\ Sound(Drawn, g)
         /\ sourceIDs(src) \in SUBSET Drawn /\ destIDs(dst) \in SUBSET Drawn
         /\ \A id \in sourceIDs(src) \cup destIDs(dst) : EndpointID(id) /\ id[1] # "route"
         /\ g.edges \in Seq(Range(g.edges))
<1>1. Sound(Drawn, g) /\ Resolved(src) /\ Resolved(dst)
  BY DEF PathInv, GraphInv, FoundInv
<1>2. sourceIDs(src) \in SUBSET Drawn /\ destIDs(dst) \in SUBSET Drawn
  BY DEF Drawn
<1>3. QED
  BY <1>1, <1>2, EndpointIDs DEF Sound, EdgesSound

\* A step of the search or after it that leaves the graph sound.
LEMMA SearchesOn ==
  ASSUME PathInv, req.kind = "path", pc \in {"focus", "search", "reply"},
         pc' \in {"search", "reply", "panicked"},
         Sound(Drawn, g'), SearchInv', Shown',
         UNCHANGED <<res, requestVars, src, dst, buildVars, reply>>
  PROVE  PathInv'
<1> USE DEF requestVars, buildVars
<1>1. RequestInv'
  BY DEF PathInv, RequestInv, Shape, PathSteps
<1>2. FoundInv'
  BY DEF PathInv, FoundInv
<1>3. Drawn' = Drawn
  BY DEF Drawn
<1>4. GraphInv'
  BY <1>3 DEF PathInv, GraphInv, Building
<1>5. QED
  BY <1>1, <1>2, <1>4 DEF PathInv, Replied

\* StartSearch: each source is a path of its own.
LEMMA StartSearchStep ==
  ASSUME PathInv, StartSearch
  PROVE  PathInv'
<1>1. /\ pc = "focus" /\ pc' \in {"search", "reply"}
      /\ UNCHANGED <<res, requestVars, src, dst, buildVars, g, reply>>
  BY DEF StartSearch, At, Goto, selectionVars
<1>2. req.kind = "path" /\ Building
  BY <1>1, RequestsAssumption DEF PathInv, RequestInv, Building
<1> DEFINE A == sourceIDs(src)
           B == destIDs(dst)
<1>3. Sound(Drawn, g) /\ A \in SUBSET Drawn
  BY <1>2, EndpointsDrawn
<1>4. A' = A /\ B' = B
  BY <1>1
<1>5. CASE A = {}
  <2>1. pc' = "reply"
    BY <1>5 DEF StartSearch, Goto
  <2>2. SearchInv' /\ Shown'
    BY <1>4, <1>5, <2>1 DEF SearchInv, Shown
  <2>3. QED
    BY <1>1, <1>2, <1>3, <2>2, SearchesOn
<1>6. CASE A # {}
  <2>1. PICK o \in Orders(A) :
          search' = [queue |-> [i \in DOMAIN o |-> <<o[i]>>], visited |-> Range(o), best |-> <<>>]
    BY <1>6 DEF StartSearch
  <2>2. pc' = "search"
    BY <1>6 DEF StartSearch, Goto
  <2>3. Cardinality(A) \in Nat
    <3>1. A \subseteq DOMAIN g.nodes /\ IsFiniteSet(DOMAIN g.nodes)
      BY <1>3 DEF Sound
    <3> HIDE DEF A
    <3>2. IsFiniteSet(A)
      BY <3>1, FS_Subset
    <3>3. QED
      BY <3>2, FS_CardinalityType
  <2>4. o \in [1..Cardinality(A) -> A] /\ Range(o) = A
    BY <2>1 DEF Orders
  <2>5. Searching(g, A, B, BallOf(g, A), search')
    <3> HIDE DEF A, B
    <3>1. QED
      BY <2>1, <2>3, <2>4, BallsAre, SearchBegins
  <2>6. search'.best = <<>>
    BY <2>1
  <2>7. SearchInv'
    BY <1>1, <1>4, <2>5, <2>6 DEF SearchInv
  <2>8. Shown'
    BY <2>2 DEF Shown
  <2>9. QED
    BY <1>1, <1>2, <1>3, <2>7, <2>8, SearchesOn
<1>7. QED
  BY <1>5, <1>6

\* SearchStep: the head of the queue is found or lengthened.
LEMMA SearchStepStep ==
  ASSUME PathInv, SearchStep
  PROVE  PathInv'
<1>1. /\ pc = "search" /\ pc' = pc /\ search.queue # <<>> /\ search.best = <<>>
      /\ UNCHANGED <<res, requestVars, src, dst, buildVars, g, reply>>
  BY DEF SearchStep, At, selectionVars
<1>2. req.kind = "path" /\ Building
  BY <1>1, RequestsAssumption DEF PathInv, RequestInv, Building
<1> DEFINE A == sourceIDs(src)
           B == destIDs(dst)
           b == BallOf(g, A)
           path == Head(search.queue)
<1>3. Sound(Drawn, g) /\ g.edges \in Seq(Range(g.edges))
  BY <1>2, EndpointsDrawn
<1>4. A' = A /\ B' = B
  BY <1>1
<1>5. Searching(g, A, B, b, search)
  BY <1>1, <1>2 DEF PathInv, SearchInv
<1> HIDE DEF A, B, b
<1>6. SearchShape(search) /\ path = search.queue[1]
  BY <1>1, <1>5, TailIs DEF Searching, SearchShape
<1>7. /\ Searching(g, A, B, b, search')
      /\ \/ search'.best = <<>>
         \/ search'.queue # <<>> /\ search'.best = search'.queue[1] /\ Last(search'.best) \in B
  <2> HIDE DEF path
  <2>1. CASE Last(path) \in B
    <3>1. search' = [search EXCEPT !.best = path]
      BY <2>1 DEF SearchStep, path, B
    <3>2. search' = [queue |-> search.queue, visited |-> search.visited, best |-> path]
      BY <1>6, <3>1 DEF SearchShape
    <3>3. search'.queue = search.queue /\ search'.visited = search.visited /\ search'.best = path
      BY <3>2
    <3>4. SearchShape(search')
      BY <1>6, <3>2, <3>3 DEF SearchShape
    <3>5. Searching(g, A, B, b, search')
      BY <1>5, <3>3, <3>4 DEF Searching
    <3>6. QED
      BY <1>1, <1>6, <2>1, <3>3, <3>5
  <2>2. CASE Last(path) \notin B
    <3> DEFINE acc == Fold(Loop("visit", path, 0), [search EXCEPT !.queue = Tail(@)], g.edges)
    <3>1. search' = Visit(search, path)
      BY <2>2 DEF SearchStep, path, B
    <3>2. search' = acc
      BY <3>1, VisitFold DEF Visit
    <3>3. Visited(g, path, search, acc, Len(g.edges))
      BY <1>1, <1>3, <1>6, VisitIs
    <3> HIDE DEF acc
    <3>4. Searching(g, A, B, b, acc)
      BY <1>1, <1>3, <1>5, <1>6, <2>2, <3>3, BallsAre, SearchGoesOn DEF b
    <3>5. acc.best = <<>>
      BY <1>1, <3>3 DEF Visited
    <3>6. Searching(g, A, B, b, search')
      BY <3>2, <3>4
    <3>7. search'.best = <<>>
      BY <3>2, <3>5
    <3>8. QED
      BY <3>6, <3>7
  <2>3. QED
    BY <2>1, <2>2
<1>8. SearchInv'
  BY <1>1, <1>4, <1>7 DEF SearchInv, A, B, b
<1>9. Shown'
  BY <1>1 DEF Shown
<1>10. QED
  BY <1>1, <1>2, <1>3, <1>8, <1>9, SearchesOn

\* The endpoints are marked.
LEMMA EndpointsMarked ==
  ASSUME PathInv, Building, sourceIDs(src) # {},
         LET b == BallOf(g, sourceIDs(src))
         IN  b[0] \cap destIDs(dst) # {} \/ \A j \in Nat : b[j] \cap destIDs(dst) = {},
         NEW k, k = MarkEndpoints(g, sourceIDs(src), destIDs(dst))
  PROVE  Sound(Drawn, k) /\ Shortest(k, sourceIDs(src), destIDs(dst), BallOf(k, sourceIDs(src)))
<1> DEFINE A == sourceIDs(src)
           B == destIDs(dst)
           P == {e \in Range(g.edges) : e.from \in A /\ e.to \in B}
<1>1. Sound(Drawn, g) /\ A \in SUBSET Drawn /\ B \in SUBSET Drawn
  BY EndpointsDrawn
<1>2. k = Marked(g, A \cup B, P)
  BY MarkEndpointsIs
<1>3. Sound(Drawn, k)
  <2>1. \A e \in Range(g.edges) : e \in P => e.to \in DOMAIN g.nodes
    BY <1>1 DEF Sound
  <2> HIDE DEF P, A, B
  <2>2. QED
    BY <1>1, <1>2, <2>1, MarkedSound
<1>4. BallOf(k, A) = BallOf(g, A)
  <2> HIDE DEF P, A, B
  <2>1. \A x, y : Step(g, x, y) <=> Step(k, x, y)
    BY <1>1, <1>2, MarkedSteps
  <2>2. QED
    BY <2>1, SameBalls
<1>5. Shortest(k, A, B, BallOf(g, A))
  <2> DEFINE b == BallOf(g, A)
  <2>1. b[0] \cap B # {} \/ \A j \in Nat : b[j] \cap B = {}
    OBVIOUS
  <2>2. k = MarkEndpoints(g, A, B)
    OBVIOUS
  <2> HIDE DEF b, A, B
  <2>3. Shortest(k, A, B, b)
    BY <1>1, <2>1, <2>2, EndpointsInFocus
  <2>4. QED
    BY <2>3 DEF b
<1>6. QED
  BY <1>3, <1>4, <1>5

\* A walk that was found is marked.
LEMMA WalkMarked ==
  ASSUME PathInv, Building, NEW p, Walk(g, sourceIDs(src), p), Layered(BallOf(g, sourceIDs(src)), p),
         p[Len(p)] \in destIDs(dst), Len(p) >= 2,
         \A j \in Nat : j < Len(p) - 1 => BallOf(g, sourceIDs(src))[j] \cap destIDs(dst) = {},
         NEW k, k = MarkPath(g, p)
  PROVE  Sound(Drawn, k) /\ Shortest(k, sourceIDs(src), destIDs(dst), BallOf(k, sourceIDs(src)))
<1> DEFINE A == sourceIDs(src)
           B == destIDs(dst)
           P == {e \in Range(g.edges) : OnPath(p, e)}
           b == BallOf(g, A)
<1>1. /\ Sound(Drawn, g) /\ A \in SUBSET Drawn /\ B \in SUBSET Drawn
      /\ \A id \in A \cup B : id[1] # "route"
  BY EndpointsDrawn
<1>2. k = Marked(g, Range(p), P)
  BY MarkPathIs
<1>3. Walk(g, A, p) /\ Layered(b, p) /\ p[Len(p)] \in B /\ \A j \in Nat : j < Len(p) - 1 => b[j] \cap B = {}
  OBVIOUS
<1> HIDE DEF A, B, b
<1>4. Range(p) \subseteq DOMAIN g.nodes
  BY <1>1, <1>3, WalkIsInside
<1>5. p \in Seq(Range(p)) /\ Len(p) \in Nat /\ DOMAIN p = 1..Len(p)
  BY <1>3, LenProperties DEF Walk
<1>6. ASSUME NEW e \in P PROVE e.to \in Range(p)
  <2>1. PICK i \in 1..Len(p) - 1 : {e.from, e.to} = {p[i], p[i + 1]}
    BY DEF OnPath
  <2>2. i \in DOMAIN p /\ i + 1 \in DOMAIN p
    BY <1>5
  <2>3. QED
    BY <2>1, <2>2 DEF Range
<1>7. Sound(Drawn, k)
  <2>1. \A e \in Range(g.edges) : e \in P => e.to \in DOMAIN g.nodes
    BY <1>4, <1>6
  <2> HIDE DEF P
  <2>2. QED
    BY <1>1, <1>2, <2>1, MarkedSound
<1> HIDE DEF P
<1>8. BallOf(k, A) = b
  <2>1. \A x, y : Step(g, x, y) <=> Step(k, x, y)
    BY <1>1, <1>2, MarkedSteps
  <2>2. QED
    BY <2>1, SameBalls DEF b
<1>9. Shortest(k, A, B, b)
  BY <1>1, <1>3, PathInFocus
<1>10. QED
  BY <1>7, <1>8, <1>9 DEF A, B, b

\* MarkFocus: what the search found is a shortest route.
LEMMA MarkFocusStep ==
  ASSUME PathInv, MarkFocus
  PROVE  PathInv'
<1>1. /\ pc = "search" /\ pc' = "reply" /\ (search.best # <<>> \/ search.queue = <<>>)
      /\ g' = IF Len(search.best) < 2 THEN MarkEndpoints(g, sourceIDs(src), destIDs(dst))
              ELSE MarkPath(g, search.best)
      /\ UNCHANGED <<res, requestVars, src, dst, buildVars, reply>>
  BY DEF MarkFocus, At, Goto, selectionVars
<1>2. req.kind = "path" /\ Building
  BY <1>1, RequestsAssumption DEF PathInv, RequestInv, Building
<1> DEFINE A == sourceIDs(src)
           B == destIDs(dst)
           b == BallOf(g, A)
<1>3. A' = A /\ B' = B
  BY <1>1
<1>4. /\ Searching(g, A, B, b, search)
      /\ \/ search.best = <<>>
         \/ search.queue # <<>> /\ search.best = search.queue[1] /\ Last(search.best) \in B
  BY <1>1, <1>2 DEF PathInv, SearchInv
<1>5. Balls(g, A, b)
  BY BallsAre
<1>6. CASE A = {}
  <2>1. Sound(Drawn, g')
    <3>1. CASE Len(search.best) < 2
      <4> DEFINE P == {e \in Range(g.edges) : e.from \in A /\ e.to \in B}
      <4>1. g' = Marked(g, A \cup B, P)
        BY <1>1, <3>1, MarkEndpointsIs
      <4>2. P = {}
        BY <1>6
      <4>3. Sound(Drawn, g)
        BY <1>2, EndpointsDrawn
      <4> HIDE DEF P
      <4>4. QED
        BY <4>1, <4>2, <4>3, MarkedSound
    <3>2. CASE ~(Len(search.best) < 2)
      <4>1. search.best # <<>>
        BY <3>2
      <4>2. /\ search.best = search.queue[1] /\ search.queue \in Seq(Range(search.queue))
            /\ search.queue # <<>>
        BY <1>4, <4>1 DEF Searching, SearchShape
      <4>3. 1 \in 1..Len(search.queue)
        BY <4>2, TailIs
      <4>4. Walk(g, A, search.queue[1])
        BY <1>4, <4>3 DEF Searching
      <4>5. QED
        BY <1>6, <4>4 DEF Walk
    <3>3. QED
      BY <3>1, <3>2
  <2>2. SearchInv' /\ Shown'
    BY <1>1, <1>3, <1>6 DEF SearchInv, Shown
  <2>3. QED
    BY <1>1, <1>2, <2>1, <2>2, SearchesOn
<1>7. CASE A # {}
  <2>1. Sound(Drawn, g') /\ Shortest(g', A, B, BallOf(g', A))
    <3>1. CASE search.best = <<>>
      <4>1. search.queue = <<>> /\ Len(search.best) = 0
        BY <1>1, <3>1
      <4>2. \A j \in Nat : b[j] \cap B = {}
        <5> HIDE DEF A, B, b
        <5>1. QED
          BY <1>4, <1>5, <4>1, SearchInVain
      <4>3. g' = MarkEndpoints(g, A, B)
        BY <1>1, <4>1
      <4>4. QED
        BY <1>2, <1>7, <4>2, <4>3, EndpointsMarked
    <3>2. CASE search.best # <<>>
      <4> DEFINE p == search.queue[1]
      <4>1. /\ p = search.best /\ search.queue \in Seq(Range(search.queue)) /\ search.queue # <<>>
            /\ Last(p) \in B
        BY <1>4, <3>2 DEF Searching, SearchShape
      <4>2. 1 \in 1..Len(search.queue)
        BY <4>1, TailIs
      <4>3. Walk(g, A, p) /\ Layered(b, p)
        BY <1>4, <4>2 DEF Searching
      <4> DEFINE l == Len(p)
      <4>4. l \in Nat \ {0} /\ b[l - 1] \cap B # {} /\ \A j \in Nat : j < l - 1 => b[j] \cap B = {}
        <5> DEFINE s == search
        <5>1. l = Len(s.queue[1]) /\ Last(s.queue[1]) \in B /\ s.queue # <<>> /\ Searching(g, A, B, b, s)
          BY <1>4, <4>1
        <5> HIDE DEF A, B, b, l, p, s
        <5>2. Nearest(b, B, l)
          BY <1>5, <5>1, SearchFinds
        <5>3. QED
          BY <5>2 DEF Nearest
      <4> HIDE DEF l
      <4>5. CASE l < 2
        <5>1. l = 1
          BY <4>4, <4>5
        <5>2. b[0] \cap B # {}
          BY <4>4, <5>1
        <5>3. g' = MarkEndpoints(g, A, B)
          BY <1>1, <4>1, <4>5 DEF l
        <5>4. QED
          BY <1>2, <1>7, <5>2, <5>3, EndpointsMarked
      <4>6. CASE ~(l < 2)
        <5>1. g' = MarkPath(g, p) /\ p[l] \in B /\ l >= 2
          BY <1>1, <4>1, <4>4, <4>6 DEF Last, l
        <5>2. l = Len(p)
          BY DEF l
        <5> HIDE DEF p
        <5>3. QED
          BY <1>2, <4>3, <4>4, <5>1, <5>2, WalkMarked
      <4>7. QED
        BY <4>5, <4>6
    <3>3. QED
      BY <3>1, <3>2
  <2>2. SearchInv' /\ Shown'
    BY <1>1, <1>3, <2>1 DEF SearchInv, Shown
  <2>3. QED
    BY <1>1, <1>2, <2>1, <2>2, SearchesOn
<1>8. QED
  BY <1>6, <1>7

\* TakeTargetPod: a source of no pod ends in a panic.
LEMMA TakeTargetPodStep ==
  ASSUME PathInv, TakeTargetPod
  PROVE  PathInv'
<1>1. /\ pc = "reply" /\ pc' = "panicked"
      /\ UNCHANGED <<res, requestVars, src, dst, buildVars, g, reply>>
  BY DEF TakeTargetPod, At, Goto, selectionVars
<1>2. req.kind = "path" /\ Building
  BY <1>1, RequestsAssumption DEF PathInv, RequestInv, Building
<1>3. Sound(Drawn, g)
  BY <1>2, EndpointsDrawn
<1>4. SearchInv' /\ Shown'
  BY <1>1 DEF SearchInv, Shown
<1>5. QED
  BY <1>1, <1>2, <1>3, <1>4, SearchesOn

\* Whatever could not be read, the MetalLB paths are of the pods' namespaces.
LEMMA PathsAreOfThePods ==
  ASSUME NEW pods, \A p \in pods : NsOf[p] \in Accessible,
         NEW read \in {PlaneReads(pods).whole} \cup PlaneReads(pods).lowered, NEW s \in read.paths
  PROVE  s.ns \in Accessible
<1> DEFINE spaces == {NsOf[p] : p \in pods}
           all == [nads |-> AttachmentsOf(pods), paths |-> MetalLBPaths(spaces),
                   bindings |-> EgressBindings, reported |-> tc.dynamic]
           lowered == {[all EXCEPT !.nads = AttachmentsOf(pods \ {p})] : p \in pods}
                \cup {[all EXCEPT !.paths = MetalLBPaths(spaces \ {ns})] : ns \in spaces}
                \cup {[all EXCEPT !.bindings = {}], [all EXCEPT !.reported = FALSE]}
<1>1. PlaneReads(pods).whole = all /\ PlaneReads(pods).lowered = lowered
  BY DEF PlaneReads
<1>2. \E X \in SUBSET spaces : read.paths = MetalLBPaths(X)
  <2>1. all.paths = MetalLBPaths(spaces) /\ "paths" \in DOMAIN all
    OBVIOUS
  <2>2. CASE read = all
    BY <2>1, <2>2
  <2>3. CASE \E p \in pods : read = [all EXCEPT !.nads = AttachmentsOf(pods \ {p})]
    BY <2>1, <2>3
  <2>4. CASE \E ns \in spaces : read = [all EXCEPT !.paths = MetalLBPaths(spaces \ {ns})]
    <3>1. PICK ns \in spaces : read = [all EXCEPT !.paths = MetalLBPaths(spaces \ {ns})]
      BY <2>4
    <3>2. read.paths = MetalLBPaths(spaces \ {ns})
      BY <2>1, <3>1
    <3>3. QED
      BY <3>2
  <2>5. CASE read \in {[all EXCEPT !.bindings = {}], [all EXCEPT !.reported = FALSE]}
    BY <2>1, <2>5
  <2>6. QED
    BY <1>1, <2>2, <2>3, <2>4, <2>5
<1>3. PICK X \in SUBSET spaces : read.paths = MetalLBPaths(X)
  BY <1>2
<1>4. s.ns \in X
  BY <1>3 DEF MetalLBPaths
<1>5. QED
  BY <1>4

\* Reply: the planes are merged and, for a tenant, redacted.
LEMMA ReplyStep ==
  ASSUME PathInv, Reply
  PROVE  PathInv'
<1> DEFINE E == sourceIDs(src) \cup destIDs(dst)
<1>1. /\ pc = "reply" /\ pc' = "done"
      /\ UNCHANGED <<res, requestVars, src, dst, buildVars, g, search>>
  BY DEF Reply, At, Goto
<1>2. req.kind = "path" /\ Building
  BY <1>1, RequestsAssumption DEF PathInv, RequestInv, Building
<1>3. Sound(Drawn, g) /\ \A id \in E : EndpointID(id)
  BY <1>2, EndpointsDrawn
<1>4. Sound(E, g)
  <2>1. E \subseteq Drawn
    BY DEF Drawn
  <2> HIDE DEF E
  <2>2. QED
    BY <1>3, <2>1, FewerIds
<1>5. \E read, hosts, first :
        /\ \A s \in read.paths : s.ns \in Accessible
        /\ reply' = ApplyTraceSanitization(Built(g, read, hosts, first))
  <2> DEFINE hosts == collectNodeNames(src, dst)
             asked == SelectSeq(src.pods \o dst.pods, LAMBDA p : NodeOf[p] # "")
             first == IF asked = <<>> THEN {} ELSE {NodeOf[Head(asked)]}
             reads == PlaneReads(Range(src.pods) \cup Range(dst.pods))
             built(read) ==
               reply' = ApplyTraceSanitization(
                 mergeTopology(simplifyGraph(g), LogicalPlane(simplifyGraph(g), read),
                               InfrastructurePlane(hosts, first), PhysicalPlane(hosts, read.reported)))
  <2>1. \E read \in {reads.whole} \cup reads.lowered : built(read)
    <3>1. built(reads.whole) \/ \E read \in reads.lowered : built(read)
      BY DEF Reply
    <3> HIDE DEF reads, built
    <3>2. QED
      BY <3>1
  <2>2. ASSUME NEW read \in {reads.whole} \cup reads.lowered, NEW s \in read.paths PROVE s.ns \in Accessible
    <3>1. \A p \in Range(src.pods) \cup Range(dst.pods) : NsOf[p] \in Accessible
      BY DEF PathInv, FoundInv, Resolved
    <3>2. QED
      BY <3>1, PathsAreOfThePods
  <2> HIDE DEF hosts, first, asked, reads
  <2>3. QED
    BY <2>1, <2>2 DEF Built
<1>6. PICK read, hosts, first :
        /\ \A s \in read.paths : s.ns \in Accessible
        /\ reply' = ApplyTraceSanitization(Built(g, read, hosts, first))
  BY <1>5
<1> DEFINE out == Built(g, read, hosts, first)
<1>7. ASSUME tc.sanitize PROVE Replied'
  <2>1. reply' = SanitizeTopologyResult(out)
    BY <1>6, <1>7 DEF ApplyTraceSanitization
  <2>2. WholeView(E, reply') /\ TenantsView(reply')
    <3> HIDE DEF E
    <3>1. QED
      BY <1>3, <1>4, <1>6, <2>1, SanitizedIsWhole
  <2> HIDE DEF out
  <2>3. Replied'
    BY <1>1, <1>7, <2>2 DEF Replied, requestVars
  <2>4. QED
    BY <2>3
<1>8. ASSUME ~tc.sanitize PROVE Replied'
  <2>1. reply' = out
    BY <1>6, <1>8 DEF ApplyTraceSanitization
  <2>2. WholeView(E, reply') /\ FocusOf(g) \subseteq DOMAIN reply'.graph.nodes
    <3>1. /\ WholeView(E, out)
          /\ \A id \in DOMAIN g.nodes : g.nodes[id].focused => id \in DOMAIN out.graph.nodes
      <4> HIDE DEF E
      <4>1. QED
        BY <1>3, <1>4, <1>6, BuiltIsWhole
    <3> HIDE DEF out, E
    <3>2. QED
      BY <2>1, <3>1 DEF FocusOf
  <2> HIDE DEF out
  <2>3. Replied'
    BY <1>1, <1>8, <2>2 DEF Replied, requestVars
  <2>4. QED
    BY <2>3
<1>9. Replied'
  BY <1>7, <1>8
<1> USE DEF requestVars, buildVars
<1>10. RequestInv'
  BY <1>1, <1>2 DEF PathInv, RequestInv, Shape, PathSteps
<1>11. FoundInv'
  BY <1>1 DEF PathInv, FoundInv
<1>12. Drawn' = Drawn
  BY <1>1 DEF Drawn
<1>13. GraphInv'
  BY <1>1, <1>2, <1>12 DEF PathInv, GraphInv
<1>14. SearchInv' /\ Shown'
  BY <1>1 DEF SearchInv, Shown
<1>15. QED
  BY <1>9, <1>10, <1>11, <1>13, <1>14 DEF PathInv

\* Every step of every request keeps the invariant, however the cluster changes
\* under it and whichever calls fail: a request is where its kind allows, what was
\* found is in namespaces that the caller may list, the graph has no dangling edge
\* and holds what was drawn, the queue of the search holds walks of two successive
\* layers at most, and a reply is whole and, for a tenant, redacted.
THEOREM PathInvHolds == Spec => []PathInv
<1>1. Init => PathInv
  BY PathInit
<1>2. PathInv /\ [Next]_vars => PathInv'
  <2> SUFFICES ASSUME PathInv, [Next]_vars PROVE PathInv'
    OBVIOUS
  <2>1. CASE UNCHANGED vars
    BY <2>1, IdleStep DEF vars, selectionVars
  <2>2. CASE Ended
    BY <2>2, IdleStep DEF Ended, vars, selectionVars
  <2>3. CASE Next
    BY <2>2, <2>3, StartCaptureStep, CaptureSelectedStep, VerifyAccessStep,
          ResolveIPEndpointStep,
       ResolveNamespaceEndpointStep, EndpointSelectedStep, SeedStep, ListServicesStep, FinishPodStep,
       FindRoutesStep, LoadMetalLBIndexStep, WireLoadBalancerStep, FindEgressStep, StartSearchStep,
       SearchStepStep, MarkFocusStep, TakeTargetPodStep, ReplyStep, SelectStep, ChurnStep DEF Next
  <2>4. QED
    BY <2>1, <2>3
<1>3. QED
  BY <1>1, <1>2, PTL DEF Spec

\* What the property calls a ball is what can be reached.
LEMMA BallIs == Ball = BallOf(g, sourceIDs(src))
BY DEF Ball, BallOf, IsBall, Near, NearTo, Touching, Touch

\* FocusIsShortestPath (trace/path_focus.go:4): the focus is one shortest route from a
\* source to a destination, or the endpoints when there is none, for every cluster
\* and whatever order its objects come in.
THEOREM FocusIsShortest == Spec => []FocusIsShortestPath
<1>1. PathInv => FocusIsShortestPath
  <2> SUFFICES ASSUME PathInv, pc = "reply", sourceIDs(src) # {}
               PROVE  Shortest(g, sourceIDs(src), destIDs(dst), BallOf(g, sourceIDs(src))) => FocusIsShortestPath
    BY RequestsAssumption DEF FocusIsShortestPath, At, PathInv, RequestInv, Shown
  <2> DEFINE A == sourceIDs(src)
             B == destIDs(dst)
  <2>1. FocusOf(g) = Focused
    BY DEF FocusOf, Focused
  <2>2. \A k : Layer(k) = LayerOf(Ball, k)
    BY DEF Layer, LayerOf
  <2>3. \A x, y : Joined(x, y) <=> JoinedIn(g, x, y)
    BY DEF Joined, JoinedIn
  <2> HIDE DEF A, B
  <2>4. QED
    BY <2>1, <2>2, <2>3, BallIs DEF Shortest, FocusIsShortestPath
<1>2. QED
  BY <1>1, PathInvHolds, PTL

\* ReplyIsWhole (trace/graph_simplify.go:14): whichever calls failed on the way, the
\* reply holds the endpoints and, unless it is redacted, the focus; its edges join
\* nodes it holds, and it has nothing of a namespace that the caller may not list.
THEOREM RepliesAreWhole == Spec => []ReplyIsWhole
<1>1. PathInv => ReplyIsWhole
  <2> SUFFICES ASSUME PathInv, At("done"), req.kind = "path" PROVE ReplyIsWhole
    BY DEF ReplyIsWhole
  <2>1. /\ WholeView(sourceIDs(src) \cup destIDs(dst), reply)
        /\ tc.sanitize \/ FocusOf(g) \subseteq DOMAIN reply.graph.nodes
    BY DEF PathInv, Replied, At
  <2>2. FocusOf(g) = Focused
    BY DEF FocusOf, Focused
  <2>3. QED
    BY <2>1, <2>2 DEF ReplyIsWhole, WholeView, SeenSpaces
<1>2. QED
  BY <1>1, PathInvHolds, PTL

\* RedactedListsAgree (rbac/sanitize.go:11): a caller who may not list nodes is shown
\* no host and no part of the network beneath the pods, as a node or as the end of an
\* edge, by the graph or by the merged planes; and these, which are filtered by rules
\* of their own, differ by address pools and secondary networks alone.
THEOREM RedactedListsDoAgree == Spec => []RedactedListsAgree
<1>1. PathInv => RedactedListsAgree
  BY DEF PathInv, Replied, RedactedListsAgree, TenantsView, At
<1>2. QED
  BY <1>1, PathInvHolds, PTL

-----------------------------------------------------------------------------
(* What a resolution holds.                                                    *)

\* With one controller, a pod is matched by the owners that a user sees it with.
LEMMA MatchIsOwned ==
  ASSUME NEW p \in Pods, NEW y
  PROVE  podMatchesOwner(p, y, FALSE) <=> OwnedBy(p, y)
<1> DEFINE refs == OwnerRefs[p]
           Told(r) == Yields(r, FALSE)
           telling == {i \in DOMAIN refs : Told(refs[i]) # {}}
<1>1. /\ refs \in Seq(Range(refs)) /\ Len(refs) \in Nat /\ DOMAIN refs = 1..Len(refs)
      /\ \A r, s \in Range(refs) :
           {r.kind, s.kind} \subseteq {"ReplicaSet", "StatefulSet", "DaemonSet"} => r = s
  BY ReferencesAssumption, LenProperties
<1>2. \A r : /\ Told(r) # {} => r.kind \in {"ReplicaSet", "StatefulSet", "DaemonSet"}
             /\ r.kind = "ReplicaSet" => Told(r) # {}
             /\ \A v \in Told(r) :
                  \/ v = r
                  \/ /\ r.kind = "ReplicaSet" /\ r.name \in DOMAIN DeploymentOf
                     /\ v = [kind |-> "Deployment", name |-> DeploymentOf[r.name]]
             /\ r.kind = "ReplicaSet" /\ r.name \in DOMAIN DeploymentOf =>
                  Told(r) = {[kind |-> "Deployment", name |-> DeploymentOf[r.name]]}
  BY DEF Yields
<1>3. telling # {} => /\ Min(telling) \in DOMAIN refs
                      /\ Told(refs[Min(telling)]) # {} /\ refs[Min(telling)] \in Range(refs)
  <2>1. SUFFICES ASSUME telling # {} PROVE Min(telling) \in telling
    BY DEF Range
  <2> DEFINE D == DOMAIN refs
  <2>2. D \subseteq Nat
    BY <1>1
  <2>3. telling \subseteq D
    OBVIOUS
  <2> HIDE DEF telling, D
  <2>4. telling \in SUBSET Nat
    BY <2>2, <2>3
  <2>5. PICK m \in telling : \A k \in telling : m <= k
    BY <2>1, <2>4, LeastNatural
  <2>6. QED
    BY <2>4, <2>5, MinIs
<1>4. podMatchesOwner(p, y, FALSE) <=>
        (y \in Range(refs) \/ y \in (IF telling # {} THEN Told(refs[Min(telling)])
                                     ELSE IF refs # <<>> THEN {refs[1]} ELSE {}))
  BY <1>3 DEF podMatchesOwner, PrimaryOwner, enrichPrimaryOwner
<1>5. refs # <<>> => refs[1] \in Range(refs)
  BY <1>1, EmptySeq DEF Range
<1>6. OwnedBy(p, y) <=>
        \E r \in Range(refs) :
          \/ r = y
          \/ /\ r.kind = "ReplicaSet" /\ r.name \in DOMAIN DeploymentOf
             /\ y = [kind |-> "Deployment", name |-> DeploymentOf[r.name]]
  BY DEF OwnedBy
<1>7. ASSUME NEW r \in Range(refs), r.kind = "ReplicaSet", r.name \in DOMAIN DeploymentOf,
             y = [kind |-> "Deployment", name |-> DeploymentOf[r.name]]
      PROVE  telling # {} /\ Told(refs[Min(telling)]) = {y}
  <2>1. PICK i \in DOMAIN refs : refs[i] = r
    BY DEF Range
  <2>2. i \in telling
    BY <1>2, <1>7, <2>1
  <2>3. refs[Min(telling)] \in Range(refs) /\ Told(refs[Min(telling)]) # {}
    BY <1>3, <2>2
  <2> DEFINE s == refs[Min(telling)]
  <2> HIDE DEF telling, Told, s
  <2>4. s.kind \in {"ReplicaSet", "StatefulSet", "DaemonSet"}
    BY <1>2, <2>3 DEF s
  <2>5. s = r
    BY <1>1, <1>7, <2>3, <2>4 DEF s
  <2>6. QED
    BY <1>2, <1>7, <2>2, <2>5 DEF s
<1> HIDE DEF refs, telling, Told
<1>8. ASSUME OwnedBy(p, y) PROVE podMatchesOwner(p, y, FALSE)
  BY <1>4, <1>6, <1>7, <1>8
<1>9. ASSUME podMatchesOwner(p, y, FALSE) PROVE OwnedBy(p, y)
  BY <1>2, <1>3, <1>4, <1>5, <1>6, <1>9
<1>10. QED
  BY <1>8, <1>9

\* The selected owners of a pod, the pods an owner's selector lists, and whether
\* the pod is asked for: Selected, of the selections a.
Owning(a, p) == {o \in Range(Owners(a)) : o.ns = NsOf[p] /\ OwnedBy(p, o.owner)}
Chosen(o) == IF o.selector # {} THEN o.selector ELSE controllerLabelSelector(o)
Names(s, p) == s.pod = p /\ s.ns = NsOf[p]
Wanted(a, p) ==
  IF Owning(a, p) # {} THEN \E o \in Owning(a, p) : p \in UNION Chosen(o)
  ELSE \E s \in Range(a) : s.type = "pod" /\ Names(s, p)

\* Whether the resolution r has the pod, and whether a target of it stands for the pod.
HasFound(r, p) == \E f \in Range(r.found) : f.pod = p
StandsFor(r, p) == \E t \in Range(r.targets) : t.ns = NsOf[p] /\ (OwnedBy(p, t.owner) \/ t.pod = p)

\* What a resolution r has for a pod that nothing happened to: it is there only
\* if it is asked for, and it is there once what asks for it was expanded.
Honours(a, r, p) ==
  /\ \A f \in Range(r.found) : f.pod = p => f.uid = 1 /\ Wanted(a, p) /\ StandsFor(r, p)
  /\ \A o \in Owning(a, p) \ Range(r.oleft) : p \in UNION Chosen(o) => HasFound(r, p)
  /\ Owning(a, p) = {} =>
       \A s \in Range(PodSelections(a)) \ Range(r.pleft) : Names(s, p) => HasFound(r, p)
  /\ r.uncovered /\ Names(Head(r.pleft), p) => Owning(a, p) = {}

\* How far it is.
Onward(a, r) ==
  /\ Range(r.oleft) \subseteq Range(Owners(a)) /\ Range(r.pleft) \subseteq Range(PodSelections(a))
  /\ r.selector # {} =>
       /\ r.oleft # <<>> /\ r.selector = Chosen(Head(r.oleft))
       /\ \E t \in Range(r.targets) : t.ns = Head(r.oleft).ns /\ t.owner = Head(r.oleft).owner
  /\ r.status = "done" => r.oleft = <<>> /\ r.pleft = <<>>

\* A resolution that may still hold something.
Ongoing(r) == r.status \in {"running", "done"}

\* At the start all is left to be done.
LEMMA ResolutionHonours ==
  ASSUME NEW a, Asks(a), NEW p, Ongoing(Resolution(a))
  PROVE  Onward(a, Resolution(a)) /\ Honours(a, Resolution(a), p)
<1> DEFINE r == Resolution(a)
           ow == Owners(a)
           pl == PodSelections(a)
<1>1. r = Failed \/ r = [Idle EXCEPT !.status = "running", !.owners = ow, !.oleft = ow, !.pleft = pl]
  BY DEF Resolution, PodSelections
<1>2. r # Failed
  BY DEF Failed, Idle, Ongoing
<1> HIDE DEF ow, pl
<1>3. r = [status |-> "running", owners |-> ow, oleft |-> ow, pleft |-> pl,
           selector |-> {}, uncovered |-> FALSE, targets |-> <<>>, found |-> <<>>]
  BY <1>1, <1>2 DEF Idle
<1> HIDE DEF r
<1>4. /\ r.status = "running" /\ r.oleft = ow /\ r.pleft = pl /\ r.selector = {}
      /\ r.uncovered = FALSE /\ r.targets = <<>> /\ r.found = <<>>
  BY <1>3
<1>5. Range(<<>>) = {}
  BY DEF Range
<1>6. Onward(a, r)
  BY <1>4 DEF Onward, ow, pl
<1>7. \A o \in Owning(a, p) : o \in Range(ow)
  BY DEF Owning, ow
<1>8. Honours(a, r, p)
  BY <1>4, <1>5, <1>7 DEF Honours, pl
<1>9. QED
  BY <1>6, <1>8 DEF r

-----------------------------------------------------------------------------
(* What each step of a resolution does for a pod that nothing happened to.     *)

\* What leaves a queue is its head.
LEMMA HeadLeaves ==
  ASSUME NEW q, q \in Seq(Range(q)), q # <<>>, NEW x \in Range(q), x \notin Range(Tail(q))
  PROVE  x = Head(q)
<1>1. /\ DOMAIN q = 1..Len(q) /\ DOMAIN Tail(q) = 1..(Len(q) - 1) /\ Len(q) \in Nat \ {0}
      /\ \A i \in 1..(Len(q) - 1) : Tail(q)[i] = q[i + 1]
      /\ Head(q) = q[1]
  BY TailIs
<1>2. PICK i \in 1..Len(q) : q[i] = x
  BY <1>1 DEF Range
<1>3. CASE i = 1
  BY <1>1, <1>2, <1>3
<1>4. CASE i # 1
  <2> DEFINE t == Tail(q)
  <2>1. i - 1 \in DOMAIN t /\ t[i - 1] = q[(i - 1) + 1] /\ (i - 1) + 1 = i
    BY <1>1, <1>4
  <2> HIDE DEF t
  <2>2. x \in Range(t)
    BY <1>2, <2>1 DEF Range
  <2>3. QED
    BY <2>2 DEF t
<1>5. QED
  BY <1>3, <1>4

\* More targets stand for no fewer pods.
LEMMA TargetsGrow ==
  ASSUME NEW r, NEW n, NEW p, StandsFor(r, p), Range(r.targets) \subseteq Range(n.targets)
  PROVE  StandsFor(n, p)
BY DEF StandsFor

\* A target is one more for a selected owner or a named pod, and nothing else changes.
LEMMA HonoursOn ==
  ASSUME NEW a, NEW p, NEW r, NEW n, Honours(a, r, p), Range(r.targets) \subseteq Range(n.targets),
         n.found = r.found, n.oleft = r.oleft, n.pleft = r.pleft, n.uncovered = r.uncovered
  PROVE  Honours(a, n, p)
BY TargetsGrow DEF Honours, HasFound

\* An owner is expanded by the selector that it is read with.
LEMMA ReadSelectorHonours ==
  ASSUME NEW a, Asks(a), Shape(a, res), Onward(a, res), NEW p, Honours(a, res, p),
         ReadSelector, Ongoing(res')
  PROVE  Onward(a, res') /\ Honours(a, res', p)
<1> DEFINE o == Head(res.oleft)
           sel == Chosen(o)
           t == [ns |-> o.ns, owner |-> o.owner, pod |-> "", uid |-> 0]
           ts == Append(res.targets, t)
<1>1. InHand(a, res) /\ res.oleft # <<>> /\ res.status = "running"
  BY DEF ReadSelector, Running, Shape
<1>2. res' = [res EXCEPT !.selector = sel, !.targets = ts]
  BY DEF ReadSelector, Expand, Chosen, Ongoing, Failed, Idle
<1>3. t.ns = o.ns /\ t.owner = o.owner
  OBVIOUS
<1> HIDE DEF t, o
<1>4. Range(ts) = Range(res.targets) \cup {t}
  BY <1>1, AppendIs DEF InHand
<1> HIDE DEF ts, sel
<1>5. /\ res'.status = "running" /\ res'.oleft = res.oleft /\ res'.pleft = res.pleft
      /\ res'.selector = sel /\ res'.uncovered = res.uncovered /\ res'.targets = ts
      /\ res'.found = res.found
  BY <1>1, <1>2 DEF InHand, Fields
<1>6. Onward(a, res')
  BY <1>1, <1>3, <1>4, <1>5 DEF Onward, sel, o
<1>7. Honours(a, res', p)
  BY <1>4, <1>5, HonoursOn
<1>8. QED
  BY <1>6, <1>7

\* The pods of an owner are found that its selector lists.
LEMMA ListOwnerPodsHonours ==
  ASSUME NEW a, Asks(a), Shape(a, res), Onward(a, res), NEW p \in Pods \ disturbed', live[p] = 1,
         Honours(a, res, p), ListOwnerPods, Ongoing(res')
  PROVE  Onward(a, res') /\ Honours(a, res', p)
<1> DEFINE o == Head(res.oleft)
           ol == Tail(res.oleft)
<1>1. InHand(a, res) /\ res.oleft # <<>> /\ res.status = "running" /\ res.selector # {}
  BY DEF ListOwnerPods, Running, Shape
<1>2. \E lost :
        /\ lost \subseteq disturbed' \/ lost = {}
        /\ res' = [res EXCEPT !.oleft = Tail(@), !.selector = {},
                              !.found = FoldLeft(AppendUnseen, @, SetToSeq(Taken(o, res.selector, lost)))]
  BY DEF ListOwnerPods, Listed, Taken, Ongoing, Failed, Idle, Fault
<1>3. PICK lost :
        /\ lost \subseteq disturbed' \/ lost = {}
        /\ res' = [res EXCEPT !.oleft = Tail(@), !.selector = {},
                              !.found = FoldLeft(AppendUnseen, @, SetToSeq(Taken(o, res.selector, lost)))]
  BY <1>2
<1> DEFINE S == Taken(o, res.selector, lost)
           q == FoldLeft(AppendUnseen, res.found, SetToSeq(S))
<1>4. IsFiniteSet(S)
  <2>1. S \subseteq Pods
    BY <1>1 DEF Taken, Listed, InHand
  <2> HIDE DEF S
  <2>2. QED
    BY <2>1, FS_Subset, ClusterAssumption
<1>5. Range(q) = Range(res.found) \cup {[pod |-> x, uid |-> live[x]] : x \in S}
  <2> HIDE DEF S
  <2>1. QED
    BY <1>1, <1>4, UnseenIs DEF InHand
<1>6. p \in S <=> p \in UNION res.selector /\ NsOf[p] = o.ns /\ OwnedBy(p, o.owner)
  <2>1. (p \in lost) = FALSE
    BY <1>3
  <2>2. podMatchesOwner(p, o.owner, p \in lost) <=> podMatchesOwner(p, o.owner, FALSE)
    BY <2>1
  <2>3. podMatchesOwner(p, o.owner, FALSE) <=> OwnedBy(p, o.owner)
    BY MatchIsOwned
  <2>4. p \in S <=> p \in Listed(o, res.selector) /\ podMatchesOwner(p, o.owner, p \in lost)
    BY DEF Taken
  <2>5. p \in Listed(o, res.selector) <=> p \in UNION res.selector /\ NsOf[p] = o.ns
    BY DEF Listed
  <2> HIDE DEF S, o
  <2>6. QED
    BY <2>2, <2>3, <2>4, <2>5
<1>7. /\ o \in Range(Owners(a)) /\ res.selector = Chosen(o) /\ Range(ol) \subseteq Range(Owners(a))
      /\ \E t \in Range(res.targets) : t.ns = o.ns /\ t.owner = o.owner
  BY <1>1, TailIs DEF Onward, InHand
<1>8. \A x \in Range(res.oleft) \ Range(ol) : x = o
  BY <1>1, HeadLeaves DEF InHand
<1>9. res' = [res EXCEPT !.oleft = ol, !.selector = {}, !.found = q]
  BY <1>3
<1> HIDE DEF q, ol, o, S
<1>10. /\ res'.status = "running" /\ res'.oleft = ol /\ res'.pleft = res.pleft /\ res'.selector = {}
       /\ res'.uncovered = res.uncovered /\ res'.targets = res.targets /\ res'.found = q
  BY <1>1, <1>9 DEF InHand, Fields
<1>11. Onward(a, res')
  BY <1>7, <1>10 DEF Onward
<1>12. ASSUME NEW f \in Range(res'.found), f.pod = p
       PROVE  f.uid = 1 /\ Wanted(a, p) /\ StandsFor(res', p)
  <2>1. CASE f \in Range(res.found)
    <3>1. f.uid = 1 /\ Wanted(a, p) /\ StandsFor(res, p)
      BY <1>12, <2>1 DEF Honours
    <3>2. QED
      BY <1>10, <3>1 DEF StandsFor
  <2>2. CASE \E x \in S : f = [pod |-> x, uid |-> live[x]]
    <3>1. p \in S /\ f.uid = 1
      BY <1>12, <2>2
    <3>2. o \in Owning(a, p) /\ p \in UNION Chosen(o)
      BY <1>6, <1>7, <3>1 DEF Owning
    <3>3. Wanted(a, p)
      BY <3>2 DEF Wanted
    <3>4. StandsFor(res', p)
      BY <1>6, <1>7, <1>10, <3>1 DEF StandsFor
    <3>5. QED
      BY <3>1, <3>3, <3>4
  <2>3. QED
    BY <1>5, <1>10, <1>12, <2>1, <2>2
<1>13. HasFound(res, p) => HasFound(res', p)
  BY <1>5, <1>10 DEF HasFound
<1>14. ASSUME NEW x \in Owning(a, p) \ Range(res'.oleft), p \in UNION Chosen(x)
       PROVE  HasFound(res', p)
  <2>1. CASE x \notin Range(res.oleft)
    BY <1>13, <1>14, <2>1 DEF Honours
  <2>2. CASE x \in Range(res.oleft)
    <3>1. x = o
      BY <1>8, <1>10, <1>14, <2>2
    <3>2. p \in S
      BY <1>6, <1>7, <1>14, <3>1 DEF Owning
    <3> DEFINE f == [pod |-> p, uid |-> live[p]]
    <3>3. f \in Range(res'.found) /\ f.pod = p
      BY <1>5, <1>10, <3>2
    <3>4. QED
      BY <3>3 DEF HasFound
  <2>3. QED
    BY <2>1, <2>2
<1>15. Honours(a, res', p)
  BY <1>10, <1>12, <1>13, <1>14 DEF Honours
<1>16. QED
  BY <1>11, <1>15

\* A named pod is covered exactly if a selected owner owns it.
LEMMA CheckCoveredHonours ==
  ASSUME NEW a, Asks(a), Shape(a, res), Onward(a, res), NEW p \in Pods \ disturbed', live[p] = 1,
         Honours(a, res, p), CheckCovered, Ongoing(res')
  PROVE  Onward(a, res') /\ Honours(a, res', p)
<1> DEFINE s == Head(res.pleft)
           covered == Named(s) /\ coveredByOwnerSelection(s.pod, FALSE)
<1>1. InHand(a, res) /\ res.pleft # <<>> /\ res.status = "running"
  BY DEF CheckCovered, Running, Shape
<1>2. \E c \in BOOLEAN : /\ s.pod = p => (c <=> covered)
                         /\ res' = [res EXCEPT !.uncovered = ~c, !.pleft = IF c THEN Tail(@) ELSE @]
  <2>1. \E c \in BOOLEAN : /\ s.pod \in disturbed' \/ (c <=> covered)
                           /\ res' = [res EXCEPT !.uncovered = ~c, !.pleft = IF c THEN Tail(@) ELSE @]
    BY DEF CheckCovered, Fault, Named, coveredByOwnerSelection
  <2> HIDE DEF covered, s
  <2>2. QED
    BY <2>1
<1>3. PICK c \in BOOLEAN : /\ s.pod = p => (c <=> covered)
                           /\ res' = [res EXCEPT !.uncovered = ~c, !.pleft = IF c THEN Tail(@) ELSE @]
  BY <1>2
<1> DEFINE pl == IF c THEN Tail(res.pleft) ELSE res.pleft
           u == ~c
<1>4. Names(s, p) => (c <=> Owning(a, p) # {})
  <2>1. \A o : podMatchesOwner(p, o.owner, FALSE) <=> OwnedBy(p, o.owner)
    BY MatchIsOwned
  <2>2. coveredByOwnerSelection(p, FALSE) <=> Owning(a, p) # {}
    BY <1>1, <2>1 DEF coveredByOwnerSelection, Owning, InHand
  <2>3. Names(s, p) => Named(s) /\ s.pod = p
    BY DEF Names, Named
  <2> HIDE DEF s
  <2>4. QED
    BY <1>3, <2>2, <2>3
<1>5. \A x \in Range(res.pleft) \ Range(pl) : c /\ x = s
  BY <1>1, HeadLeaves DEF InHand
<1>6. Range(pl) \subseteq Range(res.pleft)
  BY <1>1, TailIs DEF InHand
<1>7. u => ~c /\ Head(pl) = s
  OBVIOUS
<1>8. res' = [res EXCEPT !.uncovered = u, !.pleft = pl]
  BY <1>3
<1>9. u \in BOOLEAN
  OBVIOUS
<1> HIDE DEF pl, u, s
<1>10. /\ res'.status = "running" /\ res'.oleft = res.oleft /\ res'.pleft = pl
       /\ res'.selector = res.selector
       /\ res'.uncovered = u /\ res'.targets = res.targets /\ res'.found = res.found
  <2>1. res' = [status |-> res.status, owners |-> res.owners, oleft |-> res.oleft, pleft |-> pl,
                selector |-> res.selector, uncovered |-> u, targets |-> res.targets, found |-> res.found]
    BY <1>1, <1>8 DEF InHand, Fields
  <2>2. QED
    BY <1>1, <2>1
<1>11. Onward(a, res')
  BY <1>1, <1>6, <1>10 DEF Onward
<1>12. ASSUME Owning(a, p) = {}, NEW x \in Range(PodSelections(a)) \ Range(res'.pleft), Names(x, p)
       PROVE  HasFound(res', p)
  <2>1. x \notin Range(res.pleft)
    BY <1>4, <1>5, <1>10, <1>12
  <2>2. HasFound(res, p)
    BY <1>12, <2>1 DEF Honours
  <2>3. QED
    BY <1>10, <2>2 DEF HasFound
<1>13. res'.uncovered /\ Names(Head(res'.pleft), p) => Owning(a, p) = {}
  BY <1>4, <1>7, <1>10
<1>14. Honours(a, res', p)
  BY <1>10, <1>12, <1>13 DEF Honours, HasFound, StandsFor
<1>15. QED
  BY <1>11, <1>14

\* An uncovered pod is found, with a target of its own.
LEMMA GetPodHonours ==
  ASSUME NEW a, Asks(a), Shape(a, res), Onward(a, res), NEW p \in Pods \ disturbed', live[p] = 1,
         Honours(a, res, p), GetPod, Ongoing(res')
  PROVE  Onward(a, res') /\ Honours(a, res', p)
<1> DEFINE s == Head(res.pleft)
           pl == Tail(res.pleft)
           q == AppendUnseen(res.found, s.pod)
           ts == TargetsWith(res, s)
           t == PodTarget(s)
           new == [pod |-> s.pod, uid |-> live[s.pod]]
<1>1. InHand(a, res) /\ res.pleft # <<>> /\ res.status = "running" /\ res.uncovered
  BY DEF GetPod, Running, Shape, InHand
<1>2. /\ Named(s)
      /\ res' = [status |-> res.status, owners |-> res.owners, oleft |-> res.oleft, pleft |-> pl,
                 selector |-> res.selector, uncovered |-> FALSE, targets |-> ts, found |-> q]
  <2>1. res' # Failed
    BY DEF Ongoing, Failed, Idle
  <2>2. QED
    BY <1>1, <2>1, GetPodIs DEF InHand
<1>3. Range(q) = Range(res.found) \cup {new}
  BY <1>1, AppendUnseenIs DEF InHand
<1>4. /\ Range(res.targets) \subseteq Range(ts)
      /\ new \in Range(res.found) \/ t \in Range(ts)
  <2>1. q = res.found => new \in Range(res.found)
    BY <1>3
  <2>2. ts = IF q = res.found THEN res.targets ELSE Append(res.targets, t)
    BY DEF TargetsWith
  <2> HIDE DEF q, t, new, ts
  <2>3. Range(Append(res.targets, t)) = Range(res.targets) \cup {t}
    BY <1>1, AppendIs DEF InHand
  <2>4. QED
    BY <2>1, <2>2, <2>3
<1>5. t.ns = s.ns /\ t.pod = s.pod /\ new.pod = s.pod /\ new.uid = live[s.pod]
  BY DEF PodTarget
<1>6. Range(pl) \subseteq Range(res.pleft) /\ s \in Range(PodSelections(a))
  BY <1>1, TailIs DEF InHand, Onward
<1>7. \A x \in Range(res.pleft) \ Range(pl) : x = s
  BY <1>1, HeadLeaves DEF InHand
<1>8. Names(s, p) => Owning(a, p) = {}
  BY <1>1 DEF Honours
<1> HIDE DEF q, pl, ts, t, new, s
<1>9. /\ res'.status = "running" /\ res'.oleft = res.oleft /\ res'.pleft = pl
      /\ res'.selector = res.selector
      /\ res'.uncovered = FALSE /\ res'.targets = ts /\ res'.found = q
  BY <1>1, <1>2
<1>10. Onward(a, res')
  BY <1>1, <1>4, <1>6, <1>9 DEF Onward
<1>11. ASSUME NEW f \in Range(res'.found), f.pod = p
       PROVE  f.uid = 1 /\ Wanted(a, p) /\ StandsFor(res', p)
  <2>1. CASE f \in Range(res.found)
    <3>1. f.uid = 1 /\ Wanted(a, p) /\ StandsFor(res, p)
      BY <1>11, <2>1 DEF Honours
    <3>2. QED
      BY <1>4, <1>9, <3>1, TargetsGrow
  <2>2. CASE f \notin Range(res.found)
    <3>1. f = new /\ s.pod = p /\ f.uid = 1 /\ Names(s, p)
      BY <1>2, <1>3, <1>5, <1>9, <1>11, <2>2 DEF Named, Names
    <3>2. Wanted(a, p)
      <4>1. s \in Range(a) /\ s.type = "pod"
        BY <1>6, PodSelectionsAre DEF Asks
      <4>2. QED
        BY <1>8, <3>1, <4>1 DEF Wanted
    <3>3. t \in Range(res'.targets) /\ t.ns = NsOf[p] /\ t.pod = p
      BY <1>4, <1>5, <1>9, <2>2, <3>1 DEF Names
    <3>4. QED
      BY <3>1, <3>2, <3>3 DEF StandsFor
  <2>3. QED
    BY <2>1, <2>2
<1>12. HasFound(res, p) => HasFound(res', p)
  BY <1>3, <1>9 DEF HasFound
<1>13. ASSUME Owning(a, p) = {}, NEW x \in Range(PodSelections(a)) \ Range(res'.pleft), Names(x, p)
       PROVE  HasFound(res', p)
  <2>1. CASE x \notin Range(res.pleft)
    BY <1>12, <1>13, <2>1 DEF Honours
  <2>2. CASE x \in Range(res.pleft)
    <3>1. x = s
      BY <1>7, <1>9, <1>13, <2>2
    <3>2. new.pod = p /\ new \in Range(res'.found)
      BY <1>3, <1>5, <1>9, <1>13, <3>1 DEF Names
    <3>3. QED
      BY <3>2 DEF HasFound
  <2>3. QED
    BY <2>1, <2>2
<1>14. Honours(a, res', p)
  BY <1>9, <1>11, <1>12, <1>13 DEF Honours
<1>15. QED
  BY <1>10, <1>14

\* Every step of a resolution.
LEMMA SelectionHonours ==
  ASSUME NEW a, Asks(a), Shape(a, res), Onward(a, res), NEW p \in Pods \ disturbed', live[p] = 1,
         Honours(a, res, p), SelectionStep, Ongoing(res')
  PROVE  Onward(a, res') /\ Honours(a, res', p)
<1>1. CASE FinishSelection
  <2>1. InHand(a, res) /\ res.status = "running" /\ res.oleft = <<>> /\ res.pleft = <<>>
    BY <1>1 DEF FinishSelection, Running, Shape
  <2>2. res' = [res EXCEPT !.status = "done"]
    BY <1>1 DEF FinishSelection, Ongoing, Failed, Idle
  <2>3. /\ res'.status = "done" /\ res'.oleft = res.oleft /\ res'.pleft = res.pleft
        /\ res'.selector = res.selector /\ res'.uncovered = res.uncovered
        /\ res'.targets = res.targets /\ res'.found = res.found
    BY <2>1, <2>2 DEF InHand, Fields
  <2>4. Onward(a, res')
    BY <2>1, <2>3 DEF Onward
  <2>5. Honours(a, res', p)
    BY <2>3, HonoursOn
  <2>6. QED
    BY <2>4, <2>5
<1>2. QED
  BY <1>1, ReadSelectorHonours, ListOwnerPodsHonours, CheckCoveredHonours, GetPodHonours
     DEF SelectionStep

-----------------------------------------------------------------------------
(* A resolution honours its selections.                                        *)

\* Pods that nothing happened to have their first uid, and the resolution under
\* way has for each of them what the selections that it expanded ask for.
HonourInv ==
  \A p \in Pods \ disturbed :
    /\ live[p] = 1
    /\ Ongoing(res) => Onward(Asked, res) /\ Honours(Asked, res, p)

\* Nothing is resolved while a path is built.
Quiet == UNCHANGED <<live, res>> /\ disturbed \subseteq disturbed' /\ res.status = "idle"

\* Between the two endpoints and after them only the faults are counted.
LEMMA BuildingIsQuiet ==
  ASSUME PathInv,
         \/ VerifyAccess \/ ResolveIPEndpoint \/ Seed
         \/ ListServices \/ FinishPod \/ FindRoutes \/ LoadMetalLBIndex \/ WireLoadBalancer \/ FindEgress
         \/ StartSearch \/ SearchStep \/ MarkFocus \/ TakeTargetPod \/ Reply
  PROVE  Quiet
<1>1. pc \notin {"received", "selecting", "source", "destination", "done", "failed"} => res.status = "idle"
  BY RequestsAssumption DEF PathInv, RequestInv
<1>2. CASE VerifyAccess
  BY <1>2 DEF VerifyAccess, At, NoFault, Fault, PathInv, RequestInv, Quiet
<1>3. CASE ResolveIPEndpoint
  <2>1. /\ res.status = "idle"
        /\ UNCHANGED <<live, res>>
    BY <1>3, RequestsAssumption DEF ResolveIPEndpoint, PathInv, RequestInv
  <2>2. NoFault \/ Fault({})
    BY <1>3 DEF ResolveIPEndpoint, Optional
  <2>3. QED
    BY <2>1, <2>2 DEF Quiet, NoFault, Fault
<1>4. CASE Seed \/ WireLoadBalancer \/ StartSearch \/ SearchStep \/ MarkFocus \/ TakeTargetPod
  BY <1>1, <1>4
     DEF Seed, WireLoadBalancer, StartSearch, SearchStep, MarkFocus, TakeTargetPod, At,
     selectionVars, Quiet
<1>5. CASE ListServices \/ FinishPod \/ FindRoutes \/ LoadMetalLBIndex \/ FindEgress \/ Reply
  <2>1. UNCHANGED <<live, res>> /\ res.status = "idle"
    BY <1>1, <1>5
       DEF ListServices, FinishPod, FindRoutes, LoadMetalLBIndex, FindEgress, Reply, At
  <2>2. NoFault \/ Fault({})
    <3>1. CASE ListServices
      BY <3>1 DEF ListServices, Optional
    <3>2. CASE FinishPod
      BY <3>2 DEF FinishPod, Optional
    <3>3. CASE FindRoutes
      BY <3>3 DEF FindRoutes, Optional
    <3>4. CASE LoadMetalLBIndex
      BY <3>4 DEF LoadMetalLBIndex
    <3>5. CASE FindEgress
      BY <3>5 DEF FindEgress
    <3>6. CASE Reply
      BY <3>6 DEF Reply
    <3>7. QED
      BY <1>5, <3>1, <3>2, <3>3, <3>4, <3>5, <3>6
  <2>3. QED
    BY <2>1, <2>2 DEF Quiet, NoFault, Fault
<1>6. QED
  BY <1>2, <1>3, <1>4, <1>5

\* A resolution goes on with what it was asked for, one step at most.
LEMMA HonourStep ==
  ASSUME PathInv, HonourInv, [Next]_vars
  PROVE  HonourInv'
<1> USE DEF HonourInv
<1>1. CASE Quiet
  BY <1>1 DEF Quiet, Ongoing
<1>2. CASE UNCHANGED <<selectionVars, req>> /\ (req.kind = "capture" \/ pc' = pc)
  <2>1. Asked' = Asked
    BY <1>2 DEF Asked, AskedEndpoint, At
  <2>2. QED
    BY <1>2, <2>1 DEF selectionVars
<1>3. CASE Churn
  <2>1. Asked' = Asked /\ res' = res
    BY <1>3 DEF Churn, requestVars, Asked, AskedEndpoint, At, Recreate, DeletePod
  <2>2. PICK p \in Pods : (\E u : live' = [live EXCEPT ![p] = u]) /\ disturbed' = disturbed \cup {p}
    BY <1>3 DEF Churn, Recreate, DeletePod, Fault
  <2>3. \A x \in Pods \ disturbed' : live'[x] = live[x]
    BY <2>2
  <2>4. QED
    BY <2>1, <2>2, <2>3
<1>4. CASE Select
  <2>1. /\ SelectionStep /\ UNCHANGED <<req, pc>> /\ Asked' = Asked /\ Asks(Asked) /\ Shape(Asked, res)
    BY <1>4, AskedFits DEF Select, requestVars, Asked, AskedEndpoint, At, PathInv, RequestInv
  <2>2. live' = live /\ disturbed \subseteq disturbed' /\ res.status = "running"
    BY <2>1
       DEF SelectionStep, ReadSelector, ListOwnerPods, CheckCovered, GetPod, FinishSelection, Running,
       NoFault, Fault
  <2> DEFINE a == Asked
  <2>3. \A p \in Pods \ disturbed : Onward(a, res) /\ Honours(a, res, p)
    BY <2>2 DEF Ongoing
  <2> HIDE DEF a
  <2>4. ASSUME NEW p \in Pods \ disturbed', Ongoing(res') PROVE Onward(a, res') /\ Honours(a, res', p)
    BY <2>1, <2>2, <2>3, <2>4, SelectionHonours DEF a
  <2>5. a = Asked'
    BY <2>1 DEF a
  <2>6. QED
    BY <2>2, <2>4, <2>5
<1>5. CASE EndpointSelected
  <2>1. res'.status = "idle" /\ UNCHANGED <<live, disturbed>>
    BY <1>5 DEF EndpointSelected, Idle
  <2>2. QED
    BY <2>1 DEF Ongoing
<1>6. ASSUME Asks(Asked'), res' = Resolution(Asked'), UNCHANGED <<live, disturbed>>
      PROVE  HonourInv'
  <2> DEFINE a == Asked'
  <2> HIDE DEF a
  <2>1. ASSUME Ongoing(res'), NEW p PROVE Onward(a, res') /\ Honours(a, res', p)
    BY <1>6, <2>1, ResolutionHonours DEF a
  <2>2. QED
    BY <1>6, <2>1 DEF a
<1>7. CASE StartCapture
  <2>1. Asked' = Asked /\ Asked = req.sels
    BY <1>7 DEF StartCapture, requestVars, Asked
  <2>2. QED
    BY <1>6, <1>7, <2>1, AskedFits DEF StartCapture, PathInv, RequestInv
<1>8. CASE ResolveNamespaceEndpoint
  <2>1. Asked' = Asked /\ Asked = <<AskedEndpoint.sel>>
    BY <1>8
       DEF ResolveNamespaceEndpoint, requestVars, Asked, AskedEndpoint, At, PathInv, RequestInv
  <2>2. QED
    BY <1>6, <1>8, <2>1, AskedFits DEF ResolveNamespaceEndpoint, PathInv, RequestInv
<1>9. CASE CaptureSelected
  <2>1. req.kind = "capture"
    BY <1>9, RequestsAssumption DEF CaptureSelected, At, PathInv, RequestInv, PathSteps
  <2>2. QED
    BY <1>2, <1>9, <2>1 DEF CaptureSelected, requestVars
<1>10. CASE UNCHANGED vars
  BY <1>2, <1>10 DEF vars, requestVars
<1>11. CASE Ended
  BY <1>10, <1>11 DEF Ended
<1>12. CASE Next
  BY <1>1, <1>3, <1>4, <1>5, <1>7, <1>8, <1>9, <1>11, <1>12, BuildingIsQuiet DEF Next
<1>13. QED
  BY <1>10, <1>12

\* A finished resolution has each such pod once.
LEMMA DoneIsHonoured ==
  ASSUME PathInv, HonourInv, res.status = "done", NEW p \in Pods \ disturbed
  PROVE  LET at == {i \in DOMAIN res.found : res.found[i].pod = p}
         IN  IF Selected(p)
             THEN /\ Cardinality(at) = 1 /\ \A i \in at : res.found[i].uid = live[p]
                  /\ \E t \in Range(res.targets) : t.ns = NsOf[p] /\ (OwnedBy(p, t.owner) \/ t.pod = p)
             ELSE at = {}
<1> DEFINE a == Asked
           q == res.found
           at == {i \in DOMAIN q : q[i].pod = p}
<1>1. /\ Asks(a) /\ InHand(a, res) /\ Onward(a, res) /\ Honours(a, res, p) /\ live[p] = 1
  BY AskedFits DEF PathInv, RequestInv, Shape, HonourInv, Ongoing
<1>2. Selected(p) <=> Wanted(a, p)
  BY DEF Selected, Wanted, Owning, Chosen, Names
<1> HIDE DEF a
<1>3. Founds(q) /\ DOMAIN q = 1..Len(q)
  BY <1>1, LenProperties DEF InHand, Founds
<1>4. \A i \in DOMAIN q : q[i] \in Range(q)
  BY DEF Range
<1>5. Range(res.oleft) = {} /\ Range(res.pleft) = {}
  BY <1>1 DEF Onward, Range
<1>6. Wanted(a, p) => HasFound(res, p)
  <2>1. CASE Owning(a, p) # {}
    BY <1>1, <1>5, <2>1 DEF Wanted, Honours
  <2>2. CASE Owning(a, p) = {}
    <3>1. Range(PodSelections(a)) = {s \in Range(a) : s.type = "pod"}
      BY <1>1, PodSelectionsAre DEF Asks
    <3>2. QED
      BY <1>1, <1>5, <2>2, <3>1 DEF Wanted, Honours
  <2>3. QED
    BY <2>1, <2>2
<1>7. \A i \in at : q[i] = [pod |-> p, uid |-> 1] /\ Wanted(a, p) /\ StandsFor(res, p)
  BY <1>1, <1>3, <1>4 DEF Honours, Founds
<1>8. \A i, j \in at : i = j
  BY <1>3, <1>7 DEF Founds, Distinct
<1>9. Wanted(a, p) => \E i \in DOMAIN q : i \in at
  BY <1>6 DEF HasFound, Range
<1> HIDE DEF q, at
<1>10. CASE Wanted(a, p)
  <2>1. PICK i : at = {i}
    <3>1. PICK i : i \in at
      BY <1>9, <1>10
    <3>2. at = {i}
      BY <1>8, <3>1
    <3>3. QED
      BY <3>2
  <2>2. Cardinality(at) = 1
    BY <2>1, FS_Singleton
  <2>3. \A j \in at : q[j].uid = live[p]
    BY <1>1, <1>7
  <2>4. StandsFor(res, p)
    BY <1>7, <2>1
  <2>5. QED
    BY <1>2, <1>10, <2>2, <2>3, <2>4 DEF StandsFor, q, at
<1>11. CASE ~Wanted(a, p)
  BY <1>2, <1>7, <1>11 DEF q, at
<1>12. QED
  BY <1>10, <1>11

\* However selections overlap and whatever happens to other pods, a resolution
\* has every undisturbed pod exactly if it is selected, once, with its uid and
\* with a target that stands for it.
THEOREM SelectionIsHonoured == Spec => []SelectionHonoured
<1>1. Init => HonourInv
  BY DEF Init, InitSelection, Idle, HonourInv, Ongoing
<1>2. PathInv /\ HonourInv /\ [Next]_vars => HonourInv'
  BY HonourStep
<1>3. PathInv /\ HonourInv => SelectionHonoured
  BY DoneIsHonoured DEF SelectionHonoured
<1>4. QED
  BY <1>1, <1>2, <1>3, PathInvHolds, PTL DEF Spec
=============================================================================
