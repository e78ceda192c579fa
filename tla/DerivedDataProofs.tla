-------------------------- MODULE DerivedDataProofs --------------------------
(***************************************************************************)
(* What DerivedData promises, for any number of requests and packets.      *)
(*                                                                         *)
(* Scrub folds the addresses of a text into a scrubber's map: the first    *)
(* part is an induction over the naturals, and what that fold computes.    *)
(* Then what each action does to scrubbers and messages, the types, and    *)
(* one inductive invariant for each property: LeftInv, OneTopologyInv,     *)
(* ContextInv and RestoreInv.                                              *)
(***************************************************************************)
EXTENDS DerivedData, WellFoundedInduction, SequenceTheorems, TLAPS

\* A set of natural numbers has a least one.
LEMMA LeastNatural ==
  ASSUME NEW T \in SUBSET Nat, T # {}
  PROVE  \E m \in T : \A n \in T : m <= n
<1> DEFINE R == OpToRel(<, Nat)
<1>1. IsWellFoundedOn(R, Nat)
  BY NatLessThanWellFounded
<1>2. \A x, y \in Nat : <<y, x>> \in R <=> y < x
  BY DEF OpToRel
<1> HIDE DEF R
<1>3. PICK x \in T : \A y \in T : ~ (<<y, x>> \in R)
  BY <1>1, WFMin
<1>4. \A y \in T : ~ (y < x)
  BY <1>2, <1>3
<1>5. QED
  BY <1>4

\* Induction, with a set for the predicate: the provers cannot instantiate an
\* operator.
LEMMA InductionOverNat ==
  ASSUME NEW S, 0 \in S, \A n \in Nat : n \in S => n + 1 \in S
  PROVE  Nat \subseteq S
<1>1. SUFFICES ASSUME Nat \ S # {} PROVE FALSE
  OBVIOUS
<1>2. PICK m \in Nat \ S : \A n \in Nat \ S : m <= n
  BY <1>1, LeastNatural
<1>3. m - 1 \in Nat /\ m - 1 \notin Nat \ S
  BY <1>2
<1>4. QED
  BY <1>2, <1>3

\* A function on 1..n is a sequence of length n.
LEMMA SeqOfFcn ==
  ASSUME NEW S, NEW n \in Nat, NEW f \in [1..n -> S]
  PROVE  f \in Seq(S) /\ Len(f) = n
<1>1. f \in Seq(S)
  BY SeqDef
<1>2. DOMAIN f = 1..n /\ DOMAIN f = 1..Len(f) /\ Len(f) \in Nat
  BY <1>1
<1>3. QED
  BY <1>1, <1>2

-----------------------------------------------------------------------------
(* Scrub: FoldLeft of maskIP, a recursive function on sets of indices.         *)

Step(f, text, s) == maskIP(f[s \ {Max(s)}], text[Max(s)])

IsFold(f, map, text, n) ==
  f = [s \in SUBSET (1..n) |-> IF s = {} THEN map ELSE Step(f, text, s)]

\* The equation of the function, at one set.
LEMMA FoldValue ==
  ASSUME NEW f, NEW map, NEW text, NEW n \in Nat, IsFold(f, map, text, n),
         NEW s \in SUBSET (1..n)
  PROVE  f[s] = IF s = {} THEN map ELSE Step(f, text, s)
<1> DEFINE e(t) == IF t = {} THEN map ELSE Step(f, text, t)
<1>1. f = [t \in SUBSET (1..n) |-> e(t)]
  BY DEF IsFold
<1>2. f[s] = e(s)
  <2> HIDE DEF e
  <2>1. QED
    BY <1>1
<1>3. QED
  BY <1>2

\* The greatest element of a set with the top of a range.
LEMMA MaxOfRange ==
  ASSUME NEW n \in Nat, NEW s \in SUBSET (1..(n+1)), n + 1 \in s
  PROVE  Max(s) = n + 1
<1>1. \A y \in s : n + 1 >= y
  OBVIOUS
<1>2. \A x \in s : (\A y \in s : x >= y) => x = n + 1
  BY <1>1
<1>3. QED
  BY <1>1, <1>2 DEF Max

\* There is such a function for every length.
LEMMA FoldExists == ASSUME NEW map, NEW text PROVE \A n \in Nat : \E f : IsFold(f, map, text, n)
<1> DEFINE S == {n \in Nat : \E f : IsFold(f, map, text, n)}
<1>1. 0 \in S
  <2> DEFINE f == [s \in SUBSET (1..0) |-> map]
  <2>1. \A s \in SUBSET (1..0) : map = IF s = {} THEN map ELSE Step(f, text, s)
    OBVIOUS
  <2>2. f = [s \in SUBSET (1..0) |-> IF s = {} THEN map ELSE Step(f, text, s)]
    BY <2>1
  <2> HIDE DEF f
  <2>3. IsFold(f, map, text, 0)
    BY <2>2 DEF IsFold
  <2>4. QED
    BY <2>3
<1>2. ASSUME NEW n \in Nat, n \in S PROVE n + 1 \in S
  <2>1. PICK f : IsFold(f, map, text, n)
    BY <1>2
  <2> DEFINE ef(s) == IF n + 1 \in s THEN maskIP(f[s \ {n+1}], text[n+1]) ELSE f[s]
             g == [s \in SUBSET (1..(n+1)) |-> ef(s)]
             eg(s) == IF s = {} THEN map ELSE Step(g, text, s)
  <2>2. \A s \in SUBSET (1..n) : n + 1 \notin s /\ s \in SUBSET (1..(n+1))
    OBVIOUS
  <2>3. \A s \in SUBSET (1..n) : g[s] = f[s]
    BY <2>2
  <2>4. ASSUME NEW s \in SUBSET (1..(n+1)) PROVE ef(s) = eg(s)
    <3> HIDE DEF g
    <3>1. CASE n + 1 \in s
      <4>1. Max(s) = n + 1 /\ s # {}
        BY <3>1, MaxOfRange
      <4>2. s \ {n+1} \in SUBSET (1..n)
        OBVIOUS
      <4>3. g[s \ {n+1}] = f[s \ {n+1}]
        BY <2>3, <4>2
      <4>4. ef(s) = maskIP(f[s \ {n+1}], text[n+1])
        BY <3>1
      <4>5. eg(s) = maskIP(g[s \ {n+1}], text[n+1])
        BY <4>1 DEF Step
      <4>6. QED
        BY <4>3, <4>4, <4>5
    <3>2. CASE n + 1 \notin s
      <4>1. s \in SUBSET (1..n)
        BY <3>2
      <4>2. f[s] = IF s = {} THEN map ELSE Step(f, text, s)
        BY <2>1, <4>1, FoldValue
      <4>3. s \ {Max(s)} \in SUBSET (1..n)
        BY <4>1
      <4>4. g[s \ {Max(s)}] = f[s \ {Max(s)}]
        BY <2>3, <4>3
      <4>5. Step(f, text, s) = Step(g, text, s)
        BY <4>4 DEF Step
      <4>6. QED
        BY <3>2, <4>2, <4>5
    <3>3. QED
      BY <3>1, <3>2
  <2>5. g = [s \in SUBSET (1..(n+1)) |-> eg(s)]
    <3> HIDE DEF ef, eg
    <3> QED BY <2>4
  <2>6. IsFold(g, map, text, n+1)
    <3> HIDE DEF g
    <3> QED BY <2>5 DEF IsFold
  <2>7. QED
    BY <2>6
<1> HIDE DEF S
<1>3. Nat \subseteq S
  BY <1>1, <1>2, InductionOverNat
<1>4. QED
  BY <1>3 DEF S

\* Scrub is the value of such a function at the whole text.
LEMMA ScrubIs ==
  ASSUME NEW map, NEW A, NEW text \in Seq(A)
  PROVE  \E f : IsFold(f, map, text, Len(text)) /\ Scrub(map, text) = f[1..Len(text)]
<1> DEFINE f == CHOOSE f : IsFold(f, map, text, Len(text))
<1>1. Len(text) \in Nat /\ DOMAIN text = 1..Len(text)
  OBVIOUS
<1>2. IsFold(f, map, text, Len(text))
  BY <1>1, FoldExists
<1>3. Scrub(map, text) = f[1..Len(text)]
  BY <1>1 DEF Scrub, FoldLeft, MapThenFoldSet, IsFold, Step
<1>4. QED
  BY <1>2, <1>3

\* The map grows, and has every address of the text.
LEMMA ScrubHolds ==
  ASSUME NEW A, NEW map \in Seq(A), NEW text \in Seq(A)
  PROVE  /\ Scrub(map, text) \in Seq(A)
         /\ Len(map) <= Len(Scrub(map, text))
         /\ \A n \in 1..Len(map) : Scrub(map, text)[n] = map[n]
         /\ \A i \in 1..Len(text) : text[i] \in ToSet(Scrub(map, text))
<1>1. PICK f : IsFold(f, map, text, Len(text)) /\ Scrub(map, text) = f[1..Len(text)]
  BY ScrubIs
<1> DEFINE L == Len(text)
           Good(m, k) == /\ m \in Seq(A) /\ Len(map) <= Len(m)
                         /\ \A n \in 1..Len(map) : m[n] = map[n]
                         /\ \A i \in 1..k : text[i] \in ToSet(m)
           S == {k \in Nat : k <= L => Good(f[1..k], k)}
<1>2. L \in Nat
  OBVIOUS
<1>3. 0 \in S
  <2>1. f[{}] = map
    BY <1>1, <1>2, FoldValue
  <2>2. 1..0 = {}
    OBVIOUS
  <2>3. QED
    BY <2>1, <2>2
<1>4. ASSUME NEW k \in Nat, k \in S PROVE k + 1 \in S
  <2> SUFFICES ASSUME k + 1 <= L PROVE Good(f[1..(k+1)], k + 1)
    OBVIOUS
  <2>1. 1..(k+1) \in SUBSET (1..L) /\ 1..(k+1) # {} /\ Max(1..(k+1)) = k + 1
        /\ (1..(k+1)) \ {k+1} = 1..k
    <3>1. k + 1 \in 1..(k+1)
      OBVIOUS
    <3>2. Max(1..(k+1)) = k + 1
      BY <3>1, MaxOfRange
    <3>3. \A i \in 1..(k+1) : i \in 1..L
      BY <1>2
    <3>4. \A i : i \in (1..(k+1)) \ {k+1} <=> i \in 1..k
      OBVIOUS
    <3>5. (1..(k+1)) \ {k+1} = 1..k
      BY <3>4
    <3>6. QED
      BY <3>1, <3>2, <3>3, <3>5
  <2>2. f[1..(k+1)] = maskIP(f[1..k], text[k+1])
    <3>1. f[1..(k+1)] = Step(f, text, 1..(k+1))
      BY <1>1, <1>2, <2>1, FoldValue
    <3>2. QED
      BY <2>1, <3>1 DEF Step
  <2> DEFINE m == f[1..k]  new == f[1..(k+1)]
  <2>3. Good(m, k)
    <3>1. k <= L
      BY <1>2
    <3>2. QED
      BY <1>4, <3>1
  <2> HIDE DEF m, new
  <2>4. new = maskIP(m, text[k+1]) /\ text[k+1] \in A
    BY <1>2, <2>2 DEF m, new
  <2>5. CASE text[k+1] \in ToSet(m)
    <3>1. new = m
      BY <2>4, <2>5 DEF maskIP
    <3>2. QED
      BY <2>3, <2>5, <3>1 DEF new
  <2>6. CASE text[k+1] \notin ToSet(m)
    <3>1. new = Append(m, text[k+1])
      BY <2>4, <2>6 DEF maskIP
    <3>2. /\ new \in Seq(A) /\ Len(new) = Len(m) + 1 /\ new[Len(m) + 1] = text[k+1]
          /\ Len(m) \in Nat /\ \A n \in 1..Len(m) : new[n] = m[n]
      BY <2>3, <2>4, <3>1
    <3>3. DOMAIN m = 1..Len(m) /\ DOMAIN new = 1..(Len(m) + 1)
      BY <2>3, <3>2
    <3>4. \A n \in DOMAIN m : n \in DOMAIN new /\ new[n] = m[n]
      BY <3>2, <3>3
    <3>5. Len(m) + 1 \in DOMAIN new
      BY <3>2, <3>3
    <3>6. ToSet(m) \subseteq ToSet(new) /\ text[k+1] \in ToSet(new)
      BY <3>2, <3>4, <3>5 DEF ToSet
    <3>7. Good(new, k + 1)
      BY <2>3, <3>2, <3>6
    <3>8. QED
      BY <3>7 DEF new
  <2>7. QED
    BY <2>5, <2>6
<1> HIDE DEF S
<1>5. Nat \subseteq S
  BY <1>3, <1>4, InductionOverNat
<1>6. Good(f[1..L], L)
  BY <1>2, <1>5 DEF S
<1>7. QED
  BY <1>1, <1>6
-----------------------------------------------------------------------------
(* The parts of the inductive invariant.                                      *)

\* The steps of each kind of request.
Course(k, p) ==
  /\ p \in {"reset", "hist", "reply"} => k \in Chatting
  /\ p \in {"scrubber", "get", "export"} => k \in Chatting \cup {"context", "topology"}
  /\ p = "scrubber" => k # "topology"
  /\ p \in {"sync", "commit"} => k \in {"context", "topology"}
  /\ p = "creds" => k \in Chatting \cup {"triage"}
  /\ p = "dropHist" => k = "flush"
  /\ p \in {"access", "dropCreds"} => k \in {"flush", "triageFlush"}

OnCourse == \A r \in Requests : Course(kind[r], pc[r])

\* A chat holds a scrubber from its first step on; a refresh of the context
\* when it exports.
Holds(k, p, s) ==
  /\ k \in Chatting /\ p \in {"get", "reset", "export", "hist", "creds", "reply"} => s # 0
  /\ k = "context" /\ p = "export" => s # 0

HoldsScrubber == \A r \in Requests : Holds(kind[r], pc[r], scrub[r])

\* Before it reads the history, a chat has its own context to send.
OwnContext ==
  \A r \in Requests : pc[r] = "hist" =>
    /\ asked[r] # <<>> /\ Head(asked[r]).what = "context"
    /\ \A m \in ToSet(asked[r]) : m.what = "context" /\ m.by = r

TypeInv == TypeOK /\ scrub \in [Requests -> Nat] /\ OnCourse /\ HoldsScrubber /\ OwnContext

\* From its first step on, the teardown knows who is under way.
OverlapKnown ==
  /\ td = "done" => ~owned
  /\ td # "no" => \A r \in InFlight :
       r \in overlap \/ (td = "done" /\ kind[r] \in {"triage", "triageFlush"})

\* What each step of the teardown has deleted comes back only from those.
Torn ==
  /\ td \notin {"no", "graph"} => graph \subseteq overlap \/ kept
  /\ td \in {"hist", "creds", "owner", "done"} => (current # 0 => maker \in overlap)
  /\ td \in {"creds", "owner", "done"} => \A m \in ToSet(chatHist) : m.by \in overlap
  /\ td \in {"owner", "done"} =>
       aiSessions = NoRequest \/ aiSessions \in overlap \/ kind[aiSessions] = "triage"

LeftInv == TypeInv /\ OverlapKnown /\ Torn

\* Rows in the store, and rows a transaction has seen, are those of syncs that
\* have ended.
Committed ==
  /\ \A r \in graph : pc[r] = "done"
  /\ \A r, s \in Requests : s \in matched[r] => pc[s] = "done"

OneTopologyInv == TypeInv /\ Committed /\ GraphIsOneTopology

\* A chat that waits for its answer finds the history it asked with, unless it
\* was dropped.
HistStays ==
  \A r \in Requests : kind[r] \in Chatting /\ pc[r] \in {"creds", "reply"} =>
    chatHist # <<>> \/ r \in cut

ContextInv == TypeInv /\ HistStays /\ ContextFirst

\* A message that is no reply: its scrubber masks with each of its tokens the
\* address the token stands for.
Meant(all, q) ==
  /\ q.gen \in 1..Len(all)
  /\ \A t \in q.tokens : t[1] \in DOMAIN all[q.gen] /\ all[q.gen][t[1]] = t[2]

MessagesMeant ==
  /\ \A q \in ToSet(chatHist) : q.what # "reply" => Meant(scrubbers, q)
  /\ \A r \in Requests : \A q \in ToSet(asked[r]) : q.what # "reply" => Meant(scrubbers, q)

\* Until one is dropped, a capture has one scrubber at most.
OneScrubber == ~dropped => Len(scrubbers) = current /\ current \in {0, 1}

RepliesEnded == \A m \in ToSet(chatHist) : m.what = "reply" => pc[m.by] = "done"

Restored == MessagesMeant /\ OneScrubber /\ RepliesEnded /\ RestoredAsMeant

RestoreInv == TypeInv /\ Restored

-----------------------------------------------------------------------------
(* Exports, the tokens of their addresses, and the messages made of them.      *)

\* An export has a packet at least, and shows addresses.
LEMMA ExportedIs ==
  ASSUME TypeOK
  PROVE  Exported \in Seq(Addresses) /\ Exported # <<>> /\ Head(Exported) \in Addresses
<1> DEFINE w == IF frames < Window THEN frames ELSE Window
           e(i) == frames - w + i
<1>1. frames \in 1..MaxFrames /\ w \in 1..frames /\ MaxFrames \in Nat
  BY DerivedAssumption DEF TypeOK
<1> HIDE DEF w
<1>2. \A i \in 1..w : e(i) \in 1..MaxFrames
  BY <1>1
<1> DEFINE x == [i \in 1..w |-> e(i)]
<1>3. x \in [1..w -> Addresses]
  BY <1>2 DEF Addresses
<1>4. x = Exported
  BY DEF w, Exported
<1> HIDE DEF x
<1>5. w \in Nat
  BY <1>1
<1>6. x \in Seq(Addresses) /\ Len(x) = w
  BY <1>3, <1>5, SeqOfFcn
<1>7. QED
  BY <1>1, <1>4, <1>6

\* The token of a masked address stands at its place in the map.
LEMMA TokenOfIs ==
  ASSUME NEW A, NEW map \in Seq(A), NEW a \in ToSet(map)
  PROVE  TokenOf(map, a) \in 1..Len(map) /\ map[TokenOf(map, a)] = a
<1>1. DOMAIN map = 1..Len(map)
  OBVIOUS
<1>2. PICK n \in DOMAIN map : map[n] = a
  BY DEF ToSet
<1>3. TokenOf(map, a) \in DOMAIN map /\ map[TokenOf(map, a)] = a
  BY <1>2 DEF TokenOf
<1>4. QED
  BY <1>1, <1>3

\* What a scrubbed text shows can be restored with the map it was scrubbed with.
LEMMA ScrubMeans ==
  ASSUME NEW map \in Seq(Addresses), NEW text \in Seq(Addresses)
  PROVE  /\ ScrubbedText(Scrub(map, text), text) \subseteq Tokens
         /\ \A t \in ScrubbedText(Scrub(map, text), text) :
              t[1] \in DOMAIN Scrub(map, text) /\ Scrub(map, text)[t[1]] = t[2]
<1> DEFINE new == Scrub(map, text)
<1>1. new \in Seq(Addresses) /\ \A i \in 1..Len(text) : text[i] \in ToSet(new)
  BY ScrubHolds, Zenon
<1> HIDE DEF new
<1>2. DOMAIN text = 1..Len(text) /\ DOMAIN new = 1..Len(new) /\ 1..Len(new) \subseteq Nat
  BY <1>1
<1>3. \A a \in ToSet(text) : a \in ToSet(new) /\ a \in Addresses
  BY <1>1, <1>2 DEF ToSet
<1>4. \A a \in ToSet(text) : TokenOf(new, a) \in 1..Len(new) /\ new[TokenOf(new, a)] = a
  BY <1>1, <1>3, TokenOfIs
<1>5. ASSUME NEW t \in ScrubbedText(new, text)
      PROVE  t \in Tokens /\ t[1] \in DOMAIN new /\ new[t[1]] = t[2]
  <2>1. PICK a \in ToSet(text) : t = <<TokenOf(new, a), a>>
    BY DEF ScrubbedText
  <2>2. TokenOf(new, a) \in 1..Len(new) /\ new[TokenOf(new, a)] = a /\ a \in Addresses
    BY <1>3, <1>4
  <2>3. t[1] = TokenOf(new, a) /\ t[2] = a
    BY <2>1
  <2>4. QED
    BY <1>2, <2>1, <2>2, <2>3 DEF Tokens
<1>6. QED
  BY <1>5 DEF new

\* A scrubber replaced in the sequence of all.
LEMMA ReplacedIn ==
  ASSUME NEW S, NEW s \in Seq(S), NEW i \in 1..Len(s), NEW e \in S,
         NEW n, n = [s EXCEPT ![i] = e]
  PROVE  /\ n \in Seq(S) /\ Len(n) = Len(s) /\ n[i] = e
         /\ \A j \in 1..Len(s) : j # i => n[j] = s[j]
<1>1. DOMAIN s = 1..Len(s) /\ Len(s) \in Nat
  OBVIOUS
<1>2. n \in [1..Len(s) -> S] /\ n[i] = e /\ \A j \in 1..Len(s) : j # i => n[j] = s[j]
  BY <1>1
<1>3. n \in Seq(S) /\ Len(n) = Len(s)
  BY <1>1, <1>2, SeqOfFcn
<1>4. QED
  BY <1>2, <1>3

\* Scrubbers are only added, and their maps only grow.
Grown ==
  /\ Len(scrubbers) <= Len(scrubbers')
  /\ \A g \in 1..Len(scrubbers) :
       /\ Len(scrubbers[g]) <= Len(scrubbers'[g])
       /\ \A n \in 1..Len(scrubbers[g]) : scrubbers'[g][n] = scrubbers[g][n]

\* A text masked with a scrubber: the sequence of all scrubbers after it.
LEMMA MaskedWith ==
  ASSUME TypeInv, NEW g \in 1..Len(scrubbers), NEW text \in Seq(Addresses),
         scrubbers' = [scrubbers EXCEPT ![g] = Scrub(scrubbers[g], text)]
  PROVE  /\ scrubbers' \in Seq(Seq(Addresses)) /\ Len(scrubbers') = Len(scrubbers)
         /\ Grown
         /\ scrubbers'[g] = Scrub(scrubbers[g], text)
<1> DEFINE new == Scrub(scrubbers[g], text)
<1>1. scrubbers \in Seq(Seq(Addresses)) /\ scrubbers[g] \in Seq(Addresses)
  BY DEF TypeInv, TypeOK
<1>2. /\ new \in Seq(Addresses) /\ Len(scrubbers[g]) <= Len(new)
      /\ \A n \in 1..Len(scrubbers[g]) : new[n] = scrubbers[g][n]
  BY <1>1, ScrubHolds, Zenon
<1> HIDE DEF new
<1>3. /\ scrubbers' \in Seq(Seq(Addresses)) /\ Len(scrubbers') = Len(scrubbers)
      /\ scrubbers'[g] = new
      /\ \A j \in 1..Len(scrubbers) : j # g => scrubbers'[j] = scrubbers[j]
  <2>1. scrubbers' = [scrubbers EXCEPT ![g] = new]
    BY DEF new
  <2>2. QED
    BY <1>1, <1>2, <2>1, ReplacedIn
<1>4. \A j \in 1..Len(scrubbers) : Len(scrubbers[j]) \in Nat
  BY <1>1
<1>5. Len(scrubbers) \in Nat
  BY <1>1
<1>6. Grown
  BY <1>2, <1>3, <1>4, <1>5 DEF Grown
<1>7. QED
  BY <1>3, <1>6 DEF new

\* ScrubberForSession hands out the current scrubber, a new one if there is
\* none.
LEMMA GetScrubberDoes ==
  ASSUME TypeInv, NEW r \in Requests, ScrubberForSession(r)
  PROVE  /\ scrubbers' \in Seq(Seq(Addresses)) /\ Grown
         /\ current' \in 1..Len(scrubbers') /\ scrub' = [scrub EXCEPT ![r] = current']
         /\ maker' \in Requests \cup {NoRequest}
         /\ \/ current # 0 /\ UNCHANGED <<scrubbers, current, maker>>
            \/ current = 0 /\ current' = Len(scrubbers) + 1 /\ Len(scrubbers') = current'
               /\ maker' = r
<1>1. scrubbers \in Seq(Seq(Addresses)) /\ Len(scrubbers) \in Nat
      /\ current \in 0..Len(scrubbers) /\ maker \in Requests \cup {NoRequest}
  BY DEF TypeInv, TypeOK
<1>2. \A g \in 1..Len(scrubbers) : Len(scrubbers[g]) \in Nat
  BY <1>1
<1>3. CASE current # 0 /\ scrub' = [scrub EXCEPT ![r] = current]
           /\ UNCHANGED <<scrubbers, current, maker>>
  BY <1>1, <1>2, <1>3 DEF Grown
<1>4. CASE current = 0 /\ scrubbers' = Append(scrubbers, <<>>) /\ current' = Len(scrubbers')
           /\ scrub' = [scrub EXCEPT ![r] = current'] /\ maker' = r
  <2>1. <<>> \in Seq(Addresses)
    OBVIOUS
  <2>2. /\ scrubbers' \in Seq(Seq(Addresses)) /\ Len(scrubbers') = Len(scrubbers) + 1
        /\ \A g \in 1..Len(scrubbers) : scrubbers'[g] = scrubbers[g]
    BY <1>1, <1>4, <2>1
  <2>3. Grown
    BY <1>1, <1>2, <2>2 DEF Grown
  <2>4. QED
    BY <1>1, <1>4, <2>2, <2>3
<1>5. QED
  BY <1>3, <1>4 DEF ScrubberForSession

\* A message made of a scrubbed text.
LEMMA MessageOf ==
  ASSUME TypeInv, NEW g \in 1..Len(scrubbers), NEW text \in Seq(Addresses),
         scrubbers' = [scrubbers EXCEPT ![g] = Scrub(scrubbers[g], text)],
         NEW m, m.gen = g, m.tokens = ScrubbedText(scrubbers'[g], text)
  PROVE  m.tokens \subseteq Tokens /\ Meant(scrubbers', m)
<1>1. scrubbers[g] \in Seq(Addresses) /\ g \in Nat /\ Len(scrubbers) \in Nat
  BY DEF TypeInv, TypeOK
<1>2. /\ Len(scrubbers') = Len(scrubbers) /\ scrubbers'[g] = Scrub(scrubbers[g], text)
  BY MaskedWith
<1>3. /\ m.tokens \subseteq Tokens
      /\ \A t \in m.tokens : t[1] \in DOMAIN scrubbers'[g] /\ scrubbers'[g][t[1]] = t[2]
  <2>1. m.tokens = ScrubbedText(Scrub(scrubbers[g], text), text)
    BY <1>2
  <2> DEFINE st == ScrubbedText(Scrub(scrubbers[g], text), text)
             new == Scrub(scrubbers[g], text)
  <2>2. st \subseteq Tokens /\ \A t \in st : t[1] \in DOMAIN new /\ new[t[1]] = t[2]
    BY <1>1, ScrubMeans, Zenon
  <2> HIDE DEF st, new
  <2>3. m.tokens = st /\ scrubbers'[g] = new
    BY <1>2, <2>1 DEF st, new
  <2>4. QED
    BY <2>2, <2>3
<1>4. QED
  BY <1>2, <1>3 DEF Meant

\* The elements of a sequence with one more, or of one.
LEMMA AppendedSet ==
  ASSUME NEW S, NEW s \in Seq(S), NEW e \in S
  PROVE  /\ Append(s, e) \in Seq(S) /\ Append(s, e) # <<>>
         /\ ToSet(Append(s, e)) = ToSet(s) \cup {e}
         /\ s # <<>> => Head(Append(s, e)) = Head(s)
         /\ s = <<>> => Head(Append(s, e)) = e
<1> DEFINE n == Append(s, e)
<1>1. /\ n \in Seq(S) /\ Len(n) = Len(s) + 1 /\ Len(s) \in Nat
      /\ n[Len(s) + 1] = e /\ \A i \in 1..Len(s) : n[i] = s[i]
      /\ DOMAIN s = 1..Len(s) /\ DOMAIN n = 1..(Len(s) + 1)
  OBVIOUS
<1>2. s # <<>> => Len(s) # 0
  OBVIOUS
<1>3. s = <<>> => Len(s) = 0
  OBVIOUS
<1> HIDE DEF n
<1>4. n # <<>> /\ Head(n) = n[1]
  BY <1>1
<1>5. s # <<>> => Head(s) = s[1]
  OBVIOUS
<1>6. \A i \in DOMAIN n : n[i] \in ToSet(s) \cup {e}
  <2>1. \A i \in DOMAIN s : n[i] \in ToSet(s)
    BY <1>1 DEF ToSet
  <2>2. \A i \in DOMAIN n : i \in DOMAIN s \/ i = Len(s) + 1
    BY <1>1
  <2>3. QED
    BY <1>1, <2>1, <2>2
<1>7. \A i \in DOMAIN s : i \in DOMAIN n /\ n[i] = s[i]
  BY <1>1
<1>8. Len(s) + 1 \in DOMAIN n /\ n[Len(s) + 1] = e
  BY <1>1
<1>9. ToSet(n) = ToSet(s) \cup {e}
  BY <1>6, <1>7, <1>8 DEF ToSet
<1>10. QED
  BY <1>1, <1>2, <1>3, <1>4, <1>5, <1>9 DEF n

\* An export: the chat's opening message, with what the scrubber now masks.
LEMMA ExportDoes ==
  ASSUME TypeInv, NEW r \in Requests, Export(r)
  PROVE  /\ scrubbers' \in Seq(Seq(Addresses)) /\ Len(scrubbers') = Len(scrubbers) /\ Grown
         /\ asked' \in [Requests -> Seq(Message)]
         /\ \A s \in Requests : s # r => asked'[s] = asked[s]
         /\ kind[r] \notin Chatting => asked' = asked
         /\ kind[r] \in Chatting =>
              /\ asked'[r] # <<>> /\ Head(asked'[r]).what = "context"
              /\ \A m \in ToSet(asked'[r]) :
                   m.what = "context" /\ m.by = r /\ Meant(scrubbers', m)
<1>1. /\ scrubbers \in Seq(Seq(Addresses)) /\ Len(scrubbers) \in Nat
      /\ asked \in [Requests -> Seq(Message)] /\ kind[r] \in Kinds
      /\ scrub[r] \in 0..Len(scrubbers)
  BY DEF TypeInv, TypeOK
<1>2. Exported \in Seq(Addresses)
  BY ExportedIs DEF TypeInv
<1>3. CASE kind[r] = "topology"
  <2>1. scrubbers' = scrubbers /\ asked' = asked /\ kind[r] \notin Chatting
    BY <1>3 DEF Export, Chatting
  <2>2. \A g \in 1..Len(scrubbers) : Len(scrubbers[g]) \in Nat
    BY <1>1
  <2>3. QED
    BY <1>1, <2>1, <2>2 DEF Grown
<1>4. CASE kind[r] # "topology"
  <2>1. scrub[r] \in 1..Len(scrubbers)
    <3>1. pc[r] = "export"
      BY DEF Export, Goto
    <3>2. kind[r] \in Chatting \cup {"context"}
      BY <1>4, <3>1 DEF TypeInv, OnCourse, Course
    <3>3. scrub[r] # 0
      BY <3>1, <3>2 DEF TypeInv, HoldsScrubber, Holds
    <3>4. QED
      BY <1>1, <3>3
  <2>2. scrubbers' = [scrubbers EXCEPT ![scrub[r]] = Scrub(scrubbers[scrub[r]], Exported)]
    BY <1>4 DEF Export
  <2>3. scrubbers' \in Seq(Seq(Addresses)) /\ Len(scrubbers') = Len(scrubbers) /\ Grown
    BY <1>2, <2>1, <2>2, MaskedWith
  <2>4. CASE kind[r] \notin Chatting
    BY <1>1, <2>3, <2>4 DEF Export
  <2>5. CASE kind[r] \in Chatting
    <3>1. PICK m : m = [what |-> "context", by |-> r, gen |-> scrub[r], clear |-> {},
                        tokens |-> ScrubbedText(scrubbers'[scrub[r]], Exported)]
      OBVIOUS
    <3>2. asked' = [asked EXCEPT ![r] = <<m>>]
      BY <2>5, <3>1 DEF Export, BuildTriageMessages
    <3>3. m \in Message /\ m.what = "context" /\ m.by = r /\ Meant(scrubbers', m)
      <4>1. m.gen = scrub[r] /\ m.tokens = ScrubbedText(scrubbers'[scrub[r]], Exported)
            /\ m.what = "context" /\ m.by = r
        BY <3>1
      <4>2. m.tokens \subseteq Tokens /\ Meant(scrubbers', m)
        BY <1>2, <2>1, <2>2, <4>1, MessageOf
      <4>3. scrub[r] \in Nat
        BY <1>1
      <4>4. ScrubbedText(scrubbers'[scrub[r]], Exported) \subseteq Tokens
        BY <4>1, <4>2
      <4>5. m \in Message
        BY <3>1, <4>3, <4>4 DEF Message
      <4>6. QED
        BY <4>1, <4>2, <4>5
    <3>4. /\ asked' \in [Requests -> Seq(Message)] /\ asked'[r] = <<m>>
          /\ \A s \in Requests : s # r => asked'[s] = asked[s]
      BY <1>1, <3>2, <3>3
    <3>5. <<m>> # <<>> /\ Head(<<m>>) = m /\ ToSet(<<m>>) = {m}
      BY DEF ToSet
    <3>6. QED
      BY <2>3, <2>5, <3>3, <3>4, <3>5
  <2>6. QED
    BY <2>4, <2>5
<1>5. QED
  BY <1>3, <1>4

\* The first section on the history: what the LLM is asked is what is kept, the
\* request's own context on an empty history, its question after another.
LEMMA ReadHistDoes ==
  ASSUME TypeInv, NEW r \in Requests, ReadHist(r)
  PROVE  /\ scrubbers' \in Seq(Seq(Addresses)) /\ Len(scrubbers') = Len(scrubbers) /\ Grown
         /\ chatHist' \in Seq(Message) /\ chatHist' # <<>>
         /\ asked' = [asked EXCEPT ![r] = chatHist']
         /\ \/ chatHist = <<>> /\ chatHist' = asked[r]
            \/ chatHist # <<>> /\ \E u \in Message :
                 /\ chatHist' = Append(chatHist, u) /\ u.what = "question" /\ u.by = r
                 /\ Meant(scrubbers', u)
            \/ chatHist # <<>> /\ chatHist' = chatHist
<1>1. /\ scrubbers \in Seq(Seq(Addresses)) /\ Len(scrubbers) \in Nat
      /\ asked \in [Requests -> Seq(Message)] /\ kind[r] \in Kinds /\ chatHist \in Seq(Message)
      /\ scrub[r] \in 0..Len(scrubbers)
  BY DEF TypeInv, TypeOK
<1>2. pc[r] = "hist" /\ kind[r] \in Chatting
  BY DEF ReadHist, Goto, TypeInv, OnCourse, Course
<1>3. scrub[r] \in 1..Len(scrubbers) /\ asked[r] # <<>>
  BY <1>1, <1>2 DEF TypeInv, HoldsScrubber, Holds, OwnContext
<1> DEFINE first == <<Head(Exported)>>
           g == scrub[r]
<1>4. first \in Seq(Addresses)
  BY ExportedIs DEF TypeInv
<1>5. scrubbers[g] \in Seq(Addresses)
  BY <1>1, <1>3
<1>6. CASE chatHist # <<>> /\ Asks(r)
  <2>1. scrubbers' = [scrubbers EXCEPT ![g] = Scrub(scrubbers[g], first)]
    BY <1>6 DEF ReadHist
  <2>2. scrubbers' \in Seq(Seq(Addresses)) /\ Len(scrubbers') = Len(scrubbers) /\ Grown
        /\ scrubbers'[g] = Scrub(scrubbers[g], first)
    BY <1>3, <1>4, <2>1, MaskedWith
  <2>3. PICK u : u = UserMessage(r, scrubbers'[g])
    OBVIOUS
  <2>4. chatHist' = Append(chatHist, u) /\ asked' = [asked EXCEPT ![r] = chatHist']
    BY <1>6, <2>3, <2>2 DEF ReadHist, NextHist
  <2>5. u = [what |-> "question", by |-> r, gen |-> g, clear |-> {},
             tokens |-> ScrubbedText(scrubbers'[g], first)]
    BY <2>3 DEF UserMessage
  <2>6. u \in Message /\ u.what = "question" /\ u.by = r /\ Meant(scrubbers', u)
    <3>1. u.gen = g /\ u.tokens = ScrubbedText(scrubbers'[g], first)
          /\ u.what = "question" /\ u.by = r
      BY <2>5
    <3>2. u.tokens \subseteq Tokens /\ Meant(scrubbers', u)
      BY <1>3, <1>4, <2>1, <3>1, MessageOf
    <3>3. g \in Nat /\ ScrubbedText(scrubbers'[g], first) \subseteq Tokens
      BY <1>1, <3>1, <3>2
    <3>4. u \in Message
      BY <2>5, <3>3 DEF Message
    <3>5. QED
      BY <3>1, <3>2, <3>4
  <2>7. chatHist' \in Seq(Message) /\ chatHist' # <<>>
    BY <1>1, <2>4, <2>6, AppendedSet
  <2>8. QED
    BY <1>6, <2>2, <2>4, <2>6, <2>7
<1>7. CASE ~ (chatHist # <<>> /\ Asks(r))
  <2>1. scrubbers' = [scrubbers EXCEPT ![g] = scrubbers[g]]
    BY <1>7 DEF ReadHist
  <2>2. scrubbers' = scrubbers
    BY <1>1, <1>3, <2>1
  <2>3. \A i \in 1..Len(scrubbers) : Len(scrubbers[i]) \in Nat
    BY <1>1
  <2>4. scrubbers' \in Seq(Seq(Addresses)) /\ Len(scrubbers') = Len(scrubbers) /\ Grown
    BY <1>1, <2>2, <2>3 DEF Grown
  <2>5. /\ chatHist' = (IF chatHist = <<>> THEN asked[r] ELSE chatHist)
        /\ asked' = [asked EXCEPT ![r] = chatHist']
    BY <1>7 DEF ReadHist, NextHist
  <2>6. QED
    BY <1>1, <1>3, <2>4, <2>5
<1>8. QED
  BY <1>6, <1>7

\* The second section: the restored answer is appended to what is there by then.
LEMMA AnswerDoes ==
  ASSUME TypeInv, NEW r \in Requests, NEW t \in Quotable(r), Answer(r, t)
  PROVE  /\ chatHist' \in Seq(Message) /\ chatHist' # <<>>
         /\ \E m \in Message :
              /\ chatHist' = Append(chatHist, m)
              /\ m.what = "reply" /\ m.by = r /\ m.gen = scrub[r] /\ m.tokens = {t}
              /\ m.clear = Restore(scrubbers[scrub[r]], t[1])
<1>1. /\ scrubbers \in Seq(Seq(Addresses)) /\ Len(scrubbers) \in Nat
      /\ asked[r] \in Seq(Message) /\ kind[r] \in Kinds /\ chatHist \in Seq(Message)
      /\ scrub[r] \in 0..Len(scrubbers) /\ scrub[r] \in Nat
  BY DEF TypeInv, TypeOK
<1>2. pc[r] = "reply" /\ kind[r] \in Chatting
  BY DEF Answer, Goto, TypeInv, OnCourse, Course
<1>3. scrub[r] \in 1..Len(scrubbers)
  BY <1>1, <1>2 DEF TypeInv, HoldsScrubber, Holds
<1>4. t \in Tokens
  <2>1. PICK q \in ToSet(asked[r]) : t \in q.tokens
    BY DEF Quotable
  <2>2. q \in Message
    BY <1>1, <2>1 DEF ToSet
  <2>3. QED
    BY <2>1, <2>2 DEF Message
<1>5. Restore(scrubbers[scrub[r]], t[1]) \subseteq Addresses
  <2>1. scrubbers[scrub[r]] \in Seq(Addresses)
    BY <1>1, <1>3
  <2> DEFINE map == scrubbers[scrub[r]]
  <2> HIDE DEF map
  <2>2. \A n \in DOMAIN map : map[n] \in Addresses
    BY <2>1 DEF map
  <2>3. QED
    BY <2>2 DEF Restore, map
<1> DEFINE m == [what |-> "reply", by |-> r, gen |-> scrub[r], tokens |-> {t},
                 clear |-> Restore(scrubbers[scrub[r]], t[1])]
<1>6. m \in Message
  BY <1>1, <1>4, <1>5 DEF Message
<1>7. chatHist' = Append(chatHist, m)
  BY DEF Answer
<1>8. /\ m.what = "reply" /\ m.by = r /\ m.gen = scrub[r] /\ m.tokens = {t}
      /\ m.clear = Restore(scrubbers[scrub[r]], t[1])
  OBVIOUS
<1> HIDE DEF m
<1>9. chatHist' \in Seq(Message) /\ chatHist' # <<>>
  BY <1>1, <1>6, <1>7, AppendedSet
<1>10. QED
  BY <1>6, <1>7, <1>8, <1>9

-----------------------------------------------------------------------------
\* Nothing is under way at first.
LEMMA TypeInit == Init => TypeInv
<1> SUFFICES ASSUME Init PROVE TypeInv
  OBVIOUS
<1>1. TypeOK
  <2>1. MaxFrames \in Nat \ {0} /\ "idle" \in Steps /\ 0 \in 0..Len(<<>>)
    BY DerivedAssumption DEF Steps
  <2>2. <<>> \in Seq(Seq(Addresses)) /\ <<>> \in Seq(Message)
    OBVIOUS
  <2>3. /\ current \in 0..Len(scrubbers) /\ \A r \in Requests : scrub[r] \in 0..Len(scrubbers)
    BY <2>1 DEF Init
  <2>4. /\ pc \in [Requests -> Steps] /\ topo \in [Requests -> 0..MaxFrames]
        /\ asked \in [Requests -> Seq(Message)] /\ matched \in [Requests -> SUBSET Requests]
    BY <2>1, <2>2 DEF Init
  <2>5. frames \in 1..MaxFrames
    BY <2>1 DEF Init
  <2>6. /\ scrubbers \in Seq(Seq(Addresses)) /\ chatHist \in Seq(Message)
        /\ graph \subseteq Requests /\ overlap \subseteq Requests /\ cut \subseteq Requests
    BY <2>2 DEF Init
  <2>7. QED
    BY <2>3, <2>4, <2>5, <2>6 DEF Init, TypeOK
<1>2. scrub \in [Requests -> Nat] /\ OnCourse /\ HoldsScrubber /\ OwnContext
  BY DEF Init, OnCourse, Course, HoldsScrubber, Holds, OwnContext
<1>3. QED
  BY <1>1, <1>2 DEF TypeInv

\* A request takes its next step, and holds what it held.
LEMMA Moved ==
  ASSUME TypeInv, NEW r \in Requests, NEW to \in Steps \ {"hist"},
         pc' = [pc EXCEPT ![r] = to], UNCHANGED <<kind, scrub, asked>>,
         Course(kind[r], to), Holds(kind[r], to, scrub[r])
  PROVE  /\ pc' \in [Requests -> Steps] /\ (scrub \in [Requests -> Nat])'
         /\ OnCourse' /\ HoldsScrubber' /\ OwnContext'
<1>1. pc \in [Requests -> Steps] /\ scrub \in [Requests -> Nat]
  BY DEF TypeInv, TypeOK
<1>2. pc' \in [Requests -> Steps] /\ pc'[r] = to /\ \A s \in Requests : s # r => pc'[s] = pc[s]
  BY <1>1
<1>3. OnCourse'
  BY <1>2 DEF TypeInv, OnCourse
<1>4. HoldsScrubber'
  BY <1>2 DEF TypeInv, HoldsScrubber
<1>5. OwnContext'
  BY <1>2 DEF TypeInv, OwnContext
<1>6. QED
  BY <1>1, <1>2, <1>3, <1>4, <1>5

\* Nothing changes for the requests.
LEMMA Stays ==
  ASSUME TypeInv, UNCHANGED <<pc, kind, scrub, asked>>
  PROVE  /\ pc' \in [Requests -> Steps] /\ (scrub \in [Requests -> Nat])'
         /\ OnCourse' /\ HoldsScrubber' /\ OwnContext'
<1>1. pc' \in [Requests -> Steps] /\ (scrub \in [Requests -> Nat])'
  BY DEF TypeInv, TypeOK
<1>2. OnCourse' /\ HoldsScrubber'
  BY DEF TypeInv, OnCourse, HoldsScrubber
<1>3. OwnContext'
  BY DEF TypeInv, OwnContext
<1>4. QED
  BY <1>1, <1>2, <1>3

\* Types, and what a request has at each of its steps.
LEMMA TypeStep == TypeInv /\ [Next]_vars => TypeInv'
<1> SUFFICES ASSUME TypeInv, [Next]_vars PROVE TypeInv'
  OBVIOUS
<1>1. TypeOK /\ OnCourse /\ HoldsScrubber
  BY DEF TypeInv
<1>2. ASSUME NEW r \in Requests, Begin(r) PROVE TypeInv'
  <2> DEFINE to == CASE kind[r] \in Chatting -> "scrubber"
                   [] kind[r] \in {"context", "topology"} -> "get"
                   [] kind[r] = "triage" -> "creds"
                   [] OTHER -> "access"
  <2>1. /\ pc' = [pc EXCEPT ![r] = to] /\ UNCHANGED <<kind, scrub, asked>>
        /\ to \in Steps \ {"hist"}
    BY <1>2 DEF Begin, Steps
  <2>2. Course(kind[r], to) /\ Holds(kind[r], to, scrub[r])
    BY <1>2, <1>1 DEF OnCourse, HoldsScrubber, Course, Holds, Chatting, TypeOK, Kinds, Begin
  <2> HIDE DEF to
  <2>3. pc' \in [Requests -> Steps] /\ (scrub \in [Requests -> Nat])'
        /\ OnCourse' /\ HoldsScrubber' /\ OwnContext'
    BY <2>1, <2>2, Moved
  <2>4. TypeOK'
    <3>1. /\ owned' \in BOOLEAN /\ stored' \in BOOLEAN /\ frames' \in 1..MaxFrames
          /\ maker' \in Requests \cup {NoRequest} /\ chatHist' \in Seq(Message)
          /\ aiSessions' \in Requests \cup {NoRequest} /\ graph' \subseteq Requests
          /\ kind' \in [Requests -> Kinds]
      BY <1>2, <1>1 DEF TypeOK, ai, Begin
    <3>2. /\ scrubbers' \in Seq(Seq(Addresses)) /\ current' \in 0..Len(scrubbers')
          /\ \A s \in Requests : scrub'[s] \in 0..Len(scrubbers')
      BY <1>2, <1>1 DEF TypeOK, ai, Begin
    <3>3. /\ topo' \in [Requests -> 0..MaxFrames] /\ asked' \in [Requests -> Seq(Message)]
          /\ matched' \in [Requests -> SUBSET Requests]
      BY <1>2, <1>1 DEF TypeOK, ai, Begin
    <3>4. /\ td' \in {"no", "graph", "pcap", "scrubber", "hist", "creds", "owner", "done"}
          /\ overlap' \subseteq Requests /\ cut' \subseteq Requests
          /\ dropped' \in BOOLEAN /\ kept' \in BOOLEAN
      BY <1>2, <1>1 DEF TypeOK, ai, Begin
    <3>5. QED
      BY <2>3, <3>1, <3>2, <3>3, <3>4 DEF TypeOK
  <2>5. QED
    BY <2>3, <2>4 DEF TypeInv
<1>3. ASSUME NEW r \in Requests, GetScrubber(r) PROVE TypeInv'
  <2>1. /\ pc[r] = "scrubber"
        /\ pc' = [pc EXCEPT ![r] = IF kind[r] = "context" THEN "export" ELSE "get"]
        /\ UNCHANGED <<owned, stored, frames, chatHist, aiSessions, graph, kind, topo, asked,
                       matched, td, overlap, cut, dropped, kept>>
    BY <1>3 DEF GetScrubber, Goto, history
  <2>2. /\ scrubbers' \in Seq(Seq(Addresses)) /\ Len(scrubbers) <= Len(scrubbers')
        /\ current' \in 1..Len(scrubbers') /\ scrub' = [scrub EXCEPT ![r] = current']
        /\ maker' \in Requests \cup {NoRequest}
    BY <1>3, GetScrubberDoes DEF GetScrubber, Grown
  <2>3. /\ owned \in BOOLEAN /\ stored \in BOOLEAN /\ frames \in 1..MaxFrames
        /\ maker \in Requests \cup {NoRequest} /\ chatHist \in Seq(Message)
        /\ aiSessions \in Requests \cup {NoRequest} /\ graph \subseteq Requests
        /\ pc \in [Requests -> Steps] /\ kind \in [Requests -> Kinds]
        /\ current \in 0..Len(scrubbers) /\ scrubbers \in Seq(Seq(Addresses))
        /\ scrub \in [Requests -> Nat] /\ \A s \in Requests : scrub[s] \in 0..Len(scrubbers)
        /\ topo \in [Requests -> 0..MaxFrames] /\ asked \in [Requests -> Seq(Message)]
    BY DEF TypeInv, TypeOK
  <2>4. Len(scrubbers) \in Nat /\ Len(scrubbers') \in Nat
    BY <2>2, <2>3, LenProperties
  <2>5. /\ pc' \in [Requests -> Steps] /\ \A s \in Requests : s # r => pc'[s] = pc[s]
        /\ pc'[r] = IF kind[r] = "context" THEN "export" ELSE "get"
    BY <2>1, <2>3 DEF Steps
  <2>6. /\ scrub' \in [Requests -> Nat] /\ scrub'[r] = current' /\ current' # 0
        /\ \A s \in Requests : s # r => scrub'[s] = scrub[s]
    BY <2>2, <2>3
  <2>7. \A s \in Requests : scrub'[s] \in 0..Len(scrubbers')
    BY <2>2, <2>3, <2>6, <2>4
  <2>8. TypeOK' /\ (scrub \in [Requests -> Nat])'
    <3>1. /\ owned' \in BOOLEAN /\ stored' \in BOOLEAN /\ frames' \in 1..MaxFrames
          /\ maker' \in Requests \cup {NoRequest} /\ chatHist' \in Seq(Message)
          /\ aiSessions' \in Requests \cup {NoRequest} /\ graph' \subseteq Requests
          /\ kind' \in [Requests -> Kinds]
      BY <2>1, <2>2, <2>3
    <3>2. /\ matched' \in [Requests -> SUBSET Requests] /\ overlap' \subseteq Requests
          /\ td' \in {"no", "graph", "pcap", "scrubber", "hist", "creds", "owner", "done"}
          /\ cut' \subseteq Requests /\ dropped' \in BOOLEAN /\ kept' \in BOOLEAN
      BY <2>1 DEF TypeInv, TypeOK
    <3>3. /\ current' \in 0..Len(scrubbers') /\ scrubbers' \in Seq(Seq(Addresses))
          /\ (scrub \in [Requests -> Nat])' /\ topo' \in [Requests -> 0..MaxFrames]
          /\ asked' \in [Requests -> Seq(Message)] /\ pc' \in [Requests -> Steps]
          /\ \A s \in Requests : scrub'[s] \in 0..Len(scrubbers')
      BY <2>1, <2>2, <2>3, <2>5, <2>6, <2>7
    <3>4. QED
      BY <3>1, <3>2, <3>3 DEF TypeOK
  <2>9. OnCourse'
    <3>1. kind[r] \in Chatting \cup {"context"}
      BY <2>1 DEF TypeInv, OnCourse, Course
    <3>2. QED
      BY <2>1, <2>5, <3>1 DEF TypeInv, OnCourse, Course, Chatting
  <2>10. HoldsScrubber'
    BY <2>1, <2>5, <2>6 DEF TypeInv, HoldsScrubber, Holds
  <2>11. OwnContext'
    BY <2>1, <2>5 DEF TypeInv, OwnContext
  <2>12. QED
    BY <2>8, <2>9, <2>10, <2>11 DEF TypeInv
<1>4. ASSUME NEW r \in Requests, GetSession(r) PROVE TypeInv'
  <2> DEFINE to == CASE ~stored -> "done"
                   [] stored /\ kind[r] = "reset" -> "reset"
                   [] stored /\ kind[r] = "context" -> "scrubber"
                   [] OTHER -> "export"
  <2>1. /\ pc' = [pc EXCEPT ![r] = to] /\ UNCHANGED <<kind, scrub, asked>>
        /\ to \in Steps \ {"hist"}
    BY <1>4 DEF GetSession, Steps
  <2>2. Course(kind[r], to) /\ Holds(kind[r], to, scrub[r])
    BY <1>4, <1>1
       DEF OnCourse, HoldsScrubber, Course, Holds, Chatting, TypeOK, Kinds, GetSession
  <2> HIDE DEF to
  <2>3. pc' \in [Requests -> Steps] /\ (scrub \in [Requests -> Nat])'
        /\ OnCourse' /\ HoldsScrubber' /\ OwnContext'
    BY <2>1, <2>2, Moved
  <2>4. TypeOK'
    <3>1. /\ owned' \in BOOLEAN /\ stored' \in BOOLEAN /\ frames' \in 1..MaxFrames
          /\ maker' \in Requests \cup {NoRequest} /\ chatHist' \in Seq(Message)
          /\ aiSessions' \in Requests \cup {NoRequest} /\ graph' \subseteq Requests
          /\ kind' \in [Requests -> Kinds]
      BY <1>4, <1>1 DEF TypeOK, ai, history, GetSession
    <3>2. /\ scrubbers' \in Seq(Seq(Addresses)) /\ current' \in 0..Len(scrubbers')
          /\ \A s \in Requests : scrub'[s] \in 0..Len(scrubbers')
      BY <1>4, <1>1 DEF TypeOK, ai, history, GetSession
    <3>3. /\ topo' \in [Requests -> 0..MaxFrames] /\ asked' \in [Requests -> Seq(Message)]
          /\ matched' \in [Requests -> SUBSET Requests]
      BY <1>4, <1>1 DEF TypeOK, ai, history, GetSession
    <3>4. /\ td' \in {"no", "graph", "pcap", "scrubber", "hist", "creds", "owner", "done"}
          /\ overlap' \subseteq Requests /\ cut' \subseteq Requests
          /\ dropped' \in BOOLEAN /\ kept' \in BOOLEAN
      BY <1>4, <1>1 DEF TypeOK, ai, history, GetSession
    <3>5. QED
      BY <2>3, <3>1, <3>2, <3>3, <3>4 DEF TypeOK
  <2>5. QED
    BY <2>3, <2>4 DEF TypeInv
<1>5. ASSUME NEW r \in Requests, ResetChat(r) PROVE TypeInv'
  <2> DEFINE to == "export"
  <2>1. /\ pc' = [pc EXCEPT ![r] = to] /\ UNCHANGED <<kind, scrub, asked>>
        /\ to \in Steps \ {"hist"}
    BY <1>5 DEF ResetChat, Goto, Steps
  <2>2. Course(kind[r], to) /\ Holds(kind[r], to, scrub[r])
    BY <1>5, <1>1
       DEF OnCourse, HoldsScrubber, Course, Holds, Chatting, TypeOK, Kinds, Goto, ResetChat
  <2> HIDE DEF to
  <2>3. pc' \in [Requests -> Steps] /\ (scrub \in [Requests -> Nat])'
        /\ OnCourse' /\ HoldsScrubber' /\ OwnContext'
    BY <2>1, <2>2, Moved
  <2>4. TypeOK'
    <3>1. /\ owned' \in BOOLEAN /\ stored' \in BOOLEAN /\ frames' \in 1..MaxFrames
          /\ maker' \in Requests \cup {NoRequest} /\ chatHist' \in Seq(Message)
          /\ aiSessions' \in Requests \cup {NoRequest} /\ graph' \subseteq Requests
          /\ kind' \in [Requests -> Kinds]
      BY <1>5, <1>1 DEF TypeOK, DropHist, Goto, ResetChat
    <3>2. /\ scrubbers' \in Seq(Seq(Addresses)) /\ current' \in 0..Len(scrubbers')
          /\ \A s \in Requests : scrub'[s] \in 0..Len(scrubbers')
      BY <1>5, <1>1 DEF TypeOK, DropHist, Goto, ResetChat
    <3>3. /\ topo' \in [Requests -> 0..MaxFrames] /\ asked' \in [Requests -> Seq(Message)]
          /\ matched' \in [Requests -> SUBSET Requests]
      BY <1>5, <1>1 DEF TypeOK, DropHist, Goto, ResetChat
    <3>4. /\ td' \in {"no", "graph", "pcap", "scrubber", "hist", "creds", "owner", "done"}
          /\ overlap' \subseteq Requests /\ cut' \subseteq Requests
          /\ dropped' \in BOOLEAN /\ kept' \in BOOLEAN
      BY <1>5, <1>1 DEF TypeOK, DropHist, Goto, ResetChat
    <3>5. QED
      BY <2>3, <3>1, <3>2, <3>3, <3>4 DEF TypeOK
  <2>5. QED
    BY <2>3, <2>4 DEF TypeInv
<1>6. ASSUME NEW r \in Requests, Export(r) PROVE TypeInv'
  <2>1. /\ pc[r] = "export"
        /\ pc' = [pc EXCEPT ![r] = IF kind[r] \in Chatting THEN "hist" ELSE "sync"]
        /\ UNCHANGED <<owned, stored, frames, current, maker, chatHist, aiSessions, graph,
                       kind, scrub, matched, td, overlap, cut, dropped, kept>>
        /\ topo' = [topo EXCEPT ![r] = frames]
    BY <1>6 DEF Export, Goto, history
  <2>2. /\ scrubbers' \in Seq(Seq(Addresses)) /\ Len(scrubbers') = Len(scrubbers)
        /\ asked' \in [Requests -> Seq(Message)]
        /\ \A s \in Requests : s # r => asked'[s] = asked[s]
        /\ kind[r] \in Chatting =>
             /\ asked'[r] # <<>> /\ Head(asked'[r]).what = "context"
             /\ \A m \in ToSet(asked'[r]) : m.what = "context" /\ m.by = r
    BY <1>6, ExportDoes
  <2>3. /\ owned \in BOOLEAN /\ stored \in BOOLEAN /\ frames \in 1..MaxFrames
        /\ maker \in Requests \cup {NoRequest} /\ chatHist \in Seq(Message)
        /\ aiSessions \in Requests \cup {NoRequest} /\ graph \subseteq Requests
        /\ pc \in [Requests -> Steps] /\ kind \in [Requests -> Kinds]
        /\ current \in 0..Len(scrubbers) /\ scrubbers \in Seq(Seq(Addresses))
        /\ scrub \in [Requests -> Nat] /\ \A s \in Requests : scrub[s] \in 0..Len(scrubbers)
        /\ topo \in [Requests -> 0..MaxFrames] /\ asked \in [Requests -> Seq(Message)]
    BY DEF TypeInv, TypeOK
  <2>4. Len(scrubbers) \in Nat /\ Len(scrubbers') \in Nat
    BY <2>2, <2>3, LenProperties
  <2>5. /\ pc' \in [Requests -> Steps] /\ \A s \in Requests : s # r => pc'[s] = pc[s]
        /\ pc'[r] = IF kind[r] \in Chatting THEN "hist" ELSE "sync"
    BY <2>1, <2>3 DEF Steps
  <2>6. /\ topo' \in [Requests -> 0..MaxFrames]
        /\ \A s \in Requests : scrub[s] \in 0..Len(scrubbers')
    <3>1. frames \in 0..MaxFrames
      BY <2>3
    <3>2. topo' \in [Requests -> 0..MaxFrames]
      BY <2>1, <2>3, <3>1
    <3>3. QED
      BY <2>2, <2>3, <2>4, <3>2
  <2>7. TypeOK' /\ (scrub \in [Requests -> Nat])'
    <3>1. /\ owned' \in BOOLEAN /\ stored' \in BOOLEAN /\ frames' \in 1..MaxFrames
          /\ maker' \in Requests \cup {NoRequest} /\ chatHist' \in Seq(Message)
          /\ aiSessions' \in Requests \cup {NoRequest} /\ graph' \subseteq Requests
          /\ kind' \in [Requests -> Kinds]
      BY <2>1, <2>2, <2>3
    <3>2. /\ matched' \in [Requests -> SUBSET Requests] /\ overlap' \subseteq Requests
          /\ td' \in {"no", "graph", "pcap", "scrubber", "hist", "creds", "owner", "done"}
          /\ cut' \subseteq Requests /\ dropped' \in BOOLEAN /\ kept' \in BOOLEAN
      BY <2>1 DEF TypeInv, TypeOK
    <3>3. /\ current' \in 0..Len(scrubbers') /\ scrubbers' \in Seq(Seq(Addresses))
          /\ (scrub \in [Requests -> Nat])' /\ topo' \in [Requests -> 0..MaxFrames]
          /\ asked' \in [Requests -> Seq(Message)] /\ pc' \in [Requests -> Steps]
          /\ \A s \in Requests : scrub'[s] \in 0..Len(scrubbers')
      BY <2>1, <2>2, <2>3, <2>5, <2>6
    <3>4. QED
      BY <3>1, <3>2, <3>3 DEF TypeOK
  <2>8. OnCourse'
    <3>1. kind[r] \in Chatting \cup {"context", "topology"}
      BY <2>1 DEF TypeInv, OnCourse, Course
    <3>2. QED
      BY <2>1, <2>5, <3>1 DEF TypeInv, OnCourse, Course, Chatting
  <2>9. HoldsScrubber'
    BY <2>1, <2>5 DEF TypeInv, HoldsScrubber, Holds, Chatting
  <2>10. OwnContext'
    <3>1. \A s \in Requests : pc'[s] = "hist" => s # r \/ kind[r] \in Chatting
      BY <2>5
    <3>2. ASSUME NEW s \in Requests, pc'[s] = "hist"
          PROVE  /\ asked'[s] # <<>> /\ Head(asked'[s]).what = "context"
                 /\ \A m \in ToSet(asked'[s]) : m.what = "context" /\ m.by = s
      <4>1. CASE s = r
        BY <2>2, <3>1, <3>2, <4>1
      <4>2. CASE s # r
        BY <2>2, <2>5, <3>2, <4>2 DEF TypeInv, OwnContext
      <4>3. QED
        BY <4>1, <4>2
    <3>3. QED
      BY <3>2 DEF OwnContext
  <2>11. QED
    BY <2>7, <2>8, <2>9, <2>10 DEF TypeInv
<1>7. ASSUME NEW r \in Requests, ReadHist(r) PROVE TypeInv'
  <2>1. /\ scrubbers' \in Seq(Seq(Addresses)) /\ Len(scrubbers') = Len(scrubbers)
        /\ chatHist' \in Seq(Message) /\ asked' = [asked EXCEPT ![r] = chatHist']
    BY <1>7, ReadHistDoes
  <2>2. /\ pc[r] = "hist" /\ pc' = [pc EXCEPT ![r] = pc'[r]] /\ pc'[r] \in {"done", "creds"}
        /\ UNCHANGED <<kind, scrub>>
    BY <1>7, <1>1 DEF ReadHist, Goto, TypeOK
  <2>3. /\ pc' \in [Requests -> Steps] /\ \A s \in Requests : s # r => pc'[s] = pc[s]
    BY <2>2, <1>1 DEF TypeOK, Steps
  <2>4. TypeOK' /\ (scrub \in [Requests -> Nat])'
    <3>1. /\ owned' \in BOOLEAN /\ stored' \in BOOLEAN /\ frames' \in 1..MaxFrames
          /\ maker' \in Requests \cup {NoRequest}
          /\ aiSessions' \in Requests \cup {NoRequest} /\ graph' \subseteq Requests
          /\ kind' \in [Requests -> Kinds]
      BY <1>7, <1>1 DEF TypeOK, history, ReadHist
    <3>2. /\ current' \in 0..Len(scrubbers') /\ (scrub \in [Requests -> Nat])'
          /\ \A s \in Requests : scrub'[s] \in 0..Len(scrubbers')
      BY <1>7, <2>1, <2>2 DEF TypeInv, TypeOK, ReadHist
    <3>3. /\ topo' \in [Requests -> 0..MaxFrames] /\ matched' \in [Requests -> SUBSET Requests]
      BY <1>7, <1>1 DEF TypeOK, ReadHist
    <3>4. asked' \in [Requests -> Seq(Message)]
      BY <2>1, <1>1 DEF TypeOK
    <3>5. /\ td' \in {"no", "graph", "pcap", "scrubber", "hist", "creds", "owner", "done"}
          /\ overlap' \subseteq Requests /\ cut' \subseteq Requests
          /\ dropped' \in BOOLEAN /\ kept' \in BOOLEAN
      BY <1>7, <1>1 DEF TypeOK, history, ReadHist
    <3>6. QED
      BY <2>1, <2>3, <3>1, <3>2, <3>3, <3>4, <3>5 DEF TypeOK
  <2>5. OnCourse'
    <3>1. kind[r] \in Chatting
      BY <2>2, <1>1 DEF OnCourse, Course
    <3>2. Course(kind[r], pc'[r])
      BY <2>2, <3>1 DEF Course
    <3>3. QED
      BY <2>2, <2>3, <3>2, <1>1 DEF OnCourse
  <2>6. HoldsScrubber'
    <3>1. Holds(kind[r], pc'[r], scrub[r])
      BY <2>2, <1>1 DEF HoldsScrubber, Holds
    <3>2. QED
      BY <2>2, <2>3, <3>1, <1>1 DEF HoldsScrubber
  <2>7. OwnContext'
    <3>1. \A s \in Requests : pc'[s] = "hist" => s # r /\ pc[s] = "hist" /\ asked'[s] = asked[s]
      BY <2>1, <2>2, <2>3, <1>1 DEF TypeOK
    <3>2. QED
      BY <3>1 DEF TypeInv, OwnContext
  <2>8. QED
    BY <2>4, <2>5, <2>6, <2>7 DEF TypeInv
<1>8. ASSUME NEW r \in Requests, StoreCreds(r) PROVE TypeInv'
  <2> DEFINE to == "reply"
  <2>1. /\ pc' = [pc EXCEPT ![r] = to] /\ UNCHANGED <<kind, scrub, asked>>
        /\ to \in Steps \ {"hist"}
    BY <1>8 DEF StoreCreds, Goto, Steps
  <2>2. Course(kind[r], to) /\ Holds(kind[r], to, scrub[r])
    BY <1>8, <1>1
       DEF OnCourse, HoldsScrubber, Course, Holds, Chatting, TypeOK, Kinds, Goto, StoreCreds
  <2> HIDE DEF to
  <2>3. pc' \in [Requests -> Steps] /\ (scrub \in [Requests -> Nat])'
        /\ OnCourse' /\ HoldsScrubber' /\ OwnContext'
    BY <2>1, <2>2, Moved
  <2>4. TypeOK'
    <3>1. /\ owned' \in BOOLEAN /\ stored' \in BOOLEAN /\ frames' \in 1..MaxFrames
          /\ maker' \in Requests \cup {NoRequest} /\ chatHist' \in Seq(Message)
          /\ aiSessions' \in Requests \cup {NoRequest} /\ graph' \subseteq Requests
          /\ kind' \in [Requests -> Kinds]
      BY <1>8, <1>1 DEF TypeOK, history, Goto, StoreCreds
    <3>2. /\ scrubbers' \in Seq(Seq(Addresses)) /\ current' \in 0..Len(scrubbers')
          /\ \A s \in Requests : scrub'[s] \in 0..Len(scrubbers')
      BY <1>8, <1>1 DEF TypeOK, history, Goto, StoreCreds
    <3>3. /\ topo' \in [Requests -> 0..MaxFrames] /\ asked' \in [Requests -> Seq(Message)]
          /\ matched' \in [Requests -> SUBSET Requests]
      BY <1>8, <1>1 DEF TypeOK, history, Goto, StoreCreds
    <3>4. /\ td' \in {"no", "graph", "pcap", "scrubber", "hist", "creds", "owner", "done"}
          /\ overlap' \subseteq Requests /\ cut' \subseteq Requests
          /\ dropped' \in BOOLEAN /\ kept' \in BOOLEAN
      BY <1>8, <1>1 DEF TypeOK, history, Goto, StoreCreds
    <3>5. QED
      BY <2>3, <3>1, <3>2, <3>3, <3>4 DEF TypeOK
  <2>5. QED
    BY <2>3, <2>4 DEF TypeInv
<1>9. ASSUME NEW r \in Requests, \E t \in Quotable(r) : Answer(r, t) PROVE TypeInv'
  <2>1. PICK t \in Quotable(r) : Answer(r, t)
    BY <1>9
  <2>2. chatHist' \in Seq(Message)
    BY <2>1, AnswerDoes
  <2> DEFINE to == "done"
  <2>3. /\ pc' = [pc EXCEPT ![r] = to] /\ UNCHANGED <<kind, scrub, asked>>
        /\ to \in Steps \ {"hist"}
    BY <2>1 DEF Answer, Goto, Steps
  <2>4. Course(kind[r], to) /\ Holds(kind[r], to, scrub[r])
    BY <2>1, <1>1
       DEF OnCourse, HoldsScrubber, Course, Holds, Chatting, TypeOK, Kinds, Goto, Answer
  <2> HIDE DEF to
  <2>5. pc' \in [Requests -> Steps] /\ (scrub \in [Requests -> Nat])'
        /\ OnCourse' /\ HoldsScrubber' /\ OwnContext'
    BY <2>3, <2>4, Moved
  <2>6. TypeOK'
    <3>1. /\ owned' \in BOOLEAN /\ stored' \in BOOLEAN /\ frames' \in 1..MaxFrames
          /\ maker' \in Requests \cup {NoRequest} /\ chatHist' \in Seq(Message)
          /\ aiSessions' \in Requests \cup {NoRequest} /\ graph' \subseteq Requests
          /\ kind' \in [Requests -> Kinds]
      BY <2>1, <2>2, <1>1 DEF TypeOK, history, Goto, Answer
    <3>2. /\ scrubbers' \in Seq(Seq(Addresses)) /\ current' \in 0..Len(scrubbers')
          /\ \A s \in Requests : scrub'[s] \in 0..Len(scrubbers')
      BY <2>1, <2>2, <1>1 DEF TypeOK, history, Goto, Answer
    <3>3. /\ topo' \in [Requests -> 0..MaxFrames] /\ asked' \in [Requests -> Seq(Message)]
          /\ matched' \in [Requests -> SUBSET Requests]
      BY <2>1, <2>2, <1>1 DEF TypeOK, history, Goto, Answer
    <3>4. /\ td' \in {"no", "graph", "pcap", "scrubber", "hist", "creds", "owner", "done"}
          /\ overlap' \subseteq Requests /\ cut' \subseteq Requests
          /\ dropped' \in BOOLEAN /\ kept' \in BOOLEAN
      BY <2>1, <2>2, <1>1 DEF TypeOK, history, Goto, Answer
    <3>5. QED
      BY <2>5, <3>1, <3>2, <3>3, <3>4 DEF TypeOK
  <2>7. QED
    BY <2>5, <2>6 DEF TypeInv
<1>10. ASSUME NEW r \in Requests, CallFails(r) PROVE TypeInv'
  <2> DEFINE to == "done"
  <2>1. /\ pc' = [pc EXCEPT ![r] = to] /\ UNCHANGED <<kind, scrub, asked>>
        /\ to \in Steps \ {"hist"}
    BY <1>10 DEF CallFails, Goto, Steps
  <2>2. Course(kind[r], to) /\ Holds(kind[r], to, scrub[r])
    BY <1>10, <1>1
       DEF OnCourse, HoldsScrubber, Course, Holds, Chatting, TypeOK, Kinds, Goto, CallFails
  <2> HIDE DEF to
  <2>3. pc' \in [Requests -> Steps] /\ (scrub \in [Requests -> Nat])'
        /\ OnCourse' /\ HoldsScrubber' /\ OwnContext'
    BY <2>1, <2>2, Moved
  <2>4. TypeOK'
    <3>1. /\ owned' \in BOOLEAN /\ stored' \in BOOLEAN /\ frames' \in 1..MaxFrames
          /\ maker' \in Requests \cup {NoRequest} /\ chatHist' \in Seq(Message)
          /\ aiSessions' \in Requests \cup {NoRequest} /\ graph' \subseteq Requests
          /\ kind' \in [Requests -> Kinds]
      BY <1>10, <1>1 DEF TypeOK, ai, history, Goto, CallFails
    <3>2. /\ scrubbers' \in Seq(Seq(Addresses)) /\ current' \in 0..Len(scrubbers')
          /\ \A s \in Requests : scrub'[s] \in 0..Len(scrubbers')
      BY <1>10, <1>1 DEF TypeOK, ai, history, Goto, CallFails
    <3>3. /\ topo' \in [Requests -> 0..MaxFrames] /\ asked' \in [Requests -> Seq(Message)]
          /\ matched' \in [Requests -> SUBSET Requests]
      BY <1>10, <1>1 DEF TypeOK, ai, history, Goto, CallFails
    <3>4. /\ td' \in {"no", "graph", "pcap", "scrubber", "hist", "creds", "owner", "done"}
          /\ overlap' \subseteq Requests /\ cut' \subseteq Requests
          /\ dropped' \in BOOLEAN /\ kept' \in BOOLEAN
      BY <1>10, <1>1 DEF TypeOK, ai, history, Goto, CallFails
    <3>5. QED
      BY <2>3, <3>1, <3>2, <3>3, <3>4 DEF TypeOK
  <2>5. QED
    BY <2>3, <2>4 DEF TypeInv
<1>11. ASSUME NEW r \in Requests, FlushScrubber(r) PROVE TypeInv'
  <2> DEFINE to == "dropHist"
  <2>1. /\ pc' = [pc EXCEPT ![r] = to] /\ UNCHANGED <<kind, scrub, asked>>
        /\ to \in Steps \ {"hist"}
    BY <1>11 DEF FlushScrubber, Goto, Steps
  <2>2. Course(kind[r], to) /\ Holds(kind[r], to, scrub[r])
    BY <1>11, <1>1
       DEF OnCourse, HoldsScrubber, Course, Holds, Chatting, TypeOK, Kinds, Goto, FlushScrubber
  <2> HIDE DEF to
  <2>3. pc' \in [Requests -> Steps] /\ (scrub \in [Requests -> Nat])'
        /\ OnCourse' /\ HoldsScrubber' /\ OwnContext'
    BY <2>1, <2>2, Moved
  <2>4. TypeOK'
    <3>1. /\ owned' \in BOOLEAN /\ stored' \in BOOLEAN /\ frames' \in 1..MaxFrames
          /\ maker' \in Requests \cup {NoRequest} /\ chatHist' \in Seq(Message)
          /\ aiSessions' \in Requests \cup {NoRequest} /\ graph' \subseteq Requests
          /\ kind' \in [Requests -> Kinds]
      BY <1>11, <1>1 DEF TypeOK, DropScrubber, Goto, FlushScrubber
    <3>2. /\ scrubbers' \in Seq(Seq(Addresses)) /\ current' \in 0..Len(scrubbers')
          /\ \A s \in Requests : scrub'[s] \in 0..Len(scrubbers')
      BY <1>11, <1>1 DEF TypeOK, DropScrubber, Goto, FlushScrubber
    <3>3. /\ topo' \in [Requests -> 0..MaxFrames] /\ asked' \in [Requests -> Seq(Message)]
          /\ matched' \in [Requests -> SUBSET Requests]
      BY <1>11, <1>1 DEF TypeOK, DropScrubber, Goto, FlushScrubber
    <3>4. /\ td' \in {"no", "graph", "pcap", "scrubber", "hist", "creds", "owner", "done"}
          /\ overlap' \subseteq Requests /\ cut' \subseteq Requests
          /\ dropped' \in BOOLEAN /\ kept' \in BOOLEAN
      BY <1>11, <1>1 DEF TypeOK, DropScrubber, Goto, FlushScrubber
    <3>5. QED
      BY <2>3, <3>1, <3>2, <3>3, <3>4 DEF TypeOK
  <2>5. QED
    BY <2>3, <2>4 DEF TypeInv
<1>12. ASSUME NEW r \in Requests, FlushHist(r) PROVE TypeInv'
  <2> DEFINE to == "dropCreds"
  <2>1. /\ pc' = [pc EXCEPT ![r] = to] /\ UNCHANGED <<kind, scrub, asked>>
        /\ to \in Steps \ {"hist"}
    BY <1>12 DEF FlushHist, Goto, Steps
  <2>2. Course(kind[r], to) /\ Holds(kind[r], to, scrub[r])
    BY <1>12, <1>1
       DEF OnCourse, HoldsScrubber, Course, Holds, Chatting, TypeOK, Kinds, Goto, FlushHist
  <2> HIDE DEF to
  <2>3. pc' \in [Requests -> Steps] /\ (scrub \in [Requests -> Nat])'
        /\ OnCourse' /\ HoldsScrubber' /\ OwnContext'
    BY <2>1, <2>2, Moved
  <2>4. TypeOK'
    <3>1. /\ owned' \in BOOLEAN /\ stored' \in BOOLEAN /\ frames' \in 1..MaxFrames
          /\ maker' \in Requests \cup {NoRequest} /\ chatHist' \in Seq(Message)
          /\ aiSessions' \in Requests \cup {NoRequest} /\ graph' \subseteq Requests
          /\ kind' \in [Requests -> Kinds]
      BY <1>12, <1>1 DEF TypeOK, DropHist, Goto, FlushHist
    <3>2. /\ scrubbers' \in Seq(Seq(Addresses)) /\ current' \in 0..Len(scrubbers')
          /\ \A s \in Requests : scrub'[s] \in 0..Len(scrubbers')
      BY <1>12, <1>1 DEF TypeOK, DropHist, Goto, FlushHist
    <3>3. /\ topo' \in [Requests -> 0..MaxFrames] /\ asked' \in [Requests -> Seq(Message)]
          /\ matched' \in [Requests -> SUBSET Requests]
      BY <1>12, <1>1 DEF TypeOK, DropHist, Goto, FlushHist
    <3>4. /\ td' \in {"no", "graph", "pcap", "scrubber", "hist", "creds", "owner", "done"}
          /\ overlap' \subseteq Requests /\ cut' \subseteq Requests
          /\ dropped' \in BOOLEAN /\ kept' \in BOOLEAN
      BY <1>12, <1>1 DEF TypeOK, DropHist, Goto, FlushHist
    <3>5. QED
      BY <2>3, <3>1, <3>2, <3>3, <3>4 DEF TypeOK
  <2>5. QED
    BY <2>3, <2>4 DEF TypeInv
<1>13. ASSUME NEW r \in Requests, FlushCreds(r) PROVE TypeInv'
  <2> DEFINE to == IF kind[r] = "flush" THEN "done" ELSE "dropCreds"
  <2>1. /\ pc' = [pc EXCEPT ![r] = to] /\ UNCHANGED <<kind, scrub, asked>>
        /\ to \in Steps \ {"hist"}
    BY <1>13 DEF FlushCreds, Goto, Steps
  <2>2. Course(kind[r], to) /\ Holds(kind[r], to, scrub[r])
    BY <1>13, <1>1
       DEF OnCourse, HoldsScrubber, Course, Holds, Chatting, TypeOK, Kinds, Goto, FlushCreds
  <2> HIDE DEF to
  <2>3. pc' \in [Requests -> Steps] /\ (scrub \in [Requests -> Nat])'
        /\ OnCourse' /\ HoldsScrubber' /\ OwnContext'
    BY <2>1, <2>2, Moved
  <2>4. TypeOK'
    <3>1. /\ owned' \in BOOLEAN /\ stored' \in BOOLEAN /\ frames' \in 1..MaxFrames
          /\ maker' \in Requests \cup {NoRequest} /\ chatHist' \in Seq(Message)
          /\ aiSessions' \in Requests \cup {NoRequest} /\ graph' \subseteq Requests
          /\ kind' \in [Requests -> Kinds]
      BY <1>13, <1>1 DEF TypeOK, history, Goto, FlushCreds
    <3>2. /\ scrubbers' \in Seq(Seq(Addresses)) /\ current' \in 0..Len(scrubbers')
          /\ \A s \in Requests : scrub'[s] \in 0..Len(scrubbers')
      BY <1>13, <1>1 DEF TypeOK, history, Goto, FlushCreds
    <3>3. /\ topo' \in [Requests -> 0..MaxFrames] /\ asked' \in [Requests -> Seq(Message)]
          /\ matched' \in [Requests -> SUBSET Requests]
      BY <1>13, <1>1 DEF TypeOK, history, Goto, FlushCreds
    <3>4. /\ td' \in {"no", "graph", "pcap", "scrubber", "hist", "creds", "owner", "done"}
          /\ overlap' \subseteq Requests /\ cut' \subseteq Requests
          /\ dropped' \in BOOLEAN /\ kept' \in BOOLEAN
      BY <1>13, <1>1 DEF TypeOK, history, Goto, FlushCreds
    <3>5. QED
      BY <2>3, <3>1, <3>2, <3>3, <3>4 DEF TypeOK
  <2>5. QED
    BY <2>3, <2>4 DEF TypeInv
<1>14. ASSUME NEW r \in Requests, ResetMaps(r) PROVE TypeInv'
  <2> DEFINE to == "done"
  <2>1. /\ pc' = [pc EXCEPT ![r] = to] /\ UNCHANGED <<kind, scrub, asked>>
        /\ to \in Steps \ {"hist"}
    BY <1>14 DEF ResetMaps, Goto, Steps
  <2>2. Course(kind[r], to) /\ Holds(kind[r], to, scrub[r])
    BY <1>14, <1>1
       DEF OnCourse, HoldsScrubber, Course, Holds, Chatting, TypeOK, Kinds, Goto, ResetMaps
  <2> HIDE DEF to
  <2>3. pc' \in [Requests -> Steps] /\ (scrub \in [Requests -> Nat])'
        /\ OnCourse' /\ HoldsScrubber' /\ OwnContext'
    BY <2>1, <2>2, Moved
  <2>4. TypeOK'
    <3>1. /\ owned' \in BOOLEAN /\ stored' \in BOOLEAN /\ frames' \in 1..MaxFrames
          /\ maker' \in Requests \cup {NoRequest} /\ chatHist' \in Seq(Message)
          /\ aiSessions' \in Requests \cup {NoRequest} /\ graph' \subseteq Requests
          /\ kind' \in [Requests -> Kinds]
      BY <1>14, <1>1 DEF TypeOK, DropScrubber, Goto, ResetMaps
    <3>2. /\ scrubbers' \in Seq(Seq(Addresses)) /\ current' \in 0..Len(scrubbers')
          /\ \A s \in Requests : scrub'[s] \in 0..Len(scrubbers')
      BY <1>14, <1>1 DEF TypeOK, DropScrubber, Goto, ResetMaps
    <3>3. /\ topo' \in [Requests -> 0..MaxFrames] /\ asked' \in [Requests -> Seq(Message)]
          /\ matched' \in [Requests -> SUBSET Requests]
      BY <1>14, <1>1 DEF TypeOK, DropScrubber, Goto, ResetMaps
    <3>4. /\ td' \in {"no", "graph", "pcap", "scrubber", "hist", "creds", "owner", "done"}
          /\ overlap' \subseteq Requests /\ cut' \subseteq Requests
          /\ dropped' \in BOOLEAN /\ kept' \in BOOLEAN
      BY <1>14, <1>1 DEF TypeOK, DropScrubber, Goto, ResetMaps
    <3>5. QED
      BY <2>3, <3>1, <3>2, <3>3, <3>4 DEF TypeOK
  <2>5. QED
    BY <2>3, <2>4 DEF TypeInv
<1>15. ASSUME NEW r \in Requests, Triage(r) PROVE TypeInv'
  <2> DEFINE to == "done"
  <2>1. /\ pc' = [pc EXCEPT ![r] = to] /\ UNCHANGED <<kind, scrub, asked>>
        /\ to \in Steps \ {"hist"}
    BY <1>15 DEF Triage, Goto, Steps
  <2>2. Course(kind[r], to) /\ Holds(kind[r], to, scrub[r])
    BY <1>15, <1>1
       DEF OnCourse, HoldsScrubber, Course, Holds, Chatting, TypeOK, Kinds, Goto, Triage
  <2> HIDE DEF to
  <2>3. pc' \in [Requests -> Steps] /\ (scrub \in [Requests -> Nat])'
        /\ OnCourse' /\ HoldsScrubber' /\ OwnContext'
    BY <2>1, <2>2, Moved
  <2>4. TypeOK'
    <3>1. /\ owned' \in BOOLEAN /\ stored' \in BOOLEAN /\ frames' \in 1..MaxFrames
          /\ maker' \in Requests \cup {NoRequest} /\ chatHist' \in Seq(Message)
          /\ aiSessions' \in Requests \cup {NoRequest} /\ graph' \subseteq Requests
          /\ kind' \in [Requests -> Kinds]
      BY <1>15, <1>1 DEF TypeOK, history, Goto, Triage
    <3>2. /\ scrubbers' \in Seq(Seq(Addresses)) /\ current' \in 0..Len(scrubbers')
          /\ \A s \in Requests : scrub'[s] \in 0..Len(scrubbers')
      BY <1>15, <1>1 DEF TypeOK, history, Goto, Triage
    <3>3. /\ topo' \in [Requests -> 0..MaxFrames] /\ asked' \in [Requests -> Seq(Message)]
          /\ matched' \in [Requests -> SUBSET Requests]
      BY <1>15, <1>1 DEF TypeOK, history, Goto, Triage
    <3>4. /\ td' \in {"no", "graph", "pcap", "scrubber", "hist", "creds", "owner", "done"}
          /\ overlap' \subseteq Requests /\ cut' \subseteq Requests
          /\ dropped' \in BOOLEAN /\ kept' \in BOOLEAN
      BY <1>15, <1>1 DEF TypeOK, history, Goto, Triage
    <3>5. QED
      BY <2>3, <3>1, <3>2, <3>3, <3>4 DEF TypeOK
  <2>5. QED
    BY <2>3, <2>4 DEF TypeInv
<1>16. ASSUME NEW r \in Requests, SkipSync(r) PROVE TypeInv'
  <2> DEFINE to == "done"
  <2>1. /\ pc' = [pc EXCEPT ![r] = to] /\ UNCHANGED <<kind, scrub, asked>>
        /\ to \in Steps \ {"hist"}
    BY <1>16 DEF SkipSync, Goto, Steps
  <2>2. Course(kind[r], to) /\ Holds(kind[r], to, scrub[r])
    BY <1>16, <1>1
       DEF OnCourse, HoldsScrubber, Course, Holds, Chatting, TypeOK, Kinds, Goto, SkipSync
  <2> HIDE DEF to
  <2>3. pc' \in [Requests -> Steps] /\ (scrub \in [Requests -> Nat])'
        /\ OnCourse' /\ HoldsScrubber' /\ OwnContext'
    BY <2>1, <2>2, Moved
  <2>4. TypeOK'
    <3>1. /\ owned' \in BOOLEAN /\ stored' \in BOOLEAN /\ frames' \in 1..MaxFrames
          /\ maker' \in Requests \cup {NoRequest} /\ chatHist' \in Seq(Message)
          /\ aiSessions' \in Requests \cup {NoRequest} /\ graph' \subseteq Requests
          /\ kind' \in [Requests -> Kinds]
      BY <1>16, <1>1 DEF TypeOK, ai, history, Goto, SkipSync
    <3>2. /\ scrubbers' \in Seq(Seq(Addresses)) /\ current' \in 0..Len(scrubbers')
          /\ \A s \in Requests : scrub'[s] \in 0..Len(scrubbers')
      BY <1>16, <1>1 DEF TypeOK, ai, history, Goto, SkipSync
    <3>3. /\ topo' \in [Requests -> 0..MaxFrames] /\ asked' \in [Requests -> Seq(Message)]
          /\ matched' \in [Requests -> SUBSET Requests]
      BY <1>16, <1>1 DEF TypeOK, ai, history, Goto, SkipSync
    <3>4. /\ td' \in {"no", "graph", "pcap", "scrubber", "hist", "creds", "owner", "done"}
          /\ overlap' \subseteq Requests /\ cut' \subseteq Requests
          /\ dropped' \in BOOLEAN /\ kept' \in BOOLEAN
      BY <1>16, <1>1 DEF TypeOK, ai, history, Goto, SkipSync
    <3>5. QED
      BY <2>3, <3>1, <3>2, <3>3, <3>4 DEF TypeOK
  <2>5. QED
    BY <2>3, <2>4 DEF TypeInv
<1>17. ASSUME NEW r \in Requests, MatchRows(r) PROVE TypeInv'
  <2> DEFINE to == "commit"
  <2>1. /\ pc' = [pc EXCEPT ![r] = to] /\ UNCHANGED <<kind, scrub, asked>>
        /\ to \in Steps \ {"hist"}
    BY <1>17 DEF MatchRows, Goto, Steps
  <2>2. Course(kind[r], to) /\ Holds(kind[r], to, scrub[r])
    BY <1>17, <1>1
       DEF OnCourse, HoldsScrubber, Course, Holds, Chatting, TypeOK, Kinds, Goto, MatchRows
  <2> HIDE DEF to
  <2>3. pc' \in [Requests -> Steps] /\ (scrub \in [Requests -> Nat])'
        /\ OnCourse' /\ HoldsScrubber' /\ OwnContext'
    BY <2>1, <2>2, Moved
  <2>4. TypeOK'
    <3>1. /\ owned' \in BOOLEAN /\ stored' \in BOOLEAN /\ frames' \in 1..MaxFrames
          /\ maker' \in Requests \cup {NoRequest} /\ chatHist' \in Seq(Message)
          /\ aiSessions' \in Requests \cup {NoRequest} /\ graph' \subseteq Requests
          /\ kind' \in [Requests -> Kinds]
      BY <1>17, <1>1 DEF TypeOK, ai, history, Goto, MatchRows
    <3>2. /\ scrubbers' \in Seq(Seq(Addresses)) /\ current' \in 0..Len(scrubbers')
          /\ \A s \in Requests : scrub'[s] \in 0..Len(scrubbers')
      BY <1>17, <1>1 DEF TypeOK, ai, history, Goto, MatchRows
    <3>3. /\ topo' \in [Requests -> 0..MaxFrames] /\ asked' \in [Requests -> Seq(Message)]
          /\ matched' \in [Requests -> SUBSET Requests]
      BY <1>17, <1>1 DEF TypeOK, ai, history, Goto, MatchRows
    <3>4. /\ td' \in {"no", "graph", "pcap", "scrubber", "hist", "creds", "owner", "done"}
          /\ overlap' \subseteq Requests /\ cut' \subseteq Requests
          /\ dropped' \in BOOLEAN /\ kept' \in BOOLEAN
      BY <1>17, <1>1 DEF TypeOK, ai, history, Goto, MatchRows
    <3>5. QED
      BY <2>3, <3>1, <3>2, <3>3, <3>4 DEF TypeOK
  <2>5. QED
    BY <2>3, <2>4 DEF TypeInv
<1>18. ASSUME NEW r \in Requests, Commit(r) PROVE TypeInv'
  <2> DEFINE to == "done"
  <2>1. /\ pc' = [pc EXCEPT ![r] = to] /\ UNCHANGED <<kind, scrub, asked>>
        /\ to \in Steps \ {"hist"}
    BY <1>18 DEF Commit, Goto, Steps
  <2>2. Course(kind[r], to) /\ Holds(kind[r], to, scrub[r])
    BY <1>18, <1>1
       DEF OnCourse, HoldsScrubber, Course, Holds, Chatting, TypeOK, Kinds, Goto, Commit
  <2> HIDE DEF to
  <2>3. pc' \in [Requests -> Steps] /\ (scrub \in [Requests -> Nat])'
        /\ OnCourse' /\ HoldsScrubber' /\ OwnContext'
    BY <2>1, <2>2, Moved
  <2>4. TypeOK'
    <3>1. /\ owned' \in BOOLEAN /\ stored' \in BOOLEAN /\ frames' \in 1..MaxFrames
          /\ maker' \in Requests \cup {NoRequest} /\ chatHist' \in Seq(Message)
          /\ aiSessions' \in Requests \cup {NoRequest} /\ graph' \subseteq Requests
          /\ kind' \in [Requests -> Kinds]
      BY <1>18, <1>1 DEF TypeOK, ai, history, Goto, Commit
    <3>2. /\ scrubbers' \in Seq(Seq(Addresses)) /\ current' \in 0..Len(scrubbers')
          /\ \A s \in Requests : scrub'[s] \in 0..Len(scrubbers')
      BY <1>18, <1>1 DEF TypeOK, ai, history, Goto, Commit
    <3>3. /\ topo' \in [Requests -> 0..MaxFrames] /\ asked' \in [Requests -> Seq(Message)]
          /\ matched' \in [Requests -> SUBSET Requests]
      BY <1>18, <1>1 DEF TypeOK, ai, history, Goto, Commit
    <3>4. /\ td' \in {"no", "graph", "pcap", "scrubber", "hist", "creds", "owner", "done"}
          /\ overlap' \subseteq Requests /\ cut' \subseteq Requests
          /\ dropped' \in BOOLEAN /\ kept' \in BOOLEAN
      BY <1>18, <1>1 DEF TypeOK, ai, history, Goto, Commit
    <3>5. QED
      BY <2>3, <3>1, <3>2, <3>3, <3>4 DEF TypeOK
  <2>5. QED
    BY <2>3, <2>4 DEF TypeInv
<1>19. ASSUME NEW r \in Requests, CommitFails(r) PROVE TypeInv'
  <2> DEFINE to == "done"
  <2>1. /\ pc' = [pc EXCEPT ![r] = to] /\ UNCHANGED <<kind, scrub, asked>>
        /\ to \in Steps \ {"hist"}
    BY <1>19 DEF CommitFails, Goto, Steps
  <2>2. Course(kind[r], to) /\ Holds(kind[r], to, scrub[r])
    BY <1>19, <1>1
       DEF OnCourse, HoldsScrubber, Course, Holds, Chatting, TypeOK, Kinds, Goto, CommitFails
  <2> HIDE DEF to
  <2>3. pc' \in [Requests -> Steps] /\ (scrub \in [Requests -> Nat])'
        /\ OnCourse' /\ HoldsScrubber' /\ OwnContext'
    BY <2>1, <2>2, Moved
  <2>4. TypeOK'
    <3>1. /\ owned' \in BOOLEAN /\ stored' \in BOOLEAN /\ frames' \in 1..MaxFrames
          /\ maker' \in Requests \cup {NoRequest} /\ chatHist' \in Seq(Message)
          /\ aiSessions' \in Requests \cup {NoRequest} /\ graph' \subseteq Requests
          /\ kind' \in [Requests -> Kinds]
      BY <1>19, <1>1 DEF TypeOK, ai, history, Goto, CommitFails
    <3>2. /\ scrubbers' \in Seq(Seq(Addresses)) /\ current' \in 0..Len(scrubbers')
          /\ \A s \in Requests : scrub'[s] \in 0..Len(scrubbers')
      BY <1>19, <1>1 DEF TypeOK, ai, history, Goto, CommitFails
    <3>3. /\ topo' \in [Requests -> 0..MaxFrames] /\ asked' \in [Requests -> Seq(Message)]
          /\ matched' \in [Requests -> SUBSET Requests]
      BY <1>19, <1>1 DEF TypeOK, ai, history, Goto, CommitFails
    <3>4. /\ td' \in {"no", "graph", "pcap", "scrubber", "hist", "creds", "owner", "done"}
          /\ overlap' \subseteq Requests /\ cut' \subseteq Requests
          /\ dropped' \in BOOLEAN /\ kept' \in BOOLEAN
      BY <1>19, <1>1 DEF TypeOK, ai, history, Goto, CommitFails
    <3>5. QED
      BY <2>3, <3>1, <3>2, <3>3, <3>4 DEF TypeOK
  <2>5. QED
    BY <2>3, <2>4 DEF TypeInv
<1>20. ASSUME AppendFlow PROVE TypeInv'
  <2>1. /\ pc' \in [Requests -> Steps] /\ (scrub \in [Requests -> Nat])'
        /\ OnCourse' /\ HoldsScrubber' /\ OwnContext'
    <3>1. UNCHANGED <<pc, kind, scrub, asked>>
      BY <1>20 DEF local, AppendFlow
    <3>2. QED
      BY <3>1, Stays
  <2>2. TypeOK'
    <3>1. /\ owned' \in BOOLEAN /\ stored' \in BOOLEAN /\ frames' \in 1..MaxFrames
          /\ maker' \in Requests \cup {NoRequest} /\ chatHist' \in Seq(Message)
          /\ aiSessions' \in Requests \cup {NoRequest} /\ graph' \subseteq Requests
          /\ kind' \in [Requests -> Kinds]
      BY <1>20, <1>1, DerivedAssumption DEF TypeOK, local, ai, history, AppendFlow
    <3>2. /\ scrubbers' \in Seq(Seq(Addresses)) /\ current' \in 0..Len(scrubbers')
          /\ \A s \in Requests : scrub'[s] \in 0..Len(scrubbers')
      BY <1>20, <1>1 DEF TypeOK, local, ai, history, AppendFlow
    <3>3. /\ topo' \in [Requests -> 0..MaxFrames] /\ asked' \in [Requests -> Seq(Message)]
          /\ matched' \in [Requests -> SUBSET Requests]
      BY <1>20, <1>1 DEF TypeOK, local, ai, history, AppendFlow
    <3>4. /\ td' \in {"no", "graph", "pcap", "scrubber", "hist", "creds", "owner", "done"}
          /\ overlap' \subseteq Requests /\ cut' \subseteq Requests
          /\ dropped' \in BOOLEAN /\ kept' \in BOOLEAN
      BY <1>20, <1>1 DEF TypeOK, local, ai, history, AppendFlow
    <3>5. QED
      BY <2>1, <3>1, <3>2, <3>3, <3>4 DEF TypeOK
  <2>3. QED
    BY <2>1, <2>2 DEF TypeInv
<1>21. ASSUME TdBegin PROVE TypeInv'
  <2>1. /\ pc' \in [Requests -> Steps] /\ (scrub \in [Requests -> Nat])'
        /\ OnCourse' /\ HoldsScrubber' /\ OwnContext'
    <3>1. UNCHANGED <<pc, kind, scrub, asked>>
      BY <1>21 DEF local, TdBegin
    <3>2. QED
      BY <3>1, Stays
  <2>2. TypeOK'
    <3>1. /\ owned' \in BOOLEAN /\ stored' \in BOOLEAN /\ frames' \in 1..MaxFrames
          /\ maker' \in Requests \cup {NoRequest} /\ chatHist' \in Seq(Message)
          /\ aiSessions' \in Requests \cup {NoRequest} /\ graph' \subseteq Requests
          /\ kind' \in [Requests -> Kinds]
      BY <1>21, <1>1 DEF TypeOK, local, ai, InFlight, TdBegin
    <3>2. /\ scrubbers' \in Seq(Seq(Addresses)) /\ current' \in 0..Len(scrubbers')
          /\ \A s \in Requests : scrub'[s] \in 0..Len(scrubbers')
      BY <1>21, <1>1 DEF TypeOK, local, ai, InFlight, TdBegin
    <3>3. /\ topo' \in [Requests -> 0..MaxFrames] /\ asked' \in [Requests -> Seq(Message)]
          /\ matched' \in [Requests -> SUBSET Requests]
      BY <1>21, <1>1 DEF TypeOK, local, ai, InFlight, TdBegin
    <3>4. /\ td' \in {"no", "graph", "pcap", "scrubber", "hist", "creds", "owner", "done"}
          /\ overlap' \subseteq Requests /\ cut' \subseteq Requests
          /\ dropped' \in BOOLEAN /\ kept' \in BOOLEAN
      BY <1>21, <1>1 DEF TypeOK, local, ai, InFlight, TdBegin
    <3>5. QED
      BY <2>1, <3>1, <3>2, <3>3, <3>4 DEF TypeOK
  <2>3. QED
    BY <2>1, <2>2 DEF TypeInv
<1>22. ASSUME DeleteCapture PROVE TypeInv'
  <2>1. /\ pc' \in [Requests -> Steps] /\ (scrub \in [Requests -> Nat])'
        /\ OnCourse' /\ HoldsScrubber' /\ OwnContext'
    <3>1. UNCHANGED <<pc, kind, scrub, asked>>
      BY <1>22 DEF local, DeleteCapture
    <3>2. QED
      BY <3>1, Stays
  <2>2. TypeOK'
    <3>1. /\ owned' \in BOOLEAN /\ stored' \in BOOLEAN /\ frames' \in 1..MaxFrames
          /\ maker' \in Requests \cup {NoRequest} /\ chatHist' \in Seq(Message)
          /\ aiSessions' \in Requests \cup {NoRequest} /\ graph' \subseteq Requests
          /\ kind' \in [Requests -> Kinds]
      BY <1>22, <1>1 DEF TypeOK, local, ai, DeleteCapture
    <3>2. /\ scrubbers' \in Seq(Seq(Addresses)) /\ current' \in 0..Len(scrubbers')
          /\ \A s \in Requests : scrub'[s] \in 0..Len(scrubbers')
      BY <1>22, <1>1 DEF TypeOK, local, ai, DeleteCapture
    <3>3. /\ topo' \in [Requests -> 0..MaxFrames] /\ asked' \in [Requests -> Seq(Message)]
          /\ matched' \in [Requests -> SUBSET Requests]
      BY <1>22, <1>1 DEF TypeOK, local, ai, DeleteCapture
    <3>4. /\ td' \in {"no", "graph", "pcap", "scrubber", "hist", "creds", "owner", "done"}
          /\ overlap' \subseteq Requests /\ cut' \subseteq Requests
          /\ dropped' \in BOOLEAN /\ kept' \in BOOLEAN
      BY <1>22, <1>1 DEF TypeOK, local, ai, DeleteCapture
    <3>5. QED
      BY <2>1, <3>1, <3>2, <3>3, <3>4 DEF TypeOK
  <2>3. QED
    BY <2>1, <2>2 DEF TypeInv
<1>23. ASSUME TdDelete PROVE TypeInv'
  <2>1. /\ pc' \in [Requests -> Steps] /\ (scrub \in [Requests -> Nat])'
        /\ OnCourse' /\ HoldsScrubber' /\ OwnContext'
    <3>1. UNCHANGED <<pc, kind, scrub, asked>>
      BY <1>23 DEF local, TdDelete
    <3>2. QED
      BY <3>1, Stays
  <2>2. TypeOK'
    <3>1. /\ owned' \in BOOLEAN /\ stored' \in BOOLEAN /\ frames' \in 1..MaxFrames
          /\ maker' \in Requests \cup {NoRequest} /\ chatHist' \in Seq(Message)
          /\ aiSessions' \in Requests \cup {NoRequest} /\ graph' \subseteq Requests
          /\ kind' \in [Requests -> Kinds]
      BY <1>23, <1>1 DEF TypeOK, local, ai, history, TdDelete
    <3>2. /\ scrubbers' \in Seq(Seq(Addresses)) /\ current' \in 0..Len(scrubbers')
          /\ \A s \in Requests : scrub'[s] \in 0..Len(scrubbers')
      BY <1>23, <1>1 DEF TypeOK, local, ai, history, TdDelete
    <3>3. /\ topo' \in [Requests -> 0..MaxFrames] /\ asked' \in [Requests -> Seq(Message)]
          /\ matched' \in [Requests -> SUBSET Requests]
      BY <1>23, <1>1 DEF TypeOK, local, ai, history, TdDelete
    <3>4. /\ td' \in {"no", "graph", "pcap", "scrubber", "hist", "creds", "owner", "done"}
          /\ overlap' \subseteq Requests /\ cut' \subseteq Requests
          /\ dropped' \in BOOLEAN /\ kept' \in BOOLEAN
      BY <1>23, <1>1 DEF TypeOK, local, ai, history, TdDelete
    <3>5. QED
      BY <2>1, <3>1, <3>2, <3>3, <3>4 DEF TypeOK
  <2>3. QED
    BY <2>1, <2>2 DEF TypeInv
<1>24. ASSUME TdScrubber PROVE TypeInv'
  <2>1. /\ pc' \in [Requests -> Steps] /\ (scrub \in [Requests -> Nat])'
        /\ OnCourse' /\ HoldsScrubber' /\ OwnContext'
    <3>1. UNCHANGED <<pc, kind, scrub, asked>>
      BY <1>24 DEF local, TdScrubber
    <3>2. QED
      BY <3>1, Stays
  <2>2. TypeOK'
    <3>1. /\ owned' \in BOOLEAN /\ stored' \in BOOLEAN /\ frames' \in 1..MaxFrames
          /\ maker' \in Requests \cup {NoRequest} /\ chatHist' \in Seq(Message)
          /\ aiSessions' \in Requests \cup {NoRequest} /\ graph' \subseteq Requests
          /\ kind' \in [Requests -> Kinds]
      BY <1>24, <1>1 DEF TypeOK, local, DropScrubber, TdScrubber
    <3>2. /\ scrubbers' \in Seq(Seq(Addresses)) /\ current' \in 0..Len(scrubbers')
          /\ \A s \in Requests : scrub'[s] \in 0..Len(scrubbers')
      BY <1>24, <1>1 DEF TypeOK, local, DropScrubber, TdScrubber
    <3>3. /\ topo' \in [Requests -> 0..MaxFrames] /\ asked' \in [Requests -> Seq(Message)]
          /\ matched' \in [Requests -> SUBSET Requests]
      BY <1>24, <1>1 DEF TypeOK, local, DropScrubber, TdScrubber
    <3>4. /\ td' \in {"no", "graph", "pcap", "scrubber", "hist", "creds", "owner", "done"}
          /\ overlap' \subseteq Requests /\ cut' \subseteq Requests
          /\ dropped' \in BOOLEAN /\ kept' \in BOOLEAN
      BY <1>24, <1>1 DEF TypeOK, local, DropScrubber, TdScrubber
    <3>5. QED
      BY <2>1, <3>1, <3>2, <3>3, <3>4 DEF TypeOK
  <2>3. QED
    BY <2>1, <2>2 DEF TypeInv
<1>25. ASSUME TdHist PROVE TypeInv'
  <2>1. /\ pc' \in [Requests -> Steps] /\ (scrub \in [Requests -> Nat])'
        /\ OnCourse' /\ HoldsScrubber' /\ OwnContext'
    <3>1. UNCHANGED <<pc, kind, scrub, asked>>
      BY <1>25 DEF local, TdHist
    <3>2. QED
      BY <3>1, Stays
  <2>2. TypeOK'
    <3>1. /\ owned' \in BOOLEAN /\ stored' \in BOOLEAN /\ frames' \in 1..MaxFrames
          /\ maker' \in Requests \cup {NoRequest} /\ chatHist' \in Seq(Message)
          /\ aiSessions' \in Requests \cup {NoRequest} /\ graph' \subseteq Requests
          /\ kind' \in [Requests -> Kinds]
      BY <1>25, <1>1 DEF TypeOK, local, DropHist, TdHist
    <3>2. /\ scrubbers' \in Seq(Seq(Addresses)) /\ current' \in 0..Len(scrubbers')
          /\ \A s \in Requests : scrub'[s] \in 0..Len(scrubbers')
      BY <1>25, <1>1 DEF TypeOK, local, DropHist, TdHist
    <3>3. /\ topo' \in [Requests -> 0..MaxFrames] /\ asked' \in [Requests -> Seq(Message)]
          /\ matched' \in [Requests -> SUBSET Requests]
      BY <1>25, <1>1 DEF TypeOK, local, DropHist, TdHist
    <3>4. /\ td' \in {"no", "graph", "pcap", "scrubber", "hist", "creds", "owner", "done"}
          /\ overlap' \subseteq Requests /\ cut' \subseteq Requests
          /\ dropped' \in BOOLEAN /\ kept' \in BOOLEAN
      BY <1>25, <1>1 DEF TypeOK, local, DropHist, TdHist
    <3>5. QED
      BY <2>1, <3>1, <3>2, <3>3, <3>4 DEF TypeOK
  <2>3. QED
    BY <2>1, <2>2 DEF TypeInv
<1>26. ASSUME TdCreds PROVE TypeInv'
  <2>1. /\ pc' \in [Requests -> Steps] /\ (scrub \in [Requests -> Nat])'
        /\ OnCourse' /\ HoldsScrubber' /\ OwnContext'
    <3>1. UNCHANGED <<pc, kind, scrub, asked>>
      BY <1>26 DEF local, TdCreds
    <3>2. QED
      BY <3>1, Stays
  <2>2. TypeOK'
    <3>1. /\ owned' \in BOOLEAN /\ stored' \in BOOLEAN /\ frames' \in 1..MaxFrames
          /\ maker' \in Requests \cup {NoRequest} /\ chatHist' \in Seq(Message)
          /\ aiSessions' \in Requests \cup {NoRequest} /\ graph' \subseteq Requests
          /\ kind' \in [Requests -> Kinds]
      BY <1>26, <1>1 DEF TypeOK, local, history, TdCreds
    <3>2. /\ scrubbers' \in Seq(Seq(Addresses)) /\ current' \in 0..Len(scrubbers')
          /\ \A s \in Requests : scrub'[s] \in 0..Len(scrubbers')
      BY <1>26, <1>1 DEF TypeOK, local, history, TdCreds
    <3>3. /\ topo' \in [Requests -> 0..MaxFrames] /\ asked' \in [Requests -> Seq(Message)]
          /\ matched' \in [Requests -> SUBSET Requests]
      BY <1>26, <1>1 DEF TypeOK, local, history, TdCreds
    <3>4. /\ td' \in {"no", "graph", "pcap", "scrubber", "hist", "creds", "owner", "done"}
          /\ overlap' \subseteq Requests /\ cut' \subseteq Requests
          /\ dropped' \in BOOLEAN /\ kept' \in BOOLEAN
      BY <1>26, <1>1 DEF TypeOK, local, history, TdCreds
    <3>5. QED
      BY <2>1, <3>1, <3>2, <3>3, <3>4 DEF TypeOK
  <2>3. QED
    BY <2>1, <2>2 DEF TypeInv
<1>27. ASSUME TdOwner PROVE TypeInv'
  <2>1. /\ pc' \in [Requests -> Steps] /\ (scrub \in [Requests -> Nat])'
        /\ OnCourse' /\ HoldsScrubber' /\ OwnContext'
    <3>1. UNCHANGED <<pc, kind, scrub, asked>>
      BY <1>27 DEF local, TdOwner
    <3>2. QED
      BY <3>1, Stays
  <2>2. TypeOK'
    <3>1. /\ owned' \in BOOLEAN /\ stored' \in BOOLEAN /\ frames' \in 1..MaxFrames
          /\ maker' \in Requests \cup {NoRequest} /\ chatHist' \in Seq(Message)
          /\ aiSessions' \in Requests \cup {NoRequest} /\ graph' \subseteq Requests
          /\ kind' \in [Requests -> Kinds]
      BY <1>27, <1>1 DEF TypeOK, local, ai, history, TdOwner
    <3>2. /\ scrubbers' \in Seq(Seq(Addresses)) /\ current' \in 0..Len(scrubbers')
          /\ \A s \in Requests : scrub'[s] \in 0..Len(scrubbers')
      BY <1>27, <1>1 DEF TypeOK, local, ai, history, TdOwner
    <3>3. /\ topo' \in [Requests -> 0..MaxFrames] /\ asked' \in [Requests -> Seq(Message)]
          /\ matched' \in [Requests -> SUBSET Requests]
      BY <1>27, <1>1 DEF TypeOK, local, ai, history, TdOwner
    <3>4. /\ td' \in {"no", "graph", "pcap", "scrubber", "hist", "creds", "owner", "done"}
          /\ overlap' \subseteq Requests /\ cut' \subseteq Requests
          /\ dropped' \in BOOLEAN /\ kept' \in BOOLEAN
      BY <1>27, <1>1 DEF TypeOK, local, ai, history, TdOwner
    <3>5. QED
      BY <2>1, <3>1, <3>2, <3>3, <3>4 DEF TypeOK
  <2>3. QED
    BY <2>1, <2>2 DEF TypeInv
<1>28. CASE UNCHANGED vars
  <2>1. /\ pc' \in [Requests -> Steps] /\ (scrub \in [Requests -> Nat])'
        /\ OnCourse' /\ HoldsScrubber' /\ OwnContext'
    <3>1. UNCHANGED <<pc, kind, scrub, asked>>
      BY <1>28 DEF local, vars
    <3>2. QED
      BY <3>1, Stays
  <2>2. TypeOK'
    <3>1. /\ owned' \in BOOLEAN /\ stored' \in BOOLEAN /\ frames' \in 1..MaxFrames
          /\ maker' \in Requests \cup {NoRequest} /\ chatHist' \in Seq(Message)
          /\ aiSessions' \in Requests \cup {NoRequest} /\ graph' \subseteq Requests
          /\ kind' \in [Requests -> Kinds]
      BY <1>28, <1>1 DEF TypeOK, local, ai, history, vars
    <3>2. /\ scrubbers' \in Seq(Seq(Addresses)) /\ current' \in 0..Len(scrubbers')
          /\ \A s \in Requests : scrub'[s] \in 0..Len(scrubbers')
      BY <1>28, <1>1 DEF TypeOK, local, ai, history, vars
    <3>3. /\ topo' \in [Requests -> 0..MaxFrames] /\ asked' \in [Requests -> Seq(Message)]
          /\ matched' \in [Requests -> SUBSET Requests]
      BY <1>28, <1>1 DEF TypeOK, local, ai, history, vars
    <3>4. /\ td' \in {"no", "graph", "pcap", "scrubber", "hist", "creds", "owner", "done"}
          /\ overlap' \subseteq Requests /\ cut' \subseteq Requests
          /\ dropped' \in BOOLEAN /\ kept' \in BOOLEAN
      BY <1>28, <1>1 DEF TypeOK, local, ai, history, vars
    <3>5. QED
      BY <2>1, <3>1, <3>2, <3>3, <3>4 DEF TypeOK
  <2>3. QED
    BY <2>1, <2>2 DEF TypeInv
<1>29. QED
  BY <1>2, <1>3, <1>4, <1>5, <1>6, <1>7, <1>8, <1>9, <1>10, <1>11, <1>12, <1>13, <1>14, 
     <1>15, <1>16, <1>17, <1>18, <1>19, <1>20, <1>21, <1>22, <1>23, <1>24, <1>25, <1>26, 
     <1>27, <1>28
     DEF Next, ChatStep, FlushStep, SyncStep, TeardownStep

-----------------------------------------------------------------------------
\* A step keeps what is known of those under way, and of what they leave.
LEMMA LeftStep == LeftInv /\ [Next]_vars => (OverlapKnown /\ Torn)'
<1> SUFFICES ASSUME LeftInv, [Next]_vars PROVE (OverlapKnown /\ Torn)'
  OBVIOUS
<1>1. /\ pc \in [Requests -> Steps] /\ kind \in [Requests -> Kinds] /\ chatHist \in Seq(Message)
      /\ td \in {"no", "graph", "pcap", "scrubber", "hist", "creds", "owner", "done"}
      /\ TypeInv /\ OverlapKnown /\ Torn
  BY DEF LeftInv, TypeInv, TypeOK
<1>2. ToSet(<<>>) = {}
  BY DEF ToSet
<1>3. ASSUME NEW r \in Requests, Begin(r) PROVE (OverlapKnown /\ Torn)'
  BY <1>1, <1>3
     DEF OverlapKnown, Torn, InFlight, TearingDown, ai, Chatting, OnCourse, Course, TypeInv, Begin
<1>4. ASSUME NEW r \in Requests, GetScrubber(r) PROVE (OverlapKnown /\ Torn)'
  <2>1. pc[r] = "scrubber" /\ kind[r] # "triage" /\ kind[r] # "triageFlush"
    BY <1>1, <1>4 DEF GetScrubber, Goto, TypeInv, OnCourse, Course, Chatting
  <2>2. td # "no" => r \in overlap
    BY <1>1, <2>1 DEF OverlapKnown, InFlight
  <2>3. OverlapKnown'
    BY <1>1, <2>1, <2>2, <1>4 DEF OverlapKnown, InFlight, Goto, history, GetScrubber
  <2>4. /\ ScrubberForSession(r)
        /\ UNCHANGED <<chatHist, aiSessions, graph, kind, td, overlap, kept>>
    BY <1>1, <1>4 DEF GetScrubber, history
  <2>5. \/ UNCHANGED <<current, maker>>
        \/ maker' = r
    BY <2>4 DEF ScrubberForSession
  <2>6. Torn'
    BY <1>1, <2>2, <2>4, <2>5 DEF Torn
  <2>7. QED
    BY <2>3, <2>6
<1>5. ASSUME NEW r \in Requests, GetSession(r) PROVE (OverlapKnown /\ Torn)'
  BY <1>1, <1>5
     DEF OverlapKnown, Torn, InFlight, ai, history, Chatting, OnCourse, Course, TypeInv, GetSession
<1>6. ASSUME NEW r \in Requests, ResetChat(r) PROVE (OverlapKnown /\ Torn)'
  BY <1>1, <1>2, <1>6
     DEF OverlapKnown, Torn, InFlight, Goto, DropHist, Chatting, OnCourse, Course, TypeInv, ResetChat
<1>7. ASSUME NEW r \in Requests, Export(r) PROVE (OverlapKnown /\ Torn)'
  BY <1>1, <1>7
     DEF OverlapKnown, Torn, InFlight, Goto, history, Chatting, OnCourse, Course, TypeInv, Export
<1>8. ASSUME NEW r \in Requests, ReadHist(r) PROVE (OverlapKnown /\ Torn)'
  <2>1. pc[r] = "hist" /\ kind[r] # "triage" /\ kind[r] # "triageFlush"
    BY <1>1, <1>8 DEF ReadHist, Goto, TypeInv, OnCourse, Course, Chatting
  <2>2. td # "no" => r \in overlap
    BY <1>1, <2>1 DEF OverlapKnown, InFlight
  <2>3. OverlapKnown'
    BY <1>1, <2>1, <2>2, <1>8 DEF OverlapKnown, InFlight, Goto, history, ReadHist
  <2>4. UNCHANGED <<current, maker, aiSessions, graph, kind, td, overlap, kept>>
    BY <1>1, <1>8 DEF ReadHist, history
  <2>5. \A m \in ToSet(chatHist') : m \in ToSet(chatHist) \/ m.by = r
    <3>1. CASE chatHist' = asked[r]
      BY <1>1, <2>1, <3>1 DEF TypeInv, OwnContext
    <3>2. ASSUME NEW u \in Message, chatHist' = Append(chatHist, u), u.by = r
          PROVE  \A m \in ToSet(chatHist') : m \in ToSet(chatHist) \/ m.by = r
      BY <1>1, <3>2, AppendedSet
    <3>3. CASE chatHist' = chatHist
      BY <3>3
    <3>4. QED
      BY <1>1, <1>8, <3>1, <3>2, <3>3, ReadHistDoes
  <2>6. Torn'
    BY <1>1, <2>2, <2>4, <2>5 DEF Torn
  <2>7. QED
    BY <2>3, <2>6
<1>9. ASSUME NEW r \in Requests, StoreCreds(r) PROVE (OverlapKnown /\ Torn)'
  BY <1>1, <1>9
     DEF OverlapKnown, Torn, InFlight, Goto, history, Chatting, OnCourse, Course, TypeInv, StoreCreds
<1>10. ASSUME NEW r \in Requests, \E t \in Quotable(r) : Answer(r, t)
      PROVE  (OverlapKnown /\ Torn)'
  <2>1. PICK t \in Quotable(r) : Answer(r, t)
    BY <1>10
  <2>2. pc[r] = "reply" /\ kind[r] # "triage" /\ kind[r] # "triageFlush"
    BY <1>1, <2>1 DEF Answer, Goto, TypeInv, OnCourse, Course, Chatting
  <2>3. td # "no" => r \in overlap
    BY <1>1, <2>2 DEF OverlapKnown, InFlight
  <2>4. OverlapKnown'
    BY <1>1, <2>2, <2>3, <2>1 DEF OverlapKnown, InFlight, Goto, history, Answer
  <2>5. UNCHANGED <<current, maker, aiSessions, graph, kind, td, overlap, kept>>
    BY <2>1 DEF Answer, history
  <2>6. \A m \in ToSet(chatHist') : m \in ToSet(chatHist) \/ m.by = r
    <3>1. PICK m \in Message : chatHist' = Append(chatHist, m) /\ m.by = r
      BY <1>1, <2>1, AnswerDoes
    <3>2. QED
      BY <1>1, <3>1, AppendedSet
  <2>7. Torn'
    BY <1>1, <2>3, <2>5, <2>6 DEF Torn
  <2>8. QED
    BY <2>4, <2>7
<1>11. ASSUME NEW r \in Requests, CallFails(r) PROVE (OverlapKnown /\ Torn)'
  BY <1>1, <1>11
     DEF OverlapKnown, Torn, InFlight, Goto, ai, history, Chatting, OnCourse, Course, TypeInv, CallFails
<1>12. ASSUME NEW r \in Requests, FlushScrubber(r) PROVE (OverlapKnown /\ Torn)'
  BY <1>1, <1>12
     DEF OverlapKnown, Torn, InFlight, Goto, DropScrubber, Chatting, OnCourse, Course, TypeInv,
         FlushScrubber
<1>13. ASSUME NEW r \in Requests, FlushHist(r) PROVE (OverlapKnown /\ Torn)'
  BY <1>1, <1>2, <1>13
     DEF OverlapKnown, Torn, InFlight, Goto, DropHist, Chatting, OnCourse, Course, TypeInv, FlushHist
<1>14. ASSUME NEW r \in Requests, FlushCreds(r) PROVE (OverlapKnown /\ Torn)'
  BY <1>1, <1>14
     DEF OverlapKnown, Torn, InFlight, Goto, history, Chatting, OnCourse, Course, TypeInv, FlushCreds
<1>15. ASSUME NEW r \in Requests, ResetMaps(r) PROVE (OverlapKnown /\ Torn)'
  BY <1>1, <1>15
     DEF OverlapKnown, Torn, InFlight, Goto, DropScrubber, Chatting, OnCourse, Course, TypeInv,
         ResetMaps
<1>16. ASSUME NEW r \in Requests, Triage(r) PROVE (OverlapKnown /\ Torn)'
  BY <1>1, <1>16
     DEF OverlapKnown, Torn, InFlight, Goto, history, Chatting, OnCourse, Course, TypeInv, Triage
<1>17. ASSUME NEW r \in Requests, SkipSync(r) PROVE (OverlapKnown /\ Torn)'
  BY <1>1, <1>17
     DEF OverlapKnown, Torn, InFlight, Goto, ai, history, Chatting, OnCourse, Course, TypeInv, SkipSync
<1>18. ASSUME NEW r \in Requests, MatchRows(r) PROVE (OverlapKnown /\ Torn)'
  BY <1>1, <1>18
     DEF OverlapKnown, Torn, InFlight, Goto, ai, history, Chatting, OnCourse, Course, TypeInv, MatchRows
<1>19. ASSUME NEW r \in Requests, Commit(r) PROVE (OverlapKnown /\ Torn)'
  BY <1>1, <1>19
     DEF OverlapKnown, Torn, InFlight, Goto, ai, history, Chatting, OnCourse, Course, TypeInv, Commit
<1>20. ASSUME NEW r \in Requests, CommitFails(r) PROVE (OverlapKnown /\ Torn)'
  BY <1>1, <1>20
     DEF OverlapKnown, Torn, InFlight, Goto, ai, history, Chatting, OnCourse, Course, TypeInv,
         CommitFails
<1>21. ASSUME AppendFlow PROVE (OverlapKnown /\ Torn)'
  BY <1>1, <1>21
     DEF OverlapKnown, Torn, InFlight, local, ai, history, Chatting, OnCourse, Course, TypeInv,
         AppendFlow
<1>22. ASSUME TdBegin PROVE (OverlapKnown /\ Torn)'
  BY <1>1, <1>22
     DEF OverlapKnown, Torn, InFlight, local, ai, Chatting, OnCourse, Course, TypeInv, TdBegin
<1>23. ASSUME DeleteCapture PROVE (OverlapKnown /\ Torn)'
  BY <1>1, <1>23
     DEF OverlapKnown, Torn, InFlight, local, ai, Chatting, OnCourse, Course, TypeInv, DeleteCapture
<1>24. ASSUME TdDelete PROVE (OverlapKnown /\ Torn)'
  BY <1>1, <1>24
     DEF OverlapKnown, Torn, InFlight, local, ai, history, Chatting, OnCourse, Course, TypeInv, TdDelete
<1>25. ASSUME TdScrubber PROVE (OverlapKnown /\ Torn)'
  BY <1>1, <1>25
     DEF OverlapKnown, Torn, InFlight, local, DropScrubber, Chatting, OnCourse, Course, TypeInv,
         TdScrubber
<1>26. ASSUME TdHist PROVE (OverlapKnown /\ Torn)'
  BY <1>1, <1>2, <1>26
     DEF OverlapKnown, Torn, InFlight, local, DropHist, Chatting, OnCourse, Course, TypeInv, TdHist
<1>27. ASSUME TdCreds PROVE (OverlapKnown /\ Torn)'
  BY <1>1, <1>27
     DEF OverlapKnown, Torn, InFlight, local, history, Chatting, OnCourse, Course, TypeInv, TdCreds
<1>28. ASSUME TdOwner PROVE (OverlapKnown /\ Torn)'
  BY <1>1, <1>28
     DEF OverlapKnown, Torn, InFlight, local, ai, history, Chatting, OnCourse, Course, TypeInv, TdOwner
<1>29. CASE UNCHANGED vars
  BY <1>1, <1>29
     DEF OverlapKnown, Torn, InFlight, TearingDown, local, ai, history, Chatting, OnCourse, Course,
         TypeInv, vars
<1>30. QED
  BY <1>3, <1>4, <1>5, <1>6, <1>7, <1>8, <1>9, <1>10, <1>11, <1>12, <1>13, <1>14, <1>15, 
     <1>16, <1>17, <1>18, <1>19, <1>20, <1>21, <1>22, <1>23, <1>24, <1>25, <1>26, <1>27, 
     <1>28, <1>29
     DEF Next, ChatStep, FlushStep, SyncStep, TeardownStep

-----------------------------------------------------------------------------
\* A transaction deletes the rows it saw, and is seen when it has ended.
LEMMA OneTopologyStep == OneTopologyInv /\ [Next]_vars => (Committed /\ GraphIsOneTopology)'
<1> SUFFICES ASSUME OneTopologyInv, [Next]_vars PROVE (Committed /\ GraphIsOneTopology)'
  OBVIOUS
<1>1. /\ pc \in [Requests -> Steps] /\ kind \in [Requests -> Kinds] /\ chatHist \in Seq(Message)
      /\ asked \in [Requests -> Seq(Message)] /\ matched \in [Requests -> SUBSET Requests]
      /\ graph \subseteq Requests /\ scrub \in [Requests -> Nat]
      /\ TypeInv /\ Committed /\ GraphIsOneTopology
  BY DEF OneTopologyInv, TypeInv, TypeOK
<1>2. ASSUME NEW r \in Requests, Begin(r) PROVE (Committed /\ GraphIsOneTopology)'
  BY <1>1, <1>2 DEF Committed, GraphIsOneTopology, ai, Begin
<1>3. ASSUME NEW r \in Requests, GetScrubber(r) PROVE (Committed /\ GraphIsOneTopology)'
  BY <1>1, <1>3 DEF Committed, GraphIsOneTopology, Goto, history, GetScrubber
<1>4. ASSUME NEW r \in Requests, GetSession(r) PROVE (Committed /\ GraphIsOneTopology)'
  BY <1>1, <1>4 DEF Committed, GraphIsOneTopology, ai, history, GetSession
<1>5. ASSUME NEW r \in Requests, ResetChat(r) PROVE (Committed /\ GraphIsOneTopology)'
  BY <1>1, <1>5 DEF Committed, GraphIsOneTopology, Goto, ResetChat
<1>6. ASSUME NEW r \in Requests, Export(r) PROVE (Committed /\ GraphIsOneTopology)'
  BY <1>1, <1>6 DEF Committed, GraphIsOneTopology, Goto, history, Export
<1>7. ASSUME NEW r \in Requests, ReadHist(r) PROVE (Committed /\ GraphIsOneTopology)'
  BY <1>1, <1>7 DEF Committed, GraphIsOneTopology, Goto, history, ReadHist
<1>8. ASSUME NEW r \in Requests, StoreCreds(r) PROVE (Committed /\ GraphIsOneTopology)'
  BY <1>1, <1>8 DEF Committed, GraphIsOneTopology, Goto, history, StoreCreds
<1>9. ASSUME NEW r \in Requests, \E t \in Quotable(r) : Answer(r, t)
      PROVE  (Committed /\ GraphIsOneTopology)'
  BY <1>1, <1>9 DEF Committed, GraphIsOneTopology, Goto, history, Answer
<1>10. ASSUME NEW r \in Requests, CallFails(r) PROVE (Committed /\ GraphIsOneTopology)'
  BY <1>1, <1>10 DEF Committed, GraphIsOneTopology, Goto, ai, history, CallFails
<1>11. ASSUME NEW r \in Requests, FlushScrubber(r) PROVE (Committed /\ GraphIsOneTopology)'
  BY <1>1, <1>11 DEF Committed, GraphIsOneTopology, Goto, FlushScrubber
<1>12. ASSUME NEW r \in Requests, FlushHist(r) PROVE (Committed /\ GraphIsOneTopology)'
  BY <1>1, <1>12 DEF Committed, GraphIsOneTopology, Goto, FlushHist
<1>13. ASSUME NEW r \in Requests, FlushCreds(r) PROVE (Committed /\ GraphIsOneTopology)'
  BY <1>1, <1>13 DEF Committed, GraphIsOneTopology, Goto, history, FlushCreds
<1>14. ASSUME NEW r \in Requests, ResetMaps(r) PROVE (Committed /\ GraphIsOneTopology)'
  BY <1>1, <1>14 DEF Committed, GraphIsOneTopology, Goto, ResetMaps
<1>15. ASSUME NEW r \in Requests, Triage(r) PROVE (Committed /\ GraphIsOneTopology)'
  BY <1>1, <1>15 DEF Committed, GraphIsOneTopology, Goto, history, Triage
<1>16. ASSUME NEW r \in Requests, SkipSync(r) PROVE (Committed /\ GraphIsOneTopology)'
  BY <1>1, <1>16 DEF Committed, GraphIsOneTopology, Goto, ai, history, SkipSync
<1>17. ASSUME NEW r \in Requests, MatchRows(r) PROVE (Committed /\ GraphIsOneTopology)'
  BY <1>1, <1>17 DEF Committed, GraphIsOneTopology, Goto, ai, history, MatchRows
<1>18. ASSUME NEW r \in Requests, Commit(r) PROVE (Committed /\ GraphIsOneTopology)'
  BY <1>1, <1>18 DEF Committed, GraphIsOneTopology, Goto, ai, history, Commit
<1>19. ASSUME NEW r \in Requests, CommitFails(r) PROVE (Committed /\ GraphIsOneTopology)'
  BY <1>1, <1>19 DEF Committed, GraphIsOneTopology, Goto, ai, history, CommitFails
<1>20. ASSUME AppendFlow PROVE (Committed /\ GraphIsOneTopology)'
  BY <1>1, <1>20 DEF Committed, GraphIsOneTopology, local, ai, history, AppendFlow
<1>21. ASSUME TdBegin PROVE (Committed /\ GraphIsOneTopology)'
  BY <1>1, <1>21 DEF Committed, GraphIsOneTopology, local, ai, TdBegin
<1>22. ASSUME DeleteCapture PROVE (Committed /\ GraphIsOneTopology)'
  BY <1>1, <1>22 DEF Committed, GraphIsOneTopology, local, ai, DeleteCapture
<1>23. ASSUME TdDelete PROVE (Committed /\ GraphIsOneTopology)'
  BY <1>1, <1>23 DEF Committed, GraphIsOneTopology, local, ai, history, TdDelete
<1>24. ASSUME TdScrubber PROVE (Committed /\ GraphIsOneTopology)'
  BY <1>1, <1>24 DEF Committed, GraphIsOneTopology, local, TdScrubber
<1>25. ASSUME TdHist PROVE (Committed /\ GraphIsOneTopology)'
  BY <1>1, <1>25 DEF Committed, GraphIsOneTopology, local, TdHist
<1>26. ASSUME TdCreds PROVE (Committed /\ GraphIsOneTopology)'
  BY <1>1, <1>26 DEF Committed, GraphIsOneTopology, local, history, TdCreds
<1>27. ASSUME TdOwner PROVE (Committed /\ GraphIsOneTopology)'
  BY <1>1, <1>27 DEF Committed, GraphIsOneTopology, local, ai, history, TdOwner
<1>28. CASE UNCHANGED vars
  BY <1>1, <1>28 DEF Committed, GraphIsOneTopology, local, ai, history, vars
<1>29. QED
  BY <1>2, <1>3, <1>4, <1>5, <1>6, <1>7, <1>8, <1>9, <1>10, <1>11, <1>12, <1>13, <1>14, 
     <1>15, <1>16, <1>17, <1>18, <1>19, <1>20, <1>21, <1>22, <1>23, <1>24, <1>25, <1>26, 
     <1>27, <1>28
     DEF Next, ChatStep, FlushStep, SyncStep, TeardownStep
-----------------------------------------------------------------------------
\* Only a drop of the history takes a waiting chat's conversation away.
LEMMA ContextStep == ContextInv /\ [Next]_vars => (HistStays /\ ContextFirst)'
<1> SUFFICES ASSUME ContextInv, [Next]_vars PROVE (HistStays /\ ContextFirst)'
  OBVIOUS
<1>1. /\ pc \in [Requests -> Steps] /\ kind \in [Requests -> Kinds] /\ chatHist \in Seq(Message)
      /\ asked \in [Requests -> Seq(Message)] /\ matched \in [Requests -> SUBSET Requests]
      /\ graph \subseteq Requests /\ scrub \in [Requests -> Nat]
      /\ TypeInv /\ HistStays /\ ContextFirst
  BY DEF ContextInv, TypeInv, TypeOK
<1>2. ASSUME NEW r \in Requests, Begin(r) PROVE (HistStays /\ ContextFirst)'
  BY <1>1, <1>2 DEF HistStays, ContextFirst, ai, Chatting, OnCourse, Course, TypeInv, Begin
<1>3. ASSUME NEW r \in Requests, GetScrubber(r) PROVE (HistStays /\ ContextFirst)'
  BY <1>1, <1>3
     DEF HistStays, ContextFirst, Goto, history, Chatting, OnCourse, Course, TypeInv, GetScrubber
<1>4. ASSUME NEW r \in Requests, GetSession(r) PROVE (HistStays /\ ContextFirst)'
  BY <1>1, <1>4
     DEF HistStays, ContextFirst, ai, history, Chatting, OnCourse, Course, TypeInv, GetSession
<1>5. ASSUME NEW r \in Requests, ResetChat(r) PROVE (HistStays /\ ContextFirst)'
  BY <1>1, <1>5
     DEF HistStays, ContextFirst, Goto, DropHist, Chatting, OnCourse, Course, TypeInv, ResetChat
<1>6. ASSUME NEW r \in Requests, Export(r) PROVE (HistStays /\ ContextFirst)'
  BY <1>1, <1>6
     DEF HistStays, ContextFirst, Goto, history, Chatting, OnCourse, Course, TypeInv, Export
<1>7. ASSUME NEW r \in Requests, ReadHist(r) PROVE (HistStays /\ ContextFirst)'
  <2>1. /\ chatHist' # <<>> /\ pc[r] = "hist" /\ kind[r] \in Chatting
        /\ UNCHANGED <<kind, cut>>
    BY <1>1, <1>7, ReadHistDoes DEF ReadHist, Goto, TypeInv, OnCourse, Course, history
  <2>2. HistStays'
    BY <2>1 DEF HistStays
  <2>3. ContextFirst'
    <3>1. CASE chatHist' = asked[r]
      BY <1>1, <2>1, <3>1 DEF TypeInv, OwnContext, ContextFirst
    <3>2. ASSUME chatHist # <<>>, NEW u \in Message, chatHist' = Append(chatHist, u)
          PROVE  Head(chatHist') = Head(chatHist)
      BY <1>1, <3>2, AppendedSet
    <3>3. CASE chatHist # <<>> /\ Head(chatHist') = Head(chatHist)
      BY <1>1, <2>1, <3>3 DEF ContextFirst
    <3>4. QED
      BY <1>1, <1>7, <3>1, <3>2, <3>3, ReadHistDoes
  <2>4. QED
    BY <2>2, <2>3
<1>8. ASSUME NEW r \in Requests, StoreCreds(r) PROVE (HistStays /\ ContextFirst)'
  BY <1>1, <1>8
     DEF HistStays, ContextFirst, Goto, history, Chatting, OnCourse, Course, TypeInv, StoreCreds
<1>9. ASSUME NEW r \in Requests, \E t \in Quotable(r) : Answer(r, t)
      PROVE  (HistStays /\ ContextFirst)'
  <2>1. PICK t \in Quotable(r) : Answer(r, t)
    BY <1>9
  <2>2. /\ chatHist' # <<>> /\ pc[r] = "reply" /\ kind[r] \in Chatting
        /\ UNCHANGED <<kind, cut>>
    BY <1>1, <2>1, AnswerDoes DEF Answer, Goto, TypeInv, OnCourse, Course, history
  <2>3. HistStays'
    BY <2>2 DEF HistStays
  <2>4. ContextFirst'
    <3>1. PICK m \in Message : chatHist' = Append(chatHist, m) /\ m.what = "reply" /\ m.by = r
      BY <1>1, <2>1, AnswerDoes
    <3>2. CASE chatHist = <<>>
      <4>1. r \in cut
        BY <1>1, <2>2, <3>2 DEF HistStays
      <4>2. Head(chatHist') = m
        BY <1>1, <3>1, <3>2, AppendedSet
      <4>3. QED
        BY <2>2, <3>1, <4>1, <4>2 DEF ContextFirst
    <3>3. CASE chatHist # <<>>
      <4>1. Head(chatHist') = Head(chatHist)
        BY <1>1, <3>1, <3>3, AppendedSet
      <4>2. QED
        BY <1>1, <2>2, <3>3, <4>1 DEF ContextFirst
    <3>4. QED
      BY <3>2, <3>3
  <2>5. QED
    BY <2>3, <2>4
<1>10. ASSUME NEW r \in Requests, CallFails(r) PROVE (HistStays /\ ContextFirst)'
  BY <1>1, <1>10
     DEF HistStays, ContextFirst, Goto, ai, history, Chatting, OnCourse, Course, TypeInv, CallFails
<1>11. ASSUME NEW r \in Requests, FlushScrubber(r) PROVE (HistStays /\ ContextFirst)'
  BY <1>1, <1>11
     DEF HistStays, ContextFirst, Goto, Chatting, OnCourse, Course, TypeInv, FlushScrubber
<1>12. ASSUME NEW r \in Requests, FlushHist(r) PROVE (HistStays /\ ContextFirst)'
  BY <1>1, <1>12
     DEF HistStays, ContextFirst, Goto, DropHist, Chatting, OnCourse, Course, TypeInv, FlushHist
<1>13. ASSUME NEW r \in Requests, FlushCreds(r) PROVE (HistStays /\ ContextFirst)'
  BY <1>1, <1>13
     DEF HistStays, ContextFirst, Goto, history, Chatting, OnCourse, Course, TypeInv, FlushCreds
<1>14. ASSUME NEW r \in Requests, ResetMaps(r) PROVE (HistStays /\ ContextFirst)'
  BY <1>1, <1>14
     DEF HistStays, ContextFirst, Goto, Chatting, OnCourse, Course, TypeInv, ResetMaps
<1>15. ASSUME NEW r \in Requests, Triage(r) PROVE (HistStays /\ ContextFirst)'
  BY <1>1, <1>15
     DEF HistStays, ContextFirst, Goto, history, Chatting, OnCourse, Course, TypeInv, Triage
<1>16. ASSUME NEW r \in Requests, SkipSync(r) PROVE (HistStays /\ ContextFirst)'
  BY <1>1, <1>16
     DEF HistStays, ContextFirst, Goto, ai, history, Chatting, OnCourse, Course, TypeInv, SkipSync
<1>17. ASSUME NEW r \in Requests, MatchRows(r) PROVE (HistStays /\ ContextFirst)'
  BY <1>1, <1>17
     DEF HistStays, ContextFirst, Goto, ai, history, Chatting, OnCourse, Course, TypeInv, MatchRows
<1>18. ASSUME NEW r \in Requests, Commit(r) PROVE (HistStays /\ ContextFirst)'
  BY <1>1, <1>18
     DEF HistStays, ContextFirst, Goto, ai, history, Chatting, OnCourse, Course, TypeInv, Commit
<1>19. ASSUME NEW r \in Requests, CommitFails(r) PROVE (HistStays /\ ContextFirst)'
  BY <1>1, <1>19
     DEF HistStays, ContextFirst, Goto, ai, history, Chatting, OnCourse, Course, TypeInv, CommitFails
<1>20. ASSUME AppendFlow PROVE (HistStays /\ ContextFirst)'
  BY <1>1, <1>20
     DEF HistStays, ContextFirst, local, ai, history, Chatting, OnCourse, Course, TypeInv, AppendFlow
<1>21. ASSUME TdBegin PROVE (HistStays /\ ContextFirst)'
  BY <1>1, <1>21
     DEF HistStays, ContextFirst, local, ai, Chatting, OnCourse, Course, TypeInv, TdBegin
<1>22. ASSUME DeleteCapture PROVE (HistStays /\ ContextFirst)'
  BY <1>1, <1>22
     DEF HistStays, ContextFirst, local, ai, Chatting, OnCourse, Course, TypeInv, DeleteCapture
<1>23. ASSUME TdDelete PROVE (HistStays /\ ContextFirst)'
  BY <1>1, <1>23
     DEF HistStays, ContextFirst, local, ai, history, Chatting, OnCourse, Course, TypeInv, TdDelete
<1>24. ASSUME TdScrubber PROVE (HistStays /\ ContextFirst)'
  BY <1>1, <1>24
     DEF HistStays, ContextFirst, local, Chatting, OnCourse, Course, TypeInv, TdScrubber
<1>25. ASSUME TdHist PROVE (HistStays /\ ContextFirst)'
  BY <1>1, <1>25
     DEF HistStays, ContextFirst, local, DropHist, Chatting, OnCourse, Course, TypeInv, TdHist
<1>26. ASSUME TdCreds PROVE (HistStays /\ ContextFirst)'
  BY <1>1, <1>26
     DEF HistStays, ContextFirst, local, history, Chatting, OnCourse, Course, TypeInv, TdCreds
<1>27. ASSUME TdOwner PROVE (HistStays /\ ContextFirst)'
  BY <1>1, <1>27
     DEF HistStays, ContextFirst, local, ai, history, Chatting, OnCourse, Course, TypeInv, TdOwner
<1>28. CASE UNCHANGED vars
  BY <1>1, <1>28
     DEF HistStays, ContextFirst, local, ai, history, Chatting, OnCourse, Course, TypeInv, vars
<1>29. QED
  BY <1>2, <1>3, <1>4, <1>5, <1>6, <1>7, <1>8, <1>9, <1>10, <1>11, <1>12, <1>13, <1>14, 
     <1>15, <1>16, <1>17, <1>18, <1>19, <1>20, <1>21, <1>22, <1>23, <1>24, <1>25, <1>26, 
     <1>27, <1>28
     DEF Next, ChatStep, FlushStep, SyncStep, TeardownStep

-----------------------------------------------------------------------------
\* What a message means stays when scrubbers grow.
LEMMA MeantStays ==
  ASSUME TypeInv, Grown, scrubbers' \in Seq(Seq(Addresses)), NEW q, Meant(scrubbers, q)
  PROVE  Meant(scrubbers', q)
<1>1. scrubbers \in Seq(Seq(Addresses)) /\ Len(scrubbers) \in Nat
  BY DEF TypeInv, TypeOK
<1>2. Len(scrubbers') \in Nat
  BY LenProperties
<1> DEFINE g == q.gen
<1>3. g \in 1..Len(scrubbers)
  BY DEF Meant
<1>4. g \in 1..Len(scrubbers')
  BY <1>1, <1>2, <1>3 DEF Grown
<1> DEFINE old == scrubbers[g]  new == scrubbers'[g]
<1>5. old \in Seq(Addresses) /\ new \in Seq(Addresses)
  BY <1>1, <1>3, <1>4
<1>6. Len(old) <= Len(new) /\ \A n \in 1..Len(old) : new[n] = old[n]
  BY <1>3 DEF Grown
<1> HIDE DEF old, new
<1>7. /\ DOMAIN old = 1..Len(old) /\ DOMAIN new = 1..Len(new)
      /\ Len(old) \in Nat /\ Len(new) \in Nat
  BY <1>5
<1>8. \A n \in DOMAIN old : n \in DOMAIN new /\ new[n] = old[n]
  BY <1>6, <1>7
<1>9. \A t \in q.tokens : t[1] \in DOMAIN old /\ old[t[1]] = t[2]
  BY DEF Meant, old
<1>10. \A t \in q.tokens : t[1] \in DOMAIN new /\ new[t[1]] = t[2]
  BY <1>8, <1>9
<1>11. QED
  BY <1>4, <1>10 DEF Meant, new

\* Tokens keep their addresses, and a reply is restored with the scrubber of
\* what it quotes as long as there is one.
LEMMA RestoreStep == RestoreInv /\ [Next]_vars => Restored'
<1> SUFFICES ASSUME RestoreInv, [Next]_vars PROVE Restored'
  OBVIOUS
<1>1. /\ pc \in [Requests -> Steps] /\ kind \in [Requests -> Kinds] /\ chatHist \in Seq(Message)
      /\ asked \in [Requests -> Seq(Message)] /\ matched \in [Requests -> SUBSET Requests]
      /\ graph \subseteq Requests /\ scrub \in [Requests -> Nat]
      /\ TypeInv
      /\ MessagesMeant /\ OneScrubber /\ RepliesEnded /\ RestoredAsMeant
      /\ \A m \in ToSet(chatHist) : m.by \in Requests
  <2>1. chatHist \in Seq(Message)
    BY DEF RestoreInv, TypeInv, TypeOK
  <2>2. \A m \in ToSet(chatHist) : m \in Message
    BY <2>1 DEF ToSet
  <2>3. \A m \in Message : m.by \in Requests
    BY DEF Message
  <2>4. QED
    BY <2>1, <2>2, <2>3 DEF RestoreInv, Restored, TypeInv, TypeOK
<1>2. ToSet(<<>>) = {}
  BY DEF ToSet
<1>3. ASSUME NEW r \in Requests, Begin(r) PROVE Restored'
  BY <1>1, <1>3
     DEF Restored, MessagesMeant, OneScrubber, RepliesEnded, RestoredAsMeant, ai, Begin
<1>4. ASSUME NEW r \in Requests, GetScrubber(r) PROVE Restored'
  <2>1. /\ scrubbers' \in Seq(Seq(Addresses)) /\ Grown
        /\ \/ current # 0 /\ UNCHANGED <<scrubbers, current>>
           \/ current = 0 /\ current' = Len(scrubbers) + 1 /\ Len(scrubbers') = current'
    BY <1>1, <1>4, GetScrubberDoes DEF GetScrubber
  <2>2. \A q : Meant(scrubbers, q) => Meant(scrubbers', q)
    BY <1>1, <2>1, MeantStays
  <2>3. /\ pc' = [pc EXCEPT ![r] = IF kind[r] = "context" THEN "export" ELSE "get"]
        /\ pc[r] = "scrubber" /\ UNCHANGED <<chatHist, asked, dropped>>
    BY <1>1, <1>4 DEF GetScrubber, Goto, history
  <2>4. MessagesMeant'
    BY <1>1, <2>2, <2>3 DEF MessagesMeant
  <2>5. OneScrubber'
    BY <1>1, <2>1, <2>3 DEF OneScrubber
  <2>6. (RepliesEnded /\ RestoredAsMeant)'
    BY <1>1, <2>3 DEF RepliesEnded, RestoredAsMeant
  <2>7. QED
    BY <2>4, <2>5, <2>6 DEF Restored
<1>5. ASSUME NEW r \in Requests, GetSession(r) PROVE Restored'
  BY <1>1, <1>5
     DEF Restored, MessagesMeant, OneScrubber, RepliesEnded, RestoredAsMeant, ai, history,
         GetSession
<1>6. ASSUME NEW r \in Requests, ResetChat(r) PROVE Restored'
  BY <1>1, <1>2, <1>6
     DEF Restored, MessagesMeant, OneScrubber, RepliesEnded, RestoredAsMeant, Goto, DropHist,
         ResetChat
<1>7. ASSUME NEW r \in Requests, Export(r) PROVE Restored'
  <2>1. /\ scrubbers' \in Seq(Seq(Addresses)) /\ Grown /\ Len(scrubbers') = Len(scrubbers)
        /\ asked' \in [Requests -> Seq(Message)]
        /\ \A s \in Requests : s # r => asked'[s] = asked[s]
        /\ kind[r] \notin Chatting => asked' = asked
        /\ kind[r] \in Chatting =>
             \A m \in ToSet(asked'[r]) : m.what = "context" /\ m.by = r /\ Meant(scrubbers', m)
    BY <1>1, <1>7, ExportDoes
  <2>2. \A q : Meant(scrubbers, q) => Meant(scrubbers', q)
    BY <1>1, <2>1, MeantStays
  <2>3. /\ pc' = [pc EXCEPT ![r] = IF kind[r] \in Chatting THEN "hist" ELSE "sync"]
        /\ pc[r] = "export" /\ UNCHANGED <<chatHist, current, dropped>>
    BY <1>1, <1>7 DEF Export, Goto, history
  <2>4. MessagesMeant'
    BY <1>1, <2>1, <2>2, <2>3 DEF MessagesMeant
  <2>5. OneScrubber'
    BY <1>1, <2>1, <2>3 DEF OneScrubber
  <2>6. RepliesEnded'
    BY <1>1, <2>3 DEF RepliesEnded
  <2>7. \A m \in ToSet(chatHist) : m.what = "reply" => asked'[m.by] = asked[m.by]
    <3>1. \A m \in ToSet(chatHist) : m \in Message
      BY <1>1, <1>1 DEF ToSet
    <3>2. \A m \in Message : m.by \in Requests
      BY DEF Message
    <3>3. \A m \in ToSet(chatHist) : m.what = "reply" => m.by # r
      BY <1>1, <2>3 DEF RepliesEnded
    <3>4. QED
      BY <2>1, <3>1, <3>2, <3>3
  <2>8. RestoredAsMeant'
    BY <1>1, <2>3, <2>7 DEF RestoredAsMeant
  <2>9. QED
    BY <2>4, <2>5, <2>6, <2>8 DEF Restored
<1>8. ASSUME NEW r \in Requests, ReadHist(r) PROVE Restored'
  <2>1. /\ scrubbers' \in Seq(Seq(Addresses)) /\ Grown /\ Len(scrubbers') = Len(scrubbers)
        /\ asked' = [asked EXCEPT ![r] = chatHist'] /\ chatHist' \in Seq(Message)
    BY <1>1, <1>8, ReadHistDoes
  <2>2. \A q : Meant(scrubbers, q) => Meant(scrubbers', q)
    BY <1>1, <2>1, MeantStays
  <2>3. pc[r] = "hist" /\ UNCHANGED <<current, dropped>>
    BY <1>1, <1>8 DEF ReadHist, Goto, history
  <2>4. /\ \A s \in Requests : s # r => asked'[s] = asked[s] /\ pc'[s] = pc[s]
        /\ asked'[r] = chatHist'
    BY <1>1, <2>1, <1>8 DEF ReadHist, Goto
  <2>5. \A m \in ToSet(chatHist') :
          \/ m \in ToSet(chatHist)
          \/ m.what # "reply" /\ Meant(scrubbers', m)
    <3>1. CASE chatHist' = asked[r]
      <4>1. \A m \in ToSet(asked[r]) : m.what # "reply"
        BY <1>1, <2>3 DEF TypeInv, OwnContext
      <4>2. QED
        BY <1>1, <2>2, <3>1, <4>1 DEF MessagesMeant
    <3>2. ASSUME NEW u \in Message, chatHist' = Append(chatHist, u), u.what = "question",
                 Meant(scrubbers', u)
          PROVE  \A m \in ToSet(chatHist') :
                   m \in ToSet(chatHist) \/ (m.what # "reply" /\ Meant(scrubbers', m))
      <4>1. ToSet(chatHist') = ToSet(chatHist) \cup {u}
        BY <1>1, <3>2, AppendedSet
      <4>2. QED
        BY <3>2, <4>1
    <3>3. CASE chatHist' = chatHist
      BY <3>3
    <3>4. QED
      BY <1>1, <1>8, <3>1, <3>2, <3>3, ReadHistDoes
  <2>6. MessagesMeant'
    <3>1. \A q \in ToSet(chatHist') : q.what # "reply" => Meant(scrubbers', q)
      BY <1>1, <2>2, <2>5 DEF MessagesMeant
    <3>2. QED
      BY <1>1, <2>2, <2>4, <3>1 DEF MessagesMeant
  <2>7. OneScrubber'
    BY <1>1, <2>1, <2>3 DEF OneScrubber
  <2>8. \A m \in ToSet(chatHist') : m.what = "reply" =>
          m \in ToSet(chatHist) /\ m.by \in Requests /\ m.by # r
    <3>1. \A m \in ToSet(chatHist) : m \in Message
      BY <1>1, <1>1 DEF ToSet
    <3>2. \A m \in Message : m.by \in Requests
      BY DEF Message
    <3>3. \A m \in ToSet(chatHist) : m.what = "reply" => m.by # r
      BY <1>1, <2>3 DEF RepliesEnded
    <3>4. QED
      BY <2>5, <3>1, <3>2, <3>3
  <2>9. RepliesEnded'
    BY <1>1, <2>8, <2>4 DEF RepliesEnded
  <2>10. RestoredAsMeant'
    BY <1>1, <2>3, <2>8, <2>4 DEF RestoredAsMeant
  <2>11. QED
    BY <2>6, <2>7, <2>9, <2>10 DEF Restored
<1>9. ASSUME NEW r \in Requests, StoreCreds(r) PROVE Restored'
  BY <1>1, <1>9
     DEF Restored, MessagesMeant, OneScrubber, RepliesEnded, RestoredAsMeant, Goto, history,
         StoreCreds
<1>10. ASSUME NEW r \in Requests, \E t \in Quotable(r) : Answer(r, t)
      PROVE  Restored'
  <2>1. PICK t \in Quotable(r) : Answer(r, t)
    BY <1>10
  <2>2. PICK m \in Message :
          /\ chatHist' = Append(chatHist, m)
          /\ m.what = "reply" /\ m.by = r /\ m.gen = scrub[r] /\ m.tokens = {t}
          /\ m.clear = Restore(scrubbers[scrub[r]], t[1])
    BY <1>1, <2>1, AnswerDoes
  <2>3. ToSet(chatHist') = ToSet(chatHist) \cup {m}
    BY <1>1, <2>2, AppendedSet
  <2>4. /\ pc' = [pc EXCEPT ![r] = "done"] /\ pc[r] = "reply"
        /\ UNCHANGED <<scrubbers, current, scrub, asked, dropped>>
    BY <2>1 DEF Answer, Goto, history
  <2>5. (MessagesMeant /\ OneScrubber)'
    BY <1>1, <2>2, <2>3, <2>4 DEF MessagesMeant, OneScrubber
  <2>6. RepliesEnded'
    BY <1>1, <2>2, <2>3, <2>4 DEF RepliesEnded
  <2>7. \/ \A u \in m.tokens : m.clear = {u[2]}
        \/ dropped /\ \E q \in ToSet(asked[r]) : q.what # "reply" /\ q.gen # m.gen
    <3>1. PICK q \in ToSet(asked[r]) : q.what # "reply" /\ t \in q.tokens
      BY DEF Quotable
    <3>2. Meant(scrubbers, q)
      BY <1>1, <3>1 DEF MessagesMeant
    <3>3. q.gen \in 1..Len(scrubbers) /\ t[1] \in DOMAIN scrubbers[q.gen]
          /\ scrubbers[q.gen][t[1]] = t[2]
      BY <3>1, <3>2 DEF Meant
    <3>4. CASE q.gen = scrub[r]
      <4>1. m.clear = {t[2]}
        BY <2>2, <3>3, <3>4 DEF Restore
      <4>2. QED
        BY <2>2, <4>1
    <3>5. CASE q.gen # scrub[r]
      <4>1. scrub[r] \in 1..Len(scrubbers)
        <5>1. kind[r] \in Chatting
          BY <1>1, <2>4 DEF TypeInv, OnCourse, Course
        <5>2. scrub[r] # 0 /\ scrub[r] \in 0..Len(scrubbers)
          BY <1>1, <2>4, <5>1 DEF TypeInv, TypeOK, HoldsScrubber, Holds
        <5>3. QED
          BY <5>2
      <4>2. dropped
        <5>1. current \in {0, 1} /\ Len(scrubbers) = current => q.gen = scrub[r]
          BY <3>3, <4>1
        <5>2. QED
          BY <1>1, <3>5, <5>1 DEF OneScrubber
      <4>3. QED
        BY <2>2, <3>1, <3>5, <4>2
    <3>6. QED
      BY <3>4, <3>5
  <2>8. RestoredAsMeant'
    BY <1>1, <2>2, <2>3, <2>4, <2>7 DEF RestoredAsMeant
  <2>9. QED
    BY <2>5, <2>6, <2>8 DEF Restored
<1>11. ASSUME NEW r \in Requests, CallFails(r) PROVE Restored'
  BY <1>1, <1>11
     DEF Restored, MessagesMeant, OneScrubber, RepliesEnded, RestoredAsMeant, Goto, ai,
         history, CallFails
<1>12. ASSUME NEW r \in Requests, FlushScrubber(r) PROVE Restored'
  BY <1>1, <1>12
     DEF Restored, MessagesMeant, OneScrubber, RepliesEnded, RestoredAsMeant, Goto,
         DropScrubber, FlushScrubber
<1>13. ASSUME NEW r \in Requests, FlushHist(r) PROVE Restored'
  BY <1>1, <1>2, <1>13
     DEF Restored, MessagesMeant, OneScrubber, RepliesEnded, RestoredAsMeant, Goto, DropHist,
         FlushHist
<1>14. ASSUME NEW r \in Requests, FlushCreds(r) PROVE Restored'
  BY <1>1, <1>14
     DEF Restored, MessagesMeant, OneScrubber, RepliesEnded, RestoredAsMeant, Goto, history,
         FlushCreds
<1>15. ASSUME NEW r \in Requests, ResetMaps(r) PROVE Restored'
  BY <1>1, <1>15
     DEF Restored, MessagesMeant, OneScrubber, RepliesEnded, RestoredAsMeant, Goto,
         DropScrubber, ResetMaps
<1>16. ASSUME NEW r \in Requests, Triage(r) PROVE Restored'
  BY <1>1, <1>16
     DEF Restored, MessagesMeant, OneScrubber, RepliesEnded, RestoredAsMeant, Goto, history,
         Triage
<1>17. ASSUME NEW r \in Requests, SkipSync(r) PROVE Restored'
  BY <1>1, <1>17
     DEF Restored, MessagesMeant, OneScrubber, RepliesEnded, RestoredAsMeant, Goto, ai,
         history, SkipSync
<1>18. ASSUME NEW r \in Requests, MatchRows(r) PROVE Restored'
  BY <1>1, <1>18
     DEF Restored, MessagesMeant, OneScrubber, RepliesEnded, RestoredAsMeant, Goto, ai,
         history, MatchRows
<1>19. ASSUME NEW r \in Requests, Commit(r) PROVE Restored'
  BY <1>1, <1>19
     DEF Restored, MessagesMeant, OneScrubber, RepliesEnded, RestoredAsMeant, Goto, ai,
         history, Commit
<1>20. ASSUME NEW r \in Requests, CommitFails(r) PROVE Restored'
  BY <1>1, <1>20
     DEF Restored, MessagesMeant, OneScrubber, RepliesEnded, RestoredAsMeant, Goto, ai,
         history, CommitFails
<1>21. ASSUME AppendFlow PROVE Restored'
  BY <1>1, <1>21
     DEF Restored, MessagesMeant, OneScrubber, RepliesEnded, RestoredAsMeant, local, ai,
         history, AppendFlow
<1>22. ASSUME TdBegin PROVE Restored'
  BY <1>1, <1>22
     DEF Restored, MessagesMeant, OneScrubber, RepliesEnded, RestoredAsMeant, local, ai, TdBegin
<1>23. ASSUME DeleteCapture PROVE Restored'
  BY <1>1, <1>23
     DEF Restored, MessagesMeant, OneScrubber, RepliesEnded, RestoredAsMeant, local, ai,
         DeleteCapture
<1>24. ASSUME TdDelete PROVE Restored'
  BY <1>1, <1>24
     DEF Restored, MessagesMeant, OneScrubber, RepliesEnded, RestoredAsMeant, local, ai,
         history, TdDelete
<1>25. ASSUME TdScrubber PROVE Restored'
  BY <1>1, <1>25
     DEF Restored, MessagesMeant, OneScrubber, RepliesEnded, RestoredAsMeant, local,
         DropScrubber, TdScrubber
<1>26. ASSUME TdHist PROVE Restored'
  BY <1>1, <1>2, <1>26
     DEF Restored, MessagesMeant, OneScrubber, RepliesEnded, RestoredAsMeant, local, DropHist,
         TdHist
<1>27. ASSUME TdCreds PROVE Restored'
  BY <1>1, <1>27
     DEF Restored, MessagesMeant, OneScrubber, RepliesEnded, RestoredAsMeant, local, history,
         TdCreds
<1>28. ASSUME TdOwner PROVE Restored'
  BY <1>1, <1>28
     DEF Restored, MessagesMeant, OneScrubber, RepliesEnded, RestoredAsMeant, local, ai,
         history, TdOwner
<1>29. CASE UNCHANGED vars
  BY <1>1, <1>29
     DEF Restored, MessagesMeant, OneScrubber, RepliesEnded, RestoredAsMeant, local, ai,
         history, vars
<1>30. QED
  BY <1>3, <1>4, <1>5, <1>6, <1>7, <1>8, <1>9, <1>10, <1>11, <1>12, <1>13, <1>14, <1>15, 
     <1>16, <1>17, <1>18, <1>19, <1>20, <1>21, <1>22, <1>23, <1>24, <1>25, <1>26, <1>27, 
     <1>28, <1>29
     DEF Next, ChatStep, FlushStep, SyncStep, TeardownStep
-----------------------------------------------------------------------------
\* Whatever is left of a capture after its teardown, a request that was under
\* way during the teardown wrote, or the failed DeleteCapture left, or a triage
\* that asks nobody: teardownCaptureSession misses nothing older, and what
\* begins later finds no owner (requireCaptureAccess).
THEOREM LeftoversAreOverlapping == Spec => []LeftoversOverlapTeardown
<1>1. Init => LeftInv
  BY TypeInit DEF Init, LeftInv, OverlapKnown, Torn
<1>2. LeftInv /\ [Next]_vars => LeftInv'
  BY TypeStep, LeftStep DEF LeftInv
<1>3. LeftInv => LeftoversOverlapTeardown
  BY DEF LeftInv, Torn, LeftoversOverlapTeardown
<1>4. QED
  BY <1>1, <1>2, <1>3, PTL DEF Spec

\* The graph store has one topology of a capture, or those of syncs whose
\* transactions overlapped (Store.ReplaceTopology), whatever the requests do.
THEOREM GraphHoldsOneTopology == Spec => []GraphInv
<1>1. Init => OneTopologyInv
  BY TypeInit DEF Init, OneTopologyInv, Committed, GraphIsOneTopology
<1>2. OneTopologyInv /\ [Next]_vars => OneTopologyInv'
  BY TypeStep, OneTopologyStep DEF OneTopologyInv
<1>3. OneTopologyInv => GraphInv
  BY DEF OneTopologyInv, TypeInv, GraphInv
<1>4. QED
  BY <1>1, <1>2, <1>3, PTL DEF Spec

\* A kept conversation starts with the capture's context, or with the answer of
\* a chat whose history was dropped while handleAIChat waited for the LLM.
THEOREM ConversationsStartWithContext == Spec => []ContextFirst
<1>1. Init => ContextInv
  BY TypeInit DEF Init, ContextInv, HistStays, ContextFirst
<1>2. ContextInv /\ [Next]_vars => ContextInv'
  BY TypeStep, ContextStep DEF ContextInv
<1>3. ContextInv => ContextFirst
  BY DEF ContextInv
<1>4. QED
  BY <1>1, <1>2, <1>3, PTL DEF Spec

\* Scrubber.Restore puts for a token the address it stood for in what the LLM
\* was sent, until a flush or a teardown has dropped a scrubber and left its
\* tokens in a history.
THEOREM TokensRestoreAsMeant == Spec => []RestoredAsMeant
<1>1. Init => RestoreInv
  <2>1. ToSet(<<>>) = {} /\ Len(<<>>) = 0
    BY DEF ToSet
  <2>2. QED
    BY <2>1, TypeInit
       DEF Init, RestoreInv, Restored, MessagesMeant, OneScrubber, RepliesEnded, RestoredAsMeant
<1>2. RestoreInv /\ [Next]_vars => RestoreInv'
  BY TypeStep, RestoreStep DEF RestoreInv
<1>3. RestoreInv => RestoredAsMeant
  BY DEF RestoreInv, Restored
<1>4. QED
  BY <1>1, <1>2, <1>3, PTL DEF Spec
=============================================================================
