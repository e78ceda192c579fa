---------------------------- MODULE PortalProofs ----------------------------
(***************************************************************************)
(* Theorems about the portal's captures and about the logins whose         *)
(* sessions own them: CaptureRegistry for every number of captures, auth   *)
(* sessions and slots, LoginState for every number of states and requests. *)
(***************************************************************************)
EXTENDS CaptureRegistry, LoginState, FiniteSetTheorems, TLAPS

-----------------------------------------------------------------------------
(* Type correctness. *)

LEMMA TypeInit == Init => TypeOK
  BY DEF Init, TypeOK, EarlySteps

LEMMA FiniteCaptures ==
  ASSUME NEW S \in SUBSET Captures
  PROVE  IsFiniteSet(S) /\ Cardinality(S) \in Nat
  BY RegistryAssumption, FS_Subset, FS_CardinalityType

\* One step per group of actions that touch the same variables.
LEMMA TypeStep == TypeOK /\ [Next]_vars => TypeOK'
<1> SUFFICES ASSUME TypeOK, [Next]_vars
             PROVE  TypeOK'
  OBVIOUS
<1> USE DEF TypeOK, EarlySteps, WindowSteps, SlotSteps, handler, registry, requests
<1>1. ASSUME NEW c \in Captures, NEW a \in Auths, Authenticate(c, a)
      PROVE  TypeOK'
  BY <1>1 DEF Authenticate, Goto
<1>2. ASSUME NEW c \in Captures, Handler(c)
      PROVE  TypeOK'
  <2>0. Cardinality(Window \cup {c}) \in Nat
    <3>1. Window \cup {c} \in SUBSET Captures
      BY DEF Window
    <3>2. QED
      BY <3>1, FiniteCaptures
  <2>1. CASE Refuse(c) \/ Admit(c) \/ CreateFails(c)
    BY <2>0, <2>1 DEF Refuse, Admit, CreateFails, Goto
  <2>2. CASE Create(c) \/ registerCaptureSession(c)
    BY <2>2 DEF Create, registerCaptureSession, Goto
  <2>3. CASE Dial(c) \/ Hangup(c) \/ Release(c)
    BY <2>3 DEF Dial, Hangup, Release, Goto
  <2>4. CASE DialFails(c) \/ RecvFails(c) \/ ClientGone(c)
    BY <2>4 DEF DialFails, RecvFails, ClientGone, Goto, AfterLoop
  <2>5. CASE markCaptureStreamActive(c)
    BY <2>5 DEF markCaptureStreamActive, Goto
  <2>6. QED
    BY <1>2, <2>1, <2>2, <2>3, <2>4, <2>5 DEF Handler
<1>3. ASSUME NEW c \in Captures,
             LimitReached(c) \/ Cancel(c) \/ EngineEnds(c) \/ ReleaseStream(c)
      PROVE  TypeOK'
  BY <1>3 DEF LimitReached, Cancel, EngineEnds, ReleaseStream, Goto, AfterLoop
<1>4. ASSUME NEW c \in Captures, NEW w \in Workers, BeginTeardown(w, c)
      PROVE  TypeOK'
  BY <1>4 DEF BeginTeardown
<1>5. ASSUME NEW c \in Captures, NEW w \in Workers, TeardownStep(w, c)
      PROVE  TypeOK'
  <2>1. CASE TdDelete(w, c)
    BY <2>1 DEF TdDelete
  <2>2. CASE TdForget(w, c)
    BY <2>2 DEF TdForget
  <2>3. QED
    BY <1>5, <2>1, <2>2 DEF TeardownStep
<1>6. ASSUME NEW a \in Auths,
             Expire(a) \/ releaseAllCaptureStreamsForAuth(a) \/ Logout(a)
               \/ LogoutDone(a)
      PROVE  TypeOK'
  BY <1>6 DEF Expire, releaseAllCaptureStreamsForAuth, Logout, LogoutDone, Owned
<1>7. CASE UNCHANGED vars
  BY <1>7 DEF vars
<1>8. QED
  <2>1. "request" \in Workers /\ "purge" \in Workers
    BY DEF Workers
  <2>2. QED
    BY <1>1, <1>2, <1>3, <1>4, <1>5, <1>6, <1>7, <2>1
       DEF Next, Teardown, PurgeStep, PurgeNext

\* Every variable of the registry keeps its type.
THEOREM TypeCorrect == Spec => []TypeOK
<1>1. QED
  BY TypeInit, TypeStep, PTL DEF Spec

-----------------------------------------------------------------------------
(* The inductive invariant, one step per action. *)

LEMMA RegistryInvInit == Init => RegistryInv
  BY RegistryAssumption
     DEF Init, RegistryInv, HandlerInv, PurgeInv, EarlySteps, Unregistered, Workers

LEMMA RegistryInvStep ==
  TypeOK /\ RegistryInv /\ [Next]_vars => RegistryInv'
<1> SUFFICES ASSUME TypeOK, RegistryInv, [Next]_vars,
                    NEW d \in Captures
             PROVE  HandlerInv(d)' /\ PurgeInv(d)'
  BY DEF RegistryInv
<1>0. HandlerInv(d) /\ PurgeInv(d)
  BY DEF RegistryInv
<1> USE <1>0, RegistryAssumption
    DEF TypeOK, HandlerInv, PurgeInv, EarlySteps, WindowSteps, SlotSteps,
        Unregistered, handler, registry, requests
<1>1. ASSUME NEW c \in Captures, NEW a \in Auths, Authenticate(c, a)
      PROVE  HandlerInv(d)' /\ PurgeInv(d)'
  BY <1>1 DEF Authenticate, Goto, Workers
<1>2. ASSUME NEW c \in Captures, Handler(c)
      PROVE  HandlerInv(d)' /\ PurgeInv(d)'
  <2>1. CASE Refuse(c) \/ Admit(c) \/ CreateFails(c) \/ DialFails(c)
             \/ RecvFails(c) \/ ClientGone(c)
    BY <2>1 DEF Refuse, Admit, CreateFails, DialFails, RecvFails, ClientGone,
                Goto, AfterLoop
  <2>2. CASE Create(c)
    BY <2>2 DEF Create, Goto
  <2>3. CASE registerCaptureSession(c)
    BY <2>3 DEF registerCaptureSession, Goto
  <2>4. CASE markCaptureStreamActive(c)
    BY <2>4 DEF markCaptureStreamActive, Goto
  <2>5. CASE Dial(c) \/ Hangup(c) \/ Release(c)
    BY <2>5 DEF Dial, Hangup, Release, Goto
  <2>6. QED
    BY <1>2, <2>1, <2>2, <2>3, <2>4, <2>5 DEF Handler
<1>3. ASSUME NEW c \in Captures,
             LimitReached(c) \/ Cancel(c) \/ EngineEnds(c) \/ ReleaseStream(c)
      PROVE  HandlerInv(d)' /\ PurgeInv(d)'
  BY <1>3 DEF LimitReached, Cancel, EngineEnds, ReleaseStream, Goto, AfterLoop
<1>4. ASSUME NEW c \in Captures, Teardown(c)
      PROVE  HandlerInv(d)' /\ PurgeInv(d)'
  <2>1. pc[c] \notin Unregistered
    BY <1>4 DEF Teardown, RegistryInv
  <2>2. QED
    BY <1>4, <2>1 DEF Teardown, BeginTeardown, Workers
<1>5. ASSUME NEW c \in Captures, NEW w \in Workers, TeardownStep(w, c)
      PROVE  HandlerInv(d)' /\ PurgeInv(d)'
  <2>0. pc[c] \notin Unregistered /\ (td[w][c] = "forget" => c \notin stored)
    BY <1>5 DEF TeardownStep, TdDelete, TdForget, RegistryInv
  <2>1. CASE TdDelete(w, c)
    BY <2>0, <2>1 DEF TdDelete, Workers
  <2>2. CASE TdForget(w, c)
    BY <2>0, <2>2 DEF TdForget, Workers
  <2>3. QED
    BY <1>5, <2>1, <2>2 DEF TeardownStep
<1>6. ASSUME NEW a \in Auths,
             Expire(a) \/ releaseAllCaptureStreamsForAuth(a)
      PROVE  HandlerInv(d)' /\ PurgeInv(d)'
  BY <1>6 DEF Expire, releaseAllCaptureStreamsForAuth, Owned
<1>7. ASSUME NEW a \in Auths, Logout(a)
      PROVE  HandlerInv(d)' /\ PurgeInv(d)'
  BY <1>7 DEF Logout, Owned
<1>8. ASSUME NEW a \in Auths, NEW c \in Captures, PurgeNext(a, c)
      PROVE  HandlerInv(d)' /\ PurgeInv(d)'
  <2>1. pc[c] \notin Unregistered /\ who[c] = a
    BY <1>8 DEF PurgeNext, RegistryInv
  <2>2. QED
    BY <1>8, <2>1 DEF PurgeNext, BeginTeardown, Workers
<1>9. ASSUME NEW a \in Auths, LogoutDone(a)
      PROVE  HandlerInv(d)' /\ PurgeInv(d)'
  BY <1>9 DEF LogoutDone
<1>10. CASE UNCHANGED vars
  BY <1>10 DEF vars
<1>11. QED
  BY <1>1, <1>2, <1>3, <1>4, <1>5, <1>6, <1>7, <1>8, <1>9, <1>10
     DEF Next, PurgeStep

\* The handler's step, the registry's entries and the running teardowns stay
\* in agreement whatever the interleaving.
THEOREM RegistryInvariant == Spec => []RegistryInv
<1>1. QED
  BY RegistryInvInit, RegistryInvStep, TypeCorrect, PTL DEF Spec

\* The registry's invariant as the run checks it, for any number of captures,
\* auth sessions and slots.
THEOREM CaptureInvHolds == Spec => []CaptureInv
<1>1. TypeOK /\ RegistryInv => CaptureInv
  BY DEF CaptureInv
<1>2. QED
  BY <1>1, TypeCorrect, RegistryInvariant, PTL

-----------------------------------------------------------------------------
(* What the invariant is for. *)

\* No admission slot outlives the handler that took it.
THEOREM NoSlotLeaks == Spec => []SlotsHaveHandlers
<1>1. TypeOK /\ RegistryInv => SlotsHaveHandlers
  BY DEF TypeOK, RegistryInv, HandlerInv, SlotsHaveHandlers
<1>2. QED
  BY <1>1, RegistryInvariant, TypeCorrect, PTL

\* Packets in the portal's memory have their requester as owner.
THEOREM PacketsAreOwned == Spec => []StoredDataIsOwned
<1>1. TypeOK /\ RegistryInv => StoredDataIsOwned
  BY DEF TypeOK, RegistryInv, HandlerInv, StoredDataIsOwned
<1>2. QED
  BY <1>1, RegistryInvariant, TypeCorrect, PTL

\* Only the owning auth session, or the capture's own handler, discards
\* packets or frees the slot of a capture.
THEOREM OnlyOwnerEnds == Spec => OnlyOwnerEndsCapture
<1> DEFINE Ends(c) ==
      /\ c \in stored \ stored' =>
           td["request"][c] = "delete" \/ logout[who[c]] = "purging"
      /\ c \in active \ active' =>
           \/ pc[c] = "release"
           \/ who[c] \in sessions
           \/ td["request"][c] = "forget"
           \/ logout[who[c]] = "purging"
<1>1. ASSUME TypeOK, RegistryInv, [Next]_vars, NEW d \in Captures
      PROVE  Ends(d)
  <2>0. HandlerInv(d) /\ PurgeInv(d)
    BY <1>1 DEF RegistryInv
  <2> USE <1>1 DEF handler, registry, requests
  <2>1. ASSUME NEW c \in Captures, NEW a \in Auths, Authenticate(c, a)
        PROVE  Ends(d)
    BY <2>1 DEF Authenticate
  <2>2. ASSUME NEW c \in Captures, Handler(c)
        PROVE  Ends(d)
    BY <2>2 DEF Handler, Refuse, Admit, Create, CreateFails,
                registerCaptureSession, markCaptureStreamActive, Dial, DialFails,
                RecvFails, ClientGone, Hangup, Release, Goto
  <2>3. ASSUME NEW c \in Captures,
               LimitReached(c) \/ Cancel(c) \/ EngineEnds(c) \/ Teardown(c)
        PROVE  Ends(d)
    BY <2>3 DEF LimitReached, Cancel, EngineEnds, Teardown, BeginTeardown
  <2>4. ASSUME NEW c \in Captures, ReleaseStream(c)
        PROVE  Ends(d)
    BY <2>0, <2>4, RegistryAssumption DEF ReleaseStream, HandlerInv, TypeOK
  <2>5. ASSUME NEW c \in Captures, NEW w \in Workers, TeardownStep(w, c)
        PROVE  Ends(d)
    <3>1. w = "purge" /\ td[w][d] # "idle" => logout[who[d]] = "purging"
      BY <2>0, RegistryAssumption DEF PurgeInv, HandlerInv, TypeOK, Workers, Unregistered, EarlySteps
    <3>2. QED
      BY <2>0, <2>5, <3>1 DEF TeardownStep, TdDelete, TdForget, Workers
  <2>6. ASSUME NEW a \in Auths,
               Expire(a) \/ releaseAllCaptureStreamsForAuth(a) \/ Logout(a)
                 \/ PurgeStep(a)
        PROVE  Ends(d)
    BY <2>0, <2>6, RegistryAssumption
       DEF Expire, releaseAllCaptureStreamsForAuth, Logout, PurgeStep, LogoutDone,
           PurgeNext, BeginTeardown, Owned, HandlerInv, TypeOK
  <2>7. CASE UNCHANGED vars
    BY <2>7 DEF vars
  <2>8. QED
    BY <2>1, <2>2, <2>3, <2>4, <2>5, <2>6, <2>7 DEF Next
<1>2. TypeOK /\ RegistryInv /\ [Next]_vars => [\A c \in Captures : Ends(c)]_vars
  BY <1>1
<1>3. QED
  BY <1>2, TypeCorrect, RegistryInvariant, PTL DEF Spec, OnlyOwnerEndsCapture

-----------------------------------------------------------------------------
(* The admission limit, for starts that overlap. *)

\* A handler that has been admitted will take a slot: it counts already.
Committed == active \cup Window

\* Only an admission commits to a slot; it saw the slots taken, but not the
\* other starts in the window.
LEMMA CommittedStep ==
  ASSUME TypeOK, TypeOK', SlotsWithinOverlap, [Next]_vars
  PROVE  SlotsWithinOverlap'
<1> USE DEF handler, registry, requests
<1>0. Committed \subseteq Captures /\ Committed' \subseteq Captures
  BY DEF TypeOK, Committed, Window
<1>1. ASSUME Committed' \subseteq Committed, UNCHANGED overlap
      PROVE  SlotsWithinOverlap'
  <2>1. Cardinality(Committed') \in Nat /\ Cardinality(Committed) \in Nat
    BY <1>0, FiniteCaptures
  <2>2. Cardinality(Committed') <= Cardinality(Committed)
    BY <1>0, <1>1, FiniteCaptures, FS_Subset
  <2>3. QED
    BY <1>1, <2>1, <2>2, RegistryAssumption DEF SlotsWithinOverlap, Committed, TypeOK
<1>2. ASSUME NEW c \in Captures, Admit(c)
      PROVE  SlotsWithinOverlap'
  <2>1. Window' = Window \cup {c} /\ active' = active
    BY <1>2 DEF Window, Admit, Goto, TypeOK, WindowSteps
  <2>2. Window' \in SUBSET Captures /\ active \in SUBSET Captures
    BY DEF Window, TypeOK
  <2>3. Cardinality(Window') \in Nat /\ Cardinality(active) \in Nat
    BY <2>2, FiniteCaptures
  <2>4. IsFiniteSet(Window') /\ IsFiniteSet(active) /\ IsFiniteSet(active \cap Window')
    BY <2>2, FiniteCaptures
  <2>5. /\ Cardinality(active \cup Window') =
             Cardinality(active) + Cardinality(Window') - Cardinality(active \cap Window')
        /\ Cardinality(active \cap Window') \in Nat
    BY <2>4, FS_Union, FS_CardinalityType
  <2>6. overlap' >= Cardinality(Window') /\ overlap' \in Nat
    BY <1>2, <2>1, <2>3 DEF Admit, TypeOK
  <2>7. MaxSessions > 0 => Cardinality(active) < MaxSessions
    BY <1>2 DEF Admit, HasRoom
  <2>8. MaxSessions > 0 => Cardinality(active \cup Window') < MaxSessions + overlap'
    BY <2>3, <2>5, <2>6, <2>7, RegistryAssumption
  <2>9. QED
    BY <2>1, <2>8 DEF SlotsWithinOverlap
<1>3. ASSUME NEW c \in Captures, Handler(c), ~Admit(c)
      PROVE  Committed' \subseteq Committed /\ UNCHANGED overlap
  BY <1>3
     DEF TypeOK, Committed, Window, WindowSteps, Handler, Refuse, Create, CreateFails,
         registerCaptureSession, markCaptureStreamActive, Dial, DialFails,
         RecvFails, ClientGone, Hangup, Release, Goto, AfterLoop
<1>4. ASSUME NEW c \in Captures, NEW a \in Auths, Authenticate(c, a)
      PROVE  Committed' \subseteq Committed /\ UNCHANGED overlap
  BY <1>4 DEF TypeOK, Committed, Window, WindowSteps, Authenticate, Goto
<1>5. ASSUME NEW c \in Captures,
             \/ LimitReached(c) \/ Cancel(c) \/ EngineEnds(c)
             \/ ReleaseStream(c) \/ Teardown(c)
             \/ \E w \in Workers : TeardownStep(w, c)
      PROVE  Committed' \subseteq Committed /\ UNCHANGED overlap
  BY <1>5
     DEF TypeOK, Committed, Window, WindowSteps, LimitReached, Cancel, EngineEnds,
         ReleaseStream, Teardown, BeginTeardown, TeardownStep, TdDelete, TdForget,
         Goto, AfterLoop
<1>6. ASSUME NEW a \in Auths,
             \/ Expire(a) \/ releaseAllCaptureStreamsForAuth(a)
             \/ Logout(a) \/ PurgeStep(a)
      PROVE  Committed' \subseteq Committed /\ UNCHANGED overlap
  BY <1>6
     DEF Committed, Window, Expire, releaseAllCaptureStreamsForAuth, Logout,
         PurgeStep, LogoutDone, PurgeNext, BeginTeardown
<1>7. CASE UNCHANGED vars
  BY <1>1, <1>7 DEF vars, Committed, Window
<1>8. QED
  BY <1>1, <1>2, <1>3, <1>4, <1>5, <1>6, <1>7 DEF Next

\* The slots taken and promised exceed the limit by less than the most starts
\* that were ever under way together, for any limit and any number of captures.
THEOREM OverlapBoundsSlots == Spec => []SlotsWithinOverlap
<1>1. Init => SlotsWithinOverlap
  <2>1. Init => active \cup Window = {} /\ overlap = 0
    BY DEF Init, Window, WindowSteps
  <2>2. QED
    BY <2>1, FS_EmptySet, RegistryAssumption DEF SlotsWithinOverlap
<1>2. TypeOK /\ TypeOK' /\ SlotsWithinOverlap /\ [Next]_vars => SlotsWithinOverlap'
  BY CommittedStep
<1>3. QED
  BY <1>1, <1>2, TypeCorrect, PTL DEF Spec

-----------------------------------------------------------------------------
(* The registry implements CaptureCustody. *)

LEMMA CustodyInit == Init => Custody!Init
<1> SUFFICES ASSUME Init
             PROVE  \A c \in Captures : PhaseOf(c) = "absent" /\ Custodian(c) = NoAuth
  BY DEF Custody!Init
<1>1. QED
  BY DEF Init, PhaseOf, Custodian, EarlySteps

\* A step that changes neither phase nor custodian of any capture.
LEMMA CustodyStutter ==
  ASSUME \A c \in Captures :
           PhaseOf(c)' = PhaseOf(c) /\ Custodian(c)' = Custodian(c)
  PROVE  UNCHANGED Custody!vars
  BY DEF Custody!vars

LEMMA CustodyStep ==
  ASSUME TypeOK, RegistryInv, [Next]_vars
  PROVE  [Custody!Next]_(Custody!vars)
<1> USE RegistryAssumption DEF handler, registry, requests
<1> DEFINE Same(c) == PhaseOf(c)' = PhaseOf(c) /\ Custodian(c)' = Custodian(c)
           Others(c) == \A d \in Captures \ {c} : Same(d)
<1>1. ASSUME NEW c \in Captures, Create(c)
      PROVE  Custody!Collect(c)
  <2>1. PhaseOf(c) = "absent" /\ PhaseOf(c)' = "unclaimed"
    BY <1>1 DEF TypeOK, RegistryInv, HandlerInv, Create, Goto, PhaseOf, EarlySteps, Unregistered
  <2>2. Custodian(c) = NoAuth /\ Custodian(c)' = NoAuth
    BY <2>1 DEF Custodian
  <2>3. Others(c)
    BY <1>1 DEF TypeOK, Create, Goto, PhaseOf, Custodian
  <2>4. QED
    BY <2>1, <2>2, <2>3 DEF Custody!Collect
<1>2. ASSUME NEW c \in Captures, registerCaptureSession(c)
      PROVE  Custody!Claim(c, who[c]) /\ who[c] \in Auths
  <2>1. PhaseOf(c) = "unclaimed" /\ PhaseOf(c)' = "held" /\ who[c] \in Auths
    BY <1>2 DEF TypeOK, RegistryInv, HandlerInv, registerCaptureSession, Goto,
                PhaseOf, EarlySteps, Unregistered
  <2>2. Custodian(c)' = who[c]
    BY <1>2, <2>1 DEF Custodian, registerCaptureSession
  <2>3. Others(c)
    BY <1>2 DEF TypeOK, registerCaptureSession, Goto, PhaseOf, Custodian
  <2>4. QED
    BY <2>1, <2>2, <2>3 DEF Custody!Claim
<1>3. ASSUME NEW c \in Captures, NEW w \in Workers, TdDelete(w, c), c \in stored
      PROVE  Custody!Discard(c)
  <2>1. PhaseOf(c) = "held" /\ PhaseOf(c)' = "discarded"
    BY <1>3 DEF TypeOK, RegistryInv, HandlerInv, PurgeInv, TdDelete, PhaseOf,
                EarlySteps, Unregistered
  <2>2. Custodian(c) = who[c] /\ Custodian(c)' = who[c]
    BY <1>3, <2>1 DEF Custodian, TdDelete
  <2>3. Others(c)
    BY <1>3 DEF TypeOK, TdDelete, PhaseOf, Custodian
  <2>4. QED
    BY <2>1, <2>2, <2>3 DEF Custody!Discard
<1>4. ASSUME NEW c \in Captures, NEW w \in Workers, TdForget(w, c)
      PROVE  UNCHANGED Custody!vars
  <2>1. Same(c)
    BY <1>4 DEF TypeOK, RegistryInv, HandlerInv, PurgeInv, TdForget, PhaseOf,
                Custodian, EarlySteps, Unregistered
  <2>2. Others(c)
    BY <1>4 DEF TypeOK, TdForget, PhaseOf, Custodian
  <2>3. QED
    BY <2>1, <2>2, CustodyStutter
<1>5. ASSUME NEW c \in Captures, Handler(c) \/ LimitReached(c),
             ~Create(c), ~registerCaptureSession(c)
      PROVE  UNCHANGED Custody!vars
  <2>1. Same(c)
    BY <1>5
       DEF TypeOK, Handler, Refuse, Admit, CreateFails, markCaptureStreamActive,
           Dial, DialFails, RecvFails, LimitReached, ClientGone, Hangup, Release,
           Goto, AfterLoop, PhaseOf, Custodian, EarlySteps
  <2>2. Others(c)
    BY <1>5
       DEF TypeOK, Handler, Refuse, Admit, CreateFails, markCaptureStreamActive,
           Dial, DialFails, RecvFails, LimitReached, ClientGone, Hangup, Release,
           Goto, PhaseOf, Custodian
  <2>3. QED
    BY <2>1, <2>2, CustodyStutter
<1>6. ASSUME NEW c \in Captures, NEW a \in Auths, Authenticate(c, a)
      PROVE  UNCHANGED Custody!vars
  <2>1. Same(c) /\ Others(c)
    BY <1>6 DEF TypeOK, Authenticate, Goto, PhaseOf, Custodian, EarlySteps
  <2>2. QED
    BY <2>1, CustodyStutter
<1>7. ASSUME UNCHANGED <<pc, who, stored, owners>>
      PROVE  UNCHANGED Custody!vars
  BY <1>7, CustodyStutter DEF PhaseOf, Custodian
<1>8. ASSUME NEW c \in Captures, NEW w \in Workers, TdDelete(w, c), c \notin stored
      PROVE  UNCHANGED <<pc, who, stored, owners>>
  BY <1>8 DEF TypeOK, TdDelete
<1>9. ASSUME NEW c \in Captures,
             Cancel(c) \/ EngineEnds(c) \/ ReleaseStream(c) \/ Teardown(c)
      PROVE  UNCHANGED <<pc, who, stored, owners>>
  BY <1>9 DEF Cancel, EngineEnds, ReleaseStream, Teardown, BeginTeardown
<1>10. ASSUME NEW a \in Auths,
              \/ Expire(a) \/ releaseAllCaptureStreamsForAuth(a)
              \/ Logout(a) \/ PurgeStep(a)
       PROVE  UNCHANGED <<pc, who, stored, owners>>
  BY <1>10
     DEF Expire, releaseAllCaptureStreamsForAuth, Logout, PurgeStep, LogoutDone,
         PurgeNext, BeginTeardown
<1>11. CASE UNCHANGED vars
  BY <1>7, <1>11 DEF vars
<1>12. QED
  BY <1>1, <1>2, <1>3, <1>4, <1>5, <1>6, <1>7, <1>8, <1>9, <1>10, <1>11
     DEF Next, TeardownStep, Custody!Next

\* Every behaviour of the registry is one the custody promise allows.
THEOREM RegistryImplementsCustody == Spec => ImplementsCustody
<1>1. TypeOK /\ RegistryInv /\ [Next]_vars => [Custody!Next]_(Custody!vars)
  BY CustodyStep
<1>2. QED
  BY <1>1, CustodyInit, TypeCorrect, RegistryInvariant, PTL
     DEF Spec, ImplementsCustody, Custody!Spec

-----------------------------------------------------------------------------
(* The sessions that own the captures (LoginState), for any number of states, *)
(* callbacks and requests, any TTL and any bound of the clock: types first.   *)

LEMMA UriType == \A host \in Hosts \cup {NoUri} : CallbackRedirectURL(host) \in Uris
  BY DEF CallbackRedirectURL, RedirectURL, Uris

LEMMA LoginTypeInit == LoginInit => LoginTypeOK
  BY TimesAssumption DEF LoginInit, LoginTypeOK

LEMMA LoginTypeStep == LoginTypeOK /\ [LoginNext]_loginVars => LoginTypeOK'
<1> SUFFICES ASSUME LoginTypeOK, [LoginNext]_loginVars PROVE LoginTypeOK'
  OBVIOUS
<1> USE TimesAssumption DEF LoginTypeOK
<1>1. CASE Tick
  BY <1>1 DEF Tick, oauth, users
<1>2. ASSUME NEW s \in States, NEW host \in Hosts \cup {NoUri}, NEW d \in BOOLEAN,
             Authorize(s, host, d)
      PROVE  LoginTypeOK'
  <2>1. pruneLocked \in [States -> Pending \cup {None}]
    BY DEF pruneLocked
  <2>2. [at |-> now, uri |-> CallbackRedirectURL(host)] \in Pending
    BY UriType DEF Pending
  <2>3. pending' \in [States -> Pending \cup {None}]
    BY <1>2, <2>1, <2>2 DEF Authorize, IssueRedirect
  <2>4. sent' \in [States -> Uris \cup {NoUri}]
    BY <1>2, UriType DEF Authorize
  <2>5. QED
    BY <1>2, <2>3, <2>4 DEF Authorize, users
<1>3. ASSUME NEW c \in Callbacks, NEW s \in States, NEW host \in Hosts \cup {NoUri},
             NEW d \in BOOLEAN, Callback(c, s, host, d)
      PROVE  LoginTypeOK'
  <2>1. pending' \in [States -> Pending \cup {None}]
    BY <1>3 DEF Callback, TakeState
  <2>2. StateIsGood(s) => pending[s] \in Pending
    BY DEF StateIsGood
  <2>3. /\ from' \in [Callbacks -> States \cup {None}]
        /\ uri' \in [Callbacks -> Uris \cup {NoUri}]
    BY <1>3, <2>2 DEF Callback, StoredUri, Pending
  <2>4. step' \in [Callbacks -> {"idle", "exchange", "review", "done", "refused"}]
    BY <1>3 DEF Callback, RefuseCallback
  <2>5. QED
    BY <1>3, <2>1, <2>3, <2>4 DEF Callback, users
<1>4. ASSUME NEW c \in Callbacks, ExchangeCodeForToken(c) PROVE LoginTypeOK'
  BY <1>4 DEF ExchangeCodeForToken, RefuseCallback, users
<1>5. ASSUME NEW c \in Callbacks, ReviewToken(c) PROVE LoginTypeOK'
  BY <1>5 DEF ReviewToken, RefuseCallback, CreateBearer, users, Session, SessionIds
<1>6. ASSUME NEW l \in Logins, NEW mode \in {"kubeconfig", "bearer"}, AuthLogin(l, mode)
      PROVE  LoginTypeOK'
  BY <1>6 DEF AuthLogin, CreateKubeconfig, CreateBearer, KubeconfigCopy, oauth, Session, SessionIds
<1>7. ASSUME NEW i \in SessionIds, AuthLogout(i) PROVE LoginTypeOK'
  BY <1>7 DEF AuthLogout, wipeLocked, WipeKubeconfig, oauth
<1>8. ASSUME NEW i \in SessionIds, NEW r \in Requests, GetSession(r, i) PROVE LoginTypeOK'
  <2>1. Holds(i) => store[i].mode \in {"kubeconfig", "bearer"}
    BY DEF Holds, Session
  <2>2. QED
    BY <1>8, <2>1 DEF GetSession, wipeLocked, WipeKubeconfig, oauth, users
<1>9. ASSUME NEW r \in Requests, BuildClient(r) PROVE LoginTypeOK'
  BY <1>9 DEF BuildClient, oauth, users
<1>10. CASE UNCHANGED loginVars
  BY <1>10 DEF loginVars
<1> HIDE DEF LoginTypeOK
<1>11. QED
  BY <1>1, <1>2, <1>3, <1>4, <1>5, <1>6, <1>7, <1>8, <1>9, <1>10 DEF LoginNext
-----------------------------------------------------------------------------
(* The states: the clock never runs backwards, an authorization's URI is    *)
(* fixed when it is issued, and a consumed state is pending no more.         *)

IssuedInv ==
  /\ \A s \in States : pending[s] # None =>
       pending[s].at <= now /\ pending[s].uri = sent[s] /\ sent[s] # NoUri
  /\ \A c \in Callbacks : from[c] # None =>
       pending[from[c]] = None /\ sent[from[c]] # NoUri /\ uri[c] = sent[from[c]]
  /\ \A c \in Callbacks : step[c] = "exchange" => from[c] # None

LoginInv == IssuedInv /\ OneSessionPerState /\ AbandonedStatesArePruned

LEMMA LoginInvInit == LoginInit => LoginInv
  BY NamesAssumption
     DEF LoginInit, LoginInv, IssuedInv, OneSessionPerState, AbandonedStatesArePruned

LEMMA LoginInvStep == LoginTypeOK /\ LoginInv /\ [LoginNext]_loginVars => LoginInv'
<1> SUFFICES ASSUME LoginTypeOK, LoginInv, [LoginNext]_loginVars PROVE LoginInv'
  OBVIOUS
<1> USE TimesAssumption, NamesAssumption
<1> USE DEF LoginInv
<1>1. CASE Tick
  BY <1>1 DEF Tick, oauth, IssuedInv, OneSessionPerState, AbandonedStatesArePruned,
              LoginTypeOK, Pending
<1>2. ASSUME NEW s \in States, NEW host \in Hosts \cup {NoUri}, NEW d \in BOOLEAN,
             Authorize(s, host, d)
      PROVE  LoginInv'
  <2>1. CallbackRedirectURL(host) \in Uris /\ CallbackRedirectURL(host) # NoUri
    BY UriType DEF Uris
  <2>2. /\ sent[s] = NoUri /\ sent' = [sent EXCEPT ![s] = CallbackRedirectURL(host)]
        /\ UNCHANGED <<now, step, from, uri>>
    BY <1>2 DEF Authorize
  <2>3. pending'[s].at = now /\ pending'[s].uri = CallbackRedirectURL(host)
    BY <1>2 DEF Authorize, IssueRedirect, pruneLocked, LoginTypeOK
  <2>4. \A t \in States \ {s} : pending'[t] # None =>
          pending[t] # None /\ pending'[t] = pending[t] /\ ~Expired(pending[t])
    BY <1>2 DEF Authorize, IssueRedirect, pruneLocked, LoginTypeOK
  <2>5. \A t \in States \ {s} : pending[t] = None => pending'[t] = None
    BY <1>2 DEF Authorize, IssueRedirect, pruneLocked, LoginTypeOK
  <2>6. \A t \in States \ {s} : sent'[t] = sent[t]
    BY <2>2 DEF LoginTypeOK
  <2>7. sent'[s] = CallbackRedirectURL(host)
    BY <2>2 DEF LoginTypeOK
  <2>8. \A c \in Callbacks : from[c] # None => from[c] \in States \ {s}
    BY <2>2 DEF LoginTypeOK, IssuedInv
  <2>9. IssuedInv'
    <3>1. \A t \in States : pending'[t] # None =>
            pending'[t].at <= now' /\ pending'[t].uri = sent'[t] /\ sent'[t] # NoUri
      BY <2>1, <2>2, <2>3, <2>4, <2>6, <2>7 DEF IssuedInv, LoginTypeOK
    <3>2. \A c \in Callbacks : from[c] # None =>
            pending'[from[c]] = None /\ sent'[from[c]] # NoUri /\ uri[c] = sent'[from[c]]
      BY <2>5, <2>6, <2>8 DEF IssuedInv
    <3>3. QED
      BY <3>1, <3>2, <2>2 DEF IssuedInv
  <2>10. AbandonedStatesArePruned'
    <3>1. \A t \in States : pending[t] # None => pending[t].at \in Nat /\ pending[t].at <= now
      BY DEF LoginTypeOK, Pending, IssuedInv
    <3>2. \A t \in States \ {s} : pending'[t] # None =>
            /\ now - pending'[t].at <= StateTTL
            /\ pending'[t].at - now <= StateTTL
      BY <2>4, <3>1 DEF Expired, LoginTypeOK
    <3>3. SUFFICES ASSUME NEW x \in States, NEW y \in States,
                          pending'[x] # None, pending'[y] # None
                   PROVE  pending'[y].at - pending'[x].at <= StateTTL
      BY DEF AbandonedStatesArePruned
    <3>4. CASE x = s /\ y = s
      BY <3>4, <2>3 DEF LoginTypeOK
    <3>5. CASE x = s /\ y # s
      BY <3>3, <3>5, <2>3, <3>2
    <3>6. CASE x # s /\ y = s
      BY <3>3, <3>6, <2>3, <3>2
    <3>7. CASE x # s /\ y # s
      BY <3>7, <3>3, <2>4 DEF AbandonedStatesArePruned
    <3>8. QED
      BY <3>4, <3>5, <3>6, <3>7
  <2>11. QED
    BY <2>2, <2>9, <2>10 DEF OneSessionPerState
<1>3. ASSUME NEW c \in Callbacks, NEW s \in States, NEW host \in Hosts \cup {NoUri},
             NEW d \in BOOLEAN, Callback(c, s, host, d)
      PROVE  LoginInv'
  <2>1. UNCHANGED <<now, sent>>
    BY <1>3 DEF Callback
  <2>2. CASE pending' = pending /\ UNCHANGED <<from, uri>> /\ RefuseCallback(c)
    BY <2>1, <2>2 DEF RefuseCallback, LoginTypeOK, IssuedInv, OneSessionPerState,
                      AbandonedStatesArePruned
  <2>3. CASE pending' = TakeState(s) /\ UNCHANGED <<from, uri>> /\ RefuseCallback(c)
    BY <2>1, <2>3 DEF RefuseCallback, TakeState, LoginTypeOK, IssuedInv, OneSessionPerState,
                      AbandonedStatesArePruned
  <2>4. CASE /\ pending' = TakeState(s) /\ StateIsGood(s)
             /\ from' = [from EXCEPT ![c] = s]
             /\ uri' = [uri EXCEPT ![c] = pending[s].uri]
             /\ \/ step' = [step EXCEPT ![c] = "exchange"]
                \/ step' = [step EXCEPT ![c] = "refused"]
    <3>1. pending[s] # None /\ now - pending[s].at <= StateTTL
      BY <2>4 DEF StateIsGood, Expired, LoginTypeOK, Pending
    <3>2. \A t \in States : pending'[t] # None => t # s /\ pending'[t] = pending[t]
      BY <2>4 DEF TakeState, LoginTypeOK
    <3>3. \A t \in States : pending[t] = None \/ t = s => pending'[t] = None
      BY <2>4 DEF TakeState, LoginTypeOK
    <3>4. \A e \in Callbacks : from[e] # s
      BY <3>1 DEF IssuedInv
    <3>5. from'[c] = s /\ uri'[c] = pending[s].uri
      BY <2>4 DEF LoginTypeOK
    <3>6. \A e \in Callbacks \ {c} :
            from'[e] = from[e] /\ uri'[e] = uri[e] /\ step'[e] = step[e]
      BY <2>4 DEF LoginTypeOK
    <3>7. IssuedInv'
      <4>1. \A t \in States : pending'[t] # None =>
              pending'[t].at <= now' /\ pending'[t].uri = sent'[t] /\ sent'[t] # NoUri
        BY <2>1, <3>2 DEF IssuedInv
      <4>2. \A e \in Callbacks \ {c} : from'[e] # None =>
              pending'[from'[e]] = None /\ sent'[from'[e]] # NoUri /\ uri'[e] = sent'[from'[e]]
        BY <2>1, <3>3, <3>6 DEF IssuedInv, LoginTypeOK
      <4>3. pending'[s] = None /\ sent'[s] # NoUri /\ uri'[c] = sent'[s]
        BY <2>1, <3>1, <3>3, <3>5 DEF IssuedInv
      <4>4. \A e \in Callbacks : step'[e] = "exchange" => from'[e] # None
        BY <3>5, <3>6 DEF IssuedInv
      <4>5. QED
        BY <4>1, <4>2, <4>3, <4>4, <3>5 DEF IssuedInv
    <3>8. OneSessionPerState'
      BY <3>4, <3>5, <3>6 DEF OneSessionPerState
    <3>9. AbandonedStatesArePruned'
      BY <3>2 DEF AbandonedStatesArePruned
    <3>10. QED
      BY <3>7, <3>8, <3>9
  <2>5. QED
    BY <1>3, <2>2, <2>3, <2>4 DEF Callback, StoredUri
<1>4. ASSUME NEW c \in Callbacks, ExchangeCodeForToken(c) PROVE LoginInv'
  BY <1>4 DEF ExchangeCodeForToken, RefuseCallback, LoginTypeOK, IssuedInv, OneSessionPerState,
              AbandonedStatesArePruned
<1>5. ASSUME NEW c \in Callbacks, ReviewToken(c) PROVE LoginInv'
  BY <1>5 DEF ReviewToken, RefuseCallback, LoginTypeOK, IssuedInv, OneSessionPerState,
              AbandonedStatesArePruned
<1>6. CASE UNCHANGED <<now, oauth>>
  BY <1>6 DEF oauth, IssuedInv, OneSessionPerState, AbandonedStatesArePruned
<1>7. QED
  BY <1>1, <1>2, <1>3, <1>4, <1>5, <1>6
     DEF LoginNext, loginVars, oauth, AuthLogin, AuthLogout, GetSession, BuildClient

-----------------------------------------------------------------------------
(* The credentials. *)

KubeconfigInv ==
  /\ KubeconfigLivesWithSession
  /\ \A c \in Callbacks : Holds(c) => store[c].mode # "kubeconfig"

\* What KubeconfigInv says of one session.
Kept(j) ==
  /\ cred[j] = "whole" <=> Holds(j) /\ store[j].mode = "kubeconfig"
  /\ j \in Callbacks /\ Holds(j) => store[j].mode # "kubeconfig"

LEMMA KubeconfigInit == LoginInit => KubeconfigInv
  BY DEF LoginInit, KubeconfigInv, KubeconfigLivesWithSession, Holds, SessionIds

LEMMA KubeconfigStep == LoginTypeOK /\ KubeconfigInv /\ [LoginNext]_loginVars => KubeconfigInv'
<1> SUFFICES ASSUME LoginTypeOK, KubeconfigInv, [LoginNext]_loginVars, NEW j \in SessionIds
             PROVE  Kept(j)'
  BY DEF KubeconfigInv, KubeconfigLivesWithSession, Kept, SessionIds
<1>1. Kept(j)
  BY DEF KubeconfigInv, KubeconfigLivesWithSession, Kept
<1>2. CASE UNCHANGED users
  BY <1>1, <1>2 DEF users, Kept, Holds
<1>3. \A mode \in {"kubeconfig", "bearer"} :
        [mode |-> mode, created |-> now] \notin {None, Ended}
  <2>1. now \in Nat
    BY TimesAssumption DEF LoginTypeOK
  <2>2. \A mode \in {"kubeconfig", "bearer"} :
          [mode |-> mode, created |-> now] \in [mode : {"kubeconfig", "bearer"}, created : Nat]
    BY <2>1
  <2>3. QED
    BY <2>2, NamesAssumption
<1>4. ASSUME NEW c \in Callbacks, CreateBearer(c) PROVE Kept(j)'
  <2>1. cred[c] # "whole"
    BY DEF KubeconfigInv, KubeconfigLivesWithSession, SessionIds
  <2>2. QED
    BY <1>1, <1>3, <1>4, <2>1 DEF CreateBearer, Kept, Holds, LoginTypeOK
<1>5. ASSUME NEW l \in Logins, NEW mode \in {"kubeconfig", "bearer"}, AuthLogin(l, mode)
      PROVE  Kept(j)'
  <2>1. l \notin Callbacks /\ store[l] = None /\ cred[l] # "whole"
    BY <1>5, NamesAssumption
       DEF AuthLogin, KubeconfigInv, KubeconfigLivesWithSession, SessionIds, Holds
  <2>2. CASE CreateKubeconfig(l)
    BY <1>1, <1>3, <2>1, <2>2 DEF CreateKubeconfig, KubeconfigCopy, Kept, Holds, LoginTypeOK
  <2>3. CASE CreateBearer(l)
    BY <1>1, <1>3, <2>1, <2>3 DEF CreateBearer, Kept, Holds, LoginTypeOK
  <2>4. QED
    BY <1>5, <2>2, <2>3 DEF AuthLogin
<1>6. ASSUME NEW i \in SessionIds, wipeLocked(i) PROVE Kept(j)'
  BY <1>1, <1>6 DEF wipeLocked, WipeKubeconfig, Kept, Holds, LoginTypeOK
<1>7. QED
  BY <1>2, <1>4, <1>5, <1>6
     DEF LoginNext, loginVars, users, Tick, Authorize, Callback, ExchangeCodeForToken, ReviewToken,
         AuthLogout, GetSession, BuildClient

-----------------------------------------------------------------------------
(* The requests that hold a session: a name is used for one session, which  *)
(* keeps its mode while it stands, so what such a request finds wiped was   *)
(* ended meanwhile.                                                         *)

HeldInv ==
  /\ \A c \in Callbacks : step[c] # "done" => store[c] = None
  /\ \A r \in Requests : req[r] = "idle" => of[r] = None
  /\ \A r \in Requests : of[r] # None => Holds(of[r]) \/ store[of[r]] = Ended
  /\ \A r \in Requests : of[r] # None /\ req[r] = "kubeconfig" /\ Holds(of[r]) =>
       store[of[r]].mode = "kubeconfig"
  /\ RefusedMeansEnded

LEMMA HeldInit == LoginInit => HeldInv
  BY DEF LoginInit, HeldInv, RefusedMeansEnded, SessionIds

LEMMA StoreStep ==
  ASSUME LoginTypeOK, HeldInv, [LoginNext]_loginVars, NEW i \in SessionIds
  PROVE  \/ store'[i] = store[i]
         \/ store'[i] = Ended /\ Holds(i)
         \/ store[i] = None
<1>1. ASSUME NEW c \in Callbacks, ReviewToken(c) PROVE store'[i] = store[i] \/ store[i] = None
  BY <1>1 DEF ReviewToken, CreateBearer, RefuseCallback, users, HeldInv, LoginTypeOK, SessionIds
<1>2. ASSUME NEW l \in Logins, NEW mode \in {"kubeconfig", "bearer"}, AuthLogin(l, mode)
      PROVE  store'[i] = store[i] \/ store[i] = None
  BY <1>2 DEF AuthLogin, CreateKubeconfig, CreateBearer, LoginTypeOK, SessionIds
<1>3. ASSUME NEW j \in SessionIds, Holds(j), wipeLocked(j)
      PROVE  store'[i] = store[i] \/ (store'[i] = Ended /\ Holds(i))
  BY <1>3 DEF wipeLocked, LoginTypeOK
<1>4. CASE UNCHANGED users
  BY <1>4 DEF users
<1>5. QED
  BY <1>1, <1>2, <1>3, <1>4
     DEF LoginNext, loginVars, users, Tick, Authorize, Callback, ExchangeCodeForToken,
         AuthLogout, GetSession, BuildClient

LEMMA HeldStep ==
  LoginTypeOK /\ KubeconfigInv /\ HeldInv /\ [LoginNext]_loginVars => HeldInv'
<1> SUFFICES ASSUME LoginTypeOK, KubeconfigInv, HeldInv, [LoginNext]_loginVars PROVE HeldInv'
  OBVIOUS
<1> USE NamesAssumption
<1>1. \A i \in SessionIds :
        store'[i] = store[i] \/ (store'[i] = Ended /\ Holds(i)) \/ store[i] = None
  BY StoreStep
<1>2. \A c \in Callbacks : step'[c] # "done" => store'[c] = None
  <2>1. ASSUME NEW c \in Callbacks, NEW s \in States, NEW host \in Hosts \cup {NoUri},
               NEW d \in BOOLEAN, Callback(c, s, host, d)
        PROVE  UNCHANGED store /\ \A e \in Callbacks : step[e] = "done" => step'[e] = "done"
    BY <2>1 DEF Callback, RefuseCallback, users, LoginTypeOK
  <2>2. ASSUME NEW c \in Callbacks, ExchangeCodeForToken(c)
        PROVE  UNCHANGED store /\ \A e \in Callbacks : step[e] = "done" => step'[e] = "done"
    BY <2>2 DEF ExchangeCodeForToken, RefuseCallback, users, LoginTypeOK
  <2>3. ASSUME NEW c \in Callbacks, ReviewToken(c)
        PROVE  \A e \in Callbacks : step'[e] # "done" => store'[e] = None
    BY <2>3 DEF ReviewToken, CreateBearer, RefuseCallback, users, HeldInv, LoginTypeOK, SessionIds
  <2>4. ASSUME NEW l \in Logins, NEW mode \in {"kubeconfig", "bearer"}, AuthLogin(l, mode)
        PROVE  UNCHANGED step /\ \A e \in Callbacks : store'[e] = store[e]
    <3>1. l \notin Callbacks
      OBVIOUS
    <3>2. QED
      BY <2>4, <3>1 DEF AuthLogin, CreateKubeconfig, CreateBearer, oauth, LoginTypeOK, SessionIds
  <2>5. ASSUME NEW i \in SessionIds, Holds(i), wipeLocked(i), UNCHANGED step
        PROVE  \A e \in Callbacks : step'[e] # "done" => store'[e] = None
    BY <2>5 DEF wipeLocked, Holds, HeldInv, LoginTypeOK
  <2>6. CASE UNCHANGED <<step, store>>
    BY <2>6 DEF HeldInv
  <2>7. QED
    BY <2>1, <2>2, <2>3, <2>4, <2>5, <2>6
       DEF HeldInv, LoginNext, loginVars, users, oauth, Tick, Authorize, AuthLogout, GetSession,
           BuildClient
<1>3. \A r \in Requests : of[r] # None => of[r] \in SessionIds
  BY DEF LoginTypeOK
\* A request that stays where it is keeps what HeldInv says of it.
<1>4. ASSUME NEW r \in Requests, of'[r] = of[r], req'[r] = req[r]
      PROVE  /\ req'[r] = "idle" => of'[r] = None
             /\ of'[r] # None => Holds(of[r])' \/ store'[of[r]] = Ended
             /\ of'[r] # None /\ req'[r] = "kubeconfig" /\ Holds(of[r])' =>
                  store'[of[r]].mode = "kubeconfig"
             /\ req'[r] = "refused" /\ of'[r] # None => store'[of[r]] = Ended
  <2>1. CASE of[r] = None
    BY <2>1, <1>4
  <2>2. CASE of[r] # None
    <3>1. store'[of[r]] = store[of[r]] \/ store'[of[r]] = Ended
      BY <2>2, <1>1, <1>3 DEF HeldInv, Holds
    <3>2. QED
      BY <2>2, <3>1, <1>4 DEF HeldInv, Holds, RefusedMeansEnded
  <2>3. QED
    BY <2>1, <2>2
<1>5. ASSUME NEW r \in Requests, NEW i \in SessionIds, GetSession(r, i) PROVE HeldInv'
  <2>1. \A q \in Requests \ {r} : of'[q] = of[q] /\ req'[q] = req[q]
    BY <1>5 DEF GetSession, LoginTypeOK
  <2>2. of[r] = None
    BY <1>5 DEF GetSession, HeldInv
  <2>3. CASE Holds(i) /\ req'[r] = store[i].mode /\ of'[r] = i /\ UNCHANGED store
    <3>1. store[i].mode \in {"kubeconfig", "bearer"}
      BY <2>3 DEF Holds, LoginTypeOK, Session
    <3>2. QED
      BY <1>2, <1>4, <2>1, <2>3, <3>1 DEF HeldInv, RefusedMeansEnded, Holds
  <2>4. CASE req'[r] = "refused" /\ of'[r] = None
    BY <1>2, <1>4, <2>1, <2>4 DEF HeldInv, RefusedMeansEnded, Holds
  <2>5. QED
    BY <1>5, <2>2, <2>3, <2>4 DEF GetSession, users, LoginTypeOK
<1>6. ASSUME NEW r \in Requests, BuildClient(r) PROVE HeldInv'
  <2>1. /\ \A q \in Requests : of'[q] = of[q]
        /\ \A q \in Requests \ {r} : req'[q] = req[q]
        /\ UNCHANGED store
    BY <1>6 DEF BuildClient, users, LoginTypeOK
  <2>2. req'[r] \in {"client", "refused"}
    BY <1>6 DEF BuildClient, LoginTypeOK
  <2>3. req'[r] = "refused" => req[r] = "kubeconfig" /\ cred[of[r]] # "whole"
    BY <1>6 DEF BuildClient, LoginTypeOK
  <2>4. req'[r] = "refused" /\ of[r] # None => store[of[r]] = Ended
    BY <2>3, <1>3 DEF HeldInv, KubeconfigInv, KubeconfigLivesWithSession
  <2>5. QED
    BY <1>2, <1>4, <2>1, <2>2, <2>4 DEF HeldInv, RefusedMeansEnded, Holds
<1>7. CASE UNCHANGED <<req, of>>
  BY <1>2, <1>4, <1>7 DEF HeldInv, RefusedMeansEnded, Holds
<1>8. QED
  BY <1>5, <1>6, <1>7
     DEF LoginNext, loginVars, Tick, Authorize, Callback, ExchangeCodeForToken, ReviewToken,
         AuthLogin, AuthLogout

-----------------------------------------------------------------------------
(* The theorems. *)

LEMMA LoginInvHolds == LoginSpec => [](LoginTypeOK /\ LoginInv)
<1>1. LoginInit => LoginTypeOK /\ LoginInv
  BY LoginTypeInit, LoginInvInit
<1>2. (LoginTypeOK /\ LoginInv) /\ [LoginNext]_loginVars => (LoginTypeOK /\ LoginInv)'
  BY LoginTypeStep, LoginInvStep
<1>3. QED
  BY <1>1, <1>2, PTL DEF LoginSpec

\* Every variable keeps its type, however many callbacks share a state one of
\* them passes ConsumeRedirect, and no abandoned state outlives an authorize
\* that found it expired.
THEOREM StatesAreSpentOnce == LoginSpec => []StateInv
<1>1. LoginTypeOK /\ LoginInv => StateInv
  BY DEF LoginInv, StateInv
<1>2. QED
  BY <1>1, LoginInvHolds, PTL

\* A token request names the redirect_uri of its own authorization, by whatever
\* host the browser came back.
THEOREM ExchangesMatch == LoginSpec => []ExchangeMatchesAuthorize
<1>1. LoginTypeOK /\ LoginInv => ExchangeMatchesAuthorize
  BY DEF LoginInv, IssuedInv, ExchangeMatchesAuthorize, ProviderAccepts
<1>2. QED
  BY <1>1, LoginInvHolds, PTL

LEMMA KubeconfigInvHolds == LoginSpec => [](LoginTypeOK /\ KubeconfigInv)
<1>1. LoginTypeOK /\ KubeconfigInv /\ [LoginNext]_loginVars => KubeconfigInv'
  BY KubeconfigStep
<1>2. LoginSpec => []LoginTypeOK
  BY LoginInvHolds, PTL
<1>3. QED
  BY <1>1, <1>2, KubeconfigInit, PTL DEF LoginSpec

\* A session's kubeconfig is whole exactly while the store holds the session.
THEOREM KubeconfigsAreWiped == LoginSpec => []KubeconfigLivesWithSession
<1>1. KubeconfigInv => KubeconfigLivesWithSession
  BY DEF KubeconfigInv
<1>2. QED
  BY <1>1, KubeconfigInvHolds, PTL

\* A request that found its session is refused a client only when the session
\* has ended since, however lookups, logins, logouts and expiries overlap.
THEOREM RefusalsFollowAnEnd == LoginSpec => []RefusedMeansEnded
<1>1. (LoginTypeOK /\ KubeconfigInv) /\ HeldInv /\ [LoginNext]_loginVars => HeldInv'
  BY HeldStep
<1>2. HeldInv => RefusedMeansEnded
  BY DEF HeldInv
<1>3. QED
  BY <1>1, <1>2, HeldInit, KubeconfigInvHolds, PTL DEF LoginSpec

=============================================================================
