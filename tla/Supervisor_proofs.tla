-------------------------- MODULE Supervisor_proofs --------------------------
(***************************************************************************)
(* The supervisor's state and the requests that change it.                 *)
(* For every set of applications and every range of token numbers, the     *)
(* supervisor state never leaves the states its own validate() accepts,    *)
(* and its fences only rise.  The inductive invariant IInv adds to Valid   *)
(* the types and the fact that an application without an entry holds       *)
(* nothing: without it start_app could be reached with a stray lease.      *)
(* The conversions to the v1 state and back agree on every state it allows.*)
(* For any number of requests and any size of the channel, the fence of a  *)
(* request decides every race between a requester that gives up and a      *)
(* launch that commits, whatever the timers do (RequestInv).               *)
(***************************************************************************)
EXTENDS StateCompatibility, RequestFence, TLAPS

USE NumbersAssumption, NoneAssumption DEF NumbersAssumption, NoneAssumption

(* Init satisfies the inductive invariant.                                 *)
LEMMA InitInv == Init => IInv
<1> SUFFICES ASSUME Init PROVE IInv
  OBVIOUS
<1>1. TypeOK
  <2>1. /\ state \in [App -> Live \union Terminal]
        /\ generation \in [App -> Nat]
        /\ epoch \in [App -> Nat]
    BY DEF Init, Terminal
  <2>2. lease \in [App -> Nat \union {NoLease}]
    BY DEF Init
  <2>3. revision \in 0..MaxRevision
    BY DEF Init
  <2> QED BY <2>1, <2>2, <2>3 DEF Init, TypeOK, Domains
<1>2. Valid
  BY DEF Init, Valid, OneForeground, UniqueLeases
<1>3. UnknownBlank
  BY DEF Init, UnknownBlank
<1> QED BY <1>1, <1>2, <1>3 DEF IInv

(* transition_domain keeps the invariant: leaving the managed domain drops *)
(* the foreground pointer, every lease and every foreground state at once. *)
LEMMA TransitionDomainInv ==
  ASSUME IInv, NEW next \in Domains, TransitionDomain(next)
  PROVE  IInv'
<1> USE DEF IInv, TransitionDomain
<1>1. CASE next = "Managed"
  <2>1. TypeOK'
    BY <1>1 DEF TypeOK, BumpRevision, Domains, Live, Terminal
  <2>2. Valid'
    BY <1>1 DEF TypeOK, Valid, ValidInstance, OneForeground,
       UniqueLeases, Domains, DomainEdges
  <2>3. UnknownBlank'
    BY <1>1 DEF UnknownBlank
  <2> QED BY <2>1, <2>2, <2>3
<1>2. CASE next # "Managed"
  <2>1. TypeOK'
    <3>1. state' \in [App -> Live \union Terminal]
      BY <1>2 DEF TypeOK, Live, Terminal
    <3>2. lease' \in [App -> Nat \union {NoLease}]
      BY <1>2
    <3>3. revision' \in 0..MaxRevision
      BY DEF TypeOK, BumpRevision
    <3>4. generation' \in [App -> Nat] /\ epoch' \in [App -> Nat]
      BY DEF TypeOK
    <3> QED BY <1>2, <3>1, <3>2, <3>3, <3>4 DEF TypeOK
  <2>2. Valid'
    BY <1>2 DEF TypeOK, Valid, ValidInstance, OneForeground,
       UniqueLeases, Terminal
  <2>3. UnknownBlank'
    BY <1>2 DEF UnknownBlank, TypeOK
  <2> QED BY <2>1, <2>2, <2>3
<1> QED BY <1>1, <1>2

(* set_sleeping keeps the invariant.                                       *)
LEMMA SetSleepingInv ==
  ASSUME IInv, NEW value \in BOOLEAN, SetSleeping(value)
  PROVE  IInv'
  BY DEF IInv, SetSleeping, BumpRevision, TypeOK, Valid, UnknownBlank,
     ValidInstance, OneForeground, UniqueLeases, Domains

(* start_app keeps the invariant: only a terminal instance is replaced.    *)
LEMMA StartAppInv ==
  ASSUME IInv, NEW a \in App, NEW g \in Generations, StartApp(a, g)
  PROVE  IInv'
<1> USE DEF IInv, StartApp, ActiveManaged
<1>1. TypeOK'
  BY DEF TypeOK, BumpRevision, Live
<1>2. Valid'
  BY DEF TypeOK, Valid, UnknownBlank, ValidInstance, OneForeground,
     UniqueLeases, Terminal
<1>3. UnknownBlank'
  BY DEF TypeOK, UnknownBlank
<1> QED BY <1>1, <1>2, <1>3

(* grant_foreground keeps the invariant: it is the only operation that     *)
(* hands out a lease, and only while no application holds one.             *)
LEMMA GrantForegroundInv ==
  ASSUME IInv, NEW a \in App, NEW g \in Generations, NEW e \in Epochs,
         NEW l \in Leases, GrantForeground(a, g, e, l)
  PROVE  IInv'
<1> USE DEF IInv, GrantForeground, ActiveManaged, Current
<1>1. TypeOK'
  BY DEF TypeOK, BumpRevision, Live
<1>2. \A b \in known : lease[b] = NoLease
  BY DEF Valid, ValidInstance, OneForeground, TypeOK
<1>3. Valid'
  BY <1>2 DEF TypeOK, Valid, ValidInstance, OneForeground, UniqueLeases
<1>4. UnknownBlank'
  BY DEF TypeOK, UnknownBlank
<1> QED BY <1>1, <1>3, <1>4

(* mark_background_ready keeps the invariant.                              *)
LEMMA MarkBackgroundReadyInv ==
  ASSUME IInv, NEW a \in App, NEW g \in Generations,
         MarkBackgroundReady(a, g)
  PROVE  IInv'
  BY DEF IInv, MarkBackgroundReady, BumpRevision, Current, TypeOK, Valid,
     UnknownBlank, ValidInstance, OneForeground, UniqueLeases, Live, Terminal

(* enter_background keeps the invariant.                                   *)
LEMMA EnterBackgroundInv ==
  ASSUME IInv, NEW a \in App, NEW g \in Generations, NEW e \in Epochs,
         EnterBackground(a, g, e)
  PROVE  IInv'
  BY DEF IInv, EnterBackground, BumpRevision, Current, TypeOK, Valid,
     UnknownBlank, ValidInstance, OneForeground, UniqueLeases, Live, Terminal

(* What begin_stop, finish_app and mark_unresponsive share keeps the       *)
(* invariant when the instance leaves the screen in an admissible state.   *)
LEMMA LeaveScreenInv ==
  ASSUME IInv, NEW a \in known, NEW next \in Ending,
         state[a] \notin Terminal, BumpRevision, LeaveScreen(a, next)
  PROVE  IInv'
<1> USE DEF IInv, LeaveScreen, DropForeground
<1>1. TypeOK'
  BY DEF TypeOK, BumpRevision, Live, Ending, Terminal
<1>2. Valid'
  BY DEF TypeOK, Valid, ValidInstance, OneForeground, UniqueLeases,
     Ending, Terminal
<1>3. UnknownBlank'
  BY DEF TypeOK, UnknownBlank
<1> QED BY <1>1, <1>2, <1>3

(* Every step keeps the invariant.                                         *)
LEMMA NextInv == IInv /\ [Next]_vars => IInv'
<1> SUFFICES ASSUME IInv, [Next]_vars PROVE IInv'
  OBVIOUS
<1>1. CASE \E next \in Domains : TransitionDomain(next)
  BY <1>1, TransitionDomainInv
<1>2. CASE \E value \in BOOLEAN : SetSleeping(value)
  BY <1>2, SetSleepingInv
<1>3. ASSUME NEW a \in App, NEW g \in Generations, AppStep(a, g)
      PROVE  IInv'
  <2>1. CASE StartApp(a, g)
    BY <2>1, StartAppInv
  <2>2. CASE MarkBackgroundReady(a, g)
    BY <2>2, MarkBackgroundReadyInv
  <2>3. CASE BeginStop(a, g)
    BY <2>3, LeaveScreenInv DEF BeginStop, Current, Ending
  <2>4. CASE \E end \in Terminal : FinishApp(a, g, end)
    BY <2>4, LeaveScreenInv DEF FinishApp, Current, Ending
  <2>5. CASE MarkUnresponsive(a, g)
    BY <2>5, LeaveScreenInv DEF MarkUnresponsive, Current, Ending
  <2>6. CASE \E e \in Epochs : EnterBackground(a, g, e)
    BY <2>6, EnterBackgroundInv
  <2>7. CASE \E e \in Epochs, l \in Leases : GrantForeground(a, g, e, l)
    BY <2>7, GrantForegroundInv
  <2> QED BY <1>3, <2>1, <2>2, <2>3, <2>4, <2>5, <2>6, <2>7 DEF AppStep
<1>4. CASE UNCHANGED vars
  BY <1>4 DEF vars, IInv, TypeOK, Valid, UnknownBlank, ValidInstance,
     OneForeground, UniqueLeases
<1> QED BY <1>1, <1>2, <1>3, <1>4 DEF Next

(* The inductive invariant holds in every reachable state.                 *)
THEOREM Invariance == Spec => []IInv
  BY InitInv, NextInv, PTL DEF Spec

(* Whatever the callers pass and in whatever order, the state a supervisor *)
(* reaches is one that SupervisorState::validate accepts.                  *)
THEOREM AlwaysValid == Spec => []Valid
<1>1. IInv => Valid
  BY DEF IInv
<1> QED BY <1>1, Invariance, PTL

-----------------------------------------------------------------------------
(* The fence of one step: what FencesRise says inside its box.             *)
FenceStep ==
  \A a \in App :
    /\ FenceAbove(a) \/ UNCHANGED <<generation[a], epoch[a]>>
    /\ lease[a] # lease'[a] /\ lease'[a] # NoLease => FenceAbove(a)

(* No method lowers a fence, and only grant_foreground, which raises it,   *)
(* installs a lease.                                                       *)
LEMMA NextFence == IInv /\ Next => FenceStep
<1> SUFFICES ASSUME IInv, Next, NEW a \in App
             PROVE  /\ FenceAbove(a) \/ UNCHANGED <<generation[a], epoch[a]>>
                    /\ lease[a] # lease'[a] /\ lease'[a] # NoLease
                         => FenceAbove(a)
  BY DEF FenceStep
<1> USE DEF IInv, TypeOK
<1>1. CASE \E next \in Domains : TransitionDomain(next)
  BY <1>1 DEF TransitionDomain
<1>2. CASE \E value \in BOOLEAN : SetSleeping(value)
  BY <1>2 DEF SetSleeping
<1>3. ASSUME NEW b \in App, NEW g \in Generations, AppStep(b, g)
      PROVE  /\ FenceAbove(a) \/ UNCHANGED <<generation[a], epoch[a]>>
             /\ lease[a] # lease'[a] /\ lease'[a] # NoLease => FenceAbove(a)
  <2>1. CASE StartApp(b, g)
    BY <2>1 DEF StartApp, FenceAbove, UnknownBlank
  <2>2. CASE \E e \in Epochs, l \in Leases : GrantForeground(b, g, e, l)
    BY <2>2 DEF GrantForeground, FenceAbove, NewEpoch
  <2>3. CASE \E e \in Epochs : EnterBackground(b, g, e)
    BY <2>3 DEF EnterBackground
  <2>4. CASE MarkBackgroundReady(b, g)
    BY <2>4 DEF MarkBackgroundReady
  <2>5. CASE BeginStop(b, g)
    BY <2>5 DEF BeginStop, LeaveScreen
  <2>6. CASE \E end \in Terminal : FinishApp(b, g, end)
    BY <2>6 DEF FinishApp, LeaveScreen
  <2>7. CASE MarkUnresponsive(b, g)
    BY <2>7 DEF MarkUnresponsive, LeaveScreen
  <2> QED BY <1>3, <2>1, <2>2, <2>3, <2>4, <2>5, <2>6, <2>7 DEF AppStep
<1> QED BY <1>1, <1>2, <1>3 DEF Next

(* An application never gets a lease under a fence it has had before, so a *)
(* message stamped with an older fence can always be told from a current   *)
(* one.                                                                    *)
THEOREM FencesAlwaysRise == Spec => FencesRise
<1>1. IInv /\ [Next]_vars =>
        [\A a \in App :
           /\ FenceAbove(a) \/ UNCHANGED <<generation[a], epoch[a]>>
           /\ lease[a] # lease'[a] /\ lease'[a] # NoLease
                => FenceAbove(a)]_vars
  BY NextFence DEF FenceStep
<1> QED BY <1>1, Invariance, PTL DEF Spec, FencesRise

(* Nothing but a new generation brings an ending instance back.            *)
THEOREM EndingStaysFinal == Spec => EndingIsFinal
<1>1. IInv /\ Next =>
        \A a \in known : state[a] \in Ending /\ generation'[a] = generation[a]
                           => state'[a] \in Ending
  <2> SUFFICES ASSUME IInv, Next, NEW a \in known, state[a] \in Ending,
                      generation'[a] = generation[a]
               PROVE  state'[a] \in Ending
    OBVIOUS
  <2> USE DEF IInv, TypeOK, Ending, Terminal
  <2>1. CASE \E next \in Domains : TransitionDomain(next)
    BY <2>1 DEF TransitionDomain
  <2>2. CASE \E value \in BOOLEAN : SetSleeping(value)
    BY <2>2 DEF SetSleeping
  <2>3. ASSUME NEW b \in App, NEW g \in Generations, AppStep(b, g)
        PROVE  state'[a] \in Ending
    <3>1. CASE StartApp(b, g)
      BY <3>1 DEF StartApp
    <3>2. CASE \E e \in Epochs, l \in Leases : GrantForeground(b, g, e, l)
      BY <3>2 DEF GrantForeground, Grantable
    <3>3. CASE \E e \in Epochs : EnterBackground(b, g, e)
      BY <3>3 DEF EnterBackground
    <3>4. CASE MarkBackgroundReady(b, g)
      BY <3>4 DEF MarkBackgroundReady
    <3>5. CASE BeginStop(b, g)
      BY <3>5 DEF BeginStop, LeaveScreen
    <3>6. CASE \E end \in Terminal : FinishApp(b, g, end)
      BY <3>6 DEF FinishApp, LeaveScreen
    <3>7. CASE MarkUnresponsive(b, g)
      BY <3>7 DEF MarkUnresponsive, LeaveScreen
    <3> QED BY <2>3, <3>1, <3>2, <3>3, <3>4, <3>5, <3>6, <3>7 DEF AppStep
  <2> QED BY <2>1, <2>2, <2>3 DEF Next
<1>2. IInv /\ [Next]_vars =>
        [\A a \in known :
           state[a] \in Ending /\ generation'[a] = generation[a]
             => state'[a] \in Ending]_vars
  BY <1>1
<1> QED BY <1>2, Invariance, PTL DEF Spec, EndingIsFinal

-----------------------------------------------------------------------------
(* The four shapes of a v1 domain that a reachable v2 state may be folded  *)
(* into.                                                                   *)
PlainV1 == domain # "Managed" /\ foregroundApp = NoApp /\ ~sleeping
ShapeOf(d) ==
  \/ PlainV1 /\ d = V1(PlainDomain[domain], NoApp)
  \/ domain = "Managed" /\ sleeping /\ foregroundApp = NoApp /\ d = V1("Sleeping", NoApp)
  \/ domain = "Managed" /\ ~sleeping /\ foregroundApp = NoApp /\ d = V1("Manager", NoApp)
  \/ /\ domain = "Managed" /\ ~sleeping
     /\ d.app \in App
     /\ \/ foregroundApp = d.app /\ d = V1("Foreground", d.app)
        \/ foregroundApp = NoApp /\ \E at \in {"Launching", "Parking"} : d = V1(at, d.app)

(* A v1 domain the conversion gives has the shape of the v2 state.         *)
LEMMA LegacyShape ==
  ASSUME IInv, NEW d \in LegacyDomains
  PROVE  ShapeOf(d)
<1> USE DEF IInv, TypeOK, V1
<1>1. CASE domain # "Managed"
  BY <1>1 DEF LegacyDomains, ShapeOf, PlainV1, Valid
<1>2. CASE domain = "Managed" /\ sleeping
  BY <1>2 DEF LegacyDomains, ShapeOf, Valid
<1>3. CASE domain = "Managed" /\ ~sleeping /\ ActiveApps = {}
  <2>1. foregroundApp \notin known
    BY <1>3 DEF ActiveApps
  <2> QED BY <1>3, <2>1 DEF LegacyDomains, ShapeOf, Valid
<1>4. CASE domain = "Managed" /\ ~sleeping /\ ActiveApps # {}
  <2>1. PICK a \in ActiveApps : d = V1(AppDomain[state[a]], a)
    BY <1>4 DEF LegacyDomains
  <2>2. d.app = a
    BY <2>1
  <2>3. CASE foregroundApp \in known
    <3>1. a = foregroundApp /\ a \in App /\ state[a] = "Foreground"
      BY <2>1, <2>3 DEF ActiveApps, Valid, OneForeground
    <3>2. AppDomain[state[a]] = "Foreground"
      BY <3>1 DEF AppDomain
    <3> QED BY <1>4, <2>1, <2>2, <3>1, <3>2 DEF ShapeOf
  <2>4. CASE foregroundApp \notin known
    <3>1. a \in App /\ state[a] \in {"Starting", "Stopping"} /\ foregroundApp = NoApp
      BY <2>1, <2>4 DEF ActiveApps, InTransition, Valid
    <3>2. AppDomain[state[a]] \in {"Launching", "Parking"}
      BY <3>1 DEF AppDomain
    <3> QED BY <1>4, <2>1, <2>2, <3>1, <3>2 DEF ShapeOf
  <2> QED BY <2>3, <2>4
<1> QED BY <1>1, <1>2, <1>3, <1>4

(* What those shapes convert into: nothing, or one instance in V2State.     *)
ShapeIsEmpty(d) ==
  /\ d.at \notin DOMAIN V2State
  /\ \/ PlainV1 /\ d = V1(PlainDomain[domain], NoApp)
     \/ domain = "Managed" /\ d.at \in {"Sleeping", "Manager"} /\ d = V1(d.at, NoApp)
ShapeHolds(d) ==
  /\ domain = "Managed" /\ ~sleeping
  /\ \E a \in App, at \in DOMAIN V2State : d = V1(at, a)

(* The converted state of such a domain is accepted, and folds into it.    *)
LEMMA ShapeAgrees ==
  ASSUME IInv, NEW d, ShapeOf(d)
  PROVE  /\ V2Domain(d) = domain
         /\ (d.at = "Sleeping") = sleeping
         /\ (IF OnScreen(d) THEN d.app ELSE NoApp) = foregroundApp
         /\ V2(d)!Valid
         /\ V2(d)!LegacyDomains = {d}
<1> USE DEF IInv, TypeOK, V1, OnScreen, V2Known, V2State
<1>1. V2Domain(d) = domain
  BY DEF ShapeOf, PlainV1, PlainDomain, V2Domain, Domains
<1>2. (d.at = "Sleeping") = sleeping
  BY DEF ShapeOf, PlainV1, PlainDomain, Domains
<1>3. (IF OnScreen(d) THEN d.app ELSE NoApp) = foregroundApp
  BY DEF ShapeOf, PlainV1, PlainDomain, Domains
<1>4. CASE ShapeIsEmpty(d)
  <2>1. V2Known(d) = {} /\ ~OnScreen(d)
    BY <1>4 DEF ShapeIsEmpty
  <2>2. V2(d)!Valid
    <3>1. d.at = "Sleeping" => V2Domain(d) = "Managed"
      BY <1>1, <1>2, <1>4 DEF ShapeIsEmpty, PlainV1
    <3>2. (IF OnScreen(d) THEN d.app ELSE NoApp) = NoApp
      BY <2>1
    <3>3. V2(d)!OneForeground
      BY <2>1 DEF V2!OneForeground
    <3>4. V2(d)!UniqueLeases
      BY <2>1 DEF V2!UniqueLeases
    <3> HIDE DEF OnScreen
    <3> QED BY ONLY <2>1, <3>1, <3>2, <3>3, <3>4 DEF V2!Valid
  <2>3. V2(d)!ActiveApps = {}
    BY <2>1 DEF V2!ActiveApps, V2!InTransition
  <2>4. V2(d)!LegacyDomains = {d}
    BY <1>1, <1>4, <2>3
    DEF ShapeIsEmpty, PlainV1, PlainDomain, Domains,
        V2!LegacyDomains, V2!V1, V2!PlainDomain
  <2> QED BY <1>1, <1>2, <1>3, <2>2, <2>4
<1>5. CASE ShapeHolds(d)
  <2>1. PICK a \in App, at \in DOMAIN V2State : d = V1(at, a)
    BY <1>5 DEF ShapeHolds
  <2> DEFINE st == [b \in App |-> IF b \in V2Known(d) THEN V2State[d.at] ELSE "Exited"]
             gen == [b \in App |-> IF b \in V2Known(d) THEN 1 ELSE 0]
             lse == [b \in App |-> IF OnScreen(d) /\ b = d.app THEN 1 ELSE NoLease]
             fg == IF OnScreen(d) THEN d.app ELSE NoApp
  <2>2. V2Known(d) = {a} /\ d.at = at /\ d.app = a /\ ~sleeping /\ domain = "Managed"
    BY <1>5, <2>1 DEF ShapeHolds
  <2>3. st[a] = V2State[at] /\ gen[a] = 1 /\ lse[a] = (IF at = "Foreground" THEN 1 ELSE NoLease)
    BY <2>2
  <2>4. fg = (IF at = "Foreground" THEN a ELSE NoApp)
    BY <2>2
  <2>5. /\ at \in {"Launching", "Foreground", "Parking"}
        /\ V2State[at] = "Foreground" <=> at = "Foreground"
        /\ at # "Foreground" => V2State[at] \in {"Starting", "Stopping"}
    BY <2>1
  <2>6. V2(d)!Valid
    <3> HIDE DEF st, gen, lse, fg
    <3>1. 1 # NoLease /\ 0 # NoLease /\ a # NoApp
      OBVIOUS
    <3>2. \A b \in V2Known(d) : /\ gen[b] # 0
                                /\ lse[b] # 0
                                /\ st[b] = "Foreground" <=> lse[b] # NoLease
      BY <2>2, <2>3, <2>5, <3>1
    <3>3. \A b \in V2Known(d) : st[b] = "Foreground" <=> fg = b
      BY <2>2, <2>3, <2>4, <2>5, <3>1
    <3>4. \A b, c \in V2Known(d) : lse[b] = lse[c] /\ lse[b] # NoLease => b = c
      BY <2>2
    <3>5. fg \in V2Known(d) \union {NoApp}
      BY <2>2, <2>4
    <3>6. V2Domain(d) = "Managed" /\ ~(d.at = "Sleeping")
      BY <1>1, <1>2, <2>2
    <3>7. \A b \in V2Known(d) : V2(d)!ValidInstance(b)
      BY ONLY <3>2 DEF V2!ValidInstance, st, gen, lse
    <3>8. V2(d)!OneForeground
      BY ONLY <3>3 DEF V2!OneForeground, st, fg
    <3>9. V2(d)!UniqueLeases
      BY ONLY <3>4 DEF V2!UniqueLeases, lse
    <3> QED BY ONLY <3>5, <3>6, <3>7, <3>8, <3>9 DEF V2!Valid, fg
  <2>7. V2(d)!ActiveApps = {a}
    <3> HIDE DEF st, gen, lse, fg
    <3>1. (IF fg \in V2Known(d) THEN {fg} ELSE {b \in V2Known(d) : st[b] \in {"Starting", "Stopping"}}) = {a}
      BY <2>2, <2>3, <2>4, <2>5
    <3> QED BY ONLY <3>1 DEF V2!ActiveApps, V2!InTransition, st, fg
  <2>8. V2(d)!LegacyDomains = {d}
    <3>1. V2(d)!AppDomain[st[a]] = at
      BY <2>1, <2>3, <2>5 DEF V2!AppDomain
    <3>2. V2Domain(d) = "Managed" /\ ~(d.at = "Sleeping")
      BY <1>1, <1>2, <2>2
    <3>3. V2(d)!LegacyDomains = {V2(d)!V1(V2(d)!AppDomain[st[b]], b) : b \in {a}}
      BY <2>7, <3>2 DEF V2!LegacyDomains
    <3> QED BY <2>1, <3>1, <3>3 DEF V2!V1
  <2> QED BY <1>1, <1>2, <1>3, <2>6, <2>8
<1>6. ShapeIsEmpty(d) \/ ShapeHolds(d)
  BY DEF ShapeOf, ShapeIsEmpty, ShapeHolds, PlainV1, PlainDomain, Domains
<1> QED BY <1>4, <1>5, <1>6

(* Folding into the v1 state and converting back never invents or loses    *)
(* the owner of the screen, for any applications and tokens.               *)
THEOREM ConversionsAlwaysAgree == Spec => []ConversionsAgree
<1>1. IInv => ConversionsAgree
  BY LegacyShape, ShapeAgrees DEF ConversionsAgree
<1> QED BY <1>1, Invariance, PTL

-----------------------------------------------------------------------------
(***************************************************************************)
(* The requests                                                            *)
(***************************************************************************)
USE RequestAssumption, CapacityAssumption, NoRequestAssumption
    DEF RequestAssumption, CapacityAssumption, NoRequestAssumption

(* RequestInit satisfies the inductive invariant of the requests.          *)
LEMMA RequestInitInv == RequestInit => RequestInv
<1> SUFFICES ASSUME RequestInit PROVE RequestInv
  OBVIOUS
<1>1. RequestTypes
  BY DEF RequestInit, RequestTypes
<1>2. ASSUME NEW r \in Request PROVE NotQueuedYet(r) /\ FenceDecides(r)
  BY DEF RequestInit, NotQueuedYet, FenceDecides
<1>3. step = "started"
  BY DEF RequestInit
<1> QED BY <1>1, <1>2, <1>3 DEF RequestInv

(* What an answer makes of the requester.                                  *)
LEMMA AnswerIs ==
  ASSUME RequestTypes, NEW r \in Request, NEW what, Answer(r, what)
  PROVE  \A s \in Request : /\ caller'[s] = IF s = r THEN "answered" ELSE caller[s]
                            /\ told'[s] = IF s = r THEN what ELSE told[s]
  BY DEF Answer, RequestTypes

(* What a requester that gives up makes of the fence.                      *)
LEMMA CancelIs ==
  ASSUME RequestTypes, NEW r \in Request, Cancel(r)
  PROVE  /\ fence'[r] = IF fence[r] = "pending" THEN "cancelled" ELSE fence[r]
         /\ \A s \in Request : s # r => fence'[s] = fence[s]
  BY DEF Cancel, RequestTypes

(* A requester's own step keeps the invariant.  Only the deadlines touch   *)
(* the fence, and a deadline that finds it claimed leaves it so.           *)
LEMMA CallerStepInv ==
  ASSUME RequestInv, NEW r \in Request, CallerStep(r)
  PROVE  RequestInv'
<1> USE DEF RequestInv, callerVars, loopVars, epochVars
<1>0. UNCHANGED <<running, step>>
  BY DEF CallerStep, Create, Send, SendDeadline, Reply, Deadline, GraceEnds, ConnectionTimeout
<1>1. CASE Create(r)
  <2>1. RequestTypes'
    BY <1>1 DEF Create, RequestTypes
  <2>2. ASSUME NEW s \in Request PROVE (NotQueuedYet(s) /\ FenceDecides(s))'
    <3>1. /\ UNCHANGED <<told, fence, queue, running, step, effect>>
          /\ caller'[s] \in {"idle", "sending"} => caller[s] \in {"idle", "sending"}
      BY <1>1 DEF Create, RequestTypes
    <3> QED BY <3>1 DEF NotQueuedYet, FenceDecides
  <2> QED BY <1>0, <2>1, <2>2
<1>2. CASE Send(r)
  <2>1. /\ queue' \in Seq(Request) /\ Len(queue') = Len(queue) + 1
        /\ queue'[Len(queue) + 1] = r
        /\ \A i \in 1..Len(queue) : queue'[i] = queue[i]
    BY <1>2 DEF Send, RequestTypes
  <2>2. RequestTypes'
    <3>1. Len(queue') <= Capacity
      BY <1>2, <2>1 DEF Send, Room, RequestTypes
    <3> QED BY <1>2, <2>1, <3>1 DEF Send, RequestTypes
  <2>3. ASSUME NEW s \in Request PROVE (NotQueuedYet(s) /\ FenceDecides(s))'
    <3>1. \A i \in 1..Len(queue') : i \in 1..Len(queue) \/ i = Len(queue) + 1
      BY <2>1 DEF RequestTypes
    <3>2. UNCHANGED <<told, fence, running, step, effect>>
      BY <1>2 DEF Send
    <3>3. caller' = [caller EXCEPT ![r] = "awaiting"]
      BY <1>2 DEF Send
    <3>4. ASSUME NEW i \in 1..Len(queue')
          PROVE  queue'[i] = r \/ (i \in 1..Len(queue) /\ queue'[i] = queue[i])
      <4>1. CASE i \in 1..Len(queue)
        BY <2>1, <4>1
      <4>2. CASE i = Len(queue) + 1
        BY <2>1, <4>2
      <4> QED BY <3>1, <4>1, <4>2
    <3>5. NotQueuedYet(s)'
      <4>1. CASE s = r
        <5>1. caller'[s] = "awaiting"
          BY <3>3, <4>1 DEF RequestTypes
        <5> QED BY <5>1 DEF NotQueuedYet
      <4>2. CASE s # r
        <5>1. caller'[s] = caller[s]
          BY <3>3, <4>2 DEF RequestTypes
        <5> QED BY <3>2, <3>4, <4>2, <5>1 DEF NotQueuedYet
      <4> QED BY <4>1, <4>2
    <3> QED BY <3>2, <3>5 DEF FenceDecides
  <2> QED BY <1>0, <2>2, <2>3
<1>3. CASE SendDeadline(r)
  <2>1. RequestTypes'
    BY <1>3 DEF SendDeadline, Cancel, Answer, RequestTypes
  <2>2. ASSUME NEW s \in Request PROVE (NotQueuedYet(s) /\ FenceDecides(s))'
    <3>1. /\ UNCHANGED <<queue, running, step, effect>> /\ caller[r] = "sending"
          /\ Cancel(r) /\ Answer(r, "unqueued")
      BY <1>3 DEF SendDeadline, loopVars
    <3>2. /\ caller'[s] = IF s = r THEN "answered" ELSE caller[s]
          /\ told'[s] = IF s = r THEN "unqueued" ELSE told[s]
      BY <3>1, AnswerIs
    <3>3. fence'[s] = IF s = r THEN "cancelled" ELSE fence[s]
      BY <3>1, CancelIs DEF NotQueuedYet
    <3>4. fence[r] = "pending"
      BY <3>1 DEF NotQueuedYet
    <3>5. CASE s = r
      BY <3>1, <3>2, <3>3, <3>4, <3>5 DEF NotQueuedYet, FenceDecides
    <3>6. CASE s # r
      BY <3>1, <3>2, <3>3, <3>6 DEF NotQueuedYet, FenceDecides
    <3> QED BY <3>5, <3>6
  <2> QED BY <1>0, <2>1, <2>2
<1>4. CASE Reply(r)
  <2>1. RequestTypes'
    BY <1>4 DEF Reply, Answer, RequestTypes
  <2>2. ASSUME NEW s \in Request PROVE (NotQueuedYet(s) /\ FenceDecides(s))'
    <3>1. UNCHANGED <<fence, queue, running, step, effect>>
      BY <1>4 DEF Reply
    <3>2. outcome[r] \in {"ok", "error", "superseded"}
      BY <1>4 DEF Reply, RequestTypes
    <3>3. caller'[s] \in {caller[s], "answered"} /\ told'[s] \in {told[s], "ok", "error", "superseded"}
      BY <1>4, <3>2 DEF Reply, Answer, RequestTypes
    <3> QED BY <3>1, <3>3 DEF NotQueuedYet, FenceDecides
  <2> QED BY <1>0, <2>1, <2>2
<1>5. CASE Deadline(r)
  <2>1. RequestTypes'
    BY <1>5 DEF Deadline, Cancel, Answer, RequestTypes
  <2>2. ASSUME NEW s \in Request PROVE (NotQueuedYet(s) /\ FenceDecides(s))'
    <3>1. /\ UNCHANGED <<queue, running, step, effect>> /\ caller[r] = "awaiting" /\ Cancel(r)
          /\ IF fence[r] = "committing"
             THEN caller' = [caller EXCEPT ![r] = "grace"] /\ UNCHANGED told
             ELSE Answer(r, "cancelled")
      BY <1>5 DEF Deadline, loopVars
    <3>2. CASE s = r
      <4>1. caller'[s] \in {"grace", "answered"}
        BY <3>1, <3>2, AnswerIs DEF RequestTypes
      <4>2. CASE fence[r] = "committing"
        <5>1. told'[s] = told[s] /\ fence'[s] = fence[s]
          BY <3>1, <3>2, <4>2, CancelIs
        <5> QED BY <3>1, <3>2, <4>1, <5>1 DEF NotQueuedYet, FenceDecides
      <4>3. CASE fence[r] # "committing"
        <5>1. told'[s] = "cancelled" /\ fence'[s] = "cancelled"
          BY <3>1, <3>2, <4>3, AnswerIs, CancelIs DEF RequestTypes
        <5> QED BY <3>1, <3>2, <4>1, <4>3, <5>1 DEF NotQueuedYet, FenceDecides
      <4> QED BY <4>2, <4>3
    <3>3. CASE s # r
      <4>1. caller'[s] = caller[s] /\ told'[s] = told[s] /\ fence'[s] = fence[s]
        BY <3>1, <3>3, AnswerIs, CancelIs DEF RequestTypes
      <4> QED BY <3>1, <4>1 DEF NotQueuedYet, FenceDecides
    <3> QED BY <3>2, <3>3
  <2> QED BY <1>0, <2>1, <2>2
<1>6. CASE GraceEnds(r)
  <2>1. RequestTypes'
    BY <1>6 DEF GraceEnds, GraceIsOver, Answer, RequestTypes
  <2>2. ASSUME NEW s \in Request PROVE (NotQueuedYet(s) /\ FenceDecides(s))'
    <3>1. /\ UNCHANGED <<fence, queue, running, step, effect>> /\ Answer(r, "unknown")
          /\ caller[r] # "idle"
      BY <1>6 DEF GraceEnds, GraceIsOver, loopVars
    <3>2. caller'[s] \in {caller[s], "answered"} /\ told'[s] \in {told[s], "unknown"}
      BY <3>1, AnswerIs
    <3> QED BY <3>1, <3>2 DEF NotQueuedYet, FenceDecides
  <2> QED BY <1>0, <2>1, <2>2
<1>7. CASE ConnectionTimeout(r)
  <2>1. RequestTypes'
    BY <1>7 DEF ConnectionTimeout, Answer, RequestTypes
  <2>2. ASSUME NEW s \in Request PROVE (NotQueuedYet(s) /\ FenceDecides(s))'
    <3>1. /\ UNCHANGED <<fence, queue, running, step, effect>> /\ Answer(r, "timeout")
          /\ caller[r] # "idle"
      BY <1>7 DEF ConnectionTimeout, loopVars
    <3>2. caller'[s] \in {caller[s], "answered"} /\ told'[s] \in {told[s], "timeout"}
      BY <3>1, AnswerIs
    <3> QED BY <3>1, <3>2 DEF NotQueuedYet, FenceDecides
  <2> QED BY <1>0, <2>1, <2>2
<1> QED BY <1>1, <1>2, <1>3, <1>4, <1>5, <1>6, <1>7 DEF CallerStep

(* The event loop taking the next event keeps the invariant: what it runs  *)
(* came out of the channel.                                                *)
LEMMA TakeInv == ASSUME RequestInv, Take PROVE RequestInv'
<1> USE DEF RequestInv, callerVars, epochVars
<1>1. /\ Head(queue) \in Request /\ Head(queue) = queue[1]
      /\ 1 \in 1..Len(queue)
      /\ queue' \in Seq(Request) /\ Len(queue') = Len(queue) - 1
      /\ \A i \in 1..Len(queue') : i + 1 \in 1..Len(queue) /\ queue'[i] = queue[i + 1]
  BY DEF Take, RequestTypes
<1>2. RequestTypes'
  <2>1. running' \in Request \union {None}
    BY <1>1 DEF Take, EndWith
  <2>2. outcome' \in [Request -> {"none", "ok", "error", "superseded"}]
    <3>1. outcome \in [Request -> {"none", "ok", "error", "superseded"}]
      BY DEF RequestTypes
    <3>2. outcome' = outcome \/ outcome' = [outcome EXCEPT ![Head(queue)] = "error"]
      BY DEF Take, EndWith
    <3> QED BY <1>1, <3>1, <3>2
  <2>5. step' \in {"started", "looked", "claimed", "committing"}
    BY DEF Take, EndWith, RequestTypes
  <2>3. Len(queue') <= Capacity
    BY <1>1 DEF RequestTypes
  <2>4. UNCHANGED <<caller, told, fence, effect, interruptEpoch, mine, overtaken>>
    BY DEF Take
  <2> QED BY <1>1, <2>1, <2>2, <2>3, <2>4, <2>5 DEF RequestTypes
<1>3. step = "started" /\ step' = "started"
  BY RequestAssumption, NoRequestAssumption DEF Take, EndWith
<1>4. ASSUME NEW s \in Request PROVE (NotQueuedYet(s) /\ FenceDecides(s))'
  BY <1>1, <1>3 DEF Take, EndWith, RequestTypes, NotQueuedYet, FenceDecides
<1> QED BY <1>2, <1>3, <1>4

(* What the steps of a handler have in common: they touch nothing of any   *)
(* request but their own, and the requester's side not at all.             *)
HandlerStep ==
  \/ Supersede \/ LookBeforeFence \/ BeginCommit \/ LookBehindFence
  \/ Land \/ Refuse

LEMMA HandlerIsLocal ==
  ASSUME RequestInv, HandlerStep
  PROVE  /\ running \in Request /\ running' \in {running, None}
         /\ UNCHANGED <<caller, told, queue, epochVars>>
         /\ \A s \in Request \ {running} : fence'[s] = fence[s] /\ outcome'[s] = outcome[s]
<1> USE RequestAssumption DEF RequestInv, RequestTypes, callerVars
<1>1. CASE Supersede
  BY <1>1 DEF Supersede, EndWith
<1>2. CASE LookBeforeFence
  BY <1>2 DEF LookBeforeFence
<1>3. CASE BeginCommit
  BY <1>3 DEF BeginCommit, EndWith
<1>4. CASE LookBehindFence
  BY <1>4 DEF LookBehindFence, EndWith
<1>5. CASE Land
  BY <1>5 DEF Land, EndWith
<1>6. CASE Refuse
  BY <1>6 DEF Refuse, EndWith
<1> QED BY <1>1, <1>2, <1>3, <1>4, <1>5, <1>6 DEF HandlerStep

(* The handler keeps the invariant: a launch lands only behind its fence.  *)
LEMMA HandlerInv ==
  ASSUME RequestInv, HandlerStep
  PROVE  RequestInv'
<1>1. /\ running \in Request /\ running' \in {running, None}
      /\ UNCHANGED <<caller, told, queue, interruptEpoch, mine, overtaken>>
  BY HandlerIsLocal DEF epochVars
<1> USE DEF RequestInv
<1>2. CASE Supersede
  <2>1. RequestTypes' /\ step' = "started"
    BY <1>1, <1>2 DEF Supersede, EndWith, RequestTypes
  <2>2. ASSUME NEW s \in Request PROVE (NotQueuedYet(s) /\ FenceDecides(s))'
    BY <1>1, <1>2 DEF Supersede, EndWith, NotQueuedYet, FenceDecides
  <2> QED BY <2>1, <2>2
<1>3. CASE LookBeforeFence
  <2>1. RequestTypes' /\ running' \in Launches
    BY <1>1, <1>3 DEF LookBeforeFence, RequestTypes
  <2>2. ASSUME NEW s \in Request PROVE (NotQueuedYet(s) /\ FenceDecides(s))'
    BY <1>1, <1>3 DEF LookBeforeFence, NotQueuedYet, FenceDecides
  <2> QED BY <2>1, <2>2
<1>4. CASE BeginCommit
  <2>1. RequestTypes'
    BY <1>1, <1>4 DEF BeginCommit, EndWith, RequestTypes
  <2>2. ASSUME NEW s \in Request PROVE (NotQueuedYet(s) /\ FenceDecides(s))'
    BY <1>1, <1>4 DEF BeginCommit, EndWith, RequestTypes, NotQueuedYet, FenceDecides
  <2>3. running' \in Launches \/ step' = "started"
    BY <1>4 DEF BeginCommit, EndWith
  <2> QED BY <2>1, <2>2, <2>3
<1>5. CASE LookBehindFence
  <2>1. RequestTypes'
    BY <1>1, <1>5 DEF LookBehindFence, EndWith, RequestTypes
  <2>2. ASSUME NEW s \in Request PROVE (NotQueuedYet(s) /\ FenceDecides(s))'
    BY <1>1, <1>5 DEF LookBehindFence, EndWith, NotQueuedYet, FenceDecides
  <2>3. running' \in Launches \/ step' = "started"
    BY <1>5 DEF LookBehindFence, EndWith
  <2> QED BY <2>1, <2>2, <2>3
<1>6. CASE Land
  <2>1. RequestTypes' /\ step' = "started"
    BY <1>1, <1>6 DEF Land, EndWith, RequestTypes
  <2>2. ASSUME NEW s \in Request PROVE (NotQueuedYet(s) /\ FenceDecides(s))'
    BY <1>1, <1>6 DEF Land, MayLand, EndWith, NotQueuedYet, FenceDecides
  <2> QED BY <2>1, <2>2
<1>7. CASE Refuse
  <2>1. RequestTypes' /\ step' = "started"
    BY <1>1, <1>7 DEF Refuse, EndWith, RequestTypes
  <2>2. ASSUME NEW s \in Request PROVE (NotQueuedYet(s) /\ FenceDecides(s))'
    BY <1>1, <1>7 DEF Refuse, EndWith, NotQueuedYet, FenceDecides
  <2> QED BY <2>1, <2>2
<1> QED BY <1>2, <1>3, <1>4, <1>5, <1>6, <1>7 DEF HandlerStep

(* The inductive invariant holds in every reachable state.                 *)
THEOREM RequestInvariance == RequestSpec => []RequestInv
<1>1. RequestInv /\ [RequestNext]_requestVars => RequestInv'
  <2> SUFFICES ASSUME RequestInv, [RequestNext]_requestVars PROVE RequestInv'
    OBVIOUS
  <2>1. CASE \E r \in Request : CallerStep(r)
    BY <2>1, CallerStepInv
  <2>2. CASE Take
    BY <2>2, TakeInv
  <2>3. CASE HandlerStep
    BY <2>3, HandlerInv
  <2>4. CASE UNCHANGED requestVars
    BY <2>4 DEF requestVars, callerVars, loopVars, epochVars, RequestInv, RequestTypes,
       NotQueuedYet, FenceDecides
  <2> QED BY <2>1, <2>2, <2>3, <2>4 DEF RequestNext, HandlerStep
<1> QED BY RequestInitInv, <1>1, PTL DEF RequestSpec

(* Whoever is told that a launch was cancelled is told the truth: it has   *)
(* not taken effect and never will.                                        *)
THEOREM CancelledStaysCancelled == RequestSpec => []CancelledHasNoEffect
<1>1. RequestInv => CancelledHasNoEffect
  BY DEF RequestInv, FenceDecides, CancelledHasNoEffect
<1> QED BY <1>1, RequestInvariance, PTL

-----------------------------------------------------------------------------
(* Init satisfies the invariant of the channel.                            *)
LEMMA InitChannel == RequestInit => ChannelInv
  BY DEF RequestInit, ChannelInv

(* A requester's step keeps it: sending puts a fresh request in, and giving*)
(* up on one that is queued wins its fence.                                *)
LEMMA CallerStepChannel ==
  ASSUME RequestInv, ChannelInv, NEW r \in Request, CallerStep(r)
  PROVE  ChannelInv'
<1> USE DEF RequestInv, RequestTypes, ChannelInv, Untouched
<1>1. CASE Send(r)
  <2>1. /\ Len(queue') = Len(queue) + 1 /\ Len(queue) \in Nat
        /\ queue'[Len(queue) + 1] = r
        /\ \A i \in 1..Len(queue) : queue'[i] = queue[i]
    BY <1>1 DEF Send
  <2>2. \A i \in 1..Len(queue') : i \in 1..Len(queue) \/ i = Len(queue) + 1
    BY <2>1
  <2>3. \A i \in 1..Len(queue) : queue[i] # r
    BY <1>1 DEF Send, NotQueuedYet
  <2>4. Untouched(r)'
    BY <1>1 DEF Send, NotQueuedYet
  <2>5. ASSUME NEW i \in 1..Len(queue) PROVE Untouched(queue[i])'
    BY <1>1, <2>3 DEF Send
  <2>6. \A i \in 1..Len(queue') : Untouched(queue[i])'
    BY <2>1, <2>2, <2>4, <2>5
  <2>7. \A i, j \in 1..Len(queue') : queue'[i] = queue'[j] => i = j
    <3>1. ASSUME NEW i \in 1..Len(queue'), NEW j \in 1..Len(queue'),
                 queue'[i] = queue'[j]
          PROVE  i = j
      <4>1. CASE i \in 1..Len(queue) /\ j \in 1..Len(queue)
        <5>1. queue[i] = queue[j]
          BY <2>1, <3>1, <4>1
        <5> QED BY <4>1, <5>1
      <4>2. CASE i = Len(queue) + 1 \/ j = Len(queue) + 1
        <5>1. queue'[Len(queue) + 1] = r
          BY <2>1
        <5>2. \A n \in 1..Len(queue) : queue'[n] # r
          BY <2>1, <2>3
        <5>3. queue'[i] = r /\ queue'[j] = r
          BY <3>1, <4>2, <5>1
        <5> QED BY <2>2, <3>1, <5>2, <5>3
      <4> QED BY <2>2, <4>1, <4>2
    <3> QED BY <3>1
  <2>8. \A s \in Request :
          /\ caller'[s] \in {"idle", "sending"} => outcome'[s] = "none"
          /\ told'[s] # "nothing" => caller'[s] = "answered"
    BY <1>1 DEF Send
  <2> QED BY <2>6, <2>7, <2>8
<1>2. CASE Create(r)
  BY <1>2 DEF Create, loopVars
<1>3. CASE SendDeadline(r)
  BY <1>3 DEF SendDeadline, Cancel, Answer, loopVars
<1>4. CASE Reply(r)
  BY <1>4 DEF Reply, Answer, loopVars
<1>5. CASE Deadline(r)
  <2>1. /\ UNCHANGED <<queue, running, outcome>> /\ caller[r] = "awaiting"
        /\ \A s \in Request : s # r => caller'[s] = caller[s] /\ told'[s] = told[s]
                                       /\ fence'[s] = fence[s]
    BY <1>5 DEF Deadline, Cancel, Answer, loopVars
  <2>2. \/ fence[r] = "committing" /\ caller'[r] = "grace" /\ told'[r] = told[r]
        \/ fence[r] # "committing" /\ caller'[r] = "answered" /\ fence'[r] = "cancelled"
    BY <1>5 DEF Deadline, Cancel, Answer
  <2>3. \A i \in 1..Len(queue) : Untouched(queue[i])'
    BY <2>1, <2>2
  <2> QED BY <2>1, <2>2, <2>3
<1>6. CASE GraceEnds(r)
  BY <1>6 DEF GraceEnds, GraceIsOver, Answer, loopVars
<1>7. CASE ConnectionTimeout(r)
  BY <1>7 DEF ConnectionTimeout, Answer, loopVars
<1> QED BY <1>1, <1>2, <1>3, <1>4, <1>5, <1>6, <1>7 DEF CallerStep

(* The loop's steps keep it: the event it takes leaves the channel, and it *)
(* answers and commits only what it has taken.                             *)
LEMMA LoopChannel ==
  ASSUME RequestInv, ChannelInv, Take \/ HandlerStep
  PROVE  ChannelInv'
<1> USE DEF RequestInv, RequestTypes, ChannelInv, Untouched
<1>1. CASE Take
  <2>1. /\ Head(queue) = queue[1] /\ 1 \in 1..Len(queue)
        /\ queue[1] \in Request
        /\ \A i \in 1..Len(queue') :
             /\ i + 1 \in 1..Len(queue) /\ i \in Nat
             /\ queue'[i] = queue[i + 1] /\ queue[i + 1] \in Request
    BY <1>1 DEF Take
  <2>2. \A i \in 1..Len(queue') : queue'[i] # queue[1]
    <3>1. ASSUME NEW i \in 1..Len(queue') PROVE queue'[i] # queue[1]
      <4>1. i + 1 \in 1..Len(queue) /\ i + 1 # 1 /\ queue'[i] = queue[i + 1]
        BY <2>1
      <4>2. queue[i + 1] = queue[1] => i + 1 = 1
        BY <2>1, <4>1
      <4> QED BY <4>1, <4>2
    <3> QED BY <3>1
  <2>3. \A s \in Request \ {queue[1]} :
          running' # s /\ outcome'[s] = outcome[s]
    BY <1>1, <2>1 DEF Take, EndWith
  <2>4. UNCHANGED <<caller, told, fence>>
    BY <1>1 DEF Take, callerVars
  <2>5. \A i \in 1..Len(queue') : Untouched(queue[i])'
    <3> SUFFICES ASSUME NEW i \in 1..Len(queue') PROVE Untouched(queue[i])'
      OBVIOUS
    <3>1. queue'[i] \in Request \ {queue[1]}
      BY <2>1, <2>2
    <3>2. i + 1 \in 1..Len(queue) /\ queue'[i] = queue[i + 1] /\ Untouched(queue[i + 1])
      BY <2>1
    <3> QED BY <2>3, <2>4, <3>1, <3>2
  <2>6. \A i, j \in 1..Len(queue') : queue'[i] = queue'[j] => i = j
    <3>1. ASSUME NEW i \in 1..Len(queue'), NEW j \in 1..Len(queue'),
                 queue'[i] = queue'[j]
          PROVE  i = j
      <4>1. /\ i + 1 \in 1..Len(queue) /\ j + 1 \in 1..Len(queue)
            /\ queue[i + 1] = queue[j + 1] /\ i \in Nat /\ j \in Nat
        BY <2>1, <3>1
      <4>2. i + 1 = j + 1
        BY <4>1
      <4> QED BY <4>1, <4>2
    <3> QED BY <3>1
  <2>7. \A s \in Request :
          /\ caller'[s] \in {"idle", "sending"} => outcome'[s] = "none"
          /\ told'[s] # "nothing" => caller'[s] = "answered"
    BY <2>1, <2>3, <2>4
  <2> QED BY <2>5, <2>6, <2>7
<1>2. CASE HandlerStep
  <2>1. /\ running \in Request /\ running' \in {running, None}
        /\ UNCHANGED <<caller, told, queue>>
        /\ \A s \in Request \ {running} : fence'[s] = fence[s] /\ outcome'[s] = outcome[s]
    BY <1>2, HandlerIsLocal
  <2>2. \A i \in 1..Len(queue) : queue[i] \in Request \ {running}
    OBVIOUS
  <2>3. \A i \in 1..Len(queue') : Untouched(queue[i])'
    BY <2>1, <2>2, NoRequestAssumption
  <2>4. caller[running] \notin {"idle", "sending"}
    BY <2>1 DEF NotQueuedYet
  <2>5. \A s \in Request : caller'[s] \in {"idle", "sending"} => outcome'[s] = "none"
    BY <2>1, <2>4
  <2>6. \A s \in Request : told'[s] # "nothing" => caller'[s] = "answered"
    BY <2>1
  <2>7. \A i, j \in 1..Len(queue') : queue'[i] = queue'[j] => i = j
    BY <2>1
  <2> QED BY <2>3, <2>5, <2>6, <2>7
<1> QED BY <1>1, <1>2

(* A request is started at most once, and nothing touches it before.       *)
THEOREM ChannelInvariance == RequestSpec => []ChannelInv
<1>1. RequestInv /\ ChannelInv /\ [RequestNext]_requestVars => ChannelInv'
  <2>1. RequestInv /\ ChannelInv /\ UNCHANGED requestVars => ChannelInv'
    BY DEF requestVars, callerVars, loopVars, epochVars, ChannelInv, Untouched
  <2> QED BY <2>1, CallerStepChannel, LoopChannel DEF RequestNext, HandlerStep
<1> QED BY <1>1, InitChannel, RequestInvariance, PTL DEF RequestSpec

(* An event whose requester has stopped waiting is never begun, unless the *)
(* handler's own deadline was longer than its connection's.                *)
THEOREM NeverStartedLate == RequestSpec => NoDelayedStartInTime
<1>1. RequestInv /\ ChannelInv /\ [RequestNext]_requestVars =>
        [running' # running /\ running' \notin Slow \union {None}
           => told[running'] = "nothing"]_requestVars
  <2> SUFFICES ASSUME RequestInv, ChannelInv, RequestNext,
                      running' # running, running' \notin Slow \union {None}
               PROVE  told[running'] = "nothing"
    OBVIOUS
  <2>1. Take
    <3>1. ASSUME NEW r \in Request, CallerStep(r) PROVE FALSE
      BY <3>1 DEF CallerStep, Create, Send, SendDeadline, Reply, Deadline, GraceEnds,
         ConnectionTimeout, loopVars
    <3>2. ~HandlerStep
      BY HandlerIsLocal
    <3> QED BY <3>1, <3>2 DEF RequestNext, HandlerStep
  <2>2. /\ 1 \in 1..Len(queue) /\ queue[1] \in Request
        /\ running' = queue[1] /\ fence[queue[1]] # "cancelled"
    BY <2>1 DEF Take, EndWith, Startable, RequestInv, RequestTypes
  <2> QED BY <2>2 DEF ChannelInv, Untouched
<1> QED BY <1>1, RequestInvariance, ChannelInvariance, PTL DEF RequestSpec, NoDelayedStartInTime

(***************************************************************************)
(* The newest interaction supersedes older launches                        *)
(***************************************************************************)
(* Only a created request changes who is the newest: it is newer than every*)
(* other, and overtakes the launches that are not past their last look.    *)
LEMMA CreateEpoch ==
  ASSUME RequestInv, EpochInv, NEW r \in Request, Create(r)
  PROVE  EpochInv'
<1>1. /\ interruptEpoch \in Nat /\ mine \in [Request -> Nat] /\ overtaken \subseteq Launches
      /\ caller \in [Request -> {"idle", "sending", "awaiting", "grace", "answered"}]
  BY DEF RequestInv, RequestTypes
<1>2. /\ UNCHANGED <<fence, queue, running, step, outcome, effect>>
      /\ caller[r] = "idle" /\ caller'[r] = "sending" /\ mine'[r] = interruptEpoch'
      /\ \A s \in Request \ {r} : caller'[s] = caller[s] /\ mine'[s] = mine[s]
  BY <1>1 DEF Create, loopVars
<1>3. \/ r \in Interrupting /\ interruptEpoch' = interruptEpoch + 1
      \/ r \notin Interrupting /\ interruptEpoch' = interruptEpoch
  BY <1>1 DEF Create
<1>4. interruptEpoch' \in Nat /\ interruptEpoch <= interruptEpoch'
  BY <1>1, <1>3
<1>5. ASSUME NEW s \in Request PROVE mine'[s] <= interruptEpoch'
  <2>1. s # r => mine'[s] = mine[s] /\ mine[s] \in Nat /\ mine[s] <= interruptEpoch
    BY <1>1, <1>2 DEF EpochInv
  <2> QED BY <1>1, <1>2, <1>4, <2>1
<1>6. ASSUME NEW s \in overtaken' PROVE Outdated(s)'
  <2>1. s \in Launches /\ s \in Request /\ s # r /\ caller[s] # "idle"
    BY <1>1, <1>2, RequestAssumption DEF Create, EpochInv, Outdated
  <2>2. mine'[s] = mine[s] /\ mine[s] \in Nat /\ caller'[s] = caller[s] /\ mine[s] <= interruptEpoch
    BY <1>1, <1>2, <2>1 DEF EpochInv
  <2>3. CASE s \in overtaken
    <3>1. mine[s] < interruptEpoch /\ s \notin effect /\ ~Committing(s)
      BY <2>3 DEF EpochInv, Outdated
    <3>2. mine'[s] < interruptEpoch'
      BY <1>1, <1>4, <2>2, <3>1
    <3> QED BY <1>2, <2>1, <2>2, <3>1, <3>2 DEF Outdated, Committing
  <2>4. CASE s \notin overtaken
    <3>1. r \in Interrupting /\ outcome[s] = "none" /\ ~Committing(s)
      BY <2>4 DEF Create
    <3>2. mine'[s] < interruptEpoch'
      BY <1>1, <1>3, <2>2, <3>1
    <3>3. s \notin effect
      BY <3>1 DEF EpochInv
    <3> QED BY <1>2, <2>1, <2>2, <3>1, <3>2, <3>3 DEF Outdated, Committing
  <2> QED BY <2>3, <2>4
<1>7. ASSUME NEW s \in Launches, caller'[s] # "idle", outcome'[s] = "none"
      PROVE  (Newest(s) \/ s \in overtaken \/ Committing(s))'
  <2>1. CASE s = r
    BY <1>2, <2>1 DEF Newest
  <2>2. CASE s # r
    <3>1. caller[s] # "idle" /\ outcome[s] = "none" /\ mine'[s] = mine[s]
      BY <1>2, <1>7, <2>2, RequestAssumption
    <3>2. CASE r \in Interrupting
      BY <1>2, <3>1, <3>2 DEF Create, Committing
    <3>3. CASE r \notin Interrupting
      <4>1. Newest(s) \/ s \in overtaken \/ Committing(s)
        BY <3>1 DEF EpochInv
      <4> QED BY <1>2, <1>3, <3>1, <3>3, <4>1 DEF Create, Newest, Committing
    <3> QED BY <3>2, <3>3
  <2> QED BY <2>1, <2>2
<1> QED BY <1>2, <1>5, <1>6, <1>7 DEF EpochInv

(* Any other step of a requester leaves epochs and handler alone.          *)
LEMMA CallerEpoch ==
  ASSUME RequestInv, EpochInv, NEW r \in Request, CallerStep(r), ~Create(r)
  PROVE  EpochInv'
<1> USE DEF RequestInv, RequestTypes, epochVars, loopVars, Answer
<1>1. UNCHANGED <<running, step, outcome, effect, interruptEpoch, mine, overtaken>>
  BY DEF CallerStep, Send, SendDeadline, Reply, Deadline, GraceEnds, ConnectionTimeout
<1>2. /\ caller[r] # "idle" /\ caller'[r] # "idle"
      /\ \A s \in Request : s # r => caller'[s] = caller[s]
  BY DEF CallerStep, Send, SendDeadline, Reply, Deadline, GraceEnds, GraceIsOver,
     ConnectionTimeout
<1>3. \A s \in Request : caller'[s] = "idle" <=> caller[s] = "idle"
  BY <1>2
<1>4. \A s \in Launches : s \in Request
  BY RequestAssumption
<1> HIDE DEF RequestInv, RequestTypes
<1>5. overtaken \subseteq Launches
  BY DEF RequestInv, RequestTypes
<1> QED BY <1>1, <1>3, <1>4, <1>5 DEF EpochInv, Outdated, Newest, Committing

(* What the loop takes has no answer yet.                                  *)
LEMMA TakeEpoch ==
  ASSUME RequestInv, ChannelInv, EpochInv, Take
  PROVE  EpochInv'
<1>1. /\ UNCHANGED <<caller, effect, interruptEpoch, mine, overtaken>> /\ running = None
      /\ overtaken \subseteq Launches /\ Launches \subseteq Request
  BY RequestAssumption DEF Take, callerVars, epochVars, RequestInv, RequestTypes
<1>2. /\ Head(queue) \in Request
      /\ outcome[Head(queue)] = "none"
      /\ \A s \in Request : outcome[s] # "none" => outcome'[s] # "none"
      /\ \/ running' = Head(queue) /\ UNCHANGED <<step, outcome>>
         \/ running' = None /\ step' = "started"
  <2>1. Head(queue) = queue[1] /\ 1 \in 1..Len(queue) /\ queue[1] \in Request
    BY DEF Take, RequestInv, RequestTypes
  <2>2. outcome[queue[1]] = "none"
    BY <2>1 DEF ChannelInv, Untouched
  <2> QED BY <2>1, <2>2 DEF Take, EndWith, RequestInv, RequestTypes
<1>3. step = "started" /\ step' = "started"
  BY <1>1, <1>2, NoRequestAssumption DEF RequestInv
<1>4. \A s \in Request : ~Committing(s) /\ ~Committing(s)'
  BY <1>3 DEF Committing
<1>5. running' # None => outcome'[running'] = "none"
  BY <1>2
<1>6. \A s \in effect' : outcome'[s] # "none"
  BY <1>1, <1>2 DEF EpochInv, RequestInv, RequestTypes
<1>7. \A s \in overtaken' : Outdated(s)'
  BY <1>1, <1>4 DEF EpochInv, Outdated
<1>8. \A s \in Launches : caller'[s] # "idle" /\ outcome'[s] = "none" =>
        (Newest(s) \/ s \in overtaken \/ Committing(s))'
  BY <1>1, <1>2, <1>4 DEF EpochInv, Newest
<1> QED BY <1>1, <1>5, <1>6, <1>7, <1>8 DEF EpochInv

(* A handler passes its last look only as the newest, and lands only past  *)
(* it.                                                                     *)
LEMMA HandlerEpoch ==
  ASSUME RequestInv, EpochInv, HandlerStep
  PROVE  EpochInv'
<1>1. /\ running \in Request /\ running # None /\ running' \in {running, None}
      /\ UNCHANGED <<caller, interruptEpoch, mine, overtaken>>
      /\ \A s \in Request \ {running} : outcome'[s] = outcome[s]
      /\ overtaken \subseteq Launches /\ Launches \subseteq Request /\ effect \subseteq Request
  BY HandlerIsLocal, NoRequestAssumption, RequestAssumption
     DEF epochVars, RequestInv, RequestTypes
<1>2. \/ running' = None /\ outcome'[running] # "none"
      \/ running' = running /\ UNCHANGED outcome
  BY <1>1 DEF HandlerStep, Supersede, LookBeforeFence, BeginCommit, LookBehindFence,
     Land, Refuse, EndWith, RequestInv, RequestTypes
<1>3. \/ UNCHANGED effect
      \/ /\ effect' = effect \union {running} /\ running' = None
         /\ running \in Launches => Committing(running)
  BY DEF HandlerStep, Supersede, LookBeforeFence, BeginCommit, LookBehindFence,
     Land, MayLand, Refuse, EndWith, Committing
<1>4. step' = "committing" /\ running' = running => Newest(running) \/ Committing(running)
  BY <1>1 DEF HandlerStep, Supersede, LookBeforeFence, BeginCommit, LookBehindFence,
     StillNewest, Land, Refuse, EndWith, Committing
<1>5. Committing(running) => running' = None
  BY <1>1 DEF HandlerStep, Supersede, LookBeforeFence, BeginCommit, LookBehindFence,
     Land, Refuse, EndWith, Committing
<1>6. running' # None => outcome'[running'] = "none"
  BY <1>1, <1>2 DEF EpochInv
<1>7. \A s \in effect' : outcome'[s] # "none"
  BY <1>1, <1>2, <1>3 DEF EpochInv
<1>8. ASSUME NEW s \in overtaken PROVE Outdated(s)'
  <2>1. caller[s] # "idle" /\ mine[s] < interruptEpoch /\ s \notin effect /\ ~Committing(s)
    BY DEF EpochInv, Outdated
  <2>2. s \notin effect'
    BY <1>1, <1>3, <2>1
  <2>3. mine[s] \in Nat /\ interruptEpoch \in Nat /\ ~Newest(s)
    BY <1>1, <2>1 DEF Newest, RequestInv, RequestTypes
  <2>4. ~Committing(s)'
    BY <1>1, <1>4, <2>1, <2>3, NoRequestAssumption DEF Committing
  <2> QED BY <1>1, <2>1, <2>2, <2>4 DEF Outdated
<1>9. ASSUME NEW s \in Launches, caller'[s] # "idle", outcome'[s] = "none"
      PROVE  (Newest(s) \/ s \in overtaken \/ Committing(s))'
  <2>1. outcome[s] = "none"
    BY <1>1, <1>2, <1>9 DEF EpochInv
  <2>2. Newest(s) \/ s \in overtaken \/ Committing(s)
    BY <1>1, <1>9, <2>1 DEF EpochInv
  <2>3. ~Committing(s)
    BY <1>1, <1>2, <1>5, <1>9 DEF Committing
  <2> QED BY <1>1, <2>2, <2>3 DEF Newest
<1> QED BY <1>1, <1>6, <1>7, <1>8, <1>9 DEF EpochInv

(* Whatever requests are created, cancelled and served meanwhile, a launch *)
(* that a newer interaction met before its last look has no effect, and no *)
(* other is refused as superseded.                                         *)
SupersededInv ==
  \A r \in Launches : outcome[r] = "superseded" => r \in overtaken \/ fence[r] = "cancelled"

LEMMA SupersededKeeps ==
  ASSUME RequestInv, EpochInv, SupersededInv, RequestNext
  PROVE  SupersededInv'
<1>1. Launches \subseteq Request /\ outcome \in [Request -> {"none", "ok", "error", "superseded"}]
      /\ fence \in [Request -> {"pending", "cancelled", "committing"}]
  BY RequestAssumption DEF RequestInv, RequestTypes
<1>2. overtaken \subseteq overtaken'
  <2>1. ASSUME NEW r \in Request, CallerStep(r) PROVE overtaken \subseteq overtaken'
    BY <2>1 DEF CallerStep, Create, Send, SendDeadline, Reply, Deadline, GraceEnds,
       ConnectionTimeout, epochVars
  <2>2. HandlerStep => overtaken' = overtaken
    BY HandlerIsLocal DEF epochVars
  <2> QED BY <2>1, <2>2 DEF RequestNext, HandlerStep, Take, epochVars
<1>3. \A s \in Request : fence[s] = "cancelled" => fence'[s] = "cancelled"
  <2>1. ASSUME NEW r \in Request, CallerStep(r)
        PROVE  \A s \in Request : fence[s] = "cancelled" => fence'[s] = "cancelled"
    BY <1>1, <2>1 DEF CallerStep, Create, Send, SendDeadline, Reply, Deadline, Cancel,
       GraceEnds, ConnectionTimeout
  <2>2. HandlerStep => \A s \in Request : fence[s] = "cancelled" => fence'[s] = "cancelled"
    BY <1>1 DEF HandlerStep, Supersede, LookBeforeFence, BeginCommit, LookBehindFence,
       Land, Refuse
  <2> QED BY <2>1, <2>2 DEF RequestNext, HandlerStep, Take
<1>4. ASSUME NEW s \in Launches, outcome'[s] = "superseded", outcome[s] # "superseded"
      PROVE  s = running /\ (~Newest(s) \/ fence[s] = "cancelled") /\ ~Committing(s)
  <2>1. ASSUME NEW r \in Request, CallerStep(r) PROVE UNCHANGED outcome
    BY <2>1 DEF CallerStep, Create, Send, SendDeadline, Reply, Deadline, GraceEnds,
       ConnectionTimeout, loopVars
  <2>2. ~Take
    BY <1>1, <1>4 DEF Take, EndWith
  <2>3. HandlerStep
    BY <1>4, <2>1, <2>2 DEF RequestNext, HandlerStep
  <2> QED BY <1>1, <1>4, <2>3 DEF HandlerStep, Supersede, Superseded, LookBeforeFence,
         BeginCommit, LookBehindFence, StillNewest, Land, Refuse, EndWith, Committing
<1>5. ASSUME NEW s \in Launches, outcome'[s] = "superseded"
      PROVE  s \in overtaken' \/ fence'[s] = "cancelled"
  <2>1. CASE outcome[s] = "superseded"
    BY <1>1, <1>2, <1>3, <2>1 DEF SupersededInv
  <2>2. CASE outcome[s] # "superseded"
    <3>1. s = running /\ (~Newest(s) \/ fence[s] = "cancelled") /\ ~Committing(s)
      BY <1>4, <1>5, <2>2
    <3>2. caller[s] # "idle" /\ outcome[s] = "none"
      BY <1>1, <3>1, NoRequestAssumption DEF EpochInv, RequestInv, NotQueuedYet
    <3> QED BY <1>1, <1>2, <1>3, <3>1, <3>2 DEF EpochInv
  <2> QED BY <2>1, <2>2
<1> QED BY <1>5 DEF SupersededInv

THEOREM NewerAlwaysSupersedes == RequestSpec => []NewerSupersedes
<1>1. RequestInit => EpochInv /\ SupersededInv
  BY NoRequestAssumption, RequestAssumption DEF RequestInit, EpochInv, SupersededInv
<1>2. /\ RequestInv /\ ChannelInv /\ EpochInv /\ SupersededInv
      /\ [RequestNext]_requestVars
      => EpochInv' /\ SupersededInv'
  <2>1. RequestInv /\ ChannelInv /\ EpochInv /\ RequestNext => EpochInv'
    BY CreateEpoch, CallerEpoch, TakeEpoch, HandlerEpoch DEF RequestNext, HandlerStep
  <2>2. EpochInv /\ SupersededInv /\ UNCHANGED requestVars => EpochInv' /\ SupersededInv'
    BY DEF requestVars, callerVars, loopVars, epochVars, EpochInv, SupersededInv, Outdated,
       Newest, Committing
  <2> QED BY <2>1, <2>2, SupersededKeeps
<1>3. EpochInv /\ SupersededInv => NewerSupersedes
  BY DEF EpochInv, SupersededInv, Outdated, NewerSupersedes
<1> QED BY <1>1, <1>2, <1>3, RequestInvariance, ChannelInvariance, PTL DEF RequestSpec
=============================================================================
