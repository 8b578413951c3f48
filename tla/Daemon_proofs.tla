---------------------------- MODULE Daemon_proofs ----------------------------
(***************************************************************************)
(* For any set of applications and any kinds of fault: a launch whose      *)
(* requester gave up is never put on the screen; every state has its type; *)
(* in the stock domain nothing runs; nobody waits for a frozen process; a  *)
(* live process keeps the policy it was registered with; the daemon        *)
(* implements Device.  With the faults they need ruled out: the screen     *)
(* agrees with the domain, the daemon tracks whatever lives, and no        *)
(* freezing application runs in the background.                            *)
(***************************************************************************)
EXTENDS Daemon, TLAPS

(* The loop activates a launch only with the fence claimed.                *)
FenceHeld == pc["loop"] = "activate" => fence = "committing"

FenceInv == pc \in [Threads -> Labels] /\ FenceHeld

(* A step that neither touches the fence nor gets to the activation.       *)
Elsewhere == Labels \ {"activate"}
MovesOn ==
  /\ UNCHANGED fence
  /\ \/ UNCHANGED pc
     \/ \E t \in Threads, l \in Elsewhere : pc' = [pc EXCEPT ![t] = l]

(* Init satisfies the invariant.                                           *)
LEMMA InitFence == Init => FenceInv
  BY DEF Init, FenceInv, FenceHeld, Labels, Threads

(* Such a step keeps the invariant.                                        *)
LEMMA MovesOnKeeps == FenceInv /\ MovesOn => FenceInv'
  BY DEF FenceInv, FenceHeld, MovesOn, Elsewhere, Threads

(* Routing an event moves on.                                              *)
LEMMA RouteMoves == Route => MovesOn
<1> SUFFICES ASSUME Route PROVE MovesOn
  OBVIOUS
<1>1. UNCHANGED fence
  BY DEF Route, loopVars
<1>2. ASSUME NEW l \in Elsewhere, pc' = [pc EXCEPT !["loop"] = l]
      PROVE  MovesOn
  BY <1>1, <1>2 DEF MovesOn, Threads
<1>3. ASSUME NEW l \in Elsewhere, Goto("loop", l) \/ ParkTarget(l)
      PROVE  MovesOn
  BY <1>2, <1>3 DEF Goto, ParkTarget
<1>4. ASSUME Finish("loop") \/ Fail("loop")
      PROVE  MovesOn
  BY <1>2, <1>4 DEF Finish, Fail, Leave, Elsewhere, Labels
<1>5. {"park", "prepare", "enter", "restore", "close", "reload"} \subseteq Elsewhere
  BY DEF Elsewhere, Labels
<1>6. ASSUME NEW a, LaunchRoute(a) PROVE MovesOn
  BY <1>3, <1>4, <1>5, <1>6 DEF LaunchRoute
<1>7. ASSUME NEW kind, PowerRoute(kind) PROVE MovesOn
  BY <1>2, <1>3, <1>4, <1>5, <1>7 DEF PowerRoute
<1>8. EnsureHome => MovesOn
  BY <1>4 DEF EnsureHome
<1> QED BY <1>3, <1>5, <1>6, <1>7, <1>8 DEF Route

(* Every step of parking moves on.                                         *)
LEMMA ParkMoves == ParkStep => MovesOn
<1> USE DEF MovesOn, Threads, Elsewhere, Labels, loopVars, Goto, Acquire, Fail,
            Leave
<1>1. BeginPark => MovesOn
  BY DEF BeginPark
<1>2. AskBackground => MovesOn
  BY DEF AskBackground
<1>3. HandOff => MovesOn
  BY DEF HandOff
<1>4. Freeze => MovesOn
  BY DEF Freeze, AfterPark, Release, Finish
<1>5. RecoverPark => MovesOn
  BY DEF RecoverPark
<1>6. AskForeground => MovesOn
  BY DEF AskForeground
<1>7. RestoreForeground => MovesOn
  BY DEF RestoreForeground
<1>8. ForceStop => MovesOn
  BY DEF ForceStop
<1> QED BY <1>1, <1>2, <1>3, <1>4, <1>5, <1>6, <1>7, <1>8 DEF ParkStep

(* Every step of a launch moves on, except the one that claims the fence   *)
(* and with it gets to the activation.                                     *)
LEMMA LaunchKeeps == FenceInv /\ LaunchStep => FenceInv'
<1> SUFFICES ASSUME FenceInv, LaunchStep PROVE FenceInv'
  OBVIOUS
<1>1. CASE CommitLaunch
  <2>1. CASE fence' = "committing" /\ Goto("loop", "activate")
    BY <2>1 DEF FenceInv, FenceHeld, Goto, Threads, Labels
  <2>2. CASE Goto("loop", "rollback")
    BY <2>2 DEF FenceInv, FenceHeld, Goto, Threads, Labels
  <2> QED BY <1>1, <2>1, <2>2 DEF CommitLaunch, BeginCommit
<1>2. CASE ~CommitLaunch
  <2> USE DEF MovesOn, Threads, Elsewhere, Labels, loopVars, Goto, Acquire, Fail,
              Finish, Leave
  <2>1. Prepare => MovesOn
    BY DEF Prepare
  <2>2. RegisterRuntime => MovesOn
    BY DEF RegisterRuntime
  <2>3. Start => MovesOn
    BY DEF Start
  <2>4. AwaitReady => MovesOn
    BY DEF AwaitReady
  <2>5. ActivateForeground => MovesOn
    BY DEF ActivateForeground
  <2>6. RollbackLaunch => MovesOn
    BY DEF RollbackLaunch
  <2> QED BY <1>2, <2>1, <2>2, <2>3, <2>4, <2>5, <2>6, MovesOnKeeps DEF LaunchStep
<1> QED BY <1>1, <1>2

(* Closing, restoring and recovering move on, for either thread.           *)
LEMMA StopMoves ==
  ASSUME NEW t \in Threads, CloseStep(t) \/ RestoreStep(t)
  PROVE  MovesOn
<1> USE DEF MovesOn, Elsewhere, Labels, loopVars, Goto, Acquire, Fail, Finish,
            Leave, FailClose
<1>1. CASE Close(t)
  BY <1>1 DEF Close
<1>2. CASE CloseThaw(t)
  BY <1>2 DEF CloseThaw
<1>3. CASE CloseReveal(t)
  BY <1>3 DEF CloseReveal
<1>4. CASE CloseStop(t)
  BY <1>4 DEF CloseStop, AfterClose
<1>5. CASE Reload(t)
  BY <1>5 DEF Reload
<1>6. CASE ReloadShow(t)
  BY <1>6 DEF ReloadShow
<1>7. CASE RestoreSystem(t)
  BY <1>7 DEF RestoreSystem
<1>8. CASE StopAll(t)
  BY <1>8 DEF StopAll, FailRestore
<1> QED BY <1>1, <1>2, <1>3, <1>4, <1>5, <1>6, <1>7, <1>8 DEF CloseStep, RestoreStep

(* Every step keeps the invariant.                                         *)
LEMMA NextFence == FenceInv /\ [Next]_vars => FenceInv'
<1> SUFFICES ASSUME FenceInv, [Next]_vars PROVE FenceInv'
  OBVIOUS
<1>1. CASE UserEvent
  <2>1. ASSUME NEW kind, NEW a, Take(kind, a) PROVE FenceInv'
    BY <2>1 DEF Take, FenceInv, FenceHeld, Threads, Labels
  <2>2. TakeCancelled => MovesOn
    BY DEF TakeCancelled, Fail, Leave, MovesOn, Elsewhere, Labels, Threads, loopVars
  <2>3. Interrupt => MovesOn
    BY DEF Interrupt, MovesOn
  <2>4. CancelRequest => FenceInv'
    BY DEF CancelRequest, FenceInv, FenceHeld
  <2> QED BY <1>1, <2>1, <2>2, <2>3, <2>4, MovesOnKeeps DEF UserEvent
<1>2. CASE LoopStep
  <2> USE DEF MovesOn, Threads, Elsewhere, Labels, loopVars, Goto, Acquire, Fail,
              Finish, Leave
  <2>1. EnterManager => MovesOn
    BY DEF EnterManager
  <2>2. EnterManaged => MovesOn
    BY DEF EnterManaged
  <2>3. Recover => MovesOn
    BY DEF Recover, Recovery
  <2>4. ASSUME NEW a \in App, NEW age \in Ages, TakeExit(a, age) PROVE MovesOn
    BY <2>4 DEF TakeExit, RecordExit
  <2> QED BY <1>2, <2>1, <2>2, <2>3, <2>4, RouteMoves, ParkMoves, LaunchKeeps,
             StopMoves, MovesOnKeeps DEF LoopStep
<1>3. CASE PackageStep
  BY <1>3, StopMoves, MovesOnKeeps DEF PackageStep, Threads
<1>4. CASE RestartDaemon
  BY <1>4 DEF RestartDaemon, FenceInv, FenceHeld, Threads, Labels
<1>5. ASSUME NEW a \in App, StartPackage(a) \/ Die(a) \/ Runner(a)
      PROVE  MovesOn
  BY <1>5 DEF StartPackage, Die, Runner, RunnerReports, UnitEnds, BridgeReports,
     MovesOn, Threads, Elsewhere, Labels, loopVars
<1>6. CASE UNCHANGED vars
  BY <1>6 DEF vars, loopVars, FenceInv, FenceHeld
<1> QED BY <1>1, <1>2, <1>3, <1>4, <1>5, <1>6, MovesOnKeeps DEF Next

(* The fence is claimed whenever the loop activates a launch.              *)
THEOREM FenceInvariance == Spec => []FenceInv
  BY InitFence, NextFence, PTL DEF Spec

-----------------------------------------------------------------------------
(* The launch named by the domain reaches the screen in this step.         *)
Commits ==
  \E a \in App : domain = On("Launching", a) /\ domain' = On("Foreground", a)

(* Of all transitions only AppReady does that.                             *)
LEMMA OnlyReadyCommits ==
  ASSUME NEW t, NEW b, Apply(t, b), Commits
  PROVE  t = "AppReady"
  BY DEF Apply, Accepts, Commits, On, In, PlainEdges, AppEdges, AppDomains

(* And only activating the foreground makes it.                            *)
LEMMA OnlyActivateCommits ==
  ASSUME Next, Commits
  PROVE  ActivateForeground
<1> USE DEF managerVars, loopVars
<1>1. domain' # domain /\ \A d \in PlainDomains : domain' # In(d)
  BY DEF Commits, On, In, PlainDomains
<1>2. CASE UserEvent
  BY <1>1, <1>2 DEF UserEvent, Take, TakeCancelled, Interrupt, CancelRequest
<1>3. CASE Route
  BY <1>1, <1>3 DEF Route
<1>4. CASE ParkStep
  BY <1>1, <1>4, OnlyReadyCommits
     DEF ParkStep, BeginPark, AskBackground, HandOff, Freeze, AfterPark,
         RecoverPark, AskForeground, RestoreForeground, ForceStop
<1>5. CASE LaunchStep
  BY <1>1, <1>5, OnlyReadyCommits
     DEF LaunchStep, Prepare, RegisterRuntime, Start, AwaitReady, CommitLaunch,
         RollbackLaunch
<1>6. ASSUME NEW t \in Threads, CloseStep(t) PROVE FALSE
  BY <1>1, <1>6, OnlyReadyCommits
     DEF CloseStep, Close, CloseThaw, CloseReveal, CloseStop, Reload, ReloadShow,
         PlainDomains
<1>7. ASSUME NEW t \in Threads, RestoreStep(t) PROVE FALSE
  BY <1>1, <1>7, OnlyReadyCommits
     DEF RestoreStep, RestoreSystem, StopAll, PlainDomains
<1>8. CASE EnterManager \/ EnterManaged \/ Recover
  BY <1>1, <1>8, OnlyReadyCommits DEF EnterManager, EnterManaged, Recover
<1>9. ASSUME NEW a \in App, NEW age \in Ages, TakeExit(a, age) PROVE FALSE
  BY <1>1, <1>9, OnlyReadyCommits DEF TakeExit, RecordExit
<1>10. CASE RestartDaemon
  BY <1>1, <1>10 DEF RestartDaemon, PlainDomains
<1>11. ASSUME NEW a \in App, StartPackage(a) \/ Die(a) \/ Runner(a) PROVE FALSE
  BY <1>1, <1>11 DEF StartPackage, Die, Runner, RunnerReports, UnitEnds, BridgeReports
<1> QED BY <1>2, <1>3, <1>4, <1>5, <1>6, <1>7, <1>8, <1>9, <1>10, <1>11
        DEF Next, LoopStep, PackageStep, Threads

(* A launch whose requester has given up never reaches the screen, however *)
(* the power keys, the package thread, failures and restarts interleave.   *)
THEOREM CancelledLaunchNeverCommits == Spec => CancelledNeverCommits
<1>1. FenceInv /\ [Next]_vars =>
        [\A a \in App :
           domain = On("Launching", a) /\ domain' = On("Foreground", a)
             => fence # "cancelled"]_vars
  <2> SUFFICES ASSUME FenceInv, Next, Commits PROVE fence # "cancelled"
    BY DEF Commits
  <2> QED BY OnlyActivateCommits DEF ActivateForeground, FenceInv, FenceHeld
<1> QED BY <1>1, FenceInvariance, PTL DEF Spec, CancelledNeverCommits

-----------------------------------------------------------------------------
(***************************************************************************)
(* The screen, the units and the lock, by the place of each thread         *)
(***************************************************************************)
ParkLabels ==
  {"askBackground", "handOff", "freeze", "recoverPark", "askForeground", "restoreForeground",
   "forceStop"}
LaunchLabels == {"register", "start", "await", "commit", "activate", "rollback"}
CloseLabels == {"closeThaw", "closeReveal", "closeStop"}
Holding == ParkLabels \cup LaunchLabels \cup CloseLabels \cup {"entering", "stopAll"}
PackageLabels == CloseLabels \cup {"idle", "close", "reload", "reloadShow", "restore", "stopAll"}

Jobs ==
  [kind : AppKinds \cup PlainKinds \cup {"Package", "Recovery", "none"},
   app : App \cup {NoApp}, target : App \cup {NoApp}, flag : BOOLEAN]

(* Whoever is inside a transition has the lock, and nobody else has.        *)
LockInv ==
  /\ \A t \in Threads : lock = t <=> pc[t] \in Holding
  /\ pc["package"] \in PackageLabels
  /\ job["package"].kind \in {"Package", "none"}

(* Inside a transition the domain is what its steps have made it.           *)
LoopInv ==
  LET app == job["loop"].app
      target == job["loop"].target IN
  /\ pc["loop"] \in ParkLabels => domain = On("Parking", target) /\ tracked[target] # "none"
  /\ pc["loop"] \in LaunchLabels => domain = On("Launching", app)
  /\ pc["loop"] = "entering" => domain = In("EnteringManaged")
  /\ pc["loop"] \in ParkLabels \ {"recoverPark", "forceStop"} => unit[target] # "frozen"
  /\ pc["loop"] = "freeze" => screen # target
  /\ pc["loop"] \in {"register", "start"} => 
       IF job["loop"].flag THEN tracked[app] # "none" ELSE unit[app] = "off"
  /\ pc["loop"] = "start" => tracked[app] # "none"
  /\ pc["loop"] \in {"await", "commit", "activate"} => unit[app] # "frozen"

HeldInv(t) ==
  LET app == job[t].app IN
  /\ pc[t] = "closeThaw" => (job[t].flag <=> domain = On("Foreground", app))
  /\ pc[t] = "closeReveal" => job[t].flag /\ domain = On("Foreground", app)
  /\ pc[t] = "closeStop" => IF job[t].flag THEN domain = On("Parking", app)
                                           ELSE domain # On("Foreground", app)
  /\ pc[t] = "stopAll" => domain = In("RestoringSystem")

(* A frozen unit was captured as a freezing one, or given up since, and is  *)
(* not the one in the foreground.                                          *)
FrozenInv ==
  \A a \in App :
    unit[a] = "frozen" => /\ tracked[a] \in {"freeze", "none"}
                          /\ screen # a /\ domain # On("Foreground", a)

DInv ==
  /\ TypeOK /\ LockInv /\ LoopInv /\ HeldInv("loop") /\ HeldInv("package")
  /\ FrozenInv /\ StockRunsNothing


(* The states of the domain are told apart by their names.                  *)
LEMMA DomainIs ==
  ASSUME NEW d \in DomainStates
  PROVE  /\ d.at \in PlainDomains => d = In(d.at)
         /\ d.at \in AppDomains => d.app \in App /\ d = On(d.at, d.app)
         /\ d.at \in PlainDomains \cup AppDomains
<1>1. CASE \E p \in PlainDomains : d = In(p)
  BY <1>1 DEF In, PlainDomains, AppDomains
<1>2. CASE \E p \in AppDomains, a \in App : d = On(p, a)
  BY <1>2 DEF On, PlainDomains, AppDomains
<1> QED BY <1>1, <1>2 DEF DomainStates

(* The two constructors of a domain state.                                 *)
LEMMA OnIs ==
  /\ \A p, a : On(p, a).at = p /\ On(p, a).app = a
  /\ \A p : In(p).at = p
  BY DEF On, In

(* What the transitions the handlers apply make of the domain.              *)
LEMMA ApplyType ==
  ASSUME ManagerTypeOK, NEW t, NEW a, Apply(t, a)
  PROVE  ManagerTypeOK'
<1>1. PICK next \in DomainStates : domain' = next /\ Remember(next)
  BY DEF Apply
<1>2. next.at \in AppDomains => next.app \in App
  BY DomainIs
<1> QED BY <1>1, <1>2 DEF ManagerTypeOK, Remember, AppDomains

(* A transition that is applied was accepted.                              *)
LEMMA ApplyMoves ==
  ASSUME NEW t, NEW a, Apply(t, a)
  PROVE  /\ domain' \in DomainStates
         /\ Accepts(t, a, domain')
  BY DEF Apply

(* Leaving the foreground begins a park of its application.                *)
LEMMA ParkBegins ==
  ASSUME domain.at = "Foreground", Apply("SinglePower", NoApp)
  PROVE  domain' = On("Parking", domain.app)
  BY ApplyMoves DEF Accepts, PlainEdges, AppEdges, AppDomains

(* A launch from Home names its application.                               *)
LEMMA LaunchBegins ==
  ASSUME NEW a, domain.at = "Manager", Apply("Launch", a)
  PROVE  domain' = On("Launching", a)
  BY ApplyMoves DEF Accepts, PlainEdges, AppEdges, AppDomains

(* What ends in Home.                                                      *)
LEMMA ToManager ==
  ASSUME NEW a, NEW t \in {"AppParked", "AppExited", "AppCrashed", "ManagedReady"}, Apply(t, a)
  PROVE  domain' = In("Manager")
<1>1. domain'.at = "Manager" /\ domain' \in DomainStates
  BY ApplyMoves DEF Accepts, PlainEdges, AppEdges, AppDomains
<1> QED BY <1>1, DomainIs DEF PlainDomains

(* What ends in the foreground.                                            *)
LEMMA ToForeground ==
  ASSUME NEW a, NEW t \in {"AppRestored", "AppReady"}, Apply(t, a)
  PROVE  domain' = On("Foreground", a) /\ a \in App
<1>1. domain'.at = "Foreground" /\ domain'.app = a /\ domain' \in DomainStates
  BY ApplyMoves DEF Accepts, PlainEdges, AppEdges, AppDomains
<1> QED BY <1>1, DomainIs DEF AppDomains

(* What ends in the stock system.                                          *)
LEMMA ToSystem ==
  ASSUME Apply("SystemReady", NoApp)
  PROVE  domain' = In("System")
<1>1. domain'.at = "System" /\ domain' \in DomainStates
  BY ApplyMoves DEF Accepts, PlainEdges, AppEdges, AppDomains
<1> QED BY <1>1, DomainIs DEF PlainDomains

(* What leaves the stock system.                                           *)
LEMMA ToEntering ==
  ASSUME domain.at = "System", Apply("TriplePower", NoApp)
  PROVE  domain' = In("EnteringManaged")
<1>1. domain'.at = "EnteringManaged" /\ domain' \in DomainStates
  BY ApplyMoves DEF Accepts, PlainEdges, AppEdges, AppDomains
<1> QED BY <1>1, DomainIs DEF PlainDomains

(* What a step of a thread makes of its place, its job and the lock.        *)
LEMMA Goes ==
  ASSUME TypeOK, NEW t \in Threads, NEW label \in Labels, pc' = [pc EXCEPT ![t] = label]
  PROVE  /\ pc' \in [Threads -> Labels] /\ pc'[t] = label
         /\ \A u \in Threads \ {t} : pc'[u] = pc[u]
  BY DEF TypeOK

(* A handler that leaves gives the lock back, if it had it.                *)
LEMMA Leaves ==
  ASSUME TypeOK, LockInv, NEW t \in Threads, NEW label \in Labels \ Holding,
         Leave(t, label), t = "package" => label \in PackageLabels
  PROVE  /\ LockInv' /\ pc'[t] = label
         /\ pc' \in [Threads -> Labels] /\ job' \in [Threads -> Jobs]
         /\ lock' \in Threads \cup {"free"} /\ lock' \in {lock, "free"}
         /\ \A u \in Threads \ {t} : pc'[u] = pc[u] /\ job'[u] = job[u]
<1>1. /\ pc' \in [Threads -> Labels] /\ pc'[t] = label
      /\ \A u \in Threads \ {t} : pc'[u] = pc[u]
  BY Goes DEF Leave
<1>2. NoJob \in Jobs /\ NoJob.kind = "none"
  BY DEF NoJob, Jobs
<1>3. /\ job' \in [Threads -> Jobs] /\ job'[t] = NoJob
      /\ \A u \in Threads \ {t} : job'[u] = job[u]
  BY <1>2 DEF Leave, TypeOK, Jobs
<1>4. lock' = (IF lock = t THEN "free" ELSE lock) /\ lock \in Threads \cup {"free"}
  BY DEF Leave, TypeOK
<1>5. LockInv'
  BY <1>1, <1>2, <1>3, <1>4 DEF LockInv, Threads
<1> QED BY <1>1, <1>3, <1>4, <1>5

(* The two ways a handler ends.                                            *)
LEMMA Finishes ==
  ASSUME TypeOK, LockInv, NEW t \in Threads, Finish(t) \/ Fail(t)
  PROVE  /\ LockInv' /\ pc'[t] \notin Holding
         /\ Finish(t) => pc'[t] = "idle"
         /\ Fail(t) => pc'[t] = IF t = "loop" THEN "recover" ELSE "idle"
         /\ pc' \in [Threads -> Labels] /\ job' \in [Threads -> Jobs]
         /\ lock' \in Threads \cup {"free"}
         /\ \A u \in Threads \ {t} : pc'[u] = pc[u] /\ job'[u] = job[u]
<1>1. {"idle", "recover"} \subseteq Labels \ Holding /\ "idle" \in PackageLabels
  BY DEF Labels, Holding, PackageLabels, ParkLabels, LaunchLabels, CloseLabels
<1>2. CASE Finish(t)
  BY <1>1, <1>2, Leaves DEF Finish, Fail, Leave
<1>3. CASE Fail(t)
  <2>1. CASE t = "loop"
    <3>1. Leave(t, "recover") /\ t # "package"
      BY <1>3, <2>1 DEF Fail
    <3> QED BY <1>1, <1>3, <2>1, <3>1, Leaves DEF Finish, Leave
  <2>2. CASE t = "package"
    <3>1. Leave(t, "idle") /\ t # "loop"
      BY <1>3, <2>2 DEF Fail
    <3> QED BY <1>1, <1>3, <2>2, <3>1, Leaves
  <2> QED BY <2>1, <2>2 DEF Threads
<1> QED BY <1>2, <1>3

(* A handler that goes on neither takes nor gives back the lock.           *)
LEMMA GoesOn ==
  ASSUME TypeOK, LockInv, NEW t \in Threads, NEW label \in Labels, Goto(t, label),
         pc[t] \in Holding <=> label \in Holding, t = "package" => label \in PackageLabels
  PROVE  /\ LockInv' /\ pc'[t] = label
         /\ pc' \in [Threads -> Labels] /\ UNCHANGED <<lock, job>>
         /\ \A u \in Threads \ {t} : pc'[u] = pc[u]
<1>1. /\ pc' \in [Threads -> Labels] /\ pc'[t] = label
      /\ \A u \in Threads \ {t} : pc'[u] = pc[u]
  BY Goes DEF Goto
<1>2. UNCHANGED <<lock, job>>
  BY DEF Goto
<1>3. \A u \in Threads : pc'[u] \in Holding <=> pc[u] \in Holding
  BY <1>1
<1>4. pc'["package"] \in PackageLabels
  BY <1>1 DEF LockInv, Threads
<1>5. LockInv'
  BY <1>2, <1>3, <1>4 DEF LockInv
<1> QED BY <1>1, <1>2, <1>5

(* A handler that takes the lock is alone with it.                         *)
LEMMA Acquires ==
  ASSUME TypeOK, LockInv, LockFree, NEW t \in Threads, NEW label \in Labels \cap Holding,
         Acquire(t, label), t = "package" => label \in PackageLabels,
         job' \in [Threads -> Jobs],
         \A u \in Threads : job'[u].kind = job[u].kind
  PROVE  /\ LockInv' /\ pc'[t] = label /\ lock' = t
         /\ pc' \in [Threads -> Labels]
         /\ \A u \in Threads \ {t} : pc'[u] = pc[u] /\ pc[u] \notin Holding
<1>1. /\ pc' \in [Threads -> Labels] /\ pc'[t] = label
      /\ \A u \in Threads \ {t} : pc'[u] = pc[u]
  BY Goes DEF Acquire
<1>2. lock' = t /\ lock = "free"
  BY DEF Acquire, LockFree
<1>3. \A u \in Threads : pc[u] \notin Holding
  BY <1>2 DEF LockInv, Threads
<1>4. LockInv'
  BY <1>1, <1>2, <1>3 DEF LockInv, Threads
<1> QED BY <1>1, <1>2, <1>3, <1>4

(* While one thread is inside a transition the other is not.                *)
LEMMA Alone ==
  ASSUME LockInv, NEW t \in Threads, pc[t] \in Holding
  PROVE  \A u \in Threads \ {t} : pc[u] \notin Holding
  BY DEF LockInv

(* Outside the transitions the loop relies on nothing.                     *)
LEMMA LoopOut == pc'["loop"] \notin Holding => LoopInv'
  BY DEF LoopInv, Holding, ParkLabels, LaunchLabels

(* Nor does a thread that closes or restores.                              *)
LEMMA HeldOut == \A t \in Threads : pc'[t] \notin Holding => HeldInv(t)'
  BY DEF HeldInv, Holding, CloseLabels

(* The units and the stock system, for a step that freezes and starts       *)
(* nothing and gives the screen to no application.                          *)
LEMMA UnitsKeep ==
  ASSUME FrozenInv, StockRunsNothing,
         \A a \in App :
           /\ unit'[a] = "frozen" => unit[a] = "frozen" /\ tracked'[a] \in {tracked[a], "none"}
           /\ unit[a] = "off" /\ tracked[a] = "none" => unit'[a] = "off" /\ tracked'[a] = "none",
         screen' \in {screen, "home", "none"},
         domain' = domain \/ domain'.at \notin {"System", "Foreground"}
  PROVE  FrozenInv' /\ StockRunsNothing'
<1>1. FrozenInv'
  BY OwnersAssumption, OnIs DEF FrozenInv, OwnersAssumption
<1>2. StockRunsNothing'
  BY DEF StockRunsNothing
<1> QED BY <1>1, <1>2

(* A thread that the step does not concern keeps what it relies on.         *)
LEMMA OtherStays ==
  ASSUME DInv, UNCHANGED <<domain, tracked>>, screen' \in {screen, "home", "none"},
         \A a \in App : /\ unit'[a] = "frozen" => unit[a] = "frozen"
                        /\ unit[a] = "off" => unit'[a] = "off"
  PROVE  /\ pc'["loop"] = pc["loop"] /\ job'["loop"] = job["loop"] => LoopInv'
         /\ \A t \in Threads : pc'[t] = pc[t] /\ job'[t] = job[t] => HeldInv(t)'
<1>1. domain \in DomainStates /\ LoopInv
  BY DEF DInv, TypeOK, ManagerTypeOK
<1>2. /\ pc["loop"] \in ParkLabels => job["loop"].target \in App
      /\ pc["loop"] \in LaunchLabels => job["loop"].app \in App
  BY <1>1, DomainIs, OnIs DEF LoopInv, AppDomains
<1>3. ASSUME pc'["loop"] = pc["loop"], job'["loop"] = job["loop"]
      PROVE  LoopInv'
  BY <1>1, <1>2, <1>3, OwnersAssumption
  DEF LoopInv, OwnersAssumption, ParkLabels, LaunchLabels
<1>4. ASSUME NEW t \in Threads, pc'[t] = pc[t], job'[t] = job[t]
      PROVE  HeldInv(t)'
  BY <1>4 DEF DInv, HeldInv, Threads
<1> QED BY <1>3, <1>4

(* A step outside the transitions.                                          *)
LEMMA Bystander ==
  ASSUME DInv, TypeOK', LockInv', UNCHANGED <<domain, tracked>>,
         screen' \in {screen, "home", "none"},
         \A a \in App : /\ unit'[a] = "frozen" => unit[a] = "frozen"
                        /\ unit[a] = "off" => unit'[a] = "off",
         \A t \in Threads : \/ pc'[t] \notin Holding
                            \/ pc'[t] = pc[t] /\ job'[t] = job[t]
  PROVE  DInv'
<1>1. FrozenInv' /\ StockRunsNothing'
  BY UnitsKeep DEF DInv
<1>2. LoopInv'
  BY OtherStays, LoopOut DEF Threads
<1>3. HeldInv("loop")' /\ HeldInv("package")'
  BY OtherStays, HeldOut DEF Threads
<1> QED BY <1>1, <1>2, <1>3 DEF DInv

(* The labels outside the lock.                                            *)
LEMMA OutsideIs ==
  /\ {"idle", "route", "recover", "exited", "park", "prepare", "close", "reload",
      "reloadShow", "enter", "restore"} \subseteq Labels \ Holding
  /\ {"idle", "close", "reload", "reloadShow", "restore"} \subseteq PackageLabels
  BY DEF Labels, Holding, PackageLabels, ParkLabels, LaunchLabels, CloseLabels

(* The type invariant, with the jobs under their name.                     *)
LEMMA TypeParts ==
  TypeOK <=>
    /\ ManagerTypeOK
    /\ unit \in [App -> {"off", "run", "frozen", "dying", "ending"}]
    /\ tracked \in [App -> Policies \union {"none"}]
    /\ resident \in [App -> BOOLEAN]
    /\ report \in [App -> (Ages \X Sources) \union {NoReport}]
    /\ exits \in [App -> SUBSET Ages]
    /\ bridge \in [App -> Ages \union {"none"}]
    /\ screen \in App \union {"none", "home"}
    /\ lock \in Threads \union {"free"}
    /\ pc \in [Threads -> Labels]
    /\ job \in [Threads -> Jobs]
    /\ fresh \in BOOLEAN
    /\ fence \in {"pending", "cancelled", "committing"}
  BY DEF TypeOK, Jobs

(* The loop takes an event.                                                *)
LEMMA TakeKeeps ==
  ASSUME DInv, NEW kind \in AppKinds \cup PlainKinds, NEW a \in App \cup {NoApp},
         Take(kind, a)
  PROVE  DInv'
<1>1. /\ pc["loop"] = "idle" /\ pc' = [pc EXCEPT !["loop"] = "route"]
      /\ job' = [job EXCEPT !["loop"] = [NoJob EXCEPT !.kind = kind, !.app = a]]
      /\ fresh' \in BOOLEAN /\ fence' = "pending"
      /\ UNCHANGED <<domain, lastApp, unit, tracked, resident, report, exits, bridge, screen,
                     lock>>
  BY DEF Take, managerVars, appVars
<1>2. TypeOK /\ LockInv
  BY DEF DInv
<1>3. [NoJob EXCEPT !.kind = kind, !.app = a] \in Jobs
  BY DEF NoJob, Jobs
<1>4. /\ job' \in [Threads -> Jobs] /\ job'["package"] = job["package"]
      /\ pc' \in [Threads -> Labels] /\ pc'["loop"] = "route" /\ pc'["package"] = pc["package"]
  BY <1>1, <1>2, <1>3, Goes, OutsideIs, TypeParts DEF Threads
<1>5. TypeOK'
  BY <1>1, <1>2, <1>4 DEF TypeOK, Jobs, ManagerTypeOK
<1>6. LockInv'
  BY <1>1, <1>2, <1>4, OutsideIs DEF LockInv, Threads
<1> QED BY <1>1, <1>4, <1>5, <1>6, OutsideIs, Bystander DEF Threads

(* A handler that ends, or goes on, outside the lock, with at most Home on  *)
(* the screen.                                                             *)
LEMMA StepsOut ==
  ASSUME DInv, NEW t \in Threads, pc[t] \notin Holding,
         UNCHANGED <<managerVars, tracked, report, exits, bridge, loopVars>>,
         unit' \in [App -> {"off", "run", "frozen", "dying", "ending"}],
         resident' \in [App -> BOOLEAN],
         \A a \in App : /\ unit'[a] = "frozen" => unit[a] = "frozen"
                        /\ unit[a] = "off" => unit'[a] = "off",
         screen' \in {screen, "home", "none"},
         \/ Finish(t) \/ Fail(t)
         \/ Goto(t, "reloadShow") \/ Goto(t, "restore")
         \/ t = "loop" /\ \E l \in {"park", "prepare", "enter", "close", "reload"} : Goto(t, l)
  PROVE  DInv'
<1>1. TypeOK /\ LockInv
  BY DEF DInv
<1>2. ASSUME NEW l \in Labels \ Holding, Goto(t, l), t = "package" => l \in PackageLabels
      PROVE  /\ LockInv' /\ pc' \in [Threads -> Labels] /\ job' \in [Threads -> Jobs]
             /\ lock' \in Threads \cup {"free"} /\ pc'[t] \notin Holding
             /\ \A u \in Threads \ {t} : pc'[u] = pc[u] /\ job'[u] = job[u]
  BY <1>1, <1>2, GoesOn, TypeParts
<1>3. /\ LockInv' /\ pc' \in [Threads -> Labels] /\ job' \in [Threads -> Jobs]
      /\ lock' \in Threads \cup {"free"} /\ pc'[t] \notin Holding
      /\ \A u \in Threads \ {t} : pc'[u] = pc[u] /\ job'[u] = job[u]
  <2>1. CASE Finish(t) \/ Fail(t)
    BY <1>1, <2>1, Finishes
  <2>2. CASE Goto(t, "reloadShow") \/ Goto(t, "restore")
    BY <1>2, <2>2, OutsideIs
  <2>3. CASE t = "loop" /\ \E l \in {"park", "prepare", "enter", "close", "reload"} : Goto(t, l)
    BY <1>2, <2>3, OutsideIs
  <2> QED BY <2>1, <2>2, <2>3
<1>4. TypeOK'
  BY <1>1, <1>3 DEF TypeOK, Jobs, ManagerTypeOK, managerVars, loopVars
<1> QED BY <1>3, <1>4, Bystander DEF managerVars

(* Nothing of the state but a thread's place and job changes.               *)
LEMMA Repoints ==
  ASSUME DInv, NEW t \in Threads, pc[t] \notin Holding,
         UNCHANGED <<managerVars, appVars, loopVars>>, screen' \in {screen, "home"},
         UNCHANGED lock,
         NEW l \in Labels \ Holding, pc' = [pc EXCEPT ![t] = l],
         NEW j \in Jobs, job' = [job EXCEPT ![t] = j],
         t = "package" => l \in PackageLabels /\ j.kind = "Package"
  PROVE  DInv'
<1>1. TypeOK /\ LockInv
  BY DEF DInv
<1>2. /\ pc' \in [Threads -> Labels] /\ pc'[t] = l
      /\ \A u \in Threads \ {t} : pc'[u] = pc[u]
  BY <1>1, Goes
<1>3. /\ job' \in [Threads -> Jobs] /\ job'[t] = j
      /\ \A u \in Threads \ {t} : job'[u] = job[u]
  BY <1>1, TypeParts
<1>4. TypeOK'
  BY <1>1, <1>2, <1>3 DEF TypeOK, Jobs, ManagerTypeOK, managerVars, appVars, loopVars
<1>5. LockInv'
  BY <1>1, <1>2, <1>3 DEF LockInv, Threads
<1> QED BY <1>2, <1>3, <1>4, <1>5, Bystander DEF managerVars, appVars

(* A step that leaves the threads where they are and takes no unit up.      *)
LEMMA Around ==
  ASSUME DInv, TypeOK', UNCHANGED <<managerVars, tracked, screen, lock, pc, job>>,
         \A a \in App : /\ unit'[a] = "frozen" => unit[a] = "frozen"
                        /\ unit[a] = "off" => unit'[a] = "off"
  PROVE  DInv'
<1>1. LockInv'
  BY DEF DInv, LockInv
<1> QED BY <1>1, Bystander DEF managerVars

(* A request is cancelled, overtaken or given up.                          *)
LEMMA RequestsKeep ==
  ASSUME DInv, TakeCancelled \/ Interrupt \/ CancelRequest
  PROVE  DInv'
<1>1. TypeOK
  BY DEF DInv
<1>2. CASE TakeCancelled
  <2>1. /\ pc["loop"] = "idle" /\ Fail("loop")
        /\ UNCHANGED <<managerVars, unit, tracked, resident, report, exits, bridge, screen,
                       loopVars>>
    BY <1>2 DEF TakeCancelled, appVars
  <2>2. /\ unit' \in [App -> {"off", "run", "frozen", "dying", "ending"}]
        /\ resident' \in [App -> BOOLEAN]
    BY <1>1, <2>1 DEF TypeOK
  <2> QED BY <2>1, <2>2, StepsOut, OutsideIs DEF Threads
<1>3. CASE Interrupt \/ CancelRequest
  <2>1. /\ UNCHANGED <<managerVars, unit, tracked, resident, report, exits, bridge, screen,
                       lock, pc, job>>
        /\ fresh' \in {fresh, FALSE} /\ fence' \in {fence, "cancelled"}
    BY <1>3 DEF Interrupt, CancelRequest, appVars
  <2>2. TypeOK'
    BY <1>1, <2>1 DEF TypeOK, ManagerTypeOK, managerVars
  <2> QED BY <2>1, <2>2, Around
<1> QED BY <1>2, <1>3

(* The loop decides to park the application in the foreground.             *)
LEMMA ParkTargetKeeps ==
  ASSUME DInv, ParkTarget("park"), pc["loop"] = "route", domain.at = "Foreground",
         UNCHANGED <<managerVars, appVars, screen, loopVars>>
  PROVE  DInv'
<1>1. TypeOK /\ domain \in DomainStates
  BY DEF DInv, TypeOK, ManagerTypeOK
<1>2. domain.app \in App /\ job["loop"] \in Jobs
  BY <1>1, DomainIs, TypeParts DEF AppDomains, Threads
<1> DEFINE j == [job["loop"] EXCEPT !.target = domain.app]
<1>3. j \in Jobs
  BY <1>2 DEF Jobs
<1>4. /\ pc' = [pc EXCEPT !["loop"] = "park"] /\ UNCHANGED lock
      /\ job' = [job EXCEPT !["loop"] = j]
  BY DEF ParkTarget
<1> HIDE DEF j
<1> QED BY <1>3, <1>4, Repoints, OutsideIs DEF Threads

(* Routing an event keeps the invariant.                                   *)
LEMMA RouteKeeps == DInv /\ Route => DInv'
<1> SUFFICES ASSUME DInv, Route PROVE DInv'
  OBVIOUS
<1>1. /\ pc["loop"] = "route"
      /\ UNCHANGED <<managerVars, unit, tracked, resident, report, exits, bridge, loopVars>>
      /\ UNCHANGED <<managerVars, appVars, loopVars>>
  BY DEF Route, appVars
<1>2. TypeOK
  BY DEF DInv
<1>3. /\ unit' \in [App -> {"off", "run", "frozen", "dying", "ending"}]
      /\ resident' \in [App -> BOOLEAN]
  BY <1>1, <1>2 DEF TypeOK
<1>4. ASSUME screen' \in {screen, "home"},
             \/ Finish("loop") \/ Fail("loop")
             \/ \E l \in {"park", "prepare", "enter", "close", "reload", "restore"} :
                  Goto("loop", l)
      PROVE  DInv'
  BY <1>1, <1>3, <1>4, StepsOut, OutsideIs DEF Threads
<1>5. ASSUME domain.at = "Foreground", ParkTarget("park"), UNCHANGED screen
      PROVE  DInv'
  BY <1>1, <1>5, ParkTargetKeeps
<1>6. ASSUME NEW a, LaunchRoute(a), UNCHANGED screen
      PROVE  DInv'
  BY <1>4, <1>5, <1>6 DEF LaunchRoute
<1>7. ASSUME NEW kind, PowerRoute(kind), UNCHANGED screen
      PROVE  DInv'
  <2>1. ASSUME lastApp # NoApp, pc' = [pc EXCEPT !["loop"] = "prepare"],
               job' = [job EXCEPT !["loop"].app = lastApp], UNCHANGED lock
        PROVE  DInv'
    <3> DEFINE j == [job["loop"] EXCEPT !.app = lastApp]
    <3>1. j \in Jobs
      BY <1>2, TypeParts DEF Jobs, ManagerTypeOK, Threads
    <3>2. job' = [job EXCEPT !["loop"] = j]
      BY <2>1
    <3> HIDE DEF j
    <3> QED BY <1>1, <1>7, <2>1, <3>1, <3>2, Repoints, OutsideIs DEF Threads
  <2> QED BY <1>4, <1>5, <1>7, <2>1 DEF PowerRoute
<1>8. EnsureHome => DInv'
  BY <1>4 DEF EnsureHome, ShownOrNot
<1> QED BY <1>4, <1>6, <1>7, <1>8 DEF Route

(* recover_after_failure keeps the invariant.                              *)
LEMMA RecoverKeeps == DInv /\ Recover => DInv'
<1> SUFFICES ASSUME DInv, Recover PROVE DInv'
  OBVIOUS
<1>1. /\ pc["loop"] = "recover" /\ screen' \in {screen, "home"}
      /\ UNCHANGED <<managerVars, unit, tracked, resident, report, exits, bridge, loopVars>>
      /\ UNCHANGED <<managerVars, appVars, loopVars>>
      /\ Finish("loop") \/ Recovery("restore")
  BY DEF Recover, appVars, ShownOrNot
<1>2. TypeOK
  BY DEF DInv
<1>3. CASE Finish("loop")
  <2>1. /\ unit' \in [App -> {"off", "run", "frozen", "dying", "ending"}]
        /\ resident' \in [App -> BOOLEAN]
    BY <1>1, <1>2 DEF TypeOK
  <2> QED BY <1>1, <1>3, <2>1, StepsOut, OutsideIs DEF Threads
<1>4. CASE Recovery("restore")
  <2> DEFINE j == [NoJob EXCEPT !.kind = "Recovery"]
  <2>1. j \in Jobs
    BY DEF Jobs, NoJob
  <2>2. /\ pc' = [pc EXCEPT !["loop"] = "restore"] /\ UNCHANGED lock
        /\ job' = [job EXCEPT !["loop"] = j]
    BY <1>4 DEF Recovery
  <2> HIDE DEF j
  <2> QED BY <1>1, <2>1, <2>2, Repoints, OutsideIs DEF Threads
<1> QED BY <1>1, <1>3, <1>4

(* The reload of the manifests keeps it.                                   *)
LEMMA ReloadsKeep ==
  ASSUME DInv, NEW t \in Threads, Reload(t) \/ ReloadShow(t)
  PROVE  DInv'
<1>1. /\ pc[t] \in {"reload", "reloadShow"} /\ screen' \in {screen, "home"}
      /\ UNCHANGED <<managerVars, unit, tracked, resident, report, exits, bridge, loopVars>>
      /\ Finish(t) \/ Fail(t) \/ Goto(t, "reloadShow") \/ Goto(t, "restore")
  BY DEF Reload, ReloadShow, appVars
<1>2. /\ unit' \in [App -> {"off", "run", "frozen", "dying", "ending"}]
      /\ resident' \in [App -> BOOLEAN]
  BY <1>1 DEF TypeOK, DInv
<1> QED BY <1>1, <1>2, StepsOut, OutsideIs

(* A package request that comes in keeps it.                               *)
LEMMA StartPackageKeeps ==
  ASSUME DInv, NEW a \in App, StartPackage(a)
  PROVE  DInv'
<1> DEFINE j == [NoJob EXCEPT !.kind = "Package", !.app = a]
<1>1. /\ pc["package"] = "idle" /\ pc' = [pc EXCEPT !["package"] = "close"]
      /\ job' = [job EXCEPT !["package"] = j]
      /\ UNCHANGED <<managerVars, appVars, screen, lock, loopVars>>
  BY DEF StartPackage
<1>2. j \in Jobs /\ j.kind = "Package"
  BY DEF Jobs, NoJob
<1> HIDE DEF j
<1> QED BY <1>1, <1>2, Repoints, OutsideIs DEF Threads

(* A reserved report and the event it queues have their types.              *)
LEMMA ReserveType ==
  ASSUME TypeOK, NEW as \in SUBSET App, NEW age \in Ages, Reserve(as, age)
  PROVE  /\ report' \in [App -> (Ages \X Sources) \cup {NoReport}]
         /\ exits' \in [App -> SUBSET Ages]
  BY DEF TypeOK, Reserve, Sources

(* Whatever the applications and their runners do keeps it.                *)
LEMMA OutsideKeeps ==
  ASSUME DInv, NEW a \in App, Die(a) \/ Runner(a)
  PROVE  DInv'
<1>1. TypeOK
  BY DEF DInv
<1>2. /\ UNCHANGED <<managerVars, tracked, resident, screen, lock, pc, job, loopVars>>
      /\ \/ unit' = unit
         \/ unit[a] \in {"run", "frozen", "dying"} /\ unit' = [unit EXCEPT ![a] = "dying"]
         \/ unit[a] \in {"run", "frozen", "dying"} /\ unit' = [unit EXCEPT ![a] = "ending"]
         \/ unit' = [unit EXCEPT ![a] = "off"]
      /\ bridge' \in {bridge, [bridge EXCEPT ![a] = "none"], [bridge EXCEPT ![a] = "cur"]}
      /\ UNCHANGED <<report, exits>> \/ \E age \in Ages : Reserve({a}, age)
  BY DEF Die, Runner, RunnerReports, UnitEnds, BridgeReports, Ages
<1>3. /\ report' \in [App -> (Ages \X Sources) \cup {NoReport}]
      /\ exits' \in [App -> SUBSET Ages]
  BY <1>1, <1>2, ReserveType DEF TypeOK
<1>4. /\ unit' \in [App -> {"off", "run", "frozen", "dying", "ending"}]
      /\ \A b \in App : /\ unit'[b] = "frozen" => unit[b] = "frozen"
                        /\ unit[b] = "off" => unit'[b] = "off"
  BY <1>1, <1>2 DEF TypeOK
<1>5. bridge' \in [App -> Ages \cup {"none"}]
  BY <1>1, <1>2 DEF TypeOK, Ages
<1>6. TypeOK'
  BY <1>1, <1>2, <1>3, <1>4, <1>5 DEF TypeOK, ManagerTypeOK, managerVars, loopVars
<1> QED BY <1>2, <1>4, <1>6, Around

(* A thread inside a transition, while the other is outside.                *)
LEMMA StepIn ==
  ASSUME TypeOK', LockInv', FrozenInv', StockRunsNothing',
         NEW t \in Threads, \A u \in Threads \ {t} : pc'[u] \notin Holding,
         t = "loop" => LoopInv', HeldInv(t)'
  PROVE  DInv'
<1>1. CASE t = "loop"
  BY <1>1, HeldOut DEF DInv, Threads
<1>2. CASE t = "package"
  BY <1>2, HeldOut, LoopOut DEF DInv, Threads
<1> QED BY <1>1, <1>2 DEF Threads

(* Or both are outside after the step.                                     *)
LEMMA StepOff ==
  ASSUME TypeOK', LockInv', FrozenInv', StockRunsNothing',
         \A u \in Threads : pc'[u] \notin Holding
  PROVE  DInv'
  BY HeldOut, LoopOut DEF DInv, Threads

(* The labels inside the lock.                                             *)
LEMMA InsideIs ==
  /\ Holding \subseteq Labels
  /\ {"askBackground", "handOff", "freeze", "recoverPark", "askForeground",
      "restoreForeground", "forceStop"} \subseteq Holding
  /\ {"register", "start", "await", "commit", "activate", "rollback"} \subseteq Holding
  /\ {"closeThaw", "closeReveal", "closeStop", "entering", "stopAll"} \subseteq Holding
  /\ {"closeThaw", "closeReveal", "closeStop", "stopAll"} \subseteq PackageLabels
  BY DEF Labels, Holding, PackageLabels, ParkLabels, LaunchLabels, CloseLabels

(* A thread goes on inside its transition.                                 *)
LEMMA GoesOnInside ==
  ASSUME DInv, NEW t \in Threads, pc[t] \in Holding, NEW label \in Holding, Goto(t, label),
         t = "package" => label \in PackageLabels
  PROVE  /\ LockInv' /\ pc'[t] = label /\ pc' \in [Threads -> Labels] /\ UNCHANGED <<lock, job>>
         /\ \A u \in Threads \ {t} : pc'[u] \notin Holding
<1>1. TypeOK /\ LockInv /\ label \in Labels
  BY InsideIs DEF DInv
<1>2. /\ LockInv' /\ pc'[t] = label /\ pc' \in [Threads -> Labels] /\ UNCHANGED <<lock, job>>
      /\ \A u \in Threads \ {t} : pc'[u] = pc[u]
  BY <1>1, GoesOn
<1> QED BY <1>1, <1>2, Alone

(* A thread ends its transition.                                           *)
LEMMA EndsInside ==
  ASSUME DInv, NEW t \in Threads, pc[t] \in Holding \/ LockFree, Finish(t) \/ Fail(t)
  PROVE  /\ LockInv' /\ pc' \in [Threads -> Labels] /\ job' \in [Threads -> Jobs]
         /\ lock' \in Threads \cup {"free"}
         /\ \A u \in Threads : pc'[u] \notin Holding
<1>1. TypeOK /\ LockInv
  BY DEF DInv
<1>2. \A u \in Threads \ {t} : pc[u] \notin Holding
  BY <1>1, Alone DEF LockFree, LockInv, Threads
<1> QED BY <1>1, <1>2, Finishes

(* What a stop that fails makes of the units.                               *)
LEMMA RefusedStop ==
  ASSUME TypeOK, NEW a, StopRefused(a)
  PROVE  /\ unit' \in [App -> {"off", "run", "frozen", "dying", "ending"}]
         /\ UNCHANGED resident
         /\ \A b \in App : /\ unit'[b] = "frozen" => unit[b] = "frozen"
                           /\ unit[b] = "off" => unit'[b] = "off"
  BY DEF TypeOK, StopRefused, HalfStopped

(* What a forced stop that works makes of them.                             *)
LEMMA ColdStop ==
  ASSUME TypeOK, NEW a, StoppedCold(a)
  PROVE  /\ unit' \in [App -> {"off", "run", "frozen", "dying", "ending"}]
         /\ resident' \in [App -> BOOLEAN]
         /\ \A b \in App : unit'[b] \in {unit[b], "off"}
         /\ a \in App => unit'[a] = "off"
  BY DEF TypeOK, StoppedCold

(* What clear_runtime_tracking makes of the registration.                  *)
LEMMA ForgetType ==
  ASSUME TypeOK, NEW a, Forget(a)
  PROVE  /\ tracked' \in [App -> Policies \cup {"none"}]
         /\ report' \in [App -> (Ages \X Sources) \cup {NoReport}]
         /\ \A b \in App : tracked'[b] \in {tracked[b], "none"}
  BY DEF TypeOK, Forget

-----------------------------------------------------------------------------
(* A handler that takes the lock, or gives up where it would.               *)
LEMMA BeginParkKeeps == DInv /\ BeginPark => DInv'
<1> SUFFICES ASSUME DInv, BeginPark PROVE DInv'
  OBVIOUS
<1> DEFINE a == job["loop"].target
<1>1. /\ pc["loop"] = "park" /\ LockFree
      /\ UNCHANGED <<unit, tracked, resident, report, exits, bridge, screen, loopVars>>
      /\ \/ /\ domain = On("Foreground", a) /\ tracked[a] # "none"
            /\ Apply("SinglePower", NoApp) /\ Acquire("loop", "askBackground") /\ UNCHANGED job
         \/ Fail("loop") /\ UNCHANGED managerVars
  BY DEF BeginPark, appVars
<1>2. TypeOK /\ LockInv /\ FrozenInv /\ StockRunsNothing
  BY DEF DInv
<1>3. CASE Fail("loop") /\ UNCHANGED managerVars
  <2>1. /\ unit' \in [App -> {"off", "run", "frozen", "dying", "ending"}]
        /\ resident' \in [App -> BOOLEAN]
    BY <1>1, <1>2 DEF TypeOK
  <2> QED BY <1>1, <1>3, <2>1, StepsOut, OutsideIs DEF Threads
<1>4. CASE /\ domain = On("Foreground", a) /\ tracked[a] # "none"
           /\ Apply("SinglePower", NoApp) /\ Acquire("loop", "askBackground") /\ UNCHANGED job
  <2>1. domain' = On("Parking", a) /\ ManagerTypeOK' /\ a \in App
    <3>1. domain' = On("Parking", a) /\ ManagerTypeOK'
      BY <1>2, <1>4, ParkBegins, OnIs, ApplyType DEF TypeOK
    <3>2. domain \in DomainStates /\ domain.at \in AppDomains /\ domain.app = a
      BY <1>2, <1>4, OnIs DEF TypeOK, ManagerTypeOK, AppDomains
    <3> QED BY <3>1, <3>2, DomainIs
  <2>2. /\ LockInv' /\ pc'["loop"] = "askBackground" /\ lock' = "loop"
        /\ pc' \in [Threads -> Labels]
        /\ \A u \in Threads \ {"loop"} : pc'[u] \notin Holding
    <3>1. job' \in [Threads -> Jobs]
      BY <1>2, <1>4, TypeParts
    <3> QED BY <1>1, <1>2, <1>4, <3>1, Acquires, InsideIs DEF Threads
  <2>3. TypeOK'
    BY <1>1, <1>2, <1>4, <2>1, <2>2 DEF TypeOK, Threads, loopVars
  <2>4. FrozenInv' /\ StockRunsNothing'
    BY <1>1, <1>2, <2>1, OnIs, UnitsKeep
  <2>5. unit[a] # "frozen"
    BY <1>2, <1>4, <2>1 DEF FrozenInv
  <2>6. LoopInv'
    BY <1>1, <1>4, <2>1, <2>2, <2>5 DEF LoopInv, ParkLabels, LaunchLabels
  <2>7. HeldInv("loop")'
    BY <2>2 DEF HeldInv
  <2> QED BY <2>2, <2>3, <2>4, <2>6, <2>7, StepIn DEF Threads
<1> QED BY <1>1, <1>3, <1>4

(* Entering Home from stock takes the lock.                                *)
LEMMA EnterManagerKeeps == DInv /\ EnterManager => DInv'
<1> SUFFICES ASSUME DInv, EnterManager PROVE DInv'
  OBVIOUS
<1>1. /\ pc["loop"] = "enter" /\ LockFree
      /\ UNCHANGED <<unit, tracked, resident, report, exits, bridge, screen, loopVars>>
      /\ \/ /\ domain.at = "System" /\ Apply("TriplePower", NoApp)
            /\ Acquire("loop", "entering") /\ UNCHANGED job
         \/ Fail("loop") /\ UNCHANGED managerVars
  BY DEF EnterManager, appVars
<1>2. TypeOK /\ LockInv /\ FrozenInv /\ StockRunsNothing
  BY DEF DInv
<1>3. CASE Fail("loop") /\ UNCHANGED managerVars
  <2>1. /\ unit' \in [App -> {"off", "run", "frozen", "dying", "ending"}]
        /\ resident' \in [App -> BOOLEAN]
    BY <1>1, <1>2 DEF TypeOK
  <2> QED BY <1>1, <1>3, <2>1, StepsOut, OutsideIs DEF Threads
<1>4. CASE /\ domain.at = "System" /\ Apply("TriplePower", NoApp)
           /\ Acquire("loop", "entering") /\ UNCHANGED job
  <2>1. domain' = In("EnteringManaged") /\ ManagerTypeOK'
    BY <1>2, <1>4, ToEntering, ApplyType DEF TypeOK
  <2>2. /\ LockInv' /\ pc'["loop"] = "entering" /\ lock' = "loop"
        /\ pc' \in [Threads -> Labels]
        /\ \A u \in Threads \ {"loop"} : pc'[u] \notin Holding
    <3>1. job' \in [Threads -> Jobs]
      BY <1>2, <1>4, TypeParts
    <3> QED BY <1>1, <1>2, <1>4, <3>1, Acquires, InsideIs DEF Threads
  <2>3. TypeOK'
    BY <1>1, <1>2, <1>4, <2>1, <2>2 DEF TypeOK, Threads, loopVars
  <2>4. FrozenInv' /\ StockRunsNothing'
    BY <1>1, <1>2, <2>1, OnIs, UnitsKeep
  <2>5. LoopInv' /\ HeldInv("loop")'
    BY <2>1, <2>2 DEF LoopInv, HeldInv, ParkLabels, LaunchLabels
  <2> QED BY <2>2, <2>3, <2>4, <2>5, StepIn DEF Threads
<1> QED BY <1>1, <1>3, <1>4

(* A launch takes the lock, or is refused.                                 *)
LEMMA PrepareKeeps == DInv /\ Prepare => DInv'
<1> SUFFICES ASSUME DInv, Prepare PROVE DInv'
  OBVIOUS
<1> DEFINE a == job["loop"].app
<1>1. /\ pc["loop"] = "prepare" /\ LockFree
      /\ UNCHANGED <<tracked, report, exits, bridge, screen, loopVars>>
      /\ \/ /\ domain.at = "Manager"
            /\ \/ Untracked(a) /\ StoppedCold(a)
               \/ ~Untracked(a) /\ UNCHANGED <<unit, resident>>
            /\ Apply("Launch", a) /\ Acquire("loop", "register")
            /\ job' = [job EXCEPT !["loop"].flag = Active(a) /\ ~Untracked(a)]
         \/ /\ StopRefused(a) \/ UNCHANGED <<unit, resident>>
            /\ Fail("loop") /\ UNCHANGED managerVars
  BY DEF Prepare
<1>2. TypeOK /\ LockInv /\ FrozenInv /\ StockRunsNothing
  BY DEF DInv
<1>3. CASE /\ StopRefused(a) \/ UNCHANGED <<unit, resident>>
           /\ Fail("loop") /\ UNCHANGED managerVars
  <2>1. /\ unit' \in [App -> {"off", "run", "frozen", "dying", "ending"}]
        /\ resident' \in [App -> BOOLEAN]
        /\ \A b \in App : /\ unit'[b] = "frozen" => unit[b] = "frozen"
                          /\ unit[b] = "off" => unit'[b] = "off"
    <3>1. CASE StopRefused(a)
      BY <1>2, <3>1, RefusedStop DEF TypeOK
    <3> QED BY <1>2, <1>3, <3>1 DEF TypeOK
  <2> QED BY <1>1, <1>3, <2>1, StepsOut, OutsideIs DEF Threads
<1>4. CASE /\ domain.at = "Manager"
           /\ \/ Untracked(a) /\ StoppedCold(a)
              \/ ~Untracked(a) /\ UNCHANGED <<unit, resident>>
           /\ Apply("Launch", a) /\ Acquire("loop", "register")
           /\ job' = [job EXCEPT !["loop"].flag = Active(a) /\ ~Untracked(a)]
  <2>1. domain' = On("Launching", a) /\ ManagerTypeOK' /\ a \in App
    <3>1. domain' = On("Launching", a) /\ ManagerTypeOK'
      BY <1>2, <1>4, LaunchBegins, ApplyType DEF TypeOK
    <3>2. domain' \in DomainStates /\ domain'.at \in AppDomains /\ domain'.app = a
      BY <3>1, OnIs DEF ManagerTypeOK, AppDomains
    <3> QED BY <3>1, <3>2, DomainIs
  <2>2. /\ unit' \in [App -> {"off", "run", "frozen", "dying", "ending"}]
        /\ resident' \in [App -> BOOLEAN]
        /\ \A b \in App : unit'[b] \in {unit[b], "off"}
        /\ Untracked(a) => unit'[a] = "off"
        /\ ~Untracked(a) => unit'[a] = unit[a]
    BY <1>2, <1>4, <2>1, ColdStop DEF TypeOK
  <2>3. /\ job' \in [Threads -> Jobs] /\ \A u \in Threads : job'[u].kind = job[u].kind
        /\ job'["loop"].app = a
        /\ job'["loop"].flag <=> (Active(a) /\ ~Untracked(a))
    <3>1. job["loop"] \in Jobs /\ job \in [Threads -> Jobs]
      BY <1>2, TypeParts DEF Threads
    <3>2. (Active(a) /\ ~Untracked(a)) \in BOOLEAN
      BY DEF Active, Untracked
    <3> QED BY <1>4, <3>1, <3>2 DEF Jobs, Threads
  <2>4. /\ LockInv' /\ pc'["loop"] = "register" /\ lock' = "loop"
        /\ pc' \in [Threads -> Labels]
        /\ \A u \in Threads \ {"loop"} : pc'[u] \notin Holding
    BY <1>1, <1>2, <1>4, <2>3, Acquires, InsideIs DEF Threads
  <2>5. TypeOK'
    BY <1>1, <1>2, <2>1, <2>2, <2>3, <2>4 DEF TypeOK, Jobs, Threads, loopVars
  <2>6. FrozenInv' /\ StockRunsNothing'
    BY <1>1, <1>2, <2>1, <2>2, OnIs, UnitsKeep
  <2>7. IF job'["loop"].flag THEN tracked'[a] # "none" ELSE unit'[a] = "off"
    BY <1>1, <2>2, <2>3 DEF Active, Untracked
  <2>8. LoopInv'
    BY <2>1, <2>3, <2>4, <2>7 DEF LoopInv, ParkLabels, LaunchLabels
  <2>9. HeldInv("loop")'
    BY <2>4 DEF HeldInv
  <2> QED BY <2>4, <2>5, <2>6, <2>8, <2>9, StepIn DEF Threads
<1> QED BY <1>1, <1>3, <1>4

(* A close takes the lock.                                                 *)
LEMMA CloseBegins ==
  ASSUME DInv, NEW t \in Threads, Close(t)
  PROVE  DInv'
<1> DEFINE a == job[t].app
<1>1. /\ pc[t] = "close" /\ LockFree /\ Acquire(t, "closeThaw")
      /\ report' \in {report, [report EXCEPT ![a] = <<"cur", "Controlled">>]}
      /\ job' = [job EXCEPT ![t].flag = (domain = On("Foreground", a))]
      /\ UNCHANGED <<managerVars, unit, tracked, resident, exits, bridge, screen, loopVars>>
  BY DEF Close
<1>2. TypeOK /\ LockInv /\ FrozenInv /\ StockRunsNothing
  BY DEF DInv
<1>3. /\ job' \in [Threads -> Jobs] /\ \A u \in Threads : job'[u].kind = job[u].kind
      /\ job'[t].app = a
      /\ job'[t].flag <=> domain = On("Foreground", a)
  <2>1. job[t] \in Jobs /\ job \in [Threads -> Jobs]
    BY <1>2, TypeParts
  <2> QED BY <1>1, <2>1 DEF Jobs
<1>4. /\ LockInv' /\ pc'[t] = "closeThaw" /\ lock' = t
      /\ pc' \in [Threads -> Labels]
      /\ \A u \in Threads \ {t} : pc'[u] \notin Holding
  BY <1>1, <1>2, <1>3, Acquires, InsideIs
<1>5. report' \in [App -> (Ages \X Sources) \cup {NoReport}]
  <2>1. <<"cur", "Controlled">> \in Ages \X Sources
    BY DEF Ages, Sources
  <2> QED BY <1>1, <1>2, <2>1 DEF TypeOK
<1>6. TypeOK'
  BY <1>1, <1>2, <1>3, <1>4, <1>5 DEF TypeOK, Jobs, ManagerTypeOK, loopVars, managerVars
<1>7. FrozenInv' /\ StockRunsNothing'
  BY <1>1, <1>2, UnitsKeep DEF managerVars
<1>8. t = "loop" => LoopInv'
  BY <1>4 DEF LoopInv, ParkLabels, LaunchLabels
<1>9. HeldInv(t)'
  BY <1>1, <1>3, <1>4 DEF HeldInv, managerVars
<1> QED BY <1>4, <1>6, <1>7, <1>8, <1>9, StepIn

(* Restoring stock takes the lock, unless stock is there.                  *)
LEMMA RestoreBegins ==
  ASSUME DInv, NEW t \in Threads, RestoreSystem(t)
  PROVE  DInv'
<1>1. /\ pc[t] = "restore" /\ LockFree
      /\ UNCHANGED <<lastApp, unit, tracked, resident, report, exits, bridge, loopVars>>
      /\ \/ Finish(t) /\ UNCHANGED <<domain, screen>>
         \/ /\ domain' = In("RestoringSystem") /\ screen' \in {screen, "none"}
            /\ Acquire(t, "stopAll") /\ UNCHANGED job
  BY DEF RestoreSystem, appVars, ShownOrNot
<1>2. TypeOK /\ LockInv /\ FrozenInv /\ StockRunsNothing
  BY DEF DInv
<1>3. CASE Finish(t) /\ UNCHANGED <<domain, screen>>
  <2>1. /\ unit' \in [App -> {"off", "run", "frozen", "dying", "ending"}]
        /\ resident' \in [App -> BOOLEAN]
    BY <1>1, <1>2 DEF TypeOK
  <2> QED BY <1>1, <1>3, <2>1, StepsOut, OutsideIs DEF managerVars
<1>4. CASE /\ domain' = In("RestoringSystem") /\ screen' \in {screen, "none"}
           /\ Acquire(t, "stopAll") /\ UNCHANGED job
  <2>1. ManagerTypeOK'
    BY <1>1, <1>2, <1>4 DEF TypeOK, ManagerTypeOK, DomainStates, PlainDomains
  <2>2. /\ LockInv' /\ pc'[t] = "stopAll" /\ lock' = t
        /\ pc' \in [Threads -> Labels]
        /\ \A u \in Threads \ {t} : pc'[u] \notin Holding
    <3>1. job' \in [Threads -> Jobs]
      BY <1>2, <1>4, TypeParts
    <3> QED BY <1>1, <1>2, <1>4, <3>1, Acquires, InsideIs
  <2>3. TypeOK'
    BY <1>1, <1>2, <1>4, <2>1, <2>2 DEF TypeOK, loopVars
  <2>4. FrozenInv' /\ StockRunsNothing'
    BY <1>1, <1>2, <1>4, OnIs, UnitsKeep
  <2>5. t = "loop" => LoopInv'
    BY <2>2 DEF LoopInv, ParkLabels, LaunchLabels
  <2>6. HeldInv(t)'
    BY <1>4, <2>2 DEF HeldInv
  <2> QED BY <2>2, <2>3, <2>4, <2>5, <2>6, StepIn
<1> QED BY <1>1, <1>3, <1>4

(* The application the loop works on inside a transition is a real one.     *)
LEMMA WorksOn ==
  ASSUME DInv
  PROVE  /\ pc["loop"] \in ParkLabels => job["loop"].target \in App
         /\ pc["loop"] \in LaunchLabels => job["loop"].app \in App
  BY DomainIs, OnIs DEF DInv, TypeOK, ManagerTypeOK, LoopInv, AppDomains

(* The labels of a park and of a launch.                                   *)
LEMMA ParkLabelsAre ==
  /\ {"askBackground", "handOff", "freeze", "recoverPark", "askForeground",
      "restoreForeground", "forceStop"} \subseteq ParkLabels
  /\ {"register", "start", "await", "commit", "activate", "rollback"} \subseteq LaunchLabels
  BY DEF ParkLabels, LaunchLabels

(* A step of the loop inside a transition that leaves the domain and the    *)
(* registration alone.                                                     *)
LEMMA LoopWorks ==
  ASSUME DInv, TypeOK', UNCHANGED <<domain, tracked>>,
         screen' \in {screen, "home", "none"},
         \A b \in App : /\ unit'[b] = "frozen" => unit[b] = "frozen"
                        /\ unit[b] = "off" => unit'[b] = "off",
         pc["loop"] \in Holding, NEW label \in ParkLabels \cup LaunchLabels,
         Goto("loop", label), LoopInv'
  PROVE  DInv'
<1>1. /\ LockInv' /\ pc'["loop"] = label /\ UNCHANGED <<lock, job>>
      /\ \A u \in Threads \ {"loop"} : pc'[u] \notin Holding
  BY GoesOnInside DEF Threads, Holding
<1>2. FrozenInv' /\ StockRunsNothing'
  BY UnitsKeep DEF DInv
<1>3. HeldInv("loop")'
  BY <1>1 DEF HeldInv, ParkLabels, LaunchLabels
<1> QED BY <1>1, <1>2, <1>3, StepIn DEF Threads

(* The application is asked to go to the background.                       *)
LEMMA AskBackgroundKeeps == DInv /\ AskBackground => DInv'
<1> SUFFICES ASSUME DInv, AskBackground PROVE DInv'
  OBVIOUS
<1> DEFINE a == job["loop"].target
<1>1. /\ pc["loop"] = "askBackground"
      /\ UNCHANGED <<managerVars, unit, tracked, report, exits, bridge, screen, loopVars>>
      /\ resident' = resident \/ \E r \in BOOLEAN : resident' = [resident EXCEPT ![a] = r]
      /\ Goto("loop", "handOff") \/ Goto("loop", "recoverPark")
  BY DEF AskBackground
<1>2. TypeOK /\ LoopInv
  BY DEF DInv
<1>3. ASSUME NEW l \in {"handOff", "recoverPark"}, Goto("loop", l)
      PROVE  DInv'
  <2>1. /\ pc' \in [Threads -> Labels] /\ pc'["loop"] = l /\ UNCHANGED <<lock, job>>
    BY <1>1, <1>3, GoesOnInside, InsideIs DEF Threads
  <2>2. resident' \in [App -> BOOLEAN]
    BY <1>1, <1>2 DEF TypeOK
  <2>3. TypeOK'
    BY <1>1, <1>2, <2>1, <2>2 DEF TypeOK, ManagerTypeOK, managerVars, loopVars
  <2>4. LoopInv'
    BY <1>1, <1>2, <1>3, <2>1 DEF LoopInv, ParkLabels, LaunchLabels, managerVars
  <2> QED BY <1>1, <1>3, <2>3, <2>4, LoopWorks, ParkLabelsAre, InsideIs DEF managerVars
<1> QED BY <1>1, <1>3

(* The screen is handed over.                                              *)
LEMMA HandOffKeeps == DInv /\ HandOff => DInv'
<1> SUFFICES ASSUME DInv, HandOff PROVE DInv'
  OBVIOUS
<1> DEFINE a == job["loop"].target
<1>1. /\ pc["loop"] = "handOff"
      /\ UNCHANGED <<managerVars, unit, tracked, resident, report, exits, bridge, loopVars>>
      /\ screen' \in {screen, "home", "none"}
      /\ \/ screen' \in {"home", "none"} /\ Goto("loop", "freeze")
         \/ Goto("loop", "recoverPark")
  BY DEF HandOff, appVars, NextOwner, ShownOrNot
<1>2. TypeOK /\ LoopInv
  BY DEF DInv
<1>3. a \in App
  BY <1>1, WorksOn, ParkLabelsAre
<1>4. ASSUME NEW l \in {"freeze", "recoverPark"}, Goto("loop", l),
             l = "freeze" => screen' \in {"home", "none"}
      PROVE  DInv'
  <2>1. /\ pc' \in [Threads -> Labels] /\ pc'["loop"] = l /\ UNCHANGED <<lock, job>>
    BY <1>1, <1>4, GoesOnInside, InsideIs DEF Threads
  <2>2. TypeOK'
    BY <1>1, <1>2, <2>1 DEF TypeOK, ManagerTypeOK, managerVars, loopVars
  <2>3. l = "freeze" => screen' # a
    BY <1>3, <1>4, OwnersAssumption DEF OwnersAssumption
  <2>4. LoopInv'
    BY <1>1, <1>2, <1>4, <2>1, <2>3 DEF LoopInv, ParkLabels, LaunchLabels, managerVars
  <2> QED BY <1>1, <1>4, <2>2, <2>4, LoopWorks, ParkLabelsAre, InsideIs DEF managerVars
<1> QED BY <1>1, <1>4

(* A park that ended well: the lock is released and the loop goes on.       *)
LEMMA ParkEnds ==
  ASSUME DInv, pc["loop"] \in Holding, AfterPark
  PROVE  /\ LockInv' /\ pc' \in [Threads -> Labels] /\ job' \in [Threads -> Jobs]
         /\ lock' \in Threads \cup {"free"}
         /\ \A u \in Threads : pc'[u] \notin Holding
<1>1. TypeOK /\ LockInv /\ lock = "loop"
  BY DEF DInv, LockInv, Threads
<1>2. ASSUME NEW l \in {"restore", "prepare"}, Release(l)
      PROVE  /\ LockInv' /\ pc' \in [Threads -> Labels] /\ job' \in [Threads -> Jobs]
             /\ lock' \in Threads \cup {"free"}
             /\ \A u \in Threads : pc'[u] \notin Holding
  <2>1. /\ pc' \in [Threads -> Labels] /\ pc'["loop"] = l
        /\ \A u \in Threads \ {"loop"} : pc'[u] = pc[u]
        /\ l \notin Holding
    BY <1>1, <1>2, Goes, OutsideIs DEF Release, Threads
  <2>2. lock' = "free" /\ UNCHANGED job
    BY <1>2 DEF Release
  <2>3. \A u \in Threads : pc'[u] \notin Holding
    BY <1>1, <2>1, Alone DEF Threads
  <2> QED BY <1>1, <2>1, <2>2, <2>3, TypeParts DEF LockInv, Threads
<1>3. Finish("loop") \/ Fail("loop") \/ Release("restore") \/ Release("prepare")
  BY DEF AfterPark
<1>4. ASSUME Finish("loop") \/ Fail("loop")
      PROVE  /\ LockInv' /\ pc' \in [Threads -> Labels] /\ job' \in [Threads -> Jobs]
             /\ lock' \in Threads \cup {"free"}
             /\ \A u \in Threads : pc'[u] \notin Holding
  BY <1>4, EndsInside DEF Threads
<1> QED BY <1>2, <1>3, <1>4

(* The unit is frozen: only here does one get frozen.                      *)
LEMMA FreezeKeeps == DInv /\ Freeze => DInv'
<1> SUFFICES ASSUME DInv, Freeze PROVE DInv'
  OBVIOUS
<1> DEFINE a == job["loop"].target
<1>1. /\ pc["loop"] = "freeze"
      /\ UNCHANGED <<tracked, resident, report, exits, bridge, screen, loopVars>>
      /\ \/ /\ unit' = [unit EXCEPT ![a] = Frozen(a)]
            /\ Apply("AppParked", a) /\ AfterPark
         \/ /\ tracked[a] = "freeze"
            /\ \E u \in {unit[a], "frozen"} :
                 /\ u = "frozen" => unit[a] = "run"
                 /\ unit' = [unit EXCEPT ![a] = u]
            /\ Goto("loop", "recoverPark") /\ UNCHANGED managerVars
  BY DEF Freeze
<1>2. TypeOK /\ LoopInv /\ FrozenInv /\ StockRunsNothing
  BY DEF DInv
<1>3. a \in App
  BY <1>1, WorksOn, ParkLabelsAre
<1>4. domain = On("Parking", a) /\ tracked[a] # "none" /\ unit[a] # "frozen" /\ screen # a
  BY <1>1, <1>2 DEF LoopInv, ParkLabels
<1>5. /\ unit' \in [App -> {"off", "run", "frozen", "dying", "ending"}]
      /\ \A b \in App \ {a} : unit'[b] = unit[b]
      /\ unit'[a] = "frozen" => tracked[a] = "freeze"
  BY <1>1, <1>2, <1>3, <1>4 DEF TypeOK, Frozen
<1>6. ASSUME \A b \in App : domain' # On("Foreground", b), domain'.at # "System"
      PROVE  FrozenInv' /\ StockRunsNothing'
  BY <1>1, <1>2, <1>4, <1>5, <1>6 DEF FrozenInv, StockRunsNothing
<1>7. CASE /\ unit' = [unit EXCEPT ![a] = Frozen(a)]
           /\ Apply("AppParked", a) /\ AfterPark
  <2>1. domain' = In("Manager") /\ ManagerTypeOK'
    BY <1>2, <1>7, ToManager, ApplyType DEF TypeOK
  <2>2. FrozenInv' /\ StockRunsNothing'
    BY <1>6, <2>1, OnIs
  <2>3. /\ LockInv' /\ pc' \in [Threads -> Labels] /\ job' \in [Threads -> Jobs]
        /\ lock' \in Threads \cup {"free"}
        /\ \A u \in Threads : pc'[u] \notin Holding
    BY <1>1, <1>7, ParkEnds, InsideIs
  <2>4. TypeOK'
    BY <1>1, <1>2, <1>5, <2>1, <2>3 DEF TypeOK, Jobs, loopVars
  <2> QED BY <2>2, <2>3, <2>4, StepOff
<1>8. CASE Goto("loop", "recoverPark") /\ UNCHANGED managerVars
  <2>1. FrozenInv' /\ StockRunsNothing'
    BY <1>4, <1>6, <1>8, OnIs DEF managerVars
  <2>2. /\ LockInv' /\ pc'["loop"] = "recoverPark" /\ pc' \in [Threads -> Labels]
        /\ UNCHANGED <<lock, job>>
        /\ \A u \in Threads \ {"loop"} : pc'[u] \notin Holding
    BY <1>1, <1>8, GoesOnInside, InsideIs DEF Threads
  <2>3. TypeOK'
    BY <1>1, <1>2, <1>5, <1>8, <2>2 DEF TypeOK, ManagerTypeOK, managerVars, loopVars
  <2>4. LoopInv'
    BY <1>1, <1>4, <1>8, <2>2 DEF LoopInv, ParkLabels, LaunchLabels, managerVars
  <2>5. HeldInv("loop")'
    BY <2>2 DEF HeldInv
  <2> QED BY <2>1, <2>2, <2>3, <2>4, <2>5, StepIn DEF Threads
<1> QED BY <1>1, <1>7, <1>8

(* A failed park thaws the unit again.                                     *)
LEMMA RecoverParkKeeps == DInv /\ RecoverPark => DInv'
<1> SUFFICES ASSUME DInv, RecoverPark PROVE DInv'
  OBVIOUS
<1> DEFINE a == job["loop"].target
<1>1. /\ pc["loop"] = "recoverPark"
      /\ UNCHANGED <<managerVars, tracked, resident, report, exits, bridge, loopVars>>
      /\ screen' \in {screen, "none"}
      /\ \/ unit' = [unit EXCEPT ![a] = Thaw(a)] /\ Goto("loop", "askForeground")
         \/ /\ \E u \in {unit[a], Thaw(a)} : unit' = [unit EXCEPT ![a] = u]
            /\ Goto("loop", "forceStop")
  BY DEF RecoverPark
<1>2. TypeOK /\ LoopInv /\ FrozenInv
  BY DEF DInv
<1>3. a \in App
  BY <1>1, WorksOn, ParkLabelsAre
<1>4. Thaw(a) \in {unit[a], "run"} /\ Thaw(a) # "frozen" /\ (unit[a] = "off" => Thaw(a) = "off")
  BY <1>1, <1>2, <1>3 DEF Thaw, LoopInv, FrozenInv, ParkLabels
<1>5. /\ unit' \in [App -> {"off", "run", "frozen", "dying", "ending"}]
      /\ \A b \in App : /\ unit'[b] = "frozen" => unit[b] = "frozen"
                        /\ unit[b] = "off" => unit'[b] = "off"
  BY <1>1, <1>2, <1>3, <1>4 DEF TypeOK
<1>6. ASSUME NEW l \in {"askForeground", "forceStop"}, Goto("loop", l),
             l = "askForeground" => unit'[a] # "frozen"
      PROVE  DInv'
  <2>1. /\ pc' \in [Threads -> Labels] /\ pc'["loop"] = l /\ UNCHANGED <<lock, job>>
    BY <1>1, <1>6, GoesOnInside, InsideIs DEF Threads
  <2>2. TypeOK'
    BY <1>1, <1>2, <1>5, <2>1 DEF TypeOK, ManagerTypeOK, managerVars, loopVars
  <2>3. LoopInv'
    BY <1>1, <1>2, <1>6, <2>1 DEF LoopInv, ParkLabels, LaunchLabels, managerVars
  <2> QED BY <1>1, <1>5, <1>6, <2>2, <2>3, LoopWorks, ParkLabelsAre, InsideIs DEF managerVars
<1>7. CASE unit' = [unit EXCEPT ![a] = Thaw(a)] /\ Goto("loop", "askForeground")
  <2>1. unit'[a] = Thaw(a)
    BY <1>2, <1>3, <1>7 DEF TypeOK
  <2> QED BY <1>4, <1>6, <1>7, <2>1
<1> QED BY <1>1, <1>6, <1>7

(* It asks the application to come back.                                   *)
LEMMA AskForegroundKeeps == DInv /\ AskForeground => DInv'
<1> SUFFICES ASSUME DInv, AskForeground PROVE DInv'
  OBVIOUS
<1>1. /\ pc["loop"] = "askForeground"
      /\ UNCHANGED <<managerVars, unit, tracked, resident, report, exits, bridge, screen,
                     loopVars>>
      /\ Goto("loop", "restoreForeground") \/ Goto("loop", "forceStop")
  BY DEF AskForeground, appVars
<1>2. TypeOK /\ LoopInv
  BY DEF DInv
<1>3. ASSUME NEW l \in {"restoreForeground", "forceStop"}, Goto("loop", l)
      PROVE  DInv'
  <2>1. /\ pc' \in [Threads -> Labels] /\ pc'["loop"] = l /\ UNCHANGED <<lock, job>>
    BY <1>1, <1>3, GoesOnInside, InsideIs DEF Threads
  <2>2. TypeOK'
    BY <1>1, <1>2, <2>1 DEF TypeOK, ManagerTypeOK, managerVars, loopVars
  <2>3. LoopInv'
    BY <1>1, <1>2, <1>3, <2>1 DEF LoopInv, ParkLabels, LaunchLabels, managerVars
  <2> QED BY <1>1, <1>3, <2>2, <2>3, LoopWorks, ParkLabelsAre, InsideIs DEF managerVars
<1> QED BY <1>1, <1>3

(* The handler brings an application to the foreground.                     *)
LEMMA ForegroundKeeps ==
  ASSUME DInv, NEW a \in App, unit[a] # "frozen", pc["loop"] \in Holding,
         UNCHANGED <<unit, tracked, resident, report, exits, bridge, loopVars>>,
         screen' = a, Apply("AppRestored", a) \/ Apply("AppReady", a),
         Finish("loop") \/ Fail("loop")
  PROVE  DInv'
<1>1. TypeOK /\ FrozenInv
  BY DEF DInv
<1>2. domain' = On("Foreground", a) /\ ManagerTypeOK'
  BY <1>1, ToForeground, ApplyType DEF TypeOK
<1>3. /\ LockInv' /\ pc' \in [Threads -> Labels] /\ job' \in [Threads -> Jobs]
      /\ lock' \in Threads \cup {"free"}
      /\ \A u \in Threads : pc'[u] \notin Holding
  BY EndsInside DEF Threads
<1>4. TypeOK'
  BY <1>1, <1>2, <1>3 DEF TypeOK, Jobs, loopVars
<1>5. FrozenInv' /\ StockRunsNothing'
  BY <1>1, <1>2, OnIs DEF FrozenInv, StockRunsNothing
<1> QED BY <1>3, <1>4, <1>5, StepOff

(* It shows the application, or goes on to stop it.                        *)
LEMMA RestoreForegroundKeeps == DInv /\ RestoreForeground => DInv'
<1> SUFFICES ASSUME DInv, RestoreForeground PROVE DInv'
  OBVIOUS
<1> DEFINE a == job["loop"].target
<1>1. /\ pc["loop"] = "restoreForeground"
      /\ UNCHANGED <<unit, tracked, resident, report, exits, bridge, loopVars>>
      /\ \/ screen' = a /\ Apply("AppRestored", a) /\ Fail("loop")
         \/ /\ screen' \in {screen, a} /\ Goto("loop", "forceStop") /\ UNCHANGED managerVars
  BY DEF RestoreForeground, appVars, ShownOrNot
<1>2. TypeOK /\ LoopInv /\ FrozenInv /\ StockRunsNothing
  BY DEF DInv
<1>3. a \in App
  BY <1>1, WorksOn, ParkLabelsAre
<1>4. domain = On("Parking", a) /\ tracked[a] # "none" /\ unit[a] # "frozen"
  BY <1>1, <1>2 DEF LoopInv, ParkLabels
<1>5. CASE screen' = a /\ Apply("AppRestored", a) /\ Fail("loop")
  BY <1>1, <1>3, <1>4, <1>5, ForegroundKeeps, InsideIs
<1>6. CASE screen' \in {screen, a} /\ Goto("loop", "forceStop") /\ UNCHANGED managerVars
  <2>1. /\ LockInv' /\ pc'["loop"] = "forceStop" /\ pc' \in [Threads -> Labels]
        /\ UNCHANGED <<lock, job>>
        /\ \A u \in Threads \ {"loop"} : pc'[u] \notin Holding
    BY <1>1, <1>6, GoesOnInside, InsideIs DEF Threads
  <2>2. TypeOK'
    BY <1>1, <1>2, <1>3, <1>6, <2>1 DEF TypeOK, ManagerTypeOK, managerVars, loopVars
  <2>3. FrozenInv' /\ StockRunsNothing'
    BY <1>1, <1>2, <1>4, <1>6, OnIs DEF FrozenInv, StockRunsNothing, managerVars
  <2>4. LoopInv' /\ HeldInv("loop")'
    BY <1>1, <1>4, <1>6, <2>1
    DEF LoopInv, HeldInv, ParkLabels, LaunchLabels, managerVars
  <2> QED BY <2>1, <2>2, <2>3, <2>4, StepIn DEF Threads
<1> QED BY <1>1, <1>5, <1>6

(* The last resort of a park and of a launch: stop the process, or fail to. *)
LEMMA StopEnds ==
  ASSUME DInv, NEW a \in App, pc["loop"] \in Holding,
         domain.at \in {"Parking", "Launching"},
         UNCHANGED <<exits, bridge, loopVars>>, Fail("loop"),
         \/ /\ StoppedCold(a) /\ Forget(a) /\ Apply("AppExited", a)
            /\ screen' \in {screen, "home"}
         \/ StopRefused(a) /\ UNCHANGED <<tracked, report, managerVars, screen>>
  PROVE  DInv'
<1>1. TypeOK /\ FrozenInv /\ StockRunsNothing
  BY DEF DInv
<1>2. /\ LockInv' /\ pc' \in [Threads -> Labels] /\ job' \in [Threads -> Jobs]
      /\ lock' \in Threads \cup {"free"}
      /\ \A u \in Threads : pc'[u] \notin Holding
  BY EndsInside DEF Threads
<1>3. CASE /\ StoppedCold(a) /\ Forget(a) /\ Apply("AppExited", a)
           /\ screen' \in {screen, "home"}
  <2>1. domain' = In("Manager") /\ ManagerTypeOK'
    BY <1>1, <1>3, ToManager, ApplyType DEF TypeOK
  <2>2. /\ unit' \in [App -> {"off", "run", "frozen", "dying", "ending"}]
        /\ resident' \in [App -> BOOLEAN]
        /\ \A b \in App : unit'[b] \in {unit[b], "off"}
    BY <1>1, <1>3, ColdStop
  <2>3. /\ tracked' \in [App -> Policies \cup {"none"}]
        /\ report' \in [App -> (Ages \X Sources) \cup {NoReport}]
        /\ \A b \in App : tracked'[b] \in {tracked[b], "none"}
    BY <1>1, <1>3, ForgetType
  <2>4. TypeOK'
    BY <1>1, <1>2, <1>3, <2>1, <2>2, <2>3 DEF TypeOK, Jobs, loopVars
  <2>5. FrozenInv' /\ StockRunsNothing'
    BY <1>1, <1>3, <2>1, <2>2, <2>3, OnIs, UnitsKeep
  <2> QED BY <1>2, <2>4, <2>5, StepOff
<1>4. CASE StopRefused(a) /\ UNCHANGED <<tracked, report, managerVars, screen>>
  <2>1. /\ unit' \in [App -> {"off", "run", "frozen", "dying", "ending"}]
        /\ UNCHANGED resident
        /\ \A b \in App : /\ unit'[b] = "frozen" => unit[b] = "frozen"
                          /\ unit[b] = "off" => unit'[b] = "off"
    BY <1>1, <1>4, RefusedStop
  <2>2. TypeOK'
    BY <1>1, <1>2, <1>4, <2>1 DEF TypeOK, Jobs, ManagerTypeOK, managerVars, loopVars
  <2>3. FrozenInv' /\ StockRunsNothing'
    BY <1>1, <1>4, <2>1, UnitsKeep DEF managerVars
  <2> QED BY <1>2, <2>2, <2>3, StepOff
<1> QED BY <1>3, <1>4

(* The last resort of a park and of a launch keeps the invariant.          *)
LEMMA StopsKeep ==
  ASSUME DInv, ForceStop \/ RollbackLaunch
  PROVE  DInv'
<1>1. TypeOK /\ LoopInv
  BY DEF DInv
<1>2. CASE ForceStop
  <2> DEFINE a == job["loop"].target
  <2>1. /\ pc["loop"] = "forceStop" /\ UNCHANGED <<exits, bridge, loopVars>> /\ Fail("loop")
        /\ \/ /\ StoppedCold(a) /\ Forget(a) /\ Apply("AppExited", a)
              /\ screen' \in {screen, "home"}
           \/ StopRefused(a) /\ UNCHANGED <<tracked, report, managerVars, screen>>
    BY <1>2 DEF ForceStop, ShownOrNot
  <2>2. a \in App /\ domain.at = "Parking"
    BY <1>1, <2>1, WorksOn, OnIs DEF LoopInv, ParkLabels
  <2> QED BY <2>1, <2>2, StopEnds, InsideIs
<1>3. CASE RollbackLaunch
  <2> DEFINE a == job["loop"].app
  <2>1. /\ pc["loop"] = "rollback" /\ UNCHANGED <<exits, bridge, loopVars>> /\ Fail("loop")
        /\ \/ /\ StoppedCold(a) /\ Forget(a) /\ Apply("AppExited", a)
              /\ screen' \in {screen, "home"}
           \/ StopRefused(a) /\ UNCHANGED <<tracked, report, managerVars, screen>>
    BY <1>3 DEF RollbackLaunch, ShownOrNot
  <2>2. a \in App /\ domain.at = "Launching"
    BY <1>1, <2>1, WorksOn, OnIs DEF LoopInv, LaunchLabels
  <2> QED BY <2>1, <2>2, StopEnds, InsideIs
<1> QED BY <1>2, <1>3

(* What a new generation makes of the reports in flight.                    *)
LEMMA NewGenerationType ==
  ASSUME TypeOK, NEW a \in App, NewGeneration(a)
  PROVE  /\ tracked' \in [App -> Policies \cup {"none"}]
         /\ tracked'[a] \in Policies /\ \A b \in App \ {a} : tracked'[b] = tracked[b]
         /\ report' \in [App -> (Ages \X Sources) \cup {NoReport}]
         /\ exits' \in [App -> SUBSET Ages]
         /\ bridge' \in [App -> Ages \cup {"none"}]
<1>1. \A age \in Ages : Aged(age) \in Ages
  BY DEF Aged, Ages
<1>2. Aged("none") = "none"
  BY DEF Aged
<1>3. \E p \in Policies : tracked' = [tracked EXCEPT ![a] = p]
  BY DEF NewGeneration
<1>4. <<Aged(report[a][1]), report[a][2]>> \in (Ages \X Sources) \cup {NoReport}
  <2>1. CASE report[a] \in Ages \X Sources
    BY <1>1, <2>1
  <2>2. CASE report[a] = NoReport
    BY <1>2, <2>2 DEF NoReport
  <2> QED BY <2>1, <2>2 DEF TypeOK
<1>5. {Aged(age) : age \in exits[a]} \in SUBSET Ages
  BY <1>1 DEF TypeOK
<1>6. Aged(bridge[a]) \in Ages \cup {"none"}
  BY <1>1, <1>2 DEF TypeOK
<1>7. /\ report' = [report EXCEPT ![a] = <<Aged(report[a][1]), report[a][2]>>]
      /\ exits' = [exits EXCEPT ![a] = {Aged(age) : age \in exits[a]}]
      /\ bridge' = [bridge EXCEPT ![a] = Aged(bridge[a])]
  BY DEF NewGeneration
<1>8. /\ tracked' \in [App -> Policies \cup {"none"}]
      /\ tracked'[a] \in Policies /\ \A b \in App \ {a} : tracked'[b] = tracked[b]
  BY <1>3 DEF TypeOK
<1>9. report' \in [App -> (Ages \X Sources) \cup {NoReport}]
  BY <1>4, <1>7 DEF TypeOK
<1>10. exits' \in [App -> SUBSET Ages]
  BY <1>5, <1>7 DEF TypeOK
<1>11. bridge' \in [App -> Ages \cup {"none"}]
  BY <1>6, <1>7 DEF TypeOK
<1> QED BY <1>8, <1>9, <1>10, <1>11

(* A launch registers a generation, or keeps the one that lives.           *)
LEMMA RegisterKeeps == DInv /\ RegisterRuntime => DInv'
<1> SUFFICES ASSUME DInv, RegisterRuntime PROVE DInv'
  OBVIOUS
<1> DEFINE a == job["loop"].app
<1>1. /\ pc["loop"] = "register"
      /\ UNCHANGED <<managerVars, unit, resident, screen, loopVars>>
      /\ \/ /\ Goto("loop", "start")
            /\ IF job["loop"].flag THEN UNCHANGED <<tracked, report, exits, bridge>>
                                   ELSE NewGeneration(a)
         \/ Goto("loop", "rollback") /\ UNCHANGED <<tracked, report, exits, bridge>>
  BY DEF RegisterRuntime, Register
<1>2. TypeOK /\ LoopInv /\ FrozenInv /\ StockRunsNothing
  BY DEF DInv
<1>3. a \in App
  BY <1>1, WorksOn, ParkLabelsAre
<1>4. /\ domain = On("Launching", a)
      /\ IF job["loop"].flag THEN tracked[a] # "none" ELSE unit[a] = "off"
  BY <1>1, <1>2 DEF LoopInv, LaunchLabels
<1>5. /\ tracked' \in [App -> Policies \cup {"none"}]
      /\ report' \in [App -> (Ages \X Sources) \cup {NoReport}]
      /\ exits' \in [App -> SUBSET Ages]
      /\ bridge' \in [App -> Ages \cup {"none"}]
      /\ \A b \in App : tracked'[b] = tracked[b] \/ (b = a /\ unit[a] = "off")
  <2>1. CASE UNCHANGED <<tracked, report, exits, bridge>>
    BY <1>2, <2>1 DEF TypeOK
  <2>2. CASE ~job["loop"].flag /\ NewGeneration(a)
    BY <1>2, <1>3, <1>4, <2>2, NewGenerationType
  <2> QED BY <1>1, <2>1, <2>2
<1>6. Goto("loop", "rollback") \/ (Goto("loop", "start") /\ tracked'[a] # "none")
  <2>1. CASE NewGeneration(a)
    <3>1. tracked'[a] \in Policies
      BY <1>2, <1>3, <2>1, NewGenerationType
    <3> QED BY <1>1, <3>1 DEF Policies
  <2>2. CASE ~NewGeneration(a)
    BY <1>1, <1>4, <2>2
  <2> QED BY <2>1, <2>2
<1>7. FrozenInv' /\ StockRunsNothing'
  BY <1>1, <1>2, <1>4, <1>5, OnIs DEF FrozenInv, StockRunsNothing, managerVars
<1>8. ASSUME NEW l \in {"start", "rollback"}, Goto("loop", l), l = "start" => tracked'[a] # "none"
      PROVE  DInv'
  <2>1. /\ LockInv' /\ pc' \in [Threads -> Labels] /\ pc'["loop"] = l /\ UNCHANGED <<lock, job>>
        /\ \A u \in Threads \ {"loop"} : pc'[u] \notin Holding
    BY <1>1, <1>8, GoesOnInside, InsideIs DEF Threads
  <2>2. TypeOK'
    BY <1>1, <1>2, <1>5, <2>1 DEF TypeOK, ManagerTypeOK, managerVars, loopVars
  <2>3. LoopInv'
    BY <1>1, <1>4, <1>8, <2>1 DEF LoopInv, ParkLabels, LaunchLabels, managerVars
  <2>4. HeldInv("loop")'
    BY <1>8, <2>1 DEF HeldInv
  <2> QED BY <1>7, <2>1, <2>2, <2>3, <2>4, StepIn DEF Threads
<1> QED BY <1>6, <1>8

(* The unit is thawed or started.                                          *)
LEMMA StartKeeps == DInv /\ Start => DInv'
<1> SUFFICES ASSUME DInv, Start PROVE DInv'
  OBVIOUS
<1> DEFINE a == job["loop"].app
           up == IF job["loop"].flag THEN Thaw(a) ELSE "run"
<1>1. /\ pc["loop"] = "start"
      /\ UNCHANGED <<managerVars, tracked, resident, report, exits, bridge, screen, loopVars>>
      /\ \/ Goto("loop", "await") /\ unit' = [unit EXCEPT ![a] = up]
         \/ /\ \E u \in {unit[a], up} : unit' = [unit EXCEPT ![a] = u]
            /\ Goto("loop", "rollback")
  BY DEF Start
<1>2. TypeOK /\ LoopInv /\ FrozenInv /\ StockRunsNothing
  BY DEF DInv
<1>3. a \in App
  BY <1>1, WorksOn, ParkLabelsAre
<1>4. domain = On("Launching", a) /\ tracked[a] # "none"
  BY <1>1, <1>2 DEF LoopInv, LaunchLabels
<1>5. up \in {unit[a], "run"} /\ up # "frozen"
  BY <1>2, <1>3, <1>4 DEF Thaw, FrozenInv
<1> HIDE DEF up
<1>6. /\ unit' \in [App -> {"off", "run", "frozen", "dying", "ending"}]
      /\ \A b \in App : /\ unit'[b] = "frozen" => unit[b] = "frozen"
                        /\ b # a => unit'[b] = unit[b]
      /\ Goto("loop", "rollback") \/ (Goto("loop", "await") /\ unit'[a] # "frozen")
  <2>1. \E u \in {unit[a], up} :
          /\ unit' = [unit EXCEPT ![a] = u]
          /\ Goto("loop", "rollback") \/ (Goto("loop", "await") /\ u = up)
    BY <1>1
  <2> QED BY <1>2, <1>3, <1>5, <2>1 DEF TypeOK
<1>7. FrozenInv' /\ StockRunsNothing'
  BY <1>1, <1>2, <1>4, <1>6, OnIs DEF FrozenInv, StockRunsNothing, managerVars
<1>8. ASSUME NEW l \in {"await", "rollback"}, Goto("loop", l), l = "await" => unit'[a] # "frozen"
      PROVE  DInv'
  <2>1. /\ LockInv' /\ pc' \in [Threads -> Labels] /\ pc'["loop"] = l /\ UNCHANGED <<lock, job>>
        /\ \A u \in Threads \ {"loop"} : pc'[u] \notin Holding
    BY <1>1, <1>8, GoesOnInside, InsideIs DEF Threads
  <2>2. TypeOK'
    BY <1>1, <1>2, <1>6, <2>1 DEF TypeOK, ManagerTypeOK, managerVars, loopVars
  <2>3. LoopInv'
    BY <1>1, <1>4, <1>8, <2>1 DEF LoopInv, ParkLabels, LaunchLabels, managerVars
  <2>4. HeldInv("loop")'
    BY <1>8, <2>1 DEF HeldInv
  <2> QED BY <1>7, <2>1, <2>2, <2>3, <2>4, StepIn DEF Threads
<1> QED BY <1>6, <1>8

(* The launch waits and commits.                                           *)
LEMMA AwaitsKeep ==
  ASSUME DInv, AwaitReady \/ CommitLaunch
  PROVE  DInv'
<1>1. /\ pc["loop"] \in {"await", "commit"}
      /\ UNCHANGED <<managerVars, unit, tracked, resident, report, exits, bridge, fresh>>
      /\ fence' \in {fence, "pending", "committing"} /\ screen' \in {screen, "none"}
      /\ Goto("loop", "commit") \/ Goto("loop", "activate") \/ Goto("loop", "rollback")
  BY DEF AwaitReady, CommitLaunch, BeginCommit, appVars, loopVars
<1>2. TypeOK /\ LoopInv
  BY DEF DInv
<1>3. ASSUME NEW l \in {"commit", "activate", "rollback"}, Goto("loop", l)
      PROVE  DInv'
  <2>1. /\ pc' \in [Threads -> Labels] /\ pc'["loop"] = l /\ UNCHANGED <<lock, job>>
    BY <1>1, <1>3, GoesOnInside, InsideIs DEF Threads
  <2>2. TypeOK'
    BY <1>1, <1>2, <2>1 DEF TypeOK, ManagerTypeOK, managerVars
  <2>3. LoopInv'
    BY <1>1, <1>2, <1>3, <2>1 DEF LoopInv, ParkLabels, LaunchLabels, managerVars
  <2> QED BY <1>1, <1>3, <2>2, <2>3, LoopWorks, ParkLabelsAre, InsideIs DEF managerVars
<1> QED BY <1>1, <1>3

(* The application gets the screen, or the launch is rolled back.          *)
LEMMA ActivateKeeps == DInv /\ ActivateForeground => DInv'
<1> SUFFICES ASSUME DInv, ActivateForeground PROVE DInv'
  OBVIOUS
<1> DEFINE a == job["loop"].app
<1>1. /\ pc["loop"] = "activate"
      /\ UNCHANGED <<unit, tracked, resident, report, exits, bridge, loopVars>>
      /\ \/ screen' = a /\ Apply("AppReady", a) /\ Finish("loop")
         \/ screen' \in {screen, a} /\ Goto("loop", "rollback") /\ UNCHANGED managerVars
  BY DEF ActivateForeground, appVars, ShownOrNot
<1>2. TypeOK /\ LoopInv /\ FrozenInv /\ StockRunsNothing
  BY DEF DInv
<1>3. a \in App
  BY <1>1, WorksOn, ParkLabelsAre
<1>4. domain = On("Launching", a) /\ unit[a] # "frozen"
  BY <1>1, <1>2 DEF LoopInv, LaunchLabels
<1>5. CASE screen' = a /\ Apply("AppReady", a) /\ Finish("loop")
  BY <1>1, <1>3, <1>4, <1>5, ForegroundKeeps, InsideIs
<1>6. CASE screen' \in {screen, a} /\ Goto("loop", "rollback") /\ UNCHANGED managerVars
  <2>1. /\ LockInv' /\ pc'["loop"] = "rollback" /\ pc' \in [Threads -> Labels]
        /\ UNCHANGED <<lock, job>>
        /\ \A u \in Threads \ {"loop"} : pc'[u] \notin Holding
    BY <1>1, <1>6, GoesOnInside, InsideIs DEF Threads
  <2>2. TypeOK'
    BY <1>1, <1>2, <1>3, <1>6, <2>1 DEF TypeOK, ManagerTypeOK, managerVars, loopVars
  <2>3. FrozenInv' /\ StockRunsNothing'
    BY <1>1, <1>2, <1>4, <1>6, OnIs DEF FrozenInv, StockRunsNothing, managerVars
  <2>4. LoopInv' /\ HeldInv("loop")'
    BY <1>1, <1>4, <1>6, <2>1
    DEF LoopInv, HeldInv, ParkLabels, LaunchLabels, managerVars
  <2> QED BY <2>1, <2>2, <2>3, <2>4, StepIn DEF Threads
<1> QED BY <1>1, <1>5, <1>6

(* Home is shown with every unit stopped.                                  *)
LEMMA EnterManagedKeeps == DInv /\ EnterManaged => DInv'
<1> SUFFICES ASSUME DInv, EnterManaged PROVE DInv'
  OBVIOUS
<1>1. /\ pc["loop"] = "entering"
      /\ UNCHANGED <<tracked, resident, report, exits, bridge, loopVars>>
      /\ \/ /\ unit' = AllStopped /\ Apply("ManagedReady", NoApp)
            /\ screen' \in {screen, "home"} /\ Finish("loop")
         \/ screen' \in {screen, "home"} /\ Fail("loop") /\ UNCHANGED <<unit, managerVars>>
  BY DEF EnterManaged, ShownOrNot
<1>2. TypeOK /\ FrozenInv /\ StockRunsNothing
  BY DEF DInv
<1>3. /\ LockInv' /\ pc' \in [Threads -> Labels] /\ job' \in [Threads -> Jobs]
      /\ lock' \in Threads \cup {"free"}
      /\ \A u \in Threads : pc'[u] \notin Holding
  BY <1>1, EndsInside, InsideIs DEF Threads
<1>4. /\ unit' \in [App -> {"off", "run", "frozen", "dying", "ending"}]
      /\ \A b \in App : unit'[b] \in {unit[b], "off"}
  BY <1>1, <1>2 DEF TypeOK, AllStopped
<1>5. ManagerTypeOK' /\ (domain' = domain \/ domain' = In("Manager"))
  <2>1. CASE Apply("ManagedReady", NoApp)
    BY <1>2, <2>1, ToManager, ApplyType DEF TypeOK
  <2>2. CASE UNCHANGED managerVars
    BY <1>2, <2>2 DEF TypeOK, ManagerTypeOK, managerVars
  <2> QED BY <1>1, <2>1, <2>2
<1>6. TypeOK'
  BY <1>1, <1>2, <1>3, <1>4, <1>5 DEF TypeOK, Jobs, loopVars
<1>7. FrozenInv' /\ StockRunsNothing'
  BY <1>1, <1>2, <1>4, <1>5, OnIs, UnitsKeep
<1> QED BY <1>3, <1>6, <1>7, StepOff

(* Closing, for either thread.                                              *)
LEMMA FailCloseEnds ==
  ASSUME DInv, NEW t \in Threads, pc[t] \in Holding, FailClose(t)
  PROVE  /\ LockInv' /\ pc' \in [Threads -> Labels] /\ job' \in [Threads -> Jobs]
         /\ lock' \in Threads \cup {"free"}
         /\ \A u \in Threads : pc'[u] \notin Holding
         /\ report' \in [App -> (Ages \X Sources) \cup {NoReport}]
<1>1. Fail(t) /\ report' \in {report, [report EXCEPT ![job[t].app] = NoReport]}
  BY DEF FailClose
<1>2. report' \in [App -> (Ages \X Sources) \cup {NoReport}]
  BY <1>1 DEF DInv, TypeOK
<1> QED BY <1>1, <1>2, EndsInside

(* A close thaws the unit.                                                 *)
LEMMA CloseThawKeeps ==
  ASSUME DInv, NEW t \in Threads, CloseThaw(t)
  PROVE  DInv'
<1> DEFINE a == job[t].app
<1>1. /\ pc[t] = "closeThaw"
      /\ UNCHANGED <<managerVars, tracked, resident, exits, bridge, screen, loopVars>>
      /\ \/ /\ unit' = [unit EXCEPT ![a] = Thaw(a)] /\ UNCHANGED report
            /\ Goto(t, IF job[t].flag THEN "closeReveal" ELSE "closeStop")
         \/ FailClose(t) /\ UNCHANGED unit
  BY DEF CloseThaw
<1>2. TypeOK /\ HeldInv(t) /\ FrozenInv /\ StockRunsNothing
  BY DEF DInv, Threads
<1>3. /\ unit' \in [App -> {"off", "run", "frozen", "dying", "ending"}]
      /\ \A b \in App : /\ unit'[b] = "frozen" => unit[b] = "frozen"
                        /\ unit[b] = "off" => unit'[b] = "off"
  BY <1>1, <1>2 DEF TypeOK, Thaw
<1>4. FrozenInv' /\ StockRunsNothing'
  BY <1>1, <1>2, <1>3, UnitsKeep DEF managerVars
<1>5. CASE FailClose(t)
  <2>1. /\ LockInv' /\ pc' \in [Threads -> Labels] /\ job' \in [Threads -> Jobs]
        /\ lock' \in Threads \cup {"free"}
        /\ \A u \in Threads : pc'[u] \notin Holding
        /\ report' \in [App -> (Ages \X Sources) \cup {NoReport}]
    BY <1>1, <1>5, FailCloseEnds, InsideIs
  <2>2. TypeOK'
    BY <1>1, <1>2, <1>3, <2>1 DEF TypeOK, Jobs, ManagerTypeOK, managerVars, loopVars
  <2> QED BY <1>4, <2>1, <2>2, StepOff
<1>6. ASSUME NEW l \in {"closeReveal", "closeStop"}, Goto(t, l), UNCHANGED report,
             l = "closeReveal" <=> job[t].flag
      PROVE  DInv'
  <2>1. /\ LockInv' /\ pc'[t] = l /\ pc' \in [Threads -> Labels] /\ UNCHANGED <<lock, job>>
        /\ \A u \in Threads \ {t} : pc'[u] \notin Holding
    BY <1>1, <1>6, GoesOnInside, InsideIs
  <2>2. TypeOK'
    BY <1>1, <1>2, <1>3, <1>6, <2>1 DEF TypeOK, ManagerTypeOK, managerVars, loopVars
  <2>3. t = "loop" => LoopInv'
    BY <1>6, <2>1 DEF LoopInv, ParkLabels, LaunchLabels
  <2>4. job[t].flag <=> domain = On("Foreground", a)
    BY <1>1, <1>2 DEF HeldInv
  <2>5. HeldInv(t)'
    BY <1>1, <1>6, <2>1, <2>4 DEF HeldInv, managerVars
  <2> QED BY <1>4, <2>1, <2>2, <2>3, <2>5, StepIn
<1>7. job[t].flag \in BOOLEAN
  BY <1>2 DEF TypeOK
<1> QED BY <1>1, <1>5, <1>6, <1>7

(* A close shows Home if the application was in front.                     *)
LEMMA CloseRevealKeeps ==
  ASSUME DInv, NEW t \in Threads, CloseReveal(t)
  PROVE  DInv'
<1> DEFINE a == job[t].app
<1>1. /\ pc[t] = "closeReveal" /\ Apply("SinglePower", NoApp)
      /\ UNCHANGED <<unit, tracked, resident, exits, bridge, loopVars>>
      /\ screen' \in {screen, "home"}
      /\ \/ Goto(t, "closeStop") /\ UNCHANGED report
         \/ FailClose(t)
  BY DEF CloseReveal, ShownOrNot
<1>2. TypeOK /\ HeldInv(t) /\ FrozenInv /\ StockRunsNothing
  BY DEF DInv, Threads
<1>3. job[t].flag /\ domain = On("Foreground", a)
  BY <1>1, <1>2 DEF HeldInv
<1>4. domain' = On("Parking", a) /\ ManagerTypeOK'
  BY <1>1, <1>2, <1>3, ParkBegins, OnIs, ApplyType DEF TypeOK
<1>5. FrozenInv' /\ StockRunsNothing'
  BY <1>1, <1>2, <1>4, OnIs, UnitsKeep
<1>6. CASE FailClose(t)
  <2>1. /\ LockInv' /\ pc' \in [Threads -> Labels] /\ job' \in [Threads -> Jobs]
        /\ lock' \in Threads \cup {"free"}
        /\ \A u \in Threads : pc'[u] \notin Holding
        /\ report' \in [App -> (Ages \X Sources) \cup {NoReport}]
    BY <1>1, <1>6, FailCloseEnds, InsideIs
  <2>2. TypeOK'
    BY <1>1, <1>2, <1>4, <2>1 DEF TypeOK, Jobs, loopVars
  <2> QED BY <1>5, <2>1, <2>2, StepOff
<1>7. CASE Goto(t, "closeStop") /\ UNCHANGED report
  <2>1. /\ LockInv' /\ pc'[t] = "closeStop" /\ pc' \in [Threads -> Labels]
        /\ UNCHANGED <<lock, job>>
        /\ \A u \in Threads \ {t} : pc'[u] \notin Holding
    BY <1>1, <1>7, GoesOnInside, InsideIs
  <2>2. TypeOK'
    BY <1>1, <1>2, <1>4, <1>7, <2>1 DEF TypeOK, loopVars
  <2>3. t = "loop" => LoopInv'
    BY <2>1 DEF LoopInv, ParkLabels, LaunchLabels
  <2>4. HeldInv(t)'
    BY <1>3, <1>4, <2>1 DEF HeldInv
  <2> QED BY <1>5, <2>1, <2>2, <2>3, <2>4, StepIn
<1> QED BY <1>1, <1>6, <1>7

(* A close that stopped the application gives the lock back.               *)
LEMMA AfterCloseEnds ==
  ASSUME DInv, NEW t \in Threads, pc[t] \in Holding, AfterClose(t)
  PROVE  /\ LockInv' /\ pc' \in [Threads -> Labels] /\ job' \in [Threads -> Jobs]
         /\ lock' \in Threads \cup {"free"}
         /\ \A u \in Threads : pc'[u] \notin Holding
<1>1. TypeOK /\ LockInv /\ lock = t
  BY DEF DInv, LockInv
<1>2. CASE Finish(t)
  BY <1>2, EndsInside
<1>3. CASE lock' = "free" /\ pc' = [pc EXCEPT ![t] = "reload"] /\ UNCHANGED job
  <2>1. /\ pc' \in [Threads -> Labels] /\ pc'[t] = "reload"
        /\ \A u \in Threads \ {t} : pc'[u] = pc[u]
        /\ "reload" \notin Holding
    BY <1>1, <1>3, Goes, OutsideIs
  <2>2. \A u \in Threads : pc'[u] \notin Holding
    BY <1>1, <2>1, Alone
  <2> QED BY <1>1, <1>3, <2>1, <2>2, TypeParts, OutsideIs DEF LockInv, Threads
<1> QED BY <1>2, <1>3 DEF AfterClose

(* A close stops the application, or fails to.                             *)
LEMMA CloseStopKeeps ==
  ASSUME DInv, NEW t \in Threads, CloseStop(t)
  PROVE  DInv'
<1> DEFINE a == job[t].app
<1>1. /\ pc[t] = "closeStop" /\ UNCHANGED <<exits, bridge, screen, loopVars>>
      /\ \/ /\ unit' = [unit EXCEPT ![a] = "off"] /\ Forget(a)
            /\ UNCHANGED domain \/ domain' = In("Manager")
            /\ lastApp' \in {lastApp, NoApp}
            /\ UNCHANGED resident \/ resident' = [resident EXCEPT ![a] = FALSE]
            /\ AfterClose(t) \/ Fail(t)
         \/ /\ \E u \in HalfStopped(a) : unit' = [unit EXCEPT ![a] = u]
            /\ FailClose(t)
            /\ UNCHANGED <<managerVars, tracked, resident>>
  BY DEF CloseStop
<1>2. TypeOK /\ FrozenInv /\ StockRunsNothing
  BY DEF DInv
<1>3. CASE /\ unit' = [unit EXCEPT ![a] = "off"] /\ Forget(a)
           /\ UNCHANGED domain \/ domain' = In("Manager")
           /\ lastApp' \in {lastApp, NoApp}
           /\ UNCHANGED resident \/ resident' = [resident EXCEPT ![a] = FALSE]
           /\ AfterClose(t) \/ Fail(t)
  <2>1. /\ LockInv' /\ pc' \in [Threads -> Labels] /\ job' \in [Threads -> Jobs]
        /\ lock' \in Threads \cup {"free"}
        /\ \A u \in Threads : pc'[u] \notin Holding
    BY <1>1, <1>3, AfterCloseEnds, EndsInside, InsideIs
  <2>2. /\ unit' \in [App -> {"off", "run", "frozen", "dying", "ending"}]
        /\ resident' \in [App -> BOOLEAN]
        /\ \A b \in App : unit'[b] \in {unit[b], "off"}
    BY <1>2, <1>3 DEF TypeOK
  <2>3. /\ tracked' \in [App -> Policies \cup {"none"}]
        /\ report' \in [App -> (Ages \X Sources) \cup {NoReport}]
        /\ \A b \in App : tracked'[b] \in {tracked[b], "none"}
    BY <1>2, <1>3, ForgetType
  <2>4. ManagerTypeOK'
    BY <1>2, <1>3 DEF TypeOK, ManagerTypeOK, DomainStates, PlainDomains
  <2>5. TypeOK'
    BY <1>1, <1>2, <2>1, <2>2, <2>3, <2>4 DEF TypeOK, Jobs, loopVars
  <2>6. FrozenInv' /\ StockRunsNothing'
    BY <1>1, <1>2, <1>3, <2>2, <2>3, OnIs, UnitsKeep
  <2> QED BY <2>1, <2>5, <2>6, StepOff
<1>4. CASE /\ \E u \in HalfStopped(a) : unit' = [unit EXCEPT ![a] = u]
           /\ FailClose(t)
           /\ UNCHANGED <<managerVars, tracked, resident>>
  <2>1. /\ LockInv' /\ pc' \in [Threads -> Labels] /\ job' \in [Threads -> Jobs]
        /\ lock' \in Threads \cup {"free"}
        /\ \A u \in Threads : pc'[u] \notin Holding
        /\ report' \in [App -> (Ages \X Sources) \cup {NoReport}]
    BY <1>1, <1>4, FailCloseEnds, InsideIs
  <2>2. /\ unit' \in [App -> {"off", "run", "frozen", "dying", "ending"}]
        /\ \A b \in App : /\ unit'[b] = "frozen" => unit[b] = "frozen"
                          /\ unit[b] = "off" => unit'[b] = "off"
    <3>1. PICK u \in HalfStopped(a) : unit' = [unit EXCEPT ![a] = u]
      BY <1>4
    <3>2. \/ u = unit[a]
          \/ unit[a] \in {"run", "frozen"} /\ u \in {"run", "dying"}
      BY <3>1 DEF HalfStopped
    <3>3. unit \in [App -> {"off", "run", "frozen", "dying", "ending"}]
      BY <1>2 DEF TypeOK
    <3> QED BY <3>1, <3>2, <3>3
  <2>3. TypeOK'
    BY <1>1, <1>2, <1>4, <2>1, <2>2 DEF TypeOK, Jobs, ManagerTypeOK, managerVars, loopVars
  <2>4. FrozenInv' /\ StockRunsNothing'
    BY <1>1, <1>2, <1>4, <2>2, UnitsKeep DEF managerVars
  <2> QED BY <2>1, <2>3, <2>4, StepOff
<1> QED BY <1>1, <1>3, <1>4

(* The stock system comes back, or does not.                                *)
LEMMA FailRestoreEnds ==
  ASSUME DInv, NEW t \in Threads, pc[t] = "stopAll", Finish(t) \/ FailRestore(t)
  PROVE  /\ LockInv' /\ pc' \in [Threads -> Labels] /\ job' \in [Threads -> Jobs]
         /\ lock' \in Threads \cup {"free"}
         /\ \A u \in Threads : pc'[u] \notin Holding
<1>1. TypeOK /\ LockInv
  BY DEF DInv
<1>2. CASE Finish(t) \/ Fail(t)
  BY <1>2, EndsInside, InsideIs
<1>3. CASE job[t].kind = "Recovery" /\ Leave(t, "exited")
  <2>1. t # "package"
    BY <1>1, <1>3 DEF LockInv
  <2>2. \A u \in Threads \ {t} : pc[u] \notin Holding
    BY <1>1, Alone, InsideIs
  <2> QED BY <1>1, <1>3, <2>1, <2>2, Leaves, OutsideIs
<1> QED BY <1>2, <1>3 DEF FailRestore

(* All units are stopped, or some, and stock comes back or not.            *)
LEMMA StopAllKeeps ==
  ASSUME DInv, NEW t \in Threads, StopAll(t)
  PROVE  DInv'
<1>1. /\ pc[t] = "stopAll" /\ UNCHANGED <<bridge, loopVars>>
      /\ \/ /\ unit' = AllStopped /\ tracked' = [b \in App |-> "none"] /\ screen' = "none"
            /\ \E kept \in SUBSET App : resident' = [b \in App |-> b \in kept]
            /\ \/ Apply("SystemReady", NoApp) /\ Finish(t)
               \/ FailRestore(t) /\ UNCHANGED managerVars
            /\ UNCHANGED <<report, exits>>
         \/ /\ \E stopped \in SUBSET App :
                 /\ \E last \in App, u \in {"run", "dying"} :
                      unit' = [b \in App |-> IF b \in stopped THEN "off"
                                             ELSE IF b = last /\ u \in HalfStopped(b) THEN u
                                             ELSE unit[b]]
                 /\ resident' = [b \in App |-> b \notin stopped /\ resident[b]]
                 /\ Reserve({b \in stopped : Active(b)}, "cur")
            /\ FailRestore(t) /\ UNCHANGED <<managerVars, tracked, screen>>
  BY DEF StopAll
<1>2. TypeOK /\ FrozenInv /\ StockRunsNothing /\ HeldInv(t)
  BY DEF DInv, Threads
<1>3. /\ LockInv' /\ pc' \in [Threads -> Labels] /\ job' \in [Threads -> Jobs]
      /\ lock' \in Threads \cup {"free"}
      /\ \A u \in Threads : pc'[u] \notin Holding
  BY <1>1, FailRestoreEnds
<1>4. domain.at = "RestoringSystem"
  BY <1>1, <1>2, OnIs DEF HeldInv
<1>5. ASSUME unit' = AllStopped, tracked' = [b \in App |-> "none"], screen' = "none",
             \E kept \in SUBSET App : resident' = [b \in App |-> b \in kept],
             Apply("SystemReady", NoApp) \/ UNCHANGED managerVars,
             UNCHANGED <<report, exits>>
      PROVE  DInv'
  <2>1. ManagerTypeOK'
    BY <1>2, <1>5, ApplyType DEF TypeOK, ManagerTypeOK, managerVars
  <2>2. resident' \in [App -> BOOLEAN]
    BY <1>5
  <2>3. TypeOK'
    BY <1>1, <1>2, <1>3, <1>5, <2>1, <2>2 DEF TypeOK, Jobs, AllStopped, loopVars
  <2>4. FrozenInv' /\ StockRunsNothing'
    BY <1>5 DEF FrozenInv, StockRunsNothing, AllStopped
  <2> QED BY <1>3, <2>3, <2>4, StepOff
<1>6. ASSUME NEW stopped \in SUBSET App, NEW last \in App, NEW u \in {"run", "dying"},
             unit' = [b \in App |-> IF b \in stopped THEN "off"
                                    ELSE IF b = last /\ u \in HalfStopped(b) THEN u
                                    ELSE unit[b]],
             resident' = [b \in App |-> b \notin stopped /\ resident[b]],
             Reserve({b \in stopped : Active(b)}, "cur"),
             UNCHANGED <<managerVars, tracked, screen>>
      PROVE  DInv'
  <2>1. /\ unit' \in [App -> {"off", "run", "frozen", "dying", "ending"}]
        /\ \A b \in App : unit'[b] = "frozen" => unit[b] = "frozen"
    BY <1>2, <1>6 DEF TypeOK
  <2>2. resident' \in [App -> BOOLEAN]
    BY <1>6
  <2>3. /\ report' \in [App -> (Ages \X Sources) \cup {NoReport}]
        /\ exits' \in [App -> SUBSET Ages]
    <3>1. {b \in stopped : Active(b)} \in SUBSET App /\ "cur" \in Ages
      BY DEF Ages
    <3> QED BY <1>2, <1>6, <3>1, ReserveType
  <2>4. TypeOK'
    BY <1>1, <1>2, <1>3, <1>6, <2>1, <2>2, <2>3
    DEF TypeOK, Jobs, ManagerTypeOK, managerVars, loopVars
  <2>5. FrozenInv' /\ StockRunsNothing'
    BY <1>2, <1>4, <1>6, <2>1 DEF FrozenInv, StockRunsNothing, managerVars
  <2> QED BY <1>3, <2>4, <2>5, StepOff
<1>7. CASE /\ unit' = AllStopped /\ tracked' = [b \in App |-> "none"] /\ screen' = "none"
           /\ \E kept \in SUBSET App : resident' = [b \in App |-> b \in kept]
           /\ Apply("SystemReady", NoApp) \/ UNCHANGED managerVars
           /\ UNCHANGED <<report, exits>>
  BY <1>5, <1>7
<1>8. CASE /\ \E stopped \in SUBSET App :
                /\ \E last \in App, u \in {"run", "dying"} :
                     unit' = [b \in App |-> IF b \in stopped THEN "off"
                                            ELSE IF b = last /\ u \in HalfStopped(b) THEN u
                                            ELSE unit[b]]
                /\ resident' = [b \in App |-> b \notin stopped /\ resident[b]]
                /\ Reserve({b \in stopped : Active(b)}, "cur")
           /\ UNCHANGED <<managerVars, tracked, screen>>
  BY <1>6, <1>8
<1> QED BY <1>1, <1>7, <1>8

(* The report of an exit is taken off the queue.                            *)
LEMMA TakeExitKeeps ==
  ASSUME DInv, NEW a \in App, NEW age \in Ages, TakeExit(a, age)
  PROVE  DInv'
<1>1. /\ pc["loop"] = "idle" /\ LockFree
      /\ exits' = [exits EXCEPT ![a] = exits[a] \ {age}]
      /\ report' \in {report, [report EXCEPT ![a] = NoReport]}
      /\ RecordExit(a) \/ UNCHANGED <<managerVars, tracked, resident, screen, lock, pc, job>>
      /\ UNCHANGED <<unit, bridge, loopVars>>
  BY DEF TakeExit
<1>2. TypeOK /\ LockInv /\ FrozenInv /\ StockRunsNothing
  BY DEF DInv
<1>3. /\ report' \in [App -> (Ages \X Sources) \cup {NoReport}]
      /\ exits' \in [App -> SUBSET Ages]
  BY <1>1, <1>2 DEF TypeOK
<1>4. CASE UNCHANGED <<managerVars, tracked, resident, screen, lock, pc, job>>
  <2>1. TypeOK'
    BY <1>1, <1>2, <1>3, <1>4 DEF TypeOK, ManagerTypeOK, managerVars, loopVars
  <2> QED BY <1>1, <1>4, <2>1, Around
<1>5. CASE RecordExit(a)
  <2>1. /\ tracked' = [tracked EXCEPT ![a] = "none"]
        /\ Apply("AppCrashed", a) \/ UNCHANGED managerVars
        /\ screen' \in {screen, "home"}
        /\ UNCHANGED resident \/ resident' = [resident EXCEPT ![a] = FALSE]
        /\ UNCHANGED <<lock, pc, job>> \/ Fail("loop")
    BY <1>5 DEF RecordExit, ShownOrNot
  <2>2. ManagerTypeOK' /\ (domain' = domain \/ domain' = In("Manager"))
    <3>1. CASE Apply("AppCrashed", a)
      BY <1>2, <3>1, ToManager, ApplyType DEF TypeOK
    <3>2. CASE UNCHANGED managerVars
      BY <1>2, <3>2 DEF TypeOK, ManagerTypeOK, managerVars
    <3> QED BY <2>1, <3>1, <3>2
  <2>3. /\ LockInv' /\ pc' \in [Threads -> Labels] /\ job' \in [Threads -> Jobs]
        /\ lock' \in Threads \cup {"free"}
        /\ \A u \in Threads : pc'[u] \notin Holding
    <3>1. CASE Fail("loop")
      BY <1>1, <3>1, EndsInside DEF Threads
    <3>2. CASE UNCHANGED <<lock, pc, job>>
      BY <1>1, <1>2, <3>2, TypeParts DEF LockInv, LockFree, Threads
    <3> QED BY <2>1, <3>1, <3>2
  <2>4. /\ tracked' \in [App -> Policies \cup {"none"}] /\ resident' \in [App -> BOOLEAN]
        /\ \A b \in App : tracked'[b] \in {tracked[b], "none"}
    BY <1>2, <2>1 DEF TypeOK
  <2>5. TypeOK'
    BY <1>1, <1>2, <1>3, <2>1, <2>2, <2>3, <2>4 DEF TypeOK, Jobs, loopVars
  <2>6. FrozenInv' /\ StockRunsNothing'
    BY <1>1, <1>2, <2>1, <2>2, <2>4, OnIs, UnitsKeep
  <2> QED BY <2>3, <2>5, <2>6, StepOff
<1> QED BY <1>1, <1>4, <1>5

(* A fresh daemon, at first and after a restart, is in stock.               *)
LEMMA FreshIs ==
  /\ NoJob \in Jobs /\ NoJob.kind = "none"
  /\ In("System") \in DomainStates /\ In("System").at = "System"
  /\ \A a \in App : In("System") # On("Foreground", a)
  BY OnIs DEF NoJob, Jobs, DomainStates, PlainDomains

(* A restart ages the reports the bridges have to make.                    *)
LEMMA AgedBridge ==
  ASSUME TypeOK, bridge' = [a \in App |-> Aged(bridge[a])]
  PROVE  bridge' \in [App -> Ages \cup {"none"}]
  BY DEF TypeOK, Aged, Ages

(* The daemon is restarted.                                                *)
LEMMA RestartKeeps == DInv /\ RestartDaemon => DInv'
<1> SUFFICES ASSUME DInv, RestartDaemon PROVE DInv'
  OBVIOUS
<1>1. /\ domain' = In("System") /\ lastApp' = NoApp
      /\ unit' = [a \in App |-> "off"]
      /\ tracked' = [a \in App |-> "none"]
      /\ report' = [a \in App |-> NoReport] /\ exits' = [a \in App |-> {}]
      /\ bridge' = [a \in App |-> Aged(bridge[a])]
      /\ screen' = "none" /\ lock' = "free"
      /\ pc' = [t \in Threads |-> "idle"] /\ job' = [t \in Threads |-> NoJob]
      /\ fresh' = TRUE /\ fence' = "pending" /\ UNCHANGED resident
  BY DEF RestartDaemon, AllStopped
<1>2. bridge' \in [App -> Ages \cup {"none"}] /\ resident' \in [App -> BOOLEAN]
  BY <1>1, AgedBridge DEF DInv, TypeOK
<1>3. "idle" \in Labels
  BY DEF Labels
<1>4. TypeOK'
  BY <1>1, <1>2, <1>3, FreshIs DEF TypeOK, Jobs, ManagerTypeOK
<1>5. LockInv'
  BY <1>1, FreshIs, OutsideIs DEF LockInv, Threads
<1>6. FrozenInv' /\ StockRunsNothing'
  BY <1>1 DEF FrozenInv, StockRunsNothing
<1>7. \A u \in Threads : pc'[u] \notin Holding
  BY <1>1, OutsideIs
<1> QED BY <1>4, <1>5, <1>6, <1>7, StepOff

(* The initial states satisfy the invariant.                               *)
LEMMA InitSafe == Init => DInv
<1> SUFFICES ASSUME Init PROVE DInv
  OBVIOUS
<1>1. "idle" \in Labels \ Holding
  BY OutsideIs
<1>2. TypeOK
  BY <1>1, FreshIs DEF Init, ManagerInit, TypeOK, Jobs, ManagerTypeOK
<1>3. LockInv
  BY FreshIs, OutsideIs DEF Init, LockInv, Threads
<1>4. LoopInv /\ HeldInv("loop") /\ HeldInv("package")
  BY <1>1 DEF Init, LoopInv, HeldInv, Threads, Holding, ParkLabels, LaunchLabels, CloseLabels
<1>5. FrozenInv /\ StockRunsNothing
  BY DEF Init, FrozenInv, StockRunsNothing
<1> QED BY <1>2, <1>3, <1>4, <1>5 DEF DInv

(* Every step of a close or a reload keeps the invariant.                  *)
LEMMA ClosesKeep ==
  ASSUME DInv, NEW t \in Threads, CloseStep(t)
  PROVE  DInv'
  BY CloseBegins, CloseThawKeeps, CloseRevealKeeps, CloseStopKeeps, ReloadsKeep DEF CloseStep

(* Every step of restoring stock keeps it.                                 *)
LEMMA RestoresKeep ==
  ASSUME DInv, NEW t \in Threads, RestoreStep(t)
  PROVE  DInv'
  BY RestoreBegins, StopAllKeeps DEF RestoreStep

(* Every step of a park keeps it.                                          *)
LEMMA ParksKeep == DInv /\ ParkStep => DInv'
  BY BeginParkKeeps, AskBackgroundKeeps, HandOffKeeps, FreezeKeeps, RecoverParkKeeps,
     AskForegroundKeeps, RestoreForegroundKeeps, StopsKeep DEF ParkStep

(* Every step of a launch keeps it.                                        *)
LEMMA LaunchesKeep == DInv /\ LaunchStep => DInv'
  BY PrepareKeeps, RegisterKeeps, StartKeeps, AwaitsKeep, ActivateKeeps, StopsKeep
  DEF LaunchStep

(* A step that changes nothing keeps it.                                   *)
LEMMA StutterKeeps == DInv /\ UNCHANGED vars => DInv'
  BY DEF vars, managerVars, appVars, loopVars, DInv, TypeOK, ManagerTypeOK, LockInv, LoopInv,
         HeldInv, FrozenInv, StockRunsNothing

(* Every step keeps the invariant.                                         *)
LEMMA NextSafe == DInv /\ [Next]_vars => DInv'
<1> SUFFICES ASSUME DInv, [Next]_vars PROVE DInv'
  OBVIOUS
<1>1. CASE UserEvent
  <2>1. ASSUME NEW kind \in AppKinds, NEW a \in App, Take(kind, a) PROVE DInv'
    BY <2>1, TakeKeeps
  <2>2. ASSUME NEW kind \in PlainKinds, Take(kind, NoApp) PROVE DInv'
    BY <2>2, TakeKeeps
  <2> QED BY <1>1, <2>1, <2>2, RequestsKeep DEF UserEvent
<1>2. CASE LoopStep
  BY <1>2, RouteKeeps, ParksKeep, LaunchesKeep, EnterManagerKeeps, EnterManagedKeeps,
     ClosesKeep, RestoresKeep, RecoverKeeps, TakeExitKeeps DEF LoopStep, Threads
<1>3. CASE PackageStep
  BY <1>3, ClosesKeep, RestoresKeep DEF PackageStep, Threads
<1>4. CASE \E a \in App : StartPackage(a) \/ Die(a) \/ Runner(a)
  BY <1>4, StartPackageKeeps, OutsideKeeps
<1> QED BY <1>1, <1>2, <1>3, <1>4, RestartKeeps, StutterKeeps DEF Next

(* The invariant holds always, for any applications and any faults.         *)
THEOREM Invariance == Spec => []DInv
  BY InitSafe, NextSafe, PTL DEF Spec

(* Every variable has its type in every reachable state.                   *)
THEOREM TypeCorrect == Spec => []TypeOK
<1>1. DInv => TypeOK
  BY DEF DInv
<1> QED BY <1>1, Invariance, PTL

(* While stock owns the device no unit of ours runs and none is tracked.   *)
THEOREM NothingRunsInStock == Spec => []StockRunsNothing
<1>1. DInv => StockRunsNothing
  BY DEF DInv
<1> QED BY <1>1, Invariance, PTL

(* No wait for an application runs while its unit is frozen.               *)
THEOREM NobodyWaitsForTheFrozen == Spec => []FrozenNeverAwaited
<1>1. DInv => FrozenNeverAwaited
  BY DEF DInv, LoopInv, FrozenNeverAwaited, ParkLabels
<1> QED BY <1>1, Invariance, PTL

(* What runs keeps its policy through the step, or is given up.            *)
PolicyKept ==
  \A a \in App : unit[a] \in {"run", "frozen"} /\ tracked[a] # "none"
                   => tracked'[a] \in {tracked[a], "none"}

(* Steps that only forget registrations keep the policies.                 *)
LEMMA ReleasesKeepPolicy ==
  ASSUME TypeOK, UNCHANGED tracked \/ (\E a : Forget(a) \/ tracked' = [tracked EXCEPT ![a] = "none"])
                 \/ tracked' = [a \in App |-> "none"]
  PROVE  PolicyKept
  BY DEF PolicyKept, Forget, TypeOK

(* A registration is made only for a unit that is off.                     *)
LEMMA NextKeepsPolicy == DInv /\ [Next]_vars => PolicyKept
<1> SUFFICES ASSUME DInv, [Next]_vars PROVE PolicyKept
  OBVIOUS
<1>1. TypeOK /\ LoopInv
  BY DEF DInv
<1>2. CASE RegisterRuntime
  <2> DEFINE a == job["loop"].app
  <2>1. pc["loop"] = "register" /\ (UNCHANGED tracked \/ (~job["loop"].flag /\ NewGeneration(a)))
    BY <1>2 DEF RegisterRuntime, Register
  <2>2. a \in App
    BY <2>1, WorksOn, ParkLabelsAre
  <2>3. CASE ~job["loop"].flag /\ NewGeneration(a)
    <3>1. unit[a] = "off"
      BY <1>1, <2>1, <2>3 DEF LoopInv
    <3>2. \A b \in App \ {a} : tracked'[b] = tracked[b]
      BY <1>1, <2>2, <2>3, NewGenerationType
    <3> QED BY <3>1, <3>2 DEF PolicyKept
  <2> QED BY <1>1, <2>1, <2>3, ReleasesKeepPolicy
<1>3. CASE UserEvent \/ UNCHANGED vars
  BY <1>1, <1>3, ReleasesKeepPolicy
  DEF UserEvent, Take, TakeCancelled, Interrupt, CancelRequest, vars, appVars
<1>4. CASE ParkStep
  BY <1>1, <1>4, ReleasesKeepPolicy
  DEF ParkStep, BeginPark, AskBackground, HandOff, Freeze, RecoverPark, AskForeground,
      RestoreForeground, ForceStop, appVars
<1>5. CASE LaunchStep /\ ~RegisterRuntime
  BY <1>1, <1>5, ReleasesKeepPolicy
  DEF LaunchStep, Prepare, Start, AwaitReady, CommitLaunch, ActivateForeground,
      RollbackLaunch, appVars
<1>6. ASSUME NEW t, CloseStep(t) PROVE PolicyKept
  BY <1>1, <1>6, ReleasesKeepPolicy
  DEF CloseStep, Close, CloseThaw, CloseReveal, CloseStop, Reload, ReloadShow, appVars
<1>7. ASSUME NEW t, RestoreStep(t) PROVE PolicyKept
  BY <1>1, <1>7, ReleasesKeepPolicy DEF RestoreStep, RestoreSystem, StopAll, appVars
<1>8. CASE Route \/ EnterManager \/ EnterManaged \/ Recover \/ RestartDaemon
  BY <1>1, <1>8, ReleasesKeepPolicy
  DEF Route, EnterManager, EnterManaged, Recover, RestartDaemon, appVars
<1>9. ASSUME NEW a \in App, NEW age \in Ages, TakeExit(a, age) PROVE PolicyKept
  BY <1>1, <1>9, ReleasesKeepPolicy DEF TakeExit, RecordExit
<1>10. ASSUME NEW a \in App, StartPackage(a) \/ Die(a) \/ Runner(a) PROVE PolicyKept
  BY <1>1, <1>10, ReleasesKeepPolicy
  DEF StartPackage, Die, Runner, RunnerReports, UnitEnds, BridgeReports, appVars
<1> QED BY <1>2, <1>3, <1>4, <1>5, <1>6, <1>7, <1>8, <1>9, <1>10
        DEF Next, LoopStep, PackageStep

(* A live process keeps the policy it was registered with.                 *)
THEOREM PolicyIsCaptured == Spec => CapturedPolicyHolds
<1>1. DInv /\ [Next]_vars => [PolicyKept]_vars
  BY NextKeepsPolicy
<1> QED BY <1>1, Invariance, PTL DEF Spec, CapturedPolicyHolds, PolicyKept

-----------------------------------------------------------------------------
(***************************************************************************)
(* The daemon is the Device of that module                                 *)
(***************************************************************************)
(* Before the loop gives the screen to an application it has taken it from  *)
(* whoever had it; only Home can have come in between.                     *)
Giving == {"activate", "askForeground", "restoreForeground"}
Vacated == pc["loop"] \in Giving => screen \in Promised!Between

(* A step that gives the screen to no application.                         *)
LEMMA StaysVacated ==
  ASSUME Vacated, screen' \in {screen, "home", "none"},
         pc'["loop"] \in Giving => pc["loop"] \in Giving \/ screen' = "none"
  PROVE  Vacated'
  BY DEF Vacated, Promised!Between

(* The places of the loop at which the stock system does not have the      *)
(* device.                                                                 *)
LEMMA OursInside ==
  ASSUME DInv
  PROVE  /\ pc["loop"] \in ParkLabels => domain.at = "Parking"
         /\ pc["loop"] \in LaunchLabels => domain.at = "Launching"
         /\ pc["loop"] = "entering" => domain.at = "EnteringManaged"
  BY OnIs DEF DInv, LoopInv

DeviceStep == [Promised!Next]_(Promised!vars)

(* A step that takes the screen from an application or shows Home, thaws    *)
(* and stops, or does nothing of the kind.                                 *)
LEMMA Withdraws ==
  ASSUME StockRunsNothing, screen' \in {screen, "home", "none"},
         \A b \in App : /\ unit'[b] = "frozen" => unit[b] = "frozen"
                        /\ unit[b] = "off" => unit'[b] = "off",
         (domain.at = "System") = (domain'.at = "System"),
         domain.at = "System" => UNCHANGED screen
  PROVE  DeviceStep
<1>1. Up' \subseteq Up /\ InFreezer' \subseteq InFreezer /\ InFreezer' \subseteq Up'
  BY DEF Up, InFreezer, Active
<1>2. CASE domain.at = "System"
  <2>1. Up = {} /\ InFreezer = {}
    BY <1>2 DEF StockRunsNothing, Up, InFreezer, Active
  <2>2. UNCHANGED Promised!vars
    BY <1>1, <1>2, <2>1 DEF Promised!vars
  <2> QED BY <2>2 DEF DeviceStep
<1>3. CASE domain.at # "System"
  <2>1. Promised!Withdraw
    BY <1>1, <1>3 DEF Promised!Withdraw, Promised!Between
  <2> QED BY <2>1 DEF DeviceStep, Promised!Next
<1> QED BY <1>2, <1>3

(* The same without a change of the domain or the units.                    *)
LEMMA OnlyShows ==
  ASSUME DInv, UNCHANGED <<domain, unit>>, screen' \in {screen, "home", "none"},
         domain.at = "System" => UNCHANGED screen
  PROVE  DeviceStep
  BY Withdraws DEF DInv

(* Both threads' steps leave the place of the other one alone.              *)
LEMMA LoopStays ==
  ASSUME TypeOK, NEW label, pc' = [pc EXCEPT !["package"] = label]
  PROVE  pc'["loop"] = pc["loop"]
  BY DEF TypeOK, Threads

(* Routing an event.                                                       *)
LEMMA RouteIsDevice == DInv /\ Vacated /\ Route => Vacated' /\ DeviceStep
<1> SUFFICES ASSUME DInv, Vacated, Route PROVE Vacated' /\ DeviceStep
  OBVIOUS
<1>1. UNCHANGED <<domain, unit>>
  BY DEF Route, managerVars, appVars
<1>2. UNCHANGED screen \/ (domain.at = "Manager" /\ screen' \in {screen, "home"})
  BY DEF Route, EnsureHome, ShownOrNot
<1>3. MovesOn /\ pc["loop"] = "route"
  BY RouteMoves DEF Route
<1>4. pc'["loop"] \notin Giving
  <2>1. ASSUME NEW l \in Labels \ Giving, pc' = [pc EXCEPT !["loop"] = l]
        PROVE  pc'["loop"] \notin Giving
    BY <2>1 DEF DInv, TypeOK, Threads
  <2>2. {"idle", "recover", "park", "prepare", "enter", "restore", "close", "reload"}
          \subseteq Labels \ Giving
    BY DEF Labels, Giving
  <2>3. ASSUME \/ Finish("loop") \/ Fail("loop") \/ ParkTarget("park")
               \/ \E l \in {"park", "prepare", "enter", "restore", "close", "reload"} :
                    Goto("loop", l)
        PROVE  pc'["loop"] \notin Giving
    BY <2>1, <2>2, <2>3 DEF Finish, Fail, Leave, Goto, ParkTarget
  <2>4. ASSUME NEW a, LaunchRoute(a) PROVE pc'["loop"] \notin Giving
    BY <2>3, <2>4 DEF LaunchRoute
  <2>5. ASSUME NEW kind, PowerRoute(kind) PROVE pc'["loop"] \notin Giving
    BY <2>1, <2>2, <2>3, <2>5 DEF PowerRoute
  <2>6. EnsureHome => pc'["loop"] \notin Giving
    BY <2>3 DEF EnsureHome
  <2> QED BY <2>3, <2>4, <2>5, <2>6 DEF Route
<1>5. Vacated'
  BY <1>2, <1>4, StaysVacated
<1>6. DeviceStep
  BY <1>1, <1>2, OnlyShows
<1> QED BY <1>5, <1>6

(* A step of the loop to a place that gives nobody the screen.              *)
LEMMA LoopGoes ==
  ASSUME TypeOK, NEW l, l \notin Giving, pc' = [pc EXCEPT !["loop"] = l]
  PROVE  Vacated'
  BY DEF TypeOK, Threads, Vacated

(* Nor does a handler that ends.                                           *)
LEMMA LoopEnds ==
  ASSUME TypeOK, Finish("loop") \/ Fail("loop") \/ Leave("loop", "exited")
  PROVE  Vacated'
<1>1. {"idle", "recover", "exited"} \cap Giving = {}
  BY DEF Giving
<1> QED BY <1>1, LoopGoes DEF Finish, Fail, Leave

(* Parking up to the freeze.                                               *)
LEMMA ParkIsDevice ==
  ASSUME DInv, Vacated, BeginPark \/ AskBackground \/ HandOff
  PROVE  Vacated' /\ DeviceStep
<1>1. TypeOK
  BY DEF DInv
<1>2. {"askBackground", "handOff", "freeze", "recoverPark"} \cap Giving = {}
  BY DEF Giving
<1>3. CASE BeginPark
  <2>1. Vacated'
    BY <1>1, <1>2, <1>3, LoopGoes, LoopEnds DEF BeginPark, Acquire
  <2>2. (domain.at = "System") = (domain'.at = "System")
    BY <1>3, ParkBegins, OnIs DEF BeginPark, managerVars
  <2> QED BY <1>3, <2>1, <2>2, Withdraws DEF BeginPark, appVars, DInv
<1>4. CASE AskBackground
  <2>1. Vacated'
    BY <1>1, <1>2, <1>4, LoopGoes DEF AskBackground, Goto
  <2> QED BY <1>4, <2>1, OnlyShows DEF AskBackground, managerVars
<1>5. CASE HandOff
  <2>1. Vacated'
    BY <1>1, <1>2, <1>5, LoopGoes DEF HandOff, Goto
  <2>2. domain.at # "System"
    BY <1>5, OursInside, ParkLabelsAre DEF HandOff
  <2>3. screen' \in {screen, "home", "none"}
    BY <1>5 DEF HandOff, NextOwner, ShownOrNot
  <2> QED BY <1>5, <2>1, <2>2, <2>3, OnlyShows DEF HandOff, managerVars, appVars
<1> QED BY <1>3, <1>4, <1>5

(* The freeze: the screen is no longer the application's.                  *)
LEMMA FreezeIsDevice ==
  ASSUME DInv, Vacated, Freeze
  PROVE  Vacated' /\ DeviceStep
<1> DEFINE a == job["loop"].target
<1>1. TypeOK /\ pc["loop"] = "freeze" /\ a \in App /\ screen # a /\ domain.at = "Parking"
  BY WorksOn, OursInside, ParkLabelsAre DEF Freeze, DInv, LoopInv
<1>2. Vacated'
  <2>1. {"recoverPark", "restore", "prepare"} \cap Giving = {}
    BY DEF Giving
  <2> QED BY <1>1, <2>1, LoopGoes, LoopEnds DEF Freeze, Goto, AfterPark, Release
<1>3. domain'.at # "System" /\ UNCHANGED screen
  BY <1>1, ToManager, OnIs DEF Freeze, managerVars
<1>4. UNCHANGED unit \/ (unit[a] = "run" /\ unit' = [unit EXCEPT ![a] = "frozen"])
  BY <1>1 DEF Freeze, Frozen, TypeOK
<1>5. CASE UNCHANGED unit
  BY <1>1, <1>2, <1>3, <1>5, Withdraws DEF DInv
<1>6. CASE unit[a] = "run" /\ unit' = [unit EXCEPT ![a] = "frozen"]
  <2>1. \A b \in App : unit'[b] = IF b = a THEN "frozen" ELSE unit[b]
    BY <1>1, <1>6 DEF TypeOK
  <2>2. Up' = Up /\ InFreezer' = InFreezer \cup {a} /\ a \in Up
    BY <1>1, <1>6, <2>1 DEF Up, InFreezer, Active
  <2>3. Promised!Freeze(a)
    BY <1>1, <1>3, <2>2 DEF Promised!Freeze
  <2> QED BY <1>1, <1>2, <2>3 DEF DeviceStep, Promised!Next
<1> QED BY <1>4, <1>5, <1>6

(* A forced stop, whether it works or not.                                 *)
LEMMA StopIsDevice ==
  ASSUME DInv, ForceStop \/ RollbackLaunch
  PROVE  Vacated' /\ DeviceStep
<1>1. TypeOK /\ domain.at # "System"
  BY OursInside, ParkLabelsAre DEF ForceStop, RollbackLaunch, DInv
<1>2. Vacated'
  BY <1>1, LoopEnds DEF ForceStop, RollbackLaunch
<1>3. PICK a : \/ /\ StoppedCold(a) /\ Apply("AppExited", a)
                  /\ screen' \in {screen, "home"}
               \/ StopRefused(a) /\ UNCHANGED <<managerVars, screen>>
  BY DEF ForceStop, RollbackLaunch, ShownOrNot
<1>4. domain'.at # "System"
  BY <1>1, <1>3, ToManager, OnIs DEF managerVars
<1>5. \A b \in App : /\ unit'[b] = "frozen" => unit[b] = "frozen"
                     /\ unit[b] = "off" => unit'[b] = "off"
  BY <1>1, <1>3, RefusedStop, ColdStop
<1> QED BY <1>1, <1>2, <1>3, <1>4, <1>5, Withdraws DEF DInv

(* Bringing the application back after a park that failed.                 *)
LEMMA RecoverParkIsDevice ==
  ASSUME DInv, RecoverPark
  PROVE  Vacated' /\ DeviceStep
<1> DEFINE a == job["loop"].target
<1>1. TypeOK /\ domain.at # "System" /\ a \in App
  BY WorksOn, OursInside, ParkLabelsAre DEF RecoverPark, DInv
<1>2. Vacated'
  <2>1. CASE screen' = "none"
    BY <2>1 DEF Vacated, Promised!Between
  <2>2. CASE Goto("loop", "forceStop")
    <3>1. "forceStop" \notin Giving
      BY DEF Giving
    <3> QED BY <1>1, <2>2, <3>1, LoopGoes DEF Goto
  <2> QED BY <2>1, <2>2 DEF RecoverPark
<1>3. \A b \in App : /\ unit'[b] = "frozen" => unit[b] = "frozen"
                     /\ unit[b] = "off" => unit'[b] = "off"
  BY <1>1 DEF RecoverPark, Thaw, TypeOK
<1>4. screen' \in {screen, "home", "none"} /\ UNCHANGED domain
  BY DEF RecoverPark, managerVars
<1> QED BY <1>1, <1>2, <1>3, <1>4, Withdraws DEF DInv

(* An application gets the screen when nobody but Home has it, thawed.      *)
LEMMA Gives ==
  ASSUME DInv, Vacated, pc["loop"] \in Giving, UNCHANGED unit,
         NEW a \in App, unit[a] # "frozen", screen' \in {screen, a},
         domain.at # "System", domain'.at # "System"
  PROVE  DeviceStep
<1>1. CASE screen' = screen
  BY <1>1, Withdraws DEF DInv
<1>2. CASE screen' = a
  <2>1. Promised!Give(a)
    BY <1>2 DEF Promised!Give, Vacated, Up, InFreezer, Active
  <2> QED BY <2>1 DEF DeviceStep, Promised!Next
<1> QED BY <1>1, <1>2

(* Activating a launch, restoring a foreground.                            *)
LEMMA ActivateIsDevice ==
  ASSUME DInv, Vacated, ActivateForeground \/ RestoreForeground
  PROVE  Vacated' /\ DeviceStep
<1> DEFINE a == IF pc["loop"] = "activate" THEN job["loop"].app ELSE job["loop"].target
<1>1. TypeOK /\ domain.at # "System" /\ a \in App /\ unit[a] # "frozen" /\ pc["loop"] \in Giving
  BY WorksOn, OursInside, ParkLabelsAre
  DEF ActivateForeground, RestoreForeground, DInv, LoopInv, Giving
<1>2. Vacated'
  <2>1. {"rollback", "forceStop"} \cap Giving = {}
    BY DEF Giving
  <2> QED BY <1>1, <2>1, LoopGoes, LoopEnds DEF ActivateForeground, RestoreForeground, Goto
<1>3. screen' \in {screen, a} /\ UNCHANGED unit
  BY DEF ActivateForeground, RestoreForeground, ShownOrNot, appVars
<1>4. domain'.at # "System"
  BY <1>1, ToForeground, OnIs DEF ActivateForeground, RestoreForeground, managerVars
<1> QED BY <1>1, <1>2, <1>3, <1>4, Gives

(* Waiting for an answer.                                                  *)
LEMMA WaitIsDevice ==
  ASSUME DInv, Vacated, AskForeground \/ RegisterRuntime \/ AwaitReady \/ CommitLaunch
  PROVE  Vacated' /\ DeviceStep
<1>1. TypeOK /\ domain.at # "System"
  BY OursInside, ParkLabelsAre
  DEF AskForeground, RegisterRuntime, AwaitReady, CommitLaunch, DInv
<1>2. UNCHANGED <<domain, unit>> /\ screen' \in {screen, "none"}
  BY DEF AskForeground, RegisterRuntime, AwaitReady, CommitLaunch, managerVars, appVars
<1>3. Vacated'
  <2>1. {"start", "rollback", "commit", "forceStop"} \cap Giving = {} /\ "askForeground" \in Giving
    BY DEF Giving
  <2>2. CASE AskForeground
    BY <1>2, <2>1, <2>2, StaysVacated DEF AskForeground
  <2>3. CASE CommitLaunch /\ screen' = "none"
    BY <2>3 DEF Vacated, Promised!Between
  <2>4. CASE Goto("loop", "start") \/ Goto("loop", "rollback") \/ Goto("loop", "commit")
    BY <1>1, <2>1, <2>4, LoopGoes DEF Goto
  <2> QED BY <2>2, <2>3, <2>4 DEF RegisterRuntime, AwaitReady, CommitLaunch
<1> QED BY <1>1, <1>2, <1>3, OnlyShows

(* A launch begins, after an untracked unit of it was stopped.             *)
LEMMA PrepareIsDevice ==
  ASSUME DInv, Prepare
  PROVE  Vacated' /\ DeviceStep
<1> DEFINE a == job["loop"].app
<1>1. TypeOK
  BY DEF DInv
<1>2. Vacated'
  <2>1. "register" \notin Giving
    BY DEF Giving
  <2> QED BY <1>1, <2>1, LoopGoes, LoopEnds DEF Prepare, Acquire
<1>3. (domain.at = "System") = (domain'.at = "System")
  BY LaunchBegins, OnIs DEF Prepare, managerVars
<1>4. \A b \in App : /\ unit'[b] = "frozen" => unit[b] = "frozen"
                     /\ unit[b] = "off" => unit'[b] = "off"
  <2>1. UNCHANGED unit \/ StoppedCold(a) \/ StopRefused(a)
    BY DEF Prepare
  <2> QED BY <1>1, <2>1, RefusedStop, ColdStop
<1> QED BY <1>1, <1>2, <1>3, <1>4, Withdraws DEF DInv, Prepare

(* A unit is started, or thawed, outside stock.                            *)
LEMMA StartIsDevice ==
  ASSUME DInv, Start
  PROVE  Vacated' /\ DeviceStep
<1> DEFINE a == job["loop"].app
<1>1. TypeOK /\ domain.at # "System" /\ a \in App /\ UNCHANGED <<domain, screen>>
  BY WorksOn, OursInside, ParkLabelsAre DEF Start, DInv, managerVars
<1>2. Vacated'
  <2>1. {"await", "rollback"} \cap Giving = {}
    BY DEF Giving
  <2> QED BY <1>1, <2>1, LoopGoes DEF Start, Goto
<1>3. \/ /\ unit' = [unit EXCEPT ![a] = "run"]
         /\ unit[a] \in {"off", "frozen"}
      \/ UNCHANGED unit
  <2>1. IF job["loop"].flag THEN tracked[a] # "none" ELSE unit[a] = "off"
    BY DEF DInv, LoopInv, Start
  <2>2. PICK u \in {unit[a], IF job["loop"].flag THEN Thaw(a) ELSE "run"} :
          unit' = [unit EXCEPT ![a] = u]
    BY DEF Start
  <2>3. u = unit[a] \/ (u = "run" /\ unit[a] \in {"off", "frozen"})
    BY <2>1, <2>2 DEF Thaw
  <2> QED BY <1>1, <2>2, <2>3 DEF TypeOK
<1>4. CASE unit' = [unit EXCEPT ![a] = "run"] /\ unit[a] = "off"
  <2>1. \A b \in App : unit'[b] = IF b = a THEN "run" ELSE unit[b]
    BY <1>1, <1>4 DEF TypeOK
  <2>2. Up' = Up \cup {a} /\ InFreezer' = InFreezer
    BY <1>1, <1>4, <2>1 DEF Up, InFreezer, Active
  <2>3. Promised!Start(a)
    BY <1>1, <2>2 DEF Promised!Start
  <2> QED BY <1>1, <1>2, <2>3 DEF DeviceStep, Promised!Next
<1>5. CASE UNCHANGED unit \/ (unit' = [unit EXCEPT ![a] = "run"] /\ unit[a] = "frozen")
  <2>1. \A b \in App : /\ unit'[b] = "frozen" => unit[b] = "frozen"
                       /\ unit[b] = "off" => unit'[b] = "off"
    BY <1>1, <1>5 DEF TypeOK
  <2> QED BY <1>1, <1>2, <2>1, Withdraws DEF DInv
<1> QED BY <1>3, <1>4, <1>5

(* Leaving stock.                                                          *)
LEMMA EnterIsDevice ==
  ASSUME DInv, EnterManager \/ EnterManaged
  PROVE  Vacated' /\ DeviceStep
<1>1. TypeOK
  BY DEF DInv
<1>2. Vacated'
  <2>1. "entering" \notin Giving
    BY DEF Giving
  <2> QED BY <1>1, <2>1, LoopGoes, LoopEnds DEF EnterManager, EnterManaged, Acquire
<1>3. CASE EnterManager
  <2>1. UNCHANGED <<unit, screen>>
    BY <1>3 DEF EnterManager, appVars
  <2>2. CASE domain.at = "System" /\ Apply("TriplePower", NoApp)
    <3>1. Promised!Enter
      BY <2>1, <2>2, ToEntering, OnIs DEF Promised!Enter, Up, InFreezer, Active
    <3> QED BY <3>1, <1>2 DEF DeviceStep, Promised!Next
  <2>3. CASE UNCHANGED managerVars
    BY <1>2, <2>1, <2>3, OnlyShows DEF managerVars
  <2> QED BY <1>3, <2>2, <2>3 DEF EnterManager
<1>4. CASE EnterManaged
  <2>1. domain.at # "System"
    BY <1>4, OursInside DEF EnterManaged
  <2>2. domain'.at # "System"
    BY <1>4, <2>1, ToManager, OnIs DEF EnterManaged, managerVars
  <2>3. \A b \in App : unit'[b] \in {unit[b], "off"}
    BY <1>4 DEF EnterManaged, AllStopped
  <2>4. screen' \in {screen, "home", "none"}
    BY <1>4 DEF EnterManaged, ShownOrNot
  <2> QED BY <1>2, <2>1, <2>2, <2>3, <2>4, Withdraws DEF DInv
<1> QED BY <1>3, <1>4

(* A step of either thread that begins or ends outside the places at which  *)
(* the loop gives the screen.                                              *)
LEMMA ThreadGoes ==
  ASSUME TypeOK, Vacated, NEW t \in Threads, screen' \in {screen, "home", "none"},
         \E l \in Labels \ Giving : pc' = [pc EXCEPT ![t] = l]
  PROVE  Vacated'
<1>1. CASE t = "loop"
  BY <1>1, LoopGoes
<1>2. CASE t = "package"
  BY <1>2, LoopStays, StaysVacated
<1> QED BY <1>1, <1>2 DEF Threads

(* The labels of a close, a reload and a restore are such.                  *)
LEMMA NotGiving ==
  {"closeThaw", "closeReveal", "closeStop", "reload", "reloadShow", "restore", "stopAll",
   "idle", "recover", "exited"} \subseteq Labels \ Giving
  BY DEF Labels, Giving

(* Closing, by either thread, takes the screen of the application that      *)
(* holds it and stops it.                                                  *)
LEMMA CloseIsDevice ==
  ASSUME DInv, Vacated, NEW t \in Threads, CloseStep(t)
  PROVE  Vacated' /\ DeviceStep
<1> DEFINE a == job[t].app
<1>1. TypeOK /\ HeldInv(t)
  BY DEF DInv, Threads
<1>2. screen' \in {screen, "home", "none"} /\ (domain.at = "System" => UNCHANGED screen)
  BY <1>1, OnIs
  DEF HeldInv, CloseStep, Close, CloseThaw, CloseReveal, CloseStop, Reload, ReloadShow,
      ShownOrNot
<1>3. \E l \in Labels \ Giving : pc' = [pc EXCEPT ![t] = l]
  BY NotGiving
  DEF CloseStep, Close, CloseThaw, CloseReveal, CloseStop, Reload, ReloadShow,
      Acquire, Goto, FailClose, AfterClose, Finish, Fail, Leave
<1>4. (domain.at = "System") = (domain'.at = "System")
  <2>1. CASE CloseReveal(t)
    BY <1>1, <2>1, ParkBegins, OnIs DEF CloseReveal, HeldInv
  <2>2. CASE CloseStop(t)
    BY <1>1, <2>2, OnIs DEF CloseStop, HeldInv, managerVars
  <2>3. CASE Close(t) \/ CloseThaw(t) \/ Reload(t) \/ ReloadShow(t)
    BY <2>3 DEF Close, CloseThaw, Reload, ReloadShow, managerVars
  <2> QED BY <2>1, <2>2, <2>3 DEF CloseStep
<1>5. \A b \in App : /\ unit'[b] = "frozen" => unit[b] = "frozen"
                     /\ unit[b] = "off" => unit'[b] = "off"
  <2>1. CASE CloseThaw(t)
    BY <1>1, <2>1 DEF CloseThaw, Thaw, TypeOK
  <2>2. CASE CloseStop(t)
    BY <1>1, <2>2 DEF CloseStop, HalfStopped, TypeOK
  <2>3. CASE Close(t) \/ CloseReveal(t) \/ Reload(t) \/ ReloadShow(t)
    BY <2>3 DEF Close, CloseReveal, Reload, ReloadShow, appVars
  <2> QED BY <2>1, <2>2, <2>3 DEF CloseStep
<1> QED BY <1>1, <1>2, <1>3, <1>4, <1>5, ThreadGoes, Withdraws DEF DInv

(* Restoring stock, by either thread: the screen first, the units before    *)
(* stock is reported.                                                      *)
LEMMA RestoreIsDevice ==
  ASSUME DInv, Vacated, NEW t \in Threads, RestoreStep(t)
  PROVE  Vacated' /\ DeviceStep
<1>1. TypeOK /\ HeldInv(t)
  BY DEF DInv, Threads
<1>2. screen' \in {screen, "home", "none"}
  BY DEF RestoreStep, RestoreSystem, StopAll, ShownOrNot
<1>3. \E l \in Labels \ Giving : pc' = [pc EXCEPT ![t] = l]
  BY NotGiving
  DEF RestoreStep, RestoreSystem, StopAll, Acquire, FailRestore, Finish, Fail, Leave
<1>4. Vacated'
  BY <1>1, <1>2, <1>3, ThreadGoes
<1>5. CASE RestoreSystem(t)
  <2>1. CASE domain.at = "System"
    BY <1>4, <1>5, <2>1, OnlyShows DEF RestoreSystem, appVars
  <2>2. CASE domain.at # "System"
    <3>1. domain'.at # "System"
      BY <1>5, <2>2, OnIs DEF RestoreSystem
    <3> QED BY <1>2, <1>4, <1>5, <2>2, <3>1, Withdraws DEF RestoreSystem, appVars, DInv
  <2> QED BY <2>1, <2>2
<1>6. CASE StopAll(t)
  <2>1. domain.at # "System"
    BY <1>1, <1>6, OnIs DEF HeldInv, StopAll
  <2>2. CASE unit' = AllStopped /\ screen' = "none"
    <3>1. Up' = {} /\ InFreezer' = {}
      BY <2>2 DEF AllStopped, Up, InFreezer, Active
    <3>2. CASE domain'.at = "System"
      <4>1. Promised!Restore
        BY <2>2, <3>1, <3>2 DEF Promised!Restore
      <4> QED BY <1>4, <4>1 DEF DeviceStep, Promised!Next
    <3>3. CASE domain'.at # "System"
      BY <1>4, <2>1, <2>2, <3>3, Withdraws DEF AllStopped, DInv
    <3> QED BY <3>2, <3>3
  <2>3. CASE UNCHANGED <<managerVars, tracked, screen>>
    <3>1. \A b \in App : /\ unit'[b] = "frozen" => unit[b] = "frozen"
                         /\ unit[b] = "off" => unit'[b] = "off"
      BY <1>6 DEF StopAll, AllStopped, HalfStopped
    <3> QED BY <1>4, <2>1, <2>3, <3>1, Withdraws DEF managerVars, DInv
  <2> QED BY <1>6, <2>2, <2>3 DEF StopAll
<1> QED BY <1>5, <1>6 DEF RestoreStep

(* Recovering shows Home only where Home has the device.                    *)
LEMMA RecoverIsDevice ==
  ASSUME DInv, Recover
  PROVE  Vacated' /\ DeviceStep
<1>1. TypeOK
  BY DEF DInv
<1>2. Vacated'
  <2>1. "restore" \notin Giving
    BY DEF Giving
  <2> QED BY <1>1, <2>1, LoopGoes, LoopEnds DEF Recover, Recovery
<1>3. screen' \in {screen, "home", "none"} /\ (domain.at = "System" => UNCHANGED screen)
  BY DEF Recover, ShownOrNot
<1> QED BY <1>2, <1>3, OnlyShows DEF Recover, managerVars, appVars

(* The report of an exit.                                                  *)
LEMMA TakeExitIsDevice ==
  ASSUME DInv, Vacated, NEW a \in App, NEW age \in Ages, TakeExit(a, age)
  PROVE  Vacated' /\ DeviceStep
<1>1. TypeOK /\ UNCHANGED unit
  BY DEF DInv, TakeExit
<1>2. CASE UNCHANGED <<managerVars, screen, pc>>
  BY <1>1, <1>2, StaysVacated, OnlyShows DEF managerVars
<1>3. CASE RecordExit(a)
  <2>1. screen' \in {screen, "home", "none"} /\ (domain.at = "System" => UNCHANGED screen)
    BY <1>3 DEF RecordExit, ShownOrNot
  <2>2. (domain.at = "System") = (domain'.at = "System")
    BY <1>3, ToManager, OnIs DEF RecordExit, OwnsDomain, AppDomains, managerVars
  <2>3. UNCHANGED pc \/ Fail("loop")
    BY <1>3 DEF RecordExit
  <2>4. Vacated'
    BY <1>1, <2>1, <2>3, LoopEnds, StaysVacated
  <2> QED BY <1>1, <2>1, <2>2, <2>4, Withdraws DEF DInv
<1> QED BY <1>2, <1>3 DEF TakeExit

(* A daemon that is started again begins in stock, with every unit stopped. *)
LEMMA RestartIsDevice ==
  ASSUME RestartDaemon
  PROVE  Vacated' /\ DeviceStep
<1>1. domain'.at = "System" /\ screen' = "none" /\ \A b \in App : unit'[b] = "off"
  BY OnIs DEF RestartDaemon, AllStopped
<1>2. Up' = {} /\ InFreezer' = {}
  BY <1>1 DEF Up, InFreezer, Active
<1>3. Promised!Restore
  BY <1>1, <1>2 DEF Promised!Restore
<1> QED BY <1>1, <1>3 DEF Vacated, DeviceStep, Promised!Next, Promised!Between

(* What users, requesters, processes and systemd do by themselves.          *)
LEMMA OutsideIsDevice ==
  ASSUME DInv, Vacated,
         \/ UserEvent
         \/ \E a \in App : StartPackage(a) \/ Die(a) \/ Runner(a)
         \/ UNCHANGED vars
  PROVE  Vacated' /\ DeviceStep
<1>1. TypeOK
  BY DEF DInv
<1>2. UNCHANGED <<domain, screen>>
  BY DEF UserEvent, Take, TakeCancelled, Interrupt, CancelRequest, StartPackage, Die, Runner,
         RunnerReports, UnitEnds, BridgeReports, vars, managerVars
<1>3. \A b \in App : /\ unit'[b] = "frozen" => unit[b] = "frozen"
                     /\ unit[b] = "off" => unit'[b] = "off"
  <2>1. ASSUME NEW a \in App, StartPackage(a) \/ Die(a) \/ Runner(a)
        PROVE  \/ UNCHANGED unit
               \/ unit[a] # "off" /\ \E u \in {"dying", "ending", "off"} :
                    unit' = [unit EXCEPT ![a] = u]
    BY <2>1 DEF StartPackage, Die, Runner, RunnerReports, UnitEnds, BridgeReports, appVars
  <2>2. UserEvent \/ UNCHANGED vars => UNCHANGED unit
    BY DEF UserEvent, Take, TakeCancelled, Interrupt, CancelRequest, vars, appVars
  <2> QED BY <1>1, <2>1, <2>2 DEF TypeOK
<1>4. UNCHANGED pc["loop"] \/ pc'["loop"] \notin Giving
  <2>1. {"route", "recover"} \cap Giving = {}
    BY DEF Giving
  <2>2. ASSUME NEW kind, NEW a, Take(kind, a) PROVE pc'["loop"] = "route"
    BY <1>1, <2>2 DEF Take, TypeOK, Threads
  <2>3. TakeCancelled => pc'["loop"] = "recover"
    BY <1>1 DEF TakeCancelled, Fail, Leave, TypeOK, Threads
  <2>4. ASSUME NEW a \in App, StartPackage(a) PROVE UNCHANGED pc["loop"]
    BY <1>1, <2>4 DEF StartPackage, TypeOK, Threads
  <2>5. Interrupt \/ CancelRequest \/ UNCHANGED vars => UNCHANGED pc
    BY DEF Interrupt, CancelRequest, vars
  <2>6. ASSUME NEW a \in App, Die(a) \/ Runner(a) PROVE UNCHANGED pc
    BY <2>6 DEF Die, Runner, RunnerReports, UnitEnds, BridgeReports
  <2> QED BY <2>1, <2>2, <2>3, <2>4, <2>5, <2>6 DEF UserEvent
<1>5. Vacated'
  BY <1>2, <1>4, StaysVacated
<1> QED BY <1>2, <1>3, <1>5, Withdraws DEF DInv

(* Every step of the daemon is one of the Device, or not seen in it.        *)
LEMMA DeviceNext ==
  ASSUME DInv, Vacated, [Next]_vars
  PROVE  Vacated' /\ DeviceStep
<1>1. CASE ParkStep
  BY <1>1, ParkIsDevice, FreezeIsDevice, RecoverParkIsDevice, StopIsDevice, ActivateIsDevice,
     WaitIsDevice DEF ParkStep
<1>2. CASE LaunchStep
  BY <1>2, PrepareIsDevice, StartIsDevice, StopIsDevice, ActivateIsDevice, WaitIsDevice
  DEF LaunchStep
<1>3. CASE LoopStep
  BY <1>1, <1>2, <1>3, RouteIsDevice, EnterIsDevice, CloseIsDevice, RestoreIsDevice,
     RecoverIsDevice, TakeExitIsDevice DEF LoopStep, Threads
<1>4. CASE PackageStep
  BY <1>4, CloseIsDevice, RestoreIsDevice DEF PackageStep, Threads
<1> QED BY <1>3, <1>4, OutsideIsDevice, RestartIsDevice DEF Next

(* The invariant of the screen's changes of hands.                         *)
THEOREM VacatedFirst == Spec => []Vacated
<1>1. Init => Vacated
  BY DEF Init, Vacated, Giving, Threads
<1>2. DInv /\ Vacated /\ [Next]_vars => Vacated'
  BY DeviceNext
<1> QED BY <1>1, <1>2, Invariance, PTL DEF Spec

(* The daemon keeps the promise of Device for any applications and faults:  *)
(* an application gets the screen only from Home or nobody, thawed and      *)
(* outside stock, is frozen only without it, and stock comes back alone.    *)
THEOREM DaemonImplementsDevice == Spec => ImplementsDevice
<1>1. Init => Promised!Init
  BY OnIs DEF Init, ManagerInit, Promised!Init, Up, InFreezer, Active
<1>2. DInv /\ Vacated /\ [Next]_vars => [Promised!Next]_(Promised!vars)
  BY DeviceNext DEF DeviceStep
<1> QED BY <1>1, <1>2, Invariance, VacatedFirst, PTL
        DEF Spec, ImplementsDevice, Promised!Spec

(* Whatever keeps that promise is exclusive: nobody is up beside stock, and *)
(* the owner of the screen is not frozen.                                  *)
LEMMA DeviceIsExclusive == Promised!Spec => []Promised!Exclusive
<1> USE DEF Promised!Exclusive
<1>1. Promised!Init => Promised!Exclusive
  BY DEF Promised!Init
<1>2. Promised!Exclusive /\ [Promised!Next]_(Promised!vars) => Promised!Exclusive'
  <2> SUFFICES ASSUME Promised!Exclusive, [Promised!Next]_(Promised!vars)
               PROVE  Promised!Exclusive'
    OBVIOUS
  <2>1. CASE Promised!Enter \/ Promised!Restore \/ UNCHANGED Promised!vars
    BY <2>1 DEF Promised!Enter, Promised!Restore, Promised!vars
  <2>2. CASE Promised!Withdraw
    <3>1. \A b \in App : b \notin Promised!Between
      BY OwnersAssumption DEF Promised!Between
    <3> QED BY <2>2, <3>1 DEF Promised!Withdraw, InFreezer, Up
  <2>3. ASSUME NEW a \in App, Promised!Start(a) \/ Promised!Give(a) \/ Promised!Freeze(a)
        PROVE  Promised!Exclusive'
    BY <2>3 DEF Promised!Start, Promised!Give, Promised!Freeze, Up
  <2> QED BY <2>1, <2>2, <2>3 DEF Promised!Next
<1> QED BY <1>1, <1>2, PTL DEF Promised!Spec

(* Hence, under any faults: while stock has the device no unit is active    *)
(* and nobody has the screen, and the owner of the screen is never frozen.  *)
THEOREM OwnerIsNeverFrozen == Spec => []Promised!Exclusive
  BY DaemonImplementsDevice, DeviceIsExclusive DEF ImplementsDevice

-----------------------------------------------------------------------------
(***************************************************************************)
(* The screen and the domain, without package requests                     *)
(***************************************************************************)
(* Without package requests the loop alone decides who has the screen.      *)
Agree ==
  \/ domain.at = "System" /\ screen = "none"
  \/ domain.at = "Manager" /\ screen = "home"
  \/ domain.at = "Foreground" /\ screen = domain.app
Steady == domain.at \in {"System", "Foreground"} => Agree

ScreenAt(l) ==
  /\ l \in {"idle", "route", "park", "enter", "close", "reload", "reloadShow", "closeThaw"}
       => Agree
  /\ l \in {"prepare", "restore", "recover"} => Steady
  /\ l = "reloadShow" => domain.at = "Manager"
  /\ l = "freeze" /\ ShowManager => screen = "home"
  /\ l = "closeStop" => IF job["loop"].flag THEN screen = "home" ELSE Agree

ScreenInv == pc["package"] = "idle" /\ ScreenAt(pc["loop"])

(* The loop gets to a place that the screen agrees with.                    *)
LEMMA Arrives ==
  ASSUME TypeOK, ScreenInv, NEW l, pc' = [pc EXCEPT !["loop"] = l], ScreenAt(l)'
  PROVE  ScreenInv'
<1>1. pc'["loop"] = l /\ pc'["package"] = "idle"
  BY DEF TypeOK, ScreenInv, Threads
<1> QED BY <1>1 DEF ScreenInv, ScreenAt

(* A handler may end well where screen and domain agree.                   *)
LEMMA FinishesAgreed ==
  ASSUME TypeOK, ScreenInv, Finish("loop"), Agree'
  PROVE  ScreenInv'
<1>1. pc' = [pc EXCEPT !["loop"] = "idle"] /\ ScreenAt("idle")'
  BY DEF Finish, Leave, ScreenAt
<1> QED BY <1>1, Arrives

(* It may fail where at most Home lacks its screen.                        *)
LEMMA FailsSteady ==
  ASSUME TypeOK, ScreenInv, Fail("loop"), Steady'
  PROVE  ScreenInv'
<1>1. pc' = [pc EXCEPT !["loop"] = "recover"] /\ ScreenAt("recover")'
  BY DEF Fail, Leave, ScreenAt
<1> QED BY <1>1, Arrives

(* Most places inside a transition ask nothing of the screen.               *)
LEMMA GoesUnseen ==
  ASSUME TypeOK, ScreenInv,
         NEW l \in (ParkLabels \cup LaunchLabels \cup {"entering", "stopAll", "closeReveal"})
                     \ {"freeze"},
         pc' = [pc EXCEPT !["loop"] = l]
  PROVE  ScreenInv'
<1>1. ScreenAt(l)'
  BY DEF ScreenAt, ParkLabels, LaunchLabels
<1> QED BY <1>1, Arrives

(* A step that touches neither screen nor domain keeps their agreement.    *)
LEMMA StaysSeen ==
  ASSUME ScreenInv, UNCHANGED <<managerVars, screen, pc, job>>
  PROVE  ScreenInv'
  BY DEF ScreenInv, ScreenAt, Agree, Steady, ShowManager, managerVars

(* Routing an event keeps the agreement.                                   *)
LEMMA RouteAgrees ==
  ASSUME DInv, ScreenInv, Route
  PROVE  ScreenInv'
<1>1. /\ TypeOK /\ Agree /\ UNCHANGED domain
  BY DEF DInv, ScreenInv, ScreenAt, Route, managerVars
<1>2. ASSUME UNCHANGED screen,
             NEW l \in {"idle", "recover", "park", "prepare", "enter", "restore", "close", "reload"},
             pc' = [pc EXCEPT !["loop"] = l]
      PROVE  ScreenInv'
  <2>1. ScreenAt(l)'
    BY <1>1, <1>2 DEF ScreenAt, Agree, Steady
  <2> QED BY <1>1, <1>2, <2>1, Arrives
<1>3. ASSUME UNCHANGED screen,
             \/ Finish("loop") \/ Fail("loop") \/ ParkTarget("park")
             \/ \E l \in {"park", "prepare", "enter", "restore", "close", "reload"} :
                  Goto("loop", l)
      PROVE  ScreenInv'
  BY <1>2, <1>3 DEF Finish, Fail, Leave, Goto, ParkTarget
<1>4. ASSUME NEW a, LaunchRoute(a), UNCHANGED screen PROVE ScreenInv'
  BY <1>3, <1>4 DEF LaunchRoute
<1>5. ASSUME NEW kind, PowerRoute(kind), UNCHANGED screen PROVE ScreenInv'
  BY <1>2, <1>3, <1>5 DEF PowerRoute
<1>6. CASE EnsureHome
  <2>1. CASE domain.at # "Manager" /\ Finish("loop") /\ UNCHANGED screen
    BY <1>3, <2>1
  <2>2. CASE domain.at = "Manager" /\ screen' = "home" /\ Finish("loop")
    BY <1>1, <2>2, FinishesAgreed DEF Agree
  <2>3. CASE domain.at = "Manager" /\ Fail("loop")
    BY <1>1, <2>3, FailsSteady DEF Steady
  <2> QED BY <1>6, <2>1, <2>2, <2>3 DEF EnsureHome
<1> QED BY <1>3, <1>4, <1>5, <1>6 DEF Route

(* Parking keeps the agreement.                                            *)
LEMMA ParkAgrees ==
  ASSUME DInv, ScreenInv, ParkStep
  PROVE  ScreenInv'
<1>1. TypeOK /\ LoopInv
  BY DEF DInv
<1>2. pc["loop"] \in ParkLabels => domain.at = "Parking"
  BY <1>1, OnIs DEF LoopInv
<1>3. CASE BeginPark
  <2>1. CASE Fail("loop") /\ UNCHANGED managerVars
    <3>1. Steady'
      BY <1>3, <2>1 DEF BeginPark, ScreenInv, ScreenAt, Agree, Steady, managerVars
    <3> QED BY <1>1, <2>1, <3>1, FailsSteady
  <2>2. CASE Acquire("loop", "askBackground")
    BY <1>1, <2>2, GoesUnseen, ParkLabelsAre DEF Acquire
  <2> QED BY <1>3, <2>1, <2>2 DEF BeginPark
<1>4. CASE AskBackground \/ RecoverPark \/ AskForeground
  BY <1>1, <1>4, GoesUnseen, ParkLabelsAre
  DEF AskBackground, RecoverPark, AskForeground, Goto
<1>5. CASE HandOff
  <2>1. CASE screen' = NextOwner /\ Goto("loop", "freeze")
    <3>1. ScreenAt("freeze")'
      BY <2>1 DEF ScreenAt, NextOwner, ShowManager, Goto
    <3> QED BY <1>1, <2>1, <3>1, Arrives DEF Goto
  <2>2. CASE Goto("loop", "recoverPark")
    BY <1>1, <2>2, GoesUnseen, ParkLabelsAre DEF Goto
  <2> QED BY <1>5, <2>1, <2>2 DEF HandOff
<1>6. CASE Freeze
  <2>1. CASE Goto("loop", "recoverPark")
    BY <1>1, <2>1, GoesUnseen, ParkLabelsAre DEF Goto
  <2>2. CASE Apply("AppParked", job["loop"].target) /\ AfterPark
    <3>1. domain' = In("Manager")
      BY <2>2, ToManager
    <3>2. Steady'
      BY <3>1, OnIs DEF Steady
    <3>3. ASSUME NEW l \in {"restore", "prepare"}, Release(l) PROVE ScreenInv'
      <4>1. ScreenAt(l)'
        BY <3>2 DEF ScreenAt
      <4> QED BY <1>1, <3>3, <4>1, Arrives DEF Release
    <3>4. CASE Fail("loop")
      BY <1>1, <3>2, <3>4, FailsSteady
    <3>5. CASE ShowManager /\ Finish("loop")
      <4>1. screen' = "home"
        BY <1>6, <3>5 DEF Freeze, ScreenInv, ScreenAt
      <4> QED BY <1>1, <3>1, <3>5, <4>1, OnIs, FinishesAgreed DEF Agree
    <3> QED BY <2>2, <3>3, <3>4, <3>5 DEF AfterPark
  <2> QED BY <1>6, <2>1, <2>2 DEF Freeze
<1>7. CASE RestoreForeground
  <2>1. CASE Goto("loop", "forceStop")
    BY <1>1, <2>1, GoesUnseen, ParkLabelsAre DEF Goto
  <2>2. CASE /\ screen' = job["loop"].target /\ Apply("AppRestored", job["loop"].target)
             /\ Fail("loop")
    <3>1. Steady'
      BY <2>2, ToForeground, OnIs DEF Steady, Agree
    <3> QED BY <1>1, <2>2, <3>1, FailsSteady
  <2> QED BY <1>7, <2>1, <2>2 DEF RestoreForeground
<1>8. CASE ForceStop
  <2>1. domain'.at \in {"Manager", "Parking"}
    BY <1>2, <1>8, ToManager, OnIs, ParkLabelsAre DEF ForceStop, managerVars
  <2> QED BY <1>1, <1>8, <2>1, FailsSteady DEF Steady, ForceStop
<1> QED BY <1>3, <1>4, <1>5, <1>6, <1>7, <1>8 DEF ParkStep

(* Launching keeps it.                                                     *)
LEMMA LaunchAgrees ==
  ASSUME DInv, ScreenInv, LaunchStep
  PROVE  ScreenInv'
<1>1. TypeOK /\ LoopInv
  BY DEF DInv
<1>2. pc["loop"] \in LaunchLabels => domain.at = "Launching"
  BY <1>1, OnIs DEF LoopInv
<1>3. CASE Prepare
  <2>1. CASE Fail("loop") /\ UNCHANGED managerVars
    <3>1. Steady'
      BY <1>3, <2>1 DEF Prepare, ScreenInv, ScreenAt, Agree, Steady, managerVars
    <3> QED BY <1>1, <2>1, <3>1, FailsSteady
  <2>2. CASE Acquire("loop", "register")
    BY <1>1, <2>2, GoesUnseen, ParkLabelsAre DEF Acquire, ParkLabels
  <2> QED BY <1>3, <2>1, <2>2 DEF Prepare
<1>4. CASE RegisterRuntime \/ Start \/ AwaitReady \/ CommitLaunch
  BY <1>1, <1>4, GoesUnseen, ParkLabelsAre
  DEF RegisterRuntime, Start, AwaitReady, CommitLaunch, Goto, ParkLabels
<1>5. CASE ActivateForeground
  <2>1. CASE Goto("loop", "rollback")
    BY <1>1, <2>1, GoesUnseen, ParkLabelsAre DEF Goto
  <2>2. CASE /\ screen' = job["loop"].app /\ Apply("AppReady", job["loop"].app)
             /\ Finish("loop")
    <3>1. Agree'
      BY <2>2, ToForeground, OnIs DEF Agree
    <3> QED BY <1>1, <2>2, <3>1, FinishesAgreed
  <2> QED BY <1>5, <2>1, <2>2 DEF ActivateForeground
<1>6. CASE RollbackLaunch
  <2>1. domain'.at \in {"Manager", "Launching"}
    BY <1>2, <1>6, ToManager, OnIs, ParkLabelsAre DEF RollbackLaunch, managerVars
  <2> QED BY <1>1, <1>6, <2>1, FailsSteady DEF Steady, RollbackLaunch
<1> QED BY <1>3, <1>4, <1>5, <1>6 DEF LaunchStep

(* Entering Home keeps it.                                                 *)
LEMMA EnterAgrees ==
  ASSUME DInv, ScreenInv, EnterManager \/ EnterManaged
  PROVE  ScreenInv'
<1>1. TypeOK /\ LoopInv
  BY DEF DInv
<1>2. CASE EnterManager
  <2>1. CASE Fail("loop") /\ UNCHANGED managerVars
    <3>1. Steady'
      BY <1>2, <2>1 DEF EnterManager, ScreenInv, ScreenAt, Agree, Steady, managerVars
    <3> QED BY <1>1, <2>1, <3>1, FailsSteady
  <2>2. CASE Acquire("loop", "entering")
    BY <1>1, <2>2, GoesUnseen DEF Acquire
  <2> QED BY <1>2, <2>1, <2>2 DEF EnterManager
<1>3. CASE EnterManaged
  <2>1. CASE screen' = "home" /\ Apply("ManagedReady", NoApp) /\ Finish("loop")
    <3>1. Agree'
      BY <2>1, ToManager, OnIs DEF Agree
    <3> QED BY <1>1, <2>1, <3>1, FinishesAgreed
  <2>2. CASE Fail("loop") /\ UNCHANGED managerVars
    <3>1. domain.at = "EnteringManaged"
      BY <1>1, <1>3, OnIs DEF EnterManaged, LoopInv
    <3> QED BY <1>1, <2>2, <3>1, FailsSteady DEF Steady, managerVars
  <2> QED BY <1>3, <2>1, <2>2 DEF EnterManaged
<1> QED BY <1>2, <1>3

(* Closing and reloading keep it.                                          *)
LEMMA CloseAgrees ==
  ASSUME DInv, ScreenInv, CloseStep("loop")
  PROVE  ScreenInv'
<1>1. TypeOK /\ HeldInv("loop")
  BY DEF DInv
<1>2. CASE Close("loop")
  <2>1. ScreenAt("closeThaw")'
    BY <1>2 DEF Close, ScreenInv, ScreenAt, Agree, managerVars
  <2> QED BY <1>1, <1>2, <2>1, Arrives DEF Close, Acquire
<1>3. CASE CloseThaw("loop")
  <2>1. Agree /\ Agree' /\ Steady'
    BY <1>3 DEF CloseThaw, ScreenInv, ScreenAt, Agree, Steady, managerVars
  <2>2. CASE FailClose("loop")
    BY <1>1, <2>1, <2>2, FailsSteady DEF FailClose
  <2>3. CASE job["loop"].flag /\ Goto("loop", "closeReveal")
    BY <1>1, <2>3, GoesUnseen DEF Goto
  <2>4. CASE ~job["loop"].flag /\ Goto("loop", "closeStop")
    <3>1. ScreenAt("closeStop")'
      BY <2>1, <2>4 DEF ScreenAt, Goto
    <3> QED BY <1>1, <2>4, <3>1, Arrives DEF Goto
  <2> QED BY <1>3, <2>2, <2>3, <2>4 DEF CloseThaw
<1>4. CASE CloseReveal("loop")
  <2>1. job["loop"].flag /\ domain'.at = "Parking"
    BY <1>1, <1>4, ParkBegins, OnIs DEF CloseReveal, HeldInv
  <2>2. CASE FailClose("loop")
    BY <1>1, <2>1, <2>2, FailsSteady DEF FailClose, Steady
  <2>3. CASE screen' = "home" /\ Goto("loop", "closeStop")
    <3>1. ScreenAt("closeStop")'
      BY <2>1, <2>3 DEF ScreenAt, Goto
    <3> QED BY <1>1, <2>3, <3>1, Arrives DEF Goto
  <2> QED BY <1>4, <2>2, <2>3 DEF CloseReveal
<1>5. CASE CloseStop("loop")
  <2>1. UNCHANGED screen /\ (IF job["loop"].flag THEN screen = "home" ELSE Agree)
    BY <1>5 DEF CloseStop, ScreenInv, ScreenAt
  <2>2. CASE FailClose("loop") /\ UNCHANGED managerVars
    <3>1. Steady'
      BY <1>1, <1>5, <2>1, <2>2, OnIs DEF Steady, HeldInv, CloseStop, Agree, managerVars
    <3> QED BY <1>1, <2>2, <3>1, FailsSteady DEF FailClose
  <2>3. CASE /\ IF job["loop"].flag THEN domain' = In("Manager") ELSE UNCHANGED domain
             /\ AfterClose("loop") \/ Fail("loop")
    <3>1. Agree' /\ Steady'
      BY <2>1, <2>3, OnIs DEF Agree, Steady
    <3>2. CASE AfterClose("loop")
      <4>1. CASE Finish("loop")
        BY <1>1, <3>1, <4>1, FinishesAgreed
      <4>2. CASE pc' = [pc EXCEPT !["loop"] = "reload"]
        <5>1. ScreenAt("reload")'
          BY <3>1 DEF ScreenAt
        <5> QED BY <1>1, <4>2, <5>1, Arrives
      <4> QED BY <3>2, <4>1, <4>2 DEF AfterClose
    <3> QED BY <1>1, <2>3, <3>1, <3>2, FailsSteady
  <2> QED BY <1>5, <2>2, <2>3 DEF CloseStop
<1>6. CASE Reload("loop")
  <2>1. Agree' /\ Steady' /\ UNCHANGED domain
    BY <1>6 DEF Reload, ScreenInv, ScreenAt, Agree, Steady, managerVars
  <2>2. CASE domain.at = "Manager" /\ Goto("loop", "reloadShow")
    <3>1. ScreenAt("reloadShow")'
      BY <2>1, <2>2 DEF ScreenAt
    <3> QED BY <1>1, <2>2, <3>1, Arrives DEF Goto
  <2> QED BY <1>1, <1>6, <2>1, <2>2, FinishesAgreed, FailsSteady DEF Reload
<1>7. CASE ReloadShow("loop")
  <2>1. domain.at = "Manager" /\ UNCHANGED domain
    BY <1>7 DEF ReloadShow, ScreenInv, ScreenAt, managerVars
  <2>2. CASE screen' = "home" /\ Finish("loop")
    BY <1>1, <2>1, <2>2, FinishesAgreed DEF Agree
  <2>3. CASE Goto("loop", "restore")
    <3>1. ScreenAt("restore")'
      BY <2>1 DEF ScreenAt, Steady
    <3> QED BY <1>1, <2>3, <3>1, Arrives DEF Goto
  <2> QED BY <1>7, <2>2, <2>3 DEF ReloadShow
<1> QED BY <1>2, <1>3, <1>4, <1>5, <1>6, <1>7 DEF CloseStep

(* Restoring stock keeps it.                                               *)
LEMMA RestoreAgrees ==
  ASSUME DInv, ScreenInv, RestoreStep("loop")
  PROVE  ScreenInv'
<1>1. TypeOK /\ HeldInv("loop")
  BY DEF DInv
<1>2. CASE RestoreSystem("loop")
  <2>1. CASE domain.at = "System" /\ Finish("loop") /\ UNCHANGED <<domain, screen>>
    <3>1. Agree'
      BY <1>2, <2>1 DEF RestoreSystem, ScreenInv, ScreenAt, Steady, Agree
    <3> QED BY <1>1, <2>1, <3>1, FinishesAgreed
  <2>2. CASE Acquire("loop", "stopAll")
    BY <1>1, <2>2, GoesUnseen DEF Acquire
  <2> QED BY <1>2, <2>1, <2>2 DEF RestoreSystem
<1>3. CASE StopAll("loop")
  <2>1. CASE screen' = "none" /\ Apply("SystemReady", NoApp) /\ Finish("loop")
    <3>1. Agree'
      BY <2>1, ToSystem, OnIs DEF Agree
    <3> QED BY <1>1, <2>1, <3>1, FinishesAgreed
  <2>2. CASE FailRestore("loop") /\ UNCHANGED managerVars
    <3>1. Steady'
      BY <1>1, <1>3, <2>2, OnIs DEF HeldInv, StopAll, Steady, managerVars
    <3>2. CASE Leave("loop", "exited")
      <4>1. ScreenAt("exited")'
        BY DEF ScreenAt
      <4> QED BY <1>1, <3>2, <4>1, Arrives DEF Leave
    <3> QED BY <1>1, <2>2, <3>1, <3>2, FailsSteady DEF FailRestore
  <2> QED BY <1>3, <2>1, <2>2 DEF StopAll
<1> QED BY <1>2, <1>3 DEF RestoreStep

(* Recovering keeps it.                                                    *)
LEMMA RecoverAgrees ==
  ASSUME DInv, ScreenInv, Recover
  PROVE  ScreenInv'
<1>1. TypeOK /\ Steady /\ UNCHANGED domain
  BY DEF DInv, ScreenInv, ScreenAt, Recover, managerVars
<1>2. CASE Healthy /\ Finish("loop") /\ UNCHANGED screen
  BY <1>1, <1>2, FinishesAgreed DEF Healthy, Steady, Agree
<1>3. CASE domain.at = "Manager" /\ screen' = "home" /\ Finish("loop")
  BY <1>1, <1>3, FinishesAgreed DEF Agree
<1>4. CASE domain.at \notin {"System", "Foreground"} /\ Recovery("restore")
  <2>1. ScreenAt("restore")'
    BY <1>1, <1>4 DEF ScreenAt, Steady
  <2> QED BY <1>1, <1>4, <2>1, Arrives DEF Recovery
<1> QED BY <1>2, <1>3, <1>4 DEF Recover

(* The report of an exit keeps it.                                         *)
LEMMA TakeExitAgrees ==
  ASSUME DInv, ScreenInv, NEW a \in App, NEW age \in Ages, TakeExit(a, age)
  PROVE  ScreenInv'
<1>1. TypeOK /\ Agree /\ pc["loop"] = "idle"
  BY DEF DInv, TakeExit, ScreenInv, ScreenAt
<1>2. CASE UNCHANGED <<managerVars, screen, pc, job>>
  BY <1>2, StaysSeen
<1>3. CASE RecordExit(a)
  <2>1. CASE OwnsDomain(a)
    <3>1. domain.at = "Foreground"
      BY <1>1, <2>1, OnIs DEF Agree, OwnsDomain, AppDomains
    <3>2. domain' = In("Manager")
      BY <1>3, <2>1, ToManager DEF RecordExit
    <3>3. CASE screen' = "home" /\ UNCHANGED <<lock, pc, job>>
      BY <1>1, <3>2, <3>3, OnIs DEF ScreenInv, ScreenAt, Agree
    <3>4. CASE Fail("loop")
      BY <1>1, <3>2, <3>4, OnIs, FailsSteady DEF Steady
    <3> QED BY <1>3, <2>1, <3>1, <3>3, <3>4 DEF RecordExit
  <2>2. CASE ~OwnsDomain(a)
    <3>1. UNCHANGED <<managerVars, screen>>
      BY <1>3, <2>2 DEF RecordExit
    <3>2. CASE UNCHANGED <<lock, pc, job>>
      BY <3>1, <3>2, StaysSeen
    <3>3. CASE Fail("loop")
      BY <1>1, <3>1, <3>3, FailsSteady DEF Steady, Agree, managerVars
    <3> QED BY <1>3, <2>2, <3>2, <3>3 DEF RecordExit
  <2> QED BY <2>1, <2>2
<1> QED BY <1>2, <1>3 DEF TakeExit

(* Without package requests the package thread never moves.                 *)
LEMMA NoPackageStep ==
  ASSUME pc["package"] = "idle", PackageStep
  PROVE  FALSE
  BY DEF PackageStep, CloseStep, Close, CloseThaw, CloseReveal, CloseStop, Reload, ReloadShow,
         RestoreStep, RestoreSystem, StopAll

(* Every step keeps it.                                                    *)
LEMMA NextAgrees ==
  ASSUME "package" \notin Faults, DInv, ScreenInv, [Next]_vars
  PROVE  ScreenInv'
<1>1. TypeOK
  BY DEF DInv
<1>2. CASE UserEvent
  <2>1. ASSUME NEW kind, NEW a, Take(kind, a) PROVE ScreenInv'
    <3>1. ScreenAt("route")'
      BY <2>1 DEF Take, ScreenInv, ScreenAt, Agree, managerVars
    <3> QED BY <1>1, <2>1, <3>1, Arrives DEF Take
  <2>2. CASE TakeCancelled
    <3>1. Steady'
      BY <2>2 DEF TakeCancelled, ScreenInv, ScreenAt, Agree, Steady, managerVars
    <3> QED BY <1>1, <2>2, <3>1, FailsSteady DEF TakeCancelled
  <2>3. CASE Interrupt \/ CancelRequest
    BY <2>3, StaysSeen DEF Interrupt, CancelRequest
  <2> QED BY <1>2, <2>1, <2>2, <2>3 DEF UserEvent
<1>3. CASE LoopStep
  BY <1>3, RouteAgrees, ParkAgrees, LaunchAgrees, EnterAgrees, CloseAgrees, RestoreAgrees,
     RecoverAgrees, TakeExitAgrees DEF LoopStep
<1>4. CASE PackageStep
  BY <1>4, NoPackageStep DEF ScreenInv
<1>5. CASE RestartDaemon
  BY <1>5, OnIs DEF RestartDaemon, ScreenInv, ScreenAt, Agree, Threads
<1>6. ASSUME NEW a \in App, StartPackage(a) \/ Die(a) \/ Runner(a) PROVE ScreenInv'
  BY <1>6, StaysSeen
  DEF StartPackage, May, Die, Runner, RunnerReports, UnitEnds, BridgeReports
<1>7. CASE UNCHANGED vars
  BY <1>7, StaysSeen DEF vars, managerVars
<1> QED BY <1>2, <1>3, <1>4, <1>5, <1>6, <1>7 DEF Next

(* Between two events the screen is held by the owner the domain names.    *)
THEOREM ScreenAlwaysAgrees ==
  ASSUME "package" \notin Faults
  PROVE  Spec => []ScreenAgrees
<1>1. Init => ScreenInv
  BY OnIs DEF Init, ManagerInit, ScreenInv, ScreenAt, Agree, Threads
<1>2. DInv /\ ScreenInv /\ [Next]_vars => ScreenInv'
  BY NextAgrees
<1>3. ScreenInv => ScreenAgrees
  BY DEF ScreenInv, ScreenAt, Agree, ScreenAgrees, Settled
<1> QED BY <1>1, <1>2, <1>3, Invariance, PTL DEF Spec

-----------------------------------------------------------------------------
(***************************************************************************)
(* The registration and the units, without late bridge reports             *)
(***************************************************************************)
(* Without late reports of the failure bridge an exit that is queued for    *)
(* the registered generation is one of a process that is gone.             *)
LiveInv ==
  /\ \A a \in App :
       /\ bridge[a] = "none"
       /\ unit[a] \in {"run", "frozen"} => tracked[a] # "none" /\ "cur" \notin exits[a]
  /\ pc["loop"] = "start" /\ ~job["loop"].flag => "cur" \notin exits[job["loop"].app]

(* A step that takes no unit up, forgets nothing that runs and queues no    *)
(* exit of a process that runs.                                            *)
LEMMA LiveKeeps ==
  ASSUME LiveInv, UNCHANGED bridge,
         \A a \in App :
           unit'[a] \in {"run", "frozen"} =>
             /\ unit[a] \in {"run", "frozen"}
             /\ tracked'[a] = tracked[a] /\ exits'[a] \subseteq exits[a],
         pc'["loop"] # "start"
  PROVE  LiveInv'
  BY DEF LiveInv

(* The thread that starts a unit is not disturbed.                          *)
LEMMA StartStays ==
  ASSUME LiveInv, UNCHANGED bridge,
         \A a \in App :
           unit'[a] \in {"run", "frozen"} =>
             /\ unit[a] \in {"run", "frozen"}
             /\ tracked'[a] = tracked[a] /\ exits'[a] \subseteq exits[a],
         UNCHANGED <<pc, job>>,
         pc["loop"] = "start" /\ ~job["loop"].flag
           => exits'[job["loop"].app] \subseteq exits[job["loop"].app]
  PROVE  LiveInv'
  BY DEF LiveInv

(* A call of the loop that goes on from where it is never gets to the start *)
(* of a unit, except by registering it.                                     *)
LEMMA NotStarting ==
  ASSUME TypeOK, NEW t \in Threads, NEW l, l # "start", pc["loop"] # "start",
         pc' = [pc EXCEPT ![t] = l]
  PROVE  pc'["loop"] # "start"
  BY DEF TypeOK, Threads

(* Routing touches no unit.                                                *)
LEMMA RouteLive == DInv /\ LiveInv /\ Route => LiveInv'
<1> SUFFICES ASSUME DInv, LiveInv, Route PROVE LiveInv'
  OBVIOUS
<1>1. /\ TypeOK /\ pc["loop"] = "route" /\ UNCHANGED appVars
  BY DEF DInv, Route
<1>2. \E l : l # "start" /\ pc' = [pc EXCEPT !["loop"] = l]
  BY DEF Route, LaunchRoute, PowerRoute, EnsureHome, Finish, Fail, Leave, Goto, ParkTarget
<1>3. pc'["loop"] # "start"
  BY <1>1, <1>2, NotStarting DEF Threads
<1> QED BY <1>1, <1>3, LiveKeeps DEF appVars

(* Parking takes up at most the unit it froze.                             *)
LEMMA ParkLive == DInv /\ LiveInv /\ ParkStep => LiveInv'
<1> SUFFICES ASSUME DInv, LiveInv, ParkStep PROVE LiveInv'
  OBVIOUS
<1> DEFINE a == job["loop"].target
<1>1. TypeOK /\ LoopInv
  BY DEF DInv
<1>2. /\ pc["loop"] # "start" /\ UNCHANGED <<exits, bridge>>
      /\ \E l : l # "start" /\ pc' = [pc EXCEPT !["loop"] = l]
  BY DEF ParkStep, BeginPark, AskBackground, HandOff, Freeze, AfterPark, RecoverPark,
         AskForeground, RestoreForeground, ForceStop, Finish, Fail, Leave, Goto, Acquire,
         Release, appVars
<1>3. pc'["loop"] # "start"
  BY <1>1, <1>2, NotStarting DEF Threads
<1>4. CASE BeginPark \/ AskBackground \/ HandOff \/ AskForeground \/ RestoreForeground
  BY <1>2, <1>3, <1>4, LiveKeeps
  DEF BeginPark, AskBackground, HandOff, AskForeground, RestoreForeground, appVars
<1>5. CASE Freeze
  <2>1. \A b \in App : unit'[b] = unit[b] \/ (unit'[b] = "frozen" /\ unit[b] \in {"run", "frozen"})
    BY <1>1, <1>5 DEF Freeze, Frozen, TypeOK
  <2> QED BY <1>2, <1>3, <1>5, <2>1, LiveKeeps DEF Freeze
<1>6. CASE RecoverPark
  <2>1. \A b \in App : unit'[b] = unit[b] \/ (unit'[b] = "run" /\ unit[b] = "frozen")
    BY <1>1, <1>6 DEF RecoverPark, Thaw, TypeOK
  <2> QED BY <1>2, <1>3, <1>6, <2>1, LiveKeeps DEF RecoverPark
<1>7. CASE ForceStop
  <2>1. \A b \in App : unit'[b] \in {"run", "frozen"} =>
          unit[b] \in {"run", "frozen"} /\ tracked'[b] = tracked[b]
    BY <1>1, <1>7
    DEF ForceStop, StoppedCold, StopRefused, HalfStopped, Forget, TypeOK
  <2> QED BY <1>2, <1>3, <2>1, LiveKeeps
<1> QED BY <1>4, <1>5, <1>6, <1>7 DEF ParkStep

(* A launch starts a unit only under a generation without exits.           *)
LEMMA LaunchLive == DInv /\ LiveInv /\ LaunchStep => LiveInv'
<1> SUFFICES ASSUME DInv, LiveInv, LaunchStep PROVE LiveInv'
  OBVIOUS
<1> DEFINE a == job["loop"].app
<1>1. TypeOK /\ LoopInv
  BY DEF DInv
<1>2. CASE Prepare
  <2>1. /\ pc["loop"] = "prepare" /\ UNCHANGED <<tracked, exits, bridge>>
        /\ \E l : l # "start" /\ pc' = [pc EXCEPT !["loop"] = l]
    BY <1>2 DEF Prepare, Fail, Leave, Acquire
  <2>2. pc'["loop"] # "start"
    BY <1>1, <2>1, NotStarting DEF Threads
  <2>3. \A b \in App : unit'[b] \in {"run", "frozen"} => unit[b] \in {"run", "frozen"}
    BY <1>1, <1>2 DEF Prepare, StoppedCold, StopRefused, HalfStopped, TypeOK
  <2> QED BY <2>1, <2>2, <2>3, LiveKeeps
<1>3. CASE RegisterRuntime
  <2>1. /\ pc["loop"] = "register" /\ UNCHANGED unit
        /\ \/ /\ Goto("loop", "start") /\ job["loop"].flag
              /\ UNCHANGED <<tracked, exits, bridge>>
           \/ Goto("loop", "start") /\ ~job["loop"].flag /\ NewGeneration(a)
           \/ Goto("loop", "rollback") /\ UNCHANGED <<tracked, exits, bridge>>
    BY <1>3 DEF RegisterRuntime, Register
  <2>2. a \in App
    BY <2>1, WorksOn, ParkLabelsAre
  <2>3. IF job["loop"].flag THEN tracked[a] # "none" ELSE unit[a] = "off"
    BY <1>1, <2>1 DEF LoopInv
  <2>4. CASE ~job["loop"].flag /\ NewGeneration(a)
    <3>1. /\ exits' = [exits EXCEPT ![a] = {Aged(age) : age \in exits[a]}]
          /\ bridge' = [bridge EXCEPT ![a] = Aged(bridge[a])]
          /\ \A b \in App \ {a} : tracked'[b] = tracked[b]
      BY <1>1, <2>2, <2>4, NewGenerationType DEF NewGeneration
    <3>2. "cur" \notin exits'[a] /\ \A b \in App \ {a} : exits'[b] = exits[b]
      BY <1>1, <2>2, <3>1 DEF Aged, TypeOK
    <3>3. \A b \in App : bridge'[b] = "none"
      BY <1>1, <3>1 DEF LiveInv, Aged, TypeOK
    <3>4. UNCHANGED job
      BY <2>1 DEF Goto
    <3> QED BY <2>1, <2>2, <2>3, <2>4, <3>1, <3>2, <3>3, <3>4 DEF LiveInv
  <2>5. CASE /\ UNCHANGED <<tracked, exits, bridge>>
             /\ (Goto("loop", "start") /\ job["loop"].flag) \/ Goto("loop", "rollback")
    <3>1. UNCHANGED job /\ (pc'["loop"] = "start" => job["loop"].flag)
      BY <1>1, <2>1, <2>5 DEF Goto, TypeOK, Threads
    <3> QED BY <2>1, <2>5, <3>1 DEF LiveInv
  <2> QED BY <2>1, <2>4, <2>5
<1>4. CASE Start
  <2>1. /\ pc["loop"] = "start" /\ UNCHANGED <<tracked, exits, bridge>>
        /\ Goto("loop", "await") \/ Goto("loop", "rollback")
        /\ \E u \in {unit[a], IF job["loop"].flag THEN Thaw(a) ELSE "run"} :
             unit' = [unit EXCEPT ![a] = u]
    BY <1>4 DEF Start
  <2>2. a \in App /\ tracked[a] # "none"
    BY <1>1, <2>1, WorksOn, ParkLabelsAre DEF LoopInv
  <2>3. pc'["loop"] # "start"
    BY <1>1, <2>1 DEF Goto, TypeOK, Threads
  <2>4. /\ \A b \in App \ {a} : unit'[b] = unit[b]
        /\ unit'[a] \in {unit[a], IF job["loop"].flag THEN Thaw(a) ELSE "run"}
    BY <1>1, <2>1, <2>2 DEF TypeOK
  <2>5. unit'[a] \in {"run", "frozen"} => "cur" \notin exits[a]
    BY <2>1, <2>2, <2>4 DEF LiveInv, Thaw
  <2> QED BY <2>1, <2>2, <2>3, <2>4, <2>5 DEF LiveInv
<1>5. CASE AwaitReady \/ CommitLaunch \/ ActivateForeground
  <2>1. /\ pc["loop"] # "start" /\ UNCHANGED appVars
        /\ \E l : l # "start" /\ pc' = [pc EXCEPT !["loop"] = l]
    BY <1>5 DEF AwaitReady, CommitLaunch, ActivateForeground, Goto, Finish, Leave
  <2>2. pc'["loop"] # "start"
    BY <1>1, <2>1, NotStarting DEF Threads
  <2> QED BY <2>1, <2>2, LiveKeeps DEF appVars
<1>6. CASE RollbackLaunch
  <2>1. /\ pc["loop"] = "rollback" /\ UNCHANGED <<exits, bridge>>
        /\ \E l : l # "start" /\ pc' = [pc EXCEPT !["loop"] = l]
    BY <1>6 DEF RollbackLaunch, Fail, Leave
  <2>2. pc'["loop"] # "start"
    BY <1>1, <2>1, NotStarting DEF Threads
  <2>3. \A b \in App : unit'[b] \in {"run", "frozen"} =>
          unit[b] \in {"run", "frozen"} /\ tracked'[b] = tracked[b]
    BY <1>1, <1>6
    DEF RollbackLaunch, StoppedCold, StopRefused, HalfStopped, Forget, TypeOK
  <2> QED BY <2>1, <2>2, <2>3, LiveKeeps
<1> QED BY <1>2, <1>3, <1>4, <1>5, <1>6 DEF LaunchStep

(* The loop does not start a unit while another thread holds the lock.      *)
LEMMA NobodyStarts ==
  ASSUME DInv, NEW t \in Threads, pc[t] \in Holding \ {"start"} \/ LockFree
  PROVE  pc["loop"] # "start"
  BY InsideIs DEF DInv, LockInv, LockFree, Threads

(* Closing forgets what it stopped.                                        *)
LEMMA CloseLive ==
  ASSUME DInv, LiveInv, NEW t \in Threads, CloseStep(t)
  PROVE  LiveInv'
<1>1. TypeOK
  BY DEF DInv
<1>2. CASE Reload(t) \/ ReloadShow(t)
  <2>1. /\ UNCHANGED <<unit, tracked, exits, bridge>> /\ pc[t] # "start"
        /\ \E l : l # "start" /\ pc' = [pc EXCEPT ![t] = l]
        /\ Goto(t, "reloadShow") \/ Goto(t, "restore") \/ Finish(t) \/ Fail(t)
    BY <1>2 DEF Reload, ReloadShow, Goto, Finish, Fail, Leave, appVars
  <2>2. \A u \in Threads \ {t} : pc'[u] = pc[u] /\ job'[u] = job[u]
    BY <1>1, <2>1 DEF TypeOK, Goto, Finish, Fail, Leave
  <2>3. t = "loop" => pc'["loop"] # "start"
    BY <1>1, <2>1 DEF TypeOK
  <2> QED BY <2>1, <2>2, <2>3 DEF LiveInv, Threads
<1>3. CASE ~(Reload(t) \/ ReloadShow(t))
  <2>1. /\ UNCHANGED <<exits, bridge>>
        /\ pc[t] \in Holding \ {"start"} \/ LockFree
        /\ \E l : l # "start" /\ pc' = [pc EXCEPT ![t] = l]
    BY <1>3, InsideIs
    DEF CloseStep, Close, CloseThaw, CloseReveal, CloseStop, FailClose, AfterClose, Goto,
        Finish, Fail, Leave, Acquire
  <2>2. pc'["loop"] # "start"
    BY <1>1, <2>1, NobodyStarts, NotStarting
  <2>3. \A b \in App : unit'[b] \in {"run", "frozen"} =>
          unit[b] \in {"run", "frozen"} /\ tracked'[b] = tracked[b]
    BY <1>1, <1>3
    DEF CloseStep, Close, CloseThaw, CloseReveal, CloseStop, Thaw, Forget, HalfStopped, TypeOK
  <2> QED BY <2>1, <2>2, <2>3, LiveKeeps
<1> QED BY <1>2, <1>3

(* Restoring stock forgets what it stopped.                                *)
LEMMA RestoreLive ==
  ASSUME DInv, LiveInv, NEW t \in Threads, RestoreStep(t)
  PROVE  LiveInv'
<1>1. TypeOK
  BY DEF DInv
<1>2. /\ UNCHANGED bridge
      /\ pc[t] \in Holding \ {"start"} \/ LockFree
      /\ \E l : l # "start" /\ pc' = [pc EXCEPT ![t] = l]
  BY InsideIs
  DEF RestoreStep, RestoreSystem, StopAll, FailRestore, Finish, Fail, Leave, Acquire, appVars
<1>3. pc'["loop"] # "start"
  BY <1>1, <1>2, NobodyStarts, NotStarting
<1>4. \A b \in App : unit'[b] \in {"run", "frozen"} =>
        unit[b] \in {"run", "frozen"} /\ tracked'[b] = tracked[b] /\ exits'[b] \subseteq exits[b]
  <2>1. CASE RestoreSystem(t)
    BY <2>1 DEF RestoreSystem, appVars
  <2>2. CASE StopAll(t)
    <3>1. CASE unit' = AllStopped
      BY <3>1 DEF AllStopped
    <3>2. ASSUME NEW stopped \in SUBSET App, NEW last \in App, NEW u \in {"run", "dying"},
                 unit' = [b \in App |-> IF b \in stopped THEN "off"
                                        ELSE IF b = last /\ u \in HalfStopped(b) THEN u
                                        ELSE unit[b]],
                 Reserve({b \in stopped : Active(b)}, "cur"), UNCHANGED tracked,
                 NEW b \in App, unit'[b] \in {"run", "frozen"}
          PROVE  /\ unit[b] \in {"run", "frozen"}
                 /\ tracked'[b] = tracked[b] /\ exits'[b] \subseteq exits[b]
      <4>1. b \notin stopped
        BY <3>2
      <4>2. exits'[b] = exits[b]
        BY <3>2, <4>1 DEF Reserve
      <4> QED BY <1>1, <3>2, <4>1, <4>2 DEF HalfStopped, TypeOK
    <3>3. \/ unit' = AllStopped
          \/ /\ \E stopped \in SUBSET App :
                  /\ \E last \in App, u \in {"run", "dying"} :
                       unit' = [b \in App |-> IF b \in stopped THEN "off"
                                              ELSE IF b = last /\ u \in HalfStopped(b) THEN u
                                              ELSE unit[b]]
                  /\ Reserve({b \in stopped : Active(b)}, "cur")
             /\ UNCHANGED tracked
      BY <2>2 DEF StopAll
    <3>4. CASE \E stopped \in SUBSET App :
                 /\ \E last \in App, u \in {"run", "dying"} :
                      unit' = [b \in App |-> IF b \in stopped THEN "off"
                                             ELSE IF b = last /\ u \in HalfStopped(b) THEN u
                                             ELSE unit[b]]
                 /\ Reserve({b \in stopped : Active(b)}, "cur")
                 /\ UNCHANGED tracked
      BY <3>2, <3>4
    <3> QED BY <3>1, <3>3, <3>4
  <2> QED BY <2>1, <2>2 DEF RestoreStep
<1> QED BY <1>2, <1>3, <1>4, LiveKeeps

(* An exit of the registered generation is one of a dead process.          *)
LEMMA TakeExitLive ==
  ASSUME DInv, LiveInv, NEW a \in App, NEW age \in Ages, TakeExit(a, age)
  PROVE  LiveInv'
<1>1. TypeOK /\ pc["loop"] = "idle" /\ UNCHANGED <<unit, bridge>>
  BY DEF DInv, TakeExit
<1>2. exits' = [exits EXCEPT ![a] = exits[a] \ {age}] /\ age \in exits[a]
  BY DEF TakeExit
<1>3. pc'["loop"] # "start"
  BY <1>1 DEF TakeExit, RecordExit, Fail, Leave, TypeOK, Threads
<1>4. CASE age = "cur" /\ tracked' = [tracked EXCEPT ![a] = "none"]
  <2>1. unit[a] \notin {"run", "frozen"}
    BY <1>2, <1>4 DEF LiveInv
  <2>2. \A b \in App \ {a} : tracked'[b] = tracked[b] /\ exits'[b] = exits[b]
    BY <1>1, <1>2, <1>4 DEF TypeOK
  <2> QED BY <1>1, <1>3, <2>1, <2>2, LiveKeeps
<1>5. CASE UNCHANGED tracked
  <2>1. \A b \in App : exits'[b] \subseteq exits[b]
    BY <1>1, <1>2 DEF TypeOK
  <2> QED BY <1>1, <1>3, <1>5, <2>1, LiveKeeps
<1> QED BY <1>4, <1>5 DEF TakeExit, RecordExit, Names

(* A report is made by a process that is gone.                             *)
LEMMA OutsideLive ==
  ASSUME "bridge" \notin Faults, DInv, LiveInv, NEW a \in App, Die(a) \/ Runner(a)
  PROVE  LiveInv'
<1>1. TypeOK /\ LoopInv /\ UNCHANGED <<tracked, pc, job>>
  BY DEF DInv, Die, Runner, RunnerReports, UnitEnds, BridgeReports
<1>2. UNCHANGED bridge
  BY DEF LiveInv, Die, Runner, RunnerReports, UnitEnds, BridgeReports, May
<1>3. CASE Die(a) \/ UnitEnds(a)
  <2>1. \A b \in App : unit'[b] \in {"run", "frozen"} => unit[b] = unit'[b]
    BY <1>1, <1>3 DEF Die, UnitEnds, TypeOK
  <2> QED BY <1>1, <1>2, <1>3, <2>1, StartStays DEF Die, UnitEnds
<1>4. CASE RunnerReports(a)
  <2>1. /\ unit[a] = "dying" /\ unit' = [unit EXCEPT ![a] = "ending"]
        /\ \A b \in App \ {a} : exits'[b] = exits[b]
    BY <1>1, <1>4 DEF RunnerReports, Reserve
  <2>2. \A b \in App : unit'[b] \in {"run", "frozen"} => b # a /\ unit[b] = unit'[b]
    BY <1>1, <2>1 DEF TypeOK
  <2>3. pc["loop"] = "start" /\ ~job["loop"].flag
          => job["loop"].app \in App \ {a}
    BY <1>1, <2>1, WorksOn, ParkLabelsAre DEF LoopInv
  <2> QED BY <1>1, <1>2, <2>1, <2>2, <2>3, StartStays
<1>5. ~BridgeReports(a)
  BY DEF BridgeReports, LiveInv
<1> QED BY <1>3, <1>4, <1>5 DEF Runner

(* Every step keeps the registration of what lives.                        *)
LEMMA NextLive ==
  ASSUME "bridge" \notin Faults, DInv, LiveInv, [Next]_vars
  PROVE  LiveInv'
<1>1. TypeOK
  BY DEF DInv
<1>2. CASE UserEvent
  <2>1. ASSUME NEW kind, NEW a, Take(kind, a) PROVE LiveInv'
    <3>1. pc'["loop"] # "start" /\ UNCHANGED appVars
      BY <1>1, <2>1 DEF Take, TypeOK, Threads
    <3> QED BY <3>1, LiveKeeps DEF appVars
  <2>2. CASE TakeCancelled
    <3>1. pc'["loop"] # "start" /\ UNCHANGED appVars
      BY <1>1, <2>2 DEF TakeCancelled, Fail, Leave, TypeOK, Threads
    <3> QED BY <3>1, LiveKeeps DEF appVars
  <2>3. CASE Interrupt \/ CancelRequest
    BY <2>3, StartStays DEF Interrupt, CancelRequest, appVars
  <2> QED BY <1>2, <2>1, <2>2, <2>3 DEF UserEvent
<1>3. CASE EnterManager \/ EnterManaged \/ Recover
  <2>1. /\ pc["loop"] # "start" /\ UNCHANGED <<tracked, exits, bridge>>
        /\ UNCHANGED unit \/ unit' = AllStopped
        /\ \E l : l # "start" /\ pc' = [pc EXCEPT !["loop"] = l]
    BY <1>3 DEF EnterManager, EnterManaged, Recover, Recovery, Finish, Fail, Leave, Acquire,
                appVars
  <2>2. pc'["loop"] # "start"
    BY <1>1, <2>1, NotStarting DEF Threads
  <2> QED BY <2>1, <2>2, LiveKeeps DEF AllStopped
<1>4. CASE LoopStep
  BY <1>3, <1>4, RouteLive, ParkLive, LaunchLive, CloseLive, RestoreLive, TakeExitLive
  DEF LoopStep, Threads
<1>5. CASE PackageStep
  BY <1>5, CloseLive, RestoreLive DEF PackageStep, Threads
<1>6. CASE RestartDaemon
  BY <1>6 DEF RestartDaemon, AllStopped, LiveInv, Aged, Threads
<1>7. ASSUME NEW a \in App, StartPackage(a) PROVE LiveInv'
  <2>1. pc'["loop"] = pc["loop"] /\ job'["loop"] = job["loop"] /\ UNCHANGED appVars
    BY <1>1, <1>7 DEF StartPackage, TypeOK, Threads
  <2> QED BY <2>1 DEF LiveInv, appVars
<1>8. CASE UNCHANGED vars
  BY <1>8, StartStays DEF vars, appVars
<1> QED BY <1>2, <1>4, <1>5, <1>6, <1>7, <1>8, OutsideLive DEF Next

(* Between two events whatever lives is tracked.                           *)
THEOREM LiveAlwaysTracked ==
  ASSUME "bridge" \notin Faults
  PROVE  Spec => []LiveIsTracked
<1>1. Init => LiveInv
  BY DEF Init, LiveInv, Threads
<1>2. DInv /\ LiveInv /\ [Next]_vars => LiveInv'
  BY NextLive
<1>3. LiveInv => LiveIsTracked
  BY DEF LiveInv, LiveIsTracked
<1> QED BY <1>1, <1>2, <1>3, Invariance, PTL DEF Spec

-----------------------------------------------------------------------------
(***************************************************************************)
(* The background, without failing calls and package requests              *)
(***************************************************************************)
(* Without failing calls a freezing application runs only in the foreground *)
(* or in the hands of the handler at work.                                  *)
Handled(a) ==
  \/ pc["loop"] \in (ParkLabels \ {"forceStop"}) /\ a = job["loop"].target
  \/ pc["loop"] \in LaunchLabels /\ a = job["loop"].app
  \/ pc["loop"] \in {"closeReveal", "closeStop"} /\ a = job["loop"].app
  \/ pc["loop"] \in {"stopAll", "recover", "restore", "exited"} /\ domain.at = "RestoringSystem"
RunsFreezing(a) == tracked[a] = "freeze" /\ unit[a] = "run"

BackgroundInv ==
  /\ pc["package"] = "idle"
  /\ domain.at = "RestoringSystem" => pc["loop"] \in {"stopAll", "recover", "restore", "exited"}
  /\ \A a \in App : RunsFreezing(a) => domain = On("Foreground", a) \/ Handled(a)
(* Whatever runs of the freezing applications is in the foreground.         *)
Unhandled ==
  /\ pc["package"] = "idle" /\ domain.at # "RestoringSystem"
  /\ \A a \in App : RunsFreezing(a) => domain = On("Foreground", a)

(* Away from the places of Handled nothing else is the case.                *)
Quiet == {"idle", "route", "park", "prepare", "enter", "close", "closeThaw", "reload",
          "reloadShow", "entering"}

(* Outside the handlers that work on an application nothing runs behind.   *)
LEMMA UnhandledIs ==
  ASSUME BackgroundInv,
         \/ pc["loop"] \in Quiet
         \/ pc["loop"] \in {"recover", "restore"} /\ domain.at # "RestoringSystem"
  PROVE  Unhandled
  BY DEF BackgroundInv, Unhandled, Handled, Quiet, ParkLabels, LaunchLabels

(* Where nothing else runs the invariant holds.                            *)
LEMMA UnhandledIsFine == Unhandled' => BackgroundInv'
  BY DEF BackgroundInv, Unhandled

(* A step that takes no freezing application up and keeps the domain.       *)
LEMMA QuietStep ==
  ASSUME TypeOK, Unhandled, UNCHANGED domain, \A a \in App : RunsFreezing(a)' => RunsFreezing(a),
         \E l : pc' = [pc EXCEPT !["loop"] = l]
  PROVE  BackgroundInv'
<1>1. pc'["package"] = "idle"
  BY DEF TypeOK, Unhandled, Threads
<1> QED BY <1>1, UnhandledIsFine DEF Unhandled

(* A step of the loop leaves the package thread alone.                     *)
LEMMA MovesTo ==
  ASSUME TypeOK, NEW l, pc' = [pc EXCEPT !["loop"] = l]
  PROVE  pc'["loop"] = l /\ pc'["package"] = pc["package"]
  BY DEF TypeOK, Threads

(* In a park only its target runs, and in a launch only its application.    *)
LEMMA HandledOnly ==
  ASSUME DInv, BackgroundInv
  PROVE  /\ pc["loop"] \in ParkLabels =>
              /\ domain.at = "Parking"
              /\ \A b \in App : RunsFreezing(b) =>
                   b = job["loop"].target /\ pc["loop"] # "forceStop"
         /\ pc["loop"] \in LaunchLabels =>
              /\ domain.at = "Launching"
              /\ \A b \in App : RunsFreezing(b) => b = job["loop"].app
<1>1. /\ pc["loop"] \in ParkLabels => domain.at = "Parking"
      /\ pc["loop"] \in LaunchLabels => domain.at = "Launching"
  BY OnIs DEF DInv, LoopInv
<1>2. \A b \in App : RunsFreezing(b) => domain.at = "Foreground" \/ Handled(b)
  BY OnIs DEF BackgroundInv
<1> QED BY <1>1, <1>2 DEF Handled, ParkLabels, LaunchLabels

(* The loop goes on inside a park or a launch and only its own application  *)
(* runs.                                                                   *)
LEMMA StaysHandled ==
  ASSUME TypeOK, BackgroundInv, domain'.at # "RestoringSystem",
         NEW l, pc' = [pc EXCEPT !["loop"] = l],
         \/ /\ l \in ParkLabels \ {"forceStop"}
            /\ \A b \in App : RunsFreezing(b)' => b = job'["loop"].target
         \/ /\ l \in LaunchLabels \cup {"closeReveal", "closeStop"}
            /\ \A b \in App : RunsFreezing(b)' => b = job'["loop"].app
  PROVE  BackgroundInv'
<1>1. pc'["loop"] = l /\ pc'["package"] = "idle"
  BY MovesTo DEF BackgroundInv
<1> QED BY <1>1 DEF BackgroundInv, Handled

(* Routing takes nothing up.                                               *)
LEMMA RouteHandled == DInv /\ BackgroundInv /\ Route => BackgroundInv'
<1> SUFFICES ASSUME DInv, BackgroundInv, Route PROVE BackgroundInv'
  OBVIOUS
<1>1. TypeOK /\ Unhandled
  BY UnhandledIs DEF DInv, Route, Quiet
<1>2. /\ UNCHANGED <<domain, unit, tracked>>
      /\ \E l : pc' = [pc EXCEPT !["loop"] = l]
  BY DEF Route, LaunchRoute, PowerRoute, EnsureHome, Finish, Fail, Leave, Goto, ParkTarget,
         managerVars, appVars
<1> QED BY <1>1, <1>2, QuietStep DEF RunsFreezing

(* A park takes its target into its hands.                                 *)
LEMMA BeginParkHandled == DInv /\ BackgroundInv /\ BeginPark => BackgroundInv'
<1> SUFFICES ASSUME DInv, BackgroundInv, BeginPark PROVE BackgroundInv'
  OBVIOUS
<1> DEFINE a == job["loop"].target
<1>1. TypeOK /\ Unhandled /\ UNCHANGED <<unit, tracked>>
  BY UnhandledIs DEF DInv, BeginPark, Quiet, appVars
<1>2. CASE Fail("loop") /\ UNCHANGED managerVars
  BY <1>1, <1>2, QuietStep DEF RunsFreezing, Fail, Leave, managerVars
<1>3. CASE /\ domain = On("Foreground", a) /\ Apply("SinglePower", NoApp)
           /\ Acquire("loop", "askBackground") /\ UNCHANGED job
  <2>1. domain' = On("Parking", a)
    BY <1>3, ParkBegins, OnIs
  <2>2. \A b \in App : RunsFreezing(b)' => b = a
    BY <1>1, <1>3, OnIs DEF Unhandled, RunsFreezing
  <2>3. pc' = [pc EXCEPT !["loop"] = "askBackground"]
    BY <1>3 DEF Acquire
  <2>4. domain'.at # "RestoringSystem" /\ BackgroundInv
    BY <2>1, OnIs
  <2>5. \A b \in App : RunsFreezing(b)' => b = job'["loop"].target
    BY <1>3, <2>2
  <2>6. "askBackground" \in ParkLabels \ {"forceStop"}
    BY ParkLabelsAre
  <2> QED BY <1>1, <2>3, <2>4, <2>5, <2>6, StaysHandled
<1> QED BY <1>2, <1>3 DEF BeginPark

(* A park lets go of its target frozen, in the foreground or stopped.      *)
LEMMA ParkHandled ==
  ASSUME "refused" \notin Faults, DInv, BackgroundInv, ParkStep
  PROVE  BackgroundInv'
<1> DEFINE a == job["loop"].target
<1>1. TypeOK /\ LoopInv
  BY DEF DInv
<1>2. ~May("refused")
  BY DEF May
<1>3. ASSUME pc["loop"] \in ParkLabels
      PROVE  /\ domain.at = "Parking" /\ a \in App /\ domain = On("Parking", a)
             /\ \A b \in App : RunsFreezing(b) => b = a /\ pc["loop"] # "forceStop"
  BY <1>1, <1>3, HandledOnly, WorksOn DEF LoopInv
<1>4. ASSUME pc["loop"] \in ParkLabels, UNCHANGED <<domain, job>>,
             NEW l \in ParkLabels \ {"forceStop"}, Goto("loop", l),
             \A b \in App : RunsFreezing(b)' => RunsFreezing(b) \/ b = a
      PROVE  BackgroundInv'
  BY <1>1, <1>3, <1>4, StaysHandled DEF Goto
<1>5. ASSUME pc["loop"] \in ParkLabels, domain'.at \notin {"RestoringSystem", "Foreground"},
             \A b \in App : ~RunsFreezing(b)', \E l : pc' = [pc EXCEPT !["loop"] = l]
      PROVE  BackgroundInv'
  <2>1. Unhandled'
    BY <1>1, <1>5, MovesTo DEF Unhandled, BackgroundInv
  <2> QED BY <2>1, UnhandledIsFine
<1>6. CASE AskBackground \/ HandOff
  <2>1. /\ pc["loop"] \in ParkLabels /\ UNCHANGED <<domain, unit, tracked, job>>
        /\ \E l \in {"handOff", "freeze", "recoverPark"} : Goto("loop", l)
    BY <1>6, ParkLabelsAre DEF AskBackground, HandOff, Goto, managerVars, appVars
  <2> QED BY <1>4, <2>1, ParkLabelsAre DEF RunsFreezing
<1>7. CASE AskForeground
  <2>1. pc["loop"] \in ParkLabels /\ UNCHANGED <<domain, unit, tracked, job>>
    BY <1>7, ParkLabelsAre DEF AskForeground, Goto, managerVars, appVars
  <2>2. CASE Goto("loop", "restoreForeground")
    BY <1>4, <2>1, <2>2, ParkLabelsAre DEF RunsFreezing
  <2>3. CASE unit[a] # "run" /\ Goto("loop", "forceStop")
    <3>1. \A b \in App : ~RunsFreezing(b)'
      BY <1>3, <2>1, <2>3 DEF RunsFreezing
    <3> QED BY <1>3, <1>5, <2>1, <2>3, <3>1 DEF Goto
  <2> QED BY <1>2, <1>7, <2>2, <2>3 DEF AskForeground
<1>8. CASE Freeze
  <2>1. pc["loop"] \in ParkLabels /\ UNCHANGED tracked
    BY <1>8, ParkLabelsAre DEF Freeze
  <2>2. CASE unit' = [unit EXCEPT ![a] = Frozen(a)] /\ Apply("AppParked", a) /\ AfterPark
    <3>1. \A b \in App : ~RunsFreezing(b)'
      BY <1>1, <1>3, <2>1, <2>2 DEF RunsFreezing, Frozen, TypeOK
    <3>2. domain' = In("Manager")
      BY <2>2, ToManager
    <3>3. \E l : pc' = [pc EXCEPT !["loop"] = l]
      BY <2>2 DEF AfterPark, Release, Finish, Fail, Leave
    <3> QED BY <1>5, <2>1, <3>1, <3>2, <3>3, OnIs
  <2>3. CASE Goto("loop", "recoverPark") /\ UNCHANGED managerVars
    <3>1. UNCHANGED <<domain, job>>
      BY <2>3 DEF Goto, managerVars
    <3>2. \A b \in App : RunsFreezing(b)' => RunsFreezing(b) \/ b = a
      BY <1>1, <1>8, <2>1 DEF Freeze, RunsFreezing, Frozen, TypeOK
    <3> QED BY <1>4, <2>1, <2>3, <3>1, <3>2, ParkLabelsAre
  <2> QED BY <1>8, <2>2, <2>3 DEF Freeze
<1>9. CASE RecoverPark
  <2>1. pc["loop"] \in ParkLabels /\ UNCHANGED <<domain, tracked, job>>
    BY <1>9, ParkLabelsAre DEF RecoverPark, Goto, managerVars
  <2>2. CASE unit' = [unit EXCEPT ![a] = Thaw(a)] /\ Goto("loop", "askForeground")
    <3>1. \A b \in App : RunsFreezing(b)' => RunsFreezing(b) \/ b = a
      BY <1>1, <2>1, <2>2 DEF RunsFreezing, TypeOK
    <3> QED BY <1>4, <2>1, <2>2, <3>1, ParkLabelsAre
  <2>3. CASE /\ ~Active(a) \/ ThawFails(a)
             /\ \E u \in {unit[a], Thaw(a)} : unit' = [unit EXCEPT ![a] = u]
             /\ Goto("loop", "forceStop")
    <3>1. unit[a] \in {"off", "dying", "ending"} /\ Thaw(a) = unit[a]
      BY <1>2, <2>3 DEF Active, ThawFails, Leaving, Thaw
    <3>2. UNCHANGED unit
      BY <1>1, <1>3, <2>1, <2>3, <3>1 DEF TypeOK
    <3>3. \A b \in App : ~RunsFreezing(b)'
      BY <1>3, <2>1, <3>1, <3>2 DEF RunsFreezing
    <3> QED BY <1>3, <1>5, <2>1, <2>3, <3>3 DEF Goto
  <2> QED BY <1>2, <1>9, <2>2, <2>3 DEF RecoverPark
<1>10. CASE RestoreForeground
  <2>1. pc["loop"] \in ParkLabels /\ UNCHANGED <<unit, tracked>>
    BY <1>10, ParkLabelsAre DEF RestoreForeground, appVars
  <2>2. domain' = On("Foreground", a) /\ Fail("loop")
    BY <1>2, <1>10, ToForeground DEF RestoreForeground
  <2>3. Unhandled'
    BY <1>1, <1>3, <2>1, <2>2, OnIs, MovesTo
    DEF Unhandled, RunsFreezing, BackgroundInv, Fail, Leave
  <2> QED BY <2>3, UnhandledIsFine
<1>11. CASE ForceStop
  <2>1. pc["loop"] = "forceStop" /\ pc["loop"] \in ParkLabels
    BY <1>11, ParkLabelsAre DEF ForceStop
  <2>2. \A b \in App : ~RunsFreezing(b)'
    BY <1>1, <1>2, <1>3, <1>11, <2>1
    DEF ForceStop, StoppedCold, Forget, StopRefused, RunsFreezing, TypeOK
  <2>3. domain'.at \in {"Manager", "Parking"}
    BY <1>3, <1>11, <2>1, ToManager, OnIs DEF ForceStop, managerVars
  <2> QED BY <1>5, <1>11, <2>1, <2>2, <2>3 DEF ForceStop, Fail, Leave
<1> QED BY <1>6, <1>7, <1>8, <1>9, <1>10, <1>11, BeginParkHandled DEF ParkStep

(* A launch lets go of its application in the foreground or stopped.       *)
LEMMA LaunchHandled ==
  ASSUME "refused" \notin Faults, DInv, BackgroundInv, LaunchStep
  PROVE  BackgroundInv'
<1> DEFINE a == job["loop"].app
<1>1. TypeOK /\ LoopInv
  BY DEF DInv
<1>2. ~May("refused")
  BY DEF May
<1>3. ASSUME pc["loop"] \in LaunchLabels
      PROVE  /\ domain.at = "Launching" /\ a \in App
             /\ \A b \in App : RunsFreezing(b) => b = a
  BY <1>1, <1>3, HandledOnly, WorksOn
<1>4. ASSUME pc["loop"] \in LaunchLabels, UNCHANGED <<domain, job>>,
             NEW l \in LaunchLabels, Goto("loop", l),
             \A b \in App : RunsFreezing(b)' => RunsFreezing(b) \/ b = a
      PROVE  BackgroundInv'
  BY <1>1, <1>3, <1>4, StaysHandled DEF Goto
<1>5. CASE Prepare
  <2>1. Unhandled /\ UNCHANGED tracked /\ pc["loop"] = "prepare"
    BY <1>5, UnhandledIs DEF Prepare, Quiet
  <2>2. \A b \in App : RunsFreezing(b)' => RunsFreezing(b)
    BY <1>1, <1>2, <1>5, <2>1 DEF Prepare, StoppedCold, StopRefused, RunsFreezing, TypeOK
  <2>3. CASE Fail("loop") /\ UNCHANGED managerVars
    BY <1>1, <2>1, <2>2, <2>3, QuietStep DEF Fail, Leave, managerVars
  <2>4. CASE domain.at = "Manager" /\ Apply("Launch", a) /\ Acquire("loop", "register")
    <3>1. domain' = On("Launching", a)
      BY <2>4, LaunchBegins
    <3>2. Unhandled'
      BY <1>1, <2>1, <2>2, <2>4, <3>1, OnIs, MovesTo DEF Unhandled, Acquire
    <3> QED BY <3>2, UnhandledIsFine
  <2> QED BY <1>5, <2>3, <2>4 DEF Prepare
<1>6. CASE RegisterRuntime
  <2>1. /\ pc["loop"] = "register" /\ UNCHANGED <<domain, unit, job>>
        /\ UNCHANGED tracked \/ NewGeneration(a)
        /\ \E l \in {"start", "rollback"} : Goto("loop", l)
    BY <1>6 DEF RegisterRuntime, Register, Goto, managerVars
  <2>2. a \in App
    BY <1>3, <2>1, ParkLabelsAre
  <2>3. \A b \in App : RunsFreezing(b)' => RunsFreezing(b) \/ b = a
    <3>1. \A b \in App \ {a} : tracked'[b] = tracked[b]
      BY <1>1, <2>1, <2>2, NewGenerationType
    <3> QED BY <2>1, <3>1 DEF RunsFreezing
  <2> QED BY <1>4, <2>1, <2>3, ParkLabelsAre
<1>7. CASE Start
  <2>1. /\ pc["loop"] = "start" /\ UNCHANGED <<domain, tracked, job>>
        /\ \E u : unit' = [unit EXCEPT ![a] = u]
        /\ \E l \in {"await", "rollback"} : Goto("loop", l)
    BY <1>7 DEF Start, Goto, managerVars
  <2>2. \A b \in App : RunsFreezing(b)' => RunsFreezing(b) \/ b = a
    BY <1>1, <2>1 DEF RunsFreezing, TypeOK
  <2> QED BY <1>4, <2>1, <2>2, ParkLabelsAre
<1>8. CASE AwaitReady \/ CommitLaunch
  <2>1. /\ pc["loop"] \in LaunchLabels /\ UNCHANGED <<domain, unit, tracked, job>>
        /\ \E l \in {"commit", "activate", "rollback"} : Goto("loop", l)
    BY <1>8, ParkLabelsAre DEF AwaitReady, CommitLaunch, Goto, managerVars, appVars
  <2> QED BY <1>4, <2>1, ParkLabelsAre DEF RunsFreezing
<1>9. CASE ActivateForeground
  <2>1. pc["loop"] \in LaunchLabels /\ UNCHANGED <<unit, tracked>>
    BY <1>9, ParkLabelsAre DEF ActivateForeground, appVars
  <2>2. domain' = On("Foreground", a) /\ Finish("loop")
    BY <1>2, <1>9, ToForeground DEF ActivateForeground
  <2>3. Unhandled'
    BY <1>1, <1>3, <2>1, <2>2, OnIs, MovesTo
    DEF Unhandled, RunsFreezing, BackgroundInv, Finish, Leave
  <2> QED BY <2>3, UnhandledIsFine
<1>10. CASE RollbackLaunch
  <2>1. pc["loop"] \in LaunchLabels
    BY <1>10, ParkLabelsAre DEF RollbackLaunch
  <2>2. \A b \in App : ~RunsFreezing(b)'
    BY <1>1, <1>2, <1>3, <1>10, <2>1
    DEF RollbackLaunch, StoppedCold, Forget, StopRefused, ThawFails, Leaving, RunsFreezing,
        TypeOK
  <2>3. domain'.at \in {"Manager", "Launching"}
    BY <1>3, <1>10, <2>1, ToManager, OnIs DEF RollbackLaunch, managerVars
  <2>4. Unhandled'
    BY <1>1, <1>10, <2>2, <2>3, MovesTo
    DEF Unhandled, BackgroundInv, RollbackLaunch, Fail, Leave
  <2> QED BY <2>4, UnhandledIsFine
<1> QED BY <1>5, <1>6, <1>7, <1>8, <1>9, <1>10 DEF LaunchStep

(* A close lets go of its application stopped.                             *)
LEMMA CloseHandled ==
  ASSUME "refused" \notin Faults, DInv, BackgroundInv, CloseStep("loop")
  PROVE  BackgroundInv'
<1> DEFINE a == job["loop"].app
<1>1. TypeOK /\ HeldInv("loop")
  BY DEF DInv
<1>2. ~May("refused")
  BY DEF May
<1>3. CASE Close("loop") \/ Reload("loop") \/ ReloadShow("loop")
  <2>1. /\ Unhandled /\ UNCHANGED <<domain, unit, tracked>>
        /\ \E l : pc' = [pc EXCEPT !["loop"] = l]
    BY <1>3, UnhandledIs
    DEF Close, Reload, ReloadShow, Quiet, Finish, Fail, Leave, Goto, Acquire, managerVars,
        appVars
  <2> QED BY <1>1, <2>1, QuietStep DEF RunsFreezing
<1>4. CASE CloseThaw("loop")
  <2>1. Unhandled /\ UNCHANGED <<domain, tracked>>
    BY <1>4, UnhandledIs DEF CloseThaw, Quiet, managerVars
  <2>2. CASE FailClose("loop") /\ UNCHANGED unit
    BY <1>1, <2>1, <2>2, QuietStep DEF RunsFreezing, FailClose, Fail, Leave
  <2>3. ASSUME NEW l \in {"closeReveal", "closeStop"}, Goto("loop", l),
               unit' = [unit EXCEPT ![a] = Thaw(a)]
        PROVE  BackgroundInv'
    <3>1. \A b \in App : RunsFreezing(b)' => b = a \/ domain' = On("Foreground", b)
      BY <1>1, <2>1, <2>3 DEF RunsFreezing, Unhandled, TypeOK
    <3>2. pc'["loop"] = l /\ pc'["package"] = "idle" /\ UNCHANGED job
      BY <1>1, <2>1, <2>3, MovesTo DEF Goto, Unhandled
    <3> QED BY <2>1, <3>1, <3>2 DEF BackgroundInv, Handled, Unhandled
  <2> QED BY <1>4, <2>2, <2>3 DEF CloseThaw
<1>5. CASE CloseReveal("loop")
  <2>1. /\ pc["loop"] = "closeReveal" /\ UNCHANGED <<unit, tracked, job>>
        /\ pc' = [pc EXCEPT !["loop"] = "closeStop"] /\ domain = On("Foreground", a)
    BY <1>1, <1>2, <1>5 DEF CloseReveal, Goto, HeldInv
  <2>2. domain' = On("Parking", a)
    BY <1>5, <2>1, ParkBegins, OnIs DEF CloseReveal
  <2>3. \A b \in App : RunsFreezing(b)' => b = a
    BY <2>1, OnIs DEF RunsFreezing, BackgroundInv, Handled, ParkLabels, LaunchLabels
  <2> QED BY <1>1, <2>1, <2>2, <2>3, OnIs, StaysHandled
<1>6. CASE CloseStop("loop")
  <2>1. /\ pc["loop"] = "closeStop" /\ unit' = [unit EXCEPT ![a] = "off"] /\ Forget(a)
        /\ IF job["loop"].flag THEN domain' = In("Manager") ELSE UNCHANGED domain
        /\ AfterClose("loop") \/ Fail("loop")
    BY <1>2, <1>6 DEF CloseStop
  <2>2. \A b \in App : RunsFreezing(b)' => b # a /\ RunsFreezing(b)
    BY <1>1, <2>1 DEF RunsFreezing, Forget, TypeOK
  <2>3. /\ domain.at # "RestoringSystem"
        /\ \A b \in App : RunsFreezing(b)' => domain = On("Foreground", b)
    BY <2>1, <2>2 DEF BackgroundInv, Handled, ParkLabels, LaunchLabels
  <2>4. job["loop"].flag => domain.at = "Parking"
    BY <1>1, <2>1, OnIs DEF HeldInv
  <2>5. \E l : pc' = [pc EXCEPT !["loop"] = l]
    BY <2>1 DEF AfterClose, Finish, Fail, Leave
  <2>6. Unhandled'
    BY <1>1, <2>1, <2>3, <2>4, <2>5, OnIs, MovesTo DEF Unhandled, BackgroundInv
  <2> QED BY <2>6, UnhandledIsFine
<1> QED BY <1>3, <1>4, <1>5, <1>6 DEF CloseStep

(* Restoring stock has every application in its hands to the end.          *)
LEMMA RestoreHandled ==
  ASSUME "refused" \notin Faults, DInv, BackgroundInv, RestoreStep("loop") \/ Recover
  PROVE  BackgroundInv'
<1>1. TypeOK /\ HeldInv("loop") /\ ~May("refused")
  BY DEF DInv, May
<1>2. ASSUME domain' = In("RestoringSystem") \/ (domain.at = "RestoringSystem" /\ UNCHANGED domain),
             NEW l \in {"stopAll", "recover", "restore", "exited"}, pc' = [pc EXCEPT !["loop"] = l]
      PROVE  BackgroundInv'
  BY <1>1, <1>2, OnIs, MovesTo DEF BackgroundInv, Handled
<1>3. CASE RestoreSystem("loop")
  <2>1. CASE domain.at = "System" /\ Finish("loop") /\ UNCHANGED domain
    <3>1. Unhandled /\ UNCHANGED <<unit, tracked>>
      BY <1>3, <2>1, UnhandledIs DEF RestoreSystem, appVars
    <3> QED BY <1>1, <2>1, <3>1, QuietStep DEF RunsFreezing, Finish, Leave
  <2>2. CASE domain' = In("RestoringSystem") /\ Acquire("loop", "stopAll")
    BY <1>2, <2>2 DEF Acquire
  <2> QED BY <1>3, <2>1, <2>2 DEF RestoreSystem
<1>4. CASE StopAll("loop")
  <2>1. domain.at = "RestoringSystem"
    BY <1>1, <1>4, OnIs DEF StopAll, HeldInv
  <2>2. CASE unit' = AllStopped /\ Apply("SystemReady", NoApp) /\ Finish("loop")
    <3>1. domain'.at = "System" /\ \A b \in App : ~RunsFreezing(b)'
      BY <2>2, ToSystem, OnIs DEF RunsFreezing, AllStopped
    <3>2. Unhandled'
      BY <1>1, <2>2, <3>1, MovesTo DEF Unhandled, BackgroundInv, Finish, Leave
    <3> QED BY <3>2, UnhandledIsFine
  <2>3. CASE FailRestore("loop") /\ UNCHANGED managerVars
    BY <1>2, <2>1, <2>3 DEF FailRestore, Fail, Leave, managerVars
  <2> QED BY <1>4, <2>2, <2>3 DEF StopAll
<1>5. CASE Recover
  <2>1. /\ pc["loop"] = "recover" /\ UNCHANGED <<domain, unit, tracked>>
        /\ \/ Finish("loop") /\ domain.at # "RestoringSystem"
           \/ Recovery("restore")
    BY <1>1, <1>5 DEF Recover, Healthy, managerVars, appVars
  <2>2. CASE domain.at # "RestoringSystem"
    BY <1>1, <2>1, <2>2, UnhandledIs, QuietStep DEF RunsFreezing, Finish, Leave, Recovery
  <2>3. CASE domain.at = "RestoringSystem"
    BY <1>2, <2>1, <2>3 DEF Recovery
  <2> QED BY <2>2, <2>3
<1> QED BY <1>3, <1>4, <1>5 DEF RestoreStep

(* Entering Home starts from stock, where nothing runs.                    *)
LEMMA EnterHandled ==
  ASSUME "refused" \notin Faults, DInv, BackgroundInv, EnterManager \/ EnterManaged
  PROVE  BackgroundInv'
<1>1. TypeOK /\ StockRunsNothing /\ ~May("refused")
  BY DEF DInv, May
<1>2. CASE EnterManager
  <2>1. Unhandled /\ UNCHANGED <<unit, tracked>>
    BY <1>2, UnhandledIs DEF EnterManager, Quiet, appVars
  <2>2. CASE Fail("loop") /\ UNCHANGED managerVars
    BY <1>1, <2>1, <2>2, QuietStep DEF RunsFreezing, Fail, Leave, managerVars
  <2>3. CASE /\ domain.at = "System" /\ Apply("TriplePower", NoApp)
             /\ Acquire("loop", "entering")
    <3>1. domain'.at = "EnteringManaged"
      BY <2>3, ToEntering, OnIs
    <3>2. Unhandled'
      BY <1>1, <2>1, <2>3, <3>1, MovesTo DEF Unhandled, RunsFreezing, StockRunsNothing, Acquire
    <3> QED BY <3>2, UnhandledIsFine
  <2> QED BY <1>2, <2>2, <2>3 DEF EnterManager
<1>3. CASE EnterManaged
  <2>1. unit' = AllStopped /\ domain' = In("Manager") /\ Finish("loop")
    BY <1>1, <1>3, ToManager DEF EnterManaged
  <2>2. Unhandled'
    BY <1>1, <2>1, OnIs, MovesTo
    DEF Unhandled, RunsFreezing, AllStopped, BackgroundInv, Finish, Leave
  <2> QED BY <2>2, UnhandledIsFine
<1> QED BY <1>2, <1>3

(* An exit forgets the application it is about.                            *)
LEMMA TakeExitHandled ==
  ASSUME DInv, BackgroundInv, NEW a \in App, NEW age \in Ages, TakeExit(a, age)
  PROVE  BackgroundInv'
<1>1. TypeOK /\ Unhandled /\ UNCHANGED unit
  BY UnhandledIs DEF DInv, TakeExit, Quiet
<1>2. \/ pc' = pc
      \/ \E l : pc' = [pc EXCEPT !["loop"] = l]
  BY DEF TakeExit, RecordExit, Fail, Leave
<1>3. pc'["package"] = "idle"
  BY <1>1, <1>2, MovesTo DEF Unhandled
<1>4. CASE UNCHANGED <<domain, tracked>>
  BY <1>1, <1>3, <1>4, UnhandledIsFine DEF Unhandled, RunsFreezing
<1>5. CASE RecordExit(a)
  <2>1. tracked' = [tracked EXCEPT ![a] = "none"]
    BY <1>5 DEF RecordExit
  <2>2. \A b \in App : RunsFreezing(b)' => b # a /\ domain = On("Foreground", b)
    BY <1>1, <2>1 DEF RunsFreezing, Unhandled, TypeOK
  <2>3. \/ UNCHANGED domain
        \/ domain' = In("Manager") /\ OwnsDomain(a)
    BY <1>5, ToManager DEF RecordExit, managerVars
  <2>4. OwnsDomain(a) => \A b \in App : ~RunsFreezing(b)'
    BY <2>2, OnIs DEF OwnsDomain
  <2>5. Unhandled'
    BY <1>1, <1>3, <2>2, <2>3, <2>4, OnIs DEF Unhandled
  <2> QED BY <2>5, UnhandledIsFine
<1> QED BY <1>4, <1>5 DEF TakeExit, managerVars

(* A step that leaves the loop where it is and takes nothing up.            *)
LEMMA BackgroundStays ==
  ASSUME BackgroundInv, UNCHANGED <<managerVars, pc, job>>,
         \A a \in App : RunsFreezing(a)' => RunsFreezing(a)
  PROVE  BackgroundInv'
  BY DEF BackgroundInv, Handled, managerVars

(* Every step keeps it.                                                    *)
LEMMA NextHandled ==
  ASSUME "refused" \notin Faults, "package" \notin Faults, DInv, BackgroundInv, [Next]_vars
  PROVE  BackgroundInv'
<1>1. TypeOK
  BY DEF DInv
<1>2. CASE UserEvent
  <2>1. ASSUME NEW kind, NEW a, Take(kind, a) PROVE BackgroundInv'
    BY <1>1, <2>1, UnhandledIs, QuietStep DEF Take, Quiet, RunsFreezing, managerVars, appVars
  <2>2. CASE TakeCancelled
    BY <1>1, <2>2, UnhandledIs, QuietStep
    DEF TakeCancelled, Quiet, RunsFreezing, managerVars, appVars, Fail, Leave
  <2>3. CASE Interrupt \/ CancelRequest
    BY <2>3, BackgroundStays DEF Interrupt, CancelRequest, RunsFreezing, appVars
  <2> QED BY <1>2, <2>1, <2>2, <2>3 DEF UserEvent
<1>3. CASE LoopStep
  BY <1>3, RouteHandled, ParkHandled, LaunchHandled, EnterHandled, CloseHandled,
     RestoreHandled, TakeExitHandled DEF LoopStep
<1>4. CASE PackageStep
  BY <1>4, NoPackageStep DEF BackgroundInv
<1>5. CASE RestartDaemon
  BY <1>5, OnIs DEF RestartDaemon, AllStopped, BackgroundInv, RunsFreezing, Threads
<1>6. ASSUME NEW a \in App, StartPackage(a) PROVE FALSE
  BY <1>6 DEF StartPackage, May
<1>7. ASSUME NEW a \in App, Die(a) \/ Runner(a) PROVE BackgroundInv'
  <2>1. \A b \in App : RunsFreezing(b)' => RunsFreezing(b)
    BY <1>1, <1>7 DEF Die, Runner, RunnerReports, UnitEnds, BridgeReports, RunsFreezing, TypeOK
  <2> QED BY <1>7, <2>1, BackgroundStays DEF Die, Runner, RunnerReports, UnitEnds, BridgeReports
<1>8. CASE UNCHANGED vars
  BY <1>8, BackgroundStays DEF vars, appVars, managerVars, RunsFreezing
<1> QED BY <1>2, <1>3, <1>4, <1>5, <1>6, <1>7, <1>8 DEF Next

(* Between two events no freezing application runs but the one in front.   *)
THEOREM BackgroundAlwaysFrozen ==
  ASSUME "refused" \notin Faults, "package" \notin Faults
  PROVE  Spec => []BackgroundFrozen
<1>1. Init => BackgroundInv
  BY OnIs DEF Init, ManagerInit, BackgroundInv, RunsFreezing, Threads
<1>2. DInv /\ BackgroundInv /\ [Next]_vars => BackgroundInv'
  BY NextHandled
<1>3. BackgroundInv => BackgroundFrozen
  BY UnhandledIs DEF BackgroundFrozen, Settled, Unhandled, RunsFreezing, Quiet
<1> QED BY <1>1, <1>2, <1>3, Invariance, PTL DEF Spec
=============================================================================
