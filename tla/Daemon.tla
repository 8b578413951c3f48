------------------------------- MODULE Daemon -------------------------------
(***************************************************************************)
(* The supervisor core of remagicd: the serial event loop that launches,   *)
(* parks, closes and reconciles applications and hands the screen between  *)
(* the stock system, Home and one application; the package request that    *)
(* runs beside the loop under the same transition lock; the application    *)
(* units under systemd and the exit reports their runners send.            *)
(*                                                                         *)
(* A handler is cut into one action per stretch between two points where   *)
(* something else can happen (an await on a process, the display host or   *)
(* systemd).  Every such call may fail; which kinds of failure a run       *)
(* explores is the constant Faults.                                        *)
(*                                                                         *)
(* Generations are only ever compared for equality with the newest one an  *)
(* application was registered under, so a report carries its age, "cur" or *)
(* "old", and registering a newer generation ages the reports in flight.   *)
(* User events are not stored: when the loop is idle it takes any of them, *)
(* and one that arrives while the loop is busy only shows as `fresh`       *)
(* turning false.                                                          *)
(***************************************************************************)
EXTENDS ManagerState, FiniteSets

CONSTANT
  Faults   (* the kinds of fault that may happen, a subset of FaultKinds   *)

FaultKinds ==
  {"refused",   (* a call to systemd, the display host or an app fails     *)
   "store",     (* a write of the session store fails                      *)
   "lost",      (* a runner's exit callback does not reach the daemon      *)
   "bridge",    (* a failed unit's OnFailure bridge makes a late report    *)
   "package",   (* a package request runs beside the event loop            *)
   "restart"}   (* remagicd is killed and restarted                        *)

ASSUME FaultsAssumption == Faults \subseteq FaultKinds

(* The owners of the screen that are not applications.                     *)
ASSUME OwnersAssumption == "none" \notin App /\ "home" \notin App

VARIABLES
  unit,      (* the app's systemd unit: off, run, frozen (the runner with  *)
             (* it), dying (the process is gone) or ending (its runner has *)
             (* reported); it is active in all of these but off            *)
  tracked,   (* the scheduling policy captured with the registered         *)
             (* generation, or "none" when none is registered              *)
  resident,  (* the stored session has status Background                   *)
  report,    (* runtime_exit_reports: the reserved exit, or NoReport       *)
  exits,     (* ages of the RuntimeExited events queued for the app        *)
  bridge,    (* age of the report the unit's OnFailure bridge has to make  *)
  screen,    (* who holds the display lease: "none", "home" or an app      *)
  lock,      (* transition_lock: "free" or the thread that holds it        *)
  pc, job,   (* per thread: where it is and what it works on               *)
  fresh,     (* launch_interrupt_epoch is still the loop job's own         *)
  fence      (* the request fence of the loop's job                        *)

appVars  == <<unit, tracked, resident, report, exits, bridge>>
loopVars == <<fresh, fence>>
vars == <<domain, lastApp, appVars, screen, lock, pc, job, loopVars>>

Threads  == {"loop", "package"}
Policies == {"freeze", "continue"}
Ages     == {"cur", "old"}
Sources  == {"Runner", "Controlled"}
NoReport == <<"none", "none">>
NoJob    == [kind |-> "none", app |-> NoApp, target |-> NoApp, flag |-> FALSE]

May(kind) == kind \in Faults

-----------------------------------------------------------------------------
Init ==
  /\ ManagerInit
  /\ unit = [a \in App |-> "off"]
  /\ tracked = [a \in App |-> "none"]
  /\ resident = [a \in App |-> FALSE]
  /\ report = [a \in App |-> NoReport]
  /\ exits = [a \in App |-> {}]
  /\ bridge = [a \in App |-> "none"]
  /\ screen = "none"
  /\ lock = "free"
  /\ pc = [t \in Threads |-> "idle"]
  /\ job = [t \in Threads |-> NoJob]
  /\ fresh = TRUE
  /\ fence = "pending"

Active(a) == unit[a] # "off"

Leaving(a) == unit[a] \in {"dying", "ending"}

(* What an application that is waited for can still have said: a process   *)
(* may die right after it reported, a frozen one says nothing.             *)
Answers(a) == unit[a] = "run" \/ Leaving(a)

(* ensure_launch_current                                                   *)
Current == fence # "cancelled" /\ fresh

(* -- threads ------------------------------------------------------------ *)
Goto(t, label) ==
  /\ pc' = [pc EXCEPT ![t] = label]
  /\ UNCHANGED <<lock, job>>

(* transition_lock; AnyLock enters without waiting for it.                 *)
AnyLock == TRUE
LockFree == lock = "free"

(* The transition lock is taken here and held to the end of the handler.   *)
Acquire(t, label) ==
  /\ lock' = t
  /\ pc' = [pc EXCEPT ![t] = label]

(* A handler returns: Ok goes back to the loop, Err to recover_after_failure*)
(* there, and only to the requester of a package request.                  *)
Leave(t, label) ==
  /\ lock' = IF lock = t THEN "free" ELSE lock
  /\ pc' = [pc EXCEPT ![t] = label]
  /\ job' = [job EXCEPT ![t] = NoJob]

Finish(t) == Leave(t, "idle")
Fail(t)   == Leave(t, IF t = "loop" THEN "recover" ELSE "idle")

(* -- calls -------------------------------------------------------------- *)
(* A display call that fails may or may not have taken effect.             *)
ShownOrNot(owner) == screen' \in {owner, screen}

(* thaw_and_wait as its callers guard it: a unit on its way out may refuse.*)
NoThaw(a) == unit[a]
Thaw(a) == IF unit[a] = "frozen" /\ tracked[a] = "freeze" THEN "run" ELSE unit[a]
ThawFails(a) ==
  /\ tracked[a] = "freeze" /\ Active(a)
  /\ (Leaving(a) \/ May("refused"))

(* A stop that fails may have killed the process, thawed or not, without   *)
(* settling the unit.                                                      *)
HalfStopped(a) ==
  {unit[a]} \union (IF unit[a] \in {"run", "frozen"} THEN {"run", "dying"} ELSE {})

(* Every unit after the whole managed domain has been stopped.             *)
AllStopped == [a \in App |-> "off"]

(* Thaw, stop and mark the session cold: what every forced stop starts     *)
(* with.  Its error path leaves the tracking alone.                        *)
StoppedCold(a) ==
  /\ unit' = [unit EXCEPT ![a] = "off"]
  /\ resident' = [resident EXCEPT ![a] = FALSE]

StopRefused(a) ==
  /\ \/ ThawFails(a) /\ UNCHANGED unit
     \/ May("refused") /\ \E u \in HalfStopped(a) : unit' = [unit EXCEPT ![a] = u]
     \/ May("store") /\ resident[a] /\ unit' = [unit EXCEPT ![a] = "off"]
  /\ UNCHANGED resident

(* clear_runtime_tracking, written out again in rollback_launch.           *)
Forget(a) ==
  /\ tracked' = [tracked EXCEPT ![a] = "none"]
  /\ report' = [report EXCEPT ![a] = NoReport]

(* reserve_runner_report, and the event the accepted report queues, for    *)
(* every application of as.                                                *)
Reserve(as, age) ==
  LET taken == {a \in as : report[a] \notin {<<age, s>> : s \in Sources}} IN
  /\ report' = [a \in App |-> IF a \in taken THEN <<age, "Runner">> ELSE report[a]]
  /\ exits' = [a \in App |-> IF a \in taken THEN exits[a] \union {age} ELSE exits[a]]

-----------------------------------------------------------------------------
(* -- the event loop takes an event -------------------------------------- *)
AppKinds   == {"Launch", "Close"}
PlainKinds == {"SinglePower", "TriplePower", "ReturnSystem", "OpenManager",
               "ReloadManifests"}

Take(kind, a) ==
  /\ pc["loop"] = "idle"
  /\ pc' = [pc EXCEPT !["loop"] = "route"]
  /\ job' = [job EXCEPT !["loop"] = [NoJob EXCEPT !.kind = kind, !.app = a]]
  /\ fresh' \in BOOLEAN
  /\ fence' = "pending"
  /\ UNCHANGED <<managerVars, appVars, screen, lock>>

(* "request was cancelled before execution" is an Err like any other.      *)
TakeCancelled ==
  /\ pc["loop"] = "idle"
  /\ Fail("loop")
  /\ UNCHANGED <<managerVars, appVars, screen, loopVars>>

(* A newer user event is queued behind the job; its requester gives up.    *)
Interrupt ==
  /\ pc["loop"] # "idle" /\ fresh
  /\ fresh' = FALSE
  /\ UNCHANGED <<managerVars, appVars, screen, lock, pc, job, fence>>

CancelRequest ==
  /\ pc["loop"] # "idle" /\ fence = "pending"
  /\ fence' = "cancelled"
  /\ UNCHANGED <<managerVars, appVars, screen, lock, pc, job, fresh>>

ParkTarget(label) ==
  /\ pc' = [pc EXCEPT !["loop"] = label]
  /\ job' = [job EXCEPT !["loop"].target = domain.app]
  /\ UNCHANGED lock

LaunchRoute(a) ==
  \/ ~Current /\ Fail("loop")
  \/ /\ Current
     /\ \/ domain = On("Foreground", a) /\ Finish("loop")
        \/ domain.at = "Foreground" /\ ParkTarget("park")
        \/ domain.at = "Manager" /\ Goto("loop", "prepare")
        \/ domain.at \notin {"Foreground", "Manager"} /\ Fail("loop")

PowerRoute(kind) ==
  \/ domain.at = "Foreground" /\ ParkTarget("park")
  \/ /\ domain.at = "System"
     /\ IF kind = "SinglePower" THEN Finish("loop") ELSE Goto("loop", "enter")
  \/ /\ domain.at = "Manager" /\ kind = "SinglePower"
     /\ \/ lastApp = NoApp /\ Finish("loop")
        \/ lastApp # NoApp /\ ~Current /\ Fail("loop")
        \/ /\ lastApp # NoApp /\ Current
           /\ pc' = [pc EXCEPT !["loop"] = "prepare"]
           /\ job' = [job EXCEPT !["loop"].app = lastApp]
           /\ UNCHANGED lock
  \/ domain.at = "Manager" /\ kind = "TriplePower" /\ Goto("loop", "restore")
  \/ domain.at \notin {"Foreground", "System", "Manager"} /\ Finish("loop")

(* ensure_manager_surface: nothing to do while Home has the screen.        *)
EnsureHome ==
  \/ domain.at # "Manager" /\ Finish("loop") /\ UNCHANGED screen
  \/ domain.at = "Manager" /\ screen' = "home" /\ Finish("loop")
  \/ domain.at = "Manager" /\ May("refused") /\ ShownOrNot("home") /\ Fail("loop")

Route ==
  /\ pc["loop"] = "route"
  /\ LET kind == job["loop"].kind IN
       \/ kind = "Launch" /\ LaunchRoute(job["loop"].app) /\ UNCHANGED screen
       \/ /\ kind \in {"SinglePower", "TriplePower"}
          /\ PowerRoute(kind) /\ UNCHANGED screen
       \/ /\ kind = "OpenManager"
          /\ IF domain.at \in {"System", "Foreground"}
             THEN PowerRoute(kind) /\ UNCHANGED screen
             ELSE EnsureHome
       \/ kind = "ReturnSystem" /\ Goto("loop", "restore") /\ UNCHANGED screen
       \/ kind = "Close" /\ Goto("loop", "close") /\ UNCHANGED screen
       \/ kind = "ReloadManifests" /\ Goto("loop", "reload") /\ UNCHANGED screen
  /\ UNCHANGED <<managerVars, appVars, loopVars>>

-----------------------------------------------------------------------------
(* -- park: ask, save, hand the screen over, freeze ---------------------- *)
BeginPark ==
  LET a == job["loop"].target IN
  /\ pc["loop"] = "park" /\ LockFree
  /\ IF domain = On("Foreground", a) /\ tracked[a] # "none"
     THEN /\ Apply("SinglePower", NoApp)
          /\ Acquire("loop", "askBackground")
          /\ UNCHANGED job
     ELSE Fail("loop") /\ UNCHANGED managerVars
  /\ UNCHANGED <<appVars, screen, loopVars>>

(* Only a freezing application has to be resident; of another one the      *)
(* session may also read Parked.                                           *)
AskBackground ==
  LET a == job["loop"].target IN
  /\ pc["loop"] = "askBackground"
  /\ \/ /\ Answers(a)
        /\ \E r \in BOOLEAN :
             /\ tracked[a] = "freeze" => r
             /\ resident' = [resident EXCEPT ![a] = r]
        /\ Goto("loop", "handOff")
     \/ /\ unit[a] # "run" \/ May("refused") \/ May("store")
        /\ Goto("loop", "recoverPark")
        /\ UNCHANGED resident
  /\ UNCHANGED <<managerVars, unit, tracked, report, exits, bridge, screen,
                 loopVars>>

ShowManager == job["loop"].kind \in {"SinglePower", "OpenManager"}

(* HandOffUnchecked goes on to the freeze when the screen was not handed   *)
(* over.                                                                   *)
NextOwner == IF ShowManager THEN "home" ELSE "none"

HandOffUnchecked ==
  /\ pc["loop"] = "handOff"
  /\ ShownOrNot(NextOwner) /\ Goto("loop", "freeze")
  /\ UNCHANGED <<managerVars, appVars, loopVars>>

HandOff ==
  /\ pc["loop"] = "handOff"
  /\ \/ screen' = NextOwner /\ Goto("loop", "freeze")
     \/ May("refused") /\ ShownOrNot(NextOwner) /\ Goto("loop", "recoverPark")
  /\ UNCHANGED <<managerVars, appVars, loopVars>>

(* What the handler does when park has returned Ok, and the lock with it.  *)
Release(label) ==
  /\ lock' = "free"
  /\ pc' = [pc EXCEPT !["loop"] = label]
  /\ UNCHANGED job

AfterPark ==
  \/ job["loop"].kind = "TriplePower" /\ Release("restore")
  \/ job["loop"].kind = "Launch" /\ Current /\ Release("prepare")
  \/ job["loop"].kind = "Launch" /\ ~Current /\ Fail("loop")
  \/ ShowManager /\ Finish("loop")

(* The unit is frozen only after the screen was handed away.  A freeze that*)
(* times out may still happen.  NeverFrozen leaves the process running.    *)
NeverFrozen(a) == unit[a]
Frozen(a) == IF tracked[a] = "freeze" THEN "frozen" ELSE unit[a]

Freeze ==
  LET a == job["loop"].target IN
  /\ pc["loop"] = "freeze"
  /\ \/ /\ tracked[a] = "freeze" => unit[a] = "run"
        /\ unit' = [unit EXCEPT ![a] = Frozen(a)]
        /\ Apply("AppParked", a)
        /\ AfterPark
     \/ /\ tracked[a] = "freeze"
        /\ unit[a] # "run" \/ May("refused")
        /\ \E u \in {unit[a], "frozen"} :
             /\ u = "frozen" => unit[a] = "run"
             /\ unit' = [unit EXCEPT ![a] = u]
        /\ Goto("loop", "recoverPark")
        /\ UNCHANGED managerVars
  /\ UNCHANGED <<tracked, resident, report, exits, bridge, screen, loopVars>>

(* recover_failed_park: bring the same process back under a new lease, and *)
(* stop it if that fails too.  The park is an error either way.            *)
RecoverPark ==
  LET a == job["loop"].target IN
  /\ pc["loop"] = "recoverPark"
  /\ \/ /\ Active(a)
        /\ unit' = [unit EXCEPT ![a] = Thaw(a)]
        /\ screen' = "none"
        /\ Goto("loop", "askForeground")
     \/ /\ ~Active(a) \/ ThawFails(a) \/ May("refused")
        /\ \E u \in {unit[a], Thaw(a)} : unit' = [unit EXCEPT ![a] = u]
        /\ screen' \in (IF May("refused") THEN {screen, "none"} ELSE {screen})
        /\ Goto("loop", "forceStop")
  /\ UNCHANGED <<managerVars, tracked, resident, report, exits, bridge,
                 loopVars>>

AskForeground ==
  LET a == job["loop"].target IN
  /\ pc["loop"] = "askForeground"
  /\ \/ Answers(a) /\ Goto("loop", "restoreForeground")
     \/ (unit[a] # "run" \/ May("refused")) /\ Goto("loop", "forceStop")
  /\ UNCHANGED <<managerVars, appVars, screen, loopVars>>

RestoreForeground ==
  LET a == job["loop"].target IN
  /\ pc["loop"] = "restoreForeground"
  /\ \/ screen' = a /\ Apply("AppRestored", a) /\ Fail("loop")
     \/ /\ May("refused") /\ ShownOrNot(a)
        /\ Goto("loop", "forceStop") /\ UNCHANGED managerVars
  /\ UNCHANGED <<appVars, loopVars>>

ForceStop ==
  LET a == job["loop"].target IN
  /\ pc["loop"] = "forceStop"
  /\ \/ /\ StoppedCold(a) /\ Forget(a)
        /\ Apply("AppExited", a)
        /\ IF May("refused") THEN ShownOrNot("home") ELSE screen' = "home"
     \/ StopRefused(a) /\ UNCHANGED <<tracked, report, managerVars, screen>>
  /\ Fail("loop")
  /\ UNCHANGED <<exits, bridge, loopVars>>

ParkStep ==
  \/ BeginPark \/ AskBackground \/ HandOff \/ Freeze \/ RecoverPark
  \/ AskForeground \/ RestoreForeground \/ ForceStop

-----------------------------------------------------------------------------
(* -- launch: settle, register, start or recall, await, commit ----------- *)

(* validate_existing_runtime: a unit nobody tracks is stopped first.       *)
Untracked(a) == Active(a) /\ tracked[a] = "none"

Prepare ==
  LET a == job["loop"].app IN
  /\ pc["loop"] = "prepare" /\ LockFree
  /\ \/ /\ Current /\ domain.at = "Manager"
        /\ IF Untracked(a) THEN StoppedCold(a) ELSE UNCHANGED <<unit, resident>>
        /\ Apply("Launch", a)
        /\ Acquire("loop", "register")
        /\ job' = [job EXCEPT !["loop"].flag = Active(a) /\ ~Untracked(a)]
     \/ /\ ~Current \/ domain.at # "Manager" \/ May("refused") \/ May("store")
        /\ IF Current /\ domain.at = "Manager" /\ Untracked(a)
           THEN StopRefused(a) ELSE UNCHANGED <<unit, resident>>
        /\ Fail("loop") /\ UNCHANGED managerVars
  /\ UNCHANGED <<tracked, report, exits, bridge, screen, loopVars>>

(* A new generation makes every report still in flight an old one.         *)
Aged(age) == IF age = "cur" THEN "old" ELSE age

NewGeneration(a) ==
  /\ \E p \in Policies : tracked' = [tracked EXCEPT ![a] = p]
  /\ report' = [report EXCEPT ![a] = <<Aged(@[1]), @[2]>>]
  /\ exits' = [exits EXCEPT ![a] = {Aged(age) : age \in @}]
  /\ bridge' = [bridge EXCEPT ![a] = Aged(@)]

(* A recalled process keeps its generation and its policy;                 *)
(* AlwaysNewGeneration reads the policy of the manifest again.             *)
AlwaysNewGeneration(a) == NewGeneration(a)
Register(a) ==
  IF job["loop"].flag THEN UNCHANGED <<tracked, report, exits, bridge>>
                      ELSE NewGeneration(a)

RegisterRuntime ==
  LET a == job["loop"].app IN
  /\ pc["loop"] = "register"
  /\ \/ Current /\ Goto("loop", "start") /\ Register(a)
     \/ /\ ~Current \/ May("refused")
        /\ Goto("loop", "rollback")
        /\ UNCHANGED <<tracked, report, exits, bridge>>
  /\ UNCHANGED <<managerVars, unit, resident, screen, loopVars>>

(* Recall (thaw, EnterForeground) or a cold start.                         *)
Start ==
  LET a == job["loop"].app
      up == IF job["loop"].flag THEN Thaw(a) ELSE "run" IN
  /\ pc["loop"] = "start"
  /\ \/ up \in {"run", "frozen"} /\ Goto("loop", "await")
        /\ unit' = [unit EXCEPT ![a] = up]
     \/ /\ up \notin {"run", "frozen"} \/ May("refused")
        /\ \E u \in {unit[a], up} : unit' = [unit EXCEPT ![a] = u]
        /\ Goto("loop", "rollback")
  /\ UNCHANGED <<managerVars, tracked, resident, report, exits, bridge, screen,
                 loopVars>>

AwaitReady ==
  LET a == job["loop"].app IN
  /\ pc["loop"] = "await"
  /\ \/ Answers(a) /\ Current /\ Goto("loop", "commit")
     \/ /\ ~Active(a) \/ ~Current \/ May("refused")
        /\ Goto("loop", "rollback")
  /\ UNCHANGED <<managerVars, appVars, screen, loopVars>>

(* The last moment a launch can be called off: begin_commit wins against   *)
(* the requester's cancel() or loses.  PrepareForeground then revokes the  *)
(* lease of whoever held it.  LooksOnly reads the fence without claiming it.*)
LooksOnly == fence = "pending" /\ UNCHANGED fence
BeginCommit == fence = "pending" /\ fence' = "committing"

CommitLaunch ==
  /\ pc["loop"] = "commit"
  /\ \/ /\ fresh /\ BeginCommit
        /\ screen' = "none" /\ Goto("loop", "activate")
     \/ /\ ~Current \/ May("refused")
        /\ fence' \in (IF fence = "pending" THEN {"pending", "committing"}
                                            ELSE {fence})
        /\ screen' \in (IF May("refused") /\ fence' = "committing"
                        THEN {screen, "none"} ELSE {screen})
        /\ Goto("loop", "rollback")
  /\ UNCHANGED <<managerVars, appVars, fresh>>

ActivateForeground ==
  LET a == job["loop"].app IN
  /\ pc["loop"] = "activate"
  /\ \/ screen' = a /\ Apply("AppReady", a) /\ Finish("loop")
     \/ /\ May("refused") /\ ShownOrNot(a)
        /\ Goto("loop", "rollback") /\ UNCHANGED managerVars
  /\ UNCHANGED <<appVars, loopVars>>

RollbackLaunch ==
  LET a == job["loop"].app IN
  /\ pc["loop"] = "rollback"
  /\ \/ /\ StoppedCold(a) /\ Forget(a)
        /\ Apply("AppExited", a)
        /\ IF May("refused") THEN ShownOrNot("home") ELSE screen' = "home"
     \/ StopRefused(a) /\ UNCHANGED <<tracked, report, managerVars, screen>>
  /\ Fail("loop")
  /\ UNCHANGED <<exits, bridge, loopVars>>

LaunchStep ==
  \/ Prepare \/ RegisterRuntime \/ Start \/ AwaitReady \/ CommitLaunch
  \/ ActivateForeground \/ RollbackLaunch

-----------------------------------------------------------------------------
(* -- close, by the loop or for a package request ------------------------ *)

(* reserve_controlled_exit takes over whatever report was reserved.        *)
Close(t) ==
  LET a == job[t].app IN
  /\ pc[t] = "close" /\ LockFree
  /\ report' = IF tracked[a] = "none" THEN report
               ELSE [report EXCEPT ![a] = <<"cur", "Controlled">>]
  /\ job' = [job EXCEPT ![t].flag = (domain = On("Foreground", a))]
  /\ Acquire(t, "closeThaw")
  /\ UNCHANGED <<managerVars, unit, tracked, resident, exits, bridge, screen,
                 loopVars>>

(* release_controlled_exit, on every error of close.                       *)
FailClose(t) ==
  LET a == job[t].app IN
  /\ report' = IF report[a] = <<"cur", "Controlled">>
               THEN [report EXCEPT ![a] = NoReport] ELSE report
  /\ Fail(t)

CloseThaw(t) ==
  LET a == job[t].app IN
  /\ pc[t] = "closeThaw"
  /\ \/ /\ unit' = [unit EXCEPT ![a] = Thaw(a)]
        /\ Goto(t, IF job[t].flag THEN "closeReveal" ELSE "closeStop")
        /\ UNCHANGED report
     \/ ThawFails(a) /\ FailClose(t) /\ UNCHANGED unit
  /\ UNCHANGED <<managerVars, tracked, resident, exits, bridge, screen,
                 loopVars>>

CloseReveal(t) ==
  /\ pc[t] = "closeReveal"
  /\ Apply("SinglePower", NoApp)
  /\ \/ screen' = "home" /\ Goto(t, "closeStop") /\ UNCHANGED report
     \/ May("refused") /\ ShownOrNot("home") /\ FailClose(t)
  /\ UNCHANGED <<unit, tracked, resident, exits, bridge, loopVars>>

(* A package request goes on to its package operation and the reload.      *)
AfterClose(t) ==
  IF job[t].kind = "Package"
  THEN lock' = "free" /\ pc' = [pc EXCEPT ![t] = "reload"] /\ UNCHANGED job
  ELSE Finish(t)

CloseStop(t) ==
  LET a == job[t].app IN
  /\ pc[t] = "closeStop"
  /\ \/ /\ unit' = [unit EXCEPT ![a] = "off"]
        /\ Forget(a)
        /\ IF job[t].flag
           THEN Accepts("AppExited", a, In("Manager")) /\ domain' = In("Manager")
           ELSE UNCHANGED domain
        /\ lastApp' = IF lastApp = a THEN NoApp ELSE lastApp
        /\ \/ /\ resident' = [resident EXCEPT ![a] = FALSE]
              /\ \/ AfterClose(t)
                 \/ May("refused") /\ Fail(t)
           \/ May("store") /\ UNCHANGED resident /\ Fail(t)
     \/ /\ May("refused")
        /\ \E u \in HalfStopped(a) : unit' = [unit EXCEPT ![a] = u]
        /\ FailClose(t)
        /\ UNCHANGED <<managerVars, tracked, resident>>
  /\ UNCHANGED <<exits, bridge, screen, loopVars>>

(* reload_manifests decides on the domain it reads here, without the lock, *)
(* and restarts and shows Home in a later step.                            *)
Reload(t) ==
  /\ pc[t] = "reload"
  /\ \/ domain.at = "Manager" /\ Goto(t, "reloadShow")
     \/ domain.at # "Manager" /\ Finish(t)
     \/ May("refused") /\ Fail(t)
  /\ UNCHANGED <<managerVars, appVars, screen, loopVars>>

ReloadShow(t) ==
  /\ pc[t] = "reloadShow"
  /\ \/ domain.at # "System" /\ screen' = "home" /\ Finish(t)
     \/ /\ domain.at = "System" \/ May("refused")
        /\ screen' \in (IF domain.at = "System" THEN {screen} ELSE {screen, "home"})
        /\ Goto(t, "restore")
  /\ UNCHANGED <<managerVars, appVars, loopVars>>

StartPackage(a) ==
  /\ May("package") /\ pc["package"] = "idle"
  /\ pc' = [pc EXCEPT !["package"] = "close"]
  /\ job' = [job EXCEPT !["package"] = [NoJob EXCEPT !.kind = "Package", !.app = a]]
  /\ UNCHANGED <<managerVars, appVars, screen, lock, loopVars>>

CloseStep(t) ==
  \/ Close(t) \/ CloseThaw(t) \/ CloseReveal(t) \/ CloseStop(t)
  \/ Reload(t) \/ ReloadShow(t)

-----------------------------------------------------------------------------
(* -- exit reports ------------------------------------------------------- *)

(* consume_exit_report                                                     *)
Consumes(a, age) == report[a] = <<age, "Runner">>

(* take_matching_generation; AnyGeneration does not compare the numbers.   *)
AnyGeneration(a, age) == tracked[a] # "none"
Names(a, age) == tracked[a] # "none" /\ age = "cur"

OwnsDomain(a) == domain \in {On(d, a) : d \in AppDomains}

(* record_runtime_exit of a report that has its reservation and names the  *)
(* registered generation.                                                  *)
RecordExit(a) ==
  /\ tracked' = [tracked EXCEPT ![a] = "none"]
  /\ IF OwnsDomain(a) THEN Apply("AppCrashed", a) ELSE UNCHANGED managerVars
  /\ \/ /\ screen' = IF domain.at = "Foreground" /\ OwnsDomain(a) THEN "home"
                                                                  ELSE screen
        /\ \/ resident' = [resident EXCEPT ![a] = FALSE] /\ UNCHANGED <<lock, pc, job>>
           \/ May("store") /\ UNCHANGED resident /\ Fail("loop")
     \/ /\ May("refused") /\ domain.at = "Foreground" /\ OwnsDomain(a)
        /\ ShownOrNot("home") /\ UNCHANGED resident /\ Fail("loop")

TakeExit(a, age) ==
  /\ pc["loop"] = "idle" /\ LockFree
  /\ age \in exits[a]
  /\ exits' = [exits EXCEPT ![a] = @ \ {age}]
  /\ report' = IF Consumes(a, age) THEN [report EXCEPT ![a] = NoReport] ELSE report
  /\ IF Consumes(a, age) /\ Names(a, age)
     THEN RecordExit(a)
     ELSE UNCHANGED <<managerVars, tracked, resident, screen, lock, pc, job>>
  /\ UNCHANGED <<unit, bridge, loopVars>>

-----------------------------------------------------------------------------
(* -- the stock domain --------------------------------------------------- *)
EnterManager ==
  /\ pc["loop"] = "enter" /\ LockFree
  /\ IF domain.at = "System"
     THEN Apply("TriplePower", NoApp) /\ Acquire("loop", "entering") /\ UNCHANGED job
     ELSE Fail("loop") /\ UNCHANGED managerVars
  /\ UNCHANGED <<appVars, screen, loopVars>>

EnterManaged ==
  /\ pc["loop"] = "entering"
  /\ \/ /\ unit' = AllStopped
        /\ screen' = "home"
        /\ Apply("ManagedReady", NoApp)
        /\ Finish("loop")
     \/ /\ May("refused")
        /\ ShownOrNot("home") /\ Fail("loop") /\ UNCHANGED <<unit, managerVars>>
  /\ UNCHANGED <<tracked, resident, report, exits, bridge, loopVars>>

(* restore_system.  When it is the recovery that fails, the event loop     *)
(* returns and the daemon exits.                                           *)
RestoreSystem(t) ==
  /\ pc[t] = "restore" /\ LockFree
  /\ IF domain.at = "System"
     THEN Finish(t) /\ UNCHANGED <<domain, screen>>
     ELSE /\ domain' = In("RestoringSystem")
          /\ IF May("refused") THEN ShownOrNot("none") ELSE screen' = "none"
          /\ Acquire(t, "stopAll") /\ UNCHANGED job
  /\ UNCHANGED <<lastApp, appVars, loopVars>>

FailRestore(t) ==
  IF job[t].kind = "Recovery" THEN Leave(t, "exited") ELSE Fail(t)

StopAll(t) ==
  /\ pc[t] = "stopAll"
  /\ \/ /\ unit' = AllStopped
        /\ \E kept \in SUBSET {a \in App : resident[a]} :
             /\ kept # {} => May("store")
             /\ resident' = [a \in App |-> a \in kept]
        /\ tracked' = [a \in App |-> "none"]
        /\ screen' = "none"
        /\ \/ Apply("SystemReady", NoApp) /\ Finish(t)
           \/ May("refused") /\ FailRestore(t) /\ UNCHANGED managerVars
        /\ UNCHANGED <<report, exits>>
     \/ /\ \E stopped \in SUBSET App :
             /\ May("refused") \/ \E a \in App \ stopped : ThawFails(a)
             /\ \E last \in App, u \in {"run", "dying"} :
                  unit' = [b \in App |->
                             IF b \in stopped THEN "off"
                             ELSE IF b = last /\ u \in HalfStopped(b) THEN u
                             ELSE unit[b]]
             /\ resident' = [b \in App |-> b \notin stopped /\ resident[b]]
             /\ Reserve({b \in stopped : Active(b)}, "cur")
        /\ FailRestore(t)
        /\ UNCHANGED <<managerVars, tracked, screen>>
  /\ UNCHANGED <<bridge, loopVars>>

RestoreStep(t) == RestoreSystem(t) \/ StopAll(t)

(* recover_after_failure.  BlankHome takes a Home without the screen for   *)
(* healthy, NothingToUndo every half-done transition.                      *)
BlankHome == domain.at \in {"System", "Foreground", "Manager"}
NothingToUndo == domain.at # "Manager"
Healthy == domain.at \in {"System", "Foreground"}

Recovery(label) ==
  /\ pc' = [pc EXCEPT !["loop"] = label]
  /\ job' = [job EXCEPT !["loop"] = [NoJob EXCEPT !.kind = "Recovery"]]
  /\ UNCHANGED lock

Recover ==
  /\ pc["loop"] = "recover"
  /\ \/ Healthy /\ Finish("loop") /\ UNCHANGED screen
     \/ domain.at = "Manager" /\ screen' = "home" /\ Finish("loop")
     \/ /\ domain.at = "Manager" /\ May("refused")
        /\ ShownOrNot("home") /\ Recovery("restore")
     \/ /\ domain.at \notin {"System", "Foreground", "Manager"}
        /\ Recovery("restore") /\ UNCHANGED screen
  /\ UNCHANGED <<managerVars, appVars, loopVars>>

(* The unit remagicd.service is started again: ensure_system stops every   *)
(* managed unit, the sessions are read back from disk, nothing else is.    *)
RestartDaemon ==
  /\ pc["loop"] = "exited" \/ May("restart")
  /\ domain' = In("System") /\ lastApp' = NoApp
  /\ unit' = AllStopped
  /\ tracked' = [a \in App |-> "none"]
  /\ report' = [a \in App |-> NoReport]
  /\ exits' = [a \in App |-> {}]
  /\ bridge' = [a \in App |-> Aged(bridge[a])]
  /\ screen' = "none" /\ lock' = "free"
  /\ pc' = [t \in Threads |-> "idle"]
  /\ job' = [t \in Threads |-> NoJob]
  /\ fresh' = TRUE /\ fence' = "pending"
  /\ UNCHANGED resident

-----------------------------------------------------------------------------
(* -- the applications, outside the daemon ------------------------------- *)
(* A child that dies in a frozen unit is noticed by nobody before the thaw,*)
(* unless its runner is killed with it.                                    *)
Die(a) ==
  /\ \/ unit[a] = "run" /\ unit' = [unit EXCEPT ![a] = "dying"]
     \/ /\ unit[a] = "frozen" /\ May("lost")
        /\ unit' = [unit EXCEPT ![a] = "ending"]
  /\ UNCHANGED <<managerVars, tracked, resident, report, exits, bridge, screen,
                 lock, pc, job, loopVars>>

(* The runner reports the exit of its child, and its unit ends with it.    *)
RunnerReports(a) ==
  /\ unit[a] = "dying"
  /\ unit' = [unit EXCEPT ![a] = "ending"]
  /\ \/ Reserve({a}, "cur")
     \/ May("lost") /\ UNCHANGED <<report, exits>>
  /\ UNCHANGED <<managerVars, tracked, resident, bridge, screen, lock, pc, job,
                 loopVars>>

(* A unit that failed starts its OnFailure bridge.                         *)
UnitEnds(a) ==
  /\ unit[a] = "ending"
  /\ unit' = [unit EXCEPT ![a] = "off"]
  /\ \/ UNCHANGED bridge
     \/ May("bridge") /\ bridge' = [bridge EXCEPT ![a] = "cur"]
  /\ UNCHANGED <<managerVars, tracked, resident, report, exits, screen, lock,
                 pc, job, loopVars>>

(* The bridge sends the generation it finds in lifecycle-status.json: that *)
(* of the unit that failed, unless a newer one has written the file since. *)
BridgeReports(a) ==
  /\ bridge[a] # "none"
  /\ \E age \in Ages :
       /\ age = bridge[a] \/ unit[a] = "run"
       /\ Reserve({a}, age)
  /\ bridge' = [bridge EXCEPT ![a] = "none"]
  /\ UNCHANGED <<managerVars, unit, tracked, resident, screen, lock, pc, job,
                 loopVars>>

-----------------------------------------------------------------------------
UserEvent ==
  \/ \E kind \in AppKinds, a \in App : Take(kind, a)
  \/ \E kind \in PlainKinds : Take(kind, NoApp)
  \/ TakeCancelled \/ Interrupt \/ CancelRequest

LoopStep ==
  \/ Route \/ ParkStep \/ LaunchStep \/ EnterManager \/ EnterManaged
  \/ CloseStep("loop") \/ RestoreStep("loop") \/ Recover
  \/ \E a \in App, age \in Ages : TakeExit(a, age)

PackageStep == CloseStep("package") \/ RestoreStep("package")

Runner(a) == RunnerReports(a) \/ UnitEnds(a) \/ BridgeReports(a)

Next ==
  \/ UserEvent \/ LoopStep \/ PackageStep \/ RestartDaemon
  \/ \E a \in App : StartPackage(a) \/ Die(a) \/ Runner(a)

(* The loop is one task that is always polled; every wait in it has a      *)
(* deadline.  A runner's callback and its unit's OnFailure are started by  *)
(* systemd, and a daemon that exited is started again.                     *)
Fairness ==
  /\ SF_vars(LoopStep) /\ SF_vars(PackageStep)
  /\ WF_vars(RestartDaemon /\ pc["loop"] = "exited")
  /\ \A a \in App : WF_vars(Runner(a))

Spec == Init /\ [][Next]_vars
FairSpec == Spec /\ Fairness

-----------------------------------------------------------------------------
Labels ==
  {"idle", "route", "recover", "exited", "park", "askBackground", "handOff",
   "freeze", "recoverPark", "askForeground", "restoreForeground", "forceStop",
   "prepare", "register", "start", "await", "commit", "activate", "rollback",
   "close", "closeThaw", "closeReveal", "closeStop", "reload", "reloadShow",
   "enter", "entering", "restore", "stopAll"}

TypeOK ==
  /\ ManagerTypeOK
  /\ unit \in [App -> {"off", "run", "frozen", "dying", "ending"}]
  /\ tracked \in [App -> Policies \union {"none"}]
  /\ resident \in [App -> BOOLEAN]
  /\ report \in [App -> (Ages \X Sources) \union {NoReport}]
  /\ exits \in [App -> SUBSET Ages]
  /\ bridge \in [App -> Ages \union {"none"}]
  /\ screen \in App \union {"none", "home"}
  /\ lock \in Threads \union {"free"}
  /\ pc \in [Threads -> Labels]
  /\ job \in [Threads -> [kind : AppKinds \union PlainKinds
                                   \union {"Package", "Recovery", "none"},
                          app : App \union {NoApp},
                          target : App \union {NoApp},
                          flag : BOOLEAN]]
  /\ fresh \in BOOLEAN
  /\ fence \in {"pending", "cancelled", "committing"}

Settled == pc["loop"] = "idle" /\ pc["package"] = "idle"

(* Between two events the domain is one the user can act in, and the       *)
(* screen is held by exactly the owner the domain names: a handler that    *)
(* failed anywhere has been undone, restarted from stock or not begun.     *)
ScreenAgrees ==
  Settled =>
    \/ domain.at = "System" /\ screen = "none"
    \/ domain.at = "Manager" /\ screen = "home"
    \/ domain.at = "Foreground" /\ screen = domain.app

(* Nobody waits for a frozen process to answer: every wait for an          *)
(* application's lifecycle event runs while the process can be scheduled.  *)
FrozenNeverAwaited ==
  /\ pc["loop"] \in {"askBackground", "askForeground"}
       => unit[job["loop"].target] # "frozen"
  /\ pc["loop"] = "await" => unit[job["loop"].app] # "frozen"

(* The daemon is the Device of that module: "the application cgroup may    *)
(* only be frozen after display/input have been handed away", an           *)
(* application gets the screen from Home or from nobody and thawed, and    *)
(* going back to stock takes the screen and stops every unit, whatever     *)
(* fails, dies or is restarted on the way.                                 *)
Up == {a \in App : Active(a)}
InFreezer == {a \in App : unit[a] = "frozen"}
Promised == INSTANCE Device WITH stock <- (domain.at = "System"), owner <- screen,
                                 up <- Up, frozen <- InFreezer
ImplementsDevice == Promised!Spec

(* "A manifest reload must not change freezer semantics under a live       *)
(* cgroup": the policy a live process was registered with is its policy    *)
(* until the daemon gives the process up.                                  *)
CapturedPolicyHolds ==
  [][\A a \in App :
       unit[a] \in {"run", "frozen"} /\ tracked[a] # "none"
         => tracked'[a] \in {tracked[a], "none"}]_vars

(* An application that declares "freeze" does not run in the background.   *)
BackgroundFrozen ==
  Settled =>
    \A a \in App : tracked[a] = "freeze" /\ unit[a] = "run"
                     => domain = On("Foreground", a)

(* While the stock system owns the device nothing of ours runs, and the    *)
(* daemon does not believe anything does.                                  *)
StockRunsNothing ==
  domain.at = "System" =>
    \A a \in App : unit[a] = "off" /\ tracked[a] = "none"

(* The daemon never loses track of a live process between two events.      *)
LiveIsTracked ==
  Settled =>
    \A a \in App : unit[a] \in {"run", "frozen"} => tracked[a] # "none"

(* An exit event in the queue for the registered generation still has its  *)
(* reservation when the loop gets to it ("Once queued, it must eventually  *)
(* consume this reservation").                                             *)
QueuedExitCounts ==
  Settled =>
    \A a \in App : "cur" \in exits[a] /\ tracked[a] # "none"
                     => Consumes(a, "cur")

(* A late report of an older generation does not stand in the way of the   *)
(* exit of the current one (README.md:49).                                 *)
LateReportYields ==
  Settled => \A a \in App : "cur" \in exits[a] => report[a][1] # "old"

(* "A resident session is `Background` only while its process generation   *)
(* remains live."                                                          *)
BackgroundIsLive ==
  Settled =>
    \A a \in App : resident[a] => tracked[a] # "none"

(* A launch whose requester has given up never reaches the screen.         *)
CancelledNeverCommits ==
  [][\A a \in App :
       domain = On("Launching", a) /\ domain' = On("Foreground", a)
         => fence # "cancelled"]_vars

(* A transition that began ends: whatever fails on the way, the device     *)
(* comes back to a domain the user can act in.                             *)
AlwaysSettles == []<>(domain.at \in {"System", "Manager", "Foreground"})
=============================================================================
