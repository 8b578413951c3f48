------------------------------ MODULE Suspend ------------------------------
(***************************************************************************)
(* Sleep, lock and wake: the event loop of remagicd with the handlers of   *)
(* daemon/navigation/suspend.rs and daemon/power.rs, the power key thread, *)
(* the idle policy, the retry timers, the display host's lock, Home (the   *)
(* only process that can draw the lock page and its replacement) and the   *)
(* kernel.  Every handler runs under the transition lock in the one event  *)
(* loop, so its steps interleave with everything but another handler.      *)
(*                                                                         *)
(* loop.at is the await a handler has reached and loop.fence the           *)
(* interaction epoch it read when it began.  Applications are one class:   *)
(* what they do is Daemon's subject.                                       *)
(***************************************************************************)
EXTENDS Sequences, FiniteSets, SleepTransaction, PowerManager, PowerKey

CONSTANTS
  MaxPresses,   (* bound on presses of the power key                       *)
  MaxRequests,  (* bound on requests: of work, by the control socket, in Home *)
  MaxCover,     (* bound on movements of the cover                         *)
  MaxNoise,     (* bound on idle intervals, chargers, touches and alarms   *)
  MaxActs,      (* bound on all of these together                          *)
  MaxFaults     (* bound on steps of others that fail                      *)

ASSUME BoundsAssumption ==
  {MaxPresses, MaxRequests, MaxCover, MaxNoise, MaxActs, MaxFaults} \subseteq Nat

VARIABLES
  domain,    (* System, Manager, Foreground or Sleeping                    *)
  tx,        (* the sleep transaction                                      *)
  pw,        (* the power manager                                          *)
  key,       (* the power key thread                                       *)
  held,      (* the key is physically down                                 *)
  raw,       (* key events the thread has not read                         *)
  cover,     (* cover_closed                                               *)
  coverApp,  (* cover_resume_app is set                                    *)
  panel,     (* the display host's lock_epoch                              *)
  wakelock,  (* remagic-managed is held                                    *)
  kernel,    (* awake or asleep                                            *)
  slept,     (* the success counter passed the baseline of this suspend    *)
  charger,   (* an external wake lock is held                              *)
  interaction, (* launch_interrupt_epoch                                   *)
  queue,     (* events queued for the loop                                 *)
  timers,    (* tasks that will ask for a resuspend                        *)
  loop,      (* the handler that runs                                      *)
  home,      (* Home: its page, the request it awaits and what for         *)
  inbox,     (* datagrams Home has not read                                *)
  budget     (* what the environment may still do                          *)

keyVars == <<key, held, raw>>
coverVars == <<cover, coverApp>>
kernelVars == <<wakelock, kernel, slept>>
homeVars == <<home, inbox>>
queueVars == <<interaction, queue>>
vars == <<domain, tx, pw, keyVars, coverVars, panel, kernelVars, charger,
          queueVars, timers, loop, homeVars, budget>>

-----------------------------------------------------------------------------
Event(e, epoch, revision, fence) ==
  [ev |-> e, epoch |-> epoch, revision |-> revision, fence |-> fence]
NoEvent == Event("none", 0, 0, 0)
Resting == [at |-> "idle", event |-> NoEvent, fence |-> 0,
            error |-> "none"]

HomeUp == [page |-> "ui", waits |-> 0, reply |-> "none", wants |-> "none",
           app |-> FALSE]
HomeDown == [HomeUp EXCEPT !.page = "off"]

Init ==
  /\ domain = "Manager"
  /\ tx = NoSleep
  /\ pw = PowerAwake(TRUE)
  /\ key = KeyIdle /\ held = FALSE /\ raw = << >>
  /\ cover = FALSE /\ coverApp = FALSE
  /\ panel = 0
  /\ wakelock = TRUE /\ kernel = "awake" /\ slept = FALSE
  /\ charger = FALSE
  /\ interaction = 1
  /\ queue = << >> /\ timers = {} /\ loop = Resting
  /\ home = HomeUp /\ inbox = << >>
  /\ budget = [press |-> MaxPresses, request |-> MaxRequests,
               cover |-> MaxCover, noise |-> MaxNoise, fault |-> MaxFaults,
               act |-> MaxActs]

Spend(what) ==
  /\ budget[what] > 0 /\ budget.act > 0
  /\ budget' = [budget EXCEPT ![what] = @ - 1, !.act = @ - 1]
Fault == budget.fault > 0 /\ budget' = [budget EXCEPT !.fault = @ - 1]
NoFault == UNCHANGED budget

Awake == kernel = "awake"

(* QueuedEvent::new: the kinds that interrupt a launch create an           *)
(* interaction epoch and carry it.  QuietWake leaves Wake out of them.     *)
Interrupting == {"SinglePower", "TriplePower", "LongPower", "OpenManager",
                 "Launch", "ReturnSystem", "CoverClosed", "CoverOpened",
                 "Sleep", "Wake"}
QuietWake(e) == e \in Interrupting \ {"Wake"}
InterruptsLaunch(e) == e \in Interrupting

(* Send(e, revision, after): an event queued when the epoch is `after'.    *)
EpochAfter(e, from) == IF InterruptsLaunch(e) THEN from + 1 ELSE from
Send(e, revision, from) ==
  /\ queue' = Append(queue, Event(e, 0, revision, EpochAfter(e, from)))
  /\ interaction' = EpochAfter(e, from)

-----------------------------------------------------------------------------
(* The kernel and its wake sources.  It sleeps only while nobody holds a   *)
(* wake lock; how the stock system sleeps is outside this model.           *)
KernelSleeps ==
  /\ Awake /\ ~wakelock /\ ~charger /\ domain = "Sleeping"
  /\ kernel' = "asleep" /\ slept' = TRUE
  /\ UNCHANGED <<domain, tx, pw, keyVars, coverVars, panel, wakelock, charger,
                 queueVars, timers, loop, homeVars, budget>>

AlarmWakes ==
  /\ ~Awake /\ Spend("noise")
  /\ kernel' = "awake"
  /\ UNCHANGED <<domain, tx, pw, keyVars, coverVars, panel, wakelock, slept,
                 charger, queueVars, timers, loop, homeVars>>

ChargerMoves ==
  /\ charger \/ Spend("noise")
  /\ charger => NoFault
  /\ charger' = ~charger /\ kernel' = "awake"
  /\ UNCHANGED <<domain, tx, pw, keyVars, coverVars, panel, wakelock, slept,
                 queueVars, timers, loop, homeVars>>

KeyDown ==
  /\ ~held /\ Spend("press")
  /\ held' = TRUE /\ raw' = Append(raw, "down") /\ kernel' = "awake"
  /\ UNCHANGED <<domain, tx, pw, key, coverVars, panel, wakelock, slept,
                 charger, queueVars, timers, loop, homeVars>>
KeyUp ==
  /\ held /\ Awake
  /\ held' = FALSE /\ raw' = Append(raw, "up")
  /\ UNCHANGED <<domain, tx, pw, key, coverVars, panel, kernelVars, charger,
                 queueVars, timers, loop, homeVars, budget>>

-----------------------------------------------------------------------------
(* The power key thread.                                                   *)
KeyUnchanged == UNCHANGED <<domain, tx, pw, coverVars, panel, kernelVars,
                            charger, timers, loop, homeVars, budget>>

(* consume_wake_guard_event: a press between arming and the kernel is the  *)
(* user's, whatever the suspend returns.                                   *)
EpochOfGuarded(v) ==
  IF key.wake.guard = "armed" /\ v = "down" THEN interaction + 1
                                            ELSE interaction

ReadGuarded ==
  /\ Awake /\ raw # << >> /\ key.wake.guard # "off"
  /\ raw' = Tail(raw)
  /\ key' = Consumed(key, Head(raw) = "down")
  /\ interaction' = EpochOfGuarded(Head(raw))
  /\ UNCHANGED <<held, queue>> /\ KeyUnchanged

(* track_power_value: a press counts as activity at once, the click when   *)
(* it is resolved.                                                         *)
ReadKey ==
  /\ Awake /\ raw # << >> /\ key.wake.guard = "off"
  /\ raw' = Tail(raw)
  /\ \/ /\ Head(raw) = "down"
        /\ key' = [key EXCEPT !.track = TrackPress(@)]
        /\ Send("UserActivity", 0, interaction + 1)
     \/ /\ Head(raw) = "up"
        /\ key' = [key EXCEPT !.track = TrackRelease(@)]
        /\ LET action == ReleaseAction(key.track) IN
             IF action = "None" THEN UNCHANGED queueVars
             ELSE Send(action, 0, interaction)
  /\ UNCHANGED held /\ KeyUnchanged

(* Time passes for the tracker.                                            *)
PressGetsLong ==
  /\ Awake /\ key.track.since = "short"
  /\ key' = [key EXCEPT !.track.since = "long"]
  /\ UNCHANGED <<held, raw, queueVars>> /\ KeyUnchanged
GapEnds ==
  /\ Awake /\ key.track.clicks > 0 /\ ~key.track.gapOver
  /\ key' = [key EXCEPT !.track.gapOver = TRUE]
  /\ UNCHANGED <<held, raw, queueVars>> /\ KeyUnchanged

(* poll_pending_click                                                      *)
PollClick ==
  /\ Awake /\ key.wake.guard = "off" /\ raw = << >>
  /\ PollAction(key.track) # "None"
  /\ key' = [key EXCEPT !.track = TrackPoll(@)]
  /\ Send(PollAction(key.track), 0, interaction)
  /\ UNCHANGED <<held, raw>> /\ KeyUnchanged

(* The cover's switch: the flag is set in the thread, the event follows.   *)
CoverMoves ==
  /\ Spend("cover")
  /\ cover' = ~cover /\ kernel' = "awake"
  /\ Send(IF cover THEN "CoverOpened" ELSE "CoverClosed", 0, interaction)
  /\ UNCHANGED <<domain, tx, pw, keyVars, coverApp, panel, wakelock, slept,
                 charger, timers, loop, homeVars>>

-----------------------------------------------------------------------------
(* The idle policy and who feeds it.                                       *)
PowerUnchanged == UNCHANGED <<domain, tx, keyVars, coverVars, panel, kernelVars,
                              charger, timers, loop, homeVars>>

IdleTimePasses ==
  /\ Awake /\ pw.managed /\ pw.phase = "Awake" /\ ~pw.elapsed /\ Spend("noise")
  /\ pw' = [pw EXCEPT !.elapsed = TRUE]
  /\ UNCHANGED queueVars /\ PowerUnchanged

Deadline ==
  /\ Awake /\ pw.checked = 0 /\ HasDeadline(pw, charger)
  /\ pw' = Checked(pw)
  /\ UNCHANGED <<queueVars, budget>> /\ PowerUnchanged

(* reserve_auto_sleep, then idle_loop sends the event.                     *)
ReserveAutoSleep ==
  /\ Awake /\ pw.checked # 0
  /\ IF MayQuiesce(pw)
     THEN pw' = Reserved(pw) /\ Send("AutoSleep", pw.checked, interaction)
     ELSE pw' = NotReserved(pw) /\ UNCHANGED queueVars
  /\ UNCHANGED budget /\ PowerUnchanged

(* What applications and the user of the touch panel do.                   *)
WorkBegins ==
  /\ Awake /\ pw.managed /\ pw.leases = {} /\ Spend("request")
  /\ pw' = BeginWork(pw, 1)
  /\ UNCHANGED queueVars /\ PowerUnchanged
WorkEnds ==
  /\ Awake /\ pw.leases # {}
  /\ \/ pw' = FinishWork(pw, 1)
     \/ pw' = FinishVisible(pw, 1)
  /\ UNCHANGED <<queueVars, budget>> /\ PowerUnchanged
Touch ==
  /\ Awake /\ panel = 0 /\ domain \in {"Manager", "Foreground"} /\ Spend("noise")
  /\ pw' = NoteActivity(pw)
  /\ UNCHANGED queueVars /\ PowerUnchanged
IdleSetting ==
  /\ Awake /\ Spend("request")
  /\ pw' = SetIdleSuspend(pw)
  /\ UNCHANGED queueVars /\ PowerUnchanged

ControlRequest ==
  /\ Awake /\ Spend("request")
  /\ \E e \in {"OpenManager", "Launch", "ReturnSystem"} :
       Send(e, 0, interaction)
  /\ UNCHANGED pw /\ PowerUnchanged

-----------------------------------------------------------------------------
(* The event loop.                                                         *)
Take ==
  /\ Awake /\ loop.at = "idle" /\ queue # << >>
  /\ queue' = Tail(queue)
  /\ loop' = [loop EXCEPT !.at = "start", !.event = Head(queue)]
  /\ pw' = IF Head(queue).ev \in {"SinglePower", "TriplePower", "LongPower",
                                  "UserActivity"}
           THEN NoteActivity(pw) ELSE pw
  /\ UNCHANGED <<domain, tx, keyVars, coverVars, panel, kernelVars, charger,
                 interaction, timers, homeVars, budget>>

Starts(events) == Awake /\ loop.at = "start" /\ loop.event.ev \in events
At(stage) == Awake /\ loop.at = stage
GoTo(stage) == loop' = [loop EXCEPT !.at = stage]

(* A reply goes over the channel of the request, to Home if it still waits *)
(* for this one.  Timers and the policy ask for none.                      *)
Reply(h, result) ==
  IF /\ loop.event.ev \in {"Sleep", "Wake"}
     /\ h.waits # 0 /\ h.waits = loop.event.fence
  THEN [h EXCEPT !.reply = result] ELSE h
Done == loop' = Resting /\ home' = Reply(home, "ok")
Fails(error) ==
  loop' = [loop EXCEPT !.at = "recover", !.error = error] /\ UNCHANGED home

(* A datagram to Home; Fault is Home's socket being absent.                *)
Notify(what) == inbox' = Append(inbox, what)

Untouched == UNCHANGED <<held, raw, charger, queueVars, kernel, slept>>

(* restore_system resets the transaction, whatever its phase.              *)
Retired(t) == Reset(t)

RestoreSystem ==
  /\ domain' = "System" /\ tx' = Retired(tx) /\ pw' = EnterStock(pw)
  /\ key' = Cleared(key) /\ panel' = 0 /\ wakelock' = FALSE
  /\ home' = HomeDown /\ inbox' = << >> /\ loop' = Resting
  /\ Untouched /\ UNCHANGED <<coverVars, timers, budget>>

(* enter_manager, queueing the closed cover again.                         *)
EnterManager ==
  /\ domain' = "Manager" /\ pw' = EnterManaged(pw) /\ wakelock' = TRUE
  /\ key' = Cleared(key) /\ home' = HomeUp /\ loop' = Resting
  /\ IF cover THEN Send("CoverClosed", 0, interaction) ELSE UNCHANGED queueVars
  /\ UNCHANGED <<tx, held, raw, charger, kernel, slept, coverVars, panel, inbox,
                 timers, budget>>

Still == UNCHANGED <<tx, key, coverVars, panel, wakelock, timers>> /\ Untouched

HandleActivity ==
  /\ Starts({"UserActivity"}) /\ Done
  /\ Still /\ UNCHANGED <<domain, pw, inbox, budget>>

(* single_power, open_manager and triple_power where they neither restore  *)
(* nor enter: an application is shown or parked, or Home is asked to       *)
(* unlock.  A launch that fails and a last_app that is missing stay in the *)
(* manager.                                                                *)
HandlePress ==
  /\ Starts({"SinglePower", "OpenManager"})
  /\ \/ /\ domain = "System" /\ loop.event.ev = "SinglePower"
        /\ Done /\ NoFault /\ UNCHANGED <<domain, inbox>>
     \/ /\ domain = "Manager" /\ Done /\ NoFault /\ UNCHANGED inbox
        /\ domain' \in IF loop.event.ev = "SinglePower"
                       THEN {"Manager", "Foreground"} ELSE {"Manager"}
     \/ /\ domain = "Foreground" /\ domain' = "Manager"
        /\ Done /\ NoFault /\ UNCHANGED inbox
     \/ /\ domain \in {"Foreground", "Manager"} /\ Fault /\ Fails("plain")
        /\ UNCHANGED <<domain, inbox>>
     \/ /\ domain = "Sleeping" /\ UNCHANGED domain
        /\ \/ Notify("unlock") /\ Done /\ NoFault
           \/ Fault /\ Fails("retained") /\ UNCHANGED inbox
  /\ Still /\ UNCHANGED pw

HandleLaunch ==
  /\ Starts({"Launch"})
  /\ \/ /\ domain = "Manager" /\ Done /\ domain' \in {"Manager", "Foreground"}
     \/ /\ domain = "Foreground" /\ Done /\ UNCHANGED domain
     \/ /\ domain \in {"System", "Sleeping"} /\ Fails("plain")
        /\ UNCHANGED domain
  /\ Still /\ UNCHANGED <<pw, inbox, budget>>

HandleEnter ==
  /\ Starts({"TriplePower", "OpenManager"}) /\ domain = "System"
  /\ EnterManager

HandleRestore ==
  /\ \/ Starts({"LongPower", "ReturnSystem"})
     \/ Starts({"TriplePower"}) /\ domain # "System"
  /\ \/ domain # "System" /\ RestoreSystem
     \/ /\ domain = "System" /\ Done
        /\ Still /\ UNCHANGED <<domain, pw, inbox, budget>>

-----------------------------------------------------------------------------
(* handle_auto_sleep: up to the page that Home must draw over.             *)
HandleAutoSleep ==
  /\ Starts({"AutoSleep"})
  /\ \/ /\ \/ interaction # loop.event.fence
           \/ ~AutoSleepIsCurrent(pw, loop.event.revision)
        /\ Done /\ NoFault /\ UNCHANGED <<domain, pw>>
     \/ /\ interaction = loop.event.fence
        /\ AutoSleepIsCurrent(pw, loop.event.revision)
        /\ \/ /\ domain \in {"Foreground", "Manager"} /\ UNCHANGED pw
              /\ \/ domain' = "Manager" /\ GoTo("handoff") /\ UNCHANGED home
                    /\ NoFault
                 \/ Fault /\ Fails("plain") /\ UNCHANGED domain
           \/ /\ domain \in {"System", "Sleeping"} /\ UNCHANGED domain
              /\ pw' = CancelQuiescing(pw) /\ Done /\ NoFault
  /\ Still /\ UNCHANGED inbox

(* The second look, after the application was parked.                      *)
MayHandOff == AutoSleepIsCurrent(pw, loop.event.revision)

HandOff ==
  /\ At("handoff")
  /\ \/ ~MayHandOff /\ Done /\ NoFault /\ UNCHANGED <<pw, inbox>>
     \/ MayHandOff /\ Notify("auto_sleep") /\ Done /\ NoFault /\ UNCHANGED pw
     \/ /\ MayHandOff /\ Fault
        /\ pw' = CancelQuiescing(pw) /\ Fails("plain") /\ UNCHANGED inbox
  /\ Still /\ UNCHANGED domain

(* handle_cover_closed: the event may be older than the flag it sets.      *)
HandleCoverClosed ==
  /\ Starts({"CoverClosed"})
  /\ cover' = TRUE
  /\ \/ /\ domain \in {"System", "Sleeping"}
        /\ Done /\ NoFault /\ UNCHANGED <<domain, coverApp>>
     \/ /\ domain \in {"Manager", "Foreground"}
        /\ coverApp' = (domain = "Foreground")
        /\ \/ domain' = "Manager" /\ GoTo("cover") /\ UNCHANGED home /\ NoFault
           \/ Fault /\ Fails("plain") /\ UNCHANGED domain
  /\ UNCHANGED <<tx, key, panel, wakelock, timers, pw, inbox>> /\ Untouched

CoverHandOff ==
  /\ At("cover")
  /\ \/ ~cover /\ Done /\ NoFault /\ UNCHANGED inbox
     \/ /\ cover /\ Done /\ NoFault
        /\ Notify(IF coverApp THEN "cover_sleep_app" ELSE "cover_sleep")
     \/ cover /\ Fault /\ Fails("plain") /\ UNCHANGED inbox
  /\ Still /\ UNCHANGED <<domain, pw>>

HandleCoverOpened ==
  /\ Starts({"CoverOpened"})
  /\ cover' = FALSE
  /\ \/ /\ domain \in {"System", "Foreground"}
        /\ Done /\ NoFault /\ UNCHANGED <<coverApp, inbox>>
     \/ /\ domain \in {"Manager", "Sleeping"} /\ coverApp' = FALSE
        /\ \/ /\ Notify(IF coverApp THEN "cover_open_app" ELSE "cover_open")
              /\ Done /\ NoFault
           \/ Fault /\ Fails("plain") /\ UNCHANGED inbox
  /\ UNCHANGED <<tx, key, panel, wakelock, timers, pw, domain>> /\ Untouched

-----------------------------------------------------------------------------
(* sleep: from the request to the wake lock.  A new epoch is one that no   *)
(* transaction had (allocate_sleep_epoch).                                 *)
NewSleepEpoch == tx.revision + 1

HandleSleep ==
  /\ Starts({"Sleep"})
  /\ \/ /\ domain # "Manager" /\ Fails("plain") /\ NoFault
        /\ UNCHANGED <<domain, tx>>
     \/ /\ domain = "Manager" /\ CanBegin(tx) /\ NoFault
        /\ tx' = Begin(tx, NewSleepEpoch) /\ domain' = "Sleeping"
        /\ loop' = [loop EXCEPT !.at = "showing", !.fence = interaction]
        /\ UNCHANGED home
     \/ /\ domain = "Manager" /\ Fault /\ Fails("plain")
        /\ UNCHANGED <<domain, tx>>
  /\ UNCHANGED <<key, coverVars, panel, wakelock, timers, pw, inbox>>
  /\ Untouched

(* show_lock, mark_locked, the frontlight's settling, begin_suspend.  A    *)
(* failure may have taken effect.                                          *)
ShowLock ==
  /\ At("showing")
  /\ \/ /\ panel' = tx.epoch /\ tx' = MarkLocked(tx)
        /\ pw' = InPhase(pw, "Quiescing") /\ GoTo("arming") /\ NoFault
     \/ /\ Fault /\ panel' \in {0, tx.epoch} /\ GoTo("rolling")
        /\ UNCHANGED <<tx, pw>>
  /\ UNCHANGED <<domain, key, coverVars, wakelock, timers, home, inbox>>
  /\ Untouched

(* arm_wake_guard; a resuspend clears a guard that is still armed.  A guard *)
(* that cannot be armed ends the transaction; SleepUnguarded goes on.      *)
IsSleep == loop.event.ev = "Sleep"
SleepUnguarded == "recheck"
Unguarded == "rolling"

ArmGuard ==
  /\ At("arming")
  /\ \/ /\ CanArm(key) \/ ~IsSleep
        /\ key' = Armed(IF CanArm(key) THEN key ELSE Cleared(key))
        /\ GoTo("recheck") /\ NoFault /\ UNCHANGED home
     \/ /\ \/ Fault /\ key' \in {key, Armed(key)}
           \/ ~CanArm(key) /\ IsSleep /\ NoFault /\ key' = Armed(key)
        /\ IF IsSleep THEN GoTo(Unguarded) /\ UNCHANGED home ELSE Fails("plain")
  /\ UNCHANGED <<domain, tx, pw, coverVars, panel, wakelock, timers, inbox>>
  /\ Untouched

(* The fence once more, after the handshake.                               *)
Recheck ==
  /\ At("recheck")
  /\ \/ /\ interaction = loop.fence /\ pw' = InPhase(pw, "Suspended")
        /\ GoTo("entering") /\ NoFault /\ UNCHANGED <<key, home>>
     \/ /\ interaction # loop.fence /\ IsSleep
        /\ GoTo("rolling") /\ NoFault /\ UNCHANGED <<key, pw, home>>
     \/ /\ interaction # loop.fence /\ ~IsSleep /\ UNCHANGED pw
        /\ \/ key' = Cleared(key) /\ Done /\ NoFault
           \/ Fault /\ key' \in {key, Cleared(key)} /\ Fails("plain")
  /\ UNCHANGED <<domain, tx, coverVars, panel, wakelock, timers, inbox>>
  /\ Untouched

(* suspend_or_user_interrupt.  Its two branches are polled together, so    *)
(* the wake lock goes only while no interaction is seen.                   *)
NotInterrupted == interaction = loop.fence

Stops(why) == loop' = [loop EXCEPT !.at = "failed", !.error = why]

ReleaseWakelock ==
  /\ At("entering") /\ ~charger /\ NotInterrupted
  /\ wakelock' = FALSE /\ slept' = FALSE
  /\ GoTo("suspending")
  /\ UNCHANGED <<domain, tx, pw, keyVars, coverVars, panel, kernel, charger,
                 queueVars, timers, homeVars, budget>>

(* Blocked by a wake lock or by a wakeup source, interrupted, or refused.  *)
SuspendStops ==
  /\ At("entering") \/ At("suspending")
  /\ \/ charger /\ Stops("blocked") /\ NoFault
     \/ At("entering") /\ Spend("noise") /\ Stops("blocked")
     \/ ~NotInterrupted /\ Stops("interrupted") /\ NoFault
     \/ Fault /\ Stops("refused")
  /\ wakelock' = TRUE
  /\ UNCHANGED <<domain, tx, pw, keyVars, coverVars, panel, kernel, slept,
                 charger, queueVars, timers, homeVars>>

KernelResumed ==
  /\ At("suspending") /\ slept
  /\ wakelock' = TRUE /\ GoTo("resuming")
  /\ UNCHANGED <<domain, tx, pw, keyVars, coverVars, panel, kernel, slept,
                 charger, queueVars, timers, homeVars, budget>>

(* The wake lock cannot be taken again after either.                       *)
WakelockLost ==
  /\ At("suspending") /\ Fault /\ Fails("plain")
  /\ pw' = InPhase(pw, IF slept THEN "Suspended" ELSE "ExternallyBlocked")
  /\ key' \in {key, Cleared(key)}
  /\ Untouched
  /\ UNCHANGED <<domain, tx, coverVars, panel, wakelock, timers, inbox>>

(* schedule_failed_resuspend: a blocked suspend is retried when nothing    *)
(* blocks any more, unless there is an interaction after the sleep began;  *)
(* another failure 30 seconds from now, unless there is one after now.     *)
(* StaleTimer captures the transaction before its last update.             *)
StaleTimer(kind, fence) ==
  [kind |-> kind, epoch |-> tx.epoch, revision |-> tx.revision,
   fence |-> fence]
Timer(kind, fence) ==
  [kind |-> kind, epoch |-> tx'.epoch, revision |-> tx'.revision,
   fence |-> fence]
FailedTimer ==
  IF loop.error = "blocked" THEN Timer("blocked", loop.fence)
                            ELSE Timer("after", interaction)

(* A failure behind the committed lock keeps the lock (retained_lock_error)*)
(* because its error says so; PlainError does not.                         *)
PlainError == "plain"
RetainedError == "retained"

SuspendFailed ==
  /\ At("failed") /\ UNCHANGED tx
  /\ pw' = InPhase(pw, "ExternallyBlocked")
  /\ \/ /\ NoFault /\ key' = Cleared(key)
        /\ IF ~cover /\ interaction # loop.fence
           THEN Notify("unlock") ELSE UNCHANGED inbox
        /\ timers' = timers \cup {FailedTimer}
        /\ Fails(RetainedError)
     \/ /\ Fault /\ key' \in {key, Cleared(key)} /\ Fails("plain")
        /\ UNCHANGED <<inbox, timers>>
  /\ UNCHANGED <<domain, coverVars, panel, wakelock>> /\ Untouched

(* resume_wake_guard, answered by the key thread.                          *)
ResumeGuard ==
  /\ At("resuming")
  /\ \/ /\ CanResume(key) /\ key' = AskedResume(key) /\ GoTo("quiet")
        /\ UNCHANGED home
     \/ ~CanResume(key) /\ Fails("plain") /\ UNCHANGED key
  /\ UNCHANGED <<domain, tx, pw, coverVars, panel, wakelock, timers, inbox,
                 budget>>
  /\ Untouched

GuardQuiet ==
  /\ Awake /\ raw = << >> /\ QuietDue(key)
  /\ key' = [key EXCEPT !.wake = GuardOff]
  /\ loop' = IF loop.at = "quiet" /\ key.wake.asked
             THEN [loop EXCEPT !.at = IF key.wake.gesture THEN "pressed"
                                                          ELSE "unpressed"]
             ELSE loop
  /\ UNCHANGED <<domain, tx, pw, held, raw, coverVars, panel, kernelVars,
                 charger, queueVars, timers, homeVars, budget>>

(* The key is held for longer than anybody waits.                          *)
QuietTimeout ==
  /\ At("quiet") /\ key.wake.down /\ Fails("plain") /\ Fault
  /\ UNCHANGED <<domain, pw, inbox>> /\ Still

(* finish_physical_resume                                                  *)
OpensForUser == loop.at = "pressed" /\ ~cover

PhysicalResume ==
  /\ At("pressed") \/ At("unpressed")
  /\ \/ /\ NoFault /\ tx' = MarkAwake(tx)
        /\ timers' = timers \cup {Timer("after", interaction)}
        /\ IF OpensForUser
           THEN Notify("unlock") /\ Done /\ UNCHANGED pw
           ELSE /\ pw' = InPhase(pw, "Resuming") /\ Fails("retained")
                /\ UNCHANGED inbox
     \/ Fault /\ Fails("plain") /\ UNCHANGED <<tx, pw, timers, inbox>>
  /\ UNCHANGED <<domain, key, coverVars, panel, wakelock>> /\ Untouched

(* rollback_sleep; LeaveLocked gives up before the panel is unlocked.      *)
LeaveLocked == tx.epoch
Replaced == 0

RollBack ==
  /\ At("rolling")
  /\ \/ /\ NoFault /\ key' = Cleared(key) /\ panel' = Replaced
        /\ domain' = "Manager" /\ tx' = FinishUnlock(BeginUnlock(tx))
        /\ pw' = CancelQuiescing(pw)
     \/ /\ Fault /\ tx' = AbortUnlock(BeginUnlock(tx))
        /\ key' \in {key, Cleared(key)}
        /\ panel' \in IF key' = Cleared(key) THEN {0, panel} ELSE {panel}
        /\ UNCHANGED <<domain, pw>>
  /\ Fails("plain")
  /\ UNCHANGED <<coverVars, wakelock, timers, inbox>> /\ Untouched

-----------------------------------------------------------------------------
(* wake, in two halves: until the transaction is Unlocking, and the panel. *)
HandleWake ==
  /\ Starts({"Wake"})
  /\ \/ domain = "Manager" /\ Done /\ NoFault /\ UNCHANGED <<tx, wakelock>>
     \/ /\ domain \notin {"Manager", "Sleeping"} \/ tx.phase # "Locked"
        /\ domain # "Manager"
        /\ Fails("plain") /\ NoFault /\ UNCHANGED <<tx, wakelock>>
     \/ /\ domain = "Sleeping" /\ tx.phase = "Locked" /\ NoFault
        /\ wakelock' = TRUE /\ tx' = BeginUnlock(tx)
        /\ GoTo("unlocking") /\ UNCHANGED home
     \/ /\ domain = "Sleeping" /\ Fault /\ Fails("plain")
        /\ UNCHANGED <<tx, wakelock>>
  /\ UNCHANGED <<domain, pw, key, coverVars, panel, timers, inbox>>
  /\ Untouched

Unlock ==
  /\ At("unlocking")
  /\ \/ /\ NoFault /\ key' = Cleared(key) /\ panel' = 0
        /\ domain' = "Manager" /\ tx' = FinishUnlock(tx)
        /\ pw' = Resumed(pw) /\ Done
     \/ /\ Fault /\ tx' = AbortUnlock(tx) /\ Fails("plain")
        /\ key' \in {key, Cleared(key)}
        /\ panel' \in IF key' = Cleared(key) THEN {0, panel} ELSE {panel}
        /\ UNCHANGED <<domain, pw>>
  /\ UNCHANGED <<coverVars, wakelock, timers, inbox>> /\ Untouched

(* resuspend_locked.                                                       *)
HandleResuspend ==
  /\ Starts({"Resuspend"})
  /\ IF domain = "Sleeping" /\ FenceMatches(tx, loop.event, interaction)
     THEN /\ loop' = [loop EXCEPT !.at = "arming", !.fence = loop.event.fence]
          /\ UNCHANGED home
     ELSE Done
  /\ Still /\ UNCHANGED <<domain, pw, inbox, budget>>

(* The timers of suspend/retry.rs.                                         *)
TimerEnds(t) ==
  /\ Awake /\ t \in timers
  /\ t.kind = "blocked" /\ t.fence = interaction => ~charger
  /\ timers' = timers \ {t}
  /\ queue' = IF interaction = t.fence
              THEN Append(queue, Event("Resuspend", t.epoch, t.revision,
                                       t.fence))
              ELSE queue
  /\ UNCHANGED <<domain, tx, pw, keyVars, coverVars, panel, kernelVars, charger,
                 interaction, loop, homeVars, budget>>

(* recover_after_failure; the lock is healthy when the transaction and the *)
(* panel agree on it.                                                      *)
LockHealthy == tx.phase = "Locked" /\ panel = tx.epoch
Retains == loop.error = "retained" /\ LockHealthy

Recover ==
  /\ At("recover")
  /\ \/ /\ domain # "Sleeping" \/ Retains
        /\ loop' = Resting /\ home' = Reply(home, "error")
        /\ Still /\ UNCHANGED <<domain, pw, inbox, budget>>
     \/ domain = "Sleeping" /\ ~Retains /\ RestoreSystem

(* ensure_manager_or_restore, when Home's surface is gone.                 *)
RecoverManager ==
  /\ At("recover") /\ domain = "Manager" /\ budget.fault > 0
  /\ RestoreSystem

-----------------------------------------------------------------------------
(* Home: one task that draws, asks and waits.                              *)
HomeUnchanged == UNCHANGED <<domain, tx, keyVars, coverVars, panel, kernelVars,
                             charger, timers, loop>>

AskSleep(wants, app) ==
  /\ Send("Sleep", 0, interaction)
  /\ home' = [home EXCEPT !.page = "locked", !.wants = wants, !.app = app,
                          !.waits = interaction']
AskWake(page, wants) ==
  /\ Send("Wake", 0, interaction)
  /\ home' = [home EXCEPT !.page = page, !.wants = wants, !.reply = "none",
                          !.waits = interaction']

HomeFree == Awake /\ home.page # "off" /\ home.waits = 0

SleepButton ==
  /\ HomeFree /\ home.page = "ui" /\ inbox = << >>
  /\ domain = "Manager" /\ panel = 0 /\ Spend("request")
  /\ AskSleep("sleep", home.app) /\ pw' = NoteActivity(pw)
  /\ UNCHANGED inbox /\ HomeUnchanged

(* home_events                                                             *)
NotYetLocked == home.page # "locked"

HomeReads ==
  /\ HomeFree /\ inbox # << >>
  /\ inbox' = Tail(inbox)
  /\ LET n == Head(inbox) IN
     \/ /\ n = "auto_sleep"
        /\ IF NotYetLocked THEN AskSleep("sleep", home.app)
                           ELSE UNCHANGED <<home, queueVars>>
     \/ /\ n \in {"cover_sleep", "cover_sleep_app"}
        /\ AskSleep("cover", n = "cover_sleep_app")
     \/ /\ n \in {"unlock", "cover_open", "cover_open_app"}
        /\ IF home.page = "locked"
           THEN /\ Send("Wake", 0, interaction)
                /\ home' = [home EXCEPT
                              !.page = "ui", !.wants = "resume",
                              !.app = @ \/ n = "cover_open_app",
                              !.waits = interaction']
           ELSE IF n = "cover_open_app"
           THEN Send("Launch", 0, interaction) /\ UNCHANGED home
           ELSE UNCHANGED <<home, queueVars>>
  /\ UNCHANGED <<pw, budget>> /\ HomeUnchanged

(* After an error the daemon's domain decides which page is true, and a    *)
(* page that cannot tell stays.  AlwaysHome trusts the error.              *)
AlwaysHome(page) == "ui"
PageAfterError(page) == IF domain = "Manager" THEN "ui" ELSE page

Rested(page) ==
  home' = [home EXCEPT !.page = page, !.waits = 0, !.reply = "none",
                       !.wants = "none", !.app = FALSE]

(* The answer.                                                             *)
HomeHears ==
  /\ Awake /\ home.waits # 0 /\ home.reply # "none"
  /\ LET ok == home.reply = "ok" IN
     \/ /\ home.wants \in {"sleep", "cover"} /\ ok
        /\ AskWake(IF home.wants = "cover" THEN "ui" ELSE home.page,
                   IF home.wants = "cover" THEN "resume" ELSE "unlock")
     \/ /\ home.wants \in {"sleep", "cover"} /\ ~ok
        /\ Rested(PageAfterError(home.page))
        /\ UNCHANGED queueVars
     \/ /\ home.wants \in {"unlock", "resume"} /\ ok
        /\ Rested("ui")
        /\ IF home.wants = "resume" /\ home.app
           THEN Send("Launch", 0, interaction) ELSE UNCHANGED queueVars
     \/ /\ home.wants \in {"unlock", "resume"} /\ ~ok
        /\ Rested(PageAfterError("locked"))
        /\ UNCHANGED queueVars
  /\ UNCHANGED <<pw, inbox, budget>> /\ HomeUnchanged

(* The request has its 30 seconds and the 5 of a committing transition,    *)
(* which a suspend may outlast.                                            *)
SleepReplyLate ==
  /\ Awake /\ home.waits # 0 /\ home.reply = "none" /\ Fault
  /\ loop.event.ev = "Sleep" /\ loop.event.fence = home.waits
  /\ loop.at \in {"suspending", "entering", "resuming", "quiet"}
  /\ home' = [home EXCEPT !.reply = "error"]
  /\ UNCHANGED <<pw, queueVars, inbox>> /\ HomeUnchanged

-----------------------------------------------------------------------------
Thread == ReadGuarded \/ ReadKey \/ PollClick \/ GuardQuiet
Handlers ==
  \/ Take \/ HandleActivity \/ HandlePress \/ HandleLaunch \/ HandleEnter
  \/ HandleRestore \/ HandleAutoSleep \/ HandOff \/ HandleCoverClosed
  \/ CoverHandOff \/ HandleCoverOpened \/ HandleSleep \/ ShowLock \/ ArmGuard
  \/ Recheck \/ ReleaseWakelock \/ SuspendStops \/ KernelResumed
  \/ WakelockLost \/ SuspendFailed \/ ResumeGuard \/ QuietTimeout
  \/ PhysicalResume \/ RollBack \/ HandleWake \/ Unlock \/ HandleResuspend
  \/ Recover \/ RecoverManager
Policy == Deadline \/ ReserveAutoSleep
HomeSteps == HomeReads \/ HomeHears
Timers == \E t \in timers : TimerEnds(t)
Environment ==
  \/ AlarmWakes \/ ChargerMoves \/ KeyDown \/ PressGetsLong
  \/ GapEnds \/ CoverMoves \/ IdleTimePasses \/ WorkBegins \/ WorkEnds
  \/ Touch \/ IdleSetting \/ ControlRequest \/ SleepButton \/ SleepReplyLate

Next == Environment \/ KernelSleeps \/ KeyUp \/ Thread \/ Handlers \/ Policy
        \/ HomeSteps \/ Timers

Spec == Init /\ [][Next]_vars

(* The tasks and threads of the daemon and of Home run when they can, a    *)
(* timer ends, a held key comes up, the kernel's autosleep acts on a       *)
(* released wake lock.  Nobody has to press, plug or cover anything.       *)
FairSpec ==
  /\ Spec /\ WF_vars(Handlers) /\ WF_vars(Thread) /\ WF_vars(HomeSteps)
  /\ WF_vars(Timers) /\ WF_vars(KeyUp) /\ WF_vars(KernelSleeps)

-----------------------------------------------------------------------------
(* The kernel may sleep only behind the committed lock page: while the     *)
(* managed wake lock is released outside the stock system, the transaction *)
(* is Locked, the panel shows the lock of the same epoch and the wake guard*)
(* is armed, so that no application frame, touch or click can slip into    *)
(* the wake (suspend.rs: the order of sleep and of resuspend_locked).      *)
SuspendBehindLock ==
  ~wakelock /\ domain # "System" /\ loop.at = "suspending" =>
    /\ domain = "Sleeping" /\ LockHealthy /\ key.wake.guard = "armed"

(* Between two handlers the four owners of the lock agree: the domain, the *)
(* transaction, the panel and the wake lock.  Every error path of sleep,   *)
(* wake and resuspend has to end in one of the three rows.                 *)
OwnersAgree ==
  loop.at = "idle" =>
    \/ /\ domain \in {"Manager", "Foreground"}
       /\ tx.phase = "Idle" /\ panel = 0 /\ wakelock
       /\ key.wake.guard = "off"
    \/ domain = "Sleeping" /\ LockHealthy /\ wakelock
    \/ domain = "System" /\ tx.phase = "Idle" /\ panel = 0 /\ ~wakelock

(* Automatic sleep yields to work: no lease is held while the policy has   *)
(* the awake device reserved for it (reserve_auto_sleep against begin_work,*)
(* which raises the revision only after it has inserted the lease).        *)
LeaseKeepsAwake ==
  pw.phase = "Quiescing" /\ domain \in {"Manager", "Foreground"}
    => pw.leases = {}

(* A queued unlock or a newer power action always wins over a timer: a     *)
(* resuspend never releases the wake lock while Home's request to unlock   *)
(* or a press waits in the queue behind it.                                *)
UnlockBeatsTimer ==
  [][ /\ wakelock /\ ~wakelock' /\ domain' = "Sleeping"
      /\ loop.event.ev = "Resuspend"
      => \A i \in 1..Len(queue) :
           queue[i].ev \notin {"Wake", "SinglePower", "LongPower"} ]_vars

(* The lock survives whatever the timers, the policy and Home do on their  *)
(* own: while no step fails, only the user's long or triple press leaves it*)
(* for the stock system (request.rs recover_after_failure against the      *)
(* errors that suspend.rs marks as retained; suspend.rs:63-67).            *)
OnlyUserRestores ==
  [][domain = "Sleeping" /\ domain' = "System"
       => loop.event.ev \in {"LongPower", "TriplePower"}]_vars

(* A retry whose fences still hold is served: the device gets an interval  *)
(* without the wake lock, unless something newer supersedes the retry or a *)
(* charger keeps the device awake (suspend/retry.rs).                      *)
RetryPending(fence) ==
  /\ domain = "Sleeping" /\ tx.phase = "Locked" /\ ~charger
  /\ interaction = fence
  /\ \E t \in timers : t.epoch = tx.epoch /\ t.fence = fence
RetryIsServed ==
  \A fence \in 1..8 :
    RetryPending(fence)
      ~> ~wakelock \/ charger \/ domain # "Sleeping" \/ interaction # fence

(* README.md:85-88 of what a charger does to the lock: the lock is kept and*)
(* the suspend is retried by itself when the cable and the wake lock are   *)
(* gone.  A movement of the cover ends the observer and nothing replaces   *)
(* it (retry.rs:55-84, power.rs:65).                                       *)
RetryAfterUnplug ==
  domain = "Sleeping" /\ pw.phase = "ExternallyBlocked" /\ ~charger
    ~> ~wakelock \/ charger \/ domain # "Sleeping"

(* Who presses the key on the lock page gets Home back: a click that waits *)
(* for the loop, or a wake by the key with an open cover, ends with an     *)
(* unlocked panel (suspend.rs: finish_physical_resume; power.rs:           *)
(* single_power through Home's unlock request).  A click queued before the *)
(* sleep began is no newer interaction, so the device may sleep first.     *)
Pressed == \/ \E i \in 1..Len(queue) : queue[i].ev = "SinglePower"
           \/ loop.at = "pressed" /\ ~cover
PressUnlocks ==
  domain = "Sleeping" /\ Pressed ~> domain # "Sleeping" \/ ~Awake
=============================================================================
