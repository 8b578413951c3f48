# Formal models of remagic

remagic runs applications beside the stock software of a paper tablet. This
directory holds TLA+ modules that model its supervisor, its application
runner, its agent broker and its display host, the TLC configurations that
check them on small instances, and theorems proved with TLAPS for every value
of the constants. Paths below are relative to the repository; `remagicd/…`,
`remagic-core/…` and so on abbreviate `crates/<name>/src/…`, and
`display-host/…` abbreviates `native/remagic-display-host/src/…`.

    tlc -workers 2 -config DaemonFaults.cfg MCDaemon.tla
    tlapm Daemon_proofs.tla

## 1. The system

### 1.1 Components

**Composite state, v1** (`remagic-core/state/transitions.rs`, `model.rs`).
State: one `DomainState` (System, EnteringManaged, Manager, Launching a,
Foreground a, Parking a, Sleeping, RestoringSystem, Recovering), `last_app`, a
sequence number that only labels replies. One operation, `apply(event)`.
Correct when every handler of the daemon finds an edge for the event it
applies and the state always names one owner of the screen.

**Composite state, v2** (`remagic-core/state/lifecycle.rs`, `transitions.rs`,
`compatibility.rs`). State: system domain, `sleeping`, a map of application
instances (generation, foreground epoch, lease, state), the foreground
pointer, `last_app`, a checked revision. Operations: transition the domain,
sleep, start, grant, mark ready, enter background, begin stop, finish, mark
unresponsive, and conversion to and from v1. Correct when every state is one
its `validate()` accepts, stale tokens never get the screen back, and the two
representations agree.

**Event loop** (`remagicd/daemon/{server,request,navigation,launch,
applications,packages}.rs` and their subdirectories). State: the v1 state
behind `state`, `transition_lock`, the runtime tracking maps (generation, pid,
captured background policy, exit reservations), the session store on disk.
Operations: power gestures, launch, park, close, recall, exit reports, enter
and leave the managed domain, reload of manifests, recovery after a failed
handler, start after a crash. It calls systemd (start, stop, freeze, thaw),
the display host (revoke, prepare, activate) and applications (lifecycle
messages through their runner), each of which may fail or time out. Package
requests run on the task of their own connection and share the lock.

**Request path** (`daemon/mod.rs`, `request.rs`, `server.rs`). State: the
bounded event channel, a fence per request (pending, cancelled, committing),
the interrupt epoch, a oneshot reply. Three deadlines run over one request.
Correct when a requester who was told "cancelled" can rely on it, a newer
interaction supersedes older launches but never itself, and everybody is
answered.

**Input mode** (`daemon/input_mode.rs`). State per application: foreground
epoch, mode, `pending`. An application changes its mode without the transition
lock while it is launched and with it in the foreground. Correct when live ink
is what the owner of the screen was promised and no start-up waits for itself.

**Sleep and wake** (`daemon/sleep.rs`, `navigation/suspend.rs`,
`navigation/suspend/retry.rs`, `display_host/lock.rs`). State: phase Idle,
Preparing, Locked or Unlocking, an epoch and a revision; the lock lease of the
display host; retry timers. Every phase change is fenced by the epoch. Home
draws the lock page and its replacement. Correct when the kernel sleeps only
behind a committed lock page, a press always unlocks, and a failed suspend is
retried.

**Power manager** (`remagicd/power_manager.rs`). State: power phase (Awake,
Quiescing, Suspended, Resuming, ExternallyBlocked), activity revision, idle
deadline, work leases with expiry. Reserves Quiescing for an activity revision
and hands the suspend to the event loop. Correct when a lease keeps the device
awake and a stale reservation puts nothing to sleep.

**Power key and wake guard** (`remagicd/power_device.rs`, `power_device/*`,
`remagic-core/power.rs`). Click tracking (single, double, triple) and the guard
that swallows the press that woke the device.

**Application runner and units** (`remagic-runner/{event_loop,process,
bootstrap}.rs`, `systemd/remagic-app@.service`, `scripts/remagic-app-failed`).
A runner per application supervises one child, reports its exit by a callback
that is not retried and ends its unit; systemd starts a failure bridge for a
unit that failed.

**Lifecycle bridge** (`remagic-runner/lifecycle_bridge/*`,
`remagicd/app_runtime.rs`, `remagic-app-sdk/lifecycle.rs`). State: the current
token, milestones, the status file; the commands and events in a socket pair.
The daemon writes a command to the runner, which fences it with its token; the
process answers under the token it read last; the daemon polls the status
file. Correct when only the answer to the present request counts.

**Data schema** (`remagic-runner/data_schema/*`, `daemon/launch/schema.rs`,
`daemon/launch/background.rs`). State on disk: applied schema, pending
migration, backups, ready fence, markers of the launch. Backup, migrate,
publish, and roll back after a crash between any two of them. Correct when no
write is lost and no writer runs on a schema it does not know.

**Package store** (`remagic-package/manager/*`, `daemon/packages.rs`). State on
disk: releases, `current` link, manifest, state file, transaction journal.
Install, roll back, uninstall, and recover from the journal. Correct when the
registered manifest names a release that is there and an install is done or
undone.

**Agent broker** (`remagic-agentd/*`). One turn per application, interactive
turns preempt background ones; worker processes, cancellation, authorization.
Correct when a worker at work has one owner, a turn is answered once, and a
cancelled turn gives its slot back.

**Display host** (`display-host/qtfb/*`, `control.rs`, `main.rs`) and its
**panel thread** (`panel/*`). State: surfaces, the foreground lease, a prepared
lease, the lock lease, contacts and their suppression, a bounded queue of panel
commands; what the panel has drawn and published. Correct when contacts are
balanced, input goes to what is visible, the locked picture stays and damage is
not forgotten.

**Without state of their own, or drawing and I/O**: systemctl and sysfs calls,
most of Home, the protocol crate, manifests, update, backlight, command line,
QTFB buffers and input decoding.

### 1.2 How they interact

Clients, the power key, timers, runners and the failure bridge queue events;
the event loop is the only consumer and handles one event to its end. While a
handler waits for an application, a unit or the display host, exit reports are
reserved and queued by other tasks, processes die, requesters time out and
cancel, and a package request may take the transition lock as soon as a handler
releases it between two sections (a launch that first parks another application
gives it up in between). Sessions and units survive a restart of the daemon,
everything else it knows does not.

The daemon reaches an application through its runner's control socket and
hears from it through a file; the display host through a socket, and it hears
from that by polling snapshots; package and schema files are written by two
programs and read by three. Each of these boundaries has a module of its own
that contains both sides, with its fences.

### 1.3 What is hard, and what correctness means

| behaviour | property |
|---|---|
| a handler fails at any of its calls | the screen has exactly the owner the domain names when the loop is idle again (`ScreenAgrees`), and the transition ends (`AlwaysSettles`) |
| freezing: hand away, freeze, thaw, ask | a frozen process is never on the screen nor waited for (`ImplementsDevice`, `FrozenNeverAwaited`); a freezing one never runs in the background (`BackgroundFrozen`) |
| a manifest changes under a live process | its captured policy holds for its generation (`CapturedPolicyHolds`) |
| reports: late, twice, lost, old | no live process is forgotten (`LiveIsTracked`) |
| leaving the managed domain | nothing of ours runs under the stock system (`StockRunsNothing`, `ImplementsDevice`) |
| the screen changes hands | only by way of Home or nobody (`ImplementsDevice`) |
| a requester gives up while a launch commits | exactly one of the two wins, and the requester is told the truth (`CancelledNeverCommits`, `CancelledHasNoEffect`) |
| a request times out at three places | everyone is answered (`EveryoneAnswered`) |
| an interaction arrives while a cold launch is queued, running or claiming its fence | the launch gives way, and to nothing else (`NewerSupersedes`) |
| stale tokens and overflow in the v2 state | `Valid`, `FencesRise`, `ConversionsAgree` |
| a suspend, a key press, a lease, a charger and a timer meet | `SuspendBehindLock`, `OwnersAgree`, `LeaseKeepsAwake`, `UnlockBeatsTimer`, `OnlyUserRestores`, `RetryIsServed`, `PressUnlocks` |
| power is lost between two renames | `ManifestHasRelease`, `AllOrNothing`, `NothingIsLost`, `FenceMeansSettled` |
| an agent and a migration | `WritersAgree`, `WriterKeptOut` |
| a mode changes while the screen changes hands | `InkAsPromised`, `StartupAnswered` |
| an answer comes late | `ParkedHasSaved`, `AwakeInForeground` |
| turns, preemption, disconnects, dying workers | `WorkIsOwned`, `ImplementsService`, `DisconnectCancels`, `CancelFrees` |
| contacts, damage and the lock meet a change of owner | `ContactsBalanced`, `PressedIsVisible`, `DamageShown`, `LockHolds` |

`PROJECT.json` lists every hazard at its line. Four of them have no property: three
because the code does not withstand them (a report of the failure bridge for the next
process, a package request that fails half way, a close that fails after its thaw;
3.1, 3.2), one because its interleaving is not modelled (a generation number that a
restart makes ambiguous, section 5).

## 2. The modules

| module | models | role |
|---|---|---|
| `SupervisorState` | v2 state and its operations | component, proved about |
| `StateCompatibility` | v1 → v2 → v1 conversion | extends `SupervisorState` and instantiates it for the state that comes back |
| `ManagerState` | v1 `apply` as operators | used by `Daemon` |
| `Daemon` | event loop, package thread, units, reports, screen | composition, proved about |
| `Device` | what the daemon promises of the screen, the units and the stock system | abstract specification, implemented by `Daemon` |
| `RequestFence` | channel, fence, epoch, deadlines | component, proved about |
| `SleepTransaction`, `PowerManager`, `PowerKey` | the sleep transaction, the idle policy, the key thread, as operators on a record each | used by `Suspend` |
| `Suspend` | the suspend, wake and retry handlers with the key, timers, Home, display lock and kernel | composition of the three, proved about |
| `PackageStore`, `DataSchema` | the files of a package, of its data | components with actions of their own |
| `Upgrade` | package requests, launches, the migrating runner and the background service | composition of the two, proved about |
| `AgentBroker` | connections, turns, worker processes | component, proved about |
| `TurnService` | what the broker promises of an application's turns | abstract specification, implemented by `AgentBroker` |
| `Panel` | the panel thread | component |
| `DisplayHost` | surfaces, leases, input, in front of `Panel` | composition, proved about |
| `InputMode` | records, both locks, the host's ink | component, proved about |
| `LifecycleBridge` | daemon, runner and process of one application | component, proved about |
| `MC…` | model values for TLC | instances |
| `…_proofs` | theorems | TLAPS |

Three modules see the same daemon from different sides. `Daemon` has the whole
life of applications and no sleep; `Suspend` has sleep and one class of
applications; `InputMode` and `LifecycleBridge` refine what `Daemon` takes for
one step ("ask the application") into its messages. They are not composed into
one specification: the product is out of TLC's reach, and each boundary is the
transition lock, which every one of them models.

### 2.1 SupervisorState and StateCompatibility

`known` is the key set of the map `apps`; `state`, `generation`, `epoch` and
`lease` are the fields of its instances, blank for an unknown application.
Each public method is one action, tried with every token a caller may pass: a
call that returns an error changes nothing and is no step. `revision` is a
checked counter; `MaxRevision` stands for `u64::MAX`, and every method that
could overflow it checks first (`BumpRevision`).

`LegacyDomains` is the set of v1 domains the fold of `compatibility.rs` may
give: the code takes the first key of a map when several applications are
starting or stopping, and which that is depends on their names.
`ConversionsAgree` says that folding and converting back keeps domain, sleep and
the application on the screen.

### 2.2 ManagerState

`Apply(event, a)` is the relation of `ManagerState::apply`: `PlainEdges` and
`AppEdges` list its match arms, `SameApp` the arms that compare the application,
`Remember` the update of `last_app`. An event without an edge is an error in the
code; `Daemon` relies on the edge being there wherever the code uses `?`.

### 2.3 Daemon

| state | in the code |
|---|---|
| `domain`, `lastApp` | `Daemon::state` |
| `unit` | the systemd unit of an application and the process in it |
| `tracked` | `runtime_generations` with the captured `background_execution` |
| `report` | `runtime_exit_reports` |
| `exits` | `RuntimeExited` events in the channel |
| `bridge` | a started failure bridge that has not reported yet |
| `resident` | session status `Background` on disk |
| `screen` | the foreground lease of the display host |
| `lock` | `transition_lock` |
| `pc`, `job` | where the event loop, or the package thread, is in its handler |
| `fresh`, `fence` | `ensure_launch_current`: the interrupt epoch and the fence of the event being handled |

A handler is cut where something else can happen: at every await on a process,
the display host or systemd. Everything between two such points, trailing saves
and cleanup included, is one action, and every call that can fail has an
alternative for failing, with or without having taken effect.

Abstractions:

- Generations are compared for equality only, so a report carries its age:
  `cur` or `old`. Registering a generation ages the reports in flight.
- User events are not stored. When the loop is idle it takes any of them, and
  one that arrives meanwhile shows as `fresh` turning false. This contains
  every order of a real queue.
- Exits of an application are a set of ages; the channel's bound is modelled in
  `RequestFence`.
- A requester may cancel at any moment (`CancelRequest`), more often than real
  deadlines do.
- A handler that is no launch never looks at its fence after it began. Its
  requester may be told "timed out and was cancelled" although it goes on; the
  message is wrong, the state is not.
- Applications are those that speak lifecycle v2 with acknowledgements.
  Manifests are always found. Failing writes of marker files are left out;
  failing writes of the session store are in (`store`).
- The report a runner sends after a stop the daemon asked for is reserved as
  `Controlled` and has no effect; it is not a step.
- On a restart `ensure_system` is one step that succeeds, because
  the daemon serves no request before `initialize_system` has returned
  (`server.rs:36`).

`Faults` names the kinds of failure a run explores:

| fault | meaning |
|---|---|
| `refused` | a call to systemd, the display host or an application fails or times out |
| `store` | a write of the session store fails |
| `lost` | a runner's exit callback does not arrive, or a frozen child dies with its runner |
| `bridge` | a unit failed and its bridge reports, possibly late |
| `package` | a package request runs beside the loop |
| `restart` | remagicd is killed between any two steps and started again |

`Device` is the same daemon without threads, transitions, locks and failures: who
has the screen, which units are up, which of them are frozen, and whether the stock
system has the device. `Daemon` implements it (`ImplementsDevice`) under the mapping
`stock <- domain.at = "System"`, `owner <- screen`, `up` and `frozen` read off `unit`.
Activating a launch and restoring a foreground are `Give`, the freeze of a park is
`Freeze`, a cold start is `Start`, `enter_manager` is `Enter`, the end of
`restore_system` and a restart of the daemon are `Restore`; every hand-over,
recovery, thaw, stop and death is a `Withdraw`, alone or together with others, and
everything else a stutter. The content is in the guards: `Give` wants a screen that
Home or nobody has and an application that is not frozen, `Freeze` one that has not
the screen, and `Restore` a step that leaves no unit up; the daemon tests none of
the three and gets them from the order of its steps.

### 2.4 RequestFence

`caller` is the future of `enqueue` (idle, sending, awaiting, grace, answered),
`queue` the channel, `running` the loop's handler, `fence`, `interruptEpoch` and
`mine` the atomics of `daemon/mod.rs`, `told` what the client has heard. Each timer is
an action that may fire whenever its owner waits; the only thing the numbers
decide is whether the connection's own 60 seconds can pass before the
deadline of the request, and the requests for which they can are `Slow`.

`step` is the place of a running launch in `commit_launch`: before the first look at
the epoch (`started`), before the claim of the fence (`looked`), before the second
look (`claimed`), behind it (`committing`). A newer interaction may be queued at each,
and `overtaken` remembers the launches that met one before their last look
(observation only). `NewerSupersedes` says that those never take the screen and that
no launch is refused as superseded which was neither overtaken nor cancelled. An
interaction that arrives behind the last look does not stop the launch, in the code as
in the model.

### 2.5 Suspend with SleepTransaction, PowerManager and PowerKey

| state | in the code |
|---|---|
| `domain` | `Daemon::state`, applications one class |
| `tx` | `SleepTransaction`: phase, epoch, revision (`daemon/sleep.rs`) |
| `pw` | `PowerManager`: phase, leases, activity revision, idle deadline |
| `key`, `held`, `raw` | the key thread with click tracker and wake guard, the finger, the unread key events |
| `cover`, `coverApp` | `cover_closed`, `cover_resume_app` |
| `panel` | the display host's committed lock epoch |
| `wakelock`, `kernel`, `slept` | `remagic-managed`, the kernel's autosleep and its success counter |
| `interaction` | `launch_interrupt_epoch` |
| `queue`, `timers` | the event channel, the retry and observer tasks |
| `loop` | the await at which the handler is, its event, and the interaction epoch it began with |
| `home`, `inbox` | Home's page, what it asks and waits for, its datagrams |

Each segment of a handler between two awaits is an action (`HandleSleep`,
`ShowLock`, `ArmGuard`, `Recheck`, `ReleaseWakelock`, `SuspendStops`, …,
`Recover`). Time is abstract: the key may become long, the click gap and the
guard's quiet window may end, the idle interval may pass, each in any order the
code allows. Simplifications: the queue is unbounded; the timeout of Home's
unlock request, the cover sleep deferred during Store maintenance and a failing
restore of the stock system (which is `Daemon`'s) are left out;
`NewSleepEpoch` is the revision plus one where the code takes a clock value.

### 2.6 PackageStore, DataSchema and Upgrade

| state | in the code |
|---|---|
| `releases` | `releases/<content id>`: absent, whole, torn (half removed, journaled) or cut (half removed, not journaled) |
| `current`, `manifest`, `installed` | the `current` link, the registered manifest, the package state file |
| `journal` | the transaction journal |
| `pkg` | the request in work and its next file operation |
| `data`, `saved` | the declared backup paths, and what writers were told is stored |
| `applied`, `ready`, `pending`, `snaps` | `state.json`, `schema-ready`, `pending.json`, the published snapshots |
| `runner`, `phases` | the migrating runner's next step, the markers of this launch |
| `loaded`, `launch`, `agent` | the daemon's manifest, the launch under way, the background service |
| `raced` | whether a reload has started the service beside a launch whose data were not settled (observation only) |

One action is one durable file operation, so a failing step, a killed runner, a
killed daemon and a loss of power may fall between any two. A loss of power is
modelled at these boundaries: the code renames synced files, and what a file
system does to unsynced data in between is not modelled. A fenced unit's
version is that of the release it was deployed with. Purging the user's data,
bundle parsing and signatures are left out. Schemas without a migrator skip the
rewrite.

Package requests, launches and reloads overlap as the locks of the code let them: a
launch holds the transition lock, which a request takes only in its close, and a
reload takes none (`ReadManifests`). A launch may therefore fall between the close
and the reload of a request, and a reload anywhere in a launch. One of these
interleavings breaks the code (3.2): the launch has stopped the service, and a reload
starts it again before the runner reported its data settled. The four properties
about data and writers are promised until that happens (`raced`), and everywhere else.

### 2.7 AgentBroker

| state | in the code |
|---|---|
| `pc`, `want`, `owned` | a connection's loop: its place, the turn it asks for, `connection_turn` |
| `phase`, `from`, `at`, `cancel`, `answers` | a turn: how far, whose, in which worker's hands, its cancellation flag, how many final events it got |
| `slot`, `profile`, `current` | `AppState`: `active`, the profile with its system prompt, `worker` |
| `principals` | the generation each principal is bound to |
| `lock` | the mutex of `AppState`, when a session reset holds it across its wait |
| `state`, `queue`, `made`, `spawned` | the Pi processes: what they do, their channel, the profile they were started for |

One application: the broker keeps a state for each, and only the mutex joins
them. A token is its generation; request ids are unique; Pi may complete, fail
or never answer; the writer task is part of `Disconnect`; the 600 idle seconds
after which the service exits are taken to be longer than an abort (`Settling`).
A read ends by an end of file (`Disconnect`) or by an error (`ReadFails`), and
only the first cancels.

`TurnService` is the same service seen from outside: its clients, the turn that
has the application, and how many final answers each request got. The broker
implements it (`ImplementsService`) under the mapping `clients <- Connected` (the
connections whose loop has not ended), `holder <- slot`, `answers <- answers`.
Taking the slot in `start_turn` is `Grant`; a refusal, an outcome of Pi, an abort
that times out and a channel that closes over its turn are each one `Answer`;
the task's `finish` is `Release`; the idle exit is `End`; everything else is
a stutter. The mapping is direct, the content is in the guards: `Answer` needs an
unanswered request and `Release` an answered holder, which the broker never
tests. It follows from where the final event is sent, so a worker that drops its
queue without reporting it, or two ends of one turn that both report, are no
steps of the service.

### 2.8 Panel and DisplayHost

| state | in the code |
|---|---|
| `commands` | the panel's bounded channel (1024; `Depth` here) |
| `surface`, `drawn`, `visible`, `frozen`, `ink`, `stroke`, `glass` | the panel thread's surfaces, what their clients drew, its foreground, lock picture, ink lease, pen state and last submission |
| `committed`, `inked`, `lockEpoch`, `cancelled`, `deferred` | the telemetry other threads read |
| `client`, `life`, `lives`, `marked` | client threads and their registrations |
| `foreground`, `prepared`, `lock`, `lastSleep`, `fences` | the leases of `qtfb/state.rs` |
| `waiting` | the control command that holds `foreground_ops` across its wait |
| `active`, `suppressed`, `pen`, `suppressedPen`, `captured` | input tracking |
| `held`, `owed` | what clients were told is pressed, what damage was taken for whom (observation only) |

(generation, epoch) is one number that rises by one; a commit number stands for
pixels and damage for the whole surface; live ink is not part of the picture;
moves, injected touches and refresh modes are left out; the input epoch is a
flag on captured frames.

### 2.9 InputMode

`domain`, `transition` and `modes` (who holds the two locks), `pc` (where the
loop is), `record` (`runtime_input_modes`), `epoch` and `knows` (the fence given
last, to the registry and to the process), `chosen` (the policy in the
activation under way), `host` (what the display host shows), `request`, and
`told` (what was promised under each epoch). A mode is the ink flag, and both
applications may negotiate either. `unsure` marks that a configuration timed
out, after which the host may or may not have changed while the record keeps
the old mode (`input_mode.rs`).

### 2.10 LifecycleBridge

`at`, `waits` and `fence` are the daemon, `process` and `frozen` the unit,
`calls` the connections to the runner's control socket, `token`, `milestones`,
`status` and `forwarding` the runner, `channel` and `events` the socket pair,
`app` the process behind the SDK's client. Generation, epoch and lease are one
fence that never repeats. Calls are served first come, first served (tokio's
mutex is fair); a request whose requester timed out three seconds ago is taken to
have reached it first. The socket pair's buffers are not bounded.
The runner is frozen with its unit.

## 3. The runs

| run | instance | states | question |
|---|---|---|---|
| `SupervisorState` | 2 applications, tokens 0–2, revision up to 13 | 24 588 | can callers, passing any token in any order, bring the v2 state out of its own `validate()`, reuse a fence, or make the two representations disagree? |
| `DaemonFaults` | 1 application; refused, store, lost, bridge, restart | 162 012 | is the device consistent whenever the loop is idle, whatever fails, does the screen change hands as `Device` says, and does every transition end? |
| `DaemonTwoApps` | 2 applications, no faults | 819 745 | launching, switching, closing and dying in every order: is a background application frozen, tracked and under its own policy? |
| `DaemonPackage` | 1 application; refused, package | 577 976 | does the lock keep a package request and the event loop apart? |
| `RequestFence` | 3 requests (2 launches, 1 of them slow), channel of 2 | 70 974 | who wins the races of cancellation, of newer interactions and of commit, and is anyone left waiting? |
| `Suspend` | 1 press, 1 request, 2 cover movements, 1 interval or charger, at most 4 of these; 1 fault | 6 799 675 | can the device sleep in front of something else than the lock page, or the four owners of the lock disagree? |
| `SuspendKeys` | 3 presses, 1 interval or charger, no faults | 331 500 | does a press unlock, a retry come, and nobody but the user leave the lock? |
| `Upgrade` | 2 contents of 2 schema versions, 2 paths, 3 requests, 3 launches, 1 reload, 2 faults | 7 010 594 | which crash or failure leaves a manifest without release, an install half done, data lost, or two writers of two minds? |
| `AgentBroker` | 2 connections, 3 turns, 2 workers, 1 other message | 885 430 | can two turns meet in one process, a turn be answered twice or give its slot back unanswered, or a cancelled one keep it? |
| `Display` | Home and an application, 1 finger, 1 stroke, 2 fences, 2 lives, 1 lock | 860 877 | do contacts, damage and the lock survive every change of owner? |
| `InputMode` | 2 applications, 3 epochs, 2 requests | 527 795 | does the screen write as the application was promised? |
| `Bridge` | 5 fences, a freezing application | 14 082 | whose answer does the daemon take for the present request's? |

Why the bounds suffice. `Daemon`: one application already meets every failure path,
since recovery, rollback and close concern one application at a time; what needs
two is the hand-over from one to another, `lastApp` and a launch that parks
first, explored without faults. The one thing left between the two is
`stop_managed_apps` failing after it stopped one of several applications:
`StopAll` models it for any number, and the runs with faults meet it with one.
`SupervisorState`: the revision limit is beyond the longest
sequence needed to reach each kind of instance and low enough for the overflow
to be met in each; two positive token numbers give a stale and a current one.
`RequestFence`: three requests in a channel of two give one that waits for room,
one queued and one handled; two launches overtake each other at every step of a commit. Symmetry is used only between applications, which
appear in no definition by name.

`Suspend`: one of each actor (and a cover that closes and opens again), four of
them together, gives every pair of them in every order, with one failing step anywhere; three presses make single, triple and long ones, and one
that meets the guard of an earlier. `Upgrade`: three requests are an install, an
update and a rollback (or a removal and a reinstall); two contents of two
schemas are an update that migrates and a way back, and installing one of them again
is the update that does not; three launches are one in the window of a request, one
that migrates and one that finds the result; one reload beside those of the requests
falls into any step of a launch; two faults are a crash and one in its recovery. `AgentBroker`: the speculative turn
is preempted, the second interactive turn wants another profile and so
replaces the worker, and a second connection of a newer generation claims in
between. `Display`: two fences are an old and a new owner, two registrations a
client and its successor, a queue of two is full while one command is in work.
`InputMode`: three epochs are a launch, a recall and a failed park. `Bridge`:
five fences are a launch, a park that fails, its recovery, a second park and a
recall, which is the shortest history with two late answers.

Runs with counters stop at their bounds and say `CHECK_DEADLOCK FALSE`, as do
`RequestFence`, which ends when all its requests are answered, and
`SupervisorState` at its revision limit. `Daemon` and `AgentBroker` never
deadlock and are checked for it.

Each property is checked against a mutant of a mapped definition
(`PROJECT.json`, `mutants`), which it must refute: the definitions such as
`NoThaw`, `LooksOnly` or `KeepForeground` next to the ones they change are those
mutants and occur in no specification.

### 3.1 Which faults which property is claimed for

Not every property holds under every fault, and the configurations say so:

- `BackgroundFrozen` is claimed without failing calls and without package
  requests, and proved under every other fault. A close that thawed the
  application and then could not reveal Home leaves it running; a package request
  whose restore fails, because an application on its way out refuses the thaw,
  leaves RestoringSystem and the others running. No text of the repository
  promises otherwise.
- `LiveIsTracked` is claimed without `bridge` (its run has no fault at all; the
  theorem rules out this one only). The failure
  bridge reads the generation from `lifecycle-status.json` when it runs, not
  when its unit failed (`scripts/remagic-app-failed:49`): once the next
  generation has written the file, the report names the live process and the
  daemon gives it up.
- `ScreenAgrees` and `AlwaysSettles` are claimed without `package`. For the
  first see 3.2. For the second: a package request
  that fails inside `close` or the restore runs no `recover_after_failure`
  (`daemon/packages.rs:235`) and leaves Parking or RestoringSystem, in which both
  power gestures do nothing (`navigation.rs:34`, `:48`).
- `OnlyUserRestores`, `RetryIsServed` and `PressUnlocks` are claimed without
  faults: after an error the daemon may restore the stock system (3.2).
- `WritersAgree`, `WriterKeptOut`, `NothingIsLost` and `FenceMeansSettled` are claimed
  for a fenced background service (`Fenced = TRUE`) and until a reload has started it
  beside a launch whose data were not settled (`raced`); see 3.2.
  `ManifestHasRelease` and `AllOrNothing` are claimed, and proved, without either
  restriction.
- `ParkedHasSaved` leaves out a fence whose command the process read in one
  poll together with an older one (`overtaken`); see 3.2.
- `InkAsPromised` says nothing of the ink after a configuration that was not
  confirmed (`unsure`), until the next activation.
- `DisconnectCancels` speaks of clean disconnects, `DamageShown` of leases
  without ink. The panel's hardware does not fail in `Display` (`Hardware =
  FALSE`): a failure ends the process.

### 3.2 What the models show beside their properties

Each of these is a behaviour the modules contain and the properties above leave
room for; where a definition states it, adding that definition to the
configuration named gives the counterexample.

Event loop and requests:

- `QueuedExitCounts` (`DaemonFaults.cfg`): `close` takes over the reservation of
  an exit that is already queued (`applications.rs:73-84`); when the dying unit
  refuses the thaw it removes the reservation, and the queued exit of a dead
  foreground application is ignored, although `request.rs:389-391` says "Once
  queued, it must eventually consume this reservation".
- `LateReportYields` (`DaemonFaults.cfg`): `reserve_runner_report`
  (`request.rs:435`) lets the late report of an older generation overwrite the
  reservation of the current one.
- `BackgroundIsLive` (`DaemonFaults.cfg`): a restart stops every unit and
  leaves stored sessions `Background` (`server.rs:71`), which
  `applications.rs:21-23` reserves for live processes.
- `ScreenAgrees` with `package` in `Faults` (`DaemonPackage.cfg`): the reload
  after a package request looks at the domain without the lock
  (`request.rs:340`) and shows Home over an application launched in between.
- A package request whose restore fails leaves RestoringSystem with an
  application running, and nothing recovers it.
- `NoDelayedStart` (`RequestFence.cfg`): a slow launch whose connection timed
  out is begun although nobody waits for it (`server.rs:346`, against
  `mod.rs:133-134`). A request that is not slow never is, which is proved.

Sleep:

- `RetryAfterUnplug` (`SuspendKeys.cfg` with 1 press, `MaxCover = 1`, `MaxNoise = 2`): the retry after a
  charger gives up when the cover moved in between (`retry.rs:57`), although
  `README.md:85-88` promises it.
- A refused Sleep or Launch while the lock is up, a failing wake or rollback
  without the retained suffix, and a missed quiet window restore the stock
  system (`server.rs:281-306`), against `suspend.rs:63-67`.
- A request to sleep may outlive the Home that sent it: with a long and a triple
  press queued in front of it (five presses, beyond the bound of `SuspendKeys`) it
  locks a device whose new Home is not on its lock page. The model takes the check of the surface as one that may pass; in the
  code a fresh Home's surface mostly counts less than the sequence asked for
  (`display_host.rs:111`), and the sleep is refused. `PressUnlocks` is not claimed there.
- A click queued before the sleep handler began is overtaken by the suspend; a
  wake press read down and up before the resume is lost to it.
- The policy's phase stays Quiescing after the epoch of its AutoSleep changed
  (`power.rs:17-24`) and after `set_idle_suspend`.

Packages and data:

- The removal of a release by `uninstall` is not journaled. A crash in it leaves
  `current` on half a release; installing the same bundle again then reports success
  without verifying it, or cannot proceed. `rollback --version` may choose a
  half-removed stale release.
- `reload_manifests` (`request.rs:333`) takes no lock. A reload that falls between
  `prepare_launch`, which stops the service, and the launch's migration finds journal
  and fence still those of the old version and starts the service again, which then
  writes what is being backed up and rewritten. Without `raced` each of
  `WriterKeptOut`, `WritersAgree`, `NothingIsLost` and `FenceMeansSettled` is refuted
  by that in `Upgrade.cfg`, although the unit's conditions are honoured.
- An application launched between the close and the reload of a request
  (`packages.rs:235`) runs from removed files or migrates its data to a version whose
  install is then rolled back, after which every launch is refused as a downgrade. No
  property forbids it; the four above hold in that window all the same.
- With `Fenced = FALSE` `WriterKeptOut` and `WritersAgree` fail for a service remagicd starts itself, which
  checks no fence (`background.rs:6`), although `data_schema.rs:145-147` says the
  fence "can never let an older agent write while migration or recovery is
  unresolved".
- A restore interrupted between its renames leaves `.remagic-schema-old-<pid>`
  behind; the ready fence goes up before the journal is cleared.

Bridge, broker and display:

- Without `overtaken # fence` `ParkedHasSaved` is refuted: a park request times
  out unread, the recovery asks for the foreground under a new fence, the SDK
  reads both in one `poll()` (`lifecycle.rs:40`) and answers the park under the newest
  token, the runner keeps that milestone, and the next park is accepted before the process
  handled it. A comment in the tests of `app_runtime.rs` says of such an answer
  that it "must not count as readiness for the replacement foreground lease".
- A failed write of the status file ends the runner's event task for good
  (`event_loop.rs:109-123`); a token advances even if the send then fails.
- A turn whose connection's read failed otherwise than by an end of file is not
  cancelled (`server.rs:163`, against `docs/PI_AGENT_SERVICE.md:31-32`), and ends
  with its answer or with the service.
- A worker that gives up its process reports the turn before its channel
  closes: the next start may be handed the dying worker and fail. A connection
  authorized before a newer generation was bound may still claim the slot. A
  turn has no deadline of its own.
- A `cancel_lock` that timed out while its command was handled later leaves the
  host locked; the daemon's client refuses to repeat it (`display_host/lock.rs`),
  so the display stays locked until the host restarts.
- A surface aborted between the validation of a lock and its command
  (`abort_registration` takes no `foreground_ops`) leaves the host locked without a
  locked panel. Damage dropped while a lease is prepared stays invisible when the
  prepared client dies. A contact pressed before its client was activated may
  deliver an Up without a Down. An evicted sink leaves a client connected and
  deaf.

### 3.3 Fairness

`Daemon`: strong fairness of the loop's and of the package thread's steps. The
loop is one task that tokio polls for ever, and every wait in it has a deadline,
so a handler gets on; weak fairness is too little because both wait for
`transition_lock`, which the other may take and give back, and tokio's mutex is
first come, first served. Weak fairness of a runner's report and its unit's end
(systemd ends a unit whose main process is gone) and of the restart of a daemon
that exited with an error (`Restart=on-failure` of `remagicd.service`). Nothing is assumed of users, of
processes that could die, or of calls that could succeed: `AlwaysSettles`
holds when every call fails for ever, by way of the daemon's exit.

`RequestFence`: weak fairness of the timers only. A handler may never return.

`Suspend`: weak fairness of the loop's handlers, of the key thread, of Home, of
retry timers, of the release of a held key and of the kernel's autosleep once
the wake lock is gone. The idle policy, chargers, covers and users may stop.

`AgentBroker`: weak fairness of the connections' server side, of the workers'
own steps (their deadlines among them) and of the turns' tasks. Nothing of
clients and nothing of Pi: `CancelFrees` holds when Pi never answers.

`Display`: weak fairness of the panel thread. `InputMode`: weak fairness of the
loop's transition and of each request; no failure or timeout is assumed to come.
The other specifications assume none.

## 4. The proofs

Assumptions: only those of the modules (the named `ASSUME`s on their constants),
which every run evaluates. Some theorems have a hypothesis on a constant as well,
the one section 3.1 gives for the property: which faults are left out (`Daemon`),
how a background service is declared (`Upgrade`), or that the budgets of faults,
requests and cover movements are zero (`Suspend`, one theorem).

**Supervisor_proofs** holds two components. Of `SupervisorState`, `Invariance`:
`Spec => []IInv`. `IInv` adds to `Valid` the types and `UnknownBlank`: an application outside the map has
generation 0 and no lease, so that its first start is a rise like any other and
leaving a domain, which clears every lease, changes nothing for it. Each action
preserves each part of `Valid`; the interesting cases are a grant while another
application is in the foreground (the guard on the foreground pointer) and the
three ways to leave the screen, which share `LeaveScreen`. `AlwaysValid` follows.
`ConversionsAlwaysAgree` goes through the four shapes a v1 domain can have
(`LegacyShape`) and proves of each that the state that comes back is valid.
`FencesAlwaysRise` and `EndingStaysFinal` are action properties proved from the
same invariant, one step per action: only a start and a grant touch a
generation or an epoch.

Of `RequestFence`, `RequestInvariance`: `RequestSpec => []RequestInv`. `CancelledHasNoEffect` is
not inductive: it needs that a requester who heard "cancelled" owns the fence
(`FenceDecides`), that what landed had claimed it, and that a request not in the
channel yet has a fence nobody touched (`NotQueuedYet`), because giving up before
the send answers without looking at what the fence was. `ChannelInvariance` adds
that a request is in the channel at most once and untouched until it is taken,
from which `NeverStartedLate` follows: taking a request that is not slow and whose
requester is gone meets a cancelled fence. `NewerAlwaysSupersedes` rests on `EpochInv`:
an overtaken launch is older than the epoch and not behind its last look, so that look
ends it; a launch that is neither overtaken, decided nor behind it is the newest, so
nothing else is refused. The two looks on both sides of the claim are what it needs: of
a launch that has only made the first, nothing can be said.

**Daemon_proofs.** `FenceInvariance`: the loop is past `begin_commit` only under a
claimed fence. `CancelledLaunchNeverCommits` uses it to prove, for any
applications and any faults, that the step from Launching to Foreground is taken
under a fence that is not cancelled. The only other step to Foreground
(`RestoreForeground`) starts from Parking.

The rest starts from `DInv` (`Invariance`), proved one lemma per handler for any
applications and any faults: the types; who is inside a transition holds the lock
and nobody else does (`LockInv`); at each place of the loop, the domain its earlier
steps made and what it relies on about its application's unit and registration
(`LoopInv`); the same for a close and a restore by either thread (`HeldInv`), whose
`flag` was read when the lock was taken and has to be true still; a frozen unit was
captured as freezing or given up since, is off the screen and not in the foreground
(`FrozenInv`). `NothingRunsInStock`, `NobodyWaitsForTheFrozen` and the action
property `PolicyIsCaptured` follow. They need `OwnersAssumption`: no
application is called like the other owners of the screen.

`DaemonImplementsDevice` is the refinement, under any faults and for any
applications: initial states map to initial states, and each handler of the loop or the
package thread is one named step of `Device` or leaves its variables alone (one lemma
per handler; most are `Withdraws`). `DInv` supplies the guards of `Freeze` and
`Restore`; that of `Give` needs one more invariant, `Vacated`: from the revocation to
the activation the screen is with nobody, or with Home if a package request's reload
came in between. `OwnerIsNeverFrozen` is read off `Device` (`Exclusive`), where it
takes three lines.

Three invariants hold between events only, and each has an invariant of its own on
top of `DInv` that says what holds inside the handlers, under the faults of 3.1.
`ScreenInv` lists the places at which screen and domain agree, those at which at most
Home lacks its screen, and what a park and a close know of the screen before they
end. `LiveInv` adds to "whoever runs is registered" that no current exit is queued
for it, which is what a late bridge report breaks. `BackgroundInv` says that a
freezing application that runs is in the foreground or in the hands of the handler at
work (`Handled`); each handler then has to let go of it frozen, stopped or in front.

**Upgrade_proofs.** `PackageInv` is the inductive invariant of the files of a
package: the journal describes a state that was there (`JournalSound`), a torn
release is the target of the journal (`TornIsJournaled`), and each step of a
recovery or of an install has the earlier ones behind it (`RecoverySteps`,
`InstallSteps`), which is what makes a crash at any step recoverable. One lemma
per file operation, then `RegisteredReleaseIsThere`. `InstallIsAllOrNothing` is
the action property that the journal is only cleared over the state before or the
state after; `JournalRemoved` reduces it to the two steps that clear it. Both hold
for any contents, launches, faults and bounds, fenced or not, raced or not.

`SchemaInv` is the inductive invariant of the data, under `Fenced`; what is inductive
is `Promised`, that it holds or the state has `raced` (3.2 says what happens then).
Each step of the runner finds what the ones before
it wrote: nothing is journaled (`QuietSteps`), its own migration is
(`MigrationSteps`), or one that was interrupted (`RecoverySide`); of the sources a
step is not done with yet it says what they still hold. `LaunchInv` says that a runner
at work is that of a launch and has not reported its data settled, and `AgentInv` keeps
the background service away from both, so that a reload that is not a race leaves it
away. No assumption keeps launches out of package requests or reloads out of launches.
`DataIsNeverLost` and `FenceIsHonest` are then
about the disk alone, so that a crash, which keeps the disk, keeps them;
`WritersAlwaysAgree` and `WriterStaysOut` are about who writes.

**Suspend_proofs.** `IInv` says, for each place at which a handler may wait, what the
domain, the transaction, the panel, the wake lock and the wake guard are (`PlaceInv`):
a handler starts and ends in one of three states (`InUse`, `Locked`, `Stock`); from
the page to the resume the lock is whole, and the wake lock is away at one place
only; an error may carry "retained" to the recovery only over a whole lock. One lemma
per handler, through the three ways it can end (`DoneKeeps`, `FailsKeeps`,
`GoesKeeps`); what the key thread, the policy, the timers and Home do reaches the loop
only through the queue, the epoch and a policy that never reserves the device by
itself (`AloneKeeps`). `SleepsBehindLock`, `OwnersAlwaysAgree` and `WorkKeepsAwake`
follow for any number of presses, requests, cover movements and faults.
`UnlockWins` rests on `QueueInv`: an interaction in the queue has a newer epoch than
the fence of everything queued before it and of the event in work, so that the look
before the release of the wake lock, the only step that releases it in a locked device
(`OneReleases`), sees it.

`OnlyTheUserRestores` is about what the user may rely on while nothing fails, nobody
uses the control socket and the cover stays, for any number of presses, idle intervals,
alarms and chargers: a locked device goes back to stock only by a long or a triple
press. An automatic way there is an error behind the lock that is not "retained", or a
Sleep that begins in a locked device and is refused. `CalmInv` rules both out: at most
one request to sleep is under way (`OneSleep`); Home that sent it waits for its answer
or is gone (`AskedInv`); so none is left once the device is locked, and every error
there is retained (`DomainInv`). `QueueInv` tells the answer to the event in work from
one to the request queued behind it, so that Home does not stop waiting too early.

**InputMode_proofs.** `IInv`: where the loop is, the domain and both locks say
(`LoopInv`); a request holds both while it waits for the display host and only for
the application of the foreground (`RequestInv`); fences are given out once, so that
a promise under one is never answered for by another record (`FenceInv`,
`PromiseInv`); only the application in transition is pending (`PendingInv`). The host
shows the record of the foreground (`HostInv`); `InkIsAsPromised` is the two
together.

**LifecycleBridge_proofs.** The difficulty is that three queues lie between the
daemon's wait and the process. `TokenInv`: along the way there and back the tokens
get no newer. `FreshInv`: the one request to come to the screen is the first command of
its fence. `ParkInv`: while it is on its way, older requests to leave it are told by
their token or come before it. `OvertakenInv`: which park is answered under a newer
token. `SavedInv` and `ReadyInv` then say of every answer that is on its way or noted
what the process has done, from which `ParkedAlwaysSaved` and
`AlwaysAwakeInForeground` follow for any number of fences and any length of the
queues.

**DisplayHost_proofs.** The host and the panel thread only meet in the channel, so
`IInv` says what may be in it. `QueuedInv`: a lock that is on its way is the one the host
holds, and only commands that leave a lock alone (`Tame`) are behind it; `FrozenInv`: of a
committed lock the same is true of the whole channel. That is why nothing queued before
or after a lock draws over it, and `LeaseInv` adds that no damage was deferred for its
lease (a lease above every accepted fence, `AcceptInv`). `RegisterInv`: a surface is
registered with the panel only after the drop of the one before it, hence never under
the visible lease; with `GlassInv`, the visible surface is connected and on the glass
whenever there is no lock. `InputInv` ties the stroke to the foreground and says that a
prepared successor finds nothing pressed. The lemmas about the channel (`QueueGrows`,
`QueueShifts`, `RegisterGrows`, `FreeShifts`, ...) are about any commands put behind it or
taken from it; each action then has to name what it sends. `NoContactIsLost` and
`LockAlwaysHolds` are parts of the invariant; `PressedIsAlwaysVisible` is an action
property: only the dispatcher presses (`OnlyDispatchPresses`), and it asks whether the
foreground is the committed one.

**AgentBroker_proofs.** `IInv`: the slot names the one turn between its claim and
its finish (`SlotInv`), a connection inside `start_turn` is the only one that has
anything of its turn (`AskInv`), a turn at work is in the resident worker of its
profile (`PlaceInv`), in a channel at most once (`QueueInv`), unanswered until its
end (`AnswerInv`), and owned unless cancelled or its read failed (`OwnerInv`). The
difficult step is the worker that takes a command: it has to know that the turn
is nowhere else. `OneTurnPerApplication`, `NoSecondAnswer` and
`CleanDisconnectCancels` follow, for any number of connections, requests, workers
and principals. `BrokerImplementsService` is the refinement: initial states map to
initial states, and under `IInv` each action is one named step of `TurnService` or
leaves its variables alone (one lemma per actor; `AnswerInv` supplies the guards of
`Answer` and `Release`).

Checked by TLC and not proved: liveness under fairness, which is out of the prover's
reach (`AlwaysSettles`, `EveryoneAnswered`, `RetryIsServed`, `PressUnlocks`,
`CancelFrees`, `DamageShown`, `StartupAnswered`). Every invariant and every action
property the runs check is a theorem as well.

## 5. Not modelled

- Of the event loop: sync, acknowledgement-only detached launches, the messages
  of applications that do not speak lifecycle v2; that a restarted daemon counts
  generations from 1 again (a report from before the restart names an older one in
  `Daemon`). In the bridge: Resume,
  PreparePark and foreground commands without a fence, which nobody sends, and
  KOReader's newline transport.
- In the broker: history hydration, tool results, what a model says. In the
  package code: parsing, signatures, purging. In the display host: waveforms,
  rectangles, moves, test injections, live ink's pixels.
- Reopening and grabbing input devices, systemctl and sysfs transport, the
  polling of the freezer and its SIGSTOP fallback: retries around one call that the
  models let fail.
- Home beyond the page it shows, the protocol crate, manifests and policies, update,
  backlight, command line, the Vellum worker, the device profile: parsing,
  drawing or a sequential script, without control a model would show something
  about. The system update is the best candidate among them.

## 6. State of the project

Every module of section 2 has its run, and eight modules hold the proofs. What would
come next is a model of the system update, and a composition of `Suspend` with
`Daemon`, whose applications `Suspend` keeps as one class.
