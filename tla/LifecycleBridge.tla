-------------------------- MODULE LifecycleBridge --------------------------
(* The lifecycle conversation of one application: the daemon, its runner    *)
(* and the process                                                          *)
(* (crates/remagicd/src/app_runtime.rs with the calls of launch.rs and      *)
(* applications/park.rs; crates/remagic-runner/src/lifecycle_bridge.rs,     *)
(* lifecycle_bridge/*.rs, event_loop.rs and process.rs;                     *)
(* crates/remagic-app-sdk/src/lifecycle.rs).                                *)
(* The daemon writes a command to the runner's control socket and waits for *)
(* its acknowledgement, then polls a status file.  The runner fences every  *)
(* command with a token, passes it on through a socket pair and writes the  *)
(* events that come back under its present token to the file.  Generation,  *)
(* epoch and lease are one fence that never repeats.                        *)
EXTENDS Integers, Sequences, SequencesExt

CONSTANTS MaxFence, \* bound on the fences
          Freezes   \* whether the application is frozen in the background

ASSUME BridgeAssumption == MaxFence \in Nat /\ Freezes \in BOOLEAN

VARIABLES
  at,         \* where the daemon is with this application
  waits,      \* what for: "nothing", the "reply" to a command or the "status"
  fence,      \* runtime_foreground_fences
  process,    \* "none", "booting" until the runner has cleared its directory, "up"
  frozen,     \* the freezer of its unit, which holds the runner too
  calls,      \* connections to the control socket: [op, fence, live]
  token,      \* TokenState
  milestones, \* of the runner: [token, saved, background]
  status,     \* lifecycle-status.json: [token, event, saved, background]
  forwarding, \* whether the runner's event task lives
  channel,    \* commands on their way to the process: [op, token]
  events,     \* its events on their way back: [event, token]
  app,        \* the process: its token, the commands of its last poll(), its mode, dirty
  overtaken   \* the last fence whose command was read together with an older one

daemonVars == <<at, waits, fence>>
runnerVars == <<token, milestones, status, forwarding>>
vars == <<daemonVars, process, frozen, calls, runnerVars, channel, events, app, overtaken>>

NoStatus == [token |-> 0, event |-> "none", saved |-> FALSE, background |-> FALSE]
NoMilestones == [token |-> 0, saved |-> FALSE, background |-> FALSE]
NewProcess == [token |-> 0, todo |-> <<>>, mode |-> "new", dirty |-> FALSE]

Init ==
  /\ at = "off" /\ waits = "nothing" /\ fence = 0
  /\ process = "none" /\ frozen = FALSE
  /\ calls = <<>> /\ channel = <<>> /\ events = <<>>
  /\ token = 0 /\ milestones = NoMilestones /\ forwarding = FALSE
  /\ status = NoStatus
  /\ app = NewProcess
  /\ overtaken = 0

(***************************************************************************)
(* The daemon                                                              *)
(***************************************************************************)
processVars == <<process, channel, events, app, overtaken, runnerVars>>

(* app_runtime::command(), up to the acknowledgement.                       *)
Command(op, f) == [op |-> op, fence |-> f, live |-> TRUE]
Asks(op, f) == /\ calls' = Append(calls, Command(op, f))
               /\ waits' = "reply"

NextFence == fence < MaxFence /\ fence' = fence + 1

(* A cold launch: start() returns before the runner has begun.              *)
Launch ==
  /\ at = "off" /\ process = "none"
  /\ NextFence
  /\ at' = "starting" /\ waits' = "status"
  /\ process' = "booting"
  /\ UNCHANGED <<frozen, calls, channel, events, app, overtaken, runnerVars>>

(* A recall, and the recovery of a failed park: thaw, a new fence, and the  *)
(* request to come back.  A step before it may fail.                        *)
Return ==
  /\ at \in {"parked", "unparked"} /\ process = "up"
  /\ \/ NextFence /\ at' = "returning" /\ frozen' = FALSE /\ Asks("foreground", fence + 1)
     \/ at' = "stopping" /\ frozen' \in {FALSE, frozen} /\ UNCHANGED <<fence, waits, calls>>
  /\ UNCHANGED processVars

Park ==
  /\ at = "foreground" /\ process = "up"
  /\ at' = "hiding"
  /\ Asks("background", fence)
  /\ UNCHANGED <<fence, frozen, processVars>>

(* The deadline of a command (its connection is closed, what was written to *)
(* it is not) or of a wait, or a failure that the process reported.         *)
GivesUp ==
  /\ at' = IF at = "hiding" THEN "unparked" ELSE "stopping"
  /\ waits' = "nothing"
Deadline ==
  /\ waits # "nothing"
  /\ GivesUp
  /\ calls' = [i \in DOMAIN calls |-> [calls[i] EXCEPT !.live = FALSE]]
  /\ UNCHANGED <<fence, frozen, processVars>>

(* wait_status() reads the file: an event of this fence, or a failure.      *)
(* AnyFence accepts the event of another one.                               *)
AnyFence == status # NoStatus
Current == status.token = fence
Expected == IF at = "hiding" THEN status.saved /\ status.background
            ELSE status.event = "ready"
ReadStatus ==
  /\ waits = "status" /\ Current
  /\ \/ status.event = "failed" /\ GivesUp
     \/ /\ status.event # "failed" /\ Expected
        /\ waits' = "nothing"
        /\ at' = IF at = "hiding" THEN "handing" ELSE "foreground"
  /\ UNCHANGED <<fence, frozen, calls, processVars>>

(* complete_park() after the acknowledgement: the screen goes, then the     *)
(* process is frozen; either may fail, the second after it took effect.     *)
HandOff ==
  /\ at = "handing"
  /\ \/ at' = "parked" /\ frozen' = Freezes
     \/ at' = "unparked" /\ frozen' \in {FALSE, Freezes}
  /\ UNCHANGED <<waits, fence, calls, processVars>>

(* close(): a thaw, a request to shut down that may be refused, a stop.     *)
Close ==
  /\ at \in {"foreground", "parked"} /\ process = "up"
  /\ at' = "stopping" /\ waits' = "nothing"
  /\ frozen' = FALSE
  /\ calls' = Append(calls, [Command("shutdown", fence) EXCEPT !.live = FALSE])
  /\ UNCHANGED <<fence, processVars>>

(* The unit has ended, by stop_and_wait() or on its own: the runner's       *)
(* sockets go with it, the file stays.                                      *)
Ends == /\ process' = "none"
        /\ app' = NewProcess
        /\ calls' = <<>> /\ channel' = <<>> /\ events' = <<>>
        /\ frozen' = FALSE /\ forwarding' = FALSE
Killed ==
  /\ at = "stopping" /\ process # "none"
  /\ Ends
  /\ UNCHANGED <<daemonVars, token, milestones, status, overtaken>>

Notices ==
  /\ at # "off" /\ process = "none"
  /\ at' = "off" /\ waits' = "nothing"
  /\ UNCHANGED <<fence, process, frozen, calls, channel, events, app, overtaken, runnerVars>>

(***************************************************************************)
(* The runner                                                              *)
(***************************************************************************)
Runs == process = "up" /\ ~frozen

(* bootstrap and send_start(): the old status goes before the socket and    *)
(* the process come.                                                        *)
StartRunner ==
  /\ process = "booting"
  /\ process' = "up"
  /\ token' = fence /\ milestones' = NoMilestones
  /\ status' = NoStatus /\ forwarding' = TRUE
  /\ channel' = <<[op |-> "start", token |-> fence]>>
  /\ UNCHANGED <<daemonVars, frozen, calls, events, app, overtaken>>

(* dispatch(): the token is advanced before the command is sent under it,   *)
(* one request after the other; when the send fails the request is refused  *)
(* and the token stays advanced.  (A foreground that is not newer is        *)
(* refused too; the daemon's fences rise and requests keep their order.)    *)
Advances(call) == call.op = "foreground"
Replies(call, ok) ==
  IF ~call.live THEN UNCHANGED <<at, waits>>
  ELSE IF ok THEN waits' = "status" /\ UNCHANGED at
  ELSE GivesUp
Dispatch ==
  LET call == Head(calls) IN
  /\ Runs /\ calls # <<>>
  /\ calls' = Tail(calls)
  /\ token' = IF Advances(call) THEN call.fence ELSE token
  /\ \/ /\ channel' = Append(channel, [op |-> call.op, token |-> token'])
        /\ Replies(call, TRUE)
     \/ UNCHANGED channel /\ Replies(call, FALSE)
  /\ UNCHANGED <<fence, process, frozen, milestones, status, forwarding, events, app, overtaken>>

(* graceful_stop() after SIGTERM.                                           *)
Terminate ==
  /\ Runs /\ at = "stopping"
  /\ ~\E i \in DOMAIN channel : channel[i].op = "shutdown"
  /\ ~\E i \in DOMAIN app.todo : app.todo[i].op = "shutdown"
  /\ channel' = Append(channel, [op |-> "shutdown", token |-> token])
  /\ UNCHANGED <<daemonVars, process, frozen, calls, runnerVars, events, app, overtaken>>

(* enrich_milestones(): they are those of one token.  KeepsMilestones does  *)
(* not begin again when the token changes.                                  *)
KeepsMilestones(t) == milestones
Milestones(t) == IF milestones.token = t THEN milestones
                 ELSE [NoMilestones EXCEPT !.token = t]
Enriched(e) == [Milestones(e.token) EXCEPT !.token = e.token,
                                           !.saved = @ \/ e.event = "saved",
                                           !.background = @ \/ e.event = "background"]

(* forward_lifecycle_events(): an event of another token is dropped; a file *)
(* that cannot be written ends the task for good.                           *)
Forward ==
  LET e == Head(events) IN
  /\ Runs /\ forwarding /\ events # <<>>
  /\ events' = Tail(events)
  /\ \/ /\ e.token = token
        /\ milestones' = Enriched(e)
        /\ \/ /\ status' = [token |-> e.token, event |-> e.event,
                            saved |-> Enriched(e).saved, background |-> Enriched(e).background]
              /\ UNCHANGED forwarding
           \/ forwarding' = FALSE /\ UNCHANGED status
     \/ e.token # token /\ UNCHANGED <<milestones, status, forwarding>>
  /\ UNCHANGED <<daemonVars, process, frozen, calls, token, channel, app, overtaken>>

(***************************************************************************)
(* The process, with the SDK's client                                      *)
(***************************************************************************)
environment == <<daemonVars, frozen, calls, runnerVars>>
Event(e) == [event |-> e, token |-> app.token]
Works == Runs /\ app.todo = <<>>

(* poll(): everything that has come, the active token being the last one's. *)
(* Overtakes: a command for an older token is among it.                     *)
Overtakes == \E i \in DOMAIN channel : channel[i].op = "background"
                                       /\ channel[i].token < Last(channel).token
Poll ==
  /\ Works /\ channel # <<>>
  /\ app' = [app EXCEPT !.todo = channel, !.token = Last(channel).token]
  /\ channel' = <<>>
  /\ overtaken' = IF Overtakes THEN Last(channel).token ELSE overtaken
  /\ UNCHANGED <<environment, process, events>>

(* It handles them one by one, and answers under its active token.          *)
Shown == /\ app' = [app EXCEPT !.todo = Tail(@), !.mode = "foreground"]
         /\ events' = Append(events, Event("ready"))
Saved == /\ app' = [app EXCEPT !.todo = Tail(@), !.mode = "background", !.dirty = FALSE]
         /\ events' = events \o <<Event("saved"), Event("background")>>
Fails == /\ app' = [app EXCEPT !.todo = Tail(@)]
         /\ events' = Append(events, Event("failed"))
Handle ==
  /\ Runs /\ app.todo # <<>>
  /\ \/ Head(app.todo).op \in {"start", "foreground"} /\ Shown
     \/ Head(app.todo).op = "background" /\ Saved
     \/ Head(app.todo).op \in {"start", "foreground", "background"} /\ Fails
  /\ UNCHANGED <<environment, process, channel, overtaken>>

(* The user works with it.                                                  *)
Edit ==
  /\ Works /\ app.mode = "foreground" /\ ~app.dirty
  /\ app' = [app EXCEPT !.dirty = TRUE]
  /\ UNCHANGED <<environment, process, channel, events, overtaken>>

(* It shuts down when asked, or dies.                                       *)
Exits ==
  /\ process = "up"
  /\ ~frozen \/ at = "stopping"
  /\ Ends
  /\ UNCHANGED <<daemonVars, token, milestones, status, overtaken>>

Next ==
  \/ Launch \/ Return \/ Park \/ Deadline \/ ReadStatus \/ HandOff \/ Close
  \/ Killed \/ Notices
  \/ StartRunner \/ Dispatch \/ Terminate \/ Forward
  \/ Poll \/ Handle \/ Edit \/ Exits

Spec == Init /\ [][Next]_vars

(***************************************************************************)
(* Properties                                                              *)
(***************************************************************************)
(* Whoever is parked has stopped and saved: once the daemon has taken the   *)
(* milestones of a fence for the park's answer (wait_background_ready(),    *)
(* status.rs enrich_milestones()), the process has handled that request, so *)
(* that freezing it loses nothing.  Late answers, refused and repeated      *)
(* commands and deaths of the event task make no difference; only a fence   *)
(* whose command was read together with an older park request is left out,  *)
(* because poll() answers both under the newer token.                       *)
ParkedHasSaved ==
  at \in {"handing", "parked"} /\ process = "up" /\ overtaken # fence =>
    app.mode = "background" /\ ~app.dirty

(* The application on the screen knows that it is there: when the daemon    *)
(* commits a foreground, on a launch, a recall or after a failed park, the  *)
(* process has come back for exactly that fence and no older park request   *)
(* is still ahead of it.                                                    *)
AwakeInForeground ==
  at = "foreground" /\ process = "up" =>
    /\ app.mode = "foreground"
    /\ \A i \in DOMAIN channel : channel[i].op # "background"
=============================================================================
