---------------------------- MODULE RequestFence ----------------------------
(***************************************************************************)
(* How a control request reaches the event loop of remagicd and how its    *)
(* requester stops waiting for it: the bounded event channel, the one-word *)
(* fence the two sides race for (RequestFence in daemon/mod.rs), the epoch *)
(* by which a newer interaction supersedes a cold launch, and the three    *)
(* deadlines of daemon/request.rs (enqueue) and daemon/server.rs           *)
(* (serve_control_client).                                                 *)
(*                                                                         *)
(* Time is abstract: a deadline may pass whenever its owner waits.  What   *)
(* the numbers decide is whether the connection's own timeout can pass     *)
(* first; it can for the requests of Slow, whose request_timeout is longer *)
(* than DEFAULT_CONTROL_TIMEOUT (a cold launch with a schema to back up and*)
(* to migrate) and for no other.                                           *)
(***************************************************************************)
EXTENDS Naturals, Sequences

CONSTANTS
  Request,     (* the requests clients make                                *)
  Interrupting, (* those whose event is a user-visible transition          *)
  Launches,    (* those whose handler commits through the fence            *)
  Slow,        (* those that may outlast the connection's timeout          *)
  Capacity,    (* size of the event channel                                *)
  None         (* the loop handles nothing                                 *)

ASSUME RequestAssumption ==
  Launches \subseteq Interrupting /\ Interrupting \subseteq Request /\ Slow \subseteq Request
ASSUME CapacityAssumption == Capacity \in Nat \ {0}
ASSUME NoRequestAssumption == None \notin Request

VARIABLES
  caller,   (* idle, sending, awaiting, grace, or answered                 *)
  told,     (* what the requester has been told                            *)
  fence,    (* REQUEST_PENDING, _CANCELLED or _COMMITTING                  *)
  queue,    (* the event channel                                           *)
  running,  (* the request whose handler runs                              *)
  step,     (* how far the handler of a launch is in commit_launch         *)
  outcome,  (* the oneshot reply: none, ok, error or superseded            *)
  effect,   (* requests whose transition took place                        *)
  interruptEpoch, (* launch_interrupt_epoch                                *)
  mine,     (* the interrupt_epoch a request was queued with               *)
  overtaken (* history: launches a newer interaction met before their last *)
            (* look at the epoch.  No guard reads it.                      *)

callerVars == <<caller, told>>
loopVars == <<queue, running, step, outcome, effect>>
epochVars == <<interruptEpoch, mine, overtaken>>
requestVars == <<callerVars, fence, loopVars, epochVars>>

-----------------------------------------------------------------------------
RequestInit ==
  /\ caller = [r \in Request |-> "idle"]
  /\ told = [r \in Request |-> "nothing"]
  /\ fence = [r \in Request |-> "pending"]
  /\ queue = << >>
  /\ running = None
  /\ step = "started"
  /\ outcome = [r \in Request |-> "none"]
  /\ effect = {}
  /\ interruptEpoch = 1
  /\ mine = [r \in Request |-> 0]
  /\ overtaken = {}

Answer(r, what) ==
  /\ caller' = [caller EXCEPT ![r] = "answered"]
  /\ told' = [told EXCEPT ![r] = what]

(* cancel(): a compare-and-swap from pending.                              *)
Cancel(r) ==
  fence' = IF fence[r] = "pending" THEN [fence EXCEPT ![r] = "cancelled"]
                                   ELSE fence

(* The last look of commit_launch is behind its running handler.           *)
Committing(r) == running = r /\ step = "committing"

(* QueuedEvent::new: a user-visible transition takes the epoch it created, *)
(* any other event the present one.                                        *)
Create(r) ==
  /\ caller[r] = "idle"
  /\ caller' = [caller EXCEPT ![r] = "sending"]
  /\ interruptEpoch' = interruptEpoch + (IF r \in Interrupting THEN 1 ELSE 0)
  /\ mine' = [mine EXCEPT ![r] = interruptEpoch']
  /\ overtaken' = overtaken \union
       {l \in Launches : /\ r \in Interrupting /\ caller[l] # "idle"
                         /\ outcome[l] = "none" /\ ~Committing(l)}
  /\ UNCHANGED <<told, fence, loopVars>>

(* The channel is bounded.                                                 *)
Room == Len(queue) < Capacity

Send(r) ==
  /\ caller[r] = "sending" /\ Room
  /\ queue' = Append(queue, r)
  /\ caller' = [caller EXCEPT ![r] = "awaiting"]
  /\ UNCHANGED <<told, fence, running, step, outcome, effect, epochVars>>

SendDeadline(r) ==
  /\ caller[r] = "sending"
  /\ Cancel(r) /\ Answer(r, "unqueued")
  /\ UNCHANGED <<loopVars, epochVars>>

Reply(r) ==
  /\ caller[r] \in {"awaiting", "grace"} /\ outcome[r] # "none"
  /\ Answer(r, outcome[r])
  /\ UNCHANGED <<fence, loopVars, epochVars>>

(* The deadline of enqueue: cancelled in time, or five more seconds for a  *)
(* transition that has begun to commit.                                    *)
Deadline(r) ==
  /\ caller[r] = "awaiting"
  /\ Cancel(r)
  /\ IF fence[r] = "committing"
     THEN caller' = [caller EXCEPT ![r] = "grace"] /\ UNCHANGED told
     ELSE Answer(r, "cancelled")
  /\ UNCHANGED <<loopVars, epochVars>>

(* WaitForever is the wait for a committing transition without its limit.  *)
WaitForever(r) == FALSE
GraceIsOver(r) == caller[r] = "grace"

GraceEnds(r) ==
  /\ GraceIsOver(r)
  /\ Answer(r, "unknown")
  /\ UNCHANGED <<fence, loopVars, epochVars>>

(* serve_control_client drops the future of enqueue: its deadlines and its *)
(* cancel() are gone with it.                                              *)
ConnectionTimeout(r) ==
  /\ r \in Slow /\ caller[r] \in {"sending", "awaiting", "grace"}
  /\ Answer(r, "timeout")
  /\ UNCHANGED <<fence, loopVars, epochVars>>

-----------------------------------------------------------------------------
EndWith(r, what) ==
  /\ running' = None /\ step' = "started"
  /\ outcome' = [outcome EXCEPT ![r] = what]

(* event_loop: an event whose requester has cancelled is not started.      *)
Startable(r) == fence[r] # "cancelled"

Take ==
  /\ running = None /\ queue # << >>
  /\ queue' = Tail(queue)
  /\ LET r == Head(queue) IN
       \/ Startable(r) /\ running' = r /\ UNCHANGED <<step, outcome>>
       \/ ~Startable(r) /\ EndWith(r, "error")
  /\ UNCHANGED <<callerVars, fence, effect, epochVars>>

Newest(r) == interruptEpoch = mine[r]

(* ensure_launch_current, on entry, after a park, while the application    *)
(* gets ready and once more before the fence is claimed: all but the last  *)
(* can only end the launch.                                                *)
Superseded(r) == fence[r] = "cancelled" \/ ~Newest(r)

Supersede ==
  /\ running \in Launches /\ step = "started" /\ Superseded(running)
  /\ EndWith(running, "superseded")
  /\ UNCHANGED <<callerVars, fence, queue, effect, epochVars>>

LookBeforeFence ==
  /\ running \in Launches /\ step = "started" /\ ~Superseded(running)
  /\ step' = "looked"
  /\ UNCHANGED <<callerVars, fence, queue, running, outcome, effect, epochVars>>

(* begin_commit: a compare-and-swap that a cancellation may have won.      *)
BeginCommit ==
  /\ running \in Launches /\ step = "looked"
  /\ \/ /\ fence[running] = "pending"
        /\ fence' = [fence EXCEPT ![running] = "committing"]
        /\ step' = "claimed"
        /\ UNCHANGED <<running, outcome>>
     \/ /\ fence[running] # "pending"
        /\ EndWith(running, "error")
        /\ UNCHANGED fence
  /\ UNCHANGED <<callerVars, queue, effect, epochVars>>

(* The second look, behind the fence: an interaction may have arrived      *)
(* between the first one and the claim.  FenceIsEnough does without it.    *)
FenceIsEnough(r) == TRUE
StillNewest(r) == Newest(r)

LookBehindFence ==
  /\ running \in Launches /\ step = "claimed"
  /\ \/ StillNewest(running) /\ step' = "committing" /\ UNCHANGED <<running, outcome>>
     \/ ~StillNewest(running) /\ EndWith(running, "superseded")
  /\ UNCHANGED <<callerVars, fence, queue, effect, epochVars>>

(* A launch takes effect only behind its fence and its second look; every  *)
(* other handler looks at the fence no more once it has been started.      *)
(* BareLaunch does not either.                                             *)
BareLaunch(r) == TRUE
MayLand(r) == r \in Launches => step = "committing"

Land ==
  /\ running # None /\ MayLand(running)
  /\ effect' = effect \union {running}
  /\ EndWith(running, "ok")
  /\ UNCHANGED <<callerVars, fence, queue, epochVars>>

(* Anything else a handler calls may fail, before commit_launch or in it.  *)
Refuse ==
  /\ running # None /\ step \in {"started", "committing"}
  /\ EndWith(running, "error")
  /\ UNCHANGED <<callerVars, fence, queue, effect, epochVars>>

CallerStep(r) ==
  \/ Create(r) \/ Send(r) \/ SendDeadline(r) \/ Reply(r) \/ Deadline(r)
  \/ GraceEnds(r) \/ ConnectionTimeout(r)

RequestNext ==
  \/ \E r \in Request : CallerStep(r)
  \/ Take \/ Supersede \/ LookBeforeFence \/ BeginCommit \/ LookBehindFence
  \/ Land \/ Refuse

(* Timers fire.  Nothing is assumed of the event loop: a handler may take  *)
(* as long as it likes.                                                    *)
Fairness ==
  \A r \in Request :
    /\ WF_requestVars(SendDeadline(r))
    /\ WF_requestVars(Deadline(r))
    /\ WF_requestVars(GraceEnds(r))

RequestSpec == RequestInit /\ [][RequestNext]_requestVars
FairRequestSpec == RequestSpec /\ Fairness

-----------------------------------------------------------------------------
RequestTypes ==
  /\ caller \in [Request -> {"idle", "sending", "awaiting", "grace", "answered"}]
  /\ told \in [Request -> {"nothing", "unqueued", "cancelled", "unknown",
                           "timeout", "ok", "error", "superseded"}]
  /\ fence \in [Request -> {"pending", "cancelled", "committing"}]
  /\ queue \in Seq(Request) /\ Len(queue) <= Capacity
  /\ running \in Request \union {None}
  /\ step \in {"started", "looked", "claimed", "committing"}
  /\ outcome \in [Request -> {"none", "ok", "error", "superseded"}]
  /\ effect \subseteq Request
  /\ interruptEpoch \in Nat /\ mine \in [Request -> Nat]
  /\ overtaken \subseteq Launches

(* A requester that was told its launch was cancelled has been told the    *)
(* truth: the screen never changes hands for it, then or later.            *)
CancelledHasNoEffect ==
  \A r \in Launches : told[r] \in {"cancelled", "unqueued"} => r \notin effect

(* "Set when the requester has stopped waiting.  An event which has not    *)
(* begun must then have no delayed side effect."                           *)
NoDelayedStart ==
  [][running' # running /\ running' # None => told[running'] = "nothing"]_requestVars

(* The same of the requests that do not outlast their connection: what     *)
(* cancel() and the event loop together guarantee.                         *)
NoDelayedStartInTime ==
  [][running' # running /\ running' \notin Slow \union {None}
       => told[running'] = "nothing"]_requestVars

(* "User-visible transitions supersede a cold launch which has not reached *)
(* readiness yet ... so it never cancels its own route": a launch that a   *)
(* newer interaction met before its last look at the epoch never takes the *)
(* screen, and none is refused as superseded but one that was overtaken or *)
(* whose requester has cancelled it.                                       *)
NewerSupersedes ==
  \A r \in Launches :
    /\ r \in overtaken => r \notin effect
    /\ outcome[r] = "superseded" => r \in overtaken \/ fence[r] = "cancelled"

(* The strengthening that makes CancelledHasNoEffect inductive: a request  *)
(* that is not in the channel yet has an untouched fence, what landed has  *)
(* claimed its fence, and who was told of a cancellation has won it.       *)
NotQueuedYet(r) ==
  caller[r] \in {"idle", "sending"} =>
    /\ fence[r] = "pending"
    /\ \A i \in 1..Len(queue) : queue[i] # r
    /\ running # r

FenceDecides(r) ==
  /\ told[r] \in {"cancelled", "unqueued"} => fence[r] = "cancelled"
  /\ r \in effect /\ r \in Launches => fence[r] = "committing"
  /\ running = r /\ step \in {"claimed", "committing"} => fence[r] = "committing"

RequestInv ==
  /\ RequestTypes
  /\ running \in Launches \/ step = "started"
  /\ \A r \in Request : NotQueuedYet(r) /\ FenceDecides(r)

(* The one that makes NewerSupersedes inductive: an overtaken launch is    *)
(* older than the epoch and not past its last look, one that is neither    *)
(* overtaken, decided nor past it is the newest, and a handler that runs   *)
(* has not answered.                                                       *)
Outdated(r) ==
  /\ caller[r] # "idle" /\ mine[r] < interruptEpoch
  /\ r \notin effect /\ ~Committing(r)

EpochInv ==
  /\ running # None => outcome[running] = "none"
  /\ \A r \in Request : mine[r] <= interruptEpoch
  /\ \A r \in effect : outcome[r] # "none"
  /\ \A r \in overtaken : Outdated(r)
  /\ \A r \in Launches : caller[r] # "idle" /\ outcome[r] = "none" =>
       Newest(r) \/ r \in overtaken \/ Committing(r)

(* And what NoDelayedStartInTime needs: a request is in the channel at     *)
(* most once and untouched by the loop, and a requester that stopped       *)
(* waiting for it has won the fence, unless its connection gave up first.  *)
Untouched(r) ==
  /\ running # r
  /\ outcome[r] = "none"
  /\ fence[r] # "committing"
  /\ caller[r] \in {"awaiting", "answered"}
  /\ caller[r] = "answered" => fence[r] = "cancelled" \/ r \in Slow

ChannelInv ==
  /\ \A i, j \in 1..Len(queue) : queue[i] = queue[j] => i = j
  /\ \A i \in 1..Len(queue) : Untouched(queue[i])
  /\ \A r \in Request :
       /\ caller[r] \in {"idle", "sending"} => outcome[r] = "none"
       /\ told[r] # "nothing" => caller[r] = "answered"

(* No requester waits for a handler that does not return.                  *)
EveryoneAnswered ==
  \A r \in Request : caller[r] = "sending" ~> told[r] # "nothing"
=============================================================================
