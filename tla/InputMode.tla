----------------------------- MODULE InputMode -----------------------------
(* The input mode of the foreground application                             *)
(* (crates/remagicd/src/daemon/input_mode.rs, input_mode/authorization.rs,  *)
(* with the steps of launch.rs, launch/rollback.rs, applications/park.rs and*)
(* applications/park/recovery.rs that touch its record).                    *)
(* An application asks for direct ink or gives it up.  While it is being    *)
(* brought to the foreground the answer must not wait for the transition    *)
(* lock, because the transition waits for the application; once it is there *)
(* the lock is taken and the display host is told.  Two locks: that of the  *)
(* transition and that of the map of records.                               *)
EXTENDS Integers

CONSTANTS App,         \* applications that may negotiate both modes
          NoApp,       \* Home
          MaxEpoch,    \* bound on the foreground epochs
          MaxRequests  \* bound on the requests

ASSUME InputModeAssumption == /\ NoApp \notin App
                              /\ MaxEpoch \in Nat /\ MaxRequests \in Nat

VARIABLES
  domain,     \* [at, app]
  transition, \* who holds transition_lock: Free, the Loop or a request
  modes,      \* who holds the write lock of runtime_input_modes
  pc,         \* where the loop is in its transition
  record,     \* runtime_input_modes: [App -> [epoch (0: none), ink, pending]]
  epoch,      \* the last foreground epoch allocated
  knows,      \* [App -> the epoch its process was given last]
  chosen,     \* the ink policy in the activation under way
  host,       \* the lease the display host shows, and its ink
  request,    \* [1..MaxRequests -> a request of set_input_mode]
  told,       \* [epoch -> "none", "ink" or "no ink": the last policy promised]
  unsure      \* the display host failed to confirm the last change

vars == <<domain, transition, modes, pc, record, epoch, knows, chosen, host, request,
          told, unsure>>

NoRecord == [epoch |-> 0, ink |-> FALSE, pending |-> FALSE]
Unsent == [pc |-> "unsent", app |-> NoApp, epoch |-> 0, ink |-> FALSE, startup |-> FALSE]
Requests == 1..MaxRequests
Free == 0
Loop == -1
Policy(ink) == IF ink THEN "ink" ELSE "no ink"
At(d, a) == [at |-> d, app |-> a]
Shows(a, e, ink) == [app |-> a, epoch |-> e, ink |-> ink]

Init ==
  /\ domain = At("Manager", NoApp)
  /\ transition = Free
  /\ modes = Free
  /\ pc = "idle"
  /\ record = [a \in App |-> NoRecord]
  /\ epoch = 0
  /\ knows = [a \in App |-> 0]
  /\ chosen = FALSE
  /\ host = Shows(NoApp, 0, FALSE)
  /\ request = [r \in Requests |-> Unsent]
  /\ told = [e \in 1..MaxEpoch |-> "none"]
  /\ unsure = FALSE

(***************************************************************************)
(* The event loop, holding the transition lock                             *)
(***************************************************************************)
loopVars == <<epoch, knows, record>>

Launch(a) ==
  /\ transition = Free /\ domain.at = "Manager" /\ epoch < MaxEpoch
  /\ transition' = Loop
  /\ domain' = At("Launching", a)
  /\ pc' = "register"
  /\ UNCHANGED <<modes, loopVars, chosen, host, request, told, unsure>>

(* A new fence, pending, before the application hears of it: of a launch    *)
(* (register_runtime()) or of the recovery of a failed park.                *)
Register ==
  LET a == domain.app IN
  /\ pc \in {"register", "recover"} /\ modes = Free
  /\ IF epoch < MaxEpoch
     THEN /\ epoch' = epoch + 1
          /\ record' = [record EXCEPT ![a] = [epoch |-> epoch + 1, ink |-> FALSE,
                                              pending |-> TRUE]]
          /\ knows' = [knows EXCEPT ![a] = epoch + 1]
          /\ pc' = "wait"
     ELSE pc' = "abandon" /\ UNCHANGED loopVars
  /\ unsure' = FALSE
  /\ UNCHANGED <<domain, transition, modes, chosen, host, request, told>>

(* The application reports ready when its startup negotiation is answered.  *)
Open(r) == request[r].pc \notin {"unsent", "done"}
Ready ==
  /\ pc = "wait"
  /\ \A r \in Requests : ~(Open(r) /\ request[r].startup
                           /\ request[r].epoch = record[domain.app].epoch)
  /\ pc' = "commit"
  /\ UNCHANGED <<domain, transition, modes, loopVars, chosen, host, request, told, unsure>>

(* It does not, or it is interrupted, or it dies.                           *)
WaitFails ==
  /\ pc = "wait"
  /\ pc' = "abandon"
  /\ UNCHANGED <<domain, transition, modes, loopVars, chosen, host, request, told, unsure>>

(* commit_launch(), commit_restored_foreground(): the map stays locked from *)
(* the last read of the mode through the display host's answer to the       *)
(* publication.  LeaveMap reads it and lets go.                             *)
LeaveMap == modes' = modes
HoldMap == modes' = Loop
CommitBegins ==
  /\ pc = "commit" /\ modes = Free
  /\ HoldMap
  /\ chosen' = record[domain.app].ink
  /\ pc' = "activate"
  /\ UNCHANGED <<domain, transition, loopVars, host, request, told, unsure>>

CommitEnds ==
  LET a == domain.app IN
  /\ pc = "activate"
  /\ host' = Shows(a, record[a].epoch, chosen)
  /\ domain' = At("Foreground", a)
  /\ record' = [record EXCEPT ![a].pending = FALSE]
  /\ modes' = Free
  /\ transition' = Free
  /\ pc' = "idle"
  /\ UNCHANGED <<epoch, knows, chosen, request, told, unsure>>

CommitFails ==
  LET a == domain.app IN
  /\ pc = "activate"
  /\ host' \in {host, Shows(a, record[a].epoch, chosen)}
  /\ modes' = Free
  /\ pc' = "abandon"
  /\ UNCHANGED <<domain, transition, loopVars, chosen, request, told, unsure>>

(* rollback_launch(), force_stop_after_failed_park(): the process is stopped*)
(* and forgotten, Home is shown.                                            *)
Forget(a) == record' = [record EXCEPT ![a] = NoRecord]
Abandon ==
  /\ pc = "abandon" /\ modes = Free
  /\ Forget(domain.app)
  /\ domain' = At("Manager", NoApp)
  /\ host' = Shows(NoApp, 0, FALSE)
  /\ transition' = Free
  /\ pc' = "idle"
  /\ unsure' = FALSE
  /\ UNCHANGED <<modes, epoch, knows, chosen, request, told>>

ParkBegins ==
  /\ transition = Free /\ domain.at = "Foreground"
  /\ transition' = Loop
  /\ domain' = At("Parking", domain.app)
  /\ pc' = "park"
  /\ UNCHANGED <<modes, loopVars, chosen, host, request, told, unsure>>

(* A parked application keeps its record, which is not pending.             *)
Parked ==
  /\ pc = "park"
  /\ domain' = At("Manager", NoApp)
  /\ host' = Shows(NoApp, 0, FALSE)
  /\ transition' = Free
  /\ pc' = "idle"
  /\ unsure' = FALSE
  /\ UNCHANGED <<modes, loopVars, chosen, request, told>>

ParkFails ==
  /\ pc = "park"
  /\ pc' \in {"recover", "abandon"}
  /\ UNCHANGED <<domain, transition, modes, loopVars, chosen, host, request, told, unsure>>

(* record_runtime_exit(), close(), under the transition lock.               *)
Exits(a) ==
  /\ transition = Free /\ modes = Free
  /\ record[a].epoch # 0
  /\ Forget(a)
  /\ IF domain.app = a
     THEN /\ domain' = At("Manager", NoApp)
          /\ host' = Shows(NoApp, 0, FALSE)
          /\ unsure' = FALSE
     ELSE UNCHANGED <<domain, host, unsure>>
  /\ UNCHANGED <<transition, modes, pc, epoch, knows, chosen, request, told>>

(***************************************************************************)
(* set_input_mode_with(), on the thread of a control connection            *)
(***************************************************************************)
Moves(r, to) == request' = [request EXCEPT ![r].pc = to]
requestOnly == <<domain, transition, modes, pc, loopVars, chosen, host, told, unsure>>

(* A process that has been given a fence asks, at startup or later.         *)
Send(r, a, ink) ==
  /\ request[r].pc = "unsent" /\ knows[a] # 0
  /\ request' = [request EXCEPT ![r] =
       [pc |-> "sent", app |-> a, epoch |-> knows[a], ink |-> ink,
        startup |-> pc = "wait" /\ domain.app = a]]
  /\ UNCHANGED requestOnly

(* Launching or Parking of that application: the request may not wait for   *)
(* the transition lock.  Never waits for it always.                         *)
Never(a) == FALSE
InTransition(a) == domain.at \in {"Launching", "Parking"} /\ domain.app = a
ReadDomain(r) ==
  /\ request[r].pc = "sent"
  /\ Moves(r, IF InTransition(request[r].app) THEN "map" ELSE "lock")
  /\ UNCHANGED requestOnly

(* RuntimeInputState::matches().  AnyToken forgets to ask.                  *)
AnyToken(r) == record[request[r].app].epoch # 0
Matches(r) == AnyToken(r) /\ record[request[r].app].epoch = request[r].epoch

(* The domain is read again under the lock of the map.                      *)
Negotiate(r) ==
  LET q == request[r] IN
  /\ q.pc = "map" /\ modes = Free
  /\ \/ /\ ~InTransition(q.app)
        /\ Moves(r, "lock")
        /\ UNCHANGED <<record, told>>
     \/ /\ InTransition(q.app)
        /\ ~Matches(r) \/ ~record[q.app].pending
        /\ Moves(r, "done")
        /\ UNCHANGED <<record, told>>
     \/ /\ InTransition(q.app)
        /\ Matches(r) /\ record[q.app].pending
        /\ record' = [record EXCEPT ![q.app].ink = q.ink]
        /\ told' = [told EXCEPT ![q.epoch] = Policy(q.ink)]
        /\ Moves(r, "done")
  /\ UNCHANGED <<domain, transition, modes, pc, epoch, knows, chosen, host, unsure>>

(* validate_active_foreground_token(), under both locks.                    *)
Authorized(r) ==
  LET q == request[r] IN
  domain = At("Foreground", q.app) /\ Matches(r) /\ ~record[q.app].pending
Authorize(r) ==
  /\ request[r].pc = "lock" /\ transition = Free /\ modes = Free
  /\ \/ /\ Authorized(r)
        /\ transition' = r /\ modes' = r
        /\ Moves(r, "configure")
     \/ /\ ~Authorized(r)
        /\ Moves(r, "done")
        /\ UNCHANGED <<transition, modes>>
  /\ UNCHANGED <<domain, pc, loopVars, chosen, host, told, unsure>>

Unlocks == transition' = Free /\ modes' = Free
Configured(r) ==
  LET q == request[r] IN
  /\ q.pc = "configure"
  /\ host' = [host EXCEPT !.ink = q.ink]
  /\ record' = [record EXCEPT ![q.app].ink = q.ink]
  /\ told' = [told EXCEPT ![q.epoch] = Policy(q.ink)]
  /\ unsure' = FALSE
  /\ Unlocks
  /\ Moves(r, "done")
  /\ UNCHANGED <<domain, pc, epoch, knows, chosen>>

(* An error or two seconds without an answer: the command may take effect,  *)
(* the record stays.                                                        *)
ConfigureFails(r) ==
  LET q == request[r] IN
  /\ q.pc = "configure"
  /\ host' \in {host, [host EXCEPT !.ink = q.ink]}
  /\ unsure' = TRUE
  /\ Unlocks
  /\ Moves(r, "done")
  /\ UNCHANGED <<domain, pc, loopVars, chosen, told>>

Serve(r) == \/ ReadDomain(r) \/ Negotiate(r) \/ Authorize(r)
            \/ Configured(r) \/ ConfigureFails(r)

Transit == \/ Register \/ Ready \/ CommitBegins \/ CommitEnds \/ CommitFails
           \/ Abandon \/ Parked \/ ParkFails

Next ==
  \/ \E a \in App : Launch(a) \/ Exits(a)
  \/ Transit
  \/ WaitFails
  \/ ParkBegins
  \/ \E r \in Requests : Serve(r) \/ \E a \in App, ink \in BOOLEAN : Send(r, a, ink)

Spec == Init /\ [][Next]_vars

(* The runtime runs every task; nothing has to fail or to be launched.      *)
FairSpec ==
  /\ Spec
  /\ WF_vars(Transit)
  /\ \A r \in Requests : WF_vars(Serve(r))

(***************************************************************************)
(* Properties                                                              *)
(***************************************************************************)
TypeOK ==
  /\ domain \in [at : {"Manager", "Launching", "Foreground", "Parking"},
                 app : App \cup {NoApp}]
  /\ transition \in {Free, Loop} \cup Requests
  /\ modes \in {Free, Loop} \cup Requests
  /\ pc \in {"idle", "register", "recover", "wait", "commit", "activate", "abandon", "park"}
  /\ record \in [App -> [epoch : 0..MaxEpoch, ink : BOOLEAN, pending : BOOLEAN]]
  /\ epoch \in 0..MaxEpoch
  /\ knows \in [App -> 0..MaxEpoch]
  /\ chosen \in BOOLEAN
  /\ host \in [app : App \cup {NoApp}, epoch : 0..MaxEpoch, ink : BOOLEAN]
  /\ request \in [Requests ->
       [pc : {"unsent", "sent", "map", "lock", "configure", "done"},
        app : App \cup {NoApp}, epoch : 0..MaxEpoch, ink : BOOLEAN, startup : BOOLEAN]]
  /\ told \in [1..MaxEpoch -> {"none", "ink", "no ink"}]
  /\ unsure \in BOOLEAN

(* The display writes exactly when the application was told so: whenever no *)
(* transition is under way, an application in the foreground is the one that*)
(* the display host shows, under the fence of its record, with the ink of   *)
(* the last request under that fence that was answered with success, whether*)
(* that was answered during the launch (input_mode.rs:97) or after it -     *)
(* unless the host has failed to confirm a change since.                    *)
InkAsPromised ==
  domain.at = "Foreground" /\ transition = Free =>
    LET e == record[domain.app].epoch IN
    /\ e # 0 /\ host.app = domain.app /\ host.epoch = e
    /\ ~unsure => host.ink = record[domain.app].ink
    /\ ~unsure /\ told[e] # "none" => Policy(host.ink) = told[e]

(* The negotiation of a starting application is answered while its launch   *)
(* waits for it: neither of the two has to time out.                        *)
StartupAnswered ==
  \A r \in Requests : Open(r) /\ request[r].startup ~> request[r].pc = "done"
=============================================================================
