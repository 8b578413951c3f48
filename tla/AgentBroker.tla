---------------------------- MODULE AgentBroker ----------------------------
(* remagic-agentd: the broker that lends one persistent Pi process of an    *)
(* application to the connections of its foreground and background          *)
(* processes (crates/remagic-agentd: server.rs, requests.rs, state.rs,      *)
(* backend.rs).  One application: the broker keeps a separate AppState for  *)
(* each, and only their common mutex, held across a session reset, joins    *)
(* them.  A connection's loop reads one message at a time and serves it     *)
(* inline; each accepted turn has a task of its own, each Pi process a      *)
(* worker task with a channel of commands.                                  *)
EXTENDS Integers, Sequences

CONSTANTS Conns,      \* connections, each opened at most once
          Who, Gen,   \* the principal and the generation of a connection
          Requests,   \* the request ids of start_turn, each used once
          Lane,       \* the lane of a request
          Wants,      \* its agent profile and system prompt
          Principals, \* "foreground" and "background"
          Profiles,
          MaxWorkers, \* bound on the Pi processes ever spawned
          MaxOps      \* bound on reads, failed ones too, without start_turn and status

ASSUME BrokerAssumption == /\ Who \in [Conns -> Principals]
                           /\ Gen \in [Conns -> Nat \ {0}]
                           /\ Lane \in [Requests -> {"interactive", "speculative"}]
                           /\ Wants \in [Requests -> Profiles]
                           /\ MaxWorkers \in Nat \ {0}
                           /\ MaxOps \in Nat

NoTurn == "no turn"
ASSUME RequestsAssumption == Requests \cap {NoTurn, "shutdown", "reset"} = {}
NoConn == "no connection"
ASSUME NoConnAssumption == NoConn \notin Conns
NoProfile == "no profile"
ASSUME NoProfileAssumption == NoProfile \notin Profiles

VARIABLES
  pc,         \* [Conns -> where the connection's loop is]
  want,       \* [Conns -> the turn it is asking for, or NoTurn]
  owned,      \* [Conns -> connection_turn: the turn it has started, or NoTurn]
  phase,      \* [Requests -> how far the turn is]
  from,       \* [Requests -> the connection that asked for it]
  at,         \* [Requests -> the worker its task holds]
  cancel,     \* [Requests -> its cancellation flag]
  answers,    \* [Requests -> events sent that end it]
  slot,       \* AppState.active: the turn that holds the application, or NoTurn
  profile,    \* AppState.profile with the system prompt
  current,    \* AppState.worker: 0 or the number of a worker
  principals, \* AppState.principals: the generation each is bound to
  lock,       \* NoConn, or the connection whose reset holds the state's mutex
  state,      \* [Workers -> what the worker task does]
  queue,      \* [Workers -> its channel of commands]
  made,       \* [Workers -> the profile its process was started with]
  spawned,    \* how many workers were spawned
  ops         \* messages read, without start_turn and status

loops == <<pc, want, owned>>
turns == <<phase, from, at, cancel, answers>>
app == <<slot, profile, current>>
workers == <<state, queue, made, spawned>>
vars == <<loops, turns, app, principals, lock, workers, ops>>

Workers == 1..MaxWorkers

Init == /\ pc = [c \in Conns |-> "none"]
        /\ want = [c \in Conns |-> NoTurn]
        /\ owned = [c \in Conns |-> NoTurn]
        /\ phase = [r \in Requests |-> "new"]
        /\ from = [r \in Requests |-> NoConn]
        /\ at = [r \in Requests |-> 0]
        /\ cancel = [r \in Requests |-> FALSE]
        /\ answers = [r \in Requests |-> 0]
        /\ slot = NoTurn
        /\ profile = NoProfile
        /\ current = 0
        /\ principals = [p \in Principals |-> 0]
        /\ lock = NoConn
        /\ state = [w \in Workers |-> "none"]
        /\ queue = [w \in Workers |-> <<>>]
        /\ made = [w \in Workers |-> NoProfile]
        /\ spawned = 0
        /\ ops = 0

(***************************************************************************)
(* Connections and their identities                                        *)
(***************************************************************************)
Goto(c, place) == pc' = [pc EXCEPT ![c] = place]

(* The accept loop: the identity is read from the peer's process.           *)
Connect(c) ==
  /\ pc[c] = "none"
  /\ Goto(c, "reading")
  /\ UNCHANGED <<want, owned, turns, app, principals, lock, workers, ops>>

(* authorize(): the token belongs to the generation, so an equal generation *)
(* has the equal token; a newer one waits for the principal's active turn.  *)
Authorized(c) ==
  /\ lock = NoConn
  /\ \/ principals[Who[c]] = Gen[c]
     \/ /\ principals[Who[c]] < Gen[c]
        /\ slot # NoTurn => Who[from[slot]] # Who[c]

Bind(c) == principals' = [principals EXCEPT ![Who[c]] = Gen[c]]

(* serve_connection() reads a message and lets its client bind its token.   *)
Reads(c) == pc[c] = "reading" /\ Authorized(c) /\ Bind(c)
ReadsOp(c) == Reads(c) /\ ops < MaxOps /\ ops' = ops + 1

(* status and tool_result change nothing else.                              *)
Status(c) ==
  /\ Reads(c)
  /\ UNCHANGED <<loops, turns, app, lock, workers, ops>>

(* The event that ends a request for its client.                            *)
Answer(r, next) ==
  /\ phase' = [phase EXCEPT ![r] = next]
  /\ answers' = [answers EXCEPT ![r] = @ + 1]
  /\ UNCHANGED <<from, at, cancel>>

(***************************************************************************)
(* start_turn                                                              *)
(***************************************************************************)
StartTurn(c, r) ==
  /\ Reads(c)
  /\ phase[r] = "new"
  /\ phase' = [phase EXCEPT ![r] = "asked"]
  /\ from' = [from EXCEPT ![r] = c]
  /\ want' = [want EXCEPT ![c] = r]
  /\ Goto(c, "start")
  /\ UNCHANGED <<owned, at, cancel, answers, app, lock, workers, ops>>

(* Busy, unavailable or failed: the slot was never held.                    *)
Refuse(c) ==
  /\ Answer(want[c], "over")
  /\ want' = [want EXCEPT ![c] = NoTurn]
  /\ Goto(c, "reading")
  /\ UNCHANGED owned

Background(r) == Lane[r] # "interactive"
MayPreempt(c) == ~Background(want[c]) /\ Background(slot)

(* preempt_for_interaction(): nothing to preempt, preempt, or Busy.  Pi may *)
(* also not be installed.                                                   *)
Preempt(c) ==
  /\ pc[c] = "start"
  /\ lock = NoConn
  /\ \/ /\ slot = NoTurn
        /\ Goto(c, "claim")
        /\ UNCHANGED <<want, owned, turns>>
     \/ /\ slot # NoTurn
        /\ MayPreempt(c)
        /\ Goto(c, "waiting")
        /\ cancel' = [cancel EXCEPT ![slot] = TRUE]
        /\ UNCHANGED <<want, owned, phase, from, at, answers>>
     \/ (slot # NoTurn => ~MayPreempt(c)) /\ Refuse(c)
  /\ UNCHANGED <<app, principals, lock, workers, ops>>

(* The poll of the application's slot sees it free.                         *)
SlotFreed(c) ==
  /\ pc[c] = "waiting"
  /\ lock = NoConn
  /\ slot = NoTurn
  /\ Goto(c, "claim")
  /\ UNCHANGED <<want, owned, turns, app, principals, lock, workers, ops>>

(* Three seconds are over.                                                  *)
PreemptTimeout(c) ==
  /\ pc[c] = "waiting"
  /\ Refuse(c)
  /\ UNCHANGED <<app, principals, lock, workers, ops>>

(* A command for a worker; nobody takes it once the channel is closed.      *)
Send(w, command) == IF state[w] = "gone" THEN queue
                    ELSE [queue EXCEPT ![w] = Append(@, command)]

(* start() under the mutex: the slot is looked at again.                    *)
ClaimBusy(c) ==
  /\ pc[c] = "claim"
  /\ lock = NoConn
  /\ slot # NoTurn
  /\ \/ MayPreempt(c) /\ Goto(c, "start") /\ UNCHANGED <<want, owned, turns>>
     \/ ~MayPreempt(c) /\ Refuse(c)
  /\ UNCHANGED <<app, principals, lock, workers, ops>>

(* The resident Pi process serves the turn.                                 *)
Fits(p) == current # 0 /\ profile = p /\ state[current] # "gone"

Take(c, w) ==
  /\ slot' = want[c]
  /\ profile' = Wants[want[c]]
  /\ current' = w
  /\ phase' = [phase EXCEPT ![want[c]] = "claimed"]
  /\ at' = [at EXCEPT ![want[c]] = w]
  /\ Goto(c, "own")
  /\ UNCHANGED <<want, owned, from, cancel, answers>>

MayClaim(c) == pc[c] = "claim" /\ lock = NoConn /\ slot = NoTurn

ClaimResident(c) ==
  /\ MayClaim(c)
  /\ Fits(Wants[want[c]])
  /\ Take(c, current)
  /\ UNCHANGED <<principals, lock, workers, ops>>

(* Otherwise it is shut down, and another one started or not.               *)
ShutDown == queue' = IF current = 0 THEN queue ELSE Send(current, "shutdown")

ClaimFresh(c) ==
  /\ MayClaim(c)
  /\ ~Fits(Wants[want[c]])
  /\ ShutDown
  /\ \/ /\ spawned < MaxWorkers
        /\ spawned' = spawned + 1
        /\ state' = [state EXCEPT ![spawned + 1] = "idle"]
        /\ made' = [made EXCEPT ![spawned + 1] = Wants[want[c]]]
        /\ Take(c, spawned + 1)
     \/ /\ current' = 0
        /\ Refuse(c)
        /\ UNCHANGED <<slot, profile, spawned, state, made>>
  /\ UNCHANGED <<principals, lock, ops>>

(* start_turn() after start(): the connection owns the turn and its task    *)
(* hands it to the worker.                                                  *)
Own(c) ==
  LET r == want[c] IN
  /\ pc[c] = "own"
  /\ owned' = [owned EXCEPT ![c] = r]
  /\ want' = [want EXCEPT ![c] = NoTurn]
  /\ Goto(c, "reading")
  /\ queue' = Send(at[r], r)
  /\ \/ state[at[r]] = "gone" /\ Answer(r, "done")
     \/ /\ state[at[r]] # "gone"
        /\ phase' = [phase EXCEPT ![r] = "sent"]
        /\ UNCHANGED <<from, at, cancel, answers>>
  /\ UNCHANGED <<app, principals, lock, state, made, spawned, ops>>

(***************************************************************************)
(* The turn's task after the worker has answered                           *)
(***************************************************************************)
Finish(r) ==
  /\ phase[r] = "done"
  /\ lock = NoConn
  /\ slot' = IF slot = r THEN NoTurn ELSE slot
  /\ phase' = [phase EXCEPT ![r] = "finished"]
  /\ UNCHANGED <<loops, from, at, cancel, answers, profile, current,
                 principals, lock, workers, ops>>

(* clear_owned_turn(): the connection may own a newer turn by now.          *)
OwnsAny(c, r) == owned[c] # NoTurn
Owns(c, r) == owned[c] = r
ClearOwnedTurn(r) ==
  LET c == from[r] IN
  /\ phase[r] = "finished"
  /\ phase' = [phase EXCEPT ![r] = "over"]
  /\ owned' = IF Owns(c, r) THEN [owned EXCEPT ![c] = NoTurn] ELSE owned
  /\ UNCHANGED <<pc, want, from, at, cancel, answers, app, principals, lock,
                 workers, ops>>

(***************************************************************************)
(* The other messages                                                      *)
(***************************************************************************)
(* cancel(): by the turn's id alone, whoever asks.                          *)
Cancel(r) == cancel' = IF r \in Requests /\ slot = r THEN [cancel EXCEPT ![r] = TRUE] ELSE cancel

CancelTurn(c, r) ==
  /\ ReadsOp(c)
  /\ Cancel(r)
  /\ UNCHANGED <<loops, phase, from, at, answers, app, lock, workers>>

(* reload_profile(): Busy beside a turn; the profile in use is only checked.*)
ReloadsBeside(p) == p = NoProfile \/ p # profile
Reloads(p) == slot = NoTurn /\ (p = NoProfile \/ p # profile)

ReloadProfile(c, p) ==
  /\ ReadsOp(c)
  /\ Reloads(p)
  /\ ShutDown
  /\ profile' = IF p = NoProfile THEN profile ELSE p
  /\ current' = 0
  /\ UNCHANGED <<loops, turns, slot, lock, state, made, spawned>>

(* new_session(): the mutex is kept until the worker has answered.          *)
NewSession(c) ==
  /\ ReadsOp(c)
  /\ slot = NoTurn
  /\ current # 0 /\ state[current] # "gone"
  /\ queue' = Send(current, "reset")
  /\ lock' = c
  /\ Goto(c, "resetting")
  /\ UNCHANGED <<want, owned, turns, app, state, made, spawned>>

ResetAnswered == /\ lock' = NoConn
                 /\ pc' = [c \in Conns |-> IF c = lock THEN "reading" ELSE pc[c]]

(***************************************************************************)
(* A worker: Worker::run, and the Pi process behind it                     *)
(***************************************************************************)
Becomes(w, next) == state' = [state EXCEPT ![w] = next]

(* The next command of an idle worker: a turn, a reset or its end.          *)
NextCommand(w) ==
  LET command == Head(queue[w]) IN
  /\ state[w] = "idle"
  /\ queue[w] # <<>>
  /\ queue' = [queue EXCEPT ![w] = Tail(@)]
  /\ \/ command = "shutdown" /\ Becomes(w, "dying") /\ UNCHANGED phase
     \/ command = "reset" /\ Becomes(w, "reset") /\ UNCHANGED phase
     \/ /\ command \in Requests
        /\ Becomes(w, "turn")
        /\ phase' = [phase EXCEPT ![command] = "running"]
  /\ UNCHANGED <<loops, from, at, cancel, answers, app, principals, lock, made,
                 spawned, ops>>

Runs(w, r, how) == state[w] = "turn" /\ phase[r] = how /\ at[r] = w

(* run_turn() returns: the client has its event, done is sent, and the task *)
(* goes on with the next command or kills the process.                      *)
TurnOver(w, r, next) ==
  /\ Answer(r, "done")
  /\ Becomes(w, next)
  /\ UNCHANGED <<loops, app, principals, lock, queue, made, spawned, ops>>

(* agent_end or a rejected prompt; anything fatal ends the process too.     *)
Complete(w, r) == Runs(w, r, "running") /\ TurnOver(w, r, "idle")
Fails(w, r) == Runs(w, r, "running") /\ TurnOver(w, r, "dying")

(* The select! sees the cancellation: abort is written to Pi.               *)
SeeCancel(w, r) ==
  /\ Runs(w, r, "running")
  /\ cancel[r]
  /\ phase' = [phase EXCEPT ![r] = "aborting"]
  /\ UNCHANGED <<loops, from, at, cancel, answers, app, principals, lock, workers, ops>>

(* Pi confirms the abort within ABORT_TIMEOUT, or the process is given up.  *)
(* WaitsForPi is an abort without a deadline.                               *)
Aborted(w, r) == Runs(w, r, "aborting") /\ TurnOver(w, r, "idle")
WaitsForPi(w, r) == Runs(w, r, "aborting") /\ FALSE
AbortTimeout(w, r) == Runs(w, r, "aborting") /\ TurnOver(w, r, "dying")

(* The answer to a reset, or RPC_TIMEOUT.                                   *)
ResetDone(w, next) ==
  /\ state[w] = "reset"
  /\ Becomes(w, next)
  /\ ResetAnswered
  /\ UNCHANGED <<want, owned, turns, app, principals, queue, made, spawned, ops>>

(* The process is dead and the channel closes: what is queued is dropped,   *)
(* and whoever waits for an answer learns that the worker exited.  Unlike   *)
(* run(), Unreported lets the end of a turn that kills the process be       *)
(* noticed only here.                                                       *)
Unreported(w) == {r \in Requests : phase[r] \in {"sent", "done"} /\ at[r] = w}
Dropped(w) == {r \in Requests : phase[r] = "sent" /\ at[r] = w}
ChannelCloses(w) ==
  /\ state[w] = "dying"
  /\ Becomes(w, "gone")
  /\ queue' = [queue EXCEPT ![w] = <<>>]
  /\ phase' = [r \in Requests |-> IF r \in Dropped(w) THEN "done" ELSE phase[r]]
  /\ answers' = [r \in Requests |-> IF r \in Dropped(w) THEN answers[r] + 1
                                    ELSE answers[r]]
  /\ IF \E i \in DOMAIN queue[w] : queue[w][i] = "reset"
     THEN ResetAnswered ELSE UNCHANGED <<pc, lock>>
  /\ UNCHANGED <<want, owned, from, at, cancel, app, principals, made, spawned, ops>>

(***************************************************************************)
(* The end of a connection, and of the service                             *)
(***************************************************************************)
Closes(c, end) == Goto(c, end) /\ owned' = [owned EXCEPT ![c] = NoTurn]

(* EOF: the owned turn is cancelled.  The client is counted until its writer*)
(* ends too, which IdleExit below has no need to know.                      *)
Disconnect(c) ==
  /\ pc[c] = "reading"
  /\ lock = NoConn
  /\ Cancel(owned[c])
  /\ Closes(c, "gone")
  /\ UNCHANGED <<want, phase, from, at, answers, app, principals, lock, workers, ops>>

(* Any other error of a read returns at once: a malformed frame, or the     *)
(* reset of a socket whose peer left with unread events.  Nothing is         *)
(* cancelled.                                                               *)
ReadFails(c) ==
  /\ pc[c] = "reading"
  /\ ops < MaxOps /\ ops' = ops + 1
  /\ Closes(c, "lost")
  /\ UNCHANGED <<want, turns, app, principals, lock, workers>>

(* Ten minutes without a client, far longer than an abort takes: the process*)
(* exits with its workers and its memory; the next client activates it anew.*)
Settling(r) == \/ phase[r] \in {"sent", "aborting", "done", "finished"}
               \/ phase[r] = "running" /\ cancel[r]
Closed == {"none", "gone", "lost"}
IdleExit ==
  /\ \A c \in Conns : pc[c] \in Closed
  /\ \A r \in Requests : ~Settling(r)
  /\ slot' = NoTurn
  /\ profile' = NoProfile
  /\ current' = 0
  /\ phase' = [r \in Requests |-> IF phase[r] = "new" THEN "new" ELSE "over"]
  /\ state' = [w \in Workers |-> IF w > spawned THEN "none" ELSE "gone"]
  /\ queue' = [w \in Workers |-> <<>>]
  /\ principals' = [p \in Principals |-> 0]
  /\ UNCHANGED <<loops, from, at, cancel, answers, made, spawned, lock, ops>>

(***************************************************************************)
(* The specification                                                       *)
(***************************************************************************)
Client(c) ==
  \/ Connect(c) \/ Status(c) \/ NewSession(c) \/ Disconnect(c) \/ ReadFails(c)
  \/ \E r \in Requests : StartTurn(c, r) \/ CancelTurn(c, r)
  \/ \E p \in Profiles \cup {NoProfile} : ReloadProfile(c, p)

Serve(c) == \/ Preempt(c) \/ SlotFreed(c) \/ PreemptTimeout(c)
            \/ ClaimBusy(c) \/ ClaimResident(c) \/ ClaimFresh(c) \/ Own(c)

(* What a worker does without the help of its Pi process.                   *)
WorkerStep(w) == \/ NextCommand(w) \/ ChannelCloses(w) \/ ResetDone(w, "dying")
                 \/ \E r \in Requests : SeeCancel(w, r) \/ AbortTimeout(w, r)
Pi(w) == \/ ResetDone(w, "idle")
         \/ \E r \in Requests : Complete(w, r) \/ Fails(w, r) \/ Aborted(w, r)

Task(r) == Finish(r) \/ ClearOwnedTurn(r)

Next == \/ \E c \in Conns : Client(c) \/ Serve(c)
        \/ \E w \in Workers : WorkerStep(w) \/ Pi(w)
        \/ \E r \in Requests : Task(r)
        \/ IdleExit

(* Tasks and timers run; clients and Pi need not do anything.               *)
Fairness == /\ WF_vars(\E c \in Conns : Serve(c))
            /\ WF_vars(\E w \in Workers : WorkerStep(w))
            /\ WF_vars(\E r \in Requests : Task(r))

Spec == Init /\ [][Next]_vars
FairSpec == Spec /\ Fairness

(***************************************************************************)
(* Properties                                                              *)
(***************************************************************************)
Places == {"none", "reading", "start", "waiting", "claim", "own", "resetting",
           "gone", "lost"}
Phases == {"new", "asked", "claimed", "sent", "running", "aborting", "done",
           "finished", "over"}
States == {"none", "idle", "turn", "reset", "dying", "gone"}
Commands == Requests \cup {"shutdown", "reset"}
TypeOK ==
  /\ pc \in [Conns -> Places]
  /\ want \in [Conns -> Requests \cup {NoTurn}]
  /\ owned \in [Conns -> Requests \cup {NoTurn}]
  /\ phase \in [Requests -> Phases]
  /\ from \in [Requests -> Conns \cup {NoConn}]
  /\ at \in [Requests -> 0..MaxWorkers]
  /\ cancel \in [Requests -> BOOLEAN]
  /\ answers \in [Requests -> Nat]
  /\ slot \in Requests \cup {NoTurn}
  /\ profile \in Profiles \cup {NoProfile}
  /\ current \in 0..MaxWorkers
  /\ principals \in [Principals -> Nat]
  /\ lock \in Conns \cup {NoConn}
  /\ state \in [Workers -> States]
  /\ queue \in [Workers -> Seq(Commands)]
  /\ made \in [Workers -> Profiles \cup {NoProfile}]
  /\ spawned \in 0..MaxWorkers
  /\ ops \in 0..MaxOps

(* A turn that Pi works on, or that waits in a worker's channel.            *)
AtWork(r) == phase[r] \in {"sent", "running", "aborting"}

(* Whatever a Pi process works on is the turn that holds the application's  *)
(* single slot, in the resident worker and under the profile it asked for.  *)
WorkIsOwned ==
  \A r \in Requests : AtWork(r) =>
    slot = r /\ at[r] = current /\ made[current] = Wants[r]

(* A request to start a turn is answered at most once.                      *)
AnsweredOnce == \A r \in Requests : answers[r] <= 1

(* The broker is the service of TurnService: however cancellations, ends of *)
(* turns, dying workers and preemption race, a turn takes the slot only when*)
(* it is free and unanswered, is answered at most once, and gives the slot  *)
(* back after that answer or with the exit of a service without clients.    *)
Connected == {c \in Conns : pc[c] \notin Closed}
Service == INSTANCE TurnService WITH clients <- Connected, holder <- slot
ImplementsService == Service!Spec

(* Once a client has disconnected (the EOF of its connection), its turn is  *)
(* at work only to be cancelled, although the turn ends on a task of its own*)
(* and the connection may have owned others before and after.               *)
DisconnectCancels ==
  \A r \in Requests : AtWork(r) /\ pc[from[r]] = "gone" => cancel[r]

(* Cancelled work gives the slot back, even if Pi never answers again.      *)
CancelFrees ==
  \A r \in Requests : (slot = r /\ cancel[r]) ~> slot # r

(***************************************************************************)
(* The inductive invariant behind the safety properties                    *)
(***************************************************************************)
Held == {"claimed", "sent", "running", "aborting", "done"}
Unanswered == {"new", "asked", "claimed", "sent", "running", "aborting"}

(* The slot names the one turn between its claim and its finish.            *)
SlotInv == \A r \in Requests : phase[r] \in Held <=> slot = r

(* A connection inside start_turn is the only one that asks for its turn.   *)
AskInv ==
  \A c \in Conns : pc[c] \in {"start", "waiting", "claim", "own"} =>
    /\ want[c] \in Requests
    /\ from[want[c]] = c
    /\ phase[want[c]] = IF pc[c] = "own" THEN "claimed" ELSE "asked"

(* A turn is only ever in the channel or at the Pi process of the resident  *)
(* worker, which was started for its profile.                               *)
PlaceInv ==
  /\ current <= spawned
  /\ current # 0 => made[current] = profile
  /\ slot # NoTurn => current # 0 /\ profile = Wants[slot] /\ at[slot] = current
  /\ \A r \in Requests :
       /\ phase[r] = "sent" => state[current] # "gone"
       /\ phase[r] \in {"running", "aborting"} => state[current] = "turn"

(* A turn is in a channel once, and only while it waits there.              *)
QueueInv ==
  \A w \in Workers : \A i \in DOMAIN queue[w] : queue[w][i] \in Requests =>
    /\ phase[queue[w][i]] = "sent"
    /\ at[queue[w][i]] = w
    /\ \A j \in DOMAIN queue[w] : queue[w][j] = queue[w][i] => i = j

AnswerInv == \A r \in Requests : /\ answers[r] \in {0, 1}
                                 /\ phase[r] \in Unanswered => answers[r] = 0
                                 /\ phase[r] = "done" => answers[r] = 1

(* A turn that is not cancelled has its owner, or its read has failed; a    *)
(* connection that resets is not over.                                      *)
OwnerInv ==
  /\ lock # NoConn => pc[lock] = "resetting"
  /\ \A c \in Conns : pc[c] \in {"gone", "lost"} => owned[c] = NoTurn
  /\ \A r \in Requests : AtWork(r) /\ ~cancel[r] =>
       from[r] \in Conns /\ (owned[from[r]] = r \/ pc[from[r]] = "lost")

IInv == TypeOK /\ SlotInv /\ AskInv /\ PlaceInv /\ QueueInv /\ AnswerInv /\ OwnerInv
=============================================================================
