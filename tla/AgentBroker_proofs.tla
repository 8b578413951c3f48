------------------------ MODULE AgentBroker_proofs ------------------------
(* The inductive invariant of AgentBroker, one lemma per operation, and what *)
(* follows from it for every set of connections, requests and profiles.     *)
EXTENDS AgentBroker, TLAPS

(* A command that is sent comes last, and the others stay where they were.  *)
LEMMA SendAppends ==
  ASSUME queue \in [Workers -> Seq(Commands)], NEW w \in Workers,
         NEW command \in Commands, queue' = Send(w, command)
  PROVE  /\ queue' \in [Workers -> Seq(Commands)]
         /\ \A v \in Workers : \A k \in DOMAIN queue'[v] :
              \/ k \in DOMAIN queue[v] /\ queue'[v][k] = queue[v][k]
              \/ v = w /\ k = Len(queue[w]) + 1 /\ queue'[v][k] = command
  BY DEF Send

(* Shutting the resident worker down queues no turn.                        *)
LEMMA ShutDownKeeps ==
  ASSUME IInv, ShutDown
  PROVE  /\ queue' \in [Workers -> Seq(Commands)]
         /\ \A v \in Workers : \A k \in DOMAIN queue'[v] : queue'[v][k] \in Requests =>
              k \in DOMAIN queue[v] /\ queue'[v][k] = queue[v][k]
<1>1. CASE current = 0
  BY <1>1 DEF ShutDown, IInv, TypeOK
<1>2. CASE current # 0
  <2>1. queue' = Send(current, "shutdown") /\ current \in Workers
    BY <1>2, BrokerAssumption DEF ShutDown, IInv, TypeOK, Workers
  <2>2. queue \in [Workers -> Seq(Commands)] /\ "shutdown" \in Commands
    BY DEF IInv, TypeOK, Commands
  <2> QED
    BY <2>1, <2>2, SendAppends, RequestsAssumption
<1> QED  BY <1>1, <1>2

(* What is left of a channel after its first command.                       *)
LEMMA TailShifts ==
  ASSUME NEW q \in Seq(Commands), q # <<>>
  PROVE  /\ Tail(q) \in Seq(Commands)
         /\ Head(q) \in Commands /\ 1 \in DOMAIN q /\ q[1] = Head(q)
         /\ \A k \in DOMAIN Tail(q) : k \in Nat /\ k > 0 /\ k + 1 \in DOMAIN q /\ Tail(q)[k] = q[k + 1]
  OBVIOUS

(* The commands behind the one that is taken move up, the others stay.       *)
LEMMA TailMoves ==
  ASSUME queue \in [Workers -> Seq(Commands)], NEW w \in Workers, queue[w] # <<>>,
         queue' = [queue EXCEPT ![w] = Tail(@)], NEW v \in Workers
  PROVE  \A m \in DOMAIN queue'[v] : \E n \in DOMAIN queue[v] :
            /\ queue'[v][m] = queue[v][n]
            /\ n = IF v = w THEN m + 1 ELSE m
            /\ v = w => n # 1
<1>1. CASE v = w
  <2>1. queue[w] \in Seq(Commands) /\ queue'[w] = Tail(queue[w])
    OBVIOUS
  <2> QED  BY <1>1, <2>1, TailShifts
<1>2. CASE v # w
  BY <1>2
<1> QED  BY <1>1, <1>2

(* Nobody but the connection that asks for a turn has anything of it.       *)
LEMMA Asking ==
  ASSUME IInv, NEW c \in Conns, pc[c] \in {"start", "waiting", "claim"}
  PROVE  /\ want[c] \in Requests
         /\ from[want[c]] = c
         /\ phase[want[c]] = "asked"
         /\ slot # want[c]
         /\ answers[want[c]] = 0
  BY DEF IInv, AskInv, SlotInv, AnswerInv, Held, Unanswered

(* The connection that has claimed the slot.                                *)
LEMMA Owning ==
  ASSUME IInv, NEW c \in Conns, pc[c] = "own"
  PROVE  /\ want[c] \in Requests
         /\ from[want[c]] = c
         /\ phase[want[c]] = "claimed"
         /\ slot = want[c]
         /\ at[want[c]] = current /\ current \in Workers
         /\ made[current] = Wants[want[c]]
         /\ answers[want[c]] = 0
  BY RequestsAssumption
  DEF IInv, TypeOK, AskInv, SlotInv, PlaceInv, AnswerInv, Held, Unanswered, Workers

(* A new connection has nothing yet.                                        *)
LEMMA ConnectInv ==
  ASSUME IInv, NEW c \in Conns, Connect(c)
  PROVE  IInv'
<1> USE BrokerAssumption, RequestsAssumption, NoConnAssumption, NoProfileAssumption DEF
     IInv, TypeOK, Workers, loops, turns, app, workers, Connect, Goto
<1>1. TypeOK'
  BY DEF Places, Phases, States, Commands
<1>2. SlotInv'
  BY DEF SlotInv, AskInv, QueueInv, Held
<1>3. AskInv'
  BY DEF AskInv, SlotInv, QueueInv, Held
<1>4. PlaceInv'
  BY DEF PlaceInv, SlotInv, AskInv, QueueInv, Held
<1>5. QueueInv'
  BY DEF QueueInv, SlotInv, AskInv, PlaceInv, Held, Commands
<1>6. AnswerInv'
  BY DEF AnswerInv, AskInv, QueueInv, Unanswered
<1>7. OwnerInv'
  BY DEF OwnerInv, SlotInv, AskInv, PlaceInv, QueueInv, Held, AtWork
<1> QED  BY <1>1, <1>2, <1>3, <1>4, <1>5, <1>6, <1>7

(* Only a principal is bound.                                               *)
LEMMA StatusInv ==
  ASSUME IInv, NEW c \in Conns, Status(c)
  PROVE  IInv'
<1> USE BrokerAssumption, RequestsAssumption, NoConnAssumption, NoProfileAssumption DEF
     IInv, TypeOK, Workers, loops, turns, app, workers, Status, Reads, Authorized, Bind
<1>1. TypeOK'
  BY DEF Places, Phases, States, Commands
<1>2. SlotInv'
  BY DEF SlotInv, AskInv, QueueInv, Held
<1>3. AskInv'
  BY DEF AskInv, SlotInv, QueueInv, Held
<1>4. PlaceInv'
  BY DEF PlaceInv, SlotInv, AskInv, QueueInv, Held
<1>5. QueueInv'
  BY DEF QueueInv, SlotInv, AskInv, PlaceInv, Held, Commands
<1>6. AnswerInv'
  BY DEF AnswerInv, AskInv, QueueInv, Unanswered
<1>7. OwnerInv'
  BY DEF OwnerInv, SlotInv, AskInv, PlaceInv, QueueInv, Held, AtWork
<1> QED  BY <1>1, <1>2, <1>3, <1>4, <1>5, <1>6, <1>7

(* A new turn is asked for by one connection.                               *)
LEMMA StartTurnInv ==
  ASSUME IInv, NEW c \in Conns, NEW r \in Requests, StartTurn(c, r)
  PROVE  IInv'
<1> USE BrokerAssumption, RequestsAssumption, NoConnAssumption, NoProfileAssumption DEF
     IInv, TypeOK, Workers, loops, turns, app, workers, StartTurn, Reads, Authorized,
     Bind, Goto
<1>1. TypeOK'
  BY DEF Places, Phases, States, Commands
<1>2. SlotInv'
  BY DEF SlotInv, AskInv, QueueInv, Held
<1>3. AskInv'
  BY DEF AskInv, SlotInv, QueueInv, Held
<1>4. PlaceInv'
  BY DEF PlaceInv, SlotInv, AskInv, QueueInv, Held
<1>5. QueueInv'
  BY DEF QueueInv, SlotInv, AskInv, PlaceInv, Held, Commands
<1>6. AnswerInv'
  BY DEF AnswerInv, AskInv, QueueInv, Unanswered
<1>7. OwnerInv'
  BY DEF OwnerInv, SlotInv, AskInv, PlaceInv, QueueInv, Held, AtWork
<1> QED  BY <1>1, <1>2, <1>3, <1>4, <1>5, <1>6, <1>7

(* Go on, cancel the turn that holds the slot, or be refused.               *)
LEMMA PreemptInv ==
  ASSUME IInv, NEW c \in Conns, Preempt(c)
  PROVE  IInv'
<1>0. want[c] \in Requests /\ from[want[c]] = c /\ phase[want[c]] = "asked"
     /\ slot # want[c] /\ answers[want[c]] = 0
  BY Asking DEF Preempt
<1>1. CASE slot = NoTurn /\ Goto(c, "claim") /\ UNCHANGED <<want, owned, turns>>
  <2> USE BrokerAssumption, RequestsAssumption, NoConnAssumption, NoProfileAssumption
       DEF IInv, TypeOK, Workers, loops, turns, app, workers, Preempt, Goto
  <2>1. TypeOK'
    BY <1>1, <1>0 DEF Places, Phases, States, Commands
  <2>2. SlotInv'
    BY <1>1, <1>0 DEF SlotInv, AskInv, QueueInv, Held
  <2>3. AskInv'
    BY <1>1, <1>0 DEF AskInv, SlotInv, QueueInv, Held
  <2>4. PlaceInv'
    BY <1>1, <1>0 DEF PlaceInv, SlotInv, AskInv, QueueInv, Held
  <2>5. QueueInv'
    BY <1>1, <1>0 DEF QueueInv, SlotInv, AskInv, PlaceInv, Held, Commands
  <2>6. AnswerInv'
    BY <1>1, <1>0 DEF AnswerInv, AskInv, QueueInv, Unanswered
  <2>7. OwnerInv'
    BY <1>1, <1>0 DEF OwnerInv, SlotInv, AskInv, PlaceInv, QueueInv, Held, AtWork
  <2> QED  BY <2>1, <2>2, <2>3, <2>4, <2>5, <2>6, <2>7
<1>2. CASE /\ slot # NoTurn /\ Goto(c, "waiting")
          /\ cancel' = [cancel EXCEPT ![slot] = TRUE]
          /\ UNCHANGED <<want, owned, phase, from, at, answers>>
  <2> USE BrokerAssumption, RequestsAssumption, NoConnAssumption, NoProfileAssumption
       DEF IInv, TypeOK, Workers, loops, turns, app, workers, Preempt, Goto
  <2>1. TypeOK'
    BY <1>2, <1>0 DEF Places, Phases, States, Commands
  <2>2. SlotInv'
    BY <1>2, <1>0 DEF SlotInv, AskInv, QueueInv, Held
  <2>3. AskInv'
    BY <1>2, <1>0 DEF AskInv, SlotInv, QueueInv, Held
  <2>4. PlaceInv'
    BY <1>2, <1>0 DEF PlaceInv, SlotInv, AskInv, QueueInv, Held
  <2>5. QueueInv'
    BY <1>2, <1>0 DEF QueueInv, SlotInv, AskInv, PlaceInv, Held, Commands
  <2>6. AnswerInv'
    BY <1>2, <1>0 DEF AnswerInv, AskInv, QueueInv, Unanswered
  <2>7. OwnerInv'
    BY <1>2, <1>0 DEF OwnerInv, SlotInv, AskInv, PlaceInv, QueueInv, Held, AtWork
  <2> QED  BY <2>1, <2>2, <2>3, <2>4, <2>5, <2>6, <2>7
<1>3. CASE Refuse(c)
  <2> USE BrokerAssumption, RequestsAssumption, NoConnAssumption, NoProfileAssumption
       DEF IInv, TypeOK, Workers, loops, turns, app, workers, Preempt, Refuse, Answer,
       Goto
  <2>1. TypeOK'
    BY <1>3, <1>0 DEF Places, Phases, States, Commands
  <2>2. SlotInv'
    BY <1>3, <1>0 DEF SlotInv, AskInv, QueueInv, Held
  <2>3. AskInv'
    BY <1>3, <1>0 DEF AskInv, SlotInv, QueueInv, Held
  <2>4. PlaceInv'
    BY <1>3, <1>0 DEF PlaceInv, SlotInv, AskInv, QueueInv, Held
  <2>5. QueueInv'
    BY <1>3, <1>0 DEF QueueInv, SlotInv, AskInv, PlaceInv, Held, Commands
  <2>6. AnswerInv'
    BY <1>3, <1>0 DEF AnswerInv, AskInv, QueueInv, Unanswered
  <2>7. OwnerInv'
    BY <1>3, <1>0 DEF OwnerInv, SlotInv, AskInv, PlaceInv, QueueInv, Held, AtWork
  <2> QED  BY <2>1, <2>2, <2>3, <2>4, <2>5, <2>6, <2>7
<1> QED  BY <1>1, <1>2, <1>3 DEF Preempt

(* The slot was seen free.                                                  *)
LEMMA SlotFreedInv ==
  ASSUME IInv, NEW c \in Conns, SlotFreed(c)
  PROVE  IInv'
<1> USE BrokerAssumption, RequestsAssumption, NoConnAssumption, NoProfileAssumption DEF
     IInv, TypeOK, Workers, loops, turns, app, workers, SlotFreed, Goto
<1>1. TypeOK'
  BY DEF Places, Phases, States, Commands
<1>2. SlotInv'
  BY DEF SlotInv, AskInv, QueueInv, Held
<1>3. AskInv'
  BY DEF AskInv, SlotInv, QueueInv, Held
<1>4. PlaceInv'
  BY DEF PlaceInv, SlotInv, AskInv, QueueInv, Held
<1>5. QueueInv'
  BY DEF QueueInv, SlotInv, AskInv, PlaceInv, Held, Commands
<1>6. AnswerInv'
  BY DEF AnswerInv, AskInv, QueueInv, Unanswered
<1>7. OwnerInv'
  BY DEF OwnerInv, SlotInv, AskInv, PlaceInv, QueueInv, Held, AtWork
<1> QED  BY <1>1, <1>2, <1>3, <1>4, <1>5, <1>6, <1>7

(* Nobody gave the slot up in time.                                         *)
LEMMA PreemptTimeoutInv ==
  ASSUME IInv, NEW c \in Conns, PreemptTimeout(c)
  PROVE  IInv'
<1>0. want[c] \in Requests /\ from[want[c]] = c /\ phase[want[c]] = "asked"
     /\ slot # want[c] /\ answers[want[c]] = 0
  BY Asking DEF PreemptTimeout
<1>1. CASE Refuse(c)
  <2> USE BrokerAssumption, RequestsAssumption, NoConnAssumption, NoProfileAssumption
       DEF IInv, TypeOK, Workers, loops, turns, app, workers, PreemptTimeout, Refuse,
       Answer, Goto
  <2>1. TypeOK'
    BY <1>1, <1>0 DEF Places, Phases, States, Commands
  <2>2. SlotInv'
    BY <1>1, <1>0 DEF SlotInv, AskInv, QueueInv, Held
  <2>3. AskInv'
    BY <1>1, <1>0 DEF AskInv, SlotInv, QueueInv, Held
  <2>4. PlaceInv'
    BY <1>1, <1>0 DEF PlaceInv, SlotInv, AskInv, QueueInv, Held
  <2>5. QueueInv'
    BY <1>1, <1>0 DEF QueueInv, SlotInv, AskInv, PlaceInv, Held, Commands
  <2>6. AnswerInv'
    BY <1>1, <1>0 DEF AnswerInv, AskInv, QueueInv, Unanswered
  <2>7. OwnerInv'
    BY <1>1, <1>0 DEF OwnerInv, SlotInv, AskInv, PlaceInv, QueueInv, Held, AtWork
  <2> QED  BY <2>1, <2>2, <2>3, <2>4, <2>5, <2>6, <2>7
<1> QED  BY <1>1 DEF PreemptTimeout

(* The slot was taken meanwhile.                                            *)
LEMMA ClaimBusyInv ==
  ASSUME IInv, NEW c \in Conns, ClaimBusy(c)
  PROVE  IInv'
<1>0. want[c] \in Requests /\ from[want[c]] = c /\ phase[want[c]] = "asked"
     /\ slot # want[c] /\ answers[want[c]] = 0
  BY Asking DEF ClaimBusy
<1>1. CASE Goto(c, "start") /\ UNCHANGED <<want, owned, turns>>
  <2> USE BrokerAssumption, RequestsAssumption, NoConnAssumption, NoProfileAssumption
       DEF IInv, TypeOK, Workers, loops, turns, app, workers, ClaimBusy, Goto
  <2>1. TypeOK'
    BY <1>1, <1>0 DEF Places, Phases, States, Commands
  <2>2. SlotInv'
    BY <1>1, <1>0 DEF SlotInv, AskInv, QueueInv, Held
  <2>3. AskInv'
    BY <1>1, <1>0 DEF AskInv, SlotInv, QueueInv, Held
  <2>4. PlaceInv'
    BY <1>1, <1>0 DEF PlaceInv, SlotInv, AskInv, QueueInv, Held
  <2>5. QueueInv'
    BY <1>1, <1>0 DEF QueueInv, SlotInv, AskInv, PlaceInv, Held, Commands
  <2>6. AnswerInv'
    BY <1>1, <1>0 DEF AnswerInv, AskInv, QueueInv, Unanswered
  <2>7. OwnerInv'
    BY <1>1, <1>0 DEF OwnerInv, SlotInv, AskInv, PlaceInv, QueueInv, Held, AtWork
  <2> QED  BY <2>1, <2>2, <2>3, <2>4, <2>5, <2>6, <2>7
<1>2. CASE Refuse(c)
  <2> USE BrokerAssumption, RequestsAssumption, NoConnAssumption, NoProfileAssumption
       DEF IInv, TypeOK, Workers, loops, turns, app, workers, ClaimBusy, Refuse, Answer,
       Goto
  <2>1. TypeOK'
    BY <1>2, <1>0 DEF Places, Phases, States, Commands
  <2>2. SlotInv'
    BY <1>2, <1>0 DEF SlotInv, AskInv, QueueInv, Held
  <2>3. AskInv'
    BY <1>2, <1>0 DEF AskInv, SlotInv, QueueInv, Held
  <2>4. PlaceInv'
    BY <1>2, <1>0 DEF PlaceInv, SlotInv, AskInv, QueueInv, Held
  <2>5. QueueInv'
    BY <1>2, <1>0 DEF QueueInv, SlotInv, AskInv, PlaceInv, Held, Commands
  <2>6. AnswerInv'
    BY <1>2, <1>0 DEF AnswerInv, AskInv, QueueInv, Unanswered
  <2>7. OwnerInv'
    BY <1>2, <1>0 DEF OwnerInv, SlotInv, AskInv, PlaceInv, QueueInv, Held, AtWork
  <2> QED  BY <2>1, <2>2, <2>3, <2>4, <2>5, <2>6, <2>7
<1> QED  BY <1>1, <1>2 DEF ClaimBusy

(* The free slot and the resident worker are taken.                         *)
LEMMA ClaimResidentInv ==
  ASSUME IInv, NEW c \in Conns, ClaimResident(c)
  PROVE  IInv'
<1>0. want[c] \in Requests /\ from[want[c]] = c /\ phase[want[c]] = "asked"
     /\ slot # want[c] /\ answers[want[c]] = 0
  BY Asking DEF ClaimResident, MayClaim
<1> USE BrokerAssumption, RequestsAssumption, NoConnAssumption, NoProfileAssumption DEF
     IInv, TypeOK, Workers, loops, turns, app, workers, ClaimResident, MayClaim, Take,
     Fits, Goto
<1>1. TypeOK'
  BY <1>0 DEF Places, Phases, States, Commands
<1>2. SlotInv'
  BY <1>0 DEF SlotInv, AskInv, QueueInv, Held
<1>3. AskInv'
  BY <1>0 DEF AskInv, SlotInv, QueueInv, Held
<1>4. PlaceInv'
  BY <1>0 DEF PlaceInv, SlotInv, AskInv, QueueInv, Held
<1>5. QueueInv'
  BY <1>0 DEF QueueInv, SlotInv, AskInv, PlaceInv, Held, Commands
<1>6. AnswerInv'
  BY <1>0 DEF AnswerInv, AskInv, QueueInv, Unanswered
<1>7. OwnerInv'
  BY <1>0 DEF OwnerInv, SlotInv, AskInv, PlaceInv, QueueInv, Held, AtWork
<1> QED  BY <1>1, <1>2, <1>3, <1>4, <1>5, <1>6, <1>7

(* A new worker, or none, takes the place of an unfit one.                   *)
LEMMA ClaimFreshInv ==
  ASSUME IInv, NEW c \in Conns, ClaimFresh(c)
  PROVE  IInv'
<1>0. want[c] \in Requests /\ from[want[c]] = c /\ phase[want[c]] = "asked"
     /\ slot # want[c] /\ answers[want[c]] = 0
  BY Asking DEF ClaimFresh, MayClaim
<1>1. CASE /\ spawned < MaxWorkers /\ spawned' = spawned + 1
          /\ state' = [state EXCEPT ![spawned + 1] = "idle"]
          /\ made' = [made EXCEPT ![spawned + 1] = Wants[want[c]]]
          /\ Take(c, spawned + 1)
  <2> USE BrokerAssumption, RequestsAssumption, NoConnAssumption, NoProfileAssumption
       DEF IInv, TypeOK, Workers, loops, turns, app, workers, ClaimFresh, MayClaim,
       Take, Goto
  <2>q. queue' \in [Workers -> Seq(Commands)]
    BY <1>1, <1>0, SendAppends DEF Commands, ShutDown, Send
  <2>t. phase' \in [Requests -> Phases] /\ from' \in [Requests -> Conns \cup {NoConn}]
         /\ at' \in [Requests -> 0..MaxWorkers] /\ cancel' \in [Requests -> BOOLEAN]
    BY <1>1, <1>0 DEF Phases
  <2>a. answers' \in [Requests -> Nat]
    BY <1>1, <1>0
  <2>l. pc' \in [Conns -> Places] /\ want' \in [Conns -> Requests \cup {NoTurn}]
         /\ owned' \in [Conns -> Requests \cup {NoTurn}]
    BY <1>1, <1>0 DEF Places
  <2>w. state' \in [Workers -> States] /\ spawned' \in 0..MaxWorkers
         /\ made' \in [Workers -> Profiles \cup {NoProfile}]
    BY <1>1, <1>0 DEF States
  <2>g. principals' \in [Principals -> Nat]
    BY <1>1, <1>0
  <2>o. ops' \in 0..MaxOps
    BY <1>1, <1>0
  <2>p. slot' \in Requests \cup {NoTurn} /\ profile' \in Profiles \cup {NoProfile}
         /\ current' \in 0..MaxWorkers
         /\ lock' \in Conns \cup {NoConn}
    BY <1>1, <1>0
  <2>1. TypeOK'
    BY <2>q, <2>t, <2>a, <2>l, <2>w, <2>g, <2>o, <2>p DEF TypeOK
  <2>2. SlotInv'
    BY <1>1, <1>0 DEF SlotInv, AskInv, QueueInv, Held
  <2>3. AskInv'
    BY <1>1, <1>0 DEF AskInv, SlotInv, QueueInv, Held
  <2>4. PlaceInv'
    BY <1>1, <1>0 DEF PlaceInv, SlotInv, AskInv, QueueInv, Held
  <2>5. QueueInv'
    <3> SUFFICES ASSUME NEW v \in Workers, NEW k \in DOMAIN queue'[v], queue'[v][k] \in Requests
                 PROVE  /\ phase'[queue'[v][k]] = "sent"
                        /\ at'[queue'[v][k]] = v
                        /\ \A m \in DOMAIN queue'[v] : queue'[v][m] = queue'[v][k] => k = m
        BY DEF QueueInv
    <3>1. \A m \in DOMAIN queue'[v] : queue'[v][m] \in Requests =>
              m \in DOMAIN queue[v] /\ queue'[v][m] = queue[v][m]
      BY <1>1, <1>0, ShutDownKeeps DEF ClaimFresh
    <3>2. queue[v][k] # want[c]
      BY <1>1, <1>0, <3>1 DEF QueueInv
    <3> QED
      BY <1>1, <1>0, <3>1, <3>2 DEF QueueInv
  <2>6. AnswerInv'
    BY <1>1, <1>0 DEF AnswerInv, AskInv, QueueInv, Unanswered
  <2>7. OwnerInv'
    BY <1>1, <1>0 DEF OwnerInv, SlotInv, AskInv, PlaceInv, QueueInv, Held, AtWork
  <2> QED  BY <2>1, <2>2, <2>3, <2>4, <2>5, <2>6, <2>7
<1>2. CASE /\ current' = 0 /\ Refuse(c)
          /\ UNCHANGED <<slot, profile, spawned, state, made>>
  <2> USE BrokerAssumption, RequestsAssumption, NoConnAssumption, NoProfileAssumption
       DEF IInv, TypeOK, Workers, loops, turns, app, workers, ClaimFresh, MayClaim,
       Refuse, Answer, Goto
  <2>q. queue' \in [Workers -> Seq(Commands)]
    BY <1>2, <1>0, SendAppends DEF Commands, ShutDown, Send
  <2>t. phase' \in [Requests -> Phases] /\ from' \in [Requests -> Conns \cup {NoConn}]
         /\ at' \in [Requests -> 0..MaxWorkers] /\ cancel' \in [Requests -> BOOLEAN]
    BY <1>2, <1>0 DEF Phases
  <2>a. answers' \in [Requests -> Nat]
    BY <1>2, <1>0
  <2>l. pc' \in [Conns -> Places] /\ want' \in [Conns -> Requests \cup {NoTurn}]
         /\ owned' \in [Conns -> Requests \cup {NoTurn}]
    BY <1>2, <1>0 DEF Places
  <2>w. state' \in [Workers -> States] /\ spawned' \in 0..MaxWorkers
         /\ made' \in [Workers -> Profiles \cup {NoProfile}]
    BY <1>2, <1>0 DEF States
  <2>g. principals' \in [Principals -> Nat]
    BY <1>2, <1>0
  <2>o. ops' \in 0..MaxOps
    BY <1>2, <1>0
  <2>p. slot' \in Requests \cup {NoTurn} /\ profile' \in Profiles \cup {NoProfile}
         /\ current' \in 0..MaxWorkers
         /\ lock' \in Conns \cup {NoConn}
    BY <1>2, <1>0
  <2>1. TypeOK'
    BY <2>q, <2>t, <2>a, <2>l, <2>w, <2>g, <2>o, <2>p DEF TypeOK
  <2>2. SlotInv'
    BY <1>2, <1>0 DEF SlotInv, AskInv, QueueInv, Held
  <2>3. AskInv'
    BY <1>2, <1>0 DEF AskInv, SlotInv, QueueInv, Held
  <2>4. PlaceInv'
    BY <1>2, <1>0 DEF PlaceInv, SlotInv, AskInv, QueueInv, Held
  <2>5. QueueInv'
    <3> SUFFICES ASSUME NEW v \in Workers, NEW k \in DOMAIN queue'[v], queue'[v][k] \in Requests
                 PROVE  /\ phase'[queue'[v][k]] = "sent"
                        /\ at'[queue'[v][k]] = v
                        /\ \A m \in DOMAIN queue'[v] : queue'[v][m] = queue'[v][k] => k = m
        BY DEF QueueInv
    <3>1. \A m \in DOMAIN queue'[v] : queue'[v][m] \in Requests =>
              m \in DOMAIN queue[v] /\ queue'[v][m] = queue[v][m]
      BY <1>2, <1>0, ShutDownKeeps DEF ClaimFresh
    <3>2. queue[v][k] # want[c]
      <4>1. k \in DOMAIN queue[v] /\ queue[v][k] \in Requests
        BY <3>1
      <4>2. phase[queue[v][k]] = "sent"
        BY <4>1 DEF QueueInv
      <4> QED  BY <4>2, <1>0
    <3> QED
      BY <1>2, <1>0, <3>1, <3>2 DEF QueueInv
  <2>6. AnswerInv'
    BY <1>2, <1>0 DEF AnswerInv, AskInv, QueueInv, Unanswered
  <2>7. OwnerInv'
    BY <1>2, <1>0 DEF OwnerInv, SlotInv, AskInv, PlaceInv, QueueInv, Held, AtWork
  <2> QED  BY <2>1, <2>2, <2>3, <2>4, <2>5, <2>6, <2>7
<1> QED  BY <1>1, <1>2 DEF ClaimFresh

(* It is nowhere in the channels yet, so that it is there once.             *)
LEMMA OwnQueue ==
  ASSUME QueueInv, queue \in [Workers -> Seq(Commands)],
         NEW r \in Requests, NEW w \in Workers, phase[r] = "claimed", at[r] = w,
         queue' = Send(w, r), at' = at, phase'[r] = "sent",
         \A q \in Requests : q # r => phase'[q] = phase[q]
  PROVE  QueueInv'
<1>1. r \in Commands
  BY DEF Commands
<1>2. \A v \in Workers : \A k \in DOMAIN queue'[v] :
        \/ k \in DOMAIN queue[v] /\ queue'[v][k] = queue[v][k]
        \/ v = w /\ k = Len(queue[w]) + 1 /\ queue'[v][k] = r
  BY <1>1, SendAppends
<1>3. \A v \in Workers : \A k \in DOMAIN queue[v] : queue[v][k] # r
  BY DEF QueueInv
<1> SUFFICES ASSUME NEW v \in Workers, NEW k \in DOMAIN queue'[v], queue'[v][k] \in Requests
             PROVE  /\ phase'[queue'[v][k]] = "sent"
                    /\ at'[queue'[v][k]] = v
                    /\ \A m \in DOMAIN queue'[v] : queue'[v][m] = queue'[v][k] => k = m
  BY DEF QueueInv
<1>4. CASE queue'[v][k] = r
  <2>1. \A m \in DOMAIN queue'[v] :
          queue'[v][m] = r => v = w /\ m = Len(queue[w]) + 1
    BY <1>2, <1>3
  <2> QED  BY <1>4, <2>1
<1>5. CASE queue'[v][k] # r
  <2>1. k \in DOMAIN queue[v] /\ queue'[v][k] = queue[v][k]
    BY <1>2, <1>5
  <2>2. \A m \in DOMAIN queue'[v] : queue'[v][m] = queue'[v][k] =>
          m \in DOMAIN queue[v] /\ queue[v][m] = queue[v][k]
    BY <1>2, <1>5, <2>1
  <2> QED  BY <1>5, <2>1, <2>2 DEF QueueInv
<1> QED  BY <1>4, <1>5

(* The turn enters the channel of the worker it was claimed with, or fails. *)
LEMMA OwnInv ==
  ASSUME IInv, NEW c \in Conns, Own(c)
  PROVE  IInv'
<1>0. want[c] \in Requests /\ from[want[c]] = c /\ phase[want[c]] = "claimed"
     /\ slot = want[c] /\ at[want[c]] = current /\ current \in Workers
     /\ made[current] = Wants[want[c]] /\ answers[want[c]] = 0
  BY Owning DEF Own
<1>1. CASE state[at[want[c]]] = "gone"
  <2> USE BrokerAssumption, RequestsAssumption, NoConnAssumption, NoProfileAssumption
       DEF IInv, TypeOK, Workers, loops, turns, app, workers, Own, Answer, Goto
  <2>q. queue' \in [Workers -> Seq(Commands)]
    BY <1>1, <1>0, SendAppends DEF Commands
  <2>t. phase' \in [Requests -> Phases] /\ from' \in [Requests -> Conns \cup {NoConn}]
         /\ at' \in [Requests -> 0..MaxWorkers] /\ cancel' \in [Requests -> BOOLEAN]
    BY <1>1, <1>0 DEF Phases
  <2>n. answers' = [answers EXCEPT ![want[c]] = 1]
    BY <1>1, <1>0
  <2>a. answers' \in [Requests -> Nat]
    BY <1>1, <1>0, <2>n
  <2>l. pc' \in [Conns -> Places] /\ want' \in [Conns -> Requests \cup {NoTurn}]
         /\ owned' \in [Conns -> Requests \cup {NoTurn}]
    BY <1>1, <1>0 DEF Places
  <2>w. state' \in [Workers -> States] /\ spawned' \in 0..MaxWorkers
         /\ made' \in [Workers -> Profiles \cup {NoProfile}]
    BY <1>1, <1>0 DEF States
  <2>g. principals' \in [Principals -> Nat]
    BY <1>1, <1>0
  <2>o. ops' \in 0..MaxOps
    BY <1>1, <1>0
  <2>p. slot' \in Requests \cup {NoTurn} /\ profile' \in Profiles \cup {NoProfile}
         /\ current' \in 0..MaxWorkers
         /\ lock' \in Conns \cup {NoConn}
    BY <1>1, <1>0
  <2>1. TypeOK'
    BY <2>q, <2>t, <2>a, <2>l, <2>w, <2>g, <2>o, <2>p DEF TypeOK
  <2>2. SlotInv'
    BY <1>1, <1>0 DEF SlotInv, AskInv, QueueInv, Held
  <2>3. AskInv'
    BY <1>1, <1>0 DEF AskInv, SlotInv, QueueInv, Held
  <2>4. PlaceInv'
    BY <1>1, <1>0 DEF PlaceInv, SlotInv, AskInv, QueueInv, Held
  <2>5. QueueInv'
    BY <1>1, <1>0 DEF QueueInv, SlotInv, AskInv, PlaceInv, Held, Commands, Send
  <2>6. AnswerInv'
    BY <1>1, <1>0 DEF AnswerInv, AskInv, QueueInv, Unanswered
  <2>7. OwnerInv'
    BY <1>1, <1>0 DEF OwnerInv, SlotInv, AskInv, PlaceInv, QueueInv, Held, AtWork
  <2> QED  BY <2>1, <2>2, <2>3, <2>4, <2>5, <2>6, <2>7
<1>2. CASE state[at[want[c]]] # "gone"
  <2> USE BrokerAssumption, RequestsAssumption, NoConnAssumption, NoProfileAssumption
       DEF IInv, TypeOK, Workers, loops, turns, app, workers, Own, Answer, Goto
  <2>q. queue' \in [Workers -> Seq(Commands)]
    BY <1>2, <1>0, SendAppends DEF Commands
  <2>t. phase' \in [Requests -> Phases] /\ from' \in [Requests -> Conns \cup {NoConn}]
         /\ at' \in [Requests -> 0..MaxWorkers] /\ cancel' \in [Requests -> BOOLEAN]
    BY <1>2, <1>0 DEF Phases
  <2>a. answers' \in [Requests -> Nat]
    BY <1>2, <1>0
  <2>l. pc' \in [Conns -> Places] /\ want' \in [Conns -> Requests \cup {NoTurn}]
         /\ owned' \in [Conns -> Requests \cup {NoTurn}]
    BY <1>2, <1>0 DEF Places
  <2>w. state' \in [Workers -> States] /\ spawned' \in 0..MaxWorkers
         /\ made' \in [Workers -> Profiles \cup {NoProfile}]
    BY <1>2, <1>0 DEF States
  <2>g. principals' \in [Principals -> Nat]
    BY <1>2, <1>0
  <2>o. ops' \in 0..MaxOps
    BY <1>2, <1>0
  <2>p. slot' \in Requests \cup {NoTurn} /\ profile' \in Profiles \cup {NoProfile}
         /\ current' \in 0..MaxWorkers
         /\ lock' \in Conns \cup {NoConn}
    BY <1>2, <1>0
  <2>1. TypeOK'
    BY <2>q, <2>t, <2>a, <2>l, <2>w, <2>g, <2>o, <2>p DEF TypeOK
  <2>2. SlotInv'
    BY <1>2, <1>0 DEF SlotInv, AskInv, QueueInv, Held
  <2>3. AskInv'
    BY <1>2, <1>0 DEF AskInv, SlotInv, QueueInv, Held
  <2>4. PlaceInv'
    BY <1>2, <1>0 DEF PlaceInv, SlotInv, AskInv, QueueInv, Held
  <2>5. QueueInv'
    <3>1. queue' = Send(at[want[c]], want[c]) /\ at' = at
      BY <1>2
    <3>2. /\ phase'[want[c]] = "sent"
          /\ \A q \in Requests : q # want[c] => phase'[q] = phase[q]
      BY <1>2, <1>0
    <3>3. QueueInv /\ queue \in [Workers -> Seq(Commands)]
      OBVIOUS
    <3> QED  BY <1>0, <3>1, <3>2, <3>3, OwnQueue
  <2>6. AnswerInv'
    BY <1>2, <1>0 DEF AnswerInv, AskInv, QueueInv, Unanswered
  <2>7. OwnerInv'
    BY <1>2, <1>0 DEF OwnerInv, SlotInv, AskInv, PlaceInv, QueueInv, Held, AtWork
  <2> QED  BY <2>1, <2>2, <2>3, <2>4, <2>5, <2>6, <2>7
<1> QED  BY <1>1, <1>2 DEF Own

(* The slot is given back by the turn that held it.                         *)
LEMMA FinishInv ==
  ASSUME IInv, NEW r \in Requests, Finish(r)
  PROVE  IInv'
<1> USE BrokerAssumption, RequestsAssumption, NoConnAssumption, NoProfileAssumption DEF
     IInv, TypeOK, Workers, loops, turns, app, workers, Finish
<1>1. TypeOK'
  BY DEF Places, Phases, States, Commands
<1>2. SlotInv'
  BY DEF SlotInv, AskInv, QueueInv, Held
<1>3. AskInv'
  BY DEF AskInv, SlotInv, QueueInv, Held
<1>4. PlaceInv'
  BY DEF PlaceInv, SlotInv, AskInv, QueueInv, Held
<1>5. QueueInv'
  BY DEF QueueInv, SlotInv, AskInv, PlaceInv, Held, Commands
<1>6. AnswerInv'
  BY DEF AnswerInv, AskInv, QueueInv, Unanswered
<1>7. OwnerInv'
  BY DEF OwnerInv, SlotInv, AskInv, PlaceInv, QueueInv, Held, AtWork
<1> QED  BY <1>1, <1>2, <1>3, <1>4, <1>5, <1>6, <1>7

(* A finished turn is nobody's any more.                                    *)
LEMMA ClearOwnedTurnInv ==
  ASSUME IInv, NEW r \in Requests, ClearOwnedTurn(r)
  PROVE  IInv'
<1> USE BrokerAssumption, RequestsAssumption, NoConnAssumption, NoProfileAssumption DEF
     IInv, TypeOK, Workers, loops, turns, app, workers, ClearOwnedTurn, Owns
<1>1. TypeOK'
  BY DEF Places, Phases, States, Commands
<1>2. SlotInv'
  BY DEF SlotInv, AskInv, QueueInv, Held
<1>3. AskInv'
  BY DEF AskInv, SlotInv, QueueInv, Held
<1>4. PlaceInv'
  BY DEF PlaceInv, SlotInv, AskInv, QueueInv, Held
<1>5. QueueInv'
  BY DEF QueueInv, SlotInv, AskInv, PlaceInv, Held, Commands
<1>6. AnswerInv'
  BY DEF AnswerInv, AskInv, QueueInv, Unanswered
<1>7. OwnerInv'
  BY DEF OwnerInv, SlotInv, AskInv, PlaceInv, QueueInv, Held, AtWork
<1> QED  BY <1>1, <1>2, <1>3, <1>4, <1>5, <1>6, <1>7

(* Only the flag of the turn in the slot is set.                            *)
LEMMA CancelTurnInv ==
  ASSUME IInv, NEW c \in Conns, NEW r \in Requests, CancelTurn(c, r)
  PROVE  IInv'
<1> USE BrokerAssumption, RequestsAssumption, NoConnAssumption, NoProfileAssumption DEF
     IInv, TypeOK, Workers, loops, turns, app, workers, CancelTurn, ReadsOp, Reads,
     Authorized, Bind, Cancel
<1>1. TypeOK'
  BY DEF Places, Phases, States, Commands
<1>2. SlotInv'
  BY DEF SlotInv, AskInv, QueueInv, Held
<1>3. AskInv'
  BY DEF AskInv, SlotInv, QueueInv, Held
<1>4. PlaceInv'
  BY DEF PlaceInv, SlotInv, AskInv, QueueInv, Held
<1>5. QueueInv'
  BY DEF QueueInv, SlotInv, AskInv, PlaceInv, Held, Commands
<1>6. AnswerInv'
  BY DEF AnswerInv, AskInv, QueueInv, Unanswered
<1>7. OwnerInv'
  BY DEF OwnerInv, SlotInv, AskInv, PlaceInv, QueueInv, Held, AtWork
<1> QED  BY <1>1, <1>2, <1>3, <1>4, <1>5, <1>6, <1>7

(* Without a turn in the slot the worker may go.                            *)
LEMMA ReloadProfileInv ==
  ASSUME IInv, NEW c \in Conns, NEW p \in Profiles \cup {NoProfile}, ReloadProfile(c, p)
  PROVE  IInv'
<1> USE BrokerAssumption, RequestsAssumption, NoConnAssumption, NoProfileAssumption DEF
     IInv, TypeOK, Workers, loops, turns, app, workers, ReloadProfile, Reloads, ReadsOp,
     Reads, Authorized, Bind
<1>q. queue' \in [Workers -> Seq(Commands)]
  BY SendAppends DEF Commands, ShutDown, Send
<1>1. TypeOK'
  BY <1>q DEF Places, Phases, States
<1>2. SlotInv'
  BY DEF SlotInv, AskInv, QueueInv, Held
<1>3. AskInv'
  BY DEF AskInv, SlotInv, QueueInv, Held
<1>4. PlaceInv'
  BY DEF PlaceInv, SlotInv, AskInv, QueueInv, Held
<1>5. QueueInv'
  BY DEF QueueInv, SlotInv, AskInv, PlaceInv, Held, Commands, ShutDown, Send
<1>6. AnswerInv'
  BY DEF AnswerInv, AskInv, QueueInv, Unanswered
<1>7. OwnerInv'
  BY DEF OwnerInv, SlotInv, AskInv, PlaceInv, QueueInv, Held, AtWork
<1> QED  BY <1>1, <1>2, <1>3, <1>4, <1>5, <1>6, <1>7

(* Without a turn in the slot a reset enters the channel.                   *)
LEMMA NewSessionInv ==
  ASSUME IInv, NEW c \in Conns, NewSession(c)
  PROVE  IInv'
<1> USE BrokerAssumption, RequestsAssumption, NoConnAssumption, NoProfileAssumption DEF
     IInv, TypeOK, Workers, loops, turns, app, workers, NewSession, ReadsOp, Reads,
     Authorized, Bind, Goto
<1>q. queue' \in [Workers -> Seq(Commands)]
  BY SendAppends DEF Commands
<1>t. phase' \in [Requests -> Phases] /\ from' \in [Requests -> Conns \cup {NoConn}]
       /\ at' \in [Requests -> 0..MaxWorkers] /\ cancel' \in [Requests -> BOOLEAN]
  BY DEF Phases
<1>a. answers' \in [Requests -> Nat]
  OBVIOUS
<1>l. pc' \in [Conns -> Places] /\ want' \in [Conns -> Requests \cup {NoTurn}]
       /\ owned' \in [Conns -> Requests \cup {NoTurn}]
  BY DEF Places
<1>w. state' \in [Workers -> States] /\ spawned' \in 0..MaxWorkers
       /\ made' \in [Workers -> Profiles \cup {NoProfile}]
  BY DEF States
<1>g. principals' \in [Principals -> Nat]
  OBVIOUS
<1>o. ops' \in 0..MaxOps
  OBVIOUS
<1>p. slot' \in Requests \cup {NoTurn} /\ profile' \in Profiles \cup {NoProfile}
       /\ current' \in 0..MaxWorkers
       /\ lock' \in Conns \cup {NoConn}
  OBVIOUS
<1>1. TypeOK'
  BY <1>q, <1>t, <1>a, <1>l, <1>w, <1>g, <1>o, <1>p DEF TypeOK
<1>2. SlotInv'
  BY DEF SlotInv, AskInv, QueueInv, Held
<1>3. AskInv'
  BY DEF AskInv, SlotInv, QueueInv, Held
<1>4. PlaceInv'
  BY DEF PlaceInv, SlotInv, AskInv, QueueInv, Held
<1>5. QueueInv'
  BY DEF QueueInv, SlotInv, AskInv, PlaceInv, Held, Commands, Send
<1>6. AnswerInv'
  BY DEF AnswerInv, AskInv, QueueInv, Unanswered
<1>7. OwnerInv'
  BY DEF OwnerInv, SlotInv, AskInv, PlaceInv, QueueInv, Held, AtWork
<1> QED  BY <1>1, <1>2, <1>3, <1>4, <1>5, <1>6, <1>7

(* The command that is taken was in the channel once.                       *)
LEMMA NextCommandInv ==
  ASSUME IInv, NEW w \in Workers, NextCommand(w)
  PROVE  IInv'
<1>1. CASE Head(queue[w]) = "shutdown"
  <2> USE BrokerAssumption, RequestsAssumption, NoConnAssumption, NoProfileAssumption
       DEF IInv, TypeOK, Workers, loops, turns, app, workers, NextCommand, Becomes
  <2>q. queue' \in [Workers -> Seq(Commands)]
    BY <1>1, TailShifts DEF Commands
  <2>1. TypeOK'
    <3>1. state' \in [Workers -> States]
      BY <1>1 DEF States
    <3>2. phase' \in [Requests -> Phases]
      BY <1>1 DEF Phases
    <3>3. UNCHANGED <<pc, want, owned, from, at, cancel, answers, slot, profile, current,
                      principals, lock, made, spawned, ops>>
      OBVIOUS
    <3> QED  BY <2>q, <3>1, <3>2, <3>3
  <2>2. SlotInv'
    BY <1>1 DEF SlotInv, AskInv, QueueInv, Held
  <2>3. AskInv'
    BY <1>1 DEF AskInv, SlotInv, QueueInv, Held
  <2>4. PlaceInv'
    BY <1>1 DEF PlaceInv, SlotInv, AskInv, QueueInv, Held
  <2>5. QueueInv'
    <3> SUFFICES ASSUME NEW v \in Workers, NEW k \in DOMAIN queue'[v], queue'[v][k] \in Requests
                 PROVE  /\ phase'[queue'[v][k]] = "sent"
                        /\ at'[queue'[v][k]] = v
                        /\ \A m \in DOMAIN queue'[v] : queue'[v][m] = queue'[v][k] => k = m
        BY DEF QueueInv
    <3>1. queue[w] \in Seq(Commands) /\ queue[w] # <<>>
      OBVIOUS
    <3>2. \A m \in DOMAIN queue'[v] : \E n \in DOMAIN queue[v] :
              /\ queue'[v][m] = queue[v][n]
              /\ n = IF v = w THEN m + 1 ELSE m
              /\ v = w => n # 1
      BY <3>1, TailMoves
    <3>3. queue[w][1] = Head(queue[w]) /\ 1 \in DOMAIN queue[w]
      BY <3>1, TailShifts
    <3>4. PICK n \in DOMAIN queue[v] : /\ queue'[v][k] = queue[v][n]
                                       /\ n = IF v = w THEN k + 1 ELSE k
                                       /\ v = w => n # 1
      BY <3>2
    <3>5. queue[v][n] # Head(queue[w])
      BY <3>3, <3>4 DEF QueueInv
    <3>6. phase'[queue[v][n]] = phase[queue[v][n]] /\ at' = at
      BY <1>1, <3>4, <3>5
    <3>7. ASSUME NEW m \in DOMAIN queue'[v], queue'[v][m] = queue'[v][k]  PROVE k = m
      <4>1. PICK o \in DOMAIN queue[v] : /\ queue'[v][m] = queue[v][o]
                                         /\ o = IF v = w THEN m + 1 ELSE m
        BY <3>2
      <4>2. o = n
        BY <3>4, <3>7, <4>1 DEF QueueInv
      <4>3. queue'[v] \in Seq(Commands)
        BY <2>q
      <4>4. k \in Int /\ m \in Int
        BY <4>3
      <4> QED  BY <3>4, <4>1, <4>2, <4>4
    <3> QED
      BY <3>4, <3>6, <3>7 DEF QueueInv
  <2>6. AnswerInv'
    BY <1>1 DEF AnswerInv, AskInv, QueueInv, Unanswered
  <2>7. OwnerInv'
    BY <1>1 DEF OwnerInv, SlotInv, AskInv, PlaceInv, QueueInv, Held, AtWork
  <2> QED  BY <2>1, <2>2, <2>3, <2>4, <2>5, <2>6, <2>7
<1>2. CASE Head(queue[w]) = "reset"
  <2> USE BrokerAssumption, RequestsAssumption, NoConnAssumption, NoProfileAssumption
       DEF IInv, TypeOK, Workers, loops, turns, app, workers, NextCommand, Becomes
  <2>q. queue' \in [Workers -> Seq(Commands)]
    BY <1>2, TailShifts DEF Commands
  <2>1. TypeOK'
    <3>1. state' \in [Workers -> States]
      BY <1>2 DEF States
    <3>2. phase' \in [Requests -> Phases]
      BY <1>2 DEF Phases
    <3>3. UNCHANGED <<pc, want, owned, from, at, cancel, answers, slot, profile, current,
                      principals, lock, made, spawned, ops>>
      OBVIOUS
    <3> QED  BY <2>q, <3>1, <3>2, <3>3
  <2>2. SlotInv'
    BY <1>2 DEF SlotInv, AskInv, QueueInv, Held
  <2>3. AskInv'
    BY <1>2 DEF AskInv, SlotInv, QueueInv, Held
  <2>4. PlaceInv'
    BY <1>2 DEF PlaceInv, SlotInv, AskInv, QueueInv, Held
  <2>5. QueueInv'
    <3> SUFFICES ASSUME NEW v \in Workers, NEW k \in DOMAIN queue'[v], queue'[v][k] \in Requests
                 PROVE  /\ phase'[queue'[v][k]] = "sent"
                        /\ at'[queue'[v][k]] = v
                        /\ \A m \in DOMAIN queue'[v] : queue'[v][m] = queue'[v][k] => k = m
        BY DEF QueueInv
    <3>1. queue[w] \in Seq(Commands) /\ queue[w] # <<>>
      OBVIOUS
    <3>2. \A m \in DOMAIN queue'[v] : \E n \in DOMAIN queue[v] :
              /\ queue'[v][m] = queue[v][n]
              /\ n = IF v = w THEN m + 1 ELSE m
              /\ v = w => n # 1
      BY <3>1, TailMoves
    <3>3. queue[w][1] = Head(queue[w]) /\ 1 \in DOMAIN queue[w]
      BY <3>1, TailShifts
    <3>4. PICK n \in DOMAIN queue[v] : /\ queue'[v][k] = queue[v][n]
                                       /\ n = IF v = w THEN k + 1 ELSE k
                                       /\ v = w => n # 1
      BY <3>2
    <3>5. queue[v][n] # Head(queue[w])
      BY <3>3, <3>4 DEF QueueInv
    <3>6. phase'[queue[v][n]] = phase[queue[v][n]] /\ at' = at
      BY <1>2, <3>4, <3>5
    <3>7. ASSUME NEW m \in DOMAIN queue'[v], queue'[v][m] = queue'[v][k]  PROVE k = m
      <4>1. PICK o \in DOMAIN queue[v] : /\ queue'[v][m] = queue[v][o]
                                         /\ o = IF v = w THEN m + 1 ELSE m
        BY <3>2
      <4>2. o = n
        BY <3>4, <3>7, <4>1 DEF QueueInv
      <4>3. queue'[v] \in Seq(Commands)
        BY <2>q
      <4>4. k \in Int /\ m \in Int
        BY <4>3
      <4> QED  BY <3>4, <4>1, <4>2, <4>4
    <3> QED
      BY <3>4, <3>6, <3>7 DEF QueueInv
  <2>6. AnswerInv'
    BY <1>2 DEF AnswerInv, AskInv, QueueInv, Unanswered
  <2>7. OwnerInv'
    BY <1>2 DEF OwnerInv, SlotInv, AskInv, PlaceInv, QueueInv, Held, AtWork
  <2> QED  BY <2>1, <2>2, <2>3, <2>4, <2>5, <2>6, <2>7
<1>3. CASE Head(queue[w]) \in Requests
  <2> USE BrokerAssumption, RequestsAssumption, NoConnAssumption, NoProfileAssumption
       DEF IInv, TypeOK, Workers, loops, turns, app, workers, NextCommand, Becomes
  <2>q. queue' \in [Workers -> Seq(Commands)]
    BY <1>3, TailShifts DEF Commands
  <2>h. phase[Head(queue[w])] = "sent" /\ at[Head(queue[w])] = w
    BY <1>3, TailShifts DEF QueueInv, Commands
  <2>1. TypeOK'
    <3>1. state' \in [Workers -> States]
      <4>1. state' = [state EXCEPT ![w] = "turn"]
        BY <1>3
      <4>2. state \in [Workers -> States]
        OBVIOUS
      <4>3. "turn" \in States
        BY DEF States
      <4> HIDE DEF IInv, TypeOK, NextCommand
      <4> QED  BY <4>1, <4>2, <4>3
    <3>2. phase' \in [Requests -> Phases]
      BY <1>3 DEF Phases
    <3>3. UNCHANGED <<pc, want, owned, from, at, cancel, answers, slot, profile, current,
                      principals, lock, made, spawned, ops>>
      OBVIOUS
    <3> QED  BY <2>q, <3>1, <3>2, <3>3
  <2>2. SlotInv'
    BY <1>3, <2>h DEF SlotInv, AskInv, QueueInv, Held
  <2>3. AskInv'
    BY <1>3, <2>h DEF AskInv, SlotInv, QueueInv, Held
  <2>4. PlaceInv'
    <3>1. Head(queue[w]) = slot /\ current = w
      BY <1>3, <2>h DEF PlaceInv, SlotInv, Held
    <3>2. UNCHANGED <<current, spawned, made, profile, slot, at>> /\ state'[w] = "turn"
      BY <1>3
    <3>3. \A r \in Requests : phase'[r] \in Held => r = slot
      BY <2>2, <3>2 DEF SlotInv
    <3>4. phase'[slot] = "running"
      BY <1>3, <3>1
    <3> QED  BY <3>1, <3>2, <3>3, <3>4 DEF PlaceInv, Held
  <2>5. QueueInv'
    <3> SUFFICES ASSUME NEW v \in Workers, NEW k \in DOMAIN queue'[v], queue'[v][k] \in Requests
                 PROVE  /\ phase'[queue'[v][k]] = "sent"
                        /\ at'[queue'[v][k]] = v
                        /\ \A m \in DOMAIN queue'[v] : queue'[v][m] = queue'[v][k] => k = m
        BY DEF QueueInv
    <3>1. queue[w] \in Seq(Commands) /\ queue[w] # <<>>
      OBVIOUS
    <3>2. \A m \in DOMAIN queue'[v] : \E n \in DOMAIN queue[v] :
              /\ queue'[v][m] = queue[v][n]
              /\ n = IF v = w THEN m + 1 ELSE m
              /\ v = w => n # 1
      BY <3>1, TailMoves
    <3>3. queue[w][1] = Head(queue[w]) /\ 1 \in DOMAIN queue[w]
      BY <3>1, TailShifts
    <3>4. PICK n \in DOMAIN queue[v] : /\ queue'[v][k] = queue[v][n]
                                       /\ n = IF v = w THEN k + 1 ELSE k
                                       /\ v = w => n # 1
      BY <3>2
    <3>5. queue[v][n] # Head(queue[w])
      BY <3>3, <3>4 DEF QueueInv
    <3>6. phase'[queue[v][n]] = phase[queue[v][n]] /\ at' = at
      BY <1>3, <3>4, <3>5
    <3>7. ASSUME NEW m \in DOMAIN queue'[v], queue'[v][m] = queue'[v][k]  PROVE k = m
      <4>1. PICK o \in DOMAIN queue[v] : /\ queue'[v][m] = queue[v][o]
                                         /\ o = IF v = w THEN m + 1 ELSE m
        BY <3>2
      <4>2. o = n
        BY <3>4, <3>7, <4>1 DEF QueueInv
      <4>3. queue'[v] \in Seq(Commands)
        BY <2>q
      <4>4. k \in Int /\ m \in Int
        BY <4>3
      <4> QED  BY <3>4, <4>1, <4>2, <4>4
    <3> QED
      BY <3>4, <3>6, <3>7 DEF QueueInv
  <2>6. AnswerInv'
    BY <1>3, <2>h DEF AnswerInv, AskInv, QueueInv, Unanswered
  <2>7. OwnerInv'
    BY <1>3, <2>h DEF OwnerInv, SlotInv, AskInv, PlaceInv, QueueInv, Held, AtWork
  <2> QED  BY <2>1, <2>2, <2>3, <2>4, <2>5, <2>6, <2>7
<1> QED  BY <1>1, <1>2, <1>3 DEF NextCommand, IInv, TypeOK, Commands

(* The end of a turn at its worker, however it comes.                       *)
LEMMA EndsInv ==
  ASSUME IInv, NEW w \in Workers, NEW r \in Requests, NEW how \in {"running", "aborting"},
         NEW next \in {"idle", "dying"}, Runs(w, r, how), TurnOver(w, r, next)
  PROVE  IInv'
<1> USE BrokerAssumption, RequestsAssumption, NoConnAssumption, NoProfileAssumption DEF
     IInv, TypeOK, Workers, loops, turns, app, workers, Runs, TurnOver, Answer, Becomes
<1>1. TypeOK'
  BY DEF Places, Phases, States, Commands
<1>2. SlotInv'
  BY DEF SlotInv, AskInv, QueueInv, Held
<1>3. AskInv'
  BY DEF AskInv, SlotInv, QueueInv, Held
<1>4. PlaceInv'
  BY DEF PlaceInv, SlotInv, AskInv, QueueInv, Held
<1>5. QueueInv'
  BY DEF QueueInv, SlotInv, AskInv, PlaceInv, Held, Commands
<1>6. AnswerInv'
  BY DEF AnswerInv, AskInv, QueueInv, Unanswered
<1>7. OwnerInv'
  BY DEF OwnerInv, SlotInv, AskInv, PlaceInv, QueueInv, Held, AtWork
<1> QED  BY <1>1, <1>2, <1>3, <1>4, <1>5, <1>6, <1>7

(* The turn stays where it is.                                              *)
LEMMA SeeCancelInv ==
  ASSUME IInv, NEW w \in Workers, NEW r \in Requests, SeeCancel(w, r)
  PROVE  IInv'
<1> USE BrokerAssumption, RequestsAssumption, NoConnAssumption, NoProfileAssumption DEF
     IInv, TypeOK, Workers, loops, turns, app, workers, SeeCancel, Runs
<1>1. TypeOK'
  BY DEF Places, Phases, States, Commands
<1>2. SlotInv'
  BY DEF SlotInv, AskInv, QueueInv, Held
<1>3. AskInv'
  BY DEF AskInv, SlotInv, QueueInv, Held
<1>4. PlaceInv'
  BY DEF PlaceInv, SlotInv, AskInv, QueueInv, Held
<1>5. QueueInv'
  BY DEF QueueInv, SlotInv, AskInv, PlaceInv, Held, Commands
<1>6. AnswerInv'
  BY DEF AnswerInv, AskInv, QueueInv, Unanswered
<1>7. OwnerInv'
  BY DEF OwnerInv, SlotInv, AskInv, PlaceInv, QueueInv, Held, AtWork
<1> QED  BY <1>1, <1>2, <1>3, <1>4, <1>5, <1>6, <1>7

(* No turn is at a worker that resets.                                      *)
LEMMA ResetDoneInv ==
  ASSUME IInv, NEW w \in Workers, NEW next \in {"idle", "dying"}, ResetDone(w, next)
  PROVE  IInv'
<1> USE BrokerAssumption, RequestsAssumption, NoConnAssumption, NoProfileAssumption DEF
     IInv, TypeOK, Workers, loops, turns, app, workers, ResetDone, ResetAnswered,
     Becomes
<1>1. TypeOK'
  BY DEF Places, Phases, States, Commands
<1>2. SlotInv'
  BY DEF SlotInv, AskInv, QueueInv, Held
<1>3. AskInv'
  BY DEF AskInv, SlotInv, QueueInv, Held
<1>4. PlaceInv'
  BY DEF PlaceInv, SlotInv, AskInv, QueueInv, Held
<1>5. QueueInv'
  BY DEF QueueInv, SlotInv, AskInv, PlaceInv, Held, Commands
<1>6. AnswerInv'
  BY DEF AnswerInv, AskInv, QueueInv, Unanswered
<1>7. OwnerInv'
  BY DEF OwnerInv, SlotInv, AskInv, PlaceInv, QueueInv, Held, AtWork
<1> QED  BY <1>1, <1>2, <1>3, <1>4, <1>5, <1>6, <1>7

(* A worker that dies reports what is still queued.                         *)
LEMMA ChannelClosesInv ==
  ASSUME IInv, NEW w \in Workers, ChannelCloses(w)
  PROVE  IInv'
<1> USE BrokerAssumption, RequestsAssumption, NoConnAssumption, NoProfileAssumption DEF
     IInv, TypeOK, Workers, loops, turns, app, workers, ChannelCloses, Dropped,
     ResetAnswered, Becomes
<1>1. TypeOK'
  <2>1. pc' \in [Conns -> Places] /\ lock' \in Conns \cup {NoConn}
    BY DEF Places
  <2>2. phase' \in [Requests -> Phases]
    BY DEF Phases
  <2>3. answers' \in [Requests -> Nat]
    OBVIOUS
  <2>4. state' \in [Workers -> States]
    BY DEF States
  <2>5. queue' \in [Workers -> Seq(Commands)]
    OBVIOUS
  <2>6. UNCHANGED <<want, owned, from, at, cancel, slot, profile, current,
                    principals, made, spawned, ops>>
    OBVIOUS
  <2> QED  BY <2>1, <2>2, <2>3, <2>4, <2>5, <2>6
<1>2. SlotInv'
  BY DEF SlotInv, AskInv, QueueInv, Held
<1>3. AskInv'
  BY DEF AskInv, SlotInv, QueueInv, Held
<1>4. PlaceInv'
  BY DEF PlaceInv, SlotInv, AskInv, QueueInv, Held
<1>5. QueueInv'
  BY DEF QueueInv, SlotInv, AskInv, PlaceInv, Held, Commands
<1>6. AnswerInv'
  BY DEF AnswerInv, AskInv, QueueInv, Unanswered
<1>7. OwnerInv'
  BY DEF OwnerInv, SlotInv, AskInv, PlaceInv, QueueInv, Held, AtWork
<1> QED  BY <1>1, <1>2, <1>3, <1>4, <1>5, <1>6, <1>7

(* The owned turn is cancelled.                                             *)
LEMMA DisconnectInv ==
  ASSUME IInv, NEW c \in Conns, Disconnect(c)
  PROVE  IInv'
<1> USE BrokerAssumption, RequestsAssumption, NoConnAssumption, NoProfileAssumption DEF
     IInv, TypeOK, Workers, loops, turns, app, workers, Disconnect, Cancel, Closes, Goto
<1>1. TypeOK'
  BY DEF Places, Phases, States, Commands
<1>2. SlotInv'
  BY DEF SlotInv, AskInv, QueueInv, Held
<1>3. AskInv'
  BY DEF AskInv, SlotInv, QueueInv, Held
<1>4. PlaceInv'
  BY DEF PlaceInv, SlotInv, AskInv, QueueInv, Held
<1>5. QueueInv'
  BY DEF QueueInv, SlotInv, AskInv, PlaceInv, Held, Commands
<1>6. AnswerInv'
  BY DEF AnswerInv, AskInv, QueueInv, Unanswered
<1>7. OwnerInv'
  BY DEF OwnerInv, SlotInv, AskInv, PlaceInv, QueueInv, Held, AtWork
<1> QED  BY <1>1, <1>2, <1>3, <1>4, <1>5, <1>6, <1>7

(* The connection is gone with all it owned.                                *)
LEMMA ReadFailsInv ==
  ASSUME IInv, NEW c \in Conns, ReadFails(c)
  PROVE  IInv'
<1> USE BrokerAssumption, RequestsAssumption, NoConnAssumption, NoProfileAssumption DEF
     IInv, TypeOK, Workers, loops, turns, app, workers, ReadFails, Closes, Goto
<1>1. TypeOK'
  BY DEF Places, Phases, States, Commands
<1>2. SlotInv'
  BY DEF SlotInv, AskInv, QueueInv, Held
<1>3. AskInv'
  BY DEF AskInv, SlotInv, QueueInv, Held
<1>4. PlaceInv'
  BY DEF PlaceInv, SlotInv, AskInv, QueueInv, Held
<1>5. QueueInv'
  BY DEF QueueInv, SlotInv, AskInv, PlaceInv, Held, Commands
<1>6. AnswerInv'
  BY DEF AnswerInv, AskInv, QueueInv, Unanswered
<1>7. OwnerInv'
  BY DEF OwnerInv, SlotInv, AskInv, PlaceInv, QueueInv, Held, AtWork
<1> QED  BY <1>1, <1>2, <1>3, <1>4, <1>5, <1>6, <1>7

(* Everything starts again from nothing.                                    *)
LEMMA IdleExitInv ==
  ASSUME IInv, IdleExit
  PROVE  IInv'
<1> USE BrokerAssumption, RequestsAssumption, NoConnAssumption, NoProfileAssumption DEF
     IInv, TypeOK, Workers, loops, turns, app, workers, IdleExit, Settling, Closed
<1>1. TypeOK'
  BY DEF Places, Phases, States, Commands
<1>2. SlotInv'
  BY DEF SlotInv, AskInv, QueueInv, Held
<1>3. AskInv'
  BY DEF AskInv, SlotInv, QueueInv, Held
<1>4. PlaceInv'
  BY DEF PlaceInv, SlotInv, AskInv, QueueInv, Held
<1>5. QueueInv'
  BY DEF QueueInv, SlotInv, AskInv, PlaceInv, Held, Commands
<1>6. AnswerInv'
  BY DEF AnswerInv, AskInv, QueueInv, Unanswered
<1>7. OwnerInv'
  BY DEF OwnerInv, SlotInv, AskInv, PlaceInv, QueueInv, Held, AtWork
<1> QED  BY <1>1, <1>2, <1>3, <1>4, <1>5, <1>6, <1>7

(* The invariant holds initially.                                           *)
LEMMA InitInv == Init => IInv
  BY BrokerAssumption, RequestsAssumption
  DEF Init, IInv, TypeOK, Places, Phases, States, Commands, Workers, SlotInv, AskInv,
      PlaceInv, QueueInv, AnswerInv, OwnerInv, Held, AtWork

(* It depends on nothing else.                                              *)
LEMMA StutterInv == IInv /\ UNCHANGED vars => IInv'
  BY DEF IInv, TypeOK, SlotInv, AskInv, PlaceInv, QueueInv, AnswerInv, OwnerInv, AtWork,
         vars, loops, turns, app, workers

(* Every step of the broker preserves the invariant.                        *)
LEMMA NextInv == IInv /\ [Next]_vars => IInv'
<1> SUFFICES ASSUME IInv, [Next]_vars PROVE IInv'
    OBVIOUS
<1>1. ASSUME NEW c \in Conns, Client(c) PROVE IInv'
  BY <1>1, ConnectInv, StatusInv, NewSessionInv, DisconnectInv, ReadFailsInv,
     StartTurnInv, CancelTurnInv, ReloadProfileInv DEF Client
<1>2. ASSUME NEW c \in Conns, Serve(c) PROVE IInv'
  BY <1>2, PreemptInv, SlotFreedInv, PreemptTimeoutInv, ClaimBusyInv, ClaimResidentInv,
     ClaimFreshInv, OwnInv DEF Serve
<1>3. ASSUME NEW w \in Workers, WorkerStep(w) PROVE IInv'
  BY <1>3, NextCommandInv, ChannelClosesInv, ResetDoneInv, SeeCancelInv, EndsInv
     DEF WorkerStep, AbortTimeout
<1>4. ASSUME NEW w \in Workers, Pi(w) PROVE IInv'
  BY <1>4, ResetDoneInv, EndsInv DEF Pi, Complete, Fails, Aborted
<1>5. ASSUME NEW r \in Requests, Task(r) PROVE IInv'
  BY <1>5, FinishInv, ClearOwnedTurnInv DEF Task
<1>6. CASE IdleExit
  BY <1>6, IdleExitInv
<1>7. CASE UNCHANGED vars
  BY <1>7, StutterInv
<1> QED  BY <1>1, <1>2, <1>3, <1>4, <1>5, <1>6, <1>7 DEF Next

(* The invariant holds in every reachable state.                            *)
LEMMA Invariance == Spec => []IInv
<1>1. Init => IInv  BY InitInv
<1>2. IInv /\ [Next]_vars => IInv'  BY NextInv
<1> QED  BY <1>1, <1>2, PTL DEF Spec

(***************************************************************************)
(* The broker implements TurnService                                       *)
(***************************************************************************)
(* A connection that goes on stays connected.                               *)
LEMMA StaysConnected ==
  ASSUME IInv, NEW c \in Conns, NEW place \in Places \ Closed,
         pc[c] \notin Closed, Goto(c, place)
  PROVE  Connected' = Connected
  BY DEF IInv, TypeOK, Goto, Connected

(* So does the one whose reset is answered.                                 *)
LEMMA ResetKeepsConnected ==
  ASSUME IInv, ResetAnswered
  PROVE  Connected' = Connected
  BY NoConnAssumption DEF IInv, TypeOK, OwnerInv, ResetAnswered, Connected, Closed

(* The end of a request for its client is the answer of the service.        *)
LEMMA AnswerStep ==
  ASSUME IInv, NEW r \in Requests, NEW next, Answer(r, next), answers[r] = 0,
         Connected' = Connected, slot' = slot
  PROVE  Service!Next
<1>1. Service!Answer(r)
  BY DEF IInv, TypeOK, Answer, Service!Answer
<1> QED  BY <1>1 DEF Service!Next

(* The claim of a free slot is the grant.                                   *)
LEMMA TakeStep ==
  ASSUME IInv, NEW c \in Conns, NEW w, MayClaim(c), Take(c, w)
  PROVE  Service!Next
<1>1. want[c] \in Requests /\ answers[want[c]] = 0
  BY Asking DEF MayClaim
<1>2. Connected' = Connected
  BY StaysConnected DEF MayClaim, Take, Places, Closed
<1>3. Service!Grant(want[c])
  BY <1>1, <1>2 DEF MayClaim, Take, Service!Grant
<1> QED  BY <1>1, <1>3 DEF Service!Next

(* A refusal answers a request that never had the slot.                     *)
LEMMA RefuseStep ==
  ASSUME IInv, NEW c \in Conns, pc[c] \in {"start", "waiting", "claim"}, Refuse(c),
         slot' = slot
  PROVE  Service!Next
<1>1. want[c] \in Requests /\ answers[want[c]] = 0
  BY Asking
<1>2. Connected' = Connected
  BY StaysConnected DEF Refuse, Places, Closed
<1> QED  BY <1>1, <1>2, AnswerStep DEF Refuse

(* What a client sends; only its coming and going is seen.                  *)
LEMMA ClientStep ==
  ASSUME IInv, NEW c \in Conns, Client(c)
  PROVE  [Service!Next]_(Service!vars)
<1> USE DEF Service!vars
<1>1. CASE Connect(c)
  <2>1. Service!Connect(c)
    BY <1>1 DEF Connect, Goto, app, turns, Connected, Closed, IInv, TypeOK, Service!Connect
  <2> QED  BY <2>1 DEF Service!Next
<1>2. CASE Disconnect(c) \/ ReadFails(c)
  <2>1. Service!Leave(c)
    BY <1>2 DEF Disconnect, ReadFails, Closes, Goto, app, turns, Connected, Closed, IInv,
                TypeOK, Service!Leave
  <2> QED  BY <2>1 DEF Service!Next
<1>3. CASE Status(c) \/ (\E r \in Requests : CancelTurn(c, r))
           \/ (\E p \in Profiles \cup {NoProfile} : ReloadProfile(c, p))
  BY <1>3 DEF Status, CancelTurn, ReloadProfile, loops, app, turns, Connected
<1>4. CASE NewSession(c)
  <2>1. Connected' = Connected
    BY <1>4, StaysConnected DEF NewSession, ReadsOp, Reads, Places, Closed
  <2> QED  BY <1>4, <2>1 DEF NewSession, app, turns
<1>5. ASSUME NEW r \in Requests, StartTurn(c, r) PROVE UNCHANGED Service!vars
  <2>1. Connected' = Connected
    BY <1>5, StaysConnected DEF StartTurn, Reads, Places, Closed
  <2> QED  BY <1>5, <2>1 DEF StartTurn, app
<1> QED  BY <1>1, <1>2, <1>3, <1>4, <1>5 DEF Client

(* start_turn: waiting is not seen, the claim and a refusal are.            *)
LEMMA ServeStep ==
  ASSUME IInv, NEW c \in Conns, Serve(c)
  PROVE  [Service!Next]_(Service!vars)
<1> USE DEF Service!vars
<1>1. CASE Preempt(c)
  <2>1. CASE Refuse(c)
    BY <1>1, <2>1, RefuseStep DEF Preempt, app
  <2>2. CASE Goto(c, "claim") \/ Goto(c, "waiting")
    <3>1. Connected' = Connected
      BY <1>1, <2>2, StaysConnected DEF Preempt, Places, Closed
    <3>2. UNCHANGED <<slot, answers>> \/ Refuse(c)
      BY <1>1 DEF Preempt, app, turns
    <3> QED  BY <2>1, <3>1, <3>2
  <2> QED  BY <1>1, <2>1, <2>2 DEF Preempt
<1>2. CASE SlotFreed(c)
  <2>1. Connected' = Connected
    BY <1>2, StaysConnected DEF SlotFreed, Places, Closed
  <2> QED  BY <1>2, <2>1 DEF SlotFreed, app, turns
<1>3. CASE PreemptTimeout(c)
  BY <1>3, RefuseStep DEF PreemptTimeout, app
<1>4. CASE ClaimBusy(c)
  <2>1. CASE Refuse(c)
    BY <1>4, <2>1, RefuseStep DEF ClaimBusy, app
  <2>2. CASE Goto(c, "start") /\ UNCHANGED turns
    <3>1. Connected' = Connected
      BY <1>4, <2>2, StaysConnected DEF ClaimBusy, Places, Closed
    <3> QED  BY <1>4, <2>2, <3>1 DEF ClaimBusy, app, turns
  <2> QED  BY <1>4, <2>1, <2>2 DEF ClaimBusy
<1>5. CASE ClaimResident(c)
  BY <1>5, TakeStep DEF ClaimResident
<1>6. CASE ClaimFresh(c)
  <2>1. MayClaim(c) /\ (Take(c, spawned + 1) \/ (Refuse(c) /\ slot' = slot))
    BY <1>6 DEF ClaimFresh
  <2> QED  BY <2>1, TakeStep, RefuseStep DEF MayClaim
<1>7. CASE Own(c)
  <2>1. want[c] \in Requests /\ answers[want[c]] = 0 /\ Connected' = Connected /\ slot' = slot
    BY <1>7, Owning, StaysConnected DEF Own, Places, Closed, app
  <2>2. Answer(want[c], "done") \/ UNCHANGED answers
    BY <1>7 DEF Own
  <2> QED  BY <2>1, <2>2, AnswerStep
<1> QED  BY <1>1, <1>2, <1>3, <1>4, <1>5, <1>6, <1>7 DEF Serve

(* The end of a turn at its worker is its answer.                           *)
LEMMA EndStep ==
  ASSUME IInv, NEW w \in Workers, NEW r \in Requests, NEW how \in {"running", "aborting"},
         NEW next, Runs(w, r, how), TurnOver(w, r, next)
  PROVE  Service!Next
<1>1. answers[r] = 0
  BY DEF IInv, AnswerInv, Unanswered, Runs
<1>2. Connected' = Connected /\ slot' = slot
  BY DEF TurnOver, loops, app, Connected
<1> QED  BY <1>1, <1>2, AnswerStep DEF TurnOver

(* A closing channel answers the one turn that can be in it.                *)
LEMMA DropStep ==
  ASSUME IInv, NEW w \in Workers, ChannelCloses(w)
  PROVE  [Service!Next]_(Service!vars)
<1>1. slot' = slot
  BY DEF ChannelCloses, app
<1>2. Connected' = Connected
  <2>1. ResetAnswered \/ pc' = pc
    BY DEF ChannelCloses
  <2> QED  BY <2>1, ResetKeepsConnected DEF Connected
<1>3. \A r \in Dropped(w) : r \in Requests /\ slot = r /\ answers[r] = 0
  BY DEF IInv, SlotInv, AnswerInv, Held, Unanswered, Dropped
<1>4. answers' = [r \in Requests |-> IF r \in Dropped(w) THEN answers[r] + 1 ELSE answers[r]]
  BY DEF ChannelCloses
<1>5. CASE Dropped(w) = {}
  <2>1. answers' = answers
    BY <1>4, <1>5 DEF IInv, TypeOK
  <2> QED  BY <1>1, <1>2, <2>1 DEF Service!vars
<1>6. CASE Dropped(w) # {}
  <2>1. slot \in Requests /\ answers[slot] = 0 /\ Dropped(w) = {slot}
    BY <1>3, <1>6
  <2>2. answers' = [answers EXCEPT ![slot] = 1]
    <3>1. answers' = [r \in Requests |-> IF r = slot THEN 1 ELSE answers[r]]
      <4>1. \A r \in Requests : (IF r \in Dropped(w) THEN answers[r] + 1 ELSE answers[r])
                              = IF r = slot THEN 1 ELSE answers[r]
        BY <2>1
      <4> QED  BY <1>4, <4>1, Zenon
    <3>2. answers = [r \in Requests |-> answers[r]]
      BY DEF IInv, TypeOK
    <3> QED  BY <2>1, <3>1, <3>2
  <2>3. Service!Answer(slot)
    BY <1>1, <1>2, <2>1, <2>2 DEF Service!Answer
  <2> QED  BY <2>1, <2>3 DEF Service!Next
<1> QED  BY <1>5, <1>6

(* What goes on between a worker and its Pi process.                        *)
LEMMA WorkStep ==
  ASSUME IInv, NEW w \in Workers, WorkerStep(w) \/ Pi(w)
  PROVE  [Service!Next]_(Service!vars)
<1> USE DEF Service!vars
<1>1. CASE NextCommand(w) \/ (\E r \in Requests : SeeCancel(w, r))
  BY <1>1 DEF NextCommand, SeeCancel, loops, app, turns, Connected
<1>2. CASE \E next : ResetDone(w, next)
  <2>1. ResetAnswered /\ UNCHANGED <<slot, answers>>
    BY <1>2 DEF ResetDone, app, turns
  <2> QED  BY <2>1, ResetKeepsConnected
<1>3. ASSUME NEW r \in Requests,
             AbortTimeout(w, r) \/ Complete(w, r) \/ Fails(w, r) \/ Aborted(w, r)
      PROVE  Service!Next
  BY <1>3, EndStep DEF AbortTimeout, Complete, Fails, Aborted
<1> QED  BY <1>1, <1>2, <1>3, DropStep DEF WorkerStep, Pi

(* Only Finish gives the slot back, and the turn has its answer.            *)
LEMMA TaskStep ==
  ASSUME IInv, NEW r \in Requests, Task(r)
  PROVE  [Service!Next]_(Service!vars)
<1> USE DEF Service!vars
<1>1. CASE Finish(r)
  <2>1. slot = r /\ answers[r] = 1
    BY <1>1 DEF Finish, IInv, SlotInv, AnswerInv, Held
  <2>2. Service!Release
    BY <1>1, <2>1 DEF Finish, loops, Connected, Service!Release
  <2> QED  BY <2>2 DEF Service!Next
<1>2. CASE ClearOwnedTurn(r)
  BY <1>2 DEF ClearOwnedTurn, app, Connected
<1> QED  BY <1>1, <1>2 DEF Task

(* The service only ends without clients.                                   *)
LEMMA ExitStep ==
  ASSUME IInv, IdleExit
  PROVE  Service!Next
<1>1. Service!End
  BY DEF IdleExit, loops, Connected, Service!End
<1> QED  BY <1>1 DEF Service!Next

(* Every step of the broker is one of the service, or not seen in it.       *)
LEMMA ServiceNext == IInv /\ [Next]_vars => [Service!Next]_(Service!vars)
<1> SUFFICES ASSUME IInv, [Next]_vars PROVE [Service!Next]_(Service!vars)
    OBVIOUS
<1>1. CASE UNCHANGED vars
  BY <1>1 DEF vars, loops, app, turns, Connected, Service!vars
<1>2. CASE Next
  BY <1>2, ClientStep, ServeStep, WorkStep, TaskStep, ExitStep DEF Next
<1> QED  BY <1>1, <1>2

(* The broker, with its connections, channels, workers and tasks, keeps the *)
(* promise of TurnService for any number of them: one turn at a time, at    *)
(* most one answer each, and the slot given back after it.                  *)
THEOREM BrokerImplementsService == Spec => ImplementsService
<1>1. Init => Service!Init
  BY DEF Init, Service!Init, Connected, Closed
<1>2. IInv /\ [Next]_vars => [Service!Next]_(Service!vars)
  BY ServiceNext
<1> QED  BY <1>1, <1>2, Invariance, PTL DEF Spec, ImplementsService, Service!Spec

(* However clients, Pi processes, their deaths and the service's idle exits *)
(* interleave, a Pi process works only on the turn that holds its           *)
(* application's slot, as the resident worker, under the profile that turn  *)
(* asked for: start() and reload_profile() never replace a worker that is   *)
(* working.                                                                 *)
THEOREM OneTurnPerApplication == Spec => []WorkIsOwned
<1>1. IInv => WorkIsOwned
  BY RequestsAssumption
  DEF IInv, TypeOK, SlotInv, PlaceInv, Held, WorkIsOwned, AtWork
<1> QED  BY <1>1, Invariance, PTL

(* No request is answered twice, whether its worker completes, aborts, dies *)
(* with it or dies before it.                                               *)
THEOREM NoSecondAnswer == Spec => []AnsweredOnce
<1>1. IInv => AnsweredOnce
  BY DEF IInv, AnswerInv, AnsweredOnce
<1> QED  BY <1>1, Invariance, PTL

(* The end of file of a connection leaves no turn of it at work uncancelled,*)
(* whatever the connection did before it.                                   *)
THEOREM CleanDisconnectCancels == Spec => []DisconnectCancels
<1>1. IInv => DisconnectCancels
  BY RequestsAssumption DEF IInv, TypeOK, OwnerInv, DisconnectCancels, AtWork
<1> QED  BY <1>1, Invariance, PTL
=============================================================================
