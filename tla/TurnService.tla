---------------------------- MODULE TurnService ----------------------------
(* What remagic-agentd promises of one application's turns, without its     *)
(* processes, channels and tasks: a turn takes the application only when it *)
(* is free, no request gets a second final answer, an answered one never    *)
(* gets the application, and the turn that has it gives it back after its   *)
(* answer; without one only when the service ends, which it does when no    *)
(* client is left.                                                          *)
EXTENDS Naturals

CONSTANTS Conns, Requests, NoTurn

VARIABLES clients, \* the connected clients
          holder,  \* the turn that has the application, or NoTurn
          answers  \* [Requests -> final answers given]

vars == <<clients, holder, answers>>

Init == /\ clients = {}
        /\ holder = NoTurn
        /\ answers = [r \in Requests |-> 0]

Connect(c) == /\ clients' = clients \cup {c}
              /\ UNCHANGED <<holder, answers>>

Leave(c) == /\ clients' = clients \ {c}
            /\ UNCHANGED <<holder, answers>>

Grant(r) == /\ holder = NoTurn
            /\ answers[r] = 0
            /\ holder' = r
            /\ UNCHANGED <<clients, answers>>

(* A refusal, or the answer to the turn that has the application.           *)
Answer(r) == /\ answers[r] = 0
             /\ answers' = [answers EXCEPT ![r] = 1]
             /\ UNCHANGED <<clients, holder>>

Release == /\ holder \in Requests
           /\ answers[holder] = 1
           /\ holder' = NoTurn
           /\ UNCHANGED <<clients, answers>>

End == /\ clients = {}
       /\ holder' = NoTurn
       /\ UNCHANGED <<clients, answers>>

Next == \/ \E c \in Conns : Connect(c) \/ Leave(c)
        \/ \E r \in Requests : Grant(r) \/ Answer(r)
        \/ Release \/ End

Spec == Init /\ [][Next]_vars
=============================================================================
