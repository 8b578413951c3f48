----------------------- MODULE LifecycleBridge_proofs -----------------------
(***************************************************************************)
(* For any number of fences and any length of the queues between daemon,   *)
(* runner and process: whoever is parked has saved, and whoever holds the  *)
(* screen knows it.                                                        *)
(***************************************************************************)
EXTENDS LifecycleBridge, TLAPS

USE BridgeAssumption DEF BridgeAssumption

(***************************************************************************)
(* The inductive invariant                                                 *)
(***************************************************************************)
Places == {"off", "starting", "returning", "foreground", "hiding", "handing",
           "parked", "unparked", "stopping"}
Arriving == {"starting", "returning"}
Settled == {"foreground", "hiding", "handing", "parked", "unparked"}
Ops == {"start", "foreground", "background", "shutdown"}
Call == [op : Ops \ {"start"}, fence : Nat, live : BOOLEAN]
Message == [op : Ops, token : Nat]
Report == [event : {"ready", "saved", "background", "failed"}, token : Nat]
Client == [token : Nat, todo : Seq(Message),
           mode : {"new", "foreground", "background"}, dirty : BOOLEAN]
Progress == [token : Nat, saved : BOOLEAN, background : BOOLEAN]
StatusFile == [token : Nat, event : {"none", "ready", "saved", "background", "failed"},
               saved : BOOLEAN, background : BOOLEAN]

TypeOK ==
  /\ at \in Places /\ waits \in {"nothing", "reply", "status"}
  /\ fence \in Nat
  /\ process \in {"none", "booting", "up"} /\ frozen \in BOOLEAN
  /\ calls \in Seq(Call)
  /\ token \in Nat /\ milestones \in Progress /\ status \in StatusFile
  /\ forwarding \in BOOLEAN
  /\ channel \in Seq(Message) /\ events \in Seq(Report)
  /\ app \in Client
  /\ overtaken \in Nat

(* A request to come to the screen, and one to leave it.                    *)
Fresh(m) == m.op \in {"start", "foreground"}
Parks(m) == m.op = "background"
NoneFresh == /\ \A i \in DOMAIN calls : ~Fresh(calls[i])
             /\ \A i \in DOMAIN channel : ~Fresh(channel[i])
             /\ \A i \in DOMAIN app.todo : ~Fresh(app.todo[i])
NoneParks == /\ \A i \in DOMAIN calls : ~Parks(calls[i])
             /\ \A i \in DOMAIN channel : ~Parks(channel[i])
             /\ \A i \in DOMAIN app.todo : ~Parks(app.todo[i])

(* Nothing is under way to a process that is not there, and a runner that   *)
(* is still clearing its directory belongs to a launch.                     *)
ProcessInv ==
  /\ process # "up" => calls = <<>> /\ channel = <<>> /\ events = <<>> /\ app = NewProcess
  /\ process = "booting" => at \in {"starting", "stopping"}
  /\ process = "booting" => status.token < fence /\ overtaken < fence

(* Only one command waits for an answer, and only while the daemon does.    *)
WaitInv ==
  /\ waits # "nothing" => at \in Arriving \cup {"hiding"}
  /\ \A i \in DOMAIN calls : calls[i].live => waits = "reply"
  /\ \A i, j \in DOMAIN calls : calls[i].live /\ calls[j].live => i = j

(* Along the way to the process and back the tokens get no newer.           *)
TokenInv ==
  /\ token <= fence /\ app.token <= token
  /\ milestones.token <= token /\ status.token <= fence
  /\ \A i \in DOMAIN channel : app.token <= channel[i].token /\ channel[i].token <= token
  /\ \A i \in DOMAIN channel : channel[i].token <= channel[Len(channel)].token
  /\ \A i \in DOMAIN app.todo : app.todo[i].token <= app.token
  /\ \A i \in DOMAIN events : events[i].token <= app.token

(* The last request to come to the screen is the first command of its fence.*)
Opens(s, i) == Fresh(s[i]) => \A j \in DOMAIN s : s[j].token < fence <=> j < i
FreshInv ==
  /\ \A i \in DOMAIN calls : Fresh(calls[i]) =>
       /\ calls[i].fence = fence /\ token < fence
       /\ \A j \in DOMAIN calls : Fresh(calls[j]) => i = j
  /\ \A i \in DOMAIN channel : Opens(channel, i)
  /\ \A i \in DOMAIN channel : Fresh(channel[i]) => app.token < fence
  /\ \A i \in DOMAIN app.todo : Opens(app.todo, i)
  /\ at \in Settled => NoneFresh

(* While an application is on its way to the screen, older requests to leave*)
(* it are told by their token, or come before the one to return.            *)
ParkInv ==
  at \in Arriving =>
    /\ \A i \in DOMAIN app.todo : Parks(app.todo[i]) => app.todo[i].token < fence
    /\ \A i \in DOMAIN channel : Parks(channel[i]) => channel[i].token < fence
    /\ \A i \in DOMAIN calls : Parks(calls[i]) =>
         \E j \in DOMAIN calls : i < j /\ Fresh(calls[j])

(* A request to leave that is answered under a newer token was overtaken.   *)
OvertakenInv ==
  /\ overtaken <= fence
  /\ process = "up" /\ overtaken = fence => app.token = fence
  /\ \A i \in DOMAIN app.todo : Parks(app.todo[i]) =>
       app.todo[i].token = app.token \/ overtaken = app.token

(* What the runner knows of a fence is true of the process.                 *)
SavedComing == \E i \in DOMAIN events : events[i].event = "saved" /\ events[i].token = fence
SavedNoted == milestones.token = fence /\ milestones.saved
HasSaved == SavedComing \/ SavedNoted
SavedInv ==
  /\ process = "up" /\ overtaken # fence /\ HasSaved =>
       /\ app.mode = "background" /\ ~app.dirty /\ app.token = fence
       /\ NoneFresh
  /\ status.saved /\ status.token = fence => SavedNoted
  /\ at \in {"handing", "parked"} /\ process = "up" => HasSaved

ReadyComing == \E i \in DOMAIN events : events[i].event = "ready" /\ events[i].token = fence
ReadyNoted == status.token = fence /\ status.event = "ready"
OnScreen == app.mode = "foreground" /\ NoneFresh /\ NoneParks
ReadyInv ==
  /\ process = "up" /\ at \in Arriving /\ (ReadyComing \/ ReadyNoted) => OnScreen
  /\ process = "up" /\ at = "foreground" => OnScreen

IInv ==
  /\ TypeOK /\ ProcessInv /\ WaitInv /\ TokenInv /\ FreshInv
  /\ ParkInv /\ OvertakenInv /\ SavedInv /\ ReadyInv

-----------------------------------------------------------------------------
(***************************************************************************)
(* Lemmas about the queues                                                 *)
(***************************************************************************)
(* A queue without its head is the rest of it, one place further on.       *)
LEMMA TailOf ==
  ASSUME NEW S, NEW s \in Seq(S), s # <<>>
  PROVE  /\ Tail(s) \in Seq(S)
         /\ 1 \in DOMAIN s /\ Head(s) = s[1] /\ Head(s) \in S
         /\ Len(Tail(s)) = Len(s) - 1
         /\ \A i \in DOMAIN Tail(s) : i + 1 \in DOMAIN s /\ Tail(s)[i] = s[i + 1]
         /\ \A i \in DOMAIN s : i # 1 => i - 1 \in DOMAIN Tail(s) /\ Tail(s)[i - 1] = s[i]
<1>1. Len(s) \in Nat \ {0} /\ DOMAIN s = 1..Len(s)
  OBVIOUS
<1>2. /\ Tail(s) \in Seq(S) /\ Len(Tail(s)) = Len(s) - 1
      /\ \A i \in 1..Len(s) - 1 : Tail(s)[i] = s[i + 1]
  OBVIOUS
<1>3. DOMAIN Tail(s) = 1..Len(s) - 1
  BY <1>1, <1>2
<1>4. 1 \in DOMAIN s /\ Head(s) = s[1] /\ Head(s) \in S
  BY <1>1
<1> QED BY <1>1, <1>2, <1>3, <1>4

(* What is appended comes after everything that was there.                 *)
LEMMA AppendOf ==
  ASSUME NEW S, NEW s \in Seq(S), NEW e \in S
  PROVE  /\ Append(s, e) \in Seq(S)
         /\ Len(s) \in Nat /\ DOMAIN s = 1..Len(s)
         /\ Len(Append(s, e)) = Len(s) + 1
         /\ DOMAIN Append(s, e) = 1..Len(s) + 1
         /\ \A i \in DOMAIN s : i \in DOMAIN Append(s, e) /\ Append(s, e)[i] = s[i]
         /\ Append(s, e)[Len(s) + 1] = e
         /\ \A i \in DOMAIN Append(s, e) : i \in DOMAIN s \/ i = Len(s) + 1
<1>1. Len(s) \in Nat /\ DOMAIN s = 1..Len(s)
  OBVIOUS
<1>2. /\ Append(s, e) \in Seq(S) /\ Len(Append(s, e)) = Len(s) + 1
      /\ \A i \in 1..Len(s) : Append(s, e)[i] = s[i]
      /\ Append(s, e)[Len(s) + 1] = e
  OBVIOUS
<1>3. DOMAIN Append(s, e) = 1..Len(s) + 1
  BY <1>1, <1>2
<1> QED BY <1>1, <1>2, <1>3

(* Two events at once.                                                     *)
LEMMA AppendTwo ==
  ASSUME NEW S, NEW s \in Seq(S), NEW d \in S, NEW e \in S
  PROVE  /\ s \o <<d, e>> \in Seq(S)
         /\ \A i \in DOMAIN s : i \in DOMAIN (s \o <<d, e>>) /\ (s \o <<d, e>>)[i] = s[i]
         /\ Len(s) + 1 \in DOMAIN (s \o <<d, e>>) /\ (s \o <<d, e>>)[Len(s) + 1] = d
         /\ \A i \in DOMAIN (s \o <<d, e>>) :
              i \in DOMAIN s \/ (s \o <<d, e>>)[i] = d \/ (s \o <<d, e>>)[i] = e
<1>1. Len(s) \in Nat /\ DOMAIN s = 1..Len(s)
  OBVIOUS
<1>2. /\ s \o <<d, e>> \in Seq(S) /\ Len(s \o <<d, e>>) = Len(s) + 2
      /\ \A i \in 1..Len(s) : (s \o <<d, e>>)[i] = s[i]
      /\ (s \o <<d, e>>)[Len(s) + 1] = d
      /\ (s \o <<d, e>>)[Len(s) + 2] = e
  OBVIOUS
<1>3. DOMAIN (s \o <<d, e>>) = 1..Len(s) + 2
  BY <1>1, <1>2
<1> QED BY <1>1, <1>2, <1>3
(* What the type invariant says of the numbers and the queues.             *)
LEMMA Types ==
  ASSUME IInv
  PROVE  /\ fence \in Nat /\ token \in Nat /\ overtaken \in Nat
         /\ milestones.token \in Nat /\ status.token \in Nat /\ app.token \in Nat
         /\ app.todo \in Seq(Message)
         /\ \A i \in DOMAIN calls : calls[i] \in Call /\ calls[i].fence \in Nat /\ i \in Nat
         /\ \A i \in DOMAIN channel : channel[i] \in Message /\ channel[i].token \in Nat /\ i \in Nat
         /\ \A i \in DOMAIN app.todo : app.todo[i] \in Message /\ app.todo[i].token \in Nat /\ i \in Nat
         /\ \A i \in DOMAIN events : events[i] \in Report /\ events[i].token \in Nat
<1>1. calls \in Seq(Call) /\ channel \in Seq(Message) /\ events \in Seq(Report)
  BY DEF IInv, TypeOK
<1>2. app.todo \in Seq(Message) /\ app.token \in Nat
  BY DEF IInv, TypeOK, Client
<1>3. milestones.token \in Nat /\ status.token \in Nat
  BY DEF IInv, TypeOK, Progress, StatusFile
<1>4. \A i \in DOMAIN calls : calls[i] \in Call /\ i \in Nat
  BY <1>1
<1>5. \A i \in DOMAIN channel : channel[i] \in Message /\ i \in Nat
  BY <1>1
<1>6. \A i \in DOMAIN app.todo : app.todo[i] \in Message /\ i \in Nat
  BY <1>2
<1>7. \A i \in DOMAIN events : events[i] \in Report
  BY <1>1
<1>8. \A m \in Message : m.token \in Nat
  BY DEF Message
<1>9. /\ \A m \in Call : m.fence \in Nat
      /\ \A m \in Report : m.token \in Nat
  BY DEF Call, Report
<1> QED BY <1>2, <1>3, <1>4, <1>5, <1>6, <1>7, <1>8, <1>9 DEF IInv, TypeOK

(* Nothing is in the queues of a process that is not there.                *)
LEMMA Idle ==
  ASSUME IInv, process # "up"
  PROVE  /\ DOMAIN calls = {} /\ DOMAIN channel = {} /\ DOMAIN events = {}
         /\ DOMAIN app.todo = {} /\ app.token = 0
  BY DEF IInv, ProcessInv, NewProcess

(***************************************************************************)
(* One lemma per action                                                    *)
(***************************************************************************)
(* The unit has ended: what was known of the fence is of no process now.   *)
LEMMA EndsKeeps ==
  ASSUME IInv, Ends, UNCHANGED <<daemonVars, token, milestones, status, overtaken>>
  PROVE  IInv'
<1> USE DEF IInv
<1>1. /\ UNCHANGED <<at, waits, fence>>
      /\ UNCHANGED <<token, milestones, status, overtaken>>
      /\ process' = "none" /\ app' = NewProcess /\ frozen' = FALSE /\ forwarding' = FALSE
      /\ calls' = <<>> /\ channel' = <<>> /\ events' = <<>>
  BY DEF Ends, daemonVars
<1>2. app'.token = 0 /\ app'.todo = <<>> /\ app' \in Client
  BY <1>1 DEF NewProcess, Client
<1>3. /\ DOMAIN calls' = {} /\ DOMAIN channel' = {} /\ DOMAIN events' = {}
      /\ DOMAIN app'.todo = {}
  BY <1>1, <1>2
<1>4. calls' \in Seq(Call) /\ channel' \in Seq(Message) /\ events' \in Seq(Report)
  BY <1>1
<1> HIDE DEF IInv
<1>5. /\ TypeOK /\ ProcessInv /\ WaitInv /\ TokenInv /\ FreshInv
      /\ ParkInv /\ OvertakenInv /\ SavedInv /\ ReadyInv
  BY DEF IInv
<1>6. TypeOK'
  BY <1>1, <1>2, <1>4, <1>5 DEF TypeOK
<1>7. ProcessInv'
  BY <1>1 DEF ProcessInv
<1>8. WaitInv' /\ FreshInv' /\ ParkInv' /\ ReadyInv'
  BY <1>1, <1>3, <1>5 DEF WaitInv, FreshInv, NoneFresh, ParkInv, ReadyInv
<1>9. TokenInv' /\ OvertakenInv' /\ SavedInv'
  BY <1>1, <1>2, <1>3, <1>5, Types DEF TokenInv, OvertakenInv, SavedInv, SavedNoted
<1> QED BY <1>6, <1>7, <1>8, <1>9 DEF IInv

(* A kill ends the process with everything under way to it.                *)
LEMMA KilledKeeps == IInv /\ Killed => IInv'
  BY EndsKeeps DEF Killed

(* So does an exit of its own.                                             *)
LEMMA ExitsKeeps == IInv /\ Exits => IInv'
  BY EndsKeeps DEF Exits

(* Only the places of the daemon change: the queues, the process and what   *)
(* the runner knows stay.                                                  *)
Kept == UNCHANGED <<fence, process, calls, processVars>>

(* What only depends on the queues and the process stays.                  *)
LEMMA KeptInv ==
  ASSUME IInv, Kept
  PROVE  /\ TokenInv' /\ OvertakenInv'
         /\ (fence \in Nat /\ process \in {"none", "booting", "up"} /\ calls \in Seq(Call))'
         /\ (token \in Nat /\ milestones \in Progress /\ status \in StatusFile)'
         /\ forwarding' \in BOOLEAN
         /\ (channel \in Seq(Message) /\ events \in Seq(Report) /\ app \in Client)'
         /\ overtaken' \in Nat
         /\ NoneFresh' = NoneFresh /\ HasSaved' = HasSaved /\ SavedNoted' = SavedNoted
         /\ OnScreen' = OnScreen /\ ReadyComing' = ReadyComing /\ ReadyNoted' = ReadyNoted
<1>1. /\ UNCHANGED <<fence, process, calls>>
      /\ UNCHANGED <<channel, events, app, overtaken>>
      /\ UNCHANGED <<token, milestones, status>> /\ forwarding' = forwarding
  BY DEF Kept, processVars, runnerVars
<1>2. TypeOK /\ TokenInv /\ OvertakenInv
  BY DEF IInv
<1>3. TokenInv' /\ OvertakenInv'
  BY <1>1, <1>2 DEF TokenInv, OvertakenInv
<1>4. forwarding' \in BOOLEAN
  BY <1>1, <1>2, Zenon DEF TypeOK
<1>5. NoneFresh' = NoneFresh /\ HasSaved' = HasSaved /\ SavedNoted' = SavedNoted
  BY <1>1 DEF NoneFresh, Fresh, HasSaved, SavedComing, SavedNoted
<1>6. OnScreen' = OnScreen /\ ReadyComing' = ReadyComing /\ ReadyNoted' = ReadyNoted
  BY <1>1 DEF OnScreen, NoneFresh, NoneParks, Fresh, Parks, ReadyComing, ReadyNoted
<1> QED BY <1>1, <1>2, <1>3, <1>4, <1>5, <1>6 DEF TypeOK

(* A wait ends or goes on: the deadline closes the connections.            *)
LEMMA DeadlineKeeps ==
  ASSUME IInv, Deadline
  PROVE  IInv'
<1>1. /\ UNCHANGED <<fence, process, channel, events, app, overtaken>>
      /\ UNCHANGED <<token, milestones, status>>
      /\ forwarding' = forwarding /\ frozen' = frozen
      /\ waits' = "nothing"
      /\ at' = IF at = "hiding" THEN "unparked" ELSE "stopping"
      /\ at \in Arriving \cup {"hiding"}
  BY DEF Deadline, GivesUp, processVars, runnerVars, IInv, WaitInv
<1>2. /\ calls' \in Seq(Call) /\ DOMAIN calls' = DOMAIN calls
      /\ \A i \in DOMAIN calls : calls'[i].op = calls[i].op /\ calls'[i].fence = calls[i].fence
                                 /\ calls'[i].live = FALSE
  <2>1. calls \in Seq(Call) /\ Len(calls) \in Nat /\ DOMAIN calls = 1..Len(calls)
    BY DEF IInv, TypeOK
  <2>2. \A i \in DOMAIN calls :
          /\ [calls[i] EXCEPT !.live = FALSE] \in Call
          /\ [calls[i] EXCEPT !.live = FALSE].op = calls[i].op
          /\ [calls[i] EXCEPT !.live = FALSE].fence = calls[i].fence
          /\ [calls[i] EXCEPT !.live = FALSE].live = FALSE
    BY Types DEF Call
  <2>3. calls' = [i \in 1..Len(calls) |-> [calls[i] EXCEPT !.live = FALSE]]
    BY <2>1 DEF Deadline
  <2> HIDE DEF Call
  <2>4. calls' \in [1..Len(calls) -> Call]
    BY <2>1, <2>2, <2>3
  <2>5. calls' \in Seq(Call)
    BY <2>1, <2>4
  <2> QED BY <2>1, <2>2, <2>3, <2>5
<1>3. /\ TypeOK /\ ProcessInv /\ WaitInv /\ TokenInv /\ FreshInv
      /\ ParkInv /\ OvertakenInv /\ SavedInv /\ ReadyInv
  BY DEF IInv
<1>4. NoneFresh' = NoneFresh
  BY <1>1, <1>2 DEF NoneFresh, Fresh
<1>5. TypeOK'
  <2>1. frozen' \in BOOLEAN /\ forwarding' \in BOOLEAN
    BY <1>1, <1>3, Zenon DEF TypeOK
  <2> QED BY <1>1, <1>2, <1>3, <2>1 DEF TypeOK, Places
<1>6. ProcessInv'
  <2>1. process # "up" => calls' = <<>>
    BY <1>2, <1>3 DEF ProcessInv
  <2> QED BY <1>1, <1>3, <2>1 DEF ProcessInv, Arriving
<1>7. WaitInv'
  BY <1>1, <1>2 DEF WaitInv
<1>8. TokenInv' /\ OvertakenInv'
  BY <1>1, <1>3 DEF TokenInv, OvertakenInv
<1>9. FreshInv'
  BY <1>1, <1>2, <1>3, <1>4 DEF FreshInv, Opens, Fresh, Settled, Arriving
<1>10. ParkInv' /\ ReadyInv'
  BY <1>1 DEF ParkInv, ReadyInv, Arriving
<1>11. SavedInv'
  BY <1>1, <1>3, <1>4 DEF SavedInv, HasSaved, SavedComing, SavedNoted
<1> QED BY <1>5, <1>6, <1>7, <1>8, <1>9, <1>10, <1>11 DEF IInv

(* What the file says of the present fence is what the daemon takes for it.*)
LEMMA ReadStatusKeeps ==
  ASSUME IInv, ReadStatus
  PROVE  IInv'
<1>1. /\ Kept /\ frozen' = frozen
      /\ UNCHANGED <<fence, process, status, calls, channel, app, events>>
      /\ waits = "status" /\ status.token = fence
      /\ waits' = "nothing"
      /\ \/ at' = IF at = "hiding" THEN "unparked" ELSE "stopping"
         \/ at = "hiding" /\ at' = "handing" /\ status.saved
         \/ at # "hiding" /\ at' = "foreground" /\ status.event = "ready"
  BY DEF ReadStatus, GivesUp, Current, Expected, Kept, processVars, runnerVars
<1>2. /\ TypeOK /\ ProcessInv /\ WaitInv /\ TokenInv /\ FreshInv
      /\ ParkInv /\ OvertakenInv /\ SavedInv /\ ReadyInv
  BY DEF IInv
<1>3. at \in {"starting", "returning", "hiding"} /\ process # "booting"
  BY <1>1, <1>2, Types DEF WaitInv, Arriving, ProcessInv
<1>4. at' = "foreground" => process # "up" \/ OnScreen
  BY <1>1, <1>2, <1>3 DEF ReadyInv, ReadyNoted, Arriving
<1>5. TypeOK'
  <2>1. frozen' \in BOOLEAN
    BY <1>1, <1>2, Zenon DEF TypeOK
  <2> QED BY <1>1, <1>2, <1>3, <2>1, KeptInv DEF TypeOK, Places
<1>6. ProcessInv'
  BY <1>1, <1>2, <1>3 DEF ProcessInv
<1>7. WaitInv'
  BY <1>1, <1>2 DEF WaitInv
<1>8. NoneFresh' \/ at' = "stopping"
  <2>1. CASE process # "up"
    BY <1>1, <2>1, Idle DEF NoneFresh
  <2>2. CASE process = "up" /\ at' = "foreground"
    BY <1>4, <2>2, KeptInv, <1>1 DEF OnScreen
  <2>3. CASE at = "hiding"
    BY <1>1, <1>2, <2>3, KeptInv DEF FreshInv, Settled
  <2> QED BY <1>1, <1>3, <2>1, <2>2, <2>3
<1>9. FreshInv'
  BY <1>1, <1>2, <1>8 DEF FreshInv, Opens, Settled, Kept, processVars, runnerVars
<1>10. ParkInv'
  BY <1>1 DEF ParkInv, Arriving
<1>11. SavedInv'
  <2>1. status.saved => SavedNoted
    BY <1>1, <1>2 DEF SavedInv
  <2>2. UNCHANGED <<overtaken, app, status, fence, process>>
    BY <1>1 DEF Kept, processVars
  <2> QED BY <1>1, <1>2, <2>1, <2>2, KeptInv DEF SavedInv, HasSaved
<1>12. ReadyInv'
  BY <1>1, <1>4, KeptInv DEF ReadyInv, Arriving
<1> QED BY <1>1, <1>5, <1>6, <1>7, <1>9, <1>10, <1>11, <1>12, KeptInv DEF IInv

(* Freezing after the park is a step of the daemon alone.                  *)
LEMMA HandOffKeeps ==
  ASSUME IInv, HandOff
  PROVE  IInv'
<1>1. /\ Kept /\ at = "handing" /\ at' \in {"parked", "unparked"} /\ waits' = waits
      /\ UNCHANGED <<fence, process, status, calls, channel, app, events>>
      /\ frozen' \in {FALSE, Freezes}
  BY DEF HandOff, Kept, processVars, runnerVars
<1>2. /\ TypeOK /\ ProcessInv /\ WaitInv /\ TokenInv /\ FreshInv
      /\ ParkInv /\ OvertakenInv /\ SavedInv /\ ReadyInv
  BY DEF IInv
<1>3. waits = "nothing"
  BY <1>1, <1>2 DEF WaitInv, Arriving
<1>4. TypeOK'
  <2>1. frozen' \in BOOLEAN
    BY <1>1, BridgeAssumption, Zenon DEF BridgeAssumption
  <2> QED BY <1>1, <1>2, <2>1, KeptInv DEF TypeOK, Places
<1>5. ProcessInv'
  BY <1>1, <1>2 DEF ProcessInv
<1>6. WaitInv'
  BY <1>1, <1>2, <1>3 DEF WaitInv
<1>7. FreshInv'
  <2>1. NoneFresh'
    BY <1>1, <1>2, KeptInv DEF FreshInv, Settled
  <2> QED BY <1>1, <1>2, <2>1 DEF FreshInv, Opens, Kept, processVars, runnerVars
<1>8. ParkInv' /\ ReadyInv'
  BY <1>1 DEF ParkInv, ReadyInv, Arriving
<1>9. SavedInv'
  <2>1. UNCHANGED <<overtaken, app, status, fence, process>>
    BY <1>1 DEF Kept, processVars
  <2> QED BY <1>1, <1>2, <2>1, KeptInv DEF SavedInv
<1> QED BY <1>4, <1>5, <1>6, <1>7, <1>8, <1>9, <1>1, KeptInv DEF IInv

(* The unit is gone: the daemon notices.                                   *)
LEMMA NoticesKeeps ==
  ASSUME IInv, Notices
  PROVE  IInv'
<1>1. /\ Kept /\ process = "none" /\ at' = "off" /\ waits' = "nothing" /\ frozen' = frozen
      /\ UNCHANGED <<fence, process, status, calls, channel, app, events, overtaken>>
  BY DEF Notices, Kept, processVars, runnerVars
<1>2. /\ TypeOK /\ ProcessInv /\ WaitInv /\ TokenInv /\ FreshInv
      /\ ParkInv /\ OvertakenInv /\ SavedInv /\ ReadyInv
  BY DEF IInv
<1>3. TypeOK'
  <2>1. frozen' \in BOOLEAN
    BY <1>1, <1>2, Zenon DEF TypeOK
  <2> QED BY <1>1, <1>2, <2>1, KeptInv DEF TypeOK, Places
<1>4. ProcessInv'
  BY <1>1, <1>2 DEF ProcessInv
<1>5. WaitInv' /\ FreshInv' /\ ParkInv' /\ ReadyInv'
  BY <1>1, Idle DEF WaitInv, FreshInv, ParkInv, ReadyInv, Arriving, Settled
<1>6. SavedInv'
  BY <1>1, <1>2, KeptInv DEF SavedInv
<1> QED BY <1>3, <1>4, <1>5, <1>6, <1>1, KeptInv DEF IInv

(* A launch: nothing is under way, and what was known is of older fences.   *)
LEMMA LaunchKeeps ==
  ASSUME IInv, Launch
  PROVE  IInv'
<1>1. /\ process = "none" /\ process' = "booting" /\ at' = "starting" /\ waits' = "status"
      /\ fence' = fence + 1
      /\ UNCHANGED <<calls, channel, events, app, overtaken, token, milestones, status>>
      /\ frozen' = frozen /\ forwarding' = forwarding
  BY DEF Launch, NextFence, runnerVars
<1>2. /\ TypeOK /\ ProcessInv /\ WaitInv /\ TokenInv /\ FreshInv
      /\ ParkInv /\ OvertakenInv /\ SavedInv /\ ReadyInv
  BY DEF IInv
<1>3. TypeOK'
  <2>1. frozen' \in BOOLEAN /\ forwarding' \in BOOLEAN
    BY <1>1, <1>2, Zenon DEF TypeOK
  <2> QED BY <1>1, <1>2, <2>1 DEF TypeOK, Places
<1>4. ProcessInv'
  BY <1>1, <1>2, Types DEF ProcessInv, TokenInv, OvertakenInv
<1>5. WaitInv' /\ FreshInv' /\ ParkInv'
  BY <1>1, Idle DEF WaitInv, FreshInv, ParkInv, Arriving, Settled
<1>6. TokenInv' /\ OvertakenInv'
  BY <1>1, <1>2, Idle, Types DEF TokenInv, OvertakenInv
<1>7. SavedInv' /\ ReadyInv'
  BY <1>1, <1>2, Types DEF SavedInv, TokenInv, ReadyInv
<1> QED BY <1>3, <1>4, <1>5, <1>6, <1>7 DEF IInv

(* A recall, and the recovery of a failed park: nothing on its way asks for *)
(* the screen when the new request does.                                   *)
LEMMA ReturnKeeps ==
  ASSUME IInv, Return
  PROVE  IInv'
<1>1. /\ at \in {"parked", "unparked"} /\ process = "up" /\ process' = "up"
      /\ UNCHANGED <<channel, events, app, overtaken, token, milestones, status>>
      /\ forwarding' = forwarding
  BY DEF Return, processVars, runnerVars
<1>2. /\ TypeOK /\ ProcessInv /\ WaitInv /\ TokenInv /\ FreshInv
      /\ ParkInv /\ OvertakenInv /\ SavedInv /\ ReadyInv
  BY DEF IInv
<1>3. waits = "nothing" /\ \A i \in DOMAIN calls : calls[i].live = FALSE
  <2>1. waits = "nothing" /\ \A i \in DOMAIN calls : ~calls[i].live
    BY <1>1, <1>2 DEF WaitInv, Arriving
  <2> QED BY <2>1, Types DEF Call
<1>4. forwarding' \in BOOLEAN
  BY <1>1, <1>2, Zenon DEF TypeOK
<1>5. NoneFresh
  BY <1>1, <1>2 DEF FreshInv, Settled
<1>6. CASE NextFence /\ at' = "returning" /\ frozen' = FALSE /\ Asks("foreground", fence + 1)
  <2> DEFINE call == Command("foreground", fence + 1)
  <2>1. /\ fence' = fence + 1 /\ at' = "returning" /\ frozen' = FALSE
        /\ calls' = Append(calls, call) /\ waits' = "reply"
    BY <1>6 DEF NextFence, Asks
  <2>2. call \in Call /\ call.live = TRUE /\ call.op = "foreground" /\ call.fence = fence + 1
    BY Types DEF Command, Call, Ops
  <2>3. calls \in Seq(Call)
    BY <1>2 DEF TypeOK
  <2> HIDE DEF call
  <2>4. /\ calls' \in Seq(Call)
        /\ Len(calls) \in Nat /\ DOMAIN calls = 1..Len(calls)
        /\ DOMAIN calls' = 1..Len(calls) + 1
        /\ \A i \in DOMAIN calls : i \in DOMAIN calls' /\ calls'[i] = calls[i]
        /\ calls'[Len(calls) + 1] = call
        /\ \A i \in DOMAIN calls' : i \in DOMAIN calls \/ i = Len(calls) + 1
    BY <2>1, <2>2, <2>3, AppendOf
  <2>5. TypeOK'
    <3>1. frozen' \in BOOLEAN
      BY <2>1
    <3> QED BY <1>1, <1>2, <1>4, <2>1, <2>4, <3>1 DEF TypeOK, Places
  <2>6. ProcessInv'
    BY <1>1 DEF ProcessInv
  <2>7. WaitInv'
    BY <1>3, <2>1, <2>4 DEF WaitInv, Arriving
  <2>8. TokenInv' /\ OvertakenInv'
    BY <1>1, <1>2, <2>1, Types DEF TokenInv, OvertakenInv
  <2>9. FreshInv'
    <3>1. token' < fence'
      BY <1>1, <1>2, <2>1, Types DEF TokenInv
    <3>2. \A i \in DOMAIN calls' : Fresh(calls'[i]) => i = Len(calls) + 1
      BY <1>5, <2>4 DEF NoneFresh
    <3>3. at' \notin Settled
      BY <2>1 DEF Settled
    <3>4. /\ \A i \in DOMAIN channel' : ~Fresh(channel'[i])
          /\ \A i \in DOMAIN app'.todo : ~Fresh(app'.todo[i])
      BY <1>1, <1>5 DEF NoneFresh
    <3>5. \A i \in DOMAIN calls' : Fresh(calls'[i]) =>
            /\ calls'[i].fence = fence' /\ token' < fence'
            /\ \A j \in DOMAIN calls' : Fresh(calls'[j]) => i = j
      BY <2>1, <2>2, <2>4, <3>1, <3>2
    <3>6. (\A i \in DOMAIN calls : Fresh(calls[i]) =>
            /\ calls[i].fence = fence /\ token < fence
            /\ \A j \in DOMAIN calls : Fresh(calls[j]) => i = j)'
      BY <3>5 DEF Fresh
    <3>7. (\A i \in DOMAIN channel : Opens(channel, i) /\ (Fresh(channel[i]) => app.token < fence))'
      BY <3>4 DEF Opens, Fresh
    <3>8. (\A i \in DOMAIN app.todo : Opens(app.todo, i))'
      BY <3>4 DEF Opens, Fresh
    <3> QED BY <3>3, <3>6, <3>7, <3>8 DEF FreshInv
  <2>10. ParkInv'
    <3>1. \A i \in DOMAIN app'.todo : app'.todo[i].token < fence'
      BY <1>1, <1>2, <2>1, Types DEF TokenInv
    <3>2. \A i \in DOMAIN channel' : channel'[i].token < fence'
      BY <1>1, <1>2, <2>1, Types DEF TokenInv
    <3>3. Fresh(call) /\ ~Parks(call)
      BY <2>2 DEF Fresh, Parks
    <3>4. \A i \in DOMAIN calls' : Parks(calls'[i]) =>
            Len(calls) + 1 \in DOMAIN calls' /\ i < Len(calls) + 1 /\ Fresh(calls'[Len(calls) + 1])
      BY <2>4, <3>3
    <3> QED BY <3>1, <3>2, <3>4 DEF ParkInv, Parks, Fresh
  <2>11. SavedInv'
    BY <1>1, <1>2, <2>1, Types DEF SavedInv, TokenInv, HasSaved, SavedComing, SavedNoted
  <2>12. ReadyInv'
    BY <1>1, <1>2, <2>1, Types DEF ReadyInv, TokenInv, ReadyComing, ReadyNoted
  <2> QED BY <2>5, <2>6, <2>7, <2>8, <2>9, <2>10, <2>11, <2>12 DEF IInv
<1>7. CASE at' = "stopping" /\ frozen' \in {FALSE, frozen} /\ UNCHANGED <<fence, waits, calls>>
  <2>1. TypeOK'
    <3>1. frozen' \in BOOLEAN
      BY <1>2, <1>7, Zenon DEF TypeOK
    <3> QED BY <1>1, <1>2, <1>4, <1>7, <3>1 DEF TypeOK, Places
  <2>2. Kept
    BY <1>1, <1>7 DEF Kept, Return, processVars, runnerVars
  <2>3. ProcessInv' /\ WaitInv'
    BY <1>1, <1>2, <1>3, <1>7 DEF ProcessInv, WaitInv
  <2>4. FreshInv'
    BY <1>1, <1>2, <1>7 DEF FreshInv, Opens, Fresh, Settled
  <2>5. ParkInv' /\ ReadyInv'
    BY <1>7 DEF ParkInv, ReadyInv, Arriving
  <2>6. SavedInv'
    BY <1>1, <1>2, <1>7, <2>2, KeptInv DEF SavedInv
  <2> QED BY <2>1, <2>2, <2>3, <2>4, <2>5, <2>6, KeptInv DEF IInv
<1> QED BY <1>6, <1>7 DEF Return

(* A request to leave, and one to shut down, are put behind the others.     *)
LEMMA AsksKeeps ==
  ASSUME IInv, at = "foreground" \/ at = "parked", process = "up",
         NEW call \in Call, calls' = Append(calls, call),
         \/ at = "foreground" /\ Parks(call) /\ call.live
            /\ at' = "hiding" /\ waits' = "reply"
         \/ call.op = "shutdown" /\ ~call.live
            /\ at' = "stopping" /\ waits' = "nothing",
         frozen' \in BOOLEAN, fence' = fence,
         UNCHANGED processVars
  PROVE  IInv'
<1>1. /\ process' = "up" /\ at' \in {"hiding", "stopping"}
      /\ UNCHANGED <<channel, events, app, overtaken, token, milestones, status>>
      /\ forwarding' = forwarding
  BY DEF processVars, runnerVars
<1>2. /\ TypeOK /\ ProcessInv /\ WaitInv /\ TokenInv /\ FreshInv
      /\ ParkInv /\ OvertakenInv /\ SavedInv /\ ReadyInv
  BY DEF IInv
<1>3. \A i \in DOMAIN calls : ~calls[i].live
  BY <1>2 DEF WaitInv, Arriving
<1>4. forwarding' \in BOOLEAN
  BY <1>1, <1>2, Zenon DEF TypeOK
<1>5. NoneFresh /\ ~Fresh(call)
  BY <1>2 DEF FreshInv, Settled, Fresh, Parks
<1>6. calls \in Seq(Call)
  BY <1>2 DEF TypeOK
<1>7. /\ calls' \in Seq(Call)
      /\ Len(calls) \in Nat /\ DOMAIN calls = 1..Len(calls)
      /\ DOMAIN calls' = 1..Len(calls) + 1
      /\ \A i \in DOMAIN calls : i \in DOMAIN calls' /\ calls'[i] = calls[i]
      /\ calls'[Len(calls) + 1] = call
      /\ \A i \in DOMAIN calls' : i \in DOMAIN calls \/ i = Len(calls) + 1
  BY <1>6, AppendOf
<1>8. TypeOK'
  BY <1>1, <1>2, <1>4, <1>7 DEF TypeOK, Places
<1>9. ProcessInv'
  BY <1>1 DEF ProcessInv
<1>10. WaitInv'
  BY <1>3, <1>7 DEF WaitInv
<1>11. TokenInv' /\ OvertakenInv'
  BY <1>1, <1>2 DEF TokenInv, OvertakenInv
<1>12. NoneFresh'
  <2>1. \A i \in DOMAIN calls' : ~Fresh(calls'[i])
    BY <1>5, <1>7 DEF NoneFresh
  <2> QED BY <1>1, <1>5, <2>1 DEF NoneFresh, Fresh
<1>13. FreshInv'
  BY <1>12 DEF FreshInv, NoneFresh, Opens
<1>14. ParkInv' /\ ReadyInv'
  BY <1>1 DEF ParkInv, ReadyInv, Arriving
<1>15. SavedInv'
  BY <1>1, <1>2, <1>12 DEF SavedInv, HasSaved, SavedComing, SavedNoted
<1> QED BY <1>8, <1>9, <1>10, <1>11, <1>13, <1>14, <1>15 DEF IInv

(* A park asks for the background under the current fence.                 *)
LEMMA ParkKeeps ==
  ASSUME IInv, Park
  PROVE  IInv'
<1> DEFINE call == Command("background", fence)
<1>1. call \in Call /\ call.live /\ Parks(call)
  BY Types DEF Command, Call, Ops, Parks
<1>2. frozen \in BOOLEAN
  BY DEF IInv, TypeOK
<1>3. frozen' \in BOOLEAN
  <2>1. frozen' = frozen
    BY DEF Park
  <2> QED BY <1>2, <2>1, Zenon
<1>4. calls' = Append(calls, call) /\ waits' = "reply"
  BY DEF Park, Asks
<1> HIDE DEF call
<1> QED BY <1>1, <1>3, <1>4, AsksKeeps DEF Park

(* A close asks for the shutdown and waits for no reply.                   *)
LEMMA CloseKeeps ==
  ASSUME IInv, Close
  PROVE  IInv'
<1> DEFINE call == [Command("shutdown", fence) EXCEPT !.live = FALSE]
<1>1. call \in Call /\ ~call.live /\ call.op = "shutdown"
  BY Types DEF Command, Call, Ops
<1>2. calls' = Append(calls, call)
  BY DEF Close
<1> HIDE DEF call
<1> QED BY <1>1, <1>2, AsksKeeps DEF Close

(***************************************************************************)
(* The runner                                                              *)
(***************************************************************************)
(* The first command of a fence, in an empty channel and with no status.   *)
LEMMA StartRunnerKeeps ==
  ASSUME IInv, StartRunner
  PROVE  IInv'
<1> DEFINE first == [op |-> "start", token |-> fence]
<1>1. /\ process = "booting" /\ process' = "up"
      /\ UNCHANGED <<at, waits, fence, calls, events, app, overtaken>>
      /\ frozen' = frozen
      /\ token' = fence /\ milestones' = NoMilestones /\ status' = NoStatus
      /\ forwarding' = TRUE /\ channel' = <<first>>
  BY DEF StartRunner, daemonVars
<1>2. /\ TypeOK /\ ProcessInv /\ WaitInv /\ TokenInv /\ FreshInv
      /\ ParkInv /\ OvertakenInv /\ SavedInv /\ ReadyInv
  BY DEF IInv
<1>3. /\ at \in {"starting", "stopping"} /\ overtaken < fence /\ 0 < fence
      /\ calls = <<>> /\ events = <<>> /\ app = NewProcess
  BY <1>1, <1>2, Types DEF ProcessInv
<1>4. /\ first \in Message /\ Fresh(first) /\ ~Parks(first) /\ first.token = fence
      /\ Len(channel') = 1 /\ DOMAIN channel' = {1} /\ channel'[1] = first
  BY <1>1, Types DEF Message, Ops, Fresh, Parks
<1>5. channel' \in Seq(Message)
  BY <1>1, <1>4
<1> HIDE DEF first
<1>6. /\ NoMilestones \in Progress /\ NoMilestones.token = 0
      /\ NoStatus \in StatusFile /\ NoStatus.token = 0
  BY DEF NoMilestones, NoStatus, Progress, StatusFile
<1>7. DOMAIN calls' = {} /\ DOMAIN events' = {} /\ DOMAIN app'.todo = {} /\ app'.token = 0
  BY <1>1, <1>3, Idle
<1>8. TypeOK'
  <2>1. frozen' \in BOOLEAN /\ forwarding' \in BOOLEAN
    BY <1>1, <1>2, Zenon DEF TypeOK
  <2> QED BY <1>1, <1>2, <1>5, <1>6, <2>1 DEF TypeOK
<1>9. ProcessInv'
  BY <1>1 DEF ProcessInv
<1>10. WaitInv'
  BY <1>1, <1>2 DEF WaitInv
<1>11. TokenInv'
  BY <1>1, <1>4, <1>6, <1>7, Types DEF TokenInv
<1>12. FreshInv'
  <2>1. at' \notin Settled
    BY <1>1, <1>3 DEF Settled
  <2>2. (\A i \in DOMAIN channel : Opens(channel, i))'
    BY <1>1, <1>3, <1>4, Types DEF Opens
  <2>3. \A i \in DOMAIN channel' : app'.token < fence'
    BY <1>1, <1>3, <1>7
  <2> QED BY <1>7, <2>1, <2>2, <2>3 DEF FreshInv
<1>13. ParkInv'
  <2>1. \A i \in DOMAIN channel' : ~Parks(channel'[i])
    BY <1>4
  <2> QED BY <1>7, <2>1 DEF ParkInv, Parks
<1>14. OvertakenInv'
  BY <1>1, <1>3, <1>7, Types DEF OvertakenInv
<1>15. SavedInv'
  BY <1>1, <1>3, <1>6, <1>7 DEF SavedInv, HasSaved, SavedComing, SavedNoted
<1>16. ReadyInv'
  BY <1>1, <1>3, <1>6, <1>7 DEF ReadyInv, ReadyComing, ReadyNoted
<1> QED BY <1>8, <1>9, <1>10, <1>11, <1>12, <1>13, <1>14, <1>15, <1>16 DEF IInv

(* A command goes into the channel under the token of the runner: everyone  *)
(* else in it is older, or of the same fence and behind its first command.  *)
LEMMA SendsKeeps ==
  ASSUME IInv, NEW m \in Message,
         channel' = Append(channel, m), m.token = token', UNCHANGED <<fence, app, overtaken>>,
         token' \in Nat, token <= token', token' <= fence,
         Fresh(m) => token' = fence /\ token < fence
  PROVE  /\ channel' \in Seq(Message)
         /\ \A i \in DOMAIN channel' : (i \in DOMAIN channel /\ channel'[i] = channel[i])
                                       \/ channel'[i] = m
         /\ (\A i \in DOMAIN channel : app.token <= channel[i].token /\ channel[i].token <= token)'
         /\ (\A i \in DOMAIN channel : channel[i].token <= channel[Len(channel)].token)'
         /\ (\A i \in DOMAIN channel : Opens(channel, i))'
         /\ (\A i \in DOMAIN channel : Fresh(channel[i]) => app.token < fence)'
<1>1. channel \in Seq(Message) /\ TokenInv /\ FreshInv
  BY DEF IInv, TypeOK
<1>2. /\ channel' \in Seq(Message)
      /\ Len(channel) \in Nat /\ DOMAIN channel = 1..Len(channel)
      /\ Len(channel') = Len(channel) + 1
      /\ DOMAIN channel' = 1..Len(channel) + 1
      /\ \A i \in DOMAIN channel : i \in DOMAIN channel' /\ channel'[i] = channel[i]
      /\ channel'[Len(channel) + 1] = m
      /\ \A i \in DOMAIN channel' : i \in DOMAIN channel \/ i = Len(channel) + 1
  BY <1>1, AppendOf
<1>3. app.token <= m.token
  BY <1>1, Types DEF TokenInv
<1>4. \A i \in DOMAIN channel' : app.token <= channel'[i].token /\ channel'[i].token <= token'
  BY <1>1, <1>2, <1>3, Types DEF TokenInv
<1>5. \A i \in DOMAIN channel' : channel'[i].token <= channel'[Len(channel')].token
  BY <1>2, <1>4
<1>6. \A i \in DOMAIN channel' : Opens(channel, i)'
  <2> SUFFICES ASSUME NEW i \in DOMAIN channel', Fresh(channel'[i]), NEW j \in DOMAIN channel'
               PROVE  channel'[j].token < fence' <=> j < i
    BY DEF Opens, Fresh
  <2>1. CASE i = Len(channel) + 1
    <3>1. token < fence /\ m.token = fence
      BY <1>2, <2>1
    <3>2. \A k \in DOMAIN channel : channel[k].token < fence
      BY <1>1, <3>1, Types DEF TokenInv
    <3> QED BY <1>2, <2>1, <3>1, <3>2, Types
  <2>2. CASE i \in DOMAIN channel
    <3>1. Fresh(channel[i]) /\ \A k \in DOMAIN channel : channel[k].token < fence <=> k < i
      BY <1>1, <1>2, <2>2 DEF FreshInv, Opens
    <3>2. ~(channel[i].token < fence) /\ channel[i].token <= token
      BY <1>1, <2>2, <3>1, Types DEF TokenInv
    <3>3. ~(m.token < fence)
      BY <2>2, <3>2, Types
    <3> QED BY <1>2, <2>2, <3>1, <3>3
  <2> QED BY <1>2, <2>1, <2>2
<1>7. \A i \in DOMAIN channel' : Fresh(channel'[i]) => app.token < fence
  <2>1. Fresh(m) => app.token < fence
    BY <1>1, Types DEF TokenInv
  <2> QED BY <1>1, <1>2, <2>1 DEF FreshInv
<1> QED BY <1>2, <1>4, <1>5, <1>6, <1>7 DEF Fresh

(* graceful_stop(): a command under the token there is.                    *)
LEMMA TerminateKeeps ==
  ASSUME IInv, Terminate
  PROVE  IInv'
<1> DEFINE m == [op |-> "shutdown", token |-> token]
<1>1. /\ UNCHANGED <<at, waits, fence, process, calls, events, app, overtaken, token, milestones, status>>
      /\ frozen' = frozen /\ forwarding' = forwarding
      /\ process = "up" /\ at = "stopping" /\ channel' = Append(channel, m)
  BY DEF Terminate, Runs, daemonVars, runnerVars
<1>2. /\ TypeOK /\ ProcessInv /\ WaitInv /\ TokenInv /\ FreshInv
      /\ ParkInv /\ OvertakenInv /\ SavedInv /\ ReadyInv
  BY DEF IInv
<1>3. m \in Message /\ ~Fresh(m) /\ m.token = token
  BY Types DEF Message, Ops, Fresh
<1> HIDE DEF m
<1>4. token <= token' /\ token' <= fence /\ token' \in Nat
  BY <1>1, <1>2, Types DEF TokenInv
<1>5. /\ channel' \in Seq(Message)
      /\ \A i \in DOMAIN channel' : (i \in DOMAIN channel /\ channel'[i] = channel[i])
                                    \/ channel'[i] = m
      /\ (\A i \in DOMAIN channel : app.token <= channel[i].token /\ channel[i].token <= token)'
      /\ (\A i \in DOMAIN channel : channel[i].token <= channel[Len(channel)].token)'
      /\ (\A i \in DOMAIN channel : Opens(channel, i))'
      /\ (\A i \in DOMAIN channel : Fresh(channel[i]) => app.token < fence)'
  BY <1>1, <1>3, <1>4, SendsKeeps
<1>6. TypeOK'
  <2>1. frozen' \in BOOLEAN /\ forwarding' \in BOOLEAN
    BY <1>1, <1>2, Zenon DEF TypeOK
  <2> QED BY <1>1, <1>2, <1>5, <2>1 DEF TypeOK
<1>7. ProcessInv' /\ WaitInv' /\ OvertakenInv'
  BY <1>1, <1>2 DEF ProcessInv, WaitInv, OvertakenInv
<1>8. TokenInv'
  BY <1>1, <1>2, <1>5 DEF TokenInv
<1>9. FreshInv'
  BY <1>1, <1>2, <1>5 DEF FreshInv, Settled, Opens, Fresh
<1>10. ParkInv' /\ ReadyInv'
  BY <1>1 DEF ParkInv, ReadyInv, Arriving
<1>11. SavedInv'
  BY <1>1, <1>2, <1>3, <1>5 DEF SavedInv, HasSaved, SavedComing, SavedNoted, NoneFresh, Fresh
<1> QED BY <1>6, <1>7, <1>8, <1>9, <1>10, <1>11 DEF IInv

(* An event of the present token is noted, and the file written, once; one  *)
(* of an older token says nothing of the fence.                            *)
LEMMA ForwardKeeps ==
  ASSUME IInv, Forward
  PROVE  IInv'
<1> DEFINE e == Head(events)
<1>1. /\ UNCHANGED <<at, waits, fence, process, calls, channel, app, overtaken, token>>
      /\ frozen' = frozen
      /\ process = "up" /\ events # <<>> /\ events' = Tail(events)
      /\ \/ /\ e.token = token /\ milestones' = Enriched(e)
            /\ status' = [token |-> e.token, event |-> e.event,
                          saved |-> Enriched(e).saved, background |-> Enriched(e).background]
            /\ forwarding' = forwarding
         \/ e.token = token /\ milestones' = Enriched(e) /\ forwarding' = FALSE /\ status' = status
         \/ e.token # token /\ milestones' = milestones /\ status' = status /\ forwarding' = forwarding
  BY DEF Forward, Runs, daemonVars
<1>2. /\ TypeOK /\ ProcessInv /\ WaitInv /\ TokenInv /\ FreshInv
      /\ ParkInv /\ OvertakenInv /\ SavedInv /\ ReadyInv
  BY DEF IInv
<1>3. /\ events' \in Seq(Report)
      /\ 1 \in DOMAIN events /\ e = events[1] /\ e \in Report
      /\ \A i \in DOMAIN events' : i + 1 \in DOMAIN events /\ events'[i] = events[i + 1]
      /\ \A i \in DOMAIN events : i # 1 => i - 1 \in DOMAIN events' /\ events'[i - 1] = events[i]
  BY <1>1, <1>2, TailOf DEF TypeOK
<1> HIDE DEF e
<1>4. /\ e.token \in Nat /\ e.token <= app.token /\ e.event \in {"ready", "saved", "background", "failed"}
  BY <1>2, <1>3 DEF Report, TokenInv
<1>5. /\ Enriched(e) \in Progress /\ Enriched(e).token = e.token
      /\ Enriched(e).saved <=> (milestones.token = e.token /\ milestones.saved) \/ e.event = "saved"
  <2>1. milestones \in Progress
    BY <1>2 DEF TypeOK
  <2>2. /\ Milestones(e.token) \in Progress
        /\ Milestones(e.token).saved <=> milestones.token = e.token /\ milestones.saved
    BY <1>4, <2>1 DEF Milestones, NoMilestones, Progress
  <2> DEFINE M == Milestones(e.token)
             s == M.saved \/ e.event = "saved"
             b == M.background \/ e.event = "background"
  <2>3. s \in BOOLEAN /\ b \in BOOLEAN
    OBVIOUS
  <2>4. Enriched(e) = [[[M EXCEPT !.token = e.token] EXCEPT !.saved = s] EXCEPT !.background = b]
    BY <2>2 DEF Enriched, Progress
  <2>5. s <=> (milestones.token = e.token /\ milestones.saved) \/ e.event = "saved"
    BY <2>2
  <2> HIDE DEF M, s, b
  <2>6. Enriched(e).token = e.token /\ Enriched(e).saved = s /\ Enriched(e) \in Progress
    BY <1>4, <2>2, <2>3, <2>4 DEF M, Progress
  <2> QED BY <2>5, <2>6
<1>6. milestones' \in Progress /\ status' \in StatusFile
  <2>1. milestones' \in Progress
    BY <1>1, <1>2, <1>5 DEF TypeOK
  <2>2. Enriched(e).saved \in BOOLEAN /\ Enriched(e).background \in BOOLEAN
    BY <1>5 DEF Progress
  <2>3. status' \in StatusFile
    BY <1>1, <1>2, <1>4, <2>2 DEF TypeOK, StatusFile
  <2> QED BY <2>1, <2>3
<1>7. /\ e.token = token => milestones'.token = e.token
                            /\ (milestones'.saved <=> (milestones.token = e.token /\ milestones.saved)
                                                      \/ e.event = "saved")
      /\ e.token # token => milestones' = milestones
      /\ status' = status \/ /\ e.token = token /\ status'.token = e.token
                             /\ status'.event = e.event /\ status'.saved = milestones'.saved
  BY <1>1, <1>5
<1> HIDE DEF IInv
<1>8. TypeOK'
  <2>1. frozen' \in BOOLEAN /\ forwarding' \in BOOLEAN
    BY <1>1, <1>2, Zenon DEF TypeOK
  <2> QED BY <1>1, <1>2, <1>3, <1>6, <2>1 DEF TypeOK
<1>9. ProcessInv'
  BY <1>1 DEF ProcessInv
<1>10. WaitInv' /\ ParkInv' /\ OvertakenInv'
  BY <1>1, <1>2 DEF WaitInv, ParkInv, OvertakenInv, Parks, Fresh
<1>11. FreshInv' /\ NoneFresh' = NoneFresh /\ OnScreen' = OnScreen
  BY <1>1, <1>2 DEF FreshInv, Opens, NoneFresh, Fresh, OnScreen, NoneParks, Parks
<1>12. TokenInv'
  <2>1. milestones'.token <= token'
    BY <1>1, <1>2, <1>7, Types DEF TokenInv
  <2>2. status'.token <= fence'
    BY <1>1, <1>2, <1>4, <1>7, Types DEF TokenInv
  <2>3. \A i \in DOMAIN events' : events'[i].token <= app'.token
    BY <1>1, <1>2, <1>3 DEF TokenInv
  <2> QED BY <1>1, <1>2, <2>1, <2>2, <2>3 DEF TokenInv
<1>13. e.token = fence => token = fence
  BY <1>2, <1>4, Types DEF TokenInv
<1>14. SavedNoted => SavedNoted'
  BY <1>1, <1>2, <1>7, <1>13, Types DEF SavedNoted, TokenInv
<1>15. HasSaved' = HasSaved
  <2>1. HasSaved => HasSaved'
    <3>1. CASE SavedNoted
      BY <1>14, <3>1 DEF HasSaved
    <3>2. CASE SavedComing
      <4>1. PICK i \in DOMAIN events : events[i].event = "saved" /\ events[i].token = fence
        BY <3>2 DEF SavedComing
      <4>2. CASE i = 1
        BY <1>1, <1>3, <1>7, <1>13, <4>1, <4>2 DEF HasSaved, SavedNoted
      <4>3. CASE i # 1
        BY <1>1, <1>3, <4>1, <4>3 DEF HasSaved, SavedComing
      <4> QED BY <4>2, <4>3
    <3> QED BY <3>1, <3>2 DEF HasSaved
  <2>2. HasSaved' => HasSaved
    <3>1. SavedComing' => SavedComing
      BY <1>1, <1>3 DEF SavedComing
    <3>2. SavedNoted' => SavedNoted \/ SavedComing
      BY <1>1, <1>3, <1>7 DEF SavedNoted, SavedComing
    <3> QED BY <3>1, <3>2 DEF HasSaved
  <2>3. HasSaved \in BOOLEAN /\ HasSaved' \in BOOLEAN
    BY DEF HasSaved
  <2> QED BY <2>1, <2>2, <2>3
<1>16. SavedInv'
  <2>1. status'.saved /\ status'.token = fence' => SavedNoted'
    BY <1>1, <1>2, <1>7, <1>14 DEF SavedInv, SavedNoted
  <2> QED BY <1>1, <1>2, <1>11, <1>15, <2>1 DEF SavedInv
<1>17. ReadyInv'
  <2>1. ReadyComing' => ReadyComing
    BY <1>1, <1>3 DEF ReadyComing
  <2>2. ReadyNoted' => ReadyNoted \/ ReadyComing
    BY <1>1, <1>3, <1>7 DEF ReadyNoted, ReadyComing
  <2> QED BY <1>1, <1>2, <1>11, <2>1, <2>2 DEF ReadyInv
<1> QED BY <1>8, <1>9, <1>10, <1>11, <1>12, <1>16, <1>17 DEF IInv

(* A request is taken off the socket, and sent under the token it brought.  *)
LEMMA DispatchKeeps ==
  ASSUME IInv, Dispatch
  PROVE  IInv'
<1> DEFINE call == Head(calls)
           m == [op |-> call.op, token |-> token']
<1>1. /\ UNCHANGED <<fence, process, events, app, overtaken, milestones, status>>
      /\ frozen' = frozen /\ forwarding' = forwarding
      /\ process = "up" /\ calls # <<>> /\ calls' = Tail(calls)
      /\ token' = IF call.op = "foreground" THEN call.fence ELSE token
      /\ channel' = channel \/ channel' = Append(channel, m)
  BY DEF Dispatch, Runs, Advances
<1>2. /\ TypeOK /\ ProcessInv /\ WaitInv /\ TokenInv /\ FreshInv
      /\ ParkInv /\ OvertakenInv /\ SavedInv /\ ReadyInv
  BY DEF IInv
<1>3. \/ ~call.live /\ at' = at /\ waits' = waits
      \/ call.live /\ at' = at /\ waits' = "status"
      \/ call.live /\ at' = (IF at = "hiding" THEN "unparked" ELSE "stopping") /\ waits' = "nothing"
  BY DEF Dispatch, Replies, GivesUp
<1>4. /\ calls' \in Seq(Call)
      /\ 1 \in DOMAIN calls /\ call = calls[1] /\ call \in Call
      /\ \A i \in DOMAIN calls' : i + 1 \in DOMAIN calls /\ calls'[i] = calls[i + 1]
      /\ \A i \in DOMAIN calls : i # 1 => i - 1 \in DOMAIN calls' /\ calls'[i - 1] = calls[i]
  BY <1>1, <1>2, TailOf DEF TypeOK
<1>5. /\ call.op \in Ops \ {"start"} /\ call.fence \in Nat
      /\ Fresh(call) <=> call.op = "foreground"
  BY <1>4 DEF Call, Fresh, Ops
<1>6. /\ Fresh(call) => token' = fence /\ token < fence
      /\ ~Fresh(call) => token' = token
      /\ Fresh(call) => \A i \in DOMAIN calls' : ~Fresh(calls'[i])
  <2>1. Fresh(call) => call.fence = fence /\ token < fence
    BY <1>2, <1>4 DEF FreshInv
  <2>2. ASSUME Fresh(call), NEW i \in DOMAIN calls', Fresh(calls'[i])
        PROVE  FALSE
    <3>1. i + 1 \in DOMAIN calls /\ Fresh(calls[i + 1])
      BY <1>4, <2>2 DEF Fresh
    <3>2. i + 1 = 1
      BY <1>2, <1>4, <2>2, <3>1 DEF FreshInv
    <3>3. i \in Nat /\ i >= 1
      BY <1>4
    <3> QED BY <3>2, <3>3
  <2> QED BY <1>1, <1>5, <2>1, <2>2
<1>7. token' \in Nat /\ token <= token' /\ token' <= fence
  BY <1>2, <1>6, Types DEF TokenInv
<1>8. m \in Message /\ m.token = token' /\ m.op = call.op
  BY <1>5, <1>7 DEF Message
<1>9. (Fresh(m) <=> Fresh(call)) /\ (Parks(m) <=> Parks(call))
  BY <1>8 DEF Fresh, Parks
<1> HIDE DEF call, m
<1>10. /\ channel' \in Seq(Message)
       /\ \A i \in DOMAIN channel' : \/ i \in DOMAIN channel /\ channel'[i] = channel[i]
                                     \/ channel' # channel /\ channel'[i] = m
       /\ (\A i \in DOMAIN channel : app.token <= channel[i].token /\ channel[i].token <= token)'
       /\ (\A i \in DOMAIN channel : channel[i].token <= channel[Len(channel)].token)'
       /\ (\A i \in DOMAIN channel : Opens(channel, i))'
       /\ (\A i \in DOMAIN channel : Fresh(channel[i]) => app.token < fence)'
  <2>1. CASE channel' = channel
    BY <1>1, <1>2, <1>7, <2>1, Types DEF TypeOK, TokenInv, FreshInv, Opens, Fresh
  <2>2. CASE channel' = Append(channel, m) /\ channel' # channel
    BY <1>1, <1>6, <1>7, <1>8, <1>9, <2>2, SendsKeeps
  <2> QED BY <1>1, <2>1, <2>2
<1>11. NoneFresh => NoneFresh'
  <2> SUFFICES ASSUME NoneFresh PROVE NoneFresh'
    OBVIOUS
  <2>1. ~Fresh(m)
    BY <1>4, <1>9 DEF NoneFresh
  <2>2. \A i \in DOMAIN channel' : ~Fresh(channel'[i])
    BY <1>10, <2>1 DEF NoneFresh
  <2>3. \A i \in DOMAIN calls' : ~Fresh(calls'[i])
    BY <1>4 DEF NoneFresh
  <2> QED BY <1>1, <2>2, <2>3 DEF NoneFresh, Fresh
<1>12. OnScreen => OnScreen'
  <2> SUFFICES ASSUME OnScreen PROVE OnScreen'
    OBVIOUS
  <2>1. ~Parks(m)
    BY <1>4, <1>9 DEF OnScreen, NoneParks
  <2>2. \A i \in DOMAIN channel' : ~Parks(channel'[i])
    BY <1>10, <2>1 DEF OnScreen, NoneParks
  <2>3. \A i \in DOMAIN calls' : ~Parks(calls'[i])
    BY <1>4 DEF OnScreen, NoneParks
  <2> QED BY <1>1, <1>11, <2>2, <2>3 DEF OnScreen, NoneParks, Parks
<1>13. call.live => /\ waits = "reply"
                    /\ \A i \in DOMAIN calls' : ~calls'[i].live
  <2>1. call.live => waits = "reply"
    BY <1>2, <1>4 DEF WaitInv
  <2>2. ASSUME call.live, NEW i \in DOMAIN calls', calls'[i].live
        PROVE  FALSE
    <3>1. i + 1 = 1
      BY <1>2, <1>4, <2>2 DEF WaitInv
    <3>2. i \in Nat /\ i >= 1
      BY <1>4
    <3> QED BY <3>1, <3>2
  <2> QED BY <2>1, <2>2
<1>14. TypeOK'
  <2>1. frozen' \in BOOLEAN /\ forwarding' \in BOOLEAN
    BY <1>1, <1>2, Zenon DEF TypeOK
  <2>2. at' \in Places /\ waits' \in {"nothing", "reply", "status"}
    BY <1>2, <1>3 DEF TypeOK, Places
  <2> QED BY <1>1, <1>2, <1>4, <1>7, <1>10, <2>1, <2>2 DEF TypeOK
<1>15. ProcessInv'
  BY <1>1 DEF ProcessInv
<1>16. WaitInv'
  <2>1. waits' # "nothing" => at' \in Arriving \cup {"hiding"}
    BY <1>2, <1>3, <1>13 DEF WaitInv
  <2>2. CASE call.live
    BY <1>13, <2>1, <2>2 DEF WaitInv
  <2>3. CASE ~call.live
    <3>1. \A i \in DOMAIN calls' : calls'[i].live => waits' = "reply"
      BY <1>2, <1>3, <1>4, <2>3 DEF WaitInv
    <3>2. ASSUME NEW i \in DOMAIN calls', NEW j \in DOMAIN calls', calls'[i].live, calls'[j].live
          PROVE  i = j
      <4>1. i + 1 = j + 1
        BY <1>2, <1>4, <3>2 DEF WaitInv
      <4>2. i \in Nat /\ j \in Nat
        BY <1>4
      <4> QED BY <4>1, <4>2
    <3> QED BY <2>1, <3>1, <3>2 DEF WaitInv
  <2> QED BY <2>2, <2>3
<1>17. TokenInv'
  BY <1>1, <1>2, <1>7, <1>10, Types DEF TokenInv
<1>18. FreshInv'
  <2>1. ASSUME NEW i \in DOMAIN calls', Fresh(calls'[i])
        PROVE  /\ calls'[i].fence = fence' /\ token' < fence'
               /\ \A j \in DOMAIN calls' : Fresh(calls'[j]) => i = j
    <3>1. ~Fresh(call) /\ token' = token
      BY <1>6, <2>1
    <3>2. /\ calls[i + 1].fence = fence /\ token < fence
          /\ \A j \in DOMAIN calls : Fresh(calls[j]) => i + 1 = j
      BY <1>2, <1>4, <2>1 DEF FreshInv
    <3>3. i \in Nat /\ \A j \in DOMAIN calls' : j \in Nat
      BY <1>4
    <3>4. \A j \in DOMAIN calls' : Fresh(calls'[j]) => i + 1 = j + 1
      BY <1>4, <3>2
    <3> QED BY <1>1, <1>4, <3>1, <3>2, <3>3, <3>4
  <2>2. at' \in Settled => NoneFresh'
    BY <1>2, <1>3, <1>11 DEF FreshInv, Settled
  <2>3. (\A i \in DOMAIN app.todo : Opens(app.todo, i))'
    BY <1>1, <1>2 DEF FreshInv, Opens, Fresh
  <2> QED BY <1>10, <2>1, <2>2, <2>3 DEF FreshInv, Fresh
<1>19. ParkInv'
  <2> SUFFICES ASSUME at' \in Arriving PROVE ParkInv'
    BY DEF ParkInv
  <2>1. at \in Arriving
    BY <1>3 DEF Arriving
  <2>2. Parks(m) => token' < fence
    <3> SUFFICES ASSUME Parks(m) PROVE token' < fence
      OBVIOUS
    <3>1. PICK j \in DOMAIN calls : 1 < j /\ Fresh(calls[j])
      BY <1>2, <1>4, <1>9, <2>1 DEF ParkInv
    <3>2. token < fence /\ ~Fresh(call)
      BY <1>2, <1>9, <3>1 DEF FreshInv, Fresh, Parks
    <3> QED BY <1>6, <3>2
  <2>3. \A i \in DOMAIN channel' : Parks(channel'[i]) => channel'[i].token < fence
    BY <1>2, <1>8, <1>10, <2>1, <2>2 DEF ParkInv
  <2>4. ASSUME NEW i \in DOMAIN calls', Parks(calls'[i])
        PROVE  \E j \in DOMAIN calls' : i < j /\ Fresh(calls'[j])
    <3>1. PICK j \in DOMAIN calls : i + 1 < j /\ Fresh(calls[j])
      BY <1>2, <1>4, <2>1, <2>4 DEF ParkInv
    <3>2. i \in Nat /\ j \in Nat /\ i >= 1
      BY <1>4, Types
    <3>3. j - 1 \in DOMAIN calls' /\ calls'[j - 1] = calls[j] /\ i < j - 1
      BY <1>4, <3>1, <3>2
    <3> QED BY <3>1, <3>3
  <2> QED BY <1>1, <1>2, <2>1, <2>3, <2>4 DEF ParkInv, Parks, Fresh
<1>20. OvertakenInv'
  BY <1>1, <1>2 DEF OvertakenInv, Parks
<1>21. HasSaved' = HasSaved /\ SavedNoted' = SavedNoted
  BY <1>1 DEF HasSaved, SavedComing, SavedNoted
<1>22. SavedInv'
  <2>1. at' \in {"handing", "parked"} => at \in {"handing", "parked"}
    BY <1>3
  <2> QED BY <1>1, <1>2, <1>11, <1>21, <2>1 DEF SavedInv
<1>23. ReadyInv'
  <2>1. /\ at' \in Arriving => at \in Arriving
        /\ at' = "foreground" => at = "foreground"
    BY <1>3 DEF Arriving
  <2>2. ReadyComing' = ReadyComing /\ ReadyNoted' = ReadyNoted
    BY <1>1 DEF ReadyComing, ReadyNoted
  <2> QED BY <1>1, <1>2, <1>12, <2>1, <2>2 DEF ReadyInv
<1> QED BY <1>14, <1>15, <1>16, <1>17, <1>18, <1>19, <1>20, <1>22, <1>23 DEF IInv

(***************************************************************************)
(* The process                                                             *)
(***************************************************************************)
(* poll() answers everything it read under the newest of its tokens: an     *)
(* older request to leave among it is the one that was overtaken.          *)
LEMMA PollKeeps ==
  ASSUME IInv, Poll
  PROVE  IInv'
<1> DEFINE newest == channel[Len(channel)].token
<1>1. /\ UNCHANGED <<at, waits, fence, process, calls, events, token, milestones, status>>
      /\ frozen' = frozen /\ forwarding' = forwarding
      /\ process = "up" /\ app.todo = <<>> /\ channel # <<>> /\ channel' = <<>>
      /\ app' = [app EXCEPT !.todo = channel, !.token = newest]
      /\ overtaken' = IF Overtakes THEN newest ELSE overtaken
  BY DEF Poll, Works, Runs, environment, daemonVars, runnerVars, Last
<1>2. /\ TypeOK /\ ProcessInv /\ WaitInv /\ TokenInv /\ FreshInv
      /\ ParkInv /\ OvertakenInv /\ SavedInv /\ ReadyInv
  BY DEF IInv
<1>3. Len(channel) \in DOMAIN channel
  BY <1>1, <1>2 DEF TypeOK
<1>4. /\ newest \in Nat /\ app.token <= newest /\ newest <= token
      /\ \A i \in DOMAIN channel : channel[i].token <= newest
  BY <1>2, <1>3, Types DEF TokenInv
<1>5. Overtakes <=> \E i \in DOMAIN channel : Parks(channel[i]) /\ channel[i].token < newest
  BY DEF Overtakes, Parks, Last
<1> HIDE DEF newest
<1>6. /\ app' \in Client /\ app'.todo = channel /\ app'.token = newest
      /\ app'.mode = app.mode /\ app'.dirty = app.dirty
  BY <1>1, <1>2, <1>4 DEF TypeOK, Client
<1>7. DOMAIN channel' = {} /\ channel' \in Seq(Message)
  BY <1>1
<1>8. overtaken' \in Nat /\ overtaken' <= fence
  BY <1>1, <1>2, <1>4, Types DEF TokenInv, OvertakenInv
<1>9. TypeOK'
  <2>1. frozen' \in BOOLEAN /\ forwarding' \in BOOLEAN
    BY <1>1, <1>2, Zenon DEF TypeOK
  <2> QED BY <1>1, <1>2, <1>6, <1>7, <1>8, <2>1 DEF TypeOK
<1>10. ProcessInv' /\ WaitInv'
  BY <1>1, <1>2 DEF ProcessInv, WaitInv
<1>11. TokenInv'
  <2>1. \A i \in DOMAIN events : events[i].token <= newest
    BY <1>2, <1>4, Types DEF TokenInv
  <2> QED BY <1>1, <1>2, <1>4, <1>6, <1>7, <2>1, Types DEF TokenInv
<1>12. (NoneFresh => NoneFresh') /\ (OnScreen => OnScreen')
  BY <1>1, <1>6, <1>7 DEF NoneFresh, NoneParks, OnScreen, Fresh, Parks
<1>13. FreshInv'
  BY <1>1, <1>2, <1>6, <1>7, <1>12 DEF FreshInv, Opens, Fresh
<1>14. ParkInv'
  BY <1>1, <1>2, <1>6, <1>7 DEF ParkInv, Parks, Fresh
<1>15. overtaken = fence => overtaken' = fence
  BY <1>1, <1>2, <1>4, Types DEF OvertakenInv, TokenInv
<1>16. OvertakenInv'
  <2>1. overtaken' = fence => newest = fence
    BY <1>1, <1>2, <1>4, Types DEF OvertakenInv, TokenInv
  <2>2. \A i \in DOMAIN channel : Parks(channel[i]) =>
          channel[i].token = newest \/ overtaken' = newest
    BY <1>1, <1>4, <1>5, Types
  <2> QED BY <1>1, <1>6, <1>8, <2>1, <2>2 DEF OvertakenInv, Parks
<1>17. SavedInv'
  <2>1. HasSaved' = HasSaved /\ SavedNoted' = SavedNoted
    BY <1>1 DEF HasSaved, SavedComing, SavedNoted
  <2>2. app.token = fence => app'.token = fence
    BY <1>2, <1>4, <1>6, Types DEF TokenInv
  <2> QED BY <1>1, <1>2, <1>6, <1>12, <1>15, <2>1, <2>2 DEF SavedInv
<1>18. ReadyInv'
  BY <1>1, <1>2, <1>12 DEF ReadyInv, ReadyComing, ReadyNoted
<1> QED BY <1>9, <1>10, <1>11, <1>13, <1>14, <1>16, <1>17, <1>18 DEF IInv

(* Behind the first command of a fence there is no other, and with the      *)
(* fence reached neither channel nor socket holds one.                     *)
LEMMA NothingFresher ==
  ASSUME IInv, app.todo # <<>>, app.token = fence, ~(app.todo[1].token < fence)
  PROVE  /\ \A i \in DOMAIN app.todo : Fresh(app.todo[i]) => i = 1
         /\ \A i \in DOMAIN channel : ~Fresh(channel[i])
         /\ \A i \in DOMAIN calls : ~Fresh(calls[i])
<1>1. TokenInv /\ FreshInv
  BY DEF IInv
<1>2. 1 \in DOMAIN app.todo
  BY Types
<1>3. \A i \in DOMAIN app.todo : Fresh(app.todo[i]) => i = 1
  <2> SUFFICES ASSUME NEW i \in DOMAIN app.todo, Fresh(app.todo[i]) PROVE i = 1
    OBVIOUS
  <2>1. ~(1 < i)
    BY <1>1, <1>2 DEF FreshInv, Opens
  <2>2. i \in Nat /\ i >= 1
    BY Types
  <2> QED BY <2>1, <2>2
<1>4. ~(app.token < fence) /\ ~(token < fence)
  BY <1>1, Types DEF TokenInv
<1> QED BY <1>1, <1>3, <1>4 DEF FreshInv

(* What is the same of the three ways to handle a command.                  *)
LEMMA HandledKeeps ==
  ASSUME IInv, app.todo # <<>>, process = "up", process' = "up",
         UNCHANGED <<environment, channel, overtaken>>,
         app' \in Client, app'.token = app.token, app'.todo = Tail(app.todo),
         events' \in Seq(Report), \A i \in DOMAIN events' : events'[i].token <= app.token
  PROVE  /\ TypeOK' /\ ProcessInv' /\ WaitInv' /\ TokenInv' /\ FreshInv'
         /\ ParkInv' /\ OvertakenInv'
         /\ NoneFresh => NoneFresh'
         /\ NoneParks => NoneParks'
<1>1. /\ UNCHANGED <<at, waits, fence, calls, channel, token, milestones, status, overtaken>>
      /\ frozen' = frozen /\ forwarding' = forwarding
  BY DEF environment, daemonVars, runnerVars
<1>2. /\ TypeOK /\ ProcessInv /\ WaitInv /\ TokenInv /\ FreshInv
      /\ ParkInv /\ OvertakenInv
  BY DEF IInv
<1>3. \A i \in DOMAIN app'.todo : /\ i + 1 \in DOMAIN app.todo /\ app'.todo[i] = app.todo[i + 1]
                                  /\ i \in Nat
  <2>1. app.todo \in Seq(Message)
    BY Types
  <2>2. /\ Tail(app.todo) \in Seq(Message)
        /\ \A i \in DOMAIN Tail(app.todo) : /\ i + 1 \in DOMAIN app.todo
                                            /\ Tail(app.todo)[i] = app.todo[i + 1]
    BY <2>1, TailOf
  <2>3. \A i \in DOMAIN Tail(app.todo) : i \in Nat
    BY <2>2
  <2> QED BY <2>2, <2>3
<1> HIDE DEF IInv
<1>4. TypeOK'
  <2>1. frozen' \in BOOLEAN /\ forwarding' \in BOOLEAN
    BY <1>1, <1>2, Zenon DEF TypeOK
  <2> QED BY <1>1, <1>2, <2>1 DEF TypeOK
<1>5. ProcessInv' /\ WaitInv'
  BY <1>1, <1>2 DEF ProcessInv, WaitInv
<1>6. TokenInv'
  BY <1>1, <1>2, <1>3 DEF TokenInv
<1>7. (NoneFresh => NoneFresh') /\ (NoneParks => NoneParks')
  BY <1>1, <1>3 DEF NoneFresh, NoneParks, Fresh, Parks
<1>8. (\A i \in DOMAIN app.todo : Opens(app.todo, i))'
  <2> SUFFICES ASSUME NEW i \in DOMAIN app'.todo, Fresh(app'.todo[i]), NEW j \in DOMAIN app'.todo
               PROVE  app'.todo[j].token < fence' <=> j < i
    BY DEF Opens, Fresh
  <2>1. app.todo[j + 1].token < fence <=> j + 1 < i + 1
    BY <1>2, <1>3 DEF FreshInv, Opens
  <2> QED BY <1>1, <1>3, <2>1
<1>9. FreshInv'
  BY <1>1, <1>2, <1>7, <1>8 DEF FreshInv, Opens, Fresh
<1>10. ParkInv'
  BY <1>1, <1>2, <1>3 DEF ParkInv, Parks, Fresh
<1>11. OvertakenInv'
  BY <1>1, <1>2, <1>3 DEF OvertakenInv, Parks
<1> QED BY <1>4, <1>5, <1>6, <1>7, <1>9, <1>10, <1>11

(* The process takes the first of the commands it has read.                *)
LEMMA HandleKeeps ==
  ASSUME IInv, Handle
  PROVE  IInv'
<1> DEFINE h == Head(app.todo)
<1>1. /\ UNCHANGED <<environment, process, channel, overtaken>>
      /\ UNCHANGED <<at, fence, process, calls, channel, token, milestones, status, overtaken>>
      /\ process = "up" /\ app.todo # <<>>
      /\ \/ Fresh(h) /\ Shown
         \/ Parks(h) /\ Saved
         \/ Fails
  BY DEF Handle, Runs, environment, daemonVars, runnerVars, Fresh, Parks
<1>2. /\ TypeOK /\ ProcessInv /\ WaitInv /\ TokenInv /\ FreshInv
      /\ ParkInv /\ OvertakenInv /\ SavedInv /\ ReadyInv
  BY DEF IInv
<1>3. /\ Tail(app.todo) \in Seq(Message) /\ 1 \in DOMAIN app.todo /\ h = app.todo[1]
      /\ \A i \in DOMAIN Tail(app.todo) : i + 1 \in DOMAIN app.todo
                                          /\ Tail(app.todo)[i] = app.todo[i + 1] /\ i >= 1
  BY <1>1, Types, TailOf
<1>4. h.token \in Nat /\ h.token <= app.token /\ app.token <= token /\ token <= fence
  BY <1>2, <1>3, Types DEF TokenInv
<1>5. events \in Seq(Report) /\ app \in Client
  BY <1>2 DEF TypeOK
<1> HIDE DEF h
<1>6. CASE Fresh(h) /\ Shown
  <2> DEFINE e == Event("ready")
  <2>1. e \in Report /\ e.token = app.token /\ e.event = "ready"
    BY Types DEF Event, Report
  <2>2. app' = [app EXCEPT !.todo = Tail(@), !.mode = "foreground"] /\ events' = Append(events, e)
    BY <1>6 DEF Shown
  <2> HIDE DEF e
  <2>3. /\ app' \in Client /\ app'.token = app.token /\ app'.todo = Tail(app.todo)
        /\ app'.mode = "foreground"
    BY <1>3, <1>5, <2>2 DEF Client
  <2>4. /\ events' \in Seq(Report)
        /\ \A i \in DOMAIN events : i \in DOMAIN events' /\ events'[i] = events[i]
        /\ \A i \in DOMAIN events' : (i \in DOMAIN events /\ events'[i] = events[i]) \/ events'[i] = e
    BY <1>5, <2>1, <2>2, AppendOf
  <2>5. \A i \in DOMAIN events' : events'[i].token <= app.token
    BY <1>2, <2>1, <2>4, Types DEF TokenInv
  <2>6. /\ TypeOK' /\ ProcessInv' /\ WaitInv' /\ TokenInv' /\ FreshInv'
        /\ ParkInv' /\ OvertakenInv'
    BY <1>1, <2>3, <2>4, <2>5, HandledKeeps
  <2>7. ~(app.todo[1].token < fence) /\ app.token = fence
    <3>1. ~(app.todo[1].token < fence)
      BY <1>2, <1>3, <1>6 DEF FreshInv, Opens
    <3> QED BY <1>3, <1>4, <3>1, Types
  <2>8. /\ \A i \in DOMAIN app.todo : Fresh(app.todo[i]) => i = 1
        /\ \A i \in DOMAIN channel : ~Fresh(channel[i])
        /\ \A i \in DOMAIN calls : ~Fresh(calls[i])
    BY <1>1, <2>7, NothingFresher
  <2>9. \A i \in DOMAIN app'.todo : ~Fresh(app'.todo[i])
    BY <1>3, <2>3, <2>8
  <2>10. NoneFresh'
    BY <1>1, <2>8, <2>9 DEF NoneFresh, Fresh
  <2>11. ~NoneFresh
    BY <1>3, <1>6 DEF NoneFresh
  <2>12. at \notin Settled
    BY <1>2, <2>11 DEF FreshInv
  <2>13. at \in Arriving => NoneParks'
    <3> SUFFICES ASSUME at \in Arriving PROVE NoneParks'
      OBVIOUS
    <3>1. \A i \in DOMAIN app'.todo : ~Parks(app'.todo[i])
      <4> SUFFICES ASSUME NEW i \in DOMAIN app'.todo, Parks(app'.todo[i]) PROVE FALSE
        OBVIOUS
      <4>1. i + 1 \in DOMAIN app.todo /\ Parks(app.todo[i + 1]) /\ i >= 1
        BY <1>3, <2>3
      <4>2. app.todo[i + 1].token < fence
        BY <1>2, <4>1 DEF ParkInv
      <4>3. i + 1 < 1
        BY <1>2, <1>3, <1>6, <4>1, <4>2 DEF FreshInv, Opens
      <4>4. i \in Nat
        BY <4>1, Types, <2>3
      <4> QED BY <4>1, <4>3, <4>4
    <3>2. \A i \in DOMAIN channel : ~Parks(channel[i])
      BY <1>2, <2>7, Types DEF ParkInv, TokenInv
    <3>3. \A i \in DOMAIN calls : ~Parks(calls[i])
      BY <1>2, <2>8 DEF ParkInv
    <3> QED BY <1>1, <3>1, <3>2, <3>3 DEF NoneParks, Parks
  <2>14. SavedInv'
    <3>1. HasSaved' => HasSaved
      BY <1>1, <2>1, <2>4 DEF HasSaved, SavedComing, SavedNoted
    <3>2. ~(at \in {"handing", "parked"})
      BY <2>12 DEF Settled
    <3>3. ~(process = "up" /\ overtaken # fence /\ HasSaved)
      BY <1>2, <2>11 DEF SavedInv
    <3>4. status'.saved /\ status'.token = fence' => SavedNoted'
      BY <1>1, <1>2 DEF SavedInv, SavedNoted
    <3> QED BY <1>1, <3>1, <3>2, <3>3, <3>4 DEF SavedInv
  <2>15. ReadyInv'
    <3>1. at # "foreground"
      BY <2>12 DEF Settled
    <3> QED BY <1>1, <2>3, <2>10, <2>13, <3>1 DEF ReadyInv, OnScreen
  <2> QED BY <2>6, <2>14, <2>15 DEF IInv
<1>7. CASE Parks(h) /\ Saved
  <2> DEFINE d == Event("saved")
             e == Event("background")
  <2>1. /\ d \in Report /\ d.token = app.token /\ d.event = "saved"
        /\ e \in Report /\ e.token = app.token /\ e.event = "background"
    BY Types DEF Event, Report
  <2>2. /\ app' = [app EXCEPT !.todo = Tail(@), !.mode = "background", !.dirty = FALSE]
        /\ events' = events \o <<d, e>>
    BY <1>7 DEF Saved
  <2> HIDE DEF d, e
  <2>3. /\ app' \in Client /\ app'.token = app.token /\ app'.todo = Tail(app.todo)
        /\ app'.mode = "background" /\ ~app'.dirty
    BY <1>3, <1>5, <2>2 DEF Client
  <2>4. /\ events' \in Seq(Report)
        /\ \A i \in DOMAIN events : i \in DOMAIN events' /\ events'[i] = events[i]
        /\ \A i \in DOMAIN events' :
             i \in DOMAIN events \/ events'[i] = d \/ events'[i] = e
    BY <1>5, <2>1, <2>2, AppendTwo
  <2>5. \A i \in DOMAIN events' : events'[i].token <= app.token
    BY <1>2, <2>1, <2>4, Types DEF TokenInv
  <2>6. /\ TypeOK' /\ ProcessInv' /\ WaitInv' /\ TokenInv' /\ FreshInv'
        /\ ParkInv' /\ OvertakenInv'
    BY <1>1, <2>3, <2>4, <2>5, HandledKeeps
  <2>7. NoneFresh => NoneFresh'
    BY <1>1, <2>3, <2>4, <2>5, HandledKeeps
  <2>8. overtaken # fence /\ app.token = fence => NoneFresh'
    <3> SUFFICES ASSUME overtaken # fence, app.token = fence PROVE NoneFresh'
      OBVIOUS
    <3>1. h.token = fence
      BY <1>2, <1>3, <1>7 DEF OvertakenInv
    <3>2. ~(app.todo[1].token < fence)
      BY <1>3, <1>4, <3>1
    <3>3. /\ \A i \in DOMAIN app.todo : Fresh(app.todo[i]) => i = 1
          /\ \A i \in DOMAIN channel : ~Fresh(channel[i])
          /\ \A i \in DOMAIN calls : ~Fresh(calls[i])
      BY <1>1, <3>2, NothingFresher
    <3>4. \A i \in DOMAIN app'.todo : ~Fresh(app'.todo[i])
      BY <1>3, <2>3, <3>3
    <3> QED BY <1>1, <3>3, <3>4 DEF NoneFresh, Fresh
  <2>9. HasSaved' => HasSaved \/ app.token = fence
    BY <1>1, <2>1, <2>4 DEF HasSaved, SavedComing, SavedNoted
  <2>10. HasSaved => HasSaved'
    BY <1>1, <2>4 DEF HasSaved, SavedComing, SavedNoted
  <2>11. SavedInv'
    <3>1. overtaken # fence /\ HasSaved' => app.token = fence
      BY <1>1, <1>2, <2>9 DEF SavedInv
    <3>2. status'.saved /\ status'.token = fence' => SavedNoted'
      BY <1>1, <1>2 DEF SavedInv, SavedNoted
    <3>3. at \in {"handing", "parked"} => HasSaved'
      BY <1>1, <1>2, <2>10 DEF SavedInv
    <3> QED BY <1>1, <2>3, <2>8, <3>1, <3>2, <3>3 DEF SavedInv
  <2>12. ReadyInv'
    <3>1. ~OnScreen
      BY <1>3, <1>7 DEF OnScreen, NoneParks
    <3>2. ReadyComing' => ReadyComing
      BY <1>1, <2>1, <2>4 DEF ReadyComing
    <3>3. ReadyNoted' = ReadyNoted
      BY <1>1 DEF ReadyNoted
    <3> QED BY <1>1, <1>2, <3>1, <3>2, <3>3 DEF ReadyInv
  <2> QED BY <2>6, <2>11, <2>12 DEF IInv
<1>8. CASE Fails
  <2> DEFINE e == Event("failed")
  <2>1. e \in Report /\ e.token = app.token /\ e.event = "failed"
    BY Types DEF Event, Report
  <2>2. app' = [app EXCEPT !.todo = Tail(@)] /\ events' = Append(events, e)
    BY <1>8 DEF Fails
  <2> HIDE DEF e
  <2>3. /\ app' \in Client /\ app'.token = app.token /\ app'.todo = Tail(app.todo)
        /\ app'.mode = app.mode /\ app'.dirty = app.dirty
    BY <1>3, <1>5, <2>2 DEF Client
  <2>4. /\ events' \in Seq(Report)
        /\ \A i \in DOMAIN events : i \in DOMAIN events' /\ events'[i] = events[i]
        /\ \A i \in DOMAIN events' : (i \in DOMAIN events /\ events'[i] = events[i]) \/ events'[i] = e
    BY <1>5, <2>1, <2>2, AppendOf
  <2>5. \A i \in DOMAIN events' : events'[i].token <= app.token
    BY <1>2, <2>1, <2>4, Types DEF TokenInv
  <2>6. /\ TypeOK' /\ ProcessInv' /\ WaitInv' /\ TokenInv' /\ FreshInv'
        /\ ParkInv' /\ OvertakenInv'
        /\ NoneFresh => NoneFresh'
        /\ NoneParks => NoneParks'
    BY <1>1, <2>3, <2>4, <2>5, HandledKeeps
  <2>7. HasSaved' <=> HasSaved
    BY <1>1, <2>1, <2>4 DEF HasSaved, SavedComing, SavedNoted
  <2>8. SavedInv'
    <3>1. status'.saved /\ status'.token = fence' => SavedNoted'
      BY <1>1, <1>2 DEF SavedInv, SavedNoted
    <3> QED BY <1>1, <1>2, <2>3, <2>6, <2>7, <3>1 DEF SavedInv
  <2>9. ReadyInv'
    <3>1. OnScreen => OnScreen'
      BY <2>3, <2>6 DEF OnScreen
    <3>2. ReadyComing' => ReadyComing
      BY <1>1, <2>1, <2>4 DEF ReadyComing
    <3>3. ReadyNoted' = ReadyNoted
      BY <1>1 DEF ReadyNoted
    <3> QED BY <1>1, <1>2, <3>1, <3>2, <3>3 DEF ReadyInv
  <2> QED BY <2>6, <2>8, <2>9 DEF IInv
<1> QED BY <1>1, <1>6, <1>7, <1>8

(* Only who is in the foreground is worked with.                           *)
LEMMA EditKeeps ==
  ASSUME IInv, Edit
  PROVE  IInv'
<1>1. /\ UNCHANGED <<at, waits, fence, process, calls, channel, events, token, milestones, status, overtaken>>
      /\ frozen' = frozen /\ forwarding' = forwarding
      /\ process = "up" /\ app.mode = "foreground" /\ app' = [app EXCEPT !.dirty = TRUE]
  BY DEF Edit, Works, Runs, environment, daemonVars, runnerVars
<1>2. /\ TypeOK /\ ProcessInv /\ WaitInv /\ TokenInv /\ FreshInv
      /\ ParkInv /\ OvertakenInv /\ SavedInv /\ ReadyInv
  BY DEF IInv
<1>3. /\ app' \in Client /\ app'.token = app.token /\ app'.todo = app.todo /\ app'.mode = app.mode
  BY <1>1, <1>2 DEF TypeOK, Client
<1>4. TypeOK'
  <2>1. frozen' \in BOOLEAN /\ forwarding' \in BOOLEAN
    BY <1>1, <1>2, Zenon DEF TypeOK
  <2> QED BY <1>1, <1>2, <1>3, <2>1 DEF TypeOK
<1>5. ProcessInv' /\ WaitInv' /\ TokenInv' /\ OvertakenInv'
  BY <1>1, <1>2, <1>3 DEF ProcessInv, WaitInv, TokenInv, OvertakenInv, Parks
<1>6. FreshInv' /\ ParkInv' /\ ReadyInv'
  BY <1>1, <1>2, <1>3
  DEF FreshInv, Opens, NoneFresh, NoneParks, Fresh, Parks, ParkInv, ReadyInv, ReadyComing, ReadyNoted, OnScreen
<1>7. HasSaved' = HasSaved /\ SavedNoted' = SavedNoted
  BY <1>1 DEF HasSaved, SavedComing, SavedNoted
<1>8. SavedInv'
  BY <1>1, <1>2, <1>7 DEF SavedInv
<1> QED BY <1>4, <1>5, <1>6, <1>8 DEF IInv

(***************************************************************************)
(* The theorems                                                            *)
(***************************************************************************)
(* Before the first launch nothing is known of any fence.                  *)
LEMMA InitInv == Init => IInv
<1> SUFFICES ASSUME Init PROVE IInv
  OBVIOUS
<1>1. /\ at = "off" /\ waits = "nothing" /\ fence = 0 /\ process = "none"
      /\ calls = <<>> /\ channel = <<>> /\ events = <<>> /\ token = 0 /\ overtaken = 0
      /\ app = NewProcess /\ milestones = NoMilestones /\ status = NoStatus
      /\ frozen = FALSE /\ forwarding = FALSE
  BY DEF Init
<1>2. /\ NoMilestones \in Progress /\ NoMilestones.token = 0
      /\ NoStatus \in StatusFile /\ NoStatus.token = 0 /\ NoStatus.saved = FALSE
      /\ NewProcess \in Client /\ NewProcess.token = 0 /\ NewProcess.todo = <<>>
  BY DEF NoMilestones, NoStatus, NewProcess, Progress, StatusFile, Client
<1>3. /\ calls \in Seq(Call) /\ channel \in Seq(Message) /\ events \in Seq(Report)
      /\ DOMAIN calls = {} /\ DOMAIN channel = {} /\ DOMAIN events = {} /\ DOMAIN app.todo = {}
  BY <1>1, <1>2
<1>4. TypeOK
  BY <1>1, <1>2, <1>3 DEF TypeOK, Places
<1>5. ProcessInv /\ WaitInv /\ TokenInv /\ FreshInv /\ ParkInv /\ OvertakenInv /\ SavedInv /\ ReadyInv
  BY <1>1, <1>2, <1>3
  DEF ProcessInv, WaitInv, TokenInv, FreshInv, NoneFresh, ParkInv, OvertakenInv, SavedInv, ReadyInv,
      Arriving, Settled
<1> QED BY <1>4, <1>5 DEF IInv

(* Every step of the daemon, the runner and the process keeps the invariant.*)
LEMMA NextInv == IInv /\ [Next]_vars => IInv'
<1> SUFFICES ASSUME IInv, [Next]_vars PROVE IInv'
  OBVIOUS
<1>1. CASE UNCHANGED vars
  <2>1. /\ Kept /\ at' = at /\ waits' = waits /\ frozen' = frozen
        /\ UNCHANGED <<fence, process, status, calls, channel, app, events, token, overtaken>>
    BY <1>1 DEF vars, Kept, daemonVars, processVars, runnerVars
  <2>2. /\ TypeOK /\ ProcessInv /\ WaitInv /\ TokenInv /\ FreshInv
        /\ ParkInv /\ OvertakenInv /\ SavedInv /\ ReadyInv
    BY DEF IInv
  <2>3. frozen' \in BOOLEAN
    BY <2>1, <2>2, Zenon DEF TypeOK
  <2>4. TypeOK'
    BY <2>1, <2>2, <2>3, KeptInv DEF TypeOK
  <2>5. ProcessInv' /\ WaitInv' /\ FreshInv' /\ ParkInv'
    BY <2>1, <2>2 DEF ProcessInv, WaitInv, FreshInv, Opens, NoneFresh, Fresh, ParkInv, Parks
  <2>6. SavedInv' /\ ReadyInv'
    BY <2>1, <2>2, KeptInv DEF SavedInv, ReadyInv
  <2> QED BY <2>1, <2>4, <2>5, <2>6, KeptInv DEF IInv
<1>2. CASE Next
  BY <1>2, LaunchKeeps, ReturnKeeps, ParkKeeps, DeadlineKeeps, ReadStatusKeeps, HandOffKeeps,
     CloseKeeps, KilledKeeps, NoticesKeeps, StartRunnerKeeps, DispatchKeeps, TerminateKeeps,
     ForwardKeeps, PollKeeps, HandleKeeps, EditKeeps, ExitsKeeps
  DEF Next
<1> QED BY <1>1, <1>2

(* For any number of fences the invariant holds throughout.                *)
THEOREM Invariance == Spec => []IInv
  BY InitInv, NextInv, PTL DEF Spec

(* Whoever is parked has stopped and saved: the milestones that the daemon *)
(* takes for the park's answer were earned by the process under that fence,*)
(* in any order of late answers, refusals and deaths of the event task.    *)
THEOREM ParkedAlwaysSaved == Spec => []ParkedHasSaved
<1>1. IInv => ParkedHasSaved
  BY DEF IInv, SavedInv, ParkedHasSaved
<1> QED BY <1>1, Invariance, PTL

(* The application on the screen knows that it is there, and no request to *)
(* leave is still ahead of it.                                             *)
THEOREM AlwaysAwakeInForeground == Spec => []AwakeInForeground
<1>1. IInv => AwakeInForeground
  BY DEF IInv, ReadyInv, OnScreen, NoneParks, Parks, AwakeInForeground
<1> QED BY <1>1, Invariance, PTL
=============================================================================
