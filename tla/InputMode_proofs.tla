-------------------------- MODULE InputMode_proofs --------------------------
(***************************************************************************)
(* For any number of applications, fences and requests: the display writes *)
(* exactly when the application in the foreground was told so.             *)
(***************************************************************************)
EXTENDS InputMode, TLAPS

USE InputModeAssumption DEF InputModeAssumption

(***************************************************************************)
(* The inductive invariant                                                 *)
(***************************************************************************)
Moving == {"wait", "commit", "activate"}

(* Where the loop is, the domain says; the loop holds the map of records    *)
(* while it waits for the display host, and only then.                      *)
LoopInv ==
  /\ pc = "idle" <=> transition # Loop
  /\ modes = Loop <=> pc = "activate"
  /\ pc = "idle" => domain.at \in {"Manager", "Foreground"}
  /\ pc = "register" => domain.at = "Launching"
  /\ pc \in {"recover", "park"} => domain.at = "Parking"
  /\ pc \in Moving \cup {"abandon"} => domain.at \in {"Launching", "Parking"}
  /\ domain.at # "Manager" => domain.app \in App

(* A request has both locks while it waits for the display host, for the    *)
(* application of the foreground and under its fence.                       *)
RequestInv ==
  \A r \in Requests :
    /\ request[r].pc = "configure" <=> transition = r
    /\ modes = r <=> transition = r
    /\ request[r].pc = "configure" => request[r].app \in App /\ Authorized(r)
    /\ request[r].pc # "unsent" => request[r].app \in App

(* Fences are given out once, and nothing is promised under a fence to come.*)
FenceInv ==
  /\ \A a \in App : record[a].epoch <= epoch
  /\ \A a, b \in App : record[a].epoch = record[b].epoch /\ record[a].epoch # 0 => a = b
  /\ \A e \in 1..MaxEpoch : e > epoch => told[e] = "none"

(* Only the application in transition is pending, and it is until the       *)
(* commit; the commit publishes the mode of the record.                     *)
PendingInv ==
  /\ \A a \in App : record[a].pending =>
       domain.app = a /\ pc \in Moving \cup {"abandon"}
  /\ pc \in Moving => record[domain.app].pending /\ record[domain.app].epoch # 0
  /\ pc = "activate" => chosen = record[domain.app].ink

(* A record holds what was promised last under its fence.                   *)
PromiseInv ==
  \A a \in App : record[a].epoch # 0 /\ told[record[a].epoch] # "none" =>
    told[record[a].epoch] = Policy(record[a].ink)

(* And the display host shows the record of the foreground.                 *)
HostInv ==
  domain.at = "Foreground" =>
    /\ record[domain.app].epoch # 0
    /\ host.app = domain.app /\ host.epoch = record[domain.app].epoch
    /\ ~unsure => host.ink = record[domain.app].ink

IInv == TypeOK /\ LoopInv /\ RequestInv /\ FenceInv /\ PendingInv /\ PromiseInv /\ HostInv

(***************************************************************************)
(* What the handlers do to a record and to a request                       *)
(***************************************************************************)
Records == [epoch : 0..MaxEpoch, ink : BOOLEAN, pending : BOOLEAN]
Places == {"unsent", "sent", "map", "lock", "configure", "done"}
Asked == [pc : Places, app : App \cup {NoApp}, epoch : 0..MaxEpoch, ink : BOOLEAN,
          startup : BOOLEAN]
Leases == [app : App \cup {NoApp}, epoch : 0..MaxEpoch, ink : BOOLEAN]
Domains == [at : {"Manager", "Launching", "Foreground", "Parking"}, app : App \cup {NoApp}]

(* The fields of a record, and of the fences.                               *)
LEMMA FieldTypes ==
  ASSUME TypeOK
  PROVE  /\ epoch \in 0..MaxEpoch
         /\ \A a \in App : record[a] \in Records /\ record[a].epoch \in 0..MaxEpoch
<1>1. \A a \in App : record[a] \in Records
  BY DEF TypeOK, Records
<1>2. ASSUME NEW a \in App PROVE record[a].epoch \in 0..MaxEpoch
  <2>1. record[a] \in Records
    BY <1>1
  <2> QED  BY <2>1 DEF Records
<1> QED  BY <1>1, <1>2 DEF TypeOK

(* A record that is replaced is the only one that changes.                  *)
LEMMA RecordReplaced ==
  ASSUME TypeOK, NEW a \in App, NEW v \in Records, record' = [record EXCEPT ![a] = v]
  PROVE  /\ record' \in [App -> Records]
         /\ record'[a] = v
         /\ \A b \in App : b # a => record'[b] = record[b]
  BY DEF TypeOK, Records

(* Its ink alone changes in a negotiation, its pending mark in a commit.    *)
LEMMA RecordInk ==
  ASSUME TypeOK, NEW a \in App, NEW ink \in BOOLEAN,
         record' = [record EXCEPT ![a].ink = ink]
  PROVE  /\ record' \in [App -> Records]
         /\ record'[a].ink = ink
         /\ \A b \in App : /\ record'[b].epoch = record[b].epoch
                           /\ record'[b].pending = record[b].pending
                           /\ b # a => record'[b].ink = record[b].ink
<1>1. record \in [App -> Records]
  BY DEF TypeOK, Records
<1>2. record' \in [App -> Records]
  BY <1>1 DEF Records
<1> QED  BY <1>1, <1>2 DEF Records

(* The pending mark alone changes in a commit.                             *)
LEMMA RecordCommitted ==
  ASSUME TypeOK, NEW a \in App, record' = [record EXCEPT ![a].pending = FALSE]
  PROVE  /\ record' \in [App -> Records]
         /\ record'[a].pending = FALSE
         /\ \A b \in App : /\ record'[b].epoch = record[b].epoch
                           /\ record'[b].ink = record[b].ink
                           /\ b # a => record'[b].pending = record[b].pending
<1>1. record \in [App -> Records]
  BY DEF TypeOK, Records
<1>2. record' \in [App -> Records]
  BY <1>1 DEF Records
<1> QED  BY <1>1, <1>2 DEF Records

(* Only the place of a request changes, and only of that one.               *)
LEMMA RequestMoves ==
  ASSUME TypeOK, NEW r \in Requests, NEW to \in Places, Moves(r, to)
  PROVE  /\ request' \in [Requests -> Asked]
         /\ request'[r].pc = to
         /\ \A s \in Requests : /\ request'[s].app = request[s].app
                                /\ request'[s].epoch = request[s].epoch
                                /\ s # r => request'[s].pc = request[s].pc
<1>1. request \in [Requests -> Asked]
  BY DEF TypeOK, Asked, Places
<1> QED  BY <1>1 DEF Moves, Asked

(* What a request finds when it has the locks does not concern the others.  *)
LEMMA AuthorizedByRecord ==
  ASSUME NEW r \in Requests, request[r].app \in App,
         domain' = domain, request'[r].app = request[r].app,
         request'[r].epoch = request[r].epoch,
         record'[request[r].app].epoch = record[request[r].app].epoch,
         record'[request[r].app].pending = record[request[r].app].pending,
         Authorized(r)
  PROVE  Authorized(r)'
  BY DEF Authorized, Matches, AnyToken

(* While the transition lock is not a request's, none of them configures    *)
(* the display.                                                             *)
LEMMA NobodyConfigures ==
  ASSUME IInv, transition \in {Free, Loop}
  PROVE  \A r \in Requests : transition # r /\ modes # r /\ request[r].pc # "configure"
  BY DEF IInv, RequestInv, Requests, Free, Loop

(* So the loop's steps concern no request.                                  *)
LEMMA LoopKeepsRequests ==
  ASSUME IInv, transition \in {Free, Loop}, transition' \in {Free, Loop},
         modes' \in {Free, Loop}, request' = request
  PROVE  RequestInv'
<1>1. \A r \in Requests : transition' # r /\ modes' # r /\ request'[r].pc # "configure"
  BY NobodyConfigures DEF Requests, Free, Loop
<1>2. \A r \in Requests : request'[r].pc # "unsent" => request'[r].app \in App
  BY DEF IInv, RequestInv
<1> QED  BY <1>1, <1>2 DEF RequestInv

(* A request that moves leaves everything else alone.                       *)
LEMMA RequestTyped ==
  ASSUME TypeOK, request' \in [Requests -> Asked], UNCHANGED requestOnly
  PROVE  TypeOK'
<1>1. UNCHANGED <<domain, transition, modes, pc, epoch, knows>>
  BY DEF requestOnly, loopVars
<1>2. UNCHANGED <<record, chosen, host, told, unsure>>
  BY DEF requestOnly, loopVars
<1>3. request' \in [Requests ->
        [pc : {"unsent", "sent", "map", "lock", "configure", "done"},
         app : App \cup {NoApp}, epoch : 0..MaxEpoch, ink : BOOLEAN, startup : BOOLEAN]]
  BY DEF Asked, Places
<1>4. chosen' = chosen /\ unsure' = unsure
  BY <1>2
<1>5. chosen' \in BOOLEAN /\ unsure' \in BOOLEAN
  BY <1>4, Zenon DEF TypeOK
<1>6. /\ domain' \in [at : {"Manager", "Launching", "Foreground", "Parking"},
                     app : App \cup {NoApp}]
      /\ transition' \in {Free, Loop} \cup Requests
      /\ modes' \in {Free, Loop} \cup Requests
      /\ pc' \in {"idle", "register", "recover", "wait", "commit", "activate", "abandon", "park"}
      /\ epoch' \in 0..MaxEpoch /\ knows' \in [App -> 0..MaxEpoch]
  BY <1>1, Zenon DEF TypeOK
<1>7. /\ record' \in [App -> [epoch : 0..MaxEpoch, ink : BOOLEAN, pending : BOOLEAN]]
      /\ host' \in [app : App \cup {NoApp}, epoch : 0..MaxEpoch, ink : BOOLEAN]
      /\ told' \in [1..MaxEpoch -> {"none", "ink", "no ink"}]
  BY <1>2, Zenon DEF TypeOK
<1> QED  BY <1>3, <1>5, <1>6, <1>7, Zenon DEF TypeOK

(***************************************************************************)
(* The invariant holds initially, and every action keeps it                *)
(***************************************************************************)
(* Nothing runs, nobody has a fence, the display host shows Home.           *)
LEMMA InitInv == Init => IInv
<1> SUFFICES ASSUME Init PROVE IInv
  OBVIOUS
<1> USE DEF Init, At, Shows, NoRecord, Unsent, Free, Loop
<1>1. TypeOK
  <2>1. record \in [App -> [epoch : 0..MaxEpoch, ink : BOOLEAN, pending : BOOLEAN]]
    OBVIOUS
  <2>2. request \in [Requests ->
          [pc : {"unsent", "sent", "map", "lock", "configure", "done"},
           app : App \cup {NoApp}, epoch : 0..MaxEpoch, ink : BOOLEAN, startup : BOOLEAN]]
    OBVIOUS
  <2>3. domain \in Domains /\ host \in Leases
    BY DEF Domains, Leases
  <2> QED  BY <2>1, <2>2, <2>3 DEF TypeOK, Domains, Leases
<1>2. LoopInv /\ RequestInv /\ FenceInv /\ PendingInv /\ PromiseInv /\ HostInv
  BY DEF LoopInv, RequestInv, Requests, FenceInv, PendingInv, Moving, PromiseInv, HostInv
<1> QED  BY <1>1, <1>2 DEF IInv

(* A transition begins while nobody holds the lock.                         *)
LEMMA LaunchKeeps ==
  ASSUME IInv, NEW a \in App, Launch(a)
  PROVE  IInv'
<1> USE DEF IInv, Launch, At, loopVars
<1>1. TypeOK'
  BY DEF TypeOK, Free, Loop
<1>2. LoopInv'
  BY DEF LoopInv, Moving
<1>3. RequestInv'
  BY LoopKeepsRequests DEF LoopInv, RequestInv, TypeOK
<1>4. FenceInv' /\ PromiseInv'
  BY DEF FenceInv, PromiseInv
<1>5. PendingInv' /\ HostInv'
  BY DEF PendingInv, HostInv, LoopInv, Moving, Free, Loop
<1> QED  BY <1>1, <1>2, <1>3, <1>4, <1>5

(* Parking leaves the foreground and touches no record.                    *)
LEMMA ParkBeginsKeeps ==
  ASSUME IInv, ParkBegins
  PROVE  IInv'
<1> USE DEF IInv, ParkBegins, At, loopVars
<1>1. TypeOK'
  BY DEF TypeOK, Free, Loop
<1>2. LoopInv'
  BY DEF LoopInv, Moving
<1>3. RequestInv'
  BY LoopKeepsRequests DEF LoopInv, RequestInv, TypeOK
<1>4. FenceInv' /\ PromiseInv'
  BY DEF FenceInv, PromiseInv
<1>5. PendingInv' /\ HostInv'
  BY DEF PendingInv, HostInv, LoopInv, Moving, Free, Loop
<1> QED  BY <1>1, <1>2, <1>3, <1>4, <1>5

(* A new fence has never been promised anything.                            *)
LEMMA RegisterKeeps ==
  ASSUME IInv, Register
  PROVE  IInv'
<1> DEFINE a == domain.app
           v == [epoch |-> epoch + 1, ink |-> FALSE, pending |-> TRUE]
<1> USE DEF IInv
<1>1. a \in App /\ transition = Loop /\ modes = Free
  BY DEF Register, LoopInv
<1>2. CASE epoch < MaxEpoch
  <2>1. /\ record' = [record EXCEPT ![a] = v]
        /\ epoch' = epoch + 1 /\ knows' = [knows EXCEPT ![a] = epoch + 1]
        /\ pc' = "wait" /\ unsure' = FALSE
        /\ UNCHANGED <<domain, transition, modes, chosen, host, request, told>>
    BY <1>2 DEF Register
  <2>2. v \in Records /\ epoch + 1 \in 0..MaxEpoch /\ epoch \in Nat
    <3>1. epoch + 1 \in 0..MaxEpoch /\ epoch \in Nat
      BY <1>2, FieldTypes
    <3> QED  BY <3>1 DEF Records
  <2> HIDE DEF v
  <2>3. /\ record' \in [App -> Records] /\ record'[a] = v
        /\ \A b \in App : b # a => record'[b] = record[b]
    BY <1>1, <2>1, <2>2, RecordReplaced
  <2>4. v.epoch = epoch + 1 /\ v.ink = FALSE /\ v.pending = TRUE
    BY DEF v
  <2> HIDE DEF a
  <2>5. TypeOK'
    BY <1>1, <2>1, <2>2, <2>3 DEF TypeOK, Records
  <2>6. LoopInv'
    BY <2>1, <1>1 DEF LoopInv, Register, Moving, Free, Loop
  <2>7. RequestInv'
    BY <1>1, <2>1, LoopKeepsRequests
  <2>8. FenceInv'
    <3>1. \A b \in App : /\ record'[b].epoch <= epoch + 1
                         /\ b # a => record'[b].epoch # epoch + 1
      BY <2>2, <2>3, <2>4, FieldTypes DEF FenceInv
    <3>2. ASSUME NEW b \in App, NEW c \in App,
                 record'[b].epoch = record'[c].epoch, record'[b].epoch # 0
          PROVE  b = c
      <4>1. record'[a].epoch = epoch + 1
        BY <2>3, <2>4
      <4>2. CASE b = a
        BY <2>2, <3>1, <3>2, <4>1, <4>2
      <4>3. CASE c = a
        BY <2>2, <3>1, <3>2, <4>1, <4>3
      <4>4. CASE b # a /\ c # a
        BY <2>3, <3>2, <4>4 DEF FenceInv
      <4> QED  BY <4>2, <4>3, <4>4
    <3>3. ASSUME NEW e \in 1..MaxEpoch, e > epoch + 1 PROVE told[e] = "none"
      <4>1. e > epoch
        BY <2>2, <3>3
      <4> QED  BY <4>1 DEF FenceInv
    <3>4. epoch' = epoch + 1 /\ told' = told
      BY <2>1
    <3>5. ASSUME NEW b \in App PROVE record'[b].epoch <= epoch'
      <4>1. record'[b].epoch <= epoch + 1
        BY <3>1, Zenon
      <4> QED  BY <3>4, <4>1, Zenon
    <3>6. \A e \in 1..MaxEpoch : e > epoch' => told'[e] = "none"
      BY <3>3, <3>4, Zenon
    <3> QED  BY <3>2, <3>5, <3>6 DEF FenceInv
  <2>9. PendingInv'
    <3>1. \A b \in App : b # a => ~record[b].pending
      BY DEF PendingInv, a
    <3> QED  BY <1>1, <2>1, <2>2, <2>3, <2>4, <3>1 DEF PendingInv, Moving, a
  <2>10. PromiseInv'
    <3>1. told[epoch + 1] = "none"
      BY <2>2 DEF FenceInv
    <3> QED  BY <2>1, <2>3, <2>4, <3>1 DEF PromiseInv
  <2>11. HostInv'
    BY <1>1, <2>1 DEF HostInv, LoopInv, Register
  <2> QED  BY <2>5, <2>6, <2>7, <2>8, <2>9, <2>10, <2>11
<1>3. CASE ~(epoch < MaxEpoch)
  <2>1. pc' = "abandon" /\ UNCHANGED loopVars /\ unsure' = FALSE
        /\ UNCHANGED <<domain, transition, modes, chosen, host, request, told>>
    BY <1>3 DEF Register
  <2>2. TypeOK'
    BY <2>1 DEF TypeOK, loopVars
  <2>3. LoopInv'
    BY <2>1 DEF LoopInv, Register, Moving
  <2>4. RequestInv'
    BY <1>1, <2>1, LoopKeepsRequests
  <2>5. FenceInv' /\ PromiseInv'
    BY <2>1 DEF FenceInv, PromiseInv, loopVars
  <2>6. PendingInv' /\ HostInv'
    BY <2>1 DEF PendingInv, HostInv, LoopInv, Register, Moving, loopVars
  <2> QED  BY <2>2, <2>3, <2>4, <2>5, <2>6
<1> QED  BY <1>2, <1>3

(* Steps of the loop that only change its place.                            *)
LEMMA PlaceKeeps ==
  ASSUME IInv, Ready \/ WaitFails \/ ParkFails
  PROVE  IInv'
<1> USE DEF IInv, Ready, WaitFails, ParkFails, loopVars
<1>1. TypeOK'
  BY DEF TypeOK
<1>2. LoopInv'
  BY DEF LoopInv, Moving
<1>3. RequestInv'
  <2>1. transition = Loop /\ modes \in {Free, Loop}
    BY DEF LoopInv, RequestInv, TypeOK, Requests, Free, Loop
  <2> QED  BY <2>1, LoopKeepsRequests
<1>4. FenceInv' /\ PromiseInv'
  BY DEF FenceInv, PromiseInv
<1>5. PendingInv' /\ HostInv'
  BY DEF PendingInv, HostInv, LoopInv, Moving
<1> QED  BY <1>1, <1>2, <1>3, <1>4, <1>5

(* The mode is read with the map locked, which no request opens until the   *)
(* host has answered.                                                       *)
LEMMA CommitBeginsKeeps ==
  ASSUME IInv, CommitBegins
  PROVE  IInv'
<1> USE DEF IInv, CommitBegins, HoldMap, loopVars
<1>1. TypeOK'
  <2>1. domain.app \in App
    BY DEF LoopInv, Moving
  <2>2. chosen' \in BOOLEAN
    BY <2>1 DEF TypeOK
  <2> QED  BY <2>2 DEF TypeOK
<1>2. LoopInv'
  BY DEF LoopInv, Moving, Free, Loop
<1>3. RequestInv'
  BY LoopKeepsRequests DEF LoopInv
<1>4. FenceInv' /\ PromiseInv'
  BY DEF FenceInv, PromiseInv
<1>5. PendingInv' /\ HostInv'
  BY DEF PendingInv, HostInv, LoopInv, Moving
<1> QED  BY <1>1, <1>2, <1>3, <1>4, <1>5

(* The host shows the record as it is then.                                 *)
LEMMA CommitEndsKeeps ==
  ASSUME IInv, CommitEnds
  PROVE  IInv'
<1> DEFINE a == domain.app
<1> USE DEF IInv
<1>1. /\ a \in App /\ transition = Loop
      /\ record[a].epoch # 0 /\ chosen = record[a].ink
      /\ \A b \in App : record[b].pending => b = a
  BY DEF CommitEnds, LoopInv, PendingInv, Moving
<1>2. /\ record' = [record EXCEPT ![a].pending = FALSE]
      /\ pc' = "idle" /\ transition' = Free /\ modes' = Free
      /\ host' = Shows(a, record[a].epoch, chosen)
      /\ domain' = At("Foreground", a)
      /\ UNCHANGED <<epoch, knows, chosen, request, told, unsure>>
  BY DEF CommitEnds
<1>3. /\ record' \in [App -> Records]
      /\ record'[a].pending = FALSE
      /\ \A b \in App : /\ record'[b].epoch = record[b].epoch
                        /\ record'[b].ink = record[b].ink
                        /\ b # a => record'[b].pending = record[b].pending
  BY <1>1, <1>2, RecordCommitted
<1>4. domain'.at = "Foreground" /\ domain'.app = a /\ domain' \in Domains
  BY <1>1, <1>2 DEF At, Domains
<1>5. host'.app = a /\ host'.epoch = record[a].epoch /\ host'.ink = chosen
  BY <1>2 DEF Shows
<1>6. host' \in Leases
  <2>1. record[a].epoch \in 0..MaxEpoch /\ chosen \in BOOLEAN
    BY <1>1 DEF TypeOK
  <2> QED  BY <1>1, <1>2, <2>1 DEF Shows, Leases
<1> HIDE DEF a
<1>7. TypeOK'
  BY <1>2, <1>3, <1>4, <1>6 DEF TypeOK, Records, Domains, Leases, Free, Loop
<1>8. LoopInv'
  BY <1>1, <1>2, <1>4 DEF LoopInv, Moving, Free, Loop
<1>9. RequestInv'
  BY <1>1, <1>2, LoopKeepsRequests
<1>10. FenceInv' /\ PromiseInv'
  BY <1>2, <1>3 DEF FenceInv, PromiseInv
<1>11. PendingInv'
  BY <1>1, <1>2, <1>3 DEF PendingInv, Moving
<1>12. HostInv'
  BY <1>1, <1>2, <1>3, <1>4, <1>5 DEF HostInv
<1> QED  BY <1>7, <1>8, <1>9, <1>10, <1>11, <1>12

(* A publication that failed may have taken effect.                         *)
LEMMA CommitFailsKeeps ==
  ASSUME IInv, CommitFails
  PROVE  IInv'
<1> USE DEF IInv
<1>1. /\ domain.app \in App /\ transition = Loop
      /\ domain.at \in {"Launching", "Parking"} /\ pc = "activate"
  BY DEF CommitFails, LoopInv, Moving
<1>2. /\ host' \in {host, Shows(domain.app, record[domain.app].epoch, chosen)}
      /\ modes' = Free /\ pc' = "abandon"
      /\ UNCHANGED <<domain, transition, loopVars, chosen, request, told, unsure>>
  BY DEF CommitFails
<1>3. host' \in Leases
  <2>1. record[domain.app].epoch \in 0..MaxEpoch /\ chosen \in BOOLEAN
    BY <1>1 DEF TypeOK
  <2>2. Shows(domain.app, record[domain.app].epoch, chosen) \in Leases
    BY <1>1, <2>1 DEF Shows, Leases
  <2> QED  BY <1>2, <2>2 DEF TypeOK, Leases
<1>4. TypeOK'
  BY <1>2, <1>3 DEF TypeOK, Leases, Free, loopVars
<1>5. LoopInv'
  BY <1>1, <1>2 DEF LoopInv, Moving, Free, Loop
<1>6. RequestInv'
  BY <1>1, <1>2, LoopKeepsRequests
<1>7. FenceInv' /\ PromiseInv'
  BY <1>2 DEF FenceInv, PromiseInv, loopVars
<1>8. PendingInv' /\ HostInv'
  BY <1>1, <1>2 DEF PendingInv, HostInv, Moving, loopVars
<1> QED  BY <1>4, <1>5, <1>6, <1>7, <1>8

(* A process that is forgotten takes its promises with it.                  *)
LEMMA ForgetKeeps ==
  ASSUME IInv, NEW a \in App, Forget(a), UNCHANGED <<epoch, told>>
  PROVE  /\ record' \in [App -> Records]
         /\ record'[a].epoch = 0 /\ record'[a].pending = FALSE
         /\ \A b \in App : b # a => record'[b] = record[b]
         /\ FenceInv' /\ PromiseInv'
<1>1. NoRecord \in Records /\ NoRecord.epoch = 0 /\ NoRecord.pending = FALSE
  BY DEF NoRecord, Records
<1>2. /\ record' \in [App -> Records] /\ record'[a] = NoRecord
      /\ \A b \in App : b # a => record'[b] = record[b]
  BY <1>1, RecordReplaced DEF Forget, IInv
<1>3. FenceInv'
  <2>1. \A b \in App : record'[b].epoch <= epoch
    BY <1>1, <1>2, FieldTypes DEF IInv, FenceInv
  <2>2. \A b, c \in App : record'[b].epoch = record'[c].epoch /\ record'[b].epoch # 0
                             => b = c
    BY <1>1, <1>2 DEF IInv, FenceInv
  <2> QED  BY <2>1, <2>2 DEF IInv, FenceInv
<1>4. PromiseInv'
  BY <1>1, <1>2 DEF IInv, PromiseInv
<1> QED  BY <1>1, <1>2, <1>3, <1>4

(* Giving up a transition forgets its record, and with it the pending mark.*)
LEMMA AbandonKeeps ==
  ASSUME IInv, Abandon
  PROVE  IInv'
<1> USE DEF IInv
<1>1. /\ domain.app \in App /\ transition = Loop
      /\ \A b \in App : record[b].pending => b = domain.app
  BY DEF Abandon, LoopInv, PendingInv
<1>2. /\ Forget(domain.app) /\ modes = Free /\ modes' = Free
      /\ domain' = At("Manager", NoApp) /\ host' = Shows(NoApp, 0, FALSE)
      /\ transition' = Free /\ pc' = "idle" /\ unsure' = FALSE
      /\ UNCHANGED <<epoch, knows, chosen, request, told>>
  BY DEF Abandon
<1>3. /\ record' \in [App -> Records]
      /\ record'[domain.app].epoch = 0 /\ record'[domain.app].pending = FALSE
      /\ \A b \in App : b # domain.app => record'[b] = record[b]
      /\ FenceInv' /\ PromiseInv'
  BY <1>1, <1>2, ForgetKeeps
<1>4. domain' \in Domains /\ domain'.at = "Manager" /\ host' \in Leases
  BY <1>2 DEF At, Shows, Domains, Leases
<1>5. TypeOK'
  BY <1>2, <1>3, <1>4 DEF TypeOK, Records, Domains, Leases, Free
<1>6. LoopInv'
  BY <1>2, <1>4 DEF LoopInv, Moving, Free, Loop
<1>7. RequestInv'
  BY <1>1, <1>2, LoopKeepsRequests
<1>8. PendingInv' /\ HostInv'
  BY <1>1, <1>2, <1>3, <1>4 DEF PendingInv, HostInv, Moving
<1> QED  BY <1>3, <1>5, <1>6, <1>7, <1>8

(* A parked application keeps a record that is not pending.                 *)
LEMMA ParkedKeeps ==
  ASSUME IInv, Parked
  PROVE  IInv'
<1> USE DEF IInv, loopVars
<1>1. /\ transition = Loop /\ modes # Loop /\ pc = "park"
      /\ \A b \in App : ~record[b].pending
  BY DEF Parked, LoopInv, PendingInv, Moving
<1>2. /\ domain' = At("Manager", NoApp) /\ host' = Shows(NoApp, 0, FALSE)
      /\ transition' = Free /\ pc' = "idle" /\ unsure' = FALSE
      /\ UNCHANGED <<modes, loopVars, chosen, request, told>>
  BY DEF Parked
<1>3. domain' \in Domains /\ domain'.at = "Manager" /\ host' \in Leases
  BY <1>2 DEF At, Shows, Domains, Leases
<1>4. modes = Free
  BY <1>1 DEF RequestInv, TypeOK, Requests, Free, Loop
<1>5. TypeOK'
  BY <1>2, <1>3 DEF TypeOK, Domains, Leases, Free
<1>6. LoopInv'
  BY <1>1, <1>2, <1>3, <1>4 DEF LoopInv, Moving, Free, Loop
<1>7. RequestInv'
  BY <1>1, <1>2, <1>4, LoopKeepsRequests
<1>8. FenceInv' /\ PromiseInv' /\ PendingInv' /\ HostInv'
  BY <1>1, <1>2, <1>3 DEF FenceInv, PromiseInv, PendingInv, HostInv, Moving
<1> QED  BY <1>5, <1>6, <1>7, <1>8

(* Who exits in the background leaves the foreground alone.                 *)
LEMMA ExitsKeeps ==
  ASSUME IInv, NEW a \in App, Exits(a)
  PROVE  IInv'
<1> USE DEF IInv
<1>1. /\ transition = Free /\ modes = Free /\ pc = "idle" /\ Forget(a)
      /\ \A b \in App : ~record[b].pending
      /\ UNCHANGED <<transition, modes, pc, epoch, knows, chosen, request, told>>
  BY DEF Exits, LoopInv, PendingInv, Moving, Free, Loop
<1>2. /\ record' \in [App -> Records]
      /\ record'[a].epoch = 0 /\ record'[a].pending = FALSE
      /\ \A b \in App : b # a => record'[b] = record[b]
      /\ FenceInv' /\ PromiseInv'
  BY <1>1, ForgetKeeps
<1>3. RequestInv'
  BY <1>1, LoopKeepsRequests
<1>4. PendingInv'
  BY <1>1, <1>2 DEF PendingInv, Moving
<1>5. CASE domain.app = a
  <2>1. /\ domain' = At("Manager", NoApp) /\ host' = Shows(NoApp, 0, FALSE)
        /\ unsure' = FALSE
    BY <1>5 DEF Exits
  <2>2. domain' \in Domains /\ domain'.at = "Manager" /\ host' \in Leases
    BY <2>1 DEF At, Shows, Domains, Leases
  <2>3. TypeOK'
    BY <1>1, <1>2, <2>1, <2>2 DEF TypeOK, Records, Domains, Leases
  <2>4. LoopInv' /\ HostInv'
    BY <1>1, <2>2 DEF LoopInv, HostInv, Moving, Free, Loop
  <2> QED  BY <1>2, <1>3, <1>4, <2>3, <2>4
<1>6. CASE domain.app # a
  <2>1. UNCHANGED <<domain, host, unsure>>
    BY <1>6 DEF Exits
  <2>2. TypeOK'
    BY <1>1, <1>2, <2>1 DEF TypeOK, Records
  <2>3. LoopInv'
    BY <1>1, <2>1 DEF LoopInv, Moving, Free, Loop
  <2>4. HostInv'
    BY <1>2, <1>6, <2>1 DEF HostInv, LoopInv
  <2> QED  BY <1>2, <1>3, <1>4, <2>2, <2>3, <2>4
<1> QED  BY <1>5, <1>6

(* A request that neither takes a lock nor has one concerns nobody.         *)
LEMMA RequestElsewhere ==
  ASSUME IInv, NEW r \in Requests, NEW to \in Places, Moves(r, to),
         request[r].pc \notin {"unsent", "configure"}, to # "configure",
         UNCHANGED <<domain, transition, modes>>,
         \A a \in App : record'[a].epoch = record[a].epoch
                        /\ record'[a].pending = record[a].pending
  PROVE  RequestInv'
<1>1. /\ request'[r].pc = to
      /\ \A s \in Requests : /\ request'[s].app = request[s].app
                             /\ request'[s].epoch = request[s].epoch
                             /\ s # r => request'[s].pc = request[s].pc
  BY RequestMoves DEF IInv
<1>2. ASSUME NEW s \in Requests
      PROVE  /\ request'[s].pc = "configure" <=> transition' = s
             /\ modes' = s <=> transition' = s
             /\ request'[s].pc = "configure" => request'[s].app \in App /\ Authorized(s)'
             /\ request'[s].pc # "unsent" => request'[s].app \in App
  <2>1. /\ request[s].pc = "configure" <=> transition = s
        /\ modes = s <=> transition = s
        /\ request[s].pc = "configure" => request[s].app \in App /\ Authorized(s)
        /\ request[s].pc # "unsent" => request[s].app \in App
    BY DEF IInv, RequestInv
  <2>2. request'[s].pc = "configure" => s # r
    BY <1>1
  <2>3. request'[s].pc = "configure" => Authorized(s)'
    BY <1>1, <2>1, <2>2, AuthorizedByRecord
  <2> QED  BY <1>1, <2>1, <2>2, <2>3
<1> QED  BY <1>2 DEF RequestInv

(* The first look at the domain only chooses the lock a request waits for. *)
LEMMA ReadDomainKeeps ==
  ASSUME IInv, NEW r \in Requests, ReadDomain(r)
  PROVE  IInv'
<1> USE DEF IInv
<1> DEFINE to == IF InTransition(request[r].app) THEN "map" ELSE "lock"
<1>1. Moves(r, to) /\ UNCHANGED requestOnly /\ request[r].pc = "sent"
  BY DEF ReadDomain
<1>2. to \in Places /\ to # "configure"
  BY DEF Places
<1> HIDE DEF to
<1>3. request' \in [Requests -> Asked]
  BY <1>1, <1>2, RequestMoves
<1>4. TypeOK'
  BY <1>1, <1>3, RequestTyped
<1>5. RequestInv'
  BY <1>1, <1>2, RequestElsewhere DEF requestOnly, loopVars
<1>6. LoopInv' /\ FenceInv' /\ PromiseInv'
  BY <1>1 DEF LoopInv, FenceInv, PromiseInv, requestOnly, loopVars
<1>7. PendingInv' /\ HostInv'
  BY <1>1 DEF PendingInv, HostInv, requestOnly, loopVars
<1> QED  BY <1>4, <1>5, <1>6, <1>7

(* What is promised under a fence goes to the record of that fence.         *)
LEMMA PromiseKeeps ==
  ASSUME IInv, NEW a \in App, NEW ink \in BOOLEAN, NEW e,
         record[a].epoch = e, e # 0,
         record' = [record EXCEPT ![a].ink = ink],
         told' = [told EXCEPT ![e] = Policy(ink)], epoch' = epoch
  PROVE  /\ told' \in [1..MaxEpoch -> {"none", "ink", "no ink"}]
         /\ FenceInv' /\ PromiseInv'
<1> USE DEF IInv
<1>1. e \in 1..MaxEpoch /\ e <= epoch /\ epoch \in 0..MaxEpoch
  BY FieldTypes DEF FenceInv
<1>2. /\ record'[a].ink = ink
      /\ \A b \in App : /\ record'[b].epoch = record[b].epoch
                        /\ b # a => record'[b].ink = record[b].ink
  BY RecordInk
<1>3. Policy(ink) \in {"ink", "no ink"}
  BY DEF Policy
<1>4. /\ told' \in [1..MaxEpoch -> {"none", "ink", "no ink"}]
      /\ told'[e] = Policy(ink)
      /\ \A f \in 1..MaxEpoch : f # e => told'[f] = told[f]
  BY <1>1, <1>3 DEF TypeOK
<1>5. FenceInv'
  <2>1. \A f \in 1..MaxEpoch : f > epoch => f # e
    BY <1>1, SMTT(30)
  <2>2. \A f \in 1..MaxEpoch : f > epoch => told'[f] = "none"
    BY <1>4, <2>1 DEF FenceInv
  <2> QED  BY <1>2, <2>2 DEF FenceInv
<1>6. ASSUME NEW b \in App, record'[b].epoch # 0, told'[record'[b].epoch] # "none"
      PROVE  told'[record'[b].epoch] = Policy(record'[b].ink)
  <2>1. CASE b = a
    BY <1>2, <1>4, <2>1
  <2>2. CASE b # a
    <3>1. record[b].epoch # e /\ record[b].epoch \in 1..MaxEpoch
      BY <1>2, <1>6, <2>2, FieldTypes DEF FenceInv
    <3>2. told[record[b].epoch] = Policy(record[b].ink)
      BY <1>2, <1>4, <1>6, <3>1 DEF PromiseInv
    <3> QED  BY <1>2, <1>4, <2>2, <3>1, <3>2
  <2> QED  BY <2>1, <2>2
<1> QED  BY <1>4, <1>5, <1>6 DEF PromiseInv

(* A negotiation reads the domain under the lock of the map, so that it     *)
(* changes a pending record and never one that is being published.          *)
LEMMA NegotiateKeeps ==
  ASSUME IInv, NEW r \in Requests, Negotiate(r)
  PROVE  IInv'
<1> DEFINE q == request[r]
<1> USE DEF IInv
<1>1. /\ q.pc = "map" /\ modes = Free /\ q.app \in App /\ q.ink \in BOOLEAN
      /\ UNCHANGED <<domain, transition, modes, pc, epoch, knows, chosen, host, unsure>>
  BY DEF Negotiate, RequestInv, TypeOK
<1>2. PICK to \in {"lock", "done"} : Moves(r, to)
  BY DEF Negotiate
<1>3. request' \in [Requests -> Asked]
  BY <1>2, RequestMoves DEF Places
<1>4. CASE UNCHANGED <<record, told>>
  <2>1. TypeOK'
    BY <1>1, <1>3, <1>4, RequestTyped DEF requestOnly, loopVars
  <2>2. RequestInv'
    BY <1>1, <1>2, <1>4, RequestElsewhere DEF Places
  <2>3. LoopInv' /\ FenceInv' /\ PromiseInv'
    BY <1>1, <1>4 DEF LoopInv, FenceInv, PromiseInv
  <2>4. PendingInv' /\ HostInv'
    BY <1>1, <1>4 DEF PendingInv, HostInv
  <2> QED  BY <2>1, <2>2, <2>3, <2>4
<1>5. CASE /\ InTransition(q.app) /\ Matches(r) /\ record[q.app].pending
           /\ record' = [record EXCEPT ![q.app].ink = q.ink]
           /\ told' = [told EXCEPT ![q.epoch] = Policy(q.ink)]
  <2>1. /\ record' \in [App -> Records]
        /\ \A b \in App : /\ record'[b].epoch = record[b].epoch
                          /\ record'[b].pending = record[b].pending
    BY <1>1, <1>5, RecordInk
  <2>2. /\ told' \in [1..MaxEpoch -> {"none", "ink", "no ink"}]
        /\ FenceInv' /\ PromiseInv'
    BY <1>1, <1>5, PromiseKeeps DEF Matches, AnyToken
  <2>3. domain.app = q.app /\ domain.at # "Foreground" /\ pc # "activate"
    BY <1>1, <1>5 DEF InTransition, LoopInv, Free, Loop
  <2>4. TypeOK'
    <3>1. /\ domain' \in [at : {"Manager", "Launching", "Foreground", "Parking"},
                         app : App \cup {NoApp}]
          /\ transition' \in {Free, Loop} \cup Requests
          /\ modes' \in {Free, Loop} \cup Requests
          /\ pc' \in {"idle", "register", "recover", "wait", "commit", "activate", "abandon", "park"}
          /\ epoch' \in 0..MaxEpoch /\ knows' \in [App -> 0..MaxEpoch]
          /\ host' \in [app : App \cup {NoApp}, epoch : 0..MaxEpoch, ink : BOOLEAN]
      BY <1>1 DEF TypeOK
    <3>4. chosen' = chosen /\ unsure' = unsure
      BY <1>1
    <3>5. chosen' \in BOOLEAN /\ unsure' \in BOOLEAN
      BY <3>4, Zenon DEF TypeOK
    <3>2. record' \in [App -> [epoch : 0..MaxEpoch, ink : BOOLEAN, pending : BOOLEAN]]
      BY <2>1 DEF Records
    <3>3. request' \in [Requests ->
            [pc : {"unsent", "sent", "map", "lock", "configure", "done"},
             app : App \cup {NoApp}, epoch : 0..MaxEpoch, ink : BOOLEAN, startup : BOOLEAN]]
      BY <1>3 DEF Asked, Places
    <3> QED  BY <2>2, <3>1, <3>2, <3>3, <3>5, Zenon DEF TypeOK
  <2>5. RequestInv'
    BY <1>1, <1>2, <2>1, RequestElsewhere DEF Places
  <2>6. LoopInv' /\ HostInv'
    BY <1>1, <2>3 DEF LoopInv, HostInv
  <2>7. PendingInv'
    BY <1>1, <2>1, <2>3 DEF PendingInv, LoopInv, Moving
  <2> QED  BY <2>2, <2>4, <2>5, <2>6, <2>7
<1> QED  BY <1>4, <1>5 DEF Negotiate

(* The request that gets the locks finds them free.                         *)
LEMMA AuthorizeKeeps ==
  ASSUME IInv, NEW r \in Requests, Authorize(r)
  PROVE  IInv'
<1> USE DEF IInv
<1>1. /\ request[r].pc = "lock" /\ transition = Free /\ modes = Free
      /\ request[r].app \in App /\ pc = "idle"
      /\ UNCHANGED <<domain, pc, loopVars, chosen, host, told, unsure>>
  BY DEF Authorize, RequestInv, LoopInv, Free, Loop
<1>2. PICK to \in {"configure", "done"} :
        /\ Moves(r, to)
        /\ to = "configure" => Authorized(r) /\ transition' = r /\ modes' = r
        /\ to = "done" => UNCHANGED <<transition, modes>>
  BY DEF Authorize
<1>3. /\ request' \in [Requests -> Asked] /\ request'[r].pc = to
      /\ \A s \in Requests : /\ request'[s].app = request[s].app
                             /\ request'[s].epoch = request[s].epoch
                             /\ s # r => request'[s].pc = request[s].pc
  BY <1>2, RequestMoves DEF Places
<1>4. TypeOK'
  BY <1>1, <1>2, <1>3 DEF TypeOK, Asked, Places, loopVars
<1>5. LoopInv'
  BY <1>1, <1>2 DEF LoopInv, Requests, Free, Loop
<1>6. RequestInv'
  <2>1. CASE to = "done"
    BY <1>1, <1>2, <2>1, RequestElsewhere DEF Places, loopVars
  <2>2. CASE to = "configure"
    <3>1. Authorized(r)'
      BY <1>1, <1>2, <1>3, <2>2, AuthorizedByRecord DEF loopVars
    <3>2. \A s \in Requests : s # r => request'[s].pc # "configure"
      BY <1>1, <1>3, NobodyConfigures
    <3> QED  BY <1>1, <1>2, <1>3, <2>2, <3>1, <3>2 DEF RequestInv
  <2> QED  BY <2>1, <2>2
<1>7. FenceInv' /\ PromiseInv' /\ PendingInv' /\ HostInv'
  BY <1>1 DEF FenceInv, PromiseInv, PendingInv, HostInv, loopVars
<1> QED  BY <1>4, <1>5, <1>6, <1>7

(* Letting go of both locks.                                                *)
LEMMA UnlocksKeeps ==
  ASSUME IInv, NEW r \in Requests, request[r].pc = "configure", Unlocks,
         Moves(r, "done"), UNCHANGED <<domain, pc>>
  PROVE  /\ LoopInv' /\ RequestInv'
         /\ request' \in [Requests -> Asked]
<1> USE DEF IInv
<1>1. /\ transition = r /\ modes = r /\ r # Loop /\ r # Free
      /\ transition' = Free /\ modes' = Free
  BY DEF RequestInv, Unlocks, Requests, Free, Loop
<1>2. /\ request' \in [Requests -> Asked] /\ request'[r].pc = "done"
      /\ \A s \in Requests : /\ request'[s].app = request[s].app
                             /\ s # r => request'[s].pc = request[s].pc
  BY RequestMoves DEF Places
<1>3. \A s \in Requests : s # r => request[s].pc # "configure"
  BY <1>1 DEF RequestInv
<1>4. \A s \in Requests : /\ request'[s].pc # "configure" /\ s # Free
                          /\ request'[s].pc # "unsent" => request'[s].app \in App
  BY <1>2, <1>3 DEF RequestInv, Requests, Free
<1>5. LoopInv'
  BY <1>1 DEF LoopInv, Free, Loop
<1> QED  BY <1>1, <1>2, <1>4, <1>5 DEF RequestInv

(* The host has the new ink, and so have record and promise.                *)
LEMMA ConfiguredKeeps ==
  ASSUME IInv, NEW r \in Requests, Configured(r)
  PROVE  IInv'
<1> DEFINE q == request[r]
<1> USE DEF IInv
<1>1. /\ q.pc = "configure" /\ q.app \in App /\ Authorized(r) /\ q.ink \in BOOLEAN
      /\ domain.app = q.app /\ domain.at = "Foreground"
      /\ record[q.app].epoch = q.epoch /\ q.epoch # 0 /\ pc = "idle"
  <2>1. q.pc = "configure" /\ q.ink \in BOOLEAN
    BY DEF Configured, TypeOK
  <2>2. q.app \in App /\ Authorized(r) /\ transition = r
    BY <2>1 DEF RequestInv
  <2>3. domain.app = q.app /\ domain.at = "Foreground"
    BY <2>2 DEF Authorized, At
  <2>4. record[q.app].epoch = q.epoch /\ q.epoch # 0
    BY <2>2 DEF Authorized, Matches, AnyToken
  <2>5. pc = "idle"
    BY <2>2 DEF LoopInv, Requests, Loop
  <2> QED  BY <2>1, <2>2, <2>3, <2>4, <2>5
<1>2. /\ host' = [host EXCEPT !.ink = q.ink]
      /\ record' = [record EXCEPT ![q.app].ink = q.ink]
      /\ told' = [told EXCEPT ![q.epoch] = Policy(q.ink)]
      /\ unsure' = FALSE /\ Unlocks /\ Moves(r, "done")
      /\ UNCHANGED <<domain, pc, epoch, knows, chosen>>
  BY DEF Configured
<1>3. /\ record' \in [App -> Records] /\ record'[q.app].ink = q.ink
      /\ \A b \in App : /\ record'[b].epoch = record[b].epoch
                        /\ record'[b].pending = record[b].pending
  BY <1>1, <1>2, RecordInk
<1>4. LoopInv' /\ RequestInv' /\ request' \in [Requests -> Asked]
  BY <1>1, <1>2, UnlocksKeeps
<1>5. /\ told' \in [1..MaxEpoch -> {"none", "ink", "no ink"}]
      /\ FenceInv' /\ PromiseInv'
  BY <1>1, <1>2, <1>3, PromiseKeeps
<1>6. /\ host' \in Leases
      /\ host'.app = host.app /\ host'.epoch = host.epoch /\ host'.ink = q.ink
  BY <1>1, <1>2 DEF TypeOK, Leases
<1> HIDE DEF q
<1>7. TypeOK'
  BY <1>2, <1>3, <1>4, <1>5, <1>6 DEF TypeOK, Asked, Places, Records, Leases, Unlocks, Free
<1>8. PendingInv'
  BY <1>1, <1>2, <1>3 DEF PendingInv, Moving
<1>9. HostInv'
  BY <1>1, <1>2, <1>3, <1>6 DEF HostInv
<1> QED  BY <1>4, <1>5, <1>7, <1>8, <1>9

(* Without an answer the host may have it or not, and nobody is sure.       *)
LEMMA ConfigureFailsKeeps ==
  ASSUME IInv, NEW r \in Requests, ConfigureFails(r)
  PROVE  IInv'
<1> DEFINE q == request[r]
<1> USE DEF IInv
<1>1. q.pc = "configure" /\ q.ink \in BOOLEAN
  BY DEF ConfigureFails, TypeOK
<1>2. /\ host' \in {host, [host EXCEPT !.ink = q.ink]}
      /\ unsure' = TRUE /\ Unlocks /\ Moves(r, "done")
      /\ UNCHANGED <<domain, pc, loopVars, chosen, told>>
  BY DEF ConfigureFails
<1>3. LoopInv' /\ RequestInv' /\ request' \in [Requests -> Asked]
  BY <1>1, <1>2, UnlocksKeeps
<1>4. host' \in Leases /\ host'.app = host.app /\ host'.epoch = host.epoch
  BY <1>1, <1>2 DEF TypeOK, Leases
<1> HIDE DEF q
<1>5. TypeOK'
  BY <1>2, <1>3, <1>4 DEF TypeOK, Asked, Places, Leases, Unlocks, Free, loopVars
<1>6. FenceInv' /\ PromiseInv' /\ PendingInv'
  BY <1>2 DEF FenceInv, PromiseInv, PendingInv, loopVars
<1>7. HostInv'
  BY <1>2, <1>4 DEF HostInv, loopVars
<1> QED  BY <1>3, <1>5, <1>6, <1>7

(* A new request holds nothing.                                             *)
LEMMA SendKeeps ==
  ASSUME IInv, NEW r \in Requests, NEW a \in App, NEW ink \in BOOLEAN, Send(r, a, ink)
  PROVE  IInv'
<1> DEFINE q == [pc |-> "sent", app |-> a, epoch |-> knows[a], ink |-> ink,
                 startup |-> pc = "wait" /\ domain.app = a]
<1> USE DEF IInv
<1>1. /\ request[r].pc = "unsent" /\ request' = [request EXCEPT ![r] = q]
      /\ UNCHANGED requestOnly
  BY DEF Send
<1>2. q \in Asked /\ q.pc = "sent" /\ q.app = a
  <2>1. knows[a] \in 0..MaxEpoch
    BY DEF TypeOK
  <2> QED  BY <2>1 DEF Asked, Places
<1> HIDE DEF q
<1>3. /\ request' \in [Requests -> Asked] /\ request'[r] = q
      /\ \A s \in Requests : s # r => request'[s] = request[s]
  BY <1>1, <1>2 DEF TypeOK, Asked, Places
<1>4. TypeOK'
  BY <1>1, <1>3, RequestTyped
<1>5. RequestInv'
  <2>1. \A s \in Requests : request[s].app \in App /\ Authorized(s) /\ s # r => Authorized(s)'
    BY <1>1, <1>3, AuthorizedByRecord DEF requestOnly, loopVars
  <2> QED  BY <1>1, <1>2, <1>3, <2>1 DEF RequestInv, requestOnly
<1>6. LoopInv' /\ FenceInv' /\ PromiseInv' /\ PendingInv' /\ HostInv'
  BY <1>1 DEF LoopInv, FenceInv, PromiseInv, PendingInv, HostInv, requestOnly, loopVars
<1> QED  BY <1>4, <1>5, <1>6

(* Every step keeps the invariant.                                          *)
LEMMA NextInv == IInv /\ [Next]_vars => IInv'
<1> SUFFICES ASSUME IInv, [Next]_vars PROVE IInv'
  OBVIOUS
<1>1. CASE Transit \/ WaitFails \/ ParkBegins
  BY <1>1, RegisterKeeps, PlaceKeeps, CommitBeginsKeeps, CommitEndsKeeps,
     CommitFailsKeeps, AbandonKeeps, ParkedKeeps, ParkBeginsKeeps DEF Transit
<1>2. ASSUME NEW a \in App, Launch(a) \/ Exits(a)
      PROVE  IInv'
  BY <1>2, LaunchKeeps, ExitsKeeps
<1>3. ASSUME NEW r \in Requests, Serve(r)
      PROVE  IInv'
  BY <1>3, ReadDomainKeeps, NegotiateKeeps, AuthorizeKeeps, ConfiguredKeeps,
     ConfigureFailsKeeps DEF Serve
<1>4. CASE UNCHANGED vars
  <2>1. UNCHANGED <<TypeOK, LoopInv, FenceInv, PendingInv, PromiseInv, HostInv>>
    BY <1>4 DEF vars, TypeOK, LoopInv, FenceInv, PendingInv, PromiseInv, HostInv
  <2>2. UNCHANGED RequestInv
    BY <1>4 DEF vars, RequestInv, Authorized, Matches, AnyToken
  <2> QED  BY <2>1, <2>2 DEF IInv
<1> QED  BY <1>1, <1>2, <1>3, <1>4, SendKeeps DEF Next

(* The invariant, and type correctness with it.                             *)
THEOREM Invariance == Spec => []IInv
  BY InitInv, NextInv, PTL DEF Spec

(* Every variable has its type in every reachable state.                   *)
THEOREM TypeCorrect == Spec => []TypeOK
<1>1. IInv => TypeOK
  BY DEF IInv
<1> QED  BY <1>1, Invariance, PTL

(* Whatever is negotiated while a launch, a park, its recovery or an exit   *)
(* is under way: when no transition is, the display writes as the           *)
(* application in the foreground was told.                                  *)
THEOREM InkIsAsPromised == Spec => []InkAsPromised
<1>1. IInv => InkAsPromised
  BY DEF IInv, InkAsPromised, LoopInv, HostInv, PromiseInv
<1> QED  BY <1>1, Invariance, PTL
=============================================================================
