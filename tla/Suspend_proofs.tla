--------------------------- MODULE Suspend_proofs ---------------------------
(***************************************************************************)
(* For any number of presses, requests, cover movements and faults: the    *)
(* device sleeps only behind the committed lock, the owners of the lock    *)
(* agree between two handlers, work keeps the device awake and a retry     *)
(* never gets ahead of a request to unlock.  While nothing fails and nobody*)
(* asks for anything, only the user's press gives a locked device back to  *)
(* the stock system.                                                       *)
(***************************************************************************)
EXTENDS Suspend, TLAPS

(***************************************************************************)
(* The inductive invariant                                                 *)
(***************************************************************************)
Kinds == Interrupting \cup {"none", "UserActivity", "AutoSleep", "Resuspend"}
Events == [ev : Kinds, epoch : Nat, revision : Nat, fence : Nat]
Retries == [kind : {"blocked", "after"}, epoch : Nat, revision : Nat, fence : Nat]
Places ==
  {"idle", "start", "handoff", "cover", "showing", "arming", "recheck", "entering",
   "suspending", "failed", "resuming", "quiet", "pressed", "unpressed", "rolling",
   "unlocking", "recover"}
Errors == {"none", "plain", "retained", "blocked", "interrupted", "refused"}
Loops == [at : Places, event : Events, fence : Nat, error : Errors]
Sleeps == [phase : Phases, epoch : Nat, revision : Nat]
Powers ==
  [phase : PowerPhases, managed : BOOLEAN, revision : Nat, leases : SUBSET {1},
   elapsed : BOOLEAN, checked : Nat]
Tracks ==
  [since : {"none", "short", "long"}, clicks : Nat, gapOver : BOOLEAN, suppress : BOOLEAN]
Wakes == [guard : {"off", "armed", "resumed"}, down : BOOLEAN, gesture : BOOLEAN,
          asked : BOOLEAN]
Keys == [track : Tracks, wake : Wakes]

(* The types of what the invariants speak of: Home and the budgets are not *)
(* among them.                                                             *)
LockTypes ==
  /\ domain \in {"System", "Manager", "Foreground", "Sleeping"}
  /\ tx \in Sleeps /\ pw \in Powers /\ key \in Keys
  /\ panel \in Nat /\ wakelock \in BOOLEAN
  /\ timers \subseteq Retries
QueueTypes == interaction \in Nat /\ queue \in Seq(Events)
TypeOK == LockTypes /\ QueueTypes /\ loop \in Loops

(* The three states of the lock that a handler starts from and ends in.     *)
InUse == /\ domain \in {"Manager", "Foreground"}
         /\ tx.phase = "Idle" /\ panel = 0 /\ wakelock
         /\ key.wake.guard = "off"
Locked == domain = "Sleeping" /\ LockHealthy /\ wakelock
Stock == domain = "System" /\ tx.phase = "Idle" /\ panel = 0 /\ ~wakelock

(* And what holds at each place inside a handler.                          *)
Guarded == {"recheck", "entering", "suspending", "resuming"}
Timed == {"showing", "arming", "recheck", "entering"}
Behind == Guarded \cup {"arming", "failed", "quiet", "pressed", "unpressed"}
PlaceAt(place) ==
  /\ place \in {"idle", "start"} => InUse \/ Locked \/ Stock
  /\ place \in {"handoff", "cover"} => InUse
  /\ place \in {"showing", "rolling", "unlocking"} => domain = "Sleeping" /\ wakelock
  /\ place \in Behind => domain = "Sleeping" /\ LockHealthy
  /\ place \in Behind \ {"suspending"} => wakelock
  /\ place \in Guarded => key.wake.guard = "armed"
  /\ place = "recover" =>
       \/ InUse \/ Stock
       \/ domain = "Sleeping" /\ (loop.error = "retained" => Locked)
PlaceInv == PlaceAt(loop.at)

(* An interaction raises the epoch, and its event carries it: it is newer  *)
(* than everything that was queued before.                                 *)
Retry(e) == e.ev = "Resuspend"
User(e) == e.ev \in Interrupting
Newer(e) == \A j \in DOMAIN queue : User(queue[j]) => e.fence < queue[j].fence
QueueInv ==
  /\ \A i \in DOMAIN queue : queue[i].fence <= interaction
  /\ \A i, j \in DOMAIN queue : i < j /\ User(queue[j]) => queue[i].fence < queue[j].fence
  /\ loop.event.ev # "none" => loop.event.fence <= interaction /\ Newer(loop.event)
  /\ Retry(loop.event) /\ loop.at \in Timed => loop.fence = loop.event.fence

IInv == TypeOK /\ PlaceInv /\ LeaseKeepsAwake /\ QueueInv

-----------------------------------------------------------------------------
(***************************************************************************)
(* What the steps do to the loop and to the queue                          *)
(***************************************************************************)
(* Between handlers no event is at work.                                   *)
LEMMA RestingIs ==
  /\ NoEvent \in Events /\ NoEvent.ev = "none"
  /\ Resting \in Loops /\ Resting.at = "idle" /\ Resting.event = NoEvent
<1>1. NoEvent \in Events /\ NoEvent.ev = "none"
  BY DEF NoEvent, Event, Events, Kinds
<1> QED BY <1>1 DEF Resting, Loops, Places, Errors

(* The handler goes to another place.                                      *)
LEMMA Goes ==
  ASSUME loop \in Loops, NEW place \in Places, GoTo(place)
  PROVE  /\ loop' \in Loops /\ loop'.at = place
         /\ loop'.event = loop.event /\ loop'.fence = loop.fence
         /\ loop'.error = loop.error
  BY DEF GoTo, Loops

(* The handler returns an error.                                           *)
LEMMA FailsWith ==
  ASSUME loop \in Loops, NEW error \in Errors, Fails(error)
  PROVE  /\ loop' \in Loops /\ loop'.at = "recover" /\ loop'.error = error
         /\ loop'.event = loop.event /\ loop'.fence = loop.fence
  BY DEF Fails, Loops, Places

(* An event that is queued comes last.                                     *)
LEMMA Queued ==
  ASSUME QueueTypes, NEW e \in Events, queue' = Append(queue, e)
  PROVE  /\ queue' \in Seq(Events)
         /\ \A i \in DOMAIN queue' :
              \/ i \in DOMAIN queue /\ queue'[i] = queue[i]
              \/ i \notin DOMAIN queue /\ queue'[i] = e
         /\ \A i, j \in DOMAIN queue' : i < j => i \in DOMAIN queue
<1>1. /\ Len(queue) \in Nat /\ DOMAIN queue = 1 .. Len(queue)
      /\ DOMAIN queue' = 1 .. Len(queue) + 1
  BY DEF QueueTypes
<1>2. queue' \in Seq(Events)
  BY DEF QueueTypes
<1>3. \A i \in 1 .. Len(queue) + 1 :
        queue'[i] = IF i <= Len(queue) THEN queue[i] ELSE e
  BY DEF QueueTypes
<1> QED BY <1>1, <1>2, <1>3

(* It leaves the queue from the front.                                     *)
LEMMA Taken ==
  ASSUME QueueTypes, queue # << >>, queue' = Tail(queue)
  PROVE  /\ queue' \in Seq(Events)
         /\ Head(queue) = queue[1] /\ 1 \in DOMAIN queue /\ Head(queue) \in Events
         /\ \A i \in DOMAIN queue' : /\ i \in Nat /\ i > 0
                                     /\ i + 1 \in DOMAIN queue /\ queue'[i] = queue[i + 1]
<1>1. /\ Len(queue) \in Nat \ {0} /\ DOMAIN queue = 1 .. Len(queue)
      /\ DOMAIN queue' = 1 .. Len(queue) - 1
  BY DEF QueueTypes
<1>2. queue' \in Seq(Events)
  BY DEF QueueTypes
<1>3. \A i \in 1 .. Len(queue) - 1 : queue'[i] = queue[i + 1]
  BY DEF QueueTypes
<1>4. Head(queue) = queue[1] /\ queue[1] \in Events
  BY <1>1 DEF QueueTypes
<1> QED BY <1>1, <1>2, <1>3, <1>4

(* A new interaction is newer than every event, in the queue or at work.   *)
LEMMA SendKeeps ==
  ASSUME TypeOK, QueueInv, NEW e \in Kinds \ {"Resuspend"}, NEW r \in Nat,
         NEW from \in {interaction, interaction + 1}, Send(e, r, from),
         loop' = loop \/ loop' = Resting
  PROVE  QueueTypes' /\ QueueInv'
<1> DEFINE new == Event(e, 0, r, EpochAfter(e, from))
<1>1. /\ EpochAfter(e, from) \in Nat /\ from >= interaction
      /\ EpochAfter(e, from) >= interaction
      /\ e \in Interrupting => EpochAfter(e, from) > interaction
  BY DEF EpochAfter, InterruptsLaunch, TypeOK, QueueTypes
<1>2. new \in Events /\ new.ev = e /\ new.fence = EpochAfter(e, from)
  BY <1>1 DEF Event, Events
<1>3. queue' = Append(queue, new) /\ interaction' = EpochAfter(e, from)
  BY DEF Send
<1> HIDE DEF new
<1>4. /\ queue' \in Seq(Events)
      /\ \A i \in DOMAIN queue' :
           \/ i \in DOMAIN queue /\ queue'[i] = queue[i]
           \/ i \notin DOMAIN queue /\ queue'[i] = new
      /\ \A i, j \in DOMAIN queue' : i < j => i \in DOMAIN queue
  BY <1>2, <1>3, Queued DEF TypeOK
<1>5. /\ interaction \in Nat /\ interaction' \in Nat /\ interaction <= interaction'
      /\ \A i \in DOMAIN queue : queue[i].fence \in Nat /\ queue[i].fence <= interaction
      /\ loop.event.fence \in Nat /\ new.fence = interaction' /\ QueueTypes'
      /\ User(new) => new.fence > interaction
  <2>1. \A i \in DOMAIN queue : queue[i] \in Events
    BY DEF TypeOK, QueueTypes
  <2>2. loop.event \in Events
    BY DEF TypeOK, Loops
  <2>3. \A i \in DOMAIN queue : queue[i].fence <= interaction
    BY DEF QueueInv
  <2> QED BY <1>1, <1>2, <1>3, <1>4, <2>1, <2>2, <2>3 DEF TypeOK, QueueTypes, Events, User
<1>6. \A i \in DOMAIN queue' : queue'[i].fence <= interaction'
  BY <1>4, <1>5
<1>7. ASSUME NEW i \in DOMAIN queue', NEW j \in DOMAIN queue', i < j, User(queue'[j])
      PROVE  queue'[i].fence < queue'[j].fence
  <2>1. i \in DOMAIN queue /\ queue'[i] = queue[i]
    BY <1>4, <1>7
  <2> QED BY <1>4, <1>5, <1>7, <2>1 DEF QueueInv
<1>8. /\ loop'.event.ev # "none" =>
           loop'.event.fence <= interaction' /\ Newer(loop.event)'
      /\ Retry(loop'.event) /\ loop'.at \in Timed => loop'.fence = loop'.event.fence
  <2>1. CASE loop' = loop
    <3>1. loop.event.ev # "none" =>
            \A j \in DOMAIN queue' : User(queue'[j]) => loop.event.fence < queue'[j].fence
      BY <1>4, <1>5 DEF QueueInv, Newer
    <3>2. loop.event.ev # "none" => loop.event.fence <= interaction'
      BY <1>5 DEF QueueInv
    <3> QED BY <2>1, <3>1, <3>2 DEF QueueInv, Newer, User
  <2>2. CASE loop' = Resting
    BY <2>2, RestingIs DEF Retry
  <2> QED BY <2>1, <2>2
<1> QED BY <1>5, <1>6, <1>7, <1>8 DEF QueueInv, Retry, User, Newer

(* Without a new event the epoch may only rise.                            *)
LEMMA QueueKept ==
  ASSUME TypeOK, QueueInv, UNCHANGED queue, interaction' \in Nat, interaction' >= interaction,
         loop' \in Loops, loop'.event = loop.event \/ loop'.event = NoEvent,
         Retry(loop'.event) /\ loop'.at \in Timed => loop'.fence = loop'.event.fence
  PROVE  QueueTypes' /\ QueueInv'
<1>1. /\ \A i \in DOMAIN queue : queue[i].fence \in Nat
      /\ loop.event.fence \in Nat /\ interaction \in Nat
  <2>1. \A i \in DOMAIN queue : queue[i] \in Events
    BY DEF TypeOK, QueueTypes
  <2>2. loop.event \in Events
    BY DEF TypeOK, Loops
  <2> QED BY <2>1, <2>2 DEF TypeOK, QueueTypes, Events
<1>2. NoEvent.ev = "none" /\ ~Retry(NoEvent)
  BY RestingIs DEF Retry
<1> QED BY <1>1, <1>2 DEF TypeOK, QueueTypes, QueueInv, Newer

(* The steps outside the loop leave the lock alone.                        *)
LEMMA OutsideKeeps ==
  ASSUME IInv, UNCHANGED <<domain, tx, panel, wakelock, loop, timers>>,
         pw' \in Powers, LeaseKeepsAwake', key' \in Keys,
         key'.wake.guard = key.wake.guard, QueueTypes', QueueInv'
  PROVE  IInv'
<1>1. TypeOK'
  BY DEF IInv, TypeOK, LockTypes
<1>2. PlaceInv'
  BY DEF IInv, PlaceInv, PlaceAt, InUse, Locked, Stock, LockHealthy
<1> QED BY <1>1, <1>2 DEF IInv

-----------------------------------------------------------------------------
(***************************************************************************)
(* How a step of a handler ends                                            *)
(***************************************************************************)
(* Between handlers, in one of the three states of the lock,               *)
LEMMA DoneKeeps ==
  ASSUME IInv, loop' = Resting, UNCHANGED queueVars, LockTypes', LeaseKeepsAwake',
         (InUse \/ Locked \/ Stock)'
  PROVE  IInv'
<1>1. QueueTypes' /\ QueueInv'
  BY RestingIs, QueueKept DEF IInv, TypeOK, QueueTypes, queueVars, Retry
<1>2. PlaceInv'
  BY RestingIs DEF PlaceInv, PlaceAt, Behind, Guarded
<1> QED BY <1>1, <1>2, RestingIs DEF IInv, TypeOK

(* in front of the recovery,                                               *)
LEMMA FailsKeeps ==
  ASSUME IInv, NEW error \in Errors, Fails(error), UNCHANGED queueVars, LockTypes',
         LeaseKeepsAwake',
         \/ (InUse \/ Stock)'
         \/ domain' = "Sleeping" /\ (error = "retained" => Locked')
  PROVE  IInv'
<1>1. /\ loop' \in Loops /\ loop'.at = "recover" /\ loop'.error = error
      /\ loop'.event = loop.event /\ loop'.fence = loop.fence
  BY FailsWith DEF IInv, TypeOK
<1>2. QueueTypes' /\ QueueInv'
  BY <1>1, QueueKept DEF IInv, TypeOK, QueueTypes, queueVars, Timed
<1>3. PlaceInv'
  BY <1>1 DEF PlaceInv, PlaceAt, Behind, Guarded
<1> QED BY <1>1, <1>2, <1>3 DEF IInv, TypeOK

(* or at another place of the same handler.                                *)
LEMMA GoesKeeps ==
  ASSUME IInv, NEW place \in Places, GoTo(place), UNCHANGED queueVars, LockTypes',
         LeaseKeepsAwake', PlaceAt(place)',
         place \in Timed => loop.at \in Timed
  PROVE  IInv'
<1>1. /\ loop' \in Loops /\ loop'.at = place
      /\ loop'.event = loop.event /\ loop'.fence = loop.fence
  BY Goes DEF IInv, TypeOK
<1>2. QueueTypes' /\ QueueInv'
  BY <1>1, QueueKept DEF IInv, TypeOK, QueueTypes, queueVars, QueueInv
<1>3. PlaceInv'
  BY <1>1 DEF PlaceInv, PlaceAt
<1> QED BY <1>1, <1>2, <1>3 DEF IInv, TypeOK

-----------------------------------------------------------------------------
(***************************************************************************)
(* The idle policy and the transaction                                     *)
(***************************************************************************)
(* The policy is not made to reserve the device, or keeps its reservation  *)
(* with no lease more.                                                     *)
Yields(p, q) ==
  q \in Powers /\ (q.phase = "Quiescing" => p.phase = "Quiescing" /\ q.leases \subseteq p.leases)

(* A change of the policy that raises its revision.                        *)
LEMMA BumpedIs ==
  ASSUME NEW p \in Powers
  PROVE  /\ Bumped(p) \in Powers
         /\ Bumped(p).phase = p.phase /\ Bumped(p).leases = p.leases
         /\ Bumped(p).managed = p.managed
<1>1. p.revision + 1 \in Nat
  BY DEF Powers
<1> QED BY <1>1 DEF Bumped, Powers

(* Every operation of the policy but the reservation yields, and most end  *)
(* it.                                                                     *)
LEMMA PolicyYields ==
  ASSUME NEW p \in Powers
  PROVE  /\ Yields(p, p) /\ Yields(p, EnterManaged(p)) /\ Yields(p, EnterStock(p))
         /\ Yields(p, Resumed(p)) /\ Yields(p, NoteActivity(p))
         /\ Yields(p, CancelQuiescing(p)) /\ Yields(p, SetIdleSuspend(p))
         /\ Yields(p, BeginWork(p, 1)) /\ Yields(p, FinishWork(p, 1))
         /\ Yields(p, FinishVisible(p, 1)) /\ Yields(p, Checked(p))
         /\ Yields(p, NotReserved(p))
         /\ EnterManaged(p).phase = "Awake" /\ Resumed(p).phase = "Awake"
         /\ CancelQuiescing(p).phase # "Quiescing"
<1> DEFINE b == Bumped(p)
<1>1. /\ b \in Powers /\ b.phase = p.phase /\ b.leases = p.leases /\ b.managed = p.managed
  BY BumpedIs
<1> HIDE DEF b
<1> USE DEF Yields
<1>2. Yields(p, p) /\ Yields(p, b)
  BY <1>1
<1>3. Yields(p, EnterManaged(p)) /\ EnterManaged(p).phase = "Awake"
  BY <1>1 DEF EnterManaged, b, Powers, PowerPhases
<1>4. Yields(p, EnterStock(p))
  BY <1>1 DEF EnterStock, b, Powers, PowerPhases
<1>5. Yields(p, Resumed(p)) /\ Resumed(p).phase = "Awake"
  BY <1>1 DEF Resumed, b, Powers, PowerPhases
<1>6. Yields(p, NoteActivity(p))
  <2>1. [b EXCEPT !.phase = "Awake", !.elapsed = FALSE] \in Powers
    BY <1>1 DEF Powers, PowerPhases
  <2>2. [b EXCEPT !.phase = "Awake", !.elapsed = FALSE].phase = "Awake"
    BY <1>1 DEF Powers
  <2>3. NoteActivity(p) \in {p, b, [b EXCEPT !.phase = "Awake", !.elapsed = FALSE]}
    BY DEF NoteActivity, b
  <2> QED BY <1>2, <2>1, <2>2, <2>3
<1>7. Yields(p, CancelQuiescing(p)) /\ CancelQuiescing(p).phase # "Quiescing"
  <2>1. CASE p.phase = "Quiescing"
    BY <1>1, <2>1 DEF CancelQuiescing, b, Powers, PowerPhases
  <2>2. CASE p.phase # "Quiescing"
    BY <1>1, <2>2 DEF CancelQuiescing, b
  <2> QED BY <2>1, <2>2
<1>8. Yields(p, SetIdleSuspend(p))
  BY <1>1 DEF SetIdleSuspend, b, Powers
<1>9. Yields(p, BeginWork(p, 1))
  <2>1. BeginWork(p, 1) = [b EXCEPT !.leases = b.leases \cup {1},
                                    !.phase = IF b.phase = "Quiescing" THEN "Awake" ELSE b.phase]
    BY <1>1 DEF BeginWork, b, Powers
  <2>2. b.leases \cup {1} \in SUBSET {1}
    BY <1>1 DEF Powers
  <2>3. (IF b.phase = "Quiescing" THEN "Awake" ELSE b.phase) \in PowerPhases
    BY <1>1 DEF Powers, PowerPhases
  <2>4. BeginWork(p, 1) \in Powers
    BY <1>1, <2>1, <2>2, <2>3 DEF Powers
  <2> QED BY <1>1, <2>1, <2>2, <2>4 DEF Powers
<1>10. Yields(p, FinishWork(p, 1))
  BY <1>1 DEF FinishWork, Powers
<1>11. Yields(p, FinishVisible(p, 1))
  BY <1>1 DEF FinishVisible, b, Powers
<1>12. Yields(p, Checked(p)) /\ Yields(p, NotReserved(p))
  BY DEF Checked, NotReserved, Powers
<1> QED BY <1>2, <1>3, <1>4, <1>5, <1>6, <1>7, <1>8, <1>9, <1>10, <1>11, <1>12

(* A phase that is set is the phase.                                       *)
LEMMA InPhaseIs ==
  ASSUME NEW p \in Powers, NEW phase \in PowerPhases
  PROVE  InPhase(p, phase) \in Powers /\ InPhase(p, phase).phase = phase
  BY DEF InPhase, Powers

(* No lease is held under a reservation that was kept, or with no managed  *)
(* screen in use.                                                          *)
LEMMA LeaseKept ==
  ASSUME IInv, Yields(pw, pw'),
         domain' \in {"Manager", "Foreground"} => domain \in {"Manager", "Foreground"}
  PROVE  LeaseKeepsAwake'
  BY DEF IInv, LeaseKeepsAwake, Yields

(* The updates of the transaction.                                         *)
LEMMA Updates ==
  ASSUME NEW t \in Sleeps
  PROVE  /\ Begin(t, t.revision + 1) \in Sleeps
         /\ \A u \in {MarkLocked(t), MarkAwake(t), AbortUnlock(t)} :
              u \in Sleeps /\ u.phase = "Locked" /\ u.epoch = t.epoch
         /\ BeginUnlock(t) \in Sleeps
         /\ FinishUnlock(t) \in Sleeps /\ FinishUnlock(t).phase = "Idle"
         /\ Reset(t) \in Sleeps /\ Reset(t).phase = "Idle"
<1>1. t.revision + 1 \in Nat /\ t.epoch \in Nat
  BY DEF Sleeps
<1> QED BY <1>1 DEF Sleeps, Phases, Begin, MarkLocked, MarkAwake, AbortUnlock, BeginUnlock,
           FinishUnlock, Reset, Update

(* The wake guard and the tracker.                                         *)
LEMMA KeySteps ==
  ASSUME NEW k \in Keys
  PROVE  /\ Cleared(k) \in Keys /\ Cleared(k).wake.guard = "off"
         /\ Armed(k) \in Keys /\ (CanArm(k) => Armed(k).wake.guard = "armed")
         /\ CanArm(Cleared(k))
         /\ AskedResume(k) \in Keys
         /\ \A down \in BOOLEAN : /\ Consumed(k, down) \in Keys
                                  /\ Consumed(k, down).wake.guard = k.wake.guard
         /\ \A t \in Tracks : /\ [k EXCEPT !.track = t] \in Keys
                              /\ [k EXCEPT !.track = t].wake = k.wake
         /\ TrackPress(k.track) \in Tracks /\ TrackRelease(k.track) \in Tracks
         /\ TrackPoll(k.track) \in Tracks
<1>1. k.track \in Tracks /\ k.wake \in Wakes
  BY DEF Keys
<1>2. KeyIdle \in Keys /\ KeyIdle.wake.guard = "off"
  BY DEF KeyIdle, Keys, Tracks, Wakes, Tracking, GuardOff
<1>3. Armed(k) \in Keys /\ (CanArm(k) => Armed(k).wake.guard = "armed")
  BY <1>1 DEF Armed, CanArm, Keys, Tracks, Wakes, Tracking
<1>4. AskedResume(k) \in Keys
  BY <1>1 DEF AskedResume, Keys, Wakes
<1>5. ASSUME NEW down \in BOOLEAN
      PROVE  Consumed(k, down) \in Keys /\ Consumed(k, down).wake.guard = k.wake.guard
  <2>1. (k.wake.gesture \/ AfterResume(k)) \in BOOLEAN
    BY <1>1 DEF AfterResume, Wakes
  <2> QED BY <1>1, <2>1 DEF Consumed, Keys, Wakes
<1>6. /\ TrackPress(k.track) \in Tracks /\ TrackPoll(k.track) \in Tracks
  BY <1>1 DEF TrackPress, TrackPoll, Tracks, Tracking
<1>7. TrackRelease(k.track) \in Tracks
  <2>1. ClickCount(k.track) \in Nat
    BY <1>1 DEF ClickCount, Tracks
  <2> QED BY <1>1, <2>1 DEF TrackRelease, Tracks, Tracking
<1>8. \A t \in Tracks : [k EXCEPT !.track = t] \in Keys /\ [k EXCEPT !.track = t].wake = k.wake
  BY DEF Keys
<1> QED BY <1>2, <1>3, <1>4, <1>5, <1>6, <1>7, <1>8 DEF Cleared, CanArm

(* The stock system has the device again.                                  *)
LEMMA RestoreKeeps == IInv /\ RestoreSystem => IInv'
<1> SUFFICES ASSUME IInv, RestoreSystem PROVE IInv'
  OBVIOUS
<1>1. tx' \in Sleeps /\ tx'.phase = "Idle"
  BY Updates DEF RestoreSystem, Retired, IInv, TypeOK, LockTypes
<1>2. Yields(pw, pw')
  BY PolicyYields DEF RestoreSystem, IInv, TypeOK, LockTypes
<1>3. key' \in Keys
  BY KeySteps DEF RestoreSystem, IInv, TypeOK, LockTypes
<1>4. /\ domain' = "System" /\ panel' = 0 /\ wakelock' = FALSE /\ timers' = timers
      /\ loop' = Resting /\ UNCHANGED queueVars
  BY DEF RestoreSystem, Untouched
<1>5. LockTypes' /\ LeaseKeepsAwake' /\ Stock'
  BY <1>1, <1>2, <1>3, <1>4 DEF IInv, TypeOK, LockTypes, LeaseKeepsAwake, Stock, Yields
<1> QED BY <1>4, <1>5, DoneKeeps

-----------------------------------------------------------------------------
(***************************************************************************)
(* The kernel, the key thread, the policy, the timers and Home             *)
(***************************************************************************)
(* They change what the loop reads only by events, later interactions and  *)
(* a policy that yields.                                                   *)
Sends == \E e \in Kinds \ {"Resuspend"}, r \in Nat, from \in {interaction, interaction + 1} :
           Send(e, r, from)
Later == UNCHANGED queue /\ interaction' \in {interaction, interaction + 1}
Outside == UNCHANGED <<domain, tx, panel, wakelock, loop, timers>>

LEMMA AloneKeeps ==
  ASSUME IInv, Outside, Yields(pw, pw'), key' \in Keys, key'.wake.guard = key.wake.guard,
         Sends \/ Later
  PROVE  IInv'
<1>1. pw' \in Powers /\ LeaseKeepsAwake'
  BY LeaseKept DEF Outside, Yields
<1>2. QueueTypes' /\ QueueInv'
  <2>1. CASE Sends
    BY <2>1, SendKeeps DEF Sends, IInv, Outside
  <2>2. CASE Later
    <3>1. interaction' \in Nat /\ interaction' >= interaction
      BY <2>2 DEF Later, IInv, TypeOK, QueueTypes
    <3> QED BY <2>2, <3>1, QueueKept DEF Later, IInv, TypeOK, Outside, QueueInv
  <2> QED BY <2>1, <2>2
<1> QED BY <1>1, <1>2, OutsideKeeps DEF Outside

(* What stays as it is yields.                                             *)
LEMMA StaysFine ==
  ASSUME IInv
  PROVE  /\ pw \in Powers /\ key \in Keys /\ tx \in Sleeps /\ loop \in Loops
         /\ UNCHANGED pw => Yields(pw, pw')
         /\ UNCHANGED queueVars => Later
  BY PolicyYields DEF IInv, TypeOK, LockTypes, QueueTypes, queueVars, Later

(* The kernel and the physical key.                                        *)
LEMMA KernelKeeps ==
  ASSUME IInv, KernelSleeps \/ AlarmWakes \/ ChargerMoves \/ KeyDown \/ KeyUp
  PROVE  IInv'
<1>1. Outside /\ UNCHANGED <<pw, key>> /\ UNCHANGED queueVars
  BY DEF KernelSleeps, AlarmWakes, ChargerMoves, KeyDown, KeyUp, Outside, kernelVars, keyVars
<1> QED BY <1>1, StaysFine, AloneKeeps

(* The key thread and its tracker.                                         *)
LEMMA ThreadKeeps ==
  ASSUME IInv, ReadGuarded \/ ReadKey \/ PressGetsLong \/ GapEnds \/ PollClick
  PROVE  IInv'
<1>1. Outside /\ UNCHANGED pw
  BY DEF ReadGuarded, ReadKey, PressGetsLong, GapEnds, PollClick, KeyUnchanged, Outside, kernelVars
<1>2. key' \in Keys /\ key'.wake.guard = key.wake.guard
  <2>1. key.track \in Tracks
    BY StaysFine DEF Keys
  <2>2. CASE ReadGuarded
    BY <2>2, KeySteps, StaysFine DEF ReadGuarded
  <2>3. CASE ReadKey
    <3>1. \/ key' = [key EXCEPT !.track = TrackPress(key.track)]
          \/ key' = [key EXCEPT !.track = TrackRelease(key.track)]
      BY <2>3, StaysFine DEF ReadKey, Keys
    <3>2. TrackPress(key.track) \in Tracks /\ TrackRelease(key.track) \in Tracks
      BY KeySteps, StaysFine
    <3>3. \A t \in Tracks : /\ [key EXCEPT !.track = t] \in Keys
                           /\ [key EXCEPT !.track = t].wake = key.wake
      BY KeySteps, StaysFine
    <3> QED BY <3>1, <3>2, <3>3
  <2>4. CASE PressGetsLong
    BY <2>1, <2>4, StaysFine DEF PressGetsLong, Keys, Tracks
  <2>5. CASE GapEnds
    BY <2>1, <2>5, StaysFine DEF GapEnds, Keys, Tracks
  <2>6. CASE PollClick
    <3>1. key' = [key EXCEPT !.track = TrackPoll(key.track)]
      BY <2>6, StaysFine DEF PollClick, Keys
    <3> QED BY <3>1, KeySteps, StaysFine
  <2> QED BY <2>2, <2>3, <2>4, <2>5, <2>6
<1>3. Sends \/ Later
  <2>1. {"UserActivity", "LongPower", "TriplePower", "SinglePower"} \subseteq Kinds \ {"Resuspend"}
    BY DEF Kinds, Interrupting
  <2>2. CASE ReadGuarded
    BY <2>2 DEF ReadGuarded, EpochOfGuarded, Later
  <2>3. CASE ReadKey
    <3>1. CASE Send("UserActivity", 0, interaction + 1)
      BY <2>1, <3>1 DEF Sends
    <3>2. CASE Send(ReleaseAction(key.track), 0, interaction) /\ ReleaseAction(key.track) # "None"
      <4>1. ReleaseAction(key.track) \in {"LongPower", "TriplePower"}
        BY <3>2 DEF ReleaseAction
      <4> QED BY <2>1, <3>2, <4>1 DEF Sends
    <3>3. CASE UNCHANGED queueVars
      BY <3>3, StaysFine
    <3> QED BY <2>3, <3>1, <3>2, <3>3 DEF ReadKey
  <2>4. CASE PressGetsLong \/ GapEnds
    BY <2>4, StaysFine DEF PressGetsLong, GapEnds
  <2>5. CASE PollClick
    <3>1. PollAction(key.track) \in {"LongPower", "SinglePower"}
      BY <2>5 DEF PollClick, PollAction
    <3> QED BY <2>1, <2>5, <3>1 DEF PollClick, Sends
  <2> QED BY <2>2, <2>3, <2>4, <2>5
<1> QED BY <1>1, <1>2, <1>3, StaysFine, AloneKeeps

(* The cover's switch.                                                     *)
LEMMA CoverKeeps == IInv /\ CoverMoves => IInv'
<1> SUFFICES ASSUME IInv, CoverMoves PROVE IInv'
  OBVIOUS
<1>1. Outside /\ UNCHANGED <<pw, key>>
  BY DEF CoverMoves, Outside, keyVars
<1>2. {"CoverOpened", "CoverClosed"} \subseteq Kinds \ {"Resuspend"}
  BY DEF Kinds, Interrupting
<1>3. Sends
  BY <1>2 DEF CoverMoves, Sends
<1> QED BY <1>1, <1>3, StaysFine, AloneKeeps

(* Applications, the touch panel and the settings only make it yield.      *)
LEMMA WorkKeeps ==
  ASSUME IInv, \/ IdleTimePasses \/ Deadline \/ WorkBegins \/ WorkEnds \/ Touch \/ IdleSetting
               \/ ControlRequest
  PROVE  IInv'
<1>1. Outside /\ UNCHANGED key
  BY DEF IdleTimePasses, Deadline, WorkBegins, WorkEnds, Touch, IdleSetting, ControlRequest,
         PowerUnchanged, Outside, keyVars, kernelVars
<1>2. Yields(pw, pw')
  <2>1. CASE IdleTimePasses
    BY <2>1, StaysFine DEF IdleTimePasses, Yields, Powers
  <2>2. CASE ~IdleTimePasses
    BY <2>2, PolicyYields, StaysFine
    DEF Deadline, WorkBegins, WorkEnds, Touch, IdleSetting, ControlRequest
  <2> QED BY <2>1, <2>2
<1>3. Sends \/ Later
  <2>1. CASE ControlRequest
    <3>1. {"OpenManager", "Launch", "ReturnSystem"} \subseteq Kinds \ {"Resuspend"}
      BY DEF Kinds, Interrupting
    <3> QED BY <2>1, <3>1 DEF ControlRequest, Sends
  <2>2. CASE ~ControlRequest
    BY <2>2, StaysFine DEF IdleTimePasses, Deadline, WorkBegins, WorkEnds, Touch, IdleSetting
  <2> QED BY <2>1, <2>2
<1> QED BY <1>1, <1>2, <1>3, StaysFine, AloneKeeps

(* The policy reserves the device only with no lease.                      *)
LEMMA ReserveKeeps == IInv /\ ReserveAutoSleep => IInv'
<1> SUFFICES ASSUME IInv, ReserveAutoSleep PROVE IInv'
  OBVIOUS
<1>1. Outside /\ UNCHANGED key
  BY DEF ReserveAutoSleep, PowerUnchanged, Outside, keyVars, kernelVars
<1>2. CASE MayQuiesce(pw) /\ pw' = Reserved(pw) /\ Send("AutoSleep", pw.checked, interaction)
  <2>1. pw' \in Powers /\ pw'.leases = {}
    BY <1>2, StaysFine DEF MayQuiesce, Reserved, Powers, PowerPhases
  <2>2. QueueTypes' /\ QueueInv'
    <3>1. "AutoSleep" \in Kinds \ {"Resuspend"} /\ pw.checked \in Nat
      BY StaysFine DEF Kinds, Powers
    <3> QED BY <1>1, <1>2, <3>1, SendKeeps DEF IInv, Outside
  <2> QED BY <1>1, <2>1, <2>2, StaysFine, OutsideKeeps DEF Outside, LeaseKeepsAwake
<1>3. CASE pw' = NotReserved(pw) /\ UNCHANGED queueVars
  BY <1>1, <1>3, PolicyYields, StaysFine, AloneKeeps
<1> QED BY <1>2, <1>3 DEF ReserveAutoSleep

(* Home asks by events.                                                    *)
LEMMA HomeKeeps ==
  ASSUME IInv, SleepButton \/ HomeReads \/ HomeHears \/ SleepReplyLate
  PROVE  IInv'
<1>1. Outside /\ UNCHANGED key
  BY DEF SleepButton, HomeReads, HomeHears, SleepReplyLate, HomeUnchanged, Outside, keyVars,
         kernelVars
<1>2. Yields(pw, pw')
  BY PolicyYields, StaysFine DEF SleepButton, HomeReads, HomeHears, SleepReplyLate
<1>3. {"Sleep", "Wake", "Launch"} \subseteq Kinds \ {"Resuspend"}
  BY DEF Kinds, Interrupting
<1>4. \/ Send("Sleep", 0, interaction) \/ Send("Wake", 0, interaction)
      \/ Send("Launch", 0, interaction) \/ UNCHANGED queueVars
  <2>1. CASE SleepButton
    BY <2>1 DEF SleepButton, AskSleep
  <2>2. CASE HomeReads
    BY <2>2 DEF HomeReads, AskSleep
  <2>3. CASE HomeHears
    BY <2>3 DEF HomeHears, AskWake
  <2>4. CASE SleepReplyLate
    BY <2>4 DEF SleepReplyLate
  <2> QED BY <2>1, <2>2, <2>3, <2>4
<1>5. Sends \/ Later
  BY <1>3, <1>4, StaysFine DEF Sends
<1> QED BY <1>1, <1>2, <1>5, StaysFine, AloneKeeps

(* The quiet window of the guard passes: the guard goes off, and the       *)
(* handler that waited for it goes on.                                     *)
LEMMA GuardQuietKeeps == IInv /\ GuardQuiet => IInv'
<1> SUFFICES ASSUME IInv, GuardQuiet PROVE IInv'
  OBVIOUS
<1>1. UNCHANGED <<domain, tx, pw, panel, wakelock, timers>> /\ UNCHANGED queueVars
  BY DEF GuardQuiet, kernelVars, queueVars
<1>2. key.wake.guard = "resumed" /\ key' \in Keys /\ key'.wake.guard = "off"
  BY StaysFine DEF GuardQuiet, QuietDue, Keys, Wakes, GuardOff
<1>3. LockTypes' /\ LeaseKeepsAwake'
  BY <1>1, <1>2 DEF IInv, TypeOK, LockTypes, LeaseKeepsAwake
<1>4. CASE loop' = loop
  <2>1. QueueTypes' /\ QueueInv'
    BY <1>1, <1>4, QueueKept DEF IInv, TypeOK, QueueTypes, queueVars, QueueInv
  <2>2. PlaceInv'
    BY <1>1, <1>2, <1>4 DEF IInv, PlaceInv, PlaceAt, InUse, Locked, Stock, LockHealthy
  <2> QED BY <1>3, <1>4, <2>1, <2>2 DEF IInv, TypeOK
<1>5. ASSUME NEW place \in {"pressed", "unpressed"}, GoTo(place), loop.at = "quiet" PROVE IInv'
  <2>1. domain = "Sleeping" /\ LockHealthy /\ wakelock
    BY <1>5 DEF IInv, PlaceInv, PlaceAt, Behind
  <2>2. PlaceAt(place)'
    BY <1>1, <1>5, <2>1 DEF PlaceAt, Behind, Guarded, LockHealthy
  <2>3. place \in Places /\ place \notin Timed
    BY DEF Places, Timed
  <2> QED BY <1>1, <1>3, <1>5, <2>2, <2>3, GoesKeeps
<1> QED BY <1>4, <1>5 DEF GuardQuiet, GoTo

(* A retry is queued under the current epoch.                              *)
LEMMA TimerKeeps ==
  ASSUME IInv, NEW t \in timers, TimerEnds(t)
  PROVE  IInv'
<1>1. UNCHANGED <<domain, tx, pw, key, panel, wakelock, interaction, loop>>
  BY DEF TimerEnds, keyVars, kernelVars
<1>2. timers' \subseteq Retries /\ t \in Retries
  BY DEF TimerEnds, IInv, TypeOK, LockTypes
<1>3. LockTypes' /\ LeaseKeepsAwake' /\ PlaceInv'
  BY <1>1, <1>2 DEF IInv, TypeOK, LockTypes, LeaseKeepsAwake, PlaceInv, PlaceAt, InUse, Locked,
     Stock, LockHealthy
<1>4. QueueTypes' /\ QueueInv'
  <2>1. CASE UNCHANGED queue
    BY <1>1, <2>1 DEF IInv, TypeOK, QueueTypes, QueueInv, Newer
  <2> DEFINE new == Event("Resuspend", t.epoch, t.revision, t.fence)
  <2>2. CASE queue' = Append(queue, new) /\ interaction = t.fence
    <3>1. new \in Events /\ ~User(new) /\ new.fence = interaction
      BY <1>2, <2>2 DEF Event, Events, Retries, Kinds, User, Interrupting
    <3> HIDE DEF new
    <3>2. /\ queue' \in Seq(Events)
          /\ \A i \in DOMAIN queue' :
               \/ i \in DOMAIN queue /\ queue'[i] = queue[i]
               \/ i \notin DOMAIN queue /\ queue'[i] = new
          /\ \A i, j \in DOMAIN queue' : i < j => i \in DOMAIN queue
      BY <2>2, <3>1, Queued DEF IInv, TypeOK
    <3>3. interaction \in Nat
      BY DEF IInv, TypeOK, QueueTypes
    <3>4. \A i \in DOMAIN queue' : queue'[i].fence <= interaction'
      BY <1>1, <3>1, <3>2, <3>3 DEF IInv, QueueInv
    <3>5. \A i, j \in DOMAIN queue' :
            i < j /\ User(queue'[j]) => queue'[i].fence < queue'[j].fence
      BY <3>1, <3>2 DEF IInv, QueueInv
    <3>6. loop.event.ev # "none" => loop.event.fence <= interaction /\ Newer(loop.event)'
      BY <3>1, <3>2, <1>1 DEF IInv, QueueInv, Newer
    <3> QED BY <1>1, <3>2, <3>3, <3>4, <3>5, <3>6 DEF QueueTypes, QueueInv, IInv
  <2> QED BY <2>1, <2>2 DEF TimerEnds
<1> QED BY <1>1, <1>3, <1>4 DEF IInv, TypeOK

-----------------------------------------------------------------------------
(***************************************************************************)
(* The handlers                                                            *)
(***************************************************************************)
(* The next event begins its handler.                                      *)
LEMMA TakeKeeps == IInv /\ Take => IInv'
<1> SUFFICES ASSUME IInv, Take PROVE IInv'
  OBVIOUS
<1>1. UNCHANGED <<domain, tx, key, panel, wakelock, timers, interaction>>
  BY DEF Take, keyVars, kernelVars
<1>2. Yields(pw, pw')
  BY PolicyYields, StaysFine DEF Take
<1>3. LockTypes' /\ LeaseKeepsAwake'
  BY <1>1, <1>2, LeaseKept DEF IInv, TypeOK, LockTypes, Yields
<1>4. /\ queue' \in Seq(Events)
      /\ Head(queue) = queue[1] /\ 1 \in DOMAIN queue /\ Head(queue) \in Events
      /\ \A i \in DOMAIN queue' : /\ i \in Nat /\ i > 0
                                  /\ i + 1 \in DOMAIN queue /\ queue'[i] = queue[i + 1]
  BY Taken DEF Take, IInv, TypeOK
<1>5. loop' \in Loops /\ loop'.at = "start" /\ loop'.event = queue[1]
  BY <1>4, StaysFine DEF Take, Loops, Places
<1>6. PlaceInv'
  BY <1>1, <1>5 DEF Take, IInv, PlaceInv, PlaceAt, Behind, Guarded, InUse, Locked, Stock,
     LockHealthy
<1>7. QueueInv'
  <2>1. \A i \in DOMAIN queue' : queue'[i].fence <= interaction'
    BY <1>1, <1>4 DEF IInv, QueueInv
  <2>2. \A i, j \in DOMAIN queue' :
          i < j /\ User(queue'[j]) => queue'[i].fence < queue'[j].fence
    <3> SUFFICES ASSUME NEW i \in DOMAIN queue', NEW j \in DOMAIN queue', i < j,
                        User(queue'[j])
                 PROVE  queue'[i].fence < queue'[j].fence
      OBVIOUS
    <3>1. /\ i + 1 \in DOMAIN queue /\ j + 1 \in DOMAIN queue /\ i + 1 < j + 1
          /\ queue'[i] = queue[i + 1] /\ queue'[j] = queue[j + 1]
      BY <1>4
    <3> QED BY <3>1 DEF IInv, QueueInv
  <2>3. loop'.event.fence <= interaction' /\ Newer(loop.event)'
    <3> SUFFICES ASSUME NEW j \in DOMAIN queue', User(queue'[j])
                 PROVE  queue[1].fence < queue'[j].fence
      <4>1. queue[1].fence <= interaction
        BY <1>4 DEF IInv, QueueInv
      <4> QED BY <1>1, <1>5, <4>1 DEF Newer, User
    <3>1. j + 1 \in DOMAIN queue /\ 1 < j + 1 /\ queue'[j] = queue[j + 1]
      BY <1>4
    <3> QED BY <1>4, <3>1 DEF IInv, QueueInv
  <2> QED BY <1>5, <2>1, <2>2, <2>3 DEF QueueInv, Timed, Retry, User, Newer
<1> QED BY <1>1, <1>3, <1>4, <1>5, <1>6, <1>7 DEF IInv, TypeOK, QueueTypes

(* At the start and at the two pages of the automatic sleep a handler      *)
(* leaves the lock as it found it; the screen may change hands.            *)
Rests == UNCHANGED <<tx, key, panel, wakelock, timers>> /\ UNCHANGED queueVars
Screens == domain' = domain \/ {domain, domain'} \subseteq {"Manager", "Foreground"}
LEMMA LockRests ==
  ASSUME IInv, loop.at \in {"start", "handoff", "cover"}, Rests, Screens, Yields(pw, pw')
  PROVE  /\ LockTypes' /\ LeaseKeepsAwake' /\ UNCHANGED queueVars
         /\ (InUse \/ Locked \/ Stock)'
         /\ domain' \in {"Manager", "Foreground"} => InUse'
<1>1. InUse \/ Locked \/ Stock
  BY DEF IInv, PlaceInv, PlaceAt
<1>2. domain' \in {"Manager", "Foreground"} => domain \in {"Manager", "Foreground"}
  BY DEF Screens
<1>3. LeaseKeepsAwake'
  BY <1>2, LeaseKept
<1>4. LockTypes'
  BY DEF Rests, Screens, Yields, IInv, TypeOK, LockTypes
<1> QED BY <1>1, <1>3, <1>4 DEF Rests, Screens, InUse, Locked, Stock, LockHealthy

(* So it ends, fails or goes on.                                           *)
LEMMA RestsEnd ==
  ASSUME IInv, loop.at \in {"start", "handoff", "cover"}, Rests, Screens, Yields(pw, pw'),
         \/ Done \/ Fails("plain") \/ Fails("retained")
         \/ domain' = "Manager" /\ (GoTo("handoff") \/ GoTo("cover"))
  PROVE  IInv'
<1>1. /\ LockTypes' /\ LeaseKeepsAwake' /\ UNCHANGED queueVars
      /\ (InUse \/ Locked \/ Stock)' /\ (domain' \in {"Manager", "Foreground"} => InUse')
  BY LockRests
<1>2. CASE Done
  BY <1>1, <1>2, DoneKeeps DEF Done
<1>3. ASSUME NEW error \in {"plain", "retained"}, Fails(error) PROVE IInv'
  <2>1. \/ (InUse \/ Stock)'
        \/ domain' = "Sleeping" /\ (error = "retained" => Locked')
    <3>1. Locked' => domain' = "Sleeping"
      BY DEF Locked
    <3> QED BY <1>1, <3>1
  <2> QED BY <1>1, <1>3, <2>1, FailsKeeps DEF Errors
<1>4. ASSUME NEW place \in {"handoff", "cover"}, GoTo(place), domain' = "Manager" PROVE IInv'
  <2>1. PlaceAt(place)' /\ place \in Places /\ place \notin Timed
    BY <1>1, <1>4 DEF PlaceAt, Places, Behind, Guarded, Timed
  <2> QED BY <1>1, <1>4, <2>1, GoesKeeps
<1> QED BY <1>2, <1>3, <1>4

(* Presses, launches and the cover.                                        *)
LEMMA RequestsKeep ==
  ASSUME IInv, \/ HandleActivity \/ HandlePress \/ HandleLaunch \/ HandleAutoSleep \/ HandOff
               \/ HandleCoverClosed \/ CoverHandOff \/ HandleCoverOpened
  PROVE  IInv'
<1>1. loop.at \in {"start", "handoff", "cover"}
  BY DEF HandleActivity, HandlePress, HandleLaunch, HandleAutoSleep, HandOff, HandleCoverClosed,
     CoverHandOff, HandleCoverOpened, Starts, At
<1>2. Rests
  BY DEF HandleActivity, HandlePress, HandleLaunch, HandleAutoSleep, HandOff, HandleCoverClosed,
     CoverHandOff, HandleCoverOpened, Still, Untouched, Rests
<1>3. Yields(pw, pw')
  BY PolicyYields, StaysFine
  DEF HandleActivity, HandlePress, HandleLaunch, HandleAutoSleep, HandOff, HandleCoverClosed,
      CoverHandOff, HandleCoverOpened
<1>4. Screens
  BY DEF HandleActivity, HandlePress, HandleLaunch, HandleAutoSleep, HandOff, HandleCoverClosed,
     CoverHandOff, HandleCoverOpened, Screens
<1>5. \/ Done \/ Fails("plain") \/ Fails("retained")
      \/ domain' = "Manager" /\ (GoTo("handoff") \/ GoTo("cover"))
  BY DEF HandleActivity, HandlePress, HandleLaunch, HandleAutoSleep, HandOff, HandleCoverClosed,
     CoverHandOff, HandleCoverOpened
<1> QED BY <1>1, <1>2, <1>3, <1>4, <1>5, RestsEnd

(* Home comes up over the stock system.                                    *)
LEMMA EnterKeeps == IInv /\ HandleEnter => IInv'
<1> SUFFICES ASSUME IInv, HandleEnter PROVE IInv'
  OBVIOUS
<1>1. Stock
  BY DEF HandleEnter, Starts, IInv, PlaceInv, PlaceAt, InUse, Locked
<1>2. /\ domain' = "Manager" /\ wakelock' = TRUE /\ UNCHANGED <<tx, panel, timers>>
      /\ pw' = EnterManaged(pw) /\ key' = Cleared(key) /\ loop' = Resting
      /\ Send("CoverClosed", 0, interaction) \/ UNCHANGED queueVars
  BY DEF HandleEnter, EnterManager
<1>3. pw' \in Powers /\ pw'.phase = "Awake" /\ key' \in Keys /\ key'.wake.guard = "off"
  BY <1>2, PolicyYields, KeySteps, StaysFine DEF Yields
<1>4. LockTypes' /\ LeaseKeepsAwake' /\ InUse'
  BY <1>1, <1>2, <1>3 DEF IInv, TypeOK, LockTypes, LeaseKeepsAwake, InUse, Stock
<1>5. CASE UNCHANGED queueVars
  BY <1>2, <1>4, <1>5, DoneKeeps
<1>6. CASE Send("CoverClosed", 0, interaction)
  <2>1. "CoverClosed" \in Kinds \ {"Resuspend"}
    BY DEF Kinds, Interrupting
  <2>2. QueueTypes' /\ QueueInv'
    BY <1>2, <1>6, <2>1, SendKeeps DEF IInv
  <2>3. PlaceInv'
    BY <1>2, <1>4, RestingIs DEF PlaceInv, PlaceAt, Behind, Guarded
  <2> QED BY <1>2, <1>4, <2>2, <2>3, RestingIs DEF IInv, TypeOK
<1> QED BY <1>2, <1>5, <1>6

(* The stock system gets the device, or has it.                            *)
LEMMA HandleRestoreKeeps == IInv /\ HandleRestore => IInv'
<1> SUFFICES ASSUME IInv, HandleRestore PROVE IInv'
  OBVIOUS
<1>1. CASE RestoreSystem
  BY <1>1, RestoreKeeps
<1>2. CASE Done /\ Still /\ UNCHANGED <<domain, pw>>
  <2>1. loop.at = "start" /\ Rests /\ Screens /\ Yields(pw, pw')
    BY <1>2, StaysFine DEF HandleRestore, Starts, Still, Untouched, Rests, Screens
  <2> QED BY <1>2, <2>1, RestsEnd
<1> QED BY <1>1, <1>2 DEF HandleRestore

-----------------------------------------------------------------------------
(* What a handler knows at its place.                                      *)
LEMMA Facts ==
  ASSUME IInv
  PROVE  /\ loop.at \in {"start", "handoff", "cover"} => InUse \/ Locked \/ Stock
         /\ loop.at \in {"showing", "rolling", "unlocking"} => domain = "Sleeping" /\ wakelock
         /\ loop.at \in Behind => domain = "Sleeping" /\ LockHealthy
         /\ loop.at \in Behind \ {"suspending"} => wakelock
         /\ loop.at \in Guarded => key.wake.guard = "armed"
         /\ loop.at = "recover" => \/ InUse \/ Stock
                                   \/ domain = "Sleeping" /\ (loop.error = "retained" => Locked)
  BY DEF IInv, PlaceInv, PlaceAt

(* Asleep nothing has to be shown of the leases.                           *)
LEMMA Asleep ==
  ASSUME IInv, domain' = "Sleeping", tx' \in Sleeps, pw' \in Powers, key' \in Keys,
         panel' \in Nat, wakelock' \in BOOLEAN, timers' \subseteq Retries
  PROVE  LockTypes' /\ LeaseKeepsAwake'
  BY DEF LockTypes, LeaseKeepsAwake

(* The types of what a handler may leave alone.                            *)
LEMMA Typed ==
  ASSUME IInv
  PROVE  /\ tx \in Sleeps /\ tx.epoch \in Nat /\ tx.revision \in Nat
         /\ pw \in Powers /\ key \in Keys /\ Cleared(key) \in Keys /\ Armed(key) \in Keys
         /\ AskedResume(key) \in Keys
         /\ panel \in Nat /\ wakelock \in BOOLEAN /\ timers \subseteq Retries
         /\ interaction \in Nat /\ loop \in Loops /\ loop.fence \in Nat
         /\ Cleared(key).wake.guard = "off"
  BY KeySteps DEF IInv, TypeOK, LockTypes, QueueTypes, Sleeps, Loops

(* An error in front of a page that may not be there, or of a lock that is.*)
LEMMA PlainKeeps ==
  ASSUME IInv, Fails("plain"), UNCHANGED queueVars, domain' = "Sleeping", LockTypes'
  PROVE  IInv'
<1>1. LeaseKeepsAwake'
  BY DEF LeaseKeepsAwake
<1> QED BY <1>1, FailsKeeps DEF Errors

(* The sleep begins: a new epoch, and the fence of the interactions.       *)
LEMMA SleepKeeps == IInv /\ HandleSleep => IInv'
<1> SUFFICES ASSUME IInv, HandleSleep PROVE IInv'
  OBVIOUS
<1>1. /\ UNCHANGED <<key, panel, wakelock, timers, pw>> /\ UNCHANGED queueVars
      /\ loop.at = "start" /\ loop.event.ev = "Sleep"
  BY DEF HandleSleep, Untouched, Starts
<1>2. CASE Fails("plain") /\ UNCHANGED <<domain, tx>>
  BY <1>1, <1>2, StaysFine, RestsEnd DEF Rests, Screens
<1>3. CASE /\ domain = "Manager" /\ domain' = "Sleeping" /\ tx' = Begin(tx, tx.revision + 1)
           /\ loop' = [loop EXCEPT !.at = "showing", !.fence = interaction]
  <2>1. tx' \in Sleeps
    BY <1>3, Updates, Typed
  <2>2. LockTypes' /\ LeaseKeepsAwake'
    BY <1>1, <1>3, <2>1, Typed, Asleep
  <2>3. /\ loop' \in Loops /\ loop'.at = "showing" /\ loop'.event = loop.event
    BY <1>3, Typed DEF Loops, Places
  <2>4. wakelock
    BY <1>1, <1>3, Facts DEF InUse, Locked, Stock
  <2>5. PlaceInv'
    BY <1>1, <1>3, <2>3, <2>4 DEF PlaceInv, PlaceAt, Behind, Guarded
  <2>6. QueueTypes' /\ QueueInv'
    BY <1>1, <2>3, Typed, QueueKept DEF IInv, queueVars, Retry
  <2> QED BY <2>2, <2>3, <2>5, <2>6 DEF IInv, TypeOK
<1> QED BY <1>2, <1>3 DEF HandleSleep, NewSleepEpoch

(* The page of the lock, or the way back.                                  *)
LEMMA ShowLockKeeps == IInv /\ ShowLock => IInv'
<1> SUFFICES ASSUME IInv, ShowLock PROVE IInv'
  OBVIOUS
<1>1. /\ UNCHANGED <<domain, key, wakelock, timers>> /\ UNCHANGED queueVars
      /\ loop.at = "showing" /\ domain = "Sleeping" /\ wakelock
  BY Facts DEF ShowLock, Untouched, At
<1>2. CASE /\ panel' = tx.epoch /\ tx' = MarkLocked(tx) /\ pw' = InPhase(pw, "Quiescing")
           /\ GoTo("arming")
  <2>1. /\ tx' \in Sleeps /\ tx'.phase = "Locked" /\ tx'.epoch = tx.epoch
        /\ pw' \in Powers
    BY <1>2, Typed, Updates, InPhaseIs DEF PowerPhases
  <2>2. LockTypes' /\ LeaseKeepsAwake'
    BY <1>1, <1>2, <2>1, Typed, Asleep
  <2>3. PlaceAt("arming")'
    BY <1>1, <1>2, <2>1 DEF PlaceAt, Behind, Guarded, LockHealthy
  <2> QED BY <1>1, <1>2, <2>2, <2>3, GoesKeeps DEF Places, Timed
<1>3. CASE panel' \in {0, tx.epoch} /\ GoTo("rolling") /\ UNCHANGED <<tx, pw>>
  <2>1. LockTypes' /\ LeaseKeepsAwake'
    BY <1>1, <1>3, Typed, Asleep
  <2>2. PlaceAt("rolling")'
    BY <1>1 DEF PlaceAt, Behind, Guarded
  <2> QED BY <1>1, <1>3, <2>1, <2>2, GoesKeeps DEF Places, Timed
<1> QED BY <1>2, <1>3 DEF ShowLock

(* The wake guard, which a retry clears first.                             *)
LEMMA ArmGuardKeeps == IInv /\ ArmGuard => IInv'
<1> SUFFICES ASSUME IInv, ArmGuard PROVE IInv'
  OBVIOUS
<1>1. /\ UNCHANGED <<domain, tx, pw, panel, wakelock, timers>> /\ UNCHANGED queueVars
      /\ loop.at = "arming" /\ domain = "Sleeping" /\ wakelock /\ LockHealthy
  BY Facts DEF ArmGuard, Untouched, At, Behind
<1>2. key' \in Keys
  BY Typed, KeySteps DEF ArmGuard
<1>3. LockTypes' /\ LeaseKeepsAwake'
  BY <1>1, <1>2, Typed, Asleep
<1>4. CASE /\ key' = Armed(IF CanArm(key) THEN key ELSE Cleared(key)) /\ GoTo("recheck")
  <2>1. key'.wake.guard = "armed"
    BY <1>4, Typed, KeySteps
  <2>2. PlaceAt("recheck")'
    BY <1>1, <2>1 DEF PlaceAt, Behind, Guarded, LockHealthy
  <2> QED BY <1>1, <1>3, <1>4, <2>2, GoesKeeps DEF Places, Timed
<1>5. CASE GoTo("rolling")
  <2>1. PlaceAt("rolling")'
    BY <1>1 DEF PlaceAt, Behind, Guarded
  <2> QED BY <1>1, <1>3, <1>5, <2>1, GoesKeeps DEF Places, Timed
<1>6. CASE Fails("plain")
  BY <1>1, <1>3, <1>6, PlainKeeps
<1> QED BY <1>4, <1>5, <1>6 DEF ArmGuard, Unguarded

(* The fence once more.                                                    *)
LEMMA RecheckKeeps == IInv /\ Recheck => IInv'
<1> SUFFICES ASSUME IInv, Recheck PROVE IInv'
  OBVIOUS
<1>1. /\ UNCHANGED <<domain, tx, panel, wakelock, timers>> /\ UNCHANGED queueVars
      /\ loop.at = "recheck" /\ domain = "Sleeping" /\ wakelock /\ LockHealthy
      /\ key.wake.guard = "armed"
  BY Facts DEF Recheck, Untouched, At, Behind, Guarded
<1>2. key' \in Keys /\ pw' \in Powers
  BY Typed, InPhaseIs DEF Recheck, PowerPhases
<1>3. LockTypes' /\ LeaseKeepsAwake'
  BY <1>1, <1>2, Typed, Asleep
<1>4. CASE GoTo("entering") /\ UNCHANGED key
  <2>1. PlaceAt("entering")'
    BY <1>1, <1>4 DEF PlaceAt, Behind, Guarded, LockHealthy
  <2> QED BY <1>1, <1>3, <1>4, <2>1, GoesKeeps DEF Places, Timed
<1>5. CASE GoTo("rolling")
  <2>1. PlaceAt("rolling")'
    BY <1>1 DEF PlaceAt, Behind, Guarded
  <2> QED BY <1>1, <1>3, <1>5, <2>1, GoesKeeps DEF Places, Timed
<1>6. CASE Done
  <2>1. Locked'
    BY <1>1 DEF Locked, LockHealthy
  <2> QED BY <1>1, <1>3, <1>6, <2>1, DoneKeeps DEF Done
<1>7. CASE Fails("plain")
  BY <1>1, <1>3, <1>7, PlainKeeps
<1> QED BY <1>4, <1>5, <1>6, <1>7 DEF Recheck

(* The wake lock goes and comes back.                                      *)
LEMMA WakelockKeeps ==
  ASSUME IInv, ReleaseWakelock \/ SuspendStops \/ KernelResumed
  PROVE  IInv'
<1>1. /\ UNCHANGED <<domain, tx, pw, key, panel, timers>> /\ UNCHANGED queueVars
      /\ loop.at \in {"entering", "suspending"} /\ wakelock' \in BOOLEAN
  BY DEF ReleaseWakelock, SuspendStops, KernelResumed, keyVars, At
<1>2. domain = "Sleeping" /\ LockHealthy /\ key.wake.guard = "armed"
  BY <1>1, Facts DEF Behind, Guarded
<1>3. LockTypes' /\ LeaseKeepsAwake'
  BY <1>1, <1>2, Typed, Asleep
<1>4. ASSUME NEW place \in {"suspending", "resuming"}, GoTo(place),
             place = "resuming" => wakelock'
      PROVE  IInv'
  <2>1. PlaceAt(place)'
    BY <1>1, <1>2, <1>4 DEF PlaceAt, Behind, Guarded, LockHealthy
  <2> QED BY <1>1, <1>3, <1>4, <2>1, GoesKeeps DEF Places, Timed
<1>5. ASSUME NEW why \in {"blocked", "interrupted", "refused"}, Stops(why), wakelock'
      PROVE  IInv'
  <2>1. loop' \in Loops /\ loop'.at = "failed" /\ loop'.event = loop.event
    BY <1>5, Typed DEF Stops, Loops, Places, Errors
  <2>2. PlaceInv'
    BY <1>1, <1>2, <1>5, <2>1 DEF PlaceInv, PlaceAt, Behind, Guarded, LockHealthy
  <2>3. QueueTypes' /\ QueueInv'
    BY <1>1, <2>1, Typed, QueueKept DEF IInv, queueVars, Timed
  <2> QED BY <1>3, <2>1, <2>2, <2>3 DEF IInv, TypeOK
<1> QED BY <1>4, <1>5 DEF ReleaseWakelock, SuspendStops, KernelResumed

(* A wake lock that does not come back is a plain error.                   *)
LEMMA WakelockLostKeeps == IInv /\ WakelockLost => IInv'
<1> SUFFICES ASSUME IInv, WakelockLost PROVE IInv'
  OBVIOUS
<1>1. /\ UNCHANGED <<domain, tx, panel, wakelock, timers>> /\ UNCHANGED queueVars
      /\ domain = "Sleeping" /\ Fails("plain")
  BY Facts DEF WakelockLost, Untouched, At, Behind, Guarded
<1>2. key' \in Keys /\ pw' \in Powers
  BY Typed, InPhaseIs DEF WakelockLost, PowerPhases
<1> QED BY <1>1, <1>2, Typed, Asleep, PlainKeeps

(* A suspend that failed keeps the lock and leaves a timer.                *)
LEMMA SuspendFailedKeeps == IInv /\ SuspendFailed => IInv'
<1> SUFFICES ASSUME IInv, SuspendFailed PROVE IInv'
  OBVIOUS
<1>1. /\ UNCHANGED <<domain, tx, panel, wakelock>> /\ UNCHANGED queueVars
      /\ domain = "Sleeping" /\ LockHealthy /\ wakelock
  BY Facts DEF SuspendFailed, Untouched, At, Behind, Guarded
<1>2. key' \in Keys /\ pw' \in Powers
  BY Typed, InPhaseIs DEF SuspendFailed, PowerPhases
<1>3. timers' \subseteq Retries
  <2>1. FailedTimer \in Retries
    BY <1>1, Typed DEF FailedTimer, Timer, Retries
  <2> QED BY <2>1, Typed DEF SuspendFailed
<1>4. LockTypes' /\ LeaseKeepsAwake'
  BY <1>1, <1>2, <1>3, Typed, Asleep
<1>5. Locked'
  BY <1>1 DEF Locked, LockHealthy
<1>6. CASE Fails("retained")
  BY <1>1, <1>4, <1>5, <1>6, FailsKeeps DEF Errors
<1>7. CASE Fails("plain")
  BY <1>1, <1>4, <1>7, PlainKeeps
<1> QED BY <1>6, <1>7 DEF SuspendFailed, RetainedError

(* The guard is asked, and may not answer.                                 *)
LEMMA ResumeKeeps == ASSUME IInv, ResumeGuard \/ QuietTimeout PROVE IInv'
<1>1. /\ UNCHANGED <<domain, tx, pw, panel, wakelock, timers>> /\ UNCHANGED queueVars
      /\ domain = "Sleeping" /\ LockHealthy /\ wakelock
  BY Facts DEF ResumeGuard, QuietTimeout, Still, Untouched, At, Behind, Guarded
<1>2. key' \in Keys
  BY Typed DEF ResumeGuard, QuietTimeout, Still
<1>3. LockTypes' /\ LeaseKeepsAwake'
  BY <1>1, <1>2, Typed, Asleep
<1>4. CASE GoTo("quiet")
  <2>1. PlaceAt("quiet")'
    BY <1>1 DEF PlaceAt, Behind, Guarded, LockHealthy
  <2> QED BY <1>1, <1>3, <1>4, <2>1, GoesKeeps DEF Places, Timed
<1>5. CASE Fails("plain")
  BY <1>1, <1>3, <1>5, PlainKeeps
<1> QED BY <1>4, <1>5 DEF ResumeGuard, QuietTimeout

(* Awake again behind the same lock.                                       *)
LEMMA PhysicalResumeKeeps == IInv /\ PhysicalResume => IInv'
<1> SUFFICES ASSUME IInv, PhysicalResume PROVE IInv'
  OBVIOUS
<1>1. /\ UNCHANGED <<domain, key, panel, wakelock>> /\ UNCHANGED queueVars
      /\ domain = "Sleeping" /\ LockHealthy /\ wakelock
  BY Facts DEF PhysicalResume, Untouched, At, Behind, Guarded
<1>2. CASE Fails("plain") /\ UNCHANGED <<tx, pw, timers>>
  BY <1>1, <1>2, Typed, Asleep, PlainKeeps
<1>3. CASE /\ tx' = MarkAwake(tx) /\ timers' = timers \cup {Timer("after", interaction)}
           /\ \/ Done /\ UNCHANGED pw
              \/ pw' = InPhase(pw, "Resuming") /\ Fails("retained")
  <2>1. tx' \in Sleeps /\ tx'.phase = "Locked" /\ tx'.epoch = tx.epoch
    BY <1>3, Typed, Updates
  <2>2. timers' \subseteq Retries
    <3>1. Timer("after", interaction) \in Retries
      BY <2>1, Typed DEF Timer, Retries, Sleeps
    <3> QED BY <1>3, <3>1, Typed
  <2>3. pw' \in Powers
    BY <1>3, Typed, InPhaseIs DEF PowerPhases
  <2>4. LockTypes' /\ LeaseKeepsAwake'
    BY <1>1, <2>1, <2>2, <2>3, Typed, Asleep
  <2>5. Locked'
    BY <1>1, <2>1 DEF Locked, LockHealthy
  <2>6. CASE Done
    BY <1>1, <2>4, <2>5, <2>6, DoneKeeps DEF Done
  <2>7. CASE Fails("retained")
    BY <1>1, <2>4, <2>5, <2>7, FailsKeeps DEF Errors
  <2> QED BY <1>3, <2>6, <2>7
<1> QED BY <1>2, <1>3 DEF PhysicalResume

(* The way back from a lock that was not shown or not guarded.             *)
LEMMA RollBackKeeps == IInv /\ RollBack => IInv'
<1> SUFFICES ASSUME IInv, RollBack PROVE IInv'
  OBVIOUS
<1>1. /\ UNCHANGED <<wakelock, timers>> /\ UNCHANGED queueVars
      /\ domain = "Sleeping" /\ wakelock /\ Fails("plain")
  BY Facts DEF RollBack, Untouched, At
<1>2. /\ BeginUnlock(tx) \in Sleeps
      /\ FinishUnlock(BeginUnlock(tx)) \in Sleeps
      /\ FinishUnlock(BeginUnlock(tx)).phase = "Idle"
      /\ AbortUnlock(BeginUnlock(tx)) \in Sleeps
  <2>1. BeginUnlock(tx) \in Sleeps
    BY Typed, Updates
  <2> QED BY <2>1, Updates
<1>3. CASE /\ key' = Cleared(key) /\ panel' = 0 /\ domain' = "Manager"
           /\ tx' = FinishUnlock(BeginUnlock(tx)) /\ pw' = CancelQuiescing(pw)
  <2>1. pw' \in Powers /\ pw'.phase # "Quiescing"
    BY <1>3, Typed, PolicyYields DEF Yields
  <2>2. LockTypes' /\ LeaseKeepsAwake' /\ InUse'
    BY <1>1, <1>2, <1>3, <2>1, Typed DEF LockTypes, LeaseKeepsAwake, InUse
  <2> QED BY <1>1, <2>2, FailsKeeps DEF Errors
<1>4. CASE /\ tx' = AbortUnlock(BeginUnlock(tx)) /\ key' \in {key, Cleared(key)}
           /\ panel' \in {0, panel} /\ UNCHANGED <<domain, pw>>
  BY <1>1, <1>2, <1>4, Typed, Asleep, PlainKeeps
<1> QED BY <1>3, <1>4 DEF RollBack, Replaced

(* The wake up to its half,                                                *)
LEMMA WakeKeeps == IInv /\ HandleWake => IInv'
<1> SUFFICES ASSUME IInv, HandleWake PROVE IInv'
  OBVIOUS
<1>1. /\ UNCHANGED <<domain, pw, key, panel, timers>> /\ UNCHANGED queueVars
      /\ loop.at = "start"
  BY DEF HandleWake, Untouched, Starts
<1>2. CASE (Done \/ Fails("plain")) /\ UNCHANGED <<tx, wakelock>>
  BY <1>1, <1>2, StaysFine, RestsEnd DEF Rests, Screens
<1>3. CASE /\ domain = "Sleeping" /\ wakelock' = TRUE /\ tx' = BeginUnlock(tx)
           /\ GoTo("unlocking")
  <2>1. tx' \in Sleeps
    BY <1>3, Typed, Updates
  <2>2. LockTypes' /\ LeaseKeepsAwake'
    BY <1>1, <1>3, <2>1, Typed, Asleep
  <2>3. PlaceAt("unlocking")'
    BY <1>1, <1>3 DEF PlaceAt, Behind, Guarded
  <2> QED BY <1>1, <1>3, <2>2, <2>3, GoesKeeps DEF Places, Timed
<1> QED BY <1>2, <1>3 DEF HandleWake

(* and its other half, the panel.                                          *)
LEMMA UnlockKeeps == IInv /\ Unlock => IInv'
<1> SUFFICES ASSUME IInv, Unlock PROVE IInv'
  OBVIOUS
<1>1. /\ UNCHANGED <<wakelock, timers>> /\ UNCHANGED queueVars
      /\ domain = "Sleeping" /\ wakelock
  BY Facts DEF Unlock, Untouched, At
<1>2. /\ FinishUnlock(tx) \in Sleeps /\ FinishUnlock(tx).phase = "Idle"
      /\ AbortUnlock(tx) \in Sleeps
  BY Typed, Updates
<1>3. CASE /\ key' = Cleared(key) /\ panel' = 0 /\ domain' = "Manager"
           /\ tx' = FinishUnlock(tx) /\ pw' = Resumed(pw) /\ Done
  <2>1. pw' \in Powers /\ pw'.phase = "Awake"
    BY <1>3, Typed, PolicyYields DEF Yields
  <2>2. LockTypes' /\ LeaseKeepsAwake' /\ InUse'
    BY <1>1, <1>2, <1>3, <2>1, Typed DEF LockTypes, LeaseKeepsAwake, InUse
  <2> QED BY <1>1, <1>3, <2>2, DoneKeeps DEF Done
<1>4. CASE /\ tx' = AbortUnlock(tx) /\ key' \in {key, Cleared(key)} /\ Fails("plain")
           /\ panel' \in {0, panel} /\ UNCHANGED <<domain, pw>>
  BY <1>1, <1>2, <1>4, Typed, Asleep, PlainKeeps
<1> QED BY <1>3, <1>4 DEF Unlock

(* A retry whose fences hold goes behind its lock again.                   *)
LEMMA ResuspendKeeps == IInv /\ HandleResuspend => IInv'
<1> SUFFICES ASSUME IInv, HandleResuspend PROVE IInv'
  OBVIOUS
<1>1. Rests /\ UNCHANGED <<domain, pw>> /\ loop.at = "start"
  BY DEF HandleResuspend, Still, Untouched, Rests, Starts
<1>2. CASE Done
  BY <1>1, <1>2, StaysFine, RestsEnd DEF Screens
<1>3. CASE /\ domain = "Sleeping"
           /\ loop' = [loop EXCEPT !.at = "arming", !.fence = loop.event.fence]
  <2>1. LockTypes' /\ LeaseKeepsAwake'
    BY <1>1, <1>3, Typed, Asleep DEF Rests
  <2>2. loop.event.fence \in Nat
    BY Typed DEF Loops, Events
  <2>3. /\ loop' \in Loops /\ loop'.at = "arming" /\ loop'.event = loop.event
        /\ loop'.fence = loop'.event.fence
    BY <1>3, <2>2, Typed DEF Loops, Places
  <2>4. Locked
    BY <1>1, <1>3, Facts DEF InUse, Stock
  <2>5. PlaceInv'
    BY <1>1, <2>3, <2>4 DEF Rests, PlaceInv, PlaceAt, Behind, Guarded, Locked, LockHealthy
  <2>6. QueueTypes' /\ QueueInv'
    BY <1>1, <2>3, Typed, QueueKept DEF Rests, IInv, queueVars
  <2> QED BY <2>1, <2>3, <2>5, <2>6 DEF IInv, TypeOK
<1> QED BY <1>2, <1>3 DEF HandleResuspend

(* The recovery keeps a healthy lock, or gives the device back.            *)
LEMMA RecoverKeeps == ASSUME IInv, Recover \/ RecoverManager PROVE IInv'
<1>1. CASE RestoreSystem
  BY <1>1, RestoreKeeps
<1>2. CASE Recover /\ ~RestoreSystem
  <2>1. /\ UNCHANGED <<domain, tx, pw, key, panel, wakelock, timers>> /\ UNCHANGED queueVars
        /\ loop' = Resting /\ loop.at = "recover" /\ (domain # "Sleeping" \/ Retains)
    BY <1>2 DEF Recover, Still, Untouched, At
  <2>2. InUse \/ Locked \/ Stock
    BY <2>1, Facts DEF Retains
  <2>3. LockTypes' /\ LeaseKeepsAwake' /\ (InUse \/ Locked \/ Stock)'
    BY <2>1, <2>2 DEF IInv, TypeOK, LockTypes, LeaseKeepsAwake, InUse, Locked, Stock, LockHealthy
  <2> QED BY <2>1, <2>3, DoneKeeps
<1> QED BY <1>1, <1>2 DEF RecoverManager

-----------------------------------------------------------------------------
(***************************************************************************)
(* The invariant and its theorems                                          *)
(***************************************************************************)
(* Home is up and in use.                                                  *)
LEMMA InitInv == Init => IInv
<1> SUFFICES ASSUME Init PROVE IInv
  OBVIOUS
<1>1. tx \in Sleeps /\ tx.phase = "Idle"
  BY DEF Init, NoSleep, Sleeps, Phases
<1>2. pw \in Powers /\ pw.phase = "Awake"
  BY DEF Init, PowerAwake, Powers, PowerPhases
<1>3. key \in Keys /\ key.wake.guard = "off"
  BY DEF Init, KeyIdle, Keys, Tracks, Wakes, Tracking, GuardOff
<1>4. TypeOK
  <2>1. LockTypes
    BY <1>1, <1>2, <1>3 DEF Init, LockTypes
  <2>2. QueueTypes
    BY DEF Init, QueueTypes
  <2> QED BY <2>1, <2>2, RestingIs DEF Init, TypeOK
<1>5. PlaceInv
  BY <1>1, <1>3, RestingIs DEF Init, PlaceInv, PlaceAt, InUse, Behind, Guarded
<1>6. LeaseKeepsAwake
  BY <1>2 DEF LeaseKeepsAwake
<1>7. QueueInv
  BY RestingIs DEF Init, QueueInv, Retry
<1> QED BY <1>4, <1>5, <1>6, <1>7 DEF IInv

(* A stutter keeps what it leaves.                                         *)
LEMMA StutterInv == IInv /\ UNCHANGED vars => IInv'
<1> SUFFICES ASSUME IInv, UNCHANGED vars PROVE IInv'
  OBVIOUS
<1>1. Outside /\ UNCHANGED <<pw, key>> /\ UNCHANGED queueVars
  BY DEF vars, Outside, kernelVars, keyVars
<1> QED BY <1>1, StaysFine, AloneKeeps

(* Every step of every actor keeps it.                                     *)
LEMMA NextInv == IInv /\ [Next]_vars => IInv'
<1> SUFFICES ASSUME IInv, [Next]_vars PROVE IInv'
  OBVIOUS
<1>1. CASE Environment \/ KernelSleeps \/ KeyUp
  BY <1>1, KernelKeeps, ThreadKeeps, CoverKeeps, WorkKeeps, HomeKeeps DEF Environment
<1>2. CASE Thread
  BY <1>2, ThreadKeeps, GuardQuietKeeps DEF Thread
<1>3. CASE Handlers
  BY <1>3, TakeKeeps, RequestsKeep, EnterKeeps, HandleRestoreKeeps, SleepKeeps, ShowLockKeeps,
     ArmGuardKeeps, RecheckKeeps, WakelockKeeps, WakelockLostKeeps, SuspendFailedKeeps,
     ResumeKeeps, PhysicalResumeKeeps, RollBackKeeps, WakeKeeps, UnlockKeeps, ResuspendKeeps,
     RecoverKeeps
  DEF Handlers
<1>4. CASE Policy \/ HomeSteps \/ Timers
  BY <1>4, WorkKeeps, ReserveKeeps, HomeKeeps, TimerKeeps DEF Policy, HomeSteps, Timers
<1>5. CASE UNCHANGED vars
  BY <1>5, StutterInv
<1> QED BY <1>1, <1>2, <1>3, <1>4, <1>5 DEF Next

(* The invariant holds of every run of the daemon, its key thread, the     *)
(* idle policy, Home and the kernel, whatever fails and in every order.    *)
THEOREM Invariance == Spec => []IInv
<1> QED BY InitInv, NextInv, PTL DEF Spec

(* The kernel gets the device only behind the committed page of the lock   *)
(* and with the wake guard armed (sleep and resuspend_locked in            *)
(* navigation/suspend.rs).                                                 *)
THEOREM SleepsBehindLock == Spec => []SuspendBehindLock
<1>1. IInv => SuspendBehindLock
  BY Facts DEF SuspendBehindLock, Behind, Guarded
<1> QED BY <1>1, Invariance, PTL

(* Between two handlers the domain, the sleep transaction, the panel and   *)
(* the wake lock are in one of the three states: in use, locked, or given  *)
(* to the stock system.  No error path of sleep, wake, the retry or the    *)
(* recovery (request.rs recover_after_failure) ends between them.          *)
THEOREM OwnersAlwaysAgree == Spec => []OwnersAgree
<1>1. IInv => OwnersAgree
  BY DEF IInv, PlaceInv, PlaceAt, OwnersAgree, InUse, Locked, Stock
<1> QED BY <1>1, Invariance, PTL

(* The policy has the awake device reserved for sleep only while nobody    *)
(* holds a lease on it (reserve_auto_sleep and begin_work).                *)
THEOREM WorkKeepsAwake == Spec => []LeaseKeepsAwake
<1>1. IInv => LeaseKeepsAwake
  BY DEF IInv
<1> QED BY <1>1, Invariance, PTL

(* Only one step releases the wake lock of a locked device.                *)
LEMMA OneReleases ==
  ASSUME IInv, Next, wakelock, ~wakelock', domain' = "Sleeping"
  PROVE  ReleaseWakelock
<1>1. ~Environment /\ ~KernelSleeps /\ ~KeyUp
  BY DEF Environment, AlarmWakes, ChargerMoves, KeyDown, PressGetsLong, GapEnds, CoverMoves,
     IdleTimePasses, WorkBegins, WorkEnds, Touch, IdleSetting, ControlRequest, SleepButton,
     SleepReplyLate, KernelSleeps, KeyUp, KeyUnchanged, PowerUnchanged, HomeUnchanged, kernelVars
<1>2. ~Thread /\ ~Policy /\ ~HomeSteps /\ ~Timers
  BY DEF Thread, ReadGuarded, ReadKey, PollClick, GuardQuiet, Policy, Deadline,
     ReserveAutoSleep, HomeSteps, HomeReads, HomeHears, Timers, TimerEnds, KeyUnchanged,
     PowerUnchanged, HomeUnchanged, kernelVars
<1>3. ~RestoreSystem
  BY DEF RestoreSystem
<1>4. ASSUME Handlers PROVE ReleaseWakelock
  BY <1>3, <1>4 DEF Handlers, Take, HandleActivity, HandlePress, HandleLaunch, HandleEnter,
     HandleRestore, HandleAutoSleep, HandOff, HandleCoverClosed, CoverHandOff,
     HandleCoverOpened, HandleSleep, ShowLock, ArmGuard, Recheck, SuspendStops, KernelResumed,
     WakelockLost, SuspendFailed, ResumeGuard, QuietTimeout, PhysicalResume, RollBack,
     HandleWake, Unlock, HandleResuspend, Recover, RecoverManager, EnterManager, Still,
     kernelVars
<1> QED BY <1>1, <1>2, <1>4 DEF Next

(* A retry does not release the wake lock while a request to unlock or a   *)
(* press waits behind it: the interaction epoch of a waiting event is above*)
(* the fence of the retry, and the last look before the release            *)
(* (suspend_or_user_interrupt) compares the two.                           *)
THEOREM UnlockWins == Spec => UnlockBeatsTimer
<1> DEFINE Beats ==
      wakelock /\ ~wakelock' /\ domain' = "Sleeping" /\ loop.event.ev = "Resuspend"
      => \A i \in 1..Len(queue) : queue[i].ev \notin {"Wake", "SinglePower", "LongPower"}
<1>1. IInv /\ [Next]_vars => [Beats]_vars
  <2> SUFFICES ASSUME IInv, Next, wakelock, ~wakelock', domain' = "Sleeping",
                      loop.event.ev = "Resuspend", NEW i \in 1..Len(queue),
                      queue[i].ev \in {"Wake", "SinglePower", "LongPower"}
               PROVE  FALSE
    OBVIOUS
  <2>1. loop.at = "entering" /\ interaction = loop.fence
    BY OneReleases DEF ReleaseWakelock, At, NotInterrupted
  <2>2. i \in DOMAIN queue /\ queue[i] \in Events /\ loop.event.fence \in Nat
    <3>1. queue \in Seq(Events) /\ loop \in Loops
      BY DEF IInv, TypeOK, QueueTypes
    <3>2. i \in DOMAIN queue /\ queue[i] \in Events
      BY <3>1
    <3>3. loop.event.fence \in Nat
      BY <3>1 DEF Loops, Events
    <3> QED BY <3>2, <3>3
  <2>3. loop.event.fence = interaction /\ loop.event.fence < queue[i].fence
    BY <2>1, <2>2 DEF IInv, QueueInv, Newer, Retry, User, Interrupting, Timed
  <2>4. queue[i].fence <= interaction
    BY <2>2 DEF IInv, QueueInv
  <2> QED BY <2>2, <2>3, <2>4 DEF Events
<1> QED BY <1>1, Invariance, PTL DEF Spec, UnlockBeatsTimer

-----------------------------------------------------------------------------
(***************************************************************************)
(* While nothing fails, nobody asks for anything and the cover stays       *)
(***************************************************************************)
Calm == MaxFaults = 0 /\ MaxRequests = 0 /\ MaxCover = 0

(* Then Home asks only for sleep, after a notice, and for an unlock.       *)
Undisturbed ==
  {"none", "SinglePower", "TriplePower", "LongPower", "UserActivity", "AutoSleep", "Resuspend",
   "Sleep", "Wake"}
Homes == [page : {"ui", "locked", "off"}, waits : Nat, reply : {"none", "ok", "error"},
          wants : {"none", "sleep", "unlock", "resume"}, app : {FALSE}]
Budgets == [press : Nat, request : {0}, cover : {0}, noise : Nat, fault : {0}, act : Nat]
CalmTypes ==
  /\ budget \in Budgets /\ cover = FALSE /\ coverApp = FALSE
  /\ home \in Homes /\ (home.waits = 0 => home.reply = "none")
  /\ loop.event.ev \in Undisturbed
  /\ \A i \in DOMAIN queue : queue[i].ev \in Undisturbed
Inboxes == inbox \in Seq({"auto_sleep", "unlock"})

(* What Home is about, where it matters to the lock: it asked for sleep,   *)
(* it is in use with no notice of an idle device, it shows the lock page,  *)
(* or it asked for an unlock that was not granted.                         *)
Noted == \E i \in DOMAIN inbox : inbox[i] = "auto_sleep"
Asking == home.waits # 0 /\ home.wants = "sleep" /\ home.page = "locked"
Using == home.waits = 0 /\ home.page # "locked" /\ ~Noted
Locking == home.waits = 0 /\ home.page = "locked"
Waking == home.waits # 0 /\ home.wants \in {"unlock", "resume"} /\ home.reply # "ok"

(* One request to sleep is under way at most.  Home waits for it, or the   *)
(* Home that sent it is gone.                                              *)
IsAsked(e) == e.ev = "Sleep"
SleepQueued == \E i \in DOMAIN queue : IsAsked(queue[i])
OneSleep ==
  /\ \A i, j \in DOMAIN queue : IsAsked(queue[i]) /\ IsAsked(queue[j]) => i = j
  /\ IsAsked(loop.event) => ~SleepQueued
  /\ \A i \in DOMAIN queue : IsAsked(queue[i]) /\ home.waits # 0 => home.waits = queue[i].fence
Patient == Asking /\ home.reply = "none"
AskedInv ==
  /\ SleepQueued \/ IsAsked(loop.event) => Patient \/ Using
  /\ loop.at = "handoff" => loop.event.ev = "AutoSleep" /\ (SleepQueued => Asking)
  /\ loop.event.ev = "Wake" => loop.at \in {"start", "unlocking", "recover"}

(* So none is left when the device is locked, and no error of the lock is  *)
(* a plain one.                                                            *)
DomainInv ==
  /\ domain = "Sleeping" => /\ Asking \/ Using \/ Locking \/ Waking
                            /\ ~SleepQueued /\ (loop.at = "start" => ~IsAsked(loop.event))
  /\ domain = "System" => home.page = "off" /\ home.waits = 0 /\ inbox = << >>
  /\ loop.at = "recover" /\ domain = "Sleeping" => loop.error = "retained"
CalmInv == CalmTypes /\ Inboxes /\ OneSleep /\ AskedInv /\ DomainInv

(* Nothing is left to fail, to ask for or to move the cover with.          *)
LEMMA Spends ==
  ASSUME CalmInv
  PROVE  /\ ~Fault /\ ~Spend("request") /\ ~Spend("cover") /\ ~(budget.fault > 0)
         /\ Spend("press") \/ Spend("noise") \/ NoFault => budget' \in Budgets
<1>1. /\ budget \in Budgets
      /\ budget.fault = 0 /\ budget["request"] = 0 /\ budget["cover"] = 0
  BY DEF CalmInv, CalmTypes, Budgets
<1>2. ~Fault /\ ~Spend("request") /\ ~Spend("cover") /\ ~(budget.fault > 0)
  BY <1>1 DEF Fault, Spend
<1>3. ASSUME Spend("press") PROVE budget' \in Budgets
  <2>1. /\ budget' = [budget EXCEPT !.press = budget.press - 1, !.act = budget.act - 1]
        /\ budget.press > 0 /\ budget.act > 0
    BY <1>3 DEF Spend
  <2>2. budget.press - 1 \in Nat /\ budget.act - 1 \in Nat
    BY <1>1, <2>1 DEF Budgets
  <2> QED BY <1>1, <2>1, <2>2 DEF Budgets
<1>4. ASSUME Spend("noise") PROVE budget' \in Budgets
  <2>1. /\ budget' = [budget EXCEPT !.noise = budget.noise - 1, !.act = budget.act - 1]
        /\ budget.noise > 0 /\ budget.act > 0
    BY <1>4 DEF Spend
  <2>2. budget.noise - 1 \in Nat /\ budget.act - 1 \in Nat
    BY <1>1, <2>1 DEF Budgets
  <2> QED BY <1>1, <2>1, <2>2 DEF Budgets
<1> QED BY <1>1, <1>2, <1>3, <1>4 DEF NoFault

(* A queue that gets no request to sleep.                                  *)
Grown == \A i \in DOMAIN queue' : \/ i \in DOMAIN queue /\ queue'[i] = queue[i]
                                  \/ queue'[i].ev \in Undisturbed \ {"Sleep"}
LEMMA GrownKeeps ==
  ASSUME IInv, CalmInv, Grown
  PROVE  /\ \A i \in DOMAIN queue' : queue'[i].ev \in Undisturbed
         /\ \A i \in DOMAIN queue' :
              IsAsked(queue'[i]) => i \in DOMAIN queue /\ queue'[i] = queue[i]
         /\ SleepQueued' => SleepQueued
         /\ \A i, j \in DOMAIN queue' : IsAsked(queue'[i]) /\ IsAsked(queue'[j]) => i = j
<1>1. \A i \in DOMAIN queue' : IsAsked(queue'[i]) => i \in DOMAIN queue /\ queue'[i] = queue[i]
  BY DEF Grown, IsAsked
<1>2. \A i \in DOMAIN queue' : queue'[i].ev \in Undisturbed
  BY DEF Grown, CalmInv, CalmTypes
<1>3. SleepQueued' => SleepQueued
  BY <1>1 DEF SleepQueued, IsAsked
<1>4. \A i, j \in DOMAIN queue' : IsAsked(queue'[i]) /\ IsAsked(queue'[j]) => i = j
  BY <1>1 DEF CalmInv, OneSleep
<1> QED BY <1>1, <1>2, <1>3, <1>4

(* An event other than a request to sleep is such a growth.                *)
LEMMA SendGrows ==
  ASSUME IInv, NEW e \in Undisturbed \ {"Sleep", "Resuspend"}, NEW r \in Nat,
         NEW from \in {interaction, interaction + 1}, Send(e, r, from)
  PROVE  Grown
<1> DEFINE new == Event(e, 0, r, EpochAfter(e, from))
<1>1. EpochAfter(e, from) \in Nat
  BY DEF EpochAfter, IInv, TypeOK, QueueTypes
<1>2. e \in Kinds
  BY DEF Undisturbed, Kinds, Interrupting
<1>3. new \in Events /\ new.ev = e
  BY <1>1, <1>2 DEF Event, Events
<1>4. queue' = Append(queue, new)
  BY DEF Send
<1> HIDE DEF new
<1>5. \A i \in DOMAIN queue' : \/ i \in DOMAIN queue /\ queue'[i] = queue[i]
                               \/ i \notin DOMAIN queue /\ queue'[i] = new
  BY <1>3, <1>4, Queued DEF IInv, TypeOK
<1> QED BY <1>3, <1>5 DEF Grown

(* Whoever leaves the loop and Home alone leaves them in peace.            *)
LEMMA CalmStays ==
  ASSUME IInv, CalmInv, UNCHANGED <<domain, loop, home, inbox, coverVars>>, budget' \in Budgets,
         Grown
  PROVE  CalmInv'
<1>1. /\ \A i \in DOMAIN queue' : queue'[i].ev \in Undisturbed
      /\ \A i \in DOMAIN queue' :
           IsAsked(queue'[i]) => i \in DOMAIN queue /\ queue'[i] = queue[i]
      /\ SleepQueued' => SleepQueued
      /\ \A i, j \in DOMAIN queue' : IsAsked(queue'[i]) /\ IsAsked(queue'[j]) => i = j
  BY GrownKeeps
<1>2. CalmTypes'
  BY <1>1 DEF CalmInv, CalmTypes, coverVars
<1>3. Inboxes'
  BY DEF CalmInv, Inboxes
<1>4. OneSleep'
  BY <1>1 DEF CalmInv, OneSleep, IsAsked
<1>5. AskedInv'
  BY <1>1 DEF CalmInv, AskedInv, IsAsked, Patient, Asking, Using, Noted
<1>6. DomainInv'
  BY <1>1 DEF CalmInv, DomainInv, IsAsked, Asking, Using, Locking, Waking, Noted
<1> QED BY <1>2, <1>3, <1>4, <1>5, <1>6 DEF CalmInv

(* What a reply does to Home: nothing while another request waits.         *)
LEMMA ReplyIs ==
  ASSUME IInv, CalmInv, NEW r \in {"ok", "error"}, loop.at # "idle"
  PROVE  /\ Reply(home, r) \in Homes
         /\ Reply(home, r).page = home.page /\ Reply(home, r).waits = home.waits
         /\ Reply(home, r).wants = home.wants
         /\ home.waits = 0 => Reply(home, r) = home
         /\ loop.event.ev \notin {"Sleep", "Wake"} => Reply(home, r) = home
         /\ Reply(home, r).reply \in {home.reply, r}
         /\ SleepQueued => Reply(home, r) = home
<1>1. home \in Homes
  BY DEF CalmInv, CalmTypes
<1>2. ASSUME SleepQueued PROVE Reply(home, r) = home
  <2>1. PICK i \in DOMAIN queue : IsAsked(queue[i])
    BY <1>2 DEF SleepQueued
  <2>2. loop.event.ev # "Sleep"
    BY <1>2 DEF CalmInv, OneSleep, IsAsked
  <2>3. CASE loop.event.ev = "Wake" /\ home.waits # 0
    <3>1. User(queue[i])
      BY <2>1 DEF User, IsAsked, Interrupting
    <3>2. loop.event.fence < queue[i].fence
      BY <2>1, <2>3, <3>1 DEF IInv, QueueInv, Newer
    <3>3. home.waits = queue[i].fence
      BY <2>1, <2>3 DEF CalmInv, OneSleep
    <3>4. loop.event.fence \in Nat
      BY DEF IInv, TypeOK, Loops, Events
    <3>5. loop.event.fence # home.waits
      BY <3>2, <3>3, <3>4
    <3> QED BY <3>5 DEF Reply
  <2> QED BY <2>2, <2>3 DEF Reply
<1>3. /\ Reply(home, r) \in {home, [home EXCEPT !.reply = r]}
      /\ home.waits = 0 \/ loop.event.ev \notin {"Sleep", "Wake"} => Reply(home, r) = home
  BY DEF Reply
<1> QED BY <1>1, <1>2, <1>3 DEF Homes

(* A handler that ends:                                                    *)
Steady == UNCHANGED <<queue, coverVars>> /\ budget' \in Budgets
LEMMA EndCalm ==
  ASSUME IInv, CalmInv, Steady, loop.at # "idle", loop' = Resting,
         NEW r \in {"ok", "error"}, home' = Reply(home, r),
         domain' = domain \/ domain' \in {"Manager", "Foreground"},
         domain' = "Sleeping" /\ r = "ok" => loop.event.ev # "Wake",
         domain' = "System" => UNCHANGED inbox,
         Inboxes',
         Noted' => \/ Noted
                   \/ domain' # "Sleeping" /\ (SleepQueued => Asking)
  PROVE  CalmInv'
<1>1. /\ home' \in Homes /\ home'.page = home.page /\ home'.waits = home.waits
      /\ home'.wants = home.wants /\ (home.waits = 0 => home' = home)
      /\ (loop.event.ev \notin {"Sleep", "Wake"} => home' = home)
      /\ home'.reply \in {home.reply, r} /\ (SleepQueued => home' = home)
  BY ReplyIs
<1>2. loop'.at = "idle" /\ loop'.event.ev = "none"
  BY RestingIs
<1>3. CalmTypes'
  BY <1>1, <1>2 DEF Steady, CalmInv, CalmTypes, coverVars, Undisturbed
<1>4. SleepQueued' <=> SleepQueued
  BY DEF Steady, SleepQueued
<1>5. OneSleep'
  BY <1>1, <1>2 DEF Steady, CalmInv, OneSleep, IsAsked
<1>6. AskedInv'
  BY <1>1, <1>2, <1>4 DEF CalmInv, AskedInv, IsAsked, Patient, Asking, Using
<1>7. DomainInv'
  <2>1. ASSUME domain' = "Sleeping" PROVE (Asking \/ Using \/ Locking \/ Waking)' /\ ~SleepQueued
    <3>1. (Asking \/ Using \/ Locking \/ Waking) /\ ~SleepQueued
      BY <2>1 DEF CalmInv, DomainInv
    <3>2. CASE Asking
      BY <1>1, <3>1, <3>2 DEF Asking
    <3>3. CASE Using
      BY <1>1, <2>1, <3>1, <3>3 DEF Using
    <3>4. CASE Locking
      BY <1>1, <3>1, <3>4 DEF Locking
    <3>5. CASE Waking
      <4>1. ~IsAsked(loop.event)
        BY <3>5 DEF CalmInv, AskedInv, Patient, Asking, Using, Waking
      <4>2. home'.reply # "ok"
        BY <1>1, <2>1, <3>5, <4>1 DEF Waking, IsAsked
      <4> QED BY <1>1, <3>1, <3>5, <4>2 DEF Waking
    <3> QED BY <3>1, <3>2, <3>3, <3>4, <3>5
  <2>2. domain' = "System" => home'.page = "off" /\ home'.waits = 0 /\ inbox' = << >>
    BY <1>1 DEF CalmInv, DomainInv
  <2> QED BY <1>2, <1>4, <2>1, <2>2 DEF DomainInv
<1> QED BY <1>3, <1>5, <1>6, <1>7 DEF CalmInv

(* or goes on.                                                             *)
LEMMA GoCalm ==
  ASSUME IInv, CalmInv, Steady, UNCHANGED home, loop'.event = loop.event,
         \/ domain' = domain
         \/ domain' \in {"Manager", "Foreground"}
         \/ domain' = "Sleeping" /\ IsAsked(loop.event),
         domain' = "System" => UNCHANGED inbox,
         Inboxes', Noted' => Noted,
         loop'.at # "start",
         loop'.at = "handoff" => loop.event.ev = "AutoSleep" /\ ~SleepQueued,
         loop'.at = "recover" /\ domain' = "Sleeping" => loop'.error = "retained",
         loop.event.ev = "Wake" => loop'.at \in {"unlocking", "recover"}
  PROVE  CalmInv'
<1>1. CalmTypes'
  BY DEF Steady, CalmInv, CalmTypes, coverVars
<1>2. SleepQueued' <=> SleepQueued
  BY DEF Steady, SleepQueued
<1>3. OneSleep'
  BY <1>2 DEF Steady, CalmInv, OneSleep, IsAsked
<1>4. AskedInv'
  BY <1>2 DEF CalmInv, AskedInv, IsAsked, Patient, Asking, Using
<1>5. DomainInv'
  <2>1. ASSUME domain' = "Sleeping" PROVE (Asking \/ Using \/ Locking \/ Waking)' /\ ~SleepQueued
    <3>1. (Asking \/ Using \/ Locking \/ Waking) /\ ~SleepQueued
      BY <2>1 DEF CalmInv, DomainInv, AskedInv, OneSleep, Patient
    <3> QED BY <3>1 DEF Asking, Using, Locking, Waking
  <2>2. domain' = "System" => home'.page = "off" /\ home'.waits = 0 /\ inbox' = << >>
    BY DEF CalmInv, DomainInv
  <2> QED BY <1>2, <2>1, <2>2 DEF DomainInv
<1> QED BY <1>1, <1>3, <1>4, <1>5 DEF CalmInv

-----------------------------------------------------------------------------
(* The notices Home has not read.                                          *)
LEMMA Notices ==
  ASSUME Inboxes
  PROVE  /\ \A n \in {"auto_sleep", "unlock"} :
              inbox' = Append(inbox, n) => Inboxes' /\ (Noted' => Noted \/ n = "auto_sleep")
         /\ UNCHANGED inbox => Inboxes' /\ (Noted' <=> Noted)
         /\ inbox # << >> =>
              /\ Head(inbox) \in {"auto_sleep", "unlock"}
              /\ Head(inbox) = "auto_sleep" => Noted
              /\ inbox' = Tail(inbox) => Inboxes' /\ (Noted' => Noted)
<1>1. ASSUME NEW n \in {"auto_sleep", "unlock"}, inbox' = Append(inbox, n)
      PROVE  Inboxes' /\ (Noted' => Noted \/ n = "auto_sleep")
  <2>1. inbox' \in Seq({"auto_sleep", "unlock"})
    BY <1>1 DEF Inboxes
  <2>2. \A i \in DOMAIN inbox' :
          (i \in DOMAIN inbox /\ inbox'[i] = inbox[i]) \/ inbox'[i] = n
    BY <1>1 DEF Inboxes
  <2> QED BY <2>1, <2>2 DEF Inboxes, Noted
<1>2. ASSUME inbox # << >>
      PROVE  /\ Head(inbox) \in {"auto_sleep", "unlock"} /\ Head(inbox) = inbox[1]
             /\ 1 \in DOMAIN inbox
  BY <1>2 DEF Inboxes
<1>3. ASSUME inbox # << >>, inbox' = Tail(inbox)
      PROVE  Inboxes' /\ (Noted' => Noted)
  <2>1. inbox' \in Seq({"auto_sleep", "unlock"})
    BY <1>3 DEF Inboxes
  <2>2. \A i \in DOMAIN inbox' : i + 1 \in DOMAIN inbox /\ inbox'[i] = inbox[i + 1]
    BY <1>3 DEF Inboxes
  <2> QED BY <2>1, <2>2 DEF Inboxes, Noted
<1>4. UNCHANGED inbox => Inboxes' /\ (Noted' <=> Noted)
  BY DEF Inboxes, Noted
<1> QED BY <1>1, <1>2, <1>3, <1>4 DEF Noted

(* A handler that goes on leaves Home alone,                               *)
LEMMA GoesCalm ==
  ASSUME IInv, CalmInv, Steady, UNCHANGED <<home, inbox>>,
         NEW place \in Places \ {"start", "handoff", "recover"}, GoTo(place),
         \/ domain' = domain
         \/ domain' \in {"Manager", "Foreground"}
         \/ domain' = "Sleeping" /\ IsAsked(loop.event),
         loop.event.ev = "Wake" => place = "unlocking"
  PROVE  CalmInv'
<1>1. loop'.at = place /\ loop'.event = loop.event
  BY Goes DEF IInv, TypeOK
<1>2. Inboxes' /\ (Noted' => Noted)
  BY Notices DEF CalmInv
<1> QED BY <1>1, <1>2, GoCalm

(* and an error of a locked device has to be a retained one.               *)
LEMMA FailsCalm ==
  ASSUME IInv, CalmInv, Steady, NEW error \in Errors, Fails(error),
         domain' = domain \/ domain' \in {"Manager", "Foreground"},
         domain' = "System" => UNCHANGED inbox,
         Inboxes', Noted' => Noted,
         domain' = "Sleeping" => error = "retained"
  PROVE  CalmInv'
<1>1. loop'.at = "recover" /\ loop'.event = loop.event /\ loop'.error = error
  BY FailsWith DEF IInv, TypeOK
<1>2. UNCHANGED home
  BY DEF Fails
<1> QED BY <1>1, <1>2, GoCalm

(* Home goes, and comes up with nothing to read.                           *)
LEMMA RestoreCalm == IInv /\ CalmInv /\ RestoreSystem /\ budget' \in Budgets => CalmInv'
<1> SUFFICES ASSUME IInv, CalmInv, RestoreSystem, budget' \in Budgets PROVE CalmInv'
  OBVIOUS
<1>1. /\ domain' = "System" /\ home' = HomeDown /\ inbox' = << >> /\ loop' = Resting
      /\ UNCHANGED <<queue, cover, coverApp>>
  BY DEF RestoreSystem, Untouched, queueVars, coverVars
<1>2. /\ HomeDown \in Homes /\ HomeDown.page = "off" /\ HomeDown.waits = 0
      /\ HomeDown.reply = "none"
  BY DEF HomeDown, HomeUp, Homes
<1>3. Inboxes' /\ ~Noted'
  BY <1>1 DEF Inboxes, Noted
<1>4. loop'.at = "idle" /\ loop'.event.ev = "none"
  BY <1>1, RestingIs
<1>5. CalmTypes'
  BY <1>1, <1>2, <1>4 DEF CalmInv, CalmTypes, Undisturbed
<1>6. OneSleep'
  BY <1>1, <1>2, <1>4 DEF CalmInv, OneSleep, IsAsked
<1>7. AskedInv'
  BY <1>1, <1>2, <1>3, <1>4 DEF AskedInv, Using
<1>8. DomainInv'
  BY <1>1, <1>2, <1>4 DEF DomainInv
<1> QED BY <1>3, <1>5, <1>6, <1>7, <1>8 DEF CalmInv

LEMMA EnterCalm == IInv /\ CalmInv /\ HandleEnter => CalmInv'
<1> SUFFICES ASSUME IInv, CalmInv, HandleEnter PROVE CalmInv'
  OBVIOUS
<1>1. /\ domain = "System" /\ domain' = "Manager" /\ home' = HomeUp /\ loop' = Resting
      /\ UNCHANGED <<queue, cover, coverApp, inbox, budget>>
  BY DEF HandleEnter, EnterManager, queueVars, coverVars, CalmInv, CalmTypes
<1>2. HomeUp \in Homes /\ HomeUp.page = "ui" /\ HomeUp.waits = 0 /\ HomeUp.reply = "none"
  BY DEF HomeUp, Homes
<1>3. inbox' = << >>
  BY <1>1 DEF CalmInv, DomainInv
<1>4. Inboxes' /\ ~Noted'
  BY <1>3 DEF Inboxes, Noted
<1>5. loop'.at = "idle" /\ loop'.event.ev = "none"
  BY <1>1, RestingIs
<1>6. CalmTypes'
  BY <1>1, <1>2, <1>5 DEF CalmInv, CalmTypes, Undisturbed
<1>7. OneSleep'
  BY <1>1, <1>2, <1>5 DEF CalmInv, OneSleep, IsAsked
<1>8. AskedInv'
  BY <1>1, <1>2, <1>4, <1>5 DEF AskedInv, Using
<1>9. DomainInv'
  BY <1>1, <1>5 DEF DomainInv
<1> QED BY <1>4, <1>6, <1>7, <1>8, <1>9 DEF CalmInv

(* The next event: a request to sleep has left the queue with it.          *)
LEMMA TakeCalm == IInv /\ CalmInv /\ Take => CalmInv'
<1> SUFFICES ASSUME IInv, CalmInv, Take PROVE CalmInv'
  OBVIOUS
<1>1. /\ UNCHANGED <<domain, cover, coverApp, home, inbox, budget>>
      /\ queue # << >> /\ queue' = Tail(queue)
  BY DEF Take, coverVars, homeVars
<1>2. /\ queue' \in Seq(Events)
      /\ Head(queue) = queue[1] /\ 1 \in DOMAIN queue
      /\ \A i \in DOMAIN queue' : /\ i \in Nat /\ i > 0
                                  /\ i + 1 \in DOMAIN queue /\ queue'[i] = queue[i + 1]
  BY <1>1, Taken DEF IInv, TypeOK
<1>3. loop'.at = "start" /\ loop'.event = queue[1]
  BY <1>2, StaysFine DEF Take, Loops
<1>4. \A i \in DOMAIN queue : queue[i].ev \in Undisturbed
  BY DEF CalmInv, CalmTypes
<1>5. CalmTypes'
  BY <1>1, <1>2, <1>3, <1>4 DEF CalmInv, CalmTypes
<1>6. Inboxes'
  BY <1>1 DEF CalmInv, Inboxes
<1>7. IsAsked(queue[1]) \/ SleepQueued' => SleepQueued
  BY <1>2 DEF SleepQueued, IsAsked
<1>8. OneSleep'
  <2>1. \A i, j \in DOMAIN queue : IsAsked(queue[i]) /\ IsAsked(queue[j]) => i = j
    BY DEF CalmInv, OneSleep
  <2>2. \A i, j \in DOMAIN queue' : IsAsked(queue'[i]) /\ IsAsked(queue'[j]) => i = j
    <3> SUFFICES ASSUME NEW i \in DOMAIN queue', NEW j \in DOMAIN queue',
                        IsAsked(queue'[i]), IsAsked(queue'[j])
                 PROVE  i = j
      OBVIOUS
    <3>1. /\ i \in Nat /\ i + 1 \in DOMAIN queue /\ queue'[i] = queue[i + 1]
          /\ j \in Nat /\ j + 1 \in DOMAIN queue /\ queue'[j] = queue[j + 1]
      BY <1>2
    <3>2. i + 1 = j + 1
      BY <2>1, <3>1
    <3> QED BY <3>1, <3>2
  <2>3. IsAsked(queue[1]) => ~SleepQueued'
    <3> SUFFICES ASSUME IsAsked(queue[1]), NEW i \in DOMAIN queue', IsAsked(queue'[i])
                 PROVE  FALSE
      BY DEF SleepQueued, IsAsked
    <3>1. i \in Nat /\ i > 0 /\ i + 1 \in DOMAIN queue /\ queue'[i] = queue[i + 1]
      BY <1>2
    <3>2. i + 1 = 1
      BY <1>2, <2>1, <3>1
    <3> QED BY <3>1, <3>2
  <2>4. \A i \in DOMAIN queue' :
          IsAsked(queue'[i]) /\ home'.waits # 0 => home'.waits = queue'[i].fence
    BY <1>1, <1>2 DEF CalmInv, OneSleep
  <2> QED BY <1>3, <2>2, <2>3, <2>4 DEF OneSleep, IsAsked
<1>9. AskedInv'
  <2>1. SleepQueued => Patient \/ Using
    BY DEF CalmInv, AskedInv
  <2>2. SleepQueued' \/ IsAsked(loop'.event) => (Patient \/ Using)'
    BY <1>1, <1>3, <1>7, <2>1 DEF Patient, Asking, Using, Noted
  <2> QED BY <1>3, <2>2 DEF AskedInv, IsAsked
<1>10. DomainInv'
  BY <1>1, <1>3, <1>7 DEF CalmInv, DomainInv, IsAsked, Asking, Using, Locking, Waking, Noted
<1> QED BY <1>5, <1>6, <1>8, <1>9, <1>10 DEF CalmInv

(* The kernel, the key thread, the policy and the timers.                  *)
LEMMA OthersCalm ==
  ASSUME IInv, CalmInv,
         \/ KernelSleeps \/ AlarmWakes \/ ChargerMoves \/ KeyDown \/ KeyUp
         \/ PressGetsLong \/ GapEnds \/ ReadGuarded
         \/ IdleTimePasses \/ Deadline \/ WorkEnds \/ Touch
  PROVE  CalmInv'
<1>1. UNCHANGED <<domain, loop, home, inbox, coverVars, queue>>
  BY DEF KernelSleeps, AlarmWakes, ChargerMoves, KeyDown, KeyUp, PressGetsLong, GapEnds,
     ReadGuarded, IdleTimePasses, Deadline, WorkEnds, Touch, homeVars, queueVars, KeyUnchanged,
     PowerUnchanged
<1>2. Spend("press") \/ Spend("noise") \/ NoFault
  BY DEF KernelSleeps, AlarmWakes, ChargerMoves, KeyDown, KeyUp, PressGetsLong, GapEnds,
     ReadGuarded, IdleTimePasses, Deadline, WorkEnds, Touch, KeyUnchanged, NoFault
<1>3. budget' \in Budgets
  BY <1>2, Spends
<1>4. Grown
  BY <1>1 DEF Grown
<1> QED BY <1>1, <1>3, <1>4, CalmStays

LEMMA SendersCalm ==
  ASSUME IInv, CalmInv, ReadKey \/ PollClick \/ ReserveAutoSleep
  PROVE  CalmInv'
<1>1. UNCHANGED <<domain, loop, home, inbox, coverVars, budget>>
  BY DEF ReadKey, PollClick, ReserveAutoSleep, homeVars, KeyUnchanged, PowerUnchanged
<1>2. budget' \in Budgets
  BY <1>1 DEF CalmInv, CalmTypes
<1>3. Grown
  <2> DEFINE Mine == Undisturbed \ {"Sleep", "Resuspend"}
  <2>1. {"UserActivity", "LongPower", "TriplePower", "SinglePower", "AutoSleep"} \subseteq Mine
    BY DEF Undisturbed
  <2>2. ASSUME UNCHANGED queueVars PROVE Grown
    BY <2>2 DEF queueVars, Grown
  <2>3. \/ Send("UserActivity", 0, interaction + 1)
        \/ \E e \in {"LongPower", "TriplePower", "SinglePower"} : Send(e, 0, interaction)
        \/ Send("AutoSleep", pw.checked, interaction) /\ pw.checked \in Nat
        \/ UNCHANGED queueVars
    <3>1. CASE ReadKey
      BY <3>1 DEF ReadKey, ReleaseAction
    <3>2. CASE PollClick
      BY <3>2 DEF PollClick, PollAction
    <3>3. CASE ReserveAutoSleep
      BY <3>3, StaysFine DEF ReserveAutoSleep, Powers
    <3> QED BY <3>1, <3>2, <3>3
  <2> QED BY <2>1, <2>2, <2>3, SendGrows
<1> QED BY <1>1, <1>2, <1>3, CalmStays

LEMMA TimerCalm ==
  ASSUME IInv, CalmInv, NEW t \in timers, TimerEnds(t)
  PROVE  CalmInv'
<1>1. UNCHANGED <<domain, loop, home, inbox, coverVars, budget>>
  BY DEF TimerEnds, homeVars
<1>2. budget' \in Budgets
  BY <1>1 DEF CalmInv, CalmTypes
<1>3. Grown
  <2>1. CASE UNCHANGED queue
    BY <2>1 DEF Grown
  <2> DEFINE new == Event("Resuspend", t.epoch, t.revision, t.fence)
  <2>2. CASE queue' = Append(queue, new)
    <3>1. t \in Retries
      BY DEF IInv, TypeOK, LockTypes
    <3>2. new \in Events /\ new.ev = "Resuspend"
      BY <3>1 DEF Event, Events, Retries, Kinds
    <3> HIDE DEF new
    <3>3. \A i \in DOMAIN queue' : \/ i \in DOMAIN queue /\ queue'[i] = queue[i]
                                   \/ i \notin DOMAIN queue /\ queue'[i] = new
      BY <2>2, <3>2, Queued DEF IInv, TypeOK
    <3> QED BY <3>2, <3>3 DEF Grown, Undisturbed
  <2> QED BY <2>1, <2>2 DEF TimerEnds
<1> QED BY <1>1, <1>2, <1>3, CalmStays

LEMMA GuardQuietCalm == IInv /\ CalmInv /\ GuardQuiet => CalmInv'
<1> SUFFICES ASSUME IInv, CalmInv, GuardQuiet PROVE CalmInv'
  OBVIOUS
<1>1. UNCHANGED <<domain, home, inbox, coverVars, queue, budget>>
  BY DEF GuardQuiet, homeVars, queueVars
<1>2. budget' \in Budgets /\ Grown /\ Steady
  BY <1>1 DEF CalmInv, CalmTypes, Grown, Steady
<1>3. CASE loop' = loop
  BY <1>1, <1>2, <1>3, CalmStays
<1>4. ASSUME NEW place \in {"pressed", "unpressed"}, GoTo(place), loop.at = "quiet" PROVE CalmInv'
  <2>1. loop.event.ev # "Wake"
    BY <1>4 DEF CalmInv, AskedInv
  <2> QED BY <1>1, <1>2, <1>4, <2>1, GoesCalm DEF Places
<1> QED BY <1>3, <1>4 DEF GuardQuiet, GoTo

-----------------------------------------------------------------------------
(* The kinds of events that nobody sends.                                  *)
LEMMA NobodyAsks == CalmInv => ~HandleLaunch /\ ~HandleCoverClosed /\ ~HandleCoverOpened
  BY DEF CalmInv, CalmTypes, Undisturbed, HandleLaunch, HandleCoverClosed, HandleCoverOpened, Starts

(* A handler that ends with nothing to tell Home.                          *)
LEMMA DoneCalm ==
  ASSUME IInv, CalmInv, Steady, loop.at # "idle", Done, UNCHANGED inbox,
         domain' = domain \/ domain' \in {"Manager", "Foreground"},
         domain' = "Sleeping" => loop.event.ev # "Wake"
  PROVE  CalmInv'
<1>1. Inboxes' /\ (Noted' => Noted)
  BY Notices DEF CalmInv
<1> QED BY <1>1, EndCalm DEF Done

(* Presses and clicks.                                                     *)
LEMMA PressCalm ==
  ASSUME IInv, CalmInv, HandleActivity \/ HandlePress
  PROVE  CalmInv'
<1>1. /\ Steady /\ loop.at = "start" /\ loop.event.ev \notin {"Wake", "Sleep"}
  <2>1. UNCHANGED <<queue, coverVars>> /\ loop.at = "start"
    BY DEF HandleActivity, HandlePress, Still, Untouched, queueVars, Starts
  <2>2. loop.event.ev \notin {"Wake", "Sleep"}
    BY DEF HandleActivity, HandlePress, Starts
  <2>3. NoFault
    BY Spends DEF HandleActivity, HandlePress, NoFault
  <2> QED BY <2>1, <2>2, <2>3, Spends DEF Steady
<1>2. CASE Done /\ UNCHANGED inbox
  <2>1. domain' = domain \/ domain' \in {"Manager", "Foreground"}
    BY DEF HandleActivity, HandlePress
  <2> QED BY <1>1, <1>2, <2>1, DoneCalm
<1>3. CASE Done /\ Notify("unlock") /\ domain = "Sleeping" /\ UNCHANGED domain
  <2>1. Inboxes' /\ (Noted' => Noted)
    BY <1>3, Notices DEF Notify, CalmInv
  <2> QED BY <1>1, <1>3, <2>1, EndCalm DEF Done
<1> QED BY <1>2, <1>3, Spends DEF HandleActivity, HandlePress

(* The stock system takes the device, or has it.                           *)
LEMMA HandleRestoreCalm == IInv /\ CalmInv /\ HandleRestore => CalmInv'
<1> SUFFICES ASSUME IInv, CalmInv, HandleRestore PROVE CalmInv'
  OBVIOUS
<1>1. CASE RestoreSystem
  BY <1>1, RestoreCalm, Spends DEF RestoreSystem, NoFault
<1>2. CASE Done /\ Still /\ UNCHANGED <<domain, inbox, budget>> /\ domain = "System"
  <2>1. Steady
    BY <1>2, Spends DEF Still, Untouched, queueVars, Steady, NoFault
  <2>2. loop.at = "start"
    BY DEF HandleRestore, Starts
  <2> QED BY <1>2, <2>1, <2>2, DoneCalm
<1> QED BY <1>1, <1>2 DEF HandleRestore

(* The idle device: no interaction waits when its turn comes, so that none *)
(* of the requests to sleep does.                                          *)
LEMMA AutoSleepCalm == IInv /\ CalmInv /\ HandleAutoSleep => CalmInv'
<1> SUFFICES ASSUME IInv, CalmInv, HandleAutoSleep PROVE CalmInv'
  OBVIOUS
<1>1. /\ Steady /\ loop.at = "start" /\ loop.event.ev = "AutoSleep" /\ UNCHANGED inbox
  <2>1. UNCHANGED <<queue, coverVars, inbox>> /\ loop.at = "start" /\ loop.event.ev = "AutoSleep"
    BY DEF HandleAutoSleep, Still, Untouched, queueVars, Starts
  <2>2. NoFault
    BY Spends DEF HandleAutoSleep
  <2> QED BY <2>1, <2>2, Spends DEF Steady
<1>2. CASE Done /\ UNCHANGED domain
  BY <1>1, <1>2, DoneCalm
<1>3. CASE /\ interaction = loop.event.fence /\ domain' = "Manager"
           /\ GoTo("handoff") /\ UNCHANGED home
  <2>1. loop'.at = "handoff" /\ loop'.event = loop.event
    BY <1>3, Goes DEF IInv, TypeOK, Places
  <2>2. ~SleepQueued
    <3> SUFFICES ASSUME NEW i \in DOMAIN queue, IsAsked(queue[i]) PROVE FALSE
      BY DEF SleepQueued
    <3>1. User(queue[i])
      BY DEF IsAsked, User, Interrupting
    <3>2. loop.event.fence < queue[i].fence /\ queue[i].fence <= interaction
      BY <1>1, <3>1 DEF IInv, QueueInv, Newer
    <3>3. queue \in Seq(Events) /\ interaction \in Nat
      BY DEF IInv, TypeOK, QueueTypes
    <3>4. queue[i] \in Events
      BY <3>3
    <3>5. queue[i].fence \in Nat
      BY <3>4 DEF Events
    <3> QED BY <1>3, <3>2, <3>3, <3>5
  <2>3. Inboxes' /\ (Noted' => Noted)
    BY <1>1, Notices DEF CalmInv
  <2> QED BY <1>1, <1>3, <2>1, <2>2, <2>3, GoCalm
<1> QED BY <1>2, <1>3, Spends DEF HandleAutoSleep

(* Home is told while it is in use, and asks only for one sleep.           *)
LEMMA HandOffCalm ==
  ASSUME IInv, CalmInv, HandOff \/ CoverHandOff
  PROVE  CalmInv'
<1>1. /\ Steady /\ loop.at \in {"handoff", "cover"} /\ UNCHANGED domain
  <2>1. UNCHANGED <<queue, coverVars, domain>> /\ loop.at \in {"handoff", "cover"}
    BY DEF HandOff, CoverHandOff, Still, Untouched, queueVars, At
  <2>2. NoFault
    BY Spends DEF HandOff, CoverHandOff
  <2> QED BY <2>1, <2>2, Spends DEF Steady
<1>2. domain \in {"Manager", "Foreground"}
  BY <1>1 DEF IInv, PlaceInv, PlaceAt, InUse
<1>3. CASE Done /\ UNCHANGED inbox
  BY <1>1, <1>2, <1>3, DoneCalm
<1>4. CASE HandOff /\ Done /\ Notify("auto_sleep")
  <2>1. Inboxes'
    BY <1>4, Notices DEF Notify, CalmInv
  <2>2. SleepQueued => Asking
    BY <1>4 DEF HandOff, At, CalmInv, AskedInv
  <2> QED BY <1>1, <1>2, <1>4, <2>1, <2>2, EndCalm DEF Done
<1> QED BY <1>3, <1>4, Spends DEF HandOff, CoverHandOff, CalmInv, CalmTypes

(* Home's request is the one that waits, or nobody's.                      *)
LEMMA SleepCalm == IInv /\ CalmInv /\ HandleSleep => CalmInv'
<1> SUFFICES ASSUME IInv, CalmInv, HandleSleep PROVE CalmInv'
  OBVIOUS
<1>1. /\ Steady /\ loop.at = "start" /\ loop.event.ev = "Sleep" /\ UNCHANGED inbox
  <2>1. UNCHANGED <<queue, coverVars, inbox>> /\ loop.at = "start" /\ loop.event.ev = "Sleep"
    BY DEF HandleSleep, Untouched, queueVars, Starts
  <2>2. NoFault
    BY Spends DEF HandleSleep
  <2> QED BY <2>1, <2>2, Spends DEF Steady
<1>2. Inboxes' /\ (Noted' => Noted)
  BY <1>1, Notices DEF CalmInv
<1>3. CASE Fails("plain") /\ UNCHANGED domain
  <2>1. domain # "Sleeping"
    BY <1>1 DEF CalmInv, DomainInv, IsAsked
  <2> QED BY <1>1, <1>2, <1>3, <2>1, FailsCalm DEF Errors
<1>4. CASE /\ domain' = "Sleeping" /\ UNCHANGED home
           /\ loop' = [loop EXCEPT !.at = "showing", !.fence = interaction]
  <2>1. loop'.at = "showing" /\ loop'.event = loop.event
    BY <1>4, Typed DEF Loops
  <2> QED BY <1>1, <1>2, <1>4, <2>1, GoCalm DEF IsAsked
<1> QED BY <1>3, <1>4, Spends DEF HandleSleep

(* Behind the page of the lock no step but a retained error is left.       *)
LEMMA LockCalm ==
  ASSUME IInv, CalmInv, ShowLock \/ ArmGuard \/ ReleaseWakelock \/ KernelResumed \/ ResumeGuard
  PROVE  CalmInv'
<1>1. /\ UNCHANGED <<queue, coverVars, domain, home, inbox, budget>>
      /\ loop.at \in {"showing", "arming", "entering", "suspending", "resuming"}
      /\ \E place \in {"arming", "rolling", "recheck", "suspending", "resuming", "quiet"} :
           GoTo(place)
  <2>1. CASE ShowLock
    BY <2>1, Spends DEF ShowLock, Untouched, queueVars, At, NoFault
  <2>2. CASE ArmGuard
    BY <2>2, Spends DEF ArmGuard, Untouched, queueVars, At, NoFault, Unguarded
  <2>3. CASE ReleaseWakelock \/ KernelResumed
    BY <2>3 DEF ReleaseWakelock, KernelResumed, queueVars, homeVars, At
  <2>4. CASE ResumeGuard
    <3>1. CanResume(key)
      BY <2>4, Facts DEF ResumeGuard, At, Guarded, CanResume
    <3> QED BY <2>4, <3>1 DEF ResumeGuard, Untouched, queueVars, At
  <2> QED BY <2>1, <2>2, <2>3, <2>4
<1>2. Steady
  BY <1>1, Spends DEF Steady, NoFault
<1>3. loop.event.ev # "Wake"
  BY <1>1 DEF CalmInv, AskedInv
<1>4. {"arming", "rolling", "recheck", "suspending", "resuming", "quiet"}
        \subseteq Places \ {"start", "handoff", "recover"}
  BY DEF Places
<1> QED BY <1>1, <1>2, <1>3, <1>4, GoesCalm

LEMMA RecheckCalm == IInv /\ CalmInv /\ Recheck => CalmInv'
<1> SUFFICES ASSUME IInv, CalmInv, Recheck PROVE CalmInv'
  OBVIOUS
<1>1. /\ UNCHANGED <<queue, coverVars, domain, inbox>> /\ loop.at = "recheck"
  BY DEF Recheck, Untouched, queueVars, At
<1>2. Steady
  BY <1>1, Spends DEF Recheck, Steady
<1>3. loop.event.ev # "Wake"
  BY <1>1 DEF CalmInv, AskedInv
<1>4. CASE Done
  BY <1>1, <1>2, <1>3, <1>4, DoneCalm
<1>5. ASSUME NEW place \in {"entering", "rolling"}, GoTo(place), UNCHANGED home PROVE CalmInv'
  BY <1>1, <1>2, <1>3, <1>5, GoesCalm DEF Places
<1> QED BY <1>4, <1>5, Spends DEF Recheck

LEMMA StopsCalm == IInv /\ CalmInv /\ SuspendStops => CalmInv'
<1> SUFFICES ASSUME IInv, CalmInv, SuspendStops PROVE CalmInv'
  OBVIOUS
<1>1. /\ UNCHANGED <<queue, coverVars, domain, inbox, home>>
      /\ loop.at \in {"entering", "suspending"}
  BY DEF SuspendStops, queueVars, homeVars, At
<1>2. Steady
  BY <1>1, Spends DEF SuspendStops, Steady
<1>3. loop.event.ev # "Wake"
  BY <1>1 DEF CalmInv, AskedInv
<1>4. loop'.at = "failed" /\ loop'.event = loop.event
  BY Typed DEF SuspendStops, Stops, Loops
<1>5. Inboxes' /\ (Noted' => Noted)
  BY <1>1, Notices DEF CalmInv
<1> QED BY <1>1, <1>2, <1>3, <1>4, <1>5, GoCalm

LEMMA SuspendFailedCalm == IInv /\ CalmInv /\ SuspendFailed => CalmInv'
<1> SUFFICES ASSUME IInv, CalmInv, SuspendFailed PROVE CalmInv'
  OBVIOUS
<1>1. /\ UNCHANGED <<queue, coverVars, domain>> /\ NoFault /\ Fails("retained")
      /\ Notify("unlock") \/ UNCHANGED inbox
  BY Spends DEF SuspendFailed, Untouched, queueVars, RetainedError
<1>2. Steady
  BY <1>1, Spends DEF Steady
<1>3. Inboxes' /\ (Noted' => Noted)
  BY <1>1, Notices DEF Notify, CalmInv
<1>4. domain = "Sleeping"
  BY Facts DEF SuspendFailed, At, Behind
<1> QED BY <1>1, <1>2, <1>3, <1>4, FailsCalm DEF Errors

LEMMA PhysicalResumeCalm == IInv /\ CalmInv /\ PhysicalResume => CalmInv'
<1> SUFFICES ASSUME IInv, CalmInv, PhysicalResume PROVE CalmInv'
  OBVIOUS
<1>1. /\ UNCHANGED <<queue, coverVars, domain>> /\ NoFault
      /\ loop.at \in {"pressed", "unpressed"}
  BY Spends DEF PhysicalResume, Untouched, queueVars, At
<1>2. Steady
  BY <1>1, Spends DEF Steady
<1>3. domain = "Sleeping" /\ loop.event.ev # "Wake"
  BY <1>1, Facts DEF Behind, CalmInv, AskedInv
<1>4. CASE Notify("unlock") /\ Done
  <2>1. Inboxes' /\ (Noted' => Noted)
    BY <1>4, Notices DEF Notify, CalmInv
  <2> QED BY <1>1, <1>2, <1>3, <1>4, <2>1, EndCalm DEF Done
<1>5. CASE Fails("retained") /\ UNCHANGED inbox
  <2>1. Inboxes' /\ (Noted' => Noted)
    BY <1>5, Notices DEF CalmInv
  <2> QED BY <1>1, <1>2, <1>5, <2>1, FailsCalm DEF Errors
<1> QED BY <1>4, <1>5, Spends DEF PhysicalResume

(* The way back, and the wake that Home asks for.                          *)
LEMMA WakeCalm ==
  ASSUME IInv, CalmInv, RollBack \/ HandleWake \/ Unlock \/ HandleResuspend
  PROVE  CalmInv'
<1>1. /\ UNCHANGED <<queue, coverVars, inbox>>
      /\ loop.at \in {"rolling", "start", "unlocking"}
  BY DEF RollBack, HandleWake, Unlock, HandleResuspend, Untouched, Still, queueVars, At, Starts
<1>2. NoFault
  BY Spends DEF RollBack, HandleWake, Unlock, HandleResuspend, NoFault
<1>3. Steady
  BY <1>1, <1>2, Spends DEF Steady
<1>4. Inboxes' /\ (Noted' => Noted)
  BY <1>1, Notices DEF CalmInv
<1>5. CASE RollBack
  <2>1. domain' = "Manager" /\ Fails("plain")
    BY <1>5, Spends DEF RollBack
  <2> QED BY <1>3, <1>4, <2>1, FailsCalm DEF Errors
<1>6. CASE HandleWake
  <2>1. loop.event.ev = "Wake" /\ UNCHANGED domain /\ loop.at = "start"
    BY <1>6 DEF HandleWake, Starts
  <2>2. CASE domain = "Manager" /\ Done
    BY <1>1, <1>3, <2>1, <2>2, DoneCalm
  <2>3. CASE Fails("plain") /\ domain # "Sleeping"
    BY <1>1, <1>3, <1>4, <2>1, <2>3, FailsCalm DEF Errors
  <2>4. CASE GoTo("unlocking") /\ UNCHANGED home
    BY <1>1, <1>3, <2>1, <2>4, GoesCalm DEF Places
  <2>5. domain = "Sleeping" => tx.phase = "Locked"
    BY <2>1, Facts DEF InUse, Locked, Stock, LockHealthy
  <2> QED BY <1>6, <2>2, <2>3, <2>4, <2>5, Spends DEF HandleWake
<1>7. CASE Unlock
  <2>1. domain' = "Manager" /\ Done
    BY <1>7, Spends DEF Unlock
  <2> QED BY <1>1, <1>3, <2>1, DoneCalm
<1>8. CASE HandleResuspend
  <2>1. loop.event.ev = "Resuspend" /\ UNCHANGED domain
    BY <1>8 DEF HandleResuspend, Starts
  <2>2. CASE Done
    BY <1>1, <1>3, <2>1, <2>2, DoneCalm
  <2>3. CASE /\ loop' = [loop EXCEPT !.at = "arming", !.fence = loop.event.fence]
             /\ UNCHANGED home
    <3>1. loop'.at = "arming" /\ loop'.event = loop.event
      BY <2>3, Typed DEF Loops
    <3> QED BY <1>1, <1>3, <1>4, <2>1, <2>3, <3>1, GoCalm
  <2> QED BY <1>8, <2>2, <2>3 DEF HandleResuspend
<1> QED BY <1>5, <1>6, <1>7, <1>8

(* A locked device keeps its lock.                                         *)
LEMMA RetainsLock ==
  ASSUME IInv, CalmInv, Recover, domain = "Sleeping"
  PROVE  Retains
<1>1. loop.at = "recover" /\ loop.error = "retained"
  BY DEF Recover, At, CalmInv, DomainInv
<1>2. LockHealthy
  BY <1>1, Facts DEF InUse, Stock, Locked
<1> QED BY <1>1, <1>2 DEF Retains

LEMMA RecoverCalm == IInv /\ CalmInv /\ Recover => CalmInv'
<1> SUFFICES ASSUME IInv, CalmInv, Recover PROVE CalmInv'
  OBVIOUS
<1>1. /\ loop' = Resting /\ home' = Reply(home, "error") /\ loop.at = "recover"
      /\ UNCHANGED <<domain, inbox, queue, coverVars, budget>>
  BY RetainsLock DEF Recover, Still, Untouched, queueVars, At
<1>2. Steady
  BY <1>1, Spends DEF Steady, NoFault
<1>3. Inboxes' /\ (Noted' => Noted)
  BY <1>1, Notices DEF CalmInv
<1> QED BY <1>1, <1>2, <1>3, EndCalm

(* Home changes itself and its inbox.                                      *)
Alone == UNCHANGED <<domain, loop, coverVars, budget>>
LEMMA HomeAlone ==
  ASSUME CalmInv, HomeReads \/ HomeHears
  PROVE  Alone /\ Awake
  BY DEF HomeReads, HomeHears, HomeUnchanged, HomeFree, Alone

(* It asks for sleep after a notice, in use: then nobody else did.         *)
LEMMA AskSleepCalm ==
  ASSUME IInv, CalmInv, Alone, HomeFree, NotYetLocked, Noted, Inboxes',
         AskSleep("sleep", home.app)
  PROVE  CalmInv'
<1> DEFINE new == Event("Sleep", 0, 0, EpochAfter("Sleep", interaction))
<1>1. /\ home \in Homes /\ home.waits = 0 /\ home.reply = "none" /\ home.page # "locked"
      /\ home.page # "off" /\ home.app = FALSE
  BY DEF HomeFree, NotYetLocked, CalmInv, CalmTypes, Homes
<1>2. ~SleepQueued /\ ~IsAsked(loop.event) /\ domain \notin {"Sleeping", "System"}
  <2>1. ~Patient /\ ~Asking /\ ~Using /\ ~Locking /\ ~Waking
    BY <1>1 DEF Patient, Asking, Using, Locking, Waking
  <2> QED BY <1>1, <2>1 DEF CalmInv, AskedInv, DomainInv
<1>3. interaction \in Nat /\ interaction + 1 \in Nat /\ interaction' = interaction + 1
  BY DEF IInv, TypeOK, QueueTypes, AskSleep, Send, EpochAfter, InterruptsLaunch, Interrupting
<1>4. new \in Events /\ new.ev = "Sleep" /\ new.fence = interaction'
  BY <1>3 DEF Event, Events, Kinds, Interrupting, EpochAfter, InterruptsLaunch
<1>5. queue' = Append(queue, new)
  BY DEF AskSleep, Send
<1> HIDE DEF new
<1>6. /\ \A i \in DOMAIN queue' : \/ i \in DOMAIN queue /\ queue'[i] = queue[i]
                                  \/ i \notin DOMAIN queue /\ queue'[i] = new
      /\ \A i, j \in DOMAIN queue' : i < j => i \in DOMAIN queue
      /\ DOMAIN queue' \subseteq Nat
  <2>1. queue' \in Seq(Events)
    BY <1>4, <1>5, Queued DEF IInv, TypeOK
  <2>2. DOMAIN queue' \subseteq Nat
    BY <2>1
  <2> QED BY <1>4, <1>5, <2>2, Queued DEF IInv, TypeOK
<1>7. /\ home' \in Homes /\ home'.waits = interaction' /\ home'.waits # 0
      /\ home'.wants = "sleep" /\ home'.page = "locked" /\ home'.reply = "none"
  <2>1. home' = [home EXCEPT !.page = "locked", !.wants = "sleep", !.app = FALSE,
                             !.waits = interaction']
    BY <1>1 DEF AskSleep
  <2>2. interaction' \in Nat /\ interaction' # 0
    BY <1>3
  <2> QED BY <1>1, <2>1, <2>2 DEF Homes
<1>8. Patient' /\ Asking'
  BY <1>7 DEF Patient, Asking
<1>9. CalmTypes'
  BY <1>4, <1>6, <1>7 DEF Alone, CalmInv, CalmTypes, coverVars, Undisturbed
<1>10. OneSleep'
  <2>1. \A i \in DOMAIN queue' : IsAsked(queue'[i]) => i \notin DOMAIN queue /\ queue'[i] = new
    BY <1>2, <1>6 DEF SleepQueued, IsAsked
  <2>2. \A i, j \in DOMAIN queue' : IsAsked(queue'[i]) /\ IsAsked(queue'[j]) => i = j
    <3> SUFFICES ASSUME NEW i \in DOMAIN queue', NEW j \in DOMAIN queue',
                        i \notin DOMAIN queue, j \notin DOMAIN queue
                 PROVE  i = j
      BY <2>1
    <3>1. i \in Nat /\ j \in Nat /\ ~(i < j) /\ ~(j < i)
      BY <1>6
    <3> QED BY <3>1
  <2> QED BY <1>2, <1>4, <1>7, <2>1, <2>2 DEF OneSleep, IsAsked, Alone
<1>11. AskedInv'
  BY <1>8 DEF Alone, CalmInv, AskedInv
<1>12. DomainInv'
  BY <1>2 DEF Alone, DomainInv
<1> QED BY <1>9, <1>10, <1>11, <1>12 DEF CalmInv

(* It asks for an unlock when it shows the page of the lock, and no        *)
(* request to sleep is under way.                                          *)
LEMMA AskWakeCalm ==
  ASSUME IInv, CalmInv, Alone, Inboxes', ~SleepQueued, ~IsAsked(loop.event),
         domain # "System", Send("Wake", 0, interaction),
         home' \in Homes, home'.wants \in {"unlock", "resume"}, home'.reply = "none",
         home'.waits = interaction'
  PROVE  CalmInv'
<1>1. interaction' \in Nat /\ interaction' # 0
  BY DEF IInv, TypeOK, QueueTypes, Send, EpochAfter, InterruptsLaunch, Interrupting
<1>2. Grown
  <2>1. "Wake" \in Undisturbed \ {"Sleep", "Resuspend"}
    BY DEF Undisturbed
  <2> QED BY <2>1, SendGrows
<1>3. (\A i \in DOMAIN queue' : queue'[i].ev \in Undisturbed) /\ ~SleepQueued'
  BY <1>2, GrownKeeps
<1>4. Waking'
  BY <1>1 DEF Waking
<1>5. CalmTypes'
  BY <1>1, <1>3 DEF Alone, CalmInv, CalmTypes, coverVars
<1>6. OneSleep'
  BY <1>3 DEF OneSleep, SleepQueued, IsAsked
<1>7. AskedInv'
  BY <1>3 DEF Alone, CalmInv, AskedInv, IsAsked
<1>8. DomainInv'
  BY <1>3, <1>4 DEF Alone, CalmInv, DomainInv, IsAsked
<1> QED BY <1>5, <1>6, <1>7, <1>8 DEF CalmInv

(* A notice that says nothing new.                                         *)
LEMMA IgnoresCalm ==
  ASSUME IInv, CalmInv, Alone, UNCHANGED home, UNCHANGED queue, HomeFree, Inboxes',
         Noted' => Noted
  PROVE  CalmInv'
<1>1. SleepQueued' <=> SleepQueued
  BY DEF SleepQueued
<1>2. CalmTypes'
  BY DEF Alone, CalmInv, CalmTypes, coverVars
<1>3. OneSleep'
  BY <1>1 DEF Alone, CalmInv, OneSleep, IsAsked
<1>4. AskedInv'
  BY <1>1 DEF Alone, CalmInv, AskedInv, IsAsked, Patient, Asking, Using
<1>5. DomainInv'
  <2>1. domain # "System"
    BY DEF HomeFree, CalmInv, DomainInv
  <2> QED BY <1>1, <2>1 DEF Alone, CalmInv, DomainInv, IsAsked, Asking, Using, Locking, Waking
<1> QED BY <1>2, <1>3, <1>4, <1>5 DEF CalmInv

LEMMA HomeReadsCalm == IInv /\ CalmInv /\ HomeReads => CalmInv'
<1> SUFFICES ASSUME IInv, CalmInv, HomeReads PROVE CalmInv'
  OBVIOUS
<1>1. Alone /\ HomeFree /\ inbox # << >> /\ inbox' = Tail(inbox)
  BY HomeAlone DEF HomeReads
<1>2. /\ Head(inbox) \in {"auto_sleep", "unlock"} /\ (Head(inbox) = "auto_sleep" => Noted)
      /\ Inboxes' /\ (Noted' => Noted)
  BY <1>1, Notices DEF CalmInv
<1>3. CASE UNCHANGED <<home, queueVars>>
  BY <1>1, <1>2, <1>3, IgnoresCalm DEF queueVars
<1>4. CASE Head(inbox) = "auto_sleep" /\ NotYetLocked /\ AskSleep("sleep", home.app)
  BY <1>1, <1>2, <1>4, AskSleepCalm
<1>5. CASE /\ home.page = "locked" /\ Send("Wake", 0, interaction)
           /\ home' = [home EXCEPT !.page = "ui", !.wants = "resume",
                                   !.app = home.app \/ Head(inbox) = "cover_open_app",
                                   !.waits = interaction']
           /\ Head(inbox) = "unlock"
  <2>1. /\ home \in Homes /\ home.waits = 0 /\ home.reply = "none" /\ home.app = FALSE
    BY <1>1 DEF HomeFree, CalmInv, CalmTypes, Homes
  <2>2. ~SleepQueued /\ ~IsAsked(loop.event) /\ domain # "System"
    BY <1>5, <2>1 DEF CalmInv, AskedInv, DomainInv, Patient, Asking, Using
  <2>3. interaction' \in Nat
    BY <1>5 DEF IInv, TypeOK, QueueTypes, Send, EpochAfter
  <2>4. (home.app \/ Head(inbox) = "cover_open_app") = FALSE
    BY <1>5, <2>1
  <2>5. home' = [home EXCEPT !.page = "ui", !.wants = "resume", !.app = FALSE,
                             !.waits = interaction']
    BY <1>5, <2>4
  <2>6. /\ home' \in Homes /\ home'.wants = "resume" /\ home'.reply = "none"
        /\ home'.waits = interaction'
    BY <2>1, <2>3, <2>5 DEF Homes
  <2> QED BY <1>1, <1>2, <1>5, <2>2, <2>6, AskWakeCalm
<1> QED BY <1>2, <1>3, <1>4, <1>5 DEF HomeReads

(* The answer to what it asked for.                                        *)
LEMMA RestedCalm ==
  ASSUME IInv, CalmInv, Alone, UNCHANGED <<inbox, queue>>, NEW page \in {"ui", "locked", "off"},
         Rested(page), ~SleepQueued, ~IsAsked(loop.event), domain # "System",
         domain = "Sleeping" => page = "locked"
  PROVE  CalmInv'
<1>1. /\ home' \in Homes /\ home'.waits = 0 /\ home'.reply = "none" /\ home'.page = page
  BY DEF Rested, CalmInv, CalmTypes, Homes
<1>2. SleepQueued' <=> SleepQueued
  BY DEF SleepQueued
<1>3. CalmTypes'
  BY <1>1 DEF Alone, CalmInv, CalmTypes, coverVars
<1>4. Inboxes'
  BY DEF CalmInv, Inboxes
<1>5. OneSleep'
  BY <1>1, <1>2 DEF Alone, CalmInv, OneSleep, IsAsked
<1>6. AskedInv'
  BY <1>2 DEF Alone, CalmInv, AskedInv, IsAsked
<1>7. DomainInv'
  <2>1. domain = "Sleeping" => Locking'
    BY <1>1 DEF Locking
  <2> QED BY <1>2, <2>1 DEF Alone, CalmInv, DomainInv, IsAsked
<1> QED BY <1>3, <1>4, <1>5, <1>6, <1>7 DEF CalmInv

LEMMA HomeHearsCalm == IInv /\ CalmInv /\ HomeHears => CalmInv'
<1> SUFFICES ASSUME IInv, CalmInv, HomeHears PROVE CalmInv'
  OBVIOUS
<1>1. Alone /\ home.waits # 0 /\ home.reply # "none" /\ UNCHANGED inbox
  BY HomeAlone DEF HomeHears
<1>2. home \in Homes /\ home.app = FALSE
  BY DEF CalmInv, CalmTypes, Homes
<1>3. ~SleepQueued /\ ~IsAsked(loop.event) /\ domain # "System"
  BY <1>1 DEF CalmInv, AskedInv, DomainInv, Patient, Using
<1>4. Inboxes'
  BY <1>1 DEF CalmInv, Inboxes
<1>5. domain = "Sleeping" => Asking \/ Waking
  BY <1>1 DEF CalmInv, DomainInv, Using, Locking
<1>6. CASE home.wants \in {"sleep", "cover"} /\ home.reply = "ok"
  <2>1. AskWake(home.page, "unlock")
    BY <1>2, <1>6 DEF HomeHears, Homes
  <2>2. interaction' \in Nat
    BY <2>1 DEF AskWake, IInv, TypeOK, QueueTypes, Send, EpochAfter
  <2>3. /\ home' \in Homes /\ home'.wants = "unlock" /\ home'.reply = "none"
        /\ home'.waits = interaction'
    BY <1>2, <2>1, <2>2 DEF AskWake, Homes
  <2> QED BY <1>1, <1>3, <1>4, <2>1, <2>3, AskWakeCalm DEF AskWake
<1>7. CASE home.wants \in {"sleep", "cover"} /\ home.reply # "ok"
  <2>1. Rested(PageAfterError(home.page)) /\ UNCHANGED queue
    BY <1>2, <1>7 DEF HomeHears, queueVars, Homes
  <2>2. PageAfterError(home.page) \in {"ui", "locked", "off"}
    BY <1>2 DEF PageAfterError, Homes
  <2>3. domain = "Sleeping" => PageAfterError(home.page) = "locked"
    BY <1>5, <1>7 DEF PageAfterError, Asking, Waking
  <2> QED BY <1>1, <1>3, <2>1, <2>2, <2>3, RestedCalm
<1>8. CASE home.wants \in {"unlock", "resume"} /\ home.reply = "ok"
  <2>1. Rested("ui") /\ UNCHANGED queue
    BY <1>2, <1>8 DEF HomeHears, queueVars
  <2>2. domain # "Sleeping"
    BY <1>5, <1>8 DEF Asking, Waking
  <2> QED BY <1>1, <1>3, <2>1, <2>2, RestedCalm
<1>9. CASE home.wants \in {"unlock", "resume"} /\ home.reply # "ok"
  <2>1. Rested(PageAfterError("locked")) /\ UNCHANGED queue
    BY <1>2, <1>9 DEF HomeHears, queueVars
  <2>2. /\ PageAfterError("locked") \in {"ui", "locked", "off"}
        /\ domain = "Sleeping" => PageAfterError("locked") = "locked"
    BY DEF PageAfterError
  <2> QED BY <1>1, <1>3, <2>1, <2>2, RestedCalm
<1> QED BY <1>6, <1>7, <1>8, <1>9 DEF HomeHears

-----------------------------------------------------------------------------
(* Home is up, and nothing was asked.                                      *)
LEMMA CalmInit == Calm /\ Init => CalmInv
<1> SUFFICES ASSUME Calm, Init PROVE CalmInv
  OBVIOUS
<1>1. home \in Homes /\ home.waits = 0 /\ home.reply = "none"
  BY DEF Init, HomeUp, Homes
<1>2. budget \in Budgets
  BY BoundsAssumption DEF Calm, Init, Budgets
<1>3. loop.event.ev = "none" /\ loop.at = "idle" /\ queue = << >> /\ inbox = << >>
  BY RestingIs DEF Init
<1>4. CalmTypes /\ Inboxes
  BY <1>1, <1>2, <1>3 DEF Init, CalmTypes, Inboxes, Undisturbed
<1>5. OneSleep /\ AskedInv /\ DomainInv
  BY <1>3 DEF Init, OneSleep, AskedInv, DomainInv, IsAsked, SleepQueued
<1> QED BY <1>4, <1>5 DEF CalmInv

LEMMA CalmNext == IInv /\ CalmInv /\ [Next]_vars => CalmInv'
<1> SUFFICES ASSUME IInv, CalmInv, [Next]_vars PROVE CalmInv'
  OBVIOUS
<1>1. CASE Environment \/ KernelSleeps \/ KeyUp
  <2>1. ~CoverMoves /\ ~WorkBegins /\ ~IdleSetting /\ ~ControlRequest /\ ~SleepButton
        /\ ~SleepReplyLate
    BY Spends DEF CoverMoves, WorkBegins, IdleSetting, ControlRequest, SleepButton, SleepReplyLate
  <2> QED BY <1>1, <2>1, OthersCalm DEF Environment
<1>2. CASE Thread
  BY <1>2, OthersCalm, SendersCalm, GuardQuietCalm DEF Thread
<1>3. CASE Handlers
  <2>1. ~WakelockLost /\ ~QuietTimeout /\ ~RecoverManager
    BY Spends DEF WakelockLost, QuietTimeout, RecoverManager
  <2> QED BY <1>3, <2>1, NobodyAsks, TakeCalm, PressCalm, EnterCalm, HandleRestoreCalm,
             AutoSleepCalm, HandOffCalm, SleepCalm, LockCalm, RecheckCalm, StopsCalm,
             SuspendFailedCalm, PhysicalResumeCalm, WakeCalm, RecoverCalm
      DEF Handlers
<1>4. CASE Policy \/ HomeSteps \/ Timers
  BY <1>4, OthersCalm, SendersCalm, HomeReadsCalm, HomeHearsCalm, TimerCalm
  DEF Policy, HomeSteps, Timers
<1>5. CASE UNCHANGED vars
  <2>1. /\ UNCHANGED <<domain, loop, home, inbox, coverVars, queue, budget>>
    BY <1>5 DEF vars, homeVars, queueVars
  <2> QED BY <2>1, CalmStays, Spends DEF Grown, NoFault
<1> QED BY <1>1, <1>2, <1>3, <1>4, <1>5 DEF Next

(* A locked device is left for the stock system only by a handler of the   *)
(* user's press.                                                           *)
LEMMA OneRestores ==
  ASSUME IInv, CalmInv, Next, domain = "Sleeping", domain' = "System"
  PROVE  HandleRestore
<1>1. ~Environment /\ ~KernelSleeps /\ ~KeyUp
  BY DEF Environment, AlarmWakes, ChargerMoves, KeyDown, PressGetsLong, GapEnds, CoverMoves,
     IdleTimePasses, WorkBegins, WorkEnds, Touch, IdleSetting, ControlRequest, SleepButton,
     SleepReplyLate, KernelSleeps, KeyUp, KeyUnchanged, PowerUnchanged, HomeUnchanged
<1>2. ~Thread /\ ~Policy /\ ~HomeSteps /\ ~Timers
  BY DEF Thread, ReadGuarded, ReadKey, PollClick, GuardQuiet, Policy, Deadline,
     ReserveAutoSleep, HomeSteps, HomeReads, HomeHears, Timers, TimerEnds, KeyUnchanged,
     PowerUnchanged, HomeUnchanged
<1>3. ~Recover /\ ~RecoverManager
  <2>1. Recover => UNCHANGED domain
    BY RetainsLock DEF Recover
  <2>2. ~RecoverManager
    BY Spends DEF RecoverManager
  <2> QED BY <2>1, <2>2
<1>4. ASSUME Handlers PROVE HandleRestore
  BY <1>3, <1>4 DEF Handlers, Take, HandleActivity, HandlePress, HandleLaunch, HandleEnter,
     HandleAutoSleep, HandOff, HandleCoverClosed, CoverHandOff, HandleCoverOpened, HandleSleep,
     ShowLock, ArmGuard, Recheck, ReleaseWakelock, SuspendStops, KernelResumed, WakelockLost,
     SuspendFailed, ResumeGuard, QuietTimeout, PhysicalResume, RollBack, HandleWake, Unlock,
     HandleResuspend, EnterManager, Still
<1> QED BY <1>1, <1>2, <1>4 DEF Next

(* While nothing fails, nobody asks over a socket or in Home and the cover *)
(* stays, a locked device goes back to the stock system only by a long or  *)
(* a triple press, for any number of presses, idle intervals, alarms and   *)
(* chargers: every error that a handler returns behind the lock is one that*)
(* recover_after_failure (request.rs) takes for a retained lock, because   *)
(* Home never has two requests to sleep under way.                         *)
THEOREM OnlyTheUserRestores ==
  ASSUME MaxFaults = 0, MaxRequests = 0, MaxCover = 0
  PROVE  Spec => OnlyUserRestores
<1> DEFINE Users ==
      domain = "Sleeping" /\ domain' = "System" => loop.event.ev \in {"LongPower", "TriplePower"}
<1>1. IInv /\ CalmInv /\ [Next]_vars => [Users]_vars
  <2> SUFFICES ASSUME IInv, CalmInv, Next, domain = "Sleeping", domain' = "System"
               PROVE  loop.event.ev \in {"LongPower", "TriplePower"}
    OBVIOUS
  <2>1. HandleRestore
    BY OneRestores
  <2> QED BY <2>1 DEF HandleRestore, Starts, CalmInv, CalmTypes, Undisturbed
<1>2. Init => CalmInv
  BY CalmInit DEF Calm
<1> QED BY <1>1, <1>2, CalmNext, Invariance, PTL DEF Spec, OnlyUserRestores
=============================================================================
