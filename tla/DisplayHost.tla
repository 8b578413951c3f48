---------------------------- MODULE DisplayHost ----------------------------
(* remagic-display-host in front of its panel thread                        *)
(* (native/remagic-display-host: qtfb/state.rs, qtfb/surfaces.rs,           *)
(* qtfb/surfaces/lock.rs, qtfb/surfaces/registration.rs, qtfb/input.rs,     *)
(* qtfb/server.rs, control.rs, main.rs): one thread serves the control      *)
(* socket, one each client of a surface, two read the input devices and one *)
(* dispatches what they read.  foreground_ops is one mutex over almost all  *)
(* of it; the panel is only reached through its channel.                    *)
EXTENDS Panel, FiniteSets

CONSTANTS Home,       \* the manager's surface, which shows the lock
          Contacts,   \* touches, each with a tracking id of its own
          Strokes,    \* strokes of the pen, one after the other
          MaxSleep,   \* bound on the sleep epochs
          MaxCommits, \* bound on the pictures the clients draw
          MaxInputs,  \* bound on the touches and strokes begun
          MaxOps,     \* bound on control commands, and the touches and strokes with them
          Hardware    \* whether the panel may refuse a submission

ASSUME HostAssumption == /\ Home \in Keys
                         /\ Contacts \cap Strokes = {}
                         /\ MaxSleep \in Nat /\ MaxCommits \in Nat
                         /\ MaxInputs \in Nat /\ MaxOps \in Nat
                         /\ Hardware \in BOOLEAN

VARIABLES
  client,     \* [Keys -> its thread: "none", "new" (no reply yet), "on", "deaf"]
  life,       \* [Keys -> the registration in surfaces, or 0]
  lives,      \* next_shm_key: registrations so far
  marked,     \* [Keys -> a commit is counted and its damage not yet passed on]
  foreground, \* the requested lease
  prepared,   \* prepared_foreground
  lock,       \* LockLease: its epoch (0: none) and lease
  lastSleep,  \* last_sleep_epoch
  fences,     \* [Keys -> the highest fence accepted]
  waiting,    \* the command the control thread waits for, holding foreground_ops
  active,     \* active_touches
  suppressed, \* suppressed_touches
  pen,        \* active_pen: the lease it was pressed on
  suppressedPen,
  touched,    \* [Contacts and Strokes -> "idle", "down", "up": what the hand does]
  captured,   \* frames on their way to the dispatcher
  held,       \* [Keys -> contacts its client was told are pressed]
  owed,       \* the last picture of a committed foreground whose damage was taken
  ops

inputVars == <<active, suppressed, pen, suppressedPen, captured>>
leaseVars == <<foreground, prepared, lock, lastSleep, fences>>
clientVars == <<client, life, lives, marked, drawn, owed>>
vars == <<panelVars, inputVars, leaseVars, clientVars, touched, waiting, held, ops>>

Unlocked == [epoch |-> 0, lease |-> NoLease]
Idle == [op |-> "none", lease |-> NoLease, arg |-> 0]
NothingOwed == [lease |-> NoLease, picture |-> Blank]

Init ==
  /\ PanelInit
  /\ client = [k \in Keys |-> "none"]
  /\ life = [k \in Keys |-> 0]
  /\ lives = 0
  /\ marked = [k \in Keys |-> FALSE]
  /\ foreground = NoLease
  /\ prepared = NoLease
  /\ lock = Unlocked
  /\ lastSleep = 0
  /\ fences = [k \in Keys |-> 0]
  /\ waiting = Idle
  /\ active = {}
  /\ suppressed = {}
  /\ pen = NoLease
  /\ suppressedPen = FALSE
  /\ touched = [c \in Contacts \cup Strokes |-> "idle"]
  /\ captured = <<>>
  /\ held = [k \in Keys |-> {}]
  /\ owed = NothingOwed
  /\ ops = 0

(* foreground_ops is free: no command waits for the panel.                  *)
OpsFree == alive /\ waiting = Idle

(* One control command of the daemon, the only one at a time.               *)
Control == OpsFree /\ ops < MaxOps /\ ops' = ops + 1

Enqueue(command) == Room /\ commands' = Append(commands, command)

(* The panel's state apart from its channel.                                *)
panelRest == <<surface, visible, frozen, ink, stroke, glass, telemetry, alive>>

(***************************************************************************)
(* The fence around the contacts of the old foreground                     *)
(***************************************************************************)
(* send_to_key() reaches the client that has its reply and reads its queue. *)
Hears(k) == k \in Keys /\ client[k] = "on"

(* fence_input_contacts(): frames in flight become stale (input_epoch), the *)
(* foreground's client is told that its contacts are lifted and its stroke  *)
(* is cancelled, and what is left of them is suppressed.  The panel hears of*)
(* the pen too, when there is room.  LiftsTouches forgets the stroke.       *)
LiftsTouches(k) == IF foreground.key = k THEN active ELSE {}
Lifted(k) == (IF foreground.key = k THEN active ELSE {})
             \cup (IF pen.key = k THEN Strokes ELSE {})
Stale(frames) == [i \in DOMAIN frames |-> [frames[i] EXCEPT !.current = FALSE]]
FenceContacts ==
  /\ captured' = Stale(captured)
  /\ held' = [k \in Keys |-> IF Hears(k) THEN held[k] \ Lifted(k) ELSE held[k]]
  /\ pen' = NoLease
  /\ suppressedPen' = (suppressedPen \/ pen # NoLease)
  /\ active' = {}
  /\ suppressed' = suppressed \cup active

Offer(queue, command) == IF Len(queue) < Depth THEN Append(queue, command) ELSE queue
CancelStroke(queue) == IF pen # NoLease THEN Offer(queue, Command("pen", pen, 2, 0))
                       ELSE queue

(* A transition that is queued for the panel and fences the contacts.       *)
EnqueueFenced(command) ==
  /\ Room
  /\ commands' = CancelStroke(Append(commands, command))
  /\ FenceContacts

(***************************************************************************)
(* Control commands: leases                                                *)
(***************************************************************************)
(* validate_foreground_fence()                                              *)
Fresh(k, f) == life[k] # 0 /\ f > fences[k]
Accept(k, f) == fences' = [fences EXCEPT ![k] = f]

HostSet(k, f) ==
  /\ Control
  /\ lock = Unlocked
  /\ Fresh(k, f)
  /\ EnqueueFenced(Plain("set", Lease(k, f)))
  /\ Accept(k, f)
  /\ prepared' = NoLease
  /\ foreground' = Lease(k, f)
  /\ UNCHANGED <<panelRest, deferred, clientVars, touched, lock, lastSleep, waiting>>

HostPrepare(k, f) ==
  /\ Control
  /\ lock = Unlocked
  /\ Fresh(k, f)
  /\ commands' = CancelStroke(commands)
  /\ FenceContacts
  /\ Accept(k, f)
  /\ prepared' = Lease(k, f)
  /\ UNCHANGED <<panelRest, deferred, clientVars, touched, foreground, lock, lastSleep, waiting>>

HostActivate(enabled) ==
  /\ Control
  /\ lock = Unlocked
  /\ prepared # NoLease
  /\ Enqueue(Command("activate", prepared, Flag(enabled), 0))
  /\ foreground' = prepared
  /\ prepared' = NoLease
  /\ UNCHANGED <<panelRest, deferred, clientVars, touched, inputVars, lock, lastSleep, fences, waiting, held>>

HostClear ==
  /\ Control
  /\ lock = Unlocked
  /\ prepared' = NoLease
  /\ \/ /\ foreground # NoLease
        /\ EnqueueFenced(Plain("clear", foreground))
        /\ foreground' = NoLease
     \/ /\ foreground = NoLease \/ ~Room
        /\ UNCHANGED <<commands, inputVars, held, foreground>>
  /\ UNCHANGED <<panelRest, deferred, clientVars, touched, lock, lastSleep, fences, waiting>>

(* configure_ink() waits for the panel's acknowledgement, or two seconds.   *)
HostInk(enabled) ==
  /\ Control
  /\ lock = Unlocked
  /\ foreground # NoLease
  /\ Enqueue(Command("ink", foreground, Flag(enabled), 0))
  /\ waiting' = [op |-> "ink", lease |-> foreground, arg |-> Flag(enabled)]
  /\ UNCHANGED <<panelRest, deferred, clientVars, touched, inputVars, leaseVars, held>>

(* request_full_refresh(), and refresh_lock() for the same picture.         *)
HostRefresh ==
  /\ Control
  /\ prepared = NoLease
  /\ \/ lock # Unlocked /\ Enqueue(Command("refreshLock", lock.lease, lock.epoch, 0))
     \/ lock = Unlocked /\ foreground # NoLease /\ Enqueue(Plain("full", foreground))
  /\ UNCHANGED <<panelRest, deferred, clientVars, touched, inputVars, leaseVars,
                 waiting, held>>

(***************************************************************************)
(* Control commands: the lock                                              *)
(***************************************************************************)
HostShowLock(k, f, e) ==
  /\ Control
  /\ prepared = NoLease
  /\ lock = Unlocked
  /\ e > lastSleep
  /\ Fresh(k, f)
  /\ EnqueueFenced(Command("show", Lease(k, f), e, 0))
  /\ Accept(k, f)
  /\ lastSleep' = e
  /\ foreground' = Lease(k, f)
  /\ lock' = [epoch |-> e, lease |-> Lease(k, f)]
  /\ UNCHANGED <<panelRest, deferred, clientVars, touched, prepared,
                 waiting>>

(* cancel_lock() once the replacement's picture is drawn; a retry after the *)
(* panel has answered needs no second command.                              *)
Unlock == /\ FenceContacts
          /\ lock' = Unlocked
Replacement(n) == /\ life[lock.lease.key] # 0
                  /\ n \in 1..drawn[life[lock.lease.key]]
                  /\ lockEpoch \in {0, lock.epoch}
HostCancelLock(n) ==
  /\ Control
  /\ lock # Unlocked
  /\ Replacement(n)
  /\ \/ /\ cancelled = lock.epoch
        /\ Unlock
        /\ UNCHANGED <<commands, waiting>>
     \/ /\ cancelled # lock.epoch
        /\ Enqueue(Command("cancel", lock.lease, lock.epoch, n))
        /\ waiting' = [op |-> "cancel", lease |-> lock.lease, arg |-> lock.epoch]
        /\ UNCHANGED <<inputVars, held, lock>>
  /\ UNCHANGED <<panelRest, deferred, clientVars, touched, foreground, prepared,
                 lastSleep, fences>>

(* The panel's answer arrives while the control thread polls.               *)
Acknowledged ==
  \/ waiting.op = "ink" /\ inked = [lease |-> waiting.lease, enabled |-> waiting.arg = 1]
  \/ waiting.op = "cancel" /\ cancelled = waiting.arg
HostAcknowledged ==
  /\ alive
  /\ Acknowledged
  /\ waiting' = Idle
  /\ \/ waiting.op = "ink" /\ UNCHANGED <<inputVars, held, lock>>
     \/ waiting.op = "cancel" /\ Unlock
  /\ UNCHANGED <<panelRest, commands, deferred, clientVars, touched, foreground,
                 prepared, lastSleep, fences, ops>>

(* Two seconds without an answer: the command stays queued, the host as it  *)
(* is.                                                                      *)
HostGivesUp ==
  /\ alive
  /\ waiting # Idle
  /\ waiting' = Idle
  /\ UNCHANGED <<panelVars, clientVars, touched, inputVars, leaseVars, held, ops>>

(***************************************************************************)
(* The thread of a client                                                  *)
(***************************************************************************)
panelKeeps == <<surface, visible, frozen, ink, stroke, glass, telemetry>>
hostKeeps == <<touched, leaseVars, waiting, ops>>

(* register(): under the surfaces' mutex, not under foreground_ops.         *)
Register(k) ==
  /\ client[k] = "none"
  /\ lives < MaxLives
  /\ Enqueue(Surface("register", k, lives + 1))
  /\ client' = [client EXCEPT ![k] = "new"]
  /\ life' = [life EXCEPT ![k] = lives + 1]
  /\ lives' = lives + 1
  /\ UNCHANGED <<panelKeeps, alive, deferred, drawn, owed, marked, inputVars, held, hostKeeps>>

(* activate_client() after the reply was sent.                              *)
ActivateClient(k) ==
  /\ alive
  /\ client[k] = "new"
  /\ client' = [client EXCEPT ![k] = "on"]
  /\ UNCHANGED <<panelVars, life, lives, marked, drawn, owed, inputVars, held, hostKeeps>>

(* The client's surface goes.  What its client was told goes with it.       *)
Gone(k) ==
  /\ client' = [client EXCEPT ![k] = "none"]
  /\ life' = [life EXCEPT ![k] = 0]
  /\ marked' = [marked EXCEPT ![k] = FALSE]
  /\ UNCHANGED <<lives, drawn, owed>>

(* A full channel here would part the panel from the host: fail_closed().   *)
FailClosed == alive' = FALSE /\ UNCHANGED commands

(* abort_registration(): the reply could not be sent.                       *)
AbortRegistration(k) ==
  /\ alive
  /\ client[k] = "new"
  /\ Gone(k)
  /\ \/ Enqueue(Surface("drop", k, 0)) /\ UNCHANGED alive
     \/ ~Room /\ FailClosed
  /\ UNCHANGED <<panelKeeps, deferred, inputVars, held, hostKeeps>>

(* unregister(): a lock keeps its foreground, any other client takes it     *)
(* along.  The fence comes once the surface is gone, so that nobody hears   *)
(* of it any more.                                                          *)
Clears(k) == foreground.key = k /\ lock.lease.key # k
Fenced(k) == IF Clears(k) THEN /\ suppressedPen' = (suppressedPen \/ pen # NoLease)
                               /\ suppressed' = suppressed \cup active
                               /\ captured' = Stale(captured)
                               /\ active' = {} /\ pen' = NoLease
             ELSE UNCHANGED inputVars
Unregister(k) ==
  LET after == CancelStroke(Append(commands, Surface("drop", k, 0)))
      room == Room /\ (Clears(k) => Len(after) < Depth)
  IN /\ OpsFree
     /\ client[k] \in {"on", "deaf"}
     /\ Gone(k)
     /\ held' = [held EXCEPT ![k] = {}]
     /\ prepared' = IF prepared.key = k THEN NoLease ELSE prepared
     /\ Fenced(k)
     /\ \/ /\ room /\ Clears(k)
           /\ commands' = Append(after, Plain("clear", foreground))
           /\ foreground' = NoLease
           /\ UNCHANGED alive
        \/ /\ room /\ ~Clears(k)
           /\ commands' = Append(commands, Surface("drop", k, 0))
           /\ UNCHANGED <<foreground, alive>>
        \/ ~room /\ FailClosed /\ UNCHANGED foreground
     /\ UNCHANGED <<panelKeeps, deferred, touched, lock, lastSleep, fences, waiting, ops>>

(* The client draws and says so: mark_commit(), then damage() as soon as    *)
(* foreground_ops is free.                                                  *)
Pictures == {p \in (1..MaxLives) \X (1..MaxCommits) : p[2] <= drawn[p[1]]}
Draw(k) ==
  /\ alive
  /\ client[k] \in {"on", "deaf"}
  /\ ~marked[k]
  /\ Cardinality(Pictures) < MaxCommits
  /\ drawn' = [drawn EXCEPT ![life[k]] = @ + 1]
  /\ marked' = [marked EXCEPT ![k] = TRUE]
  /\ UNCHANGED <<panelVars, client, life, lives, owed, inputVars, held, hostKeeps>>

(* Damage of the foreground that cannot be queued is deferred: it says that *)
(* something is to be drawn again, not what.                                *)
Forget(lease) == deferred
Defer(lease) == deferred \cup {lease}
Passes(k) == prepared = NoLease /\ lock = Unlocked /\ foreground.key = k
PassDamage(k) ==
  /\ OpsFree
  /\ marked[k]
  /\ marked' = [marked EXCEPT ![k] = FALSE]
  /\ \/ /\ Passes(k)
        /\ \/ Enqueue(Plain("damage", foreground)) /\ UNCHANGED deferred
           \/ ~Room /\ deferred' = Defer(foreground) /\ UNCHANGED commands
        /\ owed' = IF committed = foreground
                   THEN [lease |-> foreground,
                         picture |-> [key |-> k, life |-> life[k], sequence |-> drawn[life[k]]]]
                   ELSE owed
     \/ ~Passes(k) /\ UNCHANGED <<commands, deferred, owed>>
  /\ UNCHANGED <<panelKeeps, alive, client, life, lives, drawn, inputVars, held, hostKeeps>>

(* request_surface_full_refresh()                                           *)
RequestFullRefresh(k) ==
  /\ Control
  /\ client[k] \in {"on", "deaf"}
  /\ ~marked[k]
  /\ Passes(k)
  /\ Enqueue(Plain("full", foreground))
  /\ UNCHANGED <<panelKeeps, alive, deferred, clientVars, inputVars, held, touched, leaseVars,
                 waiting>>

(* A client that reads nothing fills its queue with boundaries and is heard *)
(* no more: InputQueue::push().                                             *)
Overflow(k) ==
  /\ alive
  /\ client[k] = "on"
  /\ held[k] # {}
  /\ client' = [client EXCEPT ![k] = "deaf"]
  /\ UNCHANGED <<panelVars, life, lives, marked, drawn, owed, inputVars, held, hostKeeps>>

(***************************************************************************)
(* Input                                                                   *)
(***************************************************************************)
Frame(c, phase) == [contact |-> c, phase |-> phase, current |-> TRUE]
Begun == {c \in DOMAIN touched : touched[c] # "idle"}

(* A reader reads a frame and the input epoch with it.  A pen writes one    *)
(* stroke after the other.                                                  *)
Hand(c, phase) ==
  /\ alive
  /\ \/ /\ phase = "down" /\ touched[c] = "idle"
        /\ Cardinality(Begun) < MaxInputs /\ ops < MaxOps /\ ops' = ops + 1
        /\ c \in Strokes => \A s \in Strokes : touched[s] # "down"
     \/ phase = "up" /\ touched[c] = "down" /\ UNCHANGED ops
  /\ touched' = [touched EXCEPT ![c] = phase]
  /\ captured' = Append(captured, Frame(c, phase))
  /\ UNCHANGED <<panelVars, clientVars, active, suppressed, pen, suppressedPen, held,
                 leaseVars, waiting>>

(* suppress_fenced_contact(): a contact that a fence cut off.               *)
CutOff(f) == \/ f.contact \in suppressed
             \/ f.contact \in Strokes /\ suppressedPen /\ f.phase = "up"
Suppress(f) ==
  /\ suppressed' = IF f.phase = "up" THEN suppressed \ {f.contact} ELSE suppressed
  /\ suppressedPen' = (suppressedPen /\ f.contact \notin Strokes)
  /\ UNCHANGED <<active, pen, held, commands>>

(* Input goes where the panel shows what was asked for.  RequestedOnly does *)
(* not ask the panel.                                                       *)
RequestedOnly == prepared = NoLease /\ lock = Unlocked /\ foreground # NoLease
Routable == RequestedOnly /\ foreground = committed

Press(k, c) == held' = [held EXCEPT ![k] = IF Hears(k) THEN @ \cup {c} ELSE @]
Release(k, cs) == held' = [held EXCEPT ![k] = IF Hears(k) THEN @ \ cs ELSE @]
RouteTouch(f) ==
  /\ f.contact \in Contacts
  /\ \/ /\ f.phase = "down"
        /\ active' = active \cup {f.contact}
        /\ Press(foreground.key, f.contact)
     \/ /\ f.phase = "up" /\ f.contact \in active
        /\ active' = active \ {f.contact}
        /\ Release(foreground.key, {f.contact})
     \/ /\ f.phase = "up" /\ f.contact \notin active
        /\ UNCHANGED <<active, held>>
  /\ UNCHANGED <<suppressed, suppressedPen, pen, commands>>

(* track_pen_contact(): a press while another one lasts cancels that.       *)
RoutePen(f) ==
  /\ f.contact \in Strokes
  /\ \/ /\ f.phase = "down"
        /\ pen' = foreground
        /\ Press(foreground.key, f.contact)
        /\ commands' = Offer(CancelStroke(commands), Command("pen", foreground, 1, 0))
     \/ /\ f.phase = "up"
        /\ pen' = NoLease
        /\ IF pen = foreground
           THEN /\ Release(foreground.key, Strokes)
                /\ commands' = Offer(commands, Command("pen", foreground, 0, 0))
           ELSE UNCHANGED <<held, commands>>
  /\ suppressedPen' = (suppressedPen /\ f.phase # "down")
  /\ UNCHANGED <<active, suppressed>>

(* A frame that goes nowhere; a press of the pen still ends its suppression.*)
Discard(f) ==
  /\ suppressedPen' = (suppressedPen /\ ~(f.current /\ f.contact \in Strokes))
  /\ UNCHANGED <<active, suppressed, pen, held, commands>>

Dispatch ==
  LET f == Head(captured) IN
  /\ OpsFree
  /\ captured # <<>>
  /\ captured' = Tail(captured)
  /\ \/ f.current /\ CutOff(f) /\ Suppress(f)
     \/ ~f.current /\ Discard(f)
     \/ f.current /\ ~CutOff(f) /\ ~Routable /\ Discard(f)
     \/ f.current /\ ~CutOff(f) /\ Routable /\ (RouteTouch(f) \/ RoutePen(f))
  /\ UNCHANGED <<panelKeeps, alive, deferred, clientVars, touched, leaseVars, waiting, ops>>

(***************************************************************************)
(* The process                                                             *)
(***************************************************************************)
PanelThread ==
  PanelStep /\ UNCHANGED <<clientVars, inputVars, held, hostKeeps>>
Fails ==
  /\ commands # <<>>
  /\ \/ Hardware
     \/ Head(commands).op = "show" /\ Connected(Head(commands).lease.key)
        /\ ~Drawn(Head(commands).lease.key)
  /\ PanelFails
  /\ UNCHANGED <<clientVars, inputVars, held, hostKeeps>>

(* The manager's fences rise one by one; a stale one is refused.            *)
NextFence(k) == {fences[k] + 1} \cap (1..MaxFence)
Manager ==
  \/ \E k \in Keys : \E f \in NextFence(k) : HostSet(k, f) \/ HostPrepare(k, f)
  \/ \E on \in BOOLEAN : HostActivate(on) \/ HostInk(on)
  \/ HostClear
  \/ HostRefresh
  \/ \E f \in NextFence(Home), e \in 1..MaxSleep : HostShowLock(Home, f, e)
  \/ \E n \in 1..MaxCommits : HostCancelLock(n)

Client(k) ==
  \/ Register(k) \/ ActivateClient(k) \/ AbortRegistration(k) \/ Unregister(k)
  \/ Draw(k) \/ PassDamage(k) \/ RequestFullRefresh(k) \/ Overflow(k)

Next ==
  \/ PanelThread
  \/ Fails
  \/ Manager
  \/ HostAcknowledged
  \/ HostGivesUp
  \/ \E k \in Keys : Client(k)
  \/ \E c \in Contacts \cup Strokes, phase \in {"down", "up"} : Hand(c, phase)
  \/ Dispatch

Spec == Init /\ [][Next]_vars
FairSpec == Spec /\ WF_vars(PanelThread)

(***************************************************************************)
(* Properties                                                              *)
(***************************************************************************)
(* Whoever gets input is on the glass: when a contact is first delivered to *)
(* a client (input.rs:44), the picture that the panel submitted last is one *)
(* of its present registration, and the panel does not show the lock.       *)
PressedIsVisible ==
  [][\A k \in Keys : held'[k] \ held[k] # {} =>
       /\ glass.key = k
       /\ surface[k] \in {0, glass.life}
       /\ frozen = NotFrozen]_vars

(* A client is never left with a contact that it believes pressed and that  *)
(* nobody will lift: whatever it was told of and has not been told the end  *)
(* of is still tracked for it, so that its release or the next fence        *)
(* reaches it.                                                              *)
ContactsBalanced ==
  \A k \in Keys : client[k] = "on" => held[k] \subseteq Lifted(k)

(* A lock holds: as long as the panel keeps the lock picture nothing else is*)
(* on the glass, whatever was queued, deferred or redrawn meanwhile; and the*)
(* host never believes itself unlocked while the panel still locks or a lock*)
(* is on its way to it.                                                     *)
LockHolds ==
  /\ frozen.epoch # 0 => glass = frozen.picture
  /\ alive /\ lock = Unlocked =>
       /\ frozen = NotFrozen
       /\ \A i \in DOMAIN commands : commands[i].op # "show"

(* A picture whose damage was taken while its lease was the committed       *)
(* foreground reaches the glass, through the channel or, when that was full,*)
(* as deferred damage, unless that lease goes away first.  A stroke may hold*)
(* the glass (Settles), so only a lease without ink counts.                 *)
Due == /\ owed.lease # NoLease
       /\ alive
       /\ foreground = owed.lease /\ committed = owed.lease
       /\ surface[owed.picture.key] = owed.picture.life
       /\ inked # [lease |-> owed.lease, enabled |-> TRUE]
       /\ ~(glass.key = owed.picture.key /\ glass.life = owed.picture.life
            /\ glass.sequence >= owed.picture.sequence)
DamageShown == Due ~> ~Due
=============================================================================
