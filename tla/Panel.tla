------------------------------- MODULE Panel -------------------------------
(* The panel thread of remagic-display-host (native/remagic-display-host:   *)
(* panel.rs, panel/runtime.rs, panel/ink.rs): the only thread that touches  *)
(* the glass.  It takes commands from a bounded channel, draws from the     *)
(* shared surfaces of the clients, and publishes what it has committed as   *)
(* telemetry that the other threads read without a lock.                    *)
(* A surface is what its client last drew: the number of its commit stands  *)
(* for the pixels, and damage for the whole surface.  Live ink is not part  *)
(* of that picture.                                                         *)
EXTENDS Integers, Sequences

CONSTANTS Keys,       \* the surfaces' keys
          MaxFence,   \* bound on (generation, epoch), one rising number here
          MaxLives,   \* bound on the registrations
          Depth       \* the channel's capacity; 1024 in the code

ASSUME PanelAssumption == MaxFence \in Nat /\ MaxLives \in Nat /\ Depth \in Nat \ {0}

NoKey == "no key"
ASSUME NoKeyAssumption == NoKey \notin Keys

Lease(k, f) == [key |-> k, fence |-> f]
Leases == [key : Keys, fence : 1..MaxFence]
NoLease == Lease(NoKey, 0)

VARIABLES
  commands,  \* the channel
  surface,   \* [Keys -> the registration the panel draws from, or 0]
  drawn,     \* [registration -> its commit_sequence]: the shared memory
  visible,   \* foreground
  frozen,    \* the committed lock: its epoch (0: none), lease and picture
  ink,       \* InkLease: its lease and whether ink is enabled
  stroke,    \* "none", "pen" down or "settling" after it
  glass,     \* the picture last submitted: [key, life, sequence]
  committed, \* telemetry.committed_foreground
  inked,     \* telemetry.committed_ink
  lockEpoch, \* telemetry.committed_lock_epoch
  cancelled, \* telemetry.cancelled_lock_epoch
  deferred,  \* telemetry.deferred_damage: its leases
  alive      \* whether the thread runs

telemetry == <<committed, inked, lockEpoch, cancelled>>
panelVars == <<commands, surface, visible, frozen, ink, stroke, glass,
               telemetry, deferred, alive>>

Blank == [key |-> NoKey, life |-> 0, sequence |-> 0]
NoInk == [lease |-> NoLease, enabled |-> FALSE]
NotFrozen == [epoch |-> 0, lease |-> NoLease, picture |-> Blank]

PanelInit ==
  /\ commands = <<>>
  /\ surface = [k \in Keys |-> 0]
  /\ drawn = [l \in 1..MaxLives |-> 0]
  /\ visible = NoLease
  /\ frozen = NotFrozen
  /\ ink = NoInk
  /\ stroke = "none"
  /\ glass = Blank
  /\ committed = NoLease
  /\ inked = NoInk
  /\ lockEpoch = 0
  /\ cancelled = 0
  /\ deferred = {}
  /\ alive = TRUE

(* PanelCommand: every kind uses the fields it needs.                       *)
Command(op, lease, arg, sequence) ==
  [op |-> op, lease |-> lease, arg |-> arg, sequence |-> sequence]
Surface(op, k, life) == Command(op, Lease(k, 0), life, 0)
Plain(op, lease) == Command(op, lease, 0, 0)
Flag(b) == IF b THEN 1 ELSE 0

(* enqueue_panel(): try_send.                                               *)
Room == alive /\ Len(commands) < Depth

(***************************************************************************)
(* What several commands do                                                *)
(***************************************************************************)
Connected(k) == surface[k] # 0
Picture(k) == [key |-> k, life |-> surface[k], sequence |-> drawn[surface[k]]]

(* present_surface() of the visible lease.                                  *)
Present(k) == glass' = Picture(k)

(* The commit of a lease: damage deferred for another one is forgotten.     *)
Commit(lease) ==
  /\ visible' = lease
  /\ committed' = lease
  /\ deferred' = IF visible = lease THEN deferred ELSE deferred \ {visible}
  /\ stroke' = "none"

Ink(lease, enabled) == /\ ink' = [lease |-> lease, enabled |-> enabled]
                       /\ inked' = [lease |-> lease, enabled |-> enabled]

(* clear_foreground_unchecked(), but for the damage it discards.            *)
ClearOwner ==
  /\ committed' = IF committed = visible THEN NoLease ELSE committed
  /\ inked' = IF inked.lease = visible THEN NoInk ELSE inked
  /\ visible' = NoLease
  /\ ink' = NoInk
  /\ stroke' = "none"

Uncommit == ClearOwner /\ deferred' = deferred \ {visible}

(* abort_ink() and the ink lease of a foreground without ink.               *)
NoStroke(lease) == ink' = NoInk /\ inked' = [lease |-> lease, enabled |-> FALSE]

(***************************************************************************)
(* handle(): one command                                                   *)
(***************************************************************************)
Take(op) == /\ alive
            /\ commands # <<>>
            /\ Head(commands).op = op
            /\ commands' = Tail(commands)

Asked == Head(commands).lease

RegisterSurface ==
  /\ Take("register")
  /\ surface' = [surface EXCEPT ![Asked.key] = Head(commands).arg]
  /\ UNCHANGED <<visible, frozen, ink, stroke, glass, telemetry, deferred>>

(* A committed lock keeps its frozen picture when its client goes.  All     *)
(* deferred damage of the key goes, that of the visible lease among it.     *)
KeepsLock(k) == frozen.epoch # 0 /\ frozen.lease.key = k
DropSurface ==
  LET k == Asked.key IN
  /\ Take("drop")
  /\ surface' = [surface EXCEPT ![k] = 0]
  /\ \/ /\ ~KeepsLock(k) /\ visible.key = k
        /\ ClearOwner
     \/ /\ KeepsLock(k) \/ visible.key # k
        /\ UNCHANGED <<visible, ink, stroke, committed, inked>>
  /\ deferred' = {l \in deferred : l.key # k}
  /\ UNCHANGED <<frozen, glass, lockEpoch, cancelled>>

(* handle_damage(): while the pen writes or its stroke settles the damage is*)
(* only copied to the framebuffer, never submitted.                         *)
Settles(lease) == stroke # "none" /\ ink.enabled /\ ink.lease.key = lease.key
Redraw(lease) ==
  IF visible = lease /\ ~Settles(lease) /\ Connected(lease.key)
  THEN Present(lease.key) ELSE UNCHANGED glass

Damage ==
  /\ Take("damage")
  /\ Redraw(Asked)
  /\ UNCHANGED <<surface, visible, frozen, ink, stroke, telemetry, deferred>>

(* flush_deferred_damage(), after every command and at the latest when      *)
(* recv_timeout() expires.                                                  *)
FlushDeferred ==
  /\ alive
  /\ visible \in deferred
  /\ deferred' = deferred \ {visible}
  /\ Redraw(visible)
  /\ UNCHANGED <<commands, surface, visible, frozen, ink, stroke,
                 telemetry, alive>>

(* A foreground that is not connected any more is a stale command.          *)
Ignore(op) ==
  /\ Take(op)
  /\ UNCHANGED <<surface, visible, frozen, ink, stroke, glass, telemetry,
                 deferred>>

SetForeground ==
  \/ /\ Take("set")
     /\ Connected(Asked.key)
     /\ Commit(Asked)
     /\ NoStroke(Asked)
     /\ Present(Asked.key)
     /\ UNCHANGED <<surface, frozen, lockEpoch, cancelled>>
  \/ ~Connected(Asked.key) /\ Ignore("set")

ActivateForeground ==
  \/ /\ Take("activate")
     /\ Connected(Asked.key)
     /\ Commit(Asked)
     /\ Ink(Asked, Head(commands).arg = 1)
     /\ Present(Asked.key)
     /\ UNCHANGED <<surface, frozen, lockEpoch, cancelled>>
  \/ ~Connected(Asked.key) /\ Ignore("activate")

ClearForeground ==
  \/ /\ Take("clear")
     /\ visible = Asked
     /\ Uncommit
     /\ UNCHANGED <<surface, frozen, glass, lockEpoch, cancelled>>
  \/ visible # Asked /\ Ignore("clear")

ConfigureInk ==
  LET enabled == Head(commands).arg = 1 IN
  \/ /\ Take("ink")
     /\ enabled => visible = Asked
     /\ stroke' = "none"
     /\ Ink(Asked, enabled)
     /\ UNCHANGED <<surface, visible, frozen, glass, committed, lockEpoch,
                    cancelled, deferred>>
  \/ enabled /\ visible # Asked /\ Ignore("ink")

(* handle_pen(): arg 1 is a press, 0 a lift, 2 a cancellation.              *)
Writes(lease) == ink.enabled /\ visible = lease /\ ink.lease = lease
Pen ==
  LET arg == Head(commands).arg IN
  /\ Take("pen")
  /\ stroke' = CASE ~Writes(Asked) -> stroke
                 [] Writes(Asked) /\ arg = 1 -> "pen"
                 [] Writes(Asked) /\ arg = 0 -> IF stroke = "pen" THEN "settling" ELSE stroke
                 [] Writes(Asked) /\ arg = 2 -> "none"
  /\ UNCHANGED <<surface, visible, frozen, ink, glass, telemetry, deferred>>

(* flush_deadlines(): the stroke has settled.                               *)
Settled ==
  /\ alive
  /\ stroke = "settling"
  /\ stroke' = "none"
  /\ UNCHANGED <<commands, surface, visible, frozen, ink, glass, telemetry,
                 deferred, alive>>

FullRefresh ==
  /\ Take("full")
  /\ IF visible = Asked /\ Connected(Asked.key) THEN Present(Asked.key) ELSE UNCHANGED glass
  /\ UNCHANGED <<surface, visible, frozen, ink, stroke, telemetry, deferred>>

(* show_lock(): a picture nobody has drawn is an error that ends the thread,*)
(* see PanelFails.                                                          *)
Drawn(k) == Connected(k) /\ drawn[surface[k]] > 0
ShowLock ==
  \/ /\ Take("show")
     /\ Drawn(Asked.key)
     /\ Commit(Asked)
     /\ NoStroke(Asked)
     /\ Present(Asked.key)
     /\ frozen' = [epoch |-> Head(commands).arg, lease |-> Asked,
                   picture |-> Picture(Asked.key)]
     /\ lockEpoch' = Head(commands).arg
     /\ UNCHANGED <<surface, cancelled>>
  \/ ~Connected(Asked.key) /\ Ignore("show")

(* The lock that the command names.                                         *)
Locked(command) == frozen.epoch = command.arg /\ frozen.lease = command.lease

(* refresh_lock(): the framebuffer again, not the surface.  RefreshSurface  *)
(* copies the client's surface once more.                                   *)
RefreshSurface(command) ==
  IF Connected(command.lease.key) THEN Picture(command.lease.key) ELSE glass
LockPicture(command) == frozen.picture
RefreshLock ==
  \/ /\ Take("refreshLock")
     /\ visible = Asked /\ Locked(Head(commands))
     /\ glass' = LockPicture(Head(commands))
     /\ UNCHANGED <<surface, visible, frozen, ink, stroke, telemetry, deferred>>
  \/ ~(visible = Asked /\ Locked(Head(commands))) /\ Ignore("refreshLock")

(* cancel_lock(): the replacement is on the glass before the lock goes.     *)
Replaceable(command) ==
  /\ Locked(command)
  /\ Connected(command.lease.key)
  /\ drawn[surface[command.lease.key]] >= command.sequence
CancelLock ==
  \/ /\ Take("cancel")
     /\ Replaceable(Head(commands))
     /\ Present(Asked.key)
     /\ frozen' = NotFrozen
     /\ lockEpoch' = 0
     /\ cancelled' = Head(commands).arg
     /\ UNCHANGED <<surface, visible, ink, stroke, committed, inked, deferred>>
  \/ commands # <<>> /\ ~Replaceable(Head(commands)) /\ Ignore("cancel")

PanelStep ==
  \/ /\ commands # <<>>
     /\ \/ RegisterSurface \/ DropSurface \/ Damage \/ SetForeground
        \/ ActivateForeground \/ ClearForeground \/ ConfigureInk \/ Pen
        \/ FullRefresh \/ ShowLock \/ RefreshLock \/ CancelLock
     /\ UNCHANGED alive
  \/ FlushDeferred
  \/ Settled

(* The hardware refuses a submission, or a lock page was never drawn: the   *)
(* thread ends, and main() ends the process.                                *)
PanelFails ==
  /\ alive
  /\ commands # <<>>
  /\ Head(commands).op \in {"damage", "set", "activate", "full", "show",
                            "refreshLock", "cancel"}
  /\ alive' = FALSE
  /\ UNCHANGED <<commands, surface, visible, frozen, ink, stroke, glass,
                 telemetry, deferred>>
=============================================================================
