---------------------------- MODULE PowerManager ----------------------------
(***************************************************************************)
(* The idle policy of remagicd (power_manager.rs).  It keeps a phase, the  *)
(* work leases, a revision of the user's activity and whether the idle     *)
(* interval has passed since the last one.  idle_loop reserves Quiescing   *)
(* for a revision it read before it took the runtime lock; the event loop  *)
(* and the input sockets call everything else.                             *)
(*                                                                         *)
(* pw.checked is the revision next_policy_deadline returned and            *)
(* reserve_auto_sleep found unchanged before it asked for the lock (0:     *)
(* none); a plan whose revision is older does nothing and is not kept.     *)
(***************************************************************************)
EXTENDS Naturals

PowerPhases ==
  {"Awake", "Quiescing", "Suspended", "Resuming", "ExternallyBlocked"}

PowerAwake(managed) ==
  [phase |-> "Awake", managed |-> managed, revision |-> 1, leases |-> {},
   elapsed |-> FALSE, checked |-> 0]

Bumped(pw) == [pw EXCEPT !.revision = @ + 1]

(* enter_managed, enter_stock, resumed                                     *)
EnterManaged(pw) ==
  [Bumped(pw) EXCEPT !.managed = TRUE, !.phase = "Awake", !.leases = {},
                     !.elapsed = FALSE]
EnterStock(pw) ==
  [Bumped(pw) EXCEPT !.managed = FALSE, !.phase = "Awake", !.leases = {}]
Resumed(pw) == [Bumped(pw) EXCEPT !.phase = "Awake", !.elapsed = FALSE]

(* note_activity: input wakes the policy, not a device that is suspended or*)
(* blocked behind its lock.                                                *)
NoteActivity(pw) ==
  IF ~pw.managed THEN pw
  ELSE IF pw.phase \in {"Awake", "Quiescing", "Resuming"}
       THEN [Bumped(pw) EXCEPT !.phase = "Awake", !.elapsed = FALSE]
       ELSE Bumped(pw)

(* cancel_quiescing                                                        *)
CancelQuiescing(pw) ==
  IF pw.phase = "Quiescing"
  THEN [Bumped(pw) EXCEPT !.phase = "Awake", !.elapsed = FALSE]
  ELSE Bumped(pw)

(* set_idle_suspend leaves the phase as it is.                             *)
SetIdleSuspend(pw) == [Bumped(pw) EXCEPT !.elapsed = FALSE]

(* begin_suspend, suspended, externally_blocked, retained_lock_resume      *)
InPhase(pw, phase) == [pw EXCEPT !.phase = phase]

(* begin_work; LeaseOnly leaves the reservation of the idle loop alone.    *)
LeaseOnly(pw, id) == [Bumped(pw) EXCEPT !.leases = @ \cup {id}]
BeginWork(pw, id) ==
  [Bumped(pw) EXCEPT !.leases = @ \cup {id},
                     !.phase = IF @ = "Quiescing" THEN "Awake" ELSE @]

(* finish_work, and prune_expired for a lease nobody finished              *)
FinishWork(pw, id) == [pw EXCEPT !.leases = @ \ {id}]
FinishVisible(pw, id) ==
  [Bumped(pw) EXCEPT !.leases = @ \ {id},
                     !.elapsed = IF pw.leases = {id} THEN FALSE ELSE @]

(* next_policy_deadline and the first half of reserve_auto_sleep; blocked  *)
(* is an external wake lock.                                               *)
HasDeadline(pw, blocked) ==
  pw.managed /\ ~blocked /\ pw.phase = "Awake" /\ pw.elapsed
Checked(pw) == [pw EXCEPT !.checked = pw.revision]

(* The second half, with the lock, looks at the leases again.              *)
MayQuiesce(pw) == pw.phase = "Awake" /\ pw.leases = {} /\ pw.elapsed
Reserved(pw) == [pw EXCEPT !.phase = "Quiescing", !.checked = 0]
NotReserved(pw) == [pw EXCEPT !.checked = 0]

(* auto_sleep_is_current                                                   *)
AutoSleepIsCurrent(pw, revision) ==
  pw.managed /\ pw.revision = revision /\ pw.phase = "Quiescing"
=============================================================================
