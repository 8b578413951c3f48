-------------------------- MODULE SleepTransaction --------------------------
(***************************************************************************)
(* The sleep transaction of remagicd (daemon/sleep.rs): one phase, the     *)
(* epoch it shares with the display host, and a revision that every update *)
(* raises so that whoever observed an older one can be told apart.  An     *)
(* update is an edge between phases; it is refused, and changes nothing,   *)
(* when the phase or the epoch is not the expected one.                    *)
(***************************************************************************)
EXTENDS Naturals

Phases == {"Idle", "Preparing", "Locked", "Unlocking"}

NoSleep == [phase |-> "Idle", epoch |-> 0, revision |-> 0]

Update(tx, epoch, phase) ==
  [phase |-> phase, epoch |-> epoch, revision |-> tx.revision + 1]

(* begin                                                                   *)
CanBegin(tx) == tx.phase = "Idle"
Begin(tx, epoch) == Update(tx, epoch, "Preparing")

(* mark_locked                                                             *)
MarkLocked(tx) == Update(tx, tx.epoch, "Locked")

(* begin_unlock                                                            *)
CanUnlock(tx, epoch) ==
  tx.epoch = epoch /\ tx.phase \in {"Preparing", "Locked"}
BeginUnlock(tx) == Update(tx, tx.epoch, "Unlocking")

(* mark_awake: the phase and the epoch stay, older timers are out of date. *)
MarkAwake(tx) == Update(tx, tx.epoch, "Locked")

(* finish_unlock, abort_unlock, reset                                      *)
FinishUnlock(tx) == Update(tx, 0, "Idle")
AbortUnlock(tx) == Update(tx, tx.epoch, "Locked")
Reset(tx) == Update(tx, 0, "Idle")

(* resuspend_fence_matches                                                 *)
FenceMatches(tx, t, interaction) ==
  /\ tx.phase = "Locked" /\ tx.epoch = t.epoch /\ tx.revision = t.revision
  /\ interaction = t.fence
=============================================================================
