------------------------------ MODULE PowerKey ------------------------------
(***************************************************************************)
(* The power key thread (power_device.rs): the click tracker of            *)
(* remagic-core/src/power.rs and the wake guard that keeps the key's own   *)
(* wake gesture from becoming a click.  Time is abstract: the held key may *)
(* become a long press, the gap after a click may end and the quiet window *)
(* of the guard may pass, in any order the code allows.                    *)
(*                                                                         *)
(*   since    down_since: none, short, or long once LONG_PRESS has passed  *)
(*   clicks   clicks not yet resolved                                      *)
(*   gapOver  their deadline has passed                                    *)
(*   suppress the release of a long press already reported is due          *)
(*   guard    off, armed, or resumed                                       *)
(*   down     the guard saw the key go down                                *)
(*   gesture  power_key_after_resume                                       *)
(*   asked    resume_reply: somebody waits for the quiet window            *)
(***************************************************************************)
EXTENDS Naturals

Tracking == [since |-> "none", clicks |-> 0, gapOver |-> FALSE,
             suppress |-> FALSE]
GuardOff == [guard |-> "off", down |-> FALSE, gesture |-> FALSE,
             asked |-> FALSE]
KeyIdle == [track |-> Tracking, wake |-> GuardOff]

-----------------------------------------------------------------------------
(* ClickTracker::press                                                     *)
TrackPress(t) ==
  IF t.since = "none" THEN [t EXCEPT !.since = "short"] ELSE t

(* ClickTracker::release: what it returns and what it leaves.  A click     *)
(* after the gap starts a new count.                                       *)
ClickCount(t) == IF t.gapOver THEN 1 ELSE t.clicks + 1

ReleaseAction(t) ==
  IF t.suppress \/ t.since = "none" THEN "None"
  ELSE IF t.since = "long" THEN "LongPower"
  ELSE IF ClickCount(t) >= 3 THEN "TriplePower" ELSE "None"

TrackRelease(t) ==
  IF t.suppress THEN [t EXCEPT !.suppress = FALSE, !.since = "none"]
  ELSE IF t.since = "none" THEN t
  ELSE IF ReleaseAction(t) # "None" THEN Tracking
  ELSE [t EXCEPT !.since = "none", !.clicks = ClickCount(t),
                 !.gapOver = FALSE]

(* ClickTracker::poll                                                      *)
PollAction(t) ==
  IF t.since = "long" THEN "LongPower"
  ELSE IF t.clicks > 0 /\ t.gapOver THEN "SinglePower" ELSE "None"
TrackPoll(t) ==
  IF t.since = "long" THEN [Tracking EXCEPT !.suppress = TRUE]
  ELSE IF PollAction(t) = "SinglePower" THEN Tracking ELSE t

-----------------------------------------------------------------------------
(* WakeGuard::arm through handle_arm_wake_guard: the tracker is cleared    *)
(* whether or not it succeeds.                                             *)
CanArm(k) == k.wake.guard = "off"
Armed(k) ==
  [track |-> Tracking,
   wake |-> IF CanArm(k) THEN [k.wake EXCEPT !.guard = "armed",
                                             !.down = FALSE]
                         ELSE k.wake]

(* WakeGuard::resume_and_report                                            *)
CanResume(k) == k.wake.guard = "armed"
AskedResume(k) ==
  [k EXCEPT !.wake.guard = "resumed", !.wake.asked = TRUE]

(* WakeGuard::consume: only a key event after the resume is the gesture.   *)
AfterResume(k) == k.wake.guard = "resumed"
Consumed(k, down) ==
  [k EXCEPT !.wake.down = down,
            !.wake.gesture = @ \/ AfterResume(k)]

(* WakeGuard::poll reaches finish when the key is up and the window quiet. *)
QuietDue(k) == k.wake.guard = "resumed" /\ ~k.wake.down

(* WakeGuard::cancel with the tracker, as CancelWakeGuard and Grab do.     *)
Cleared(k) == KeyIdle
=============================================================================
