-------------------------- MODULE StateCompatibility --------------------------
(***************************************************************************)
(* The conversion of the v1 composite state into the v2 supervisor state   *)
(* (remagic-core, state/compatibility.rs), against the conversion back     *)
(* (LegacyDomains of SupervisorState).  remagicd keeps the v1 state and    *)
(* answers v2 clients with the converted one.                              *)
(***************************************************************************)
EXTENDS SupervisorState

-----------------------------------------------------------------------------
(* impl From<ManagerState> for SupervisorState, for the legacy domain d.   *)
V2Domain(d) ==
  CASE d.at = "System" -> "Stock"
    [] d.at = "EnteringManaged" -> "EnteringManaged"
    [] d.at = "RestoringSystem" -> "LeavingManaged"
    [] d.at = "Recovering" -> "Recovering"
    [] OTHER -> "Managed"

V2State ==
  [Launching |-> "Starting", Foreground |-> "Foreground",
   Parking |-> "Stopping"]

V2Known(d) == IF d.at \in DOMAIN V2State THEN {d.app} ELSE {}
OnScreen(d) == d.at = "Foreground"

V2(d) ==
  INSTANCE SupervisorState WITH
    domain        <- V2Domain(d),
    sleeping      <- d.at = "Sleeping",
    foregroundApp <- IF OnScreen(d) THEN d.app ELSE NoApp,
    known         <- V2Known(d),
    state         <- [a \in App |-> IF a \in V2Known(d) THEN V2State[d.at]
                                                        ELSE "Exited"],
    generation    <- [a \in App |-> IF a \in V2Known(d) THEN 1 ELSE 0],
    epoch         <- [a \in App |-> IF OnScreen(d) /\ a = d.app THEN 1
                                                                ELSE 0],
    lease         <- [a \in App |-> IF OnScreen(d) /\ a = d.app THEN 1
                                                                ELSE NoLease]

-----------------------------------------------------------------------------
(* A snapshot that goes through the v1 form and back still says which      *)
(* domain owns the device, whether it sleeps and which application holds   *)
(* the screen, is accepted by validate(), and converts to the same v1 form *)
(* again: neither direction can invent or lose a screen owner.             *)
ConversionsAgree ==
  \A d \in LegacyDomains :
    /\ V2Domain(d) = domain
    /\ (d.at = "Sleeping") = sleeping
    /\ (IF OnScreen(d) THEN d.app ELSE NoApp) = foregroundApp
    /\ V2(d)!Valid
    /\ V2(d)!LegacyDomains = {d}
=============================================================================
