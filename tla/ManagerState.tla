---------------------------- MODULE ManagerState ----------------------------
(***************************************************************************)
(* The v1 composite state of remagic-core (state/transitions.rs,           *)
(* ManagerState::apply): which part of the device owns the screen, and the *)
(* last application that did.  It is the state remagicd acts on; the       *)
(* modules of the daemon extend this one.  The wrapping sequence number,   *)
(* which only labels status replies, is left out.                          *)
(***************************************************************************)
CONSTANTS
  App,     (* application ids                                              *)
  NoApp    (* Option::None of an application id                            *)

ASSUME NoAppAssumption == NoApp \notin App

VARIABLES
  domain,  (* DomainState: the domain and the application it names         *)
  lastApp

managerVars == <<domain, lastApp>>

AppDomains   == {"Launching", "Foreground", "Parking"}
PlainDomains == {"System", "EnteringManaged", "Manager", "RestoringSystem",
                 "Sleeping", "Recovering"}

In(d)    == [at |-> d, app |-> NoApp]
On(d, a) == [at |-> d, app |-> a]

DomainStates == {In(d) : d \in PlainDomains}
                  \union {On(d, a) : d \in AppDomains, a \in App}

ManagerTypeOK ==
  /\ domain \in DomainStates
  /\ lastApp \in App \union {NoApp}

ManagerInit ==
  /\ domain = In("System")
  /\ lastApp = NoApp

-----------------------------------------------------------------------------
(* Edges that name no application.                                         *)
PlainEdges ==
  { <<"System", "TriplePower", "EnteringManaged">>,
    <<"EnteringManaged", "ManagedReady", "Manager">>,
    <<"Manager", "TriplePower", "RestoringSystem">>,
    <<"Manager", "Sleep", "Sleeping">>,
    <<"Sleeping", "Wake", "Manager">>,
    <<"RestoringSystem", "SystemReady", "System">>,
    <<"Recovering", "SystemReady", "System">> }

(* Edges taken only for the application the domain already names.          *)
AppEdges ==
  { <<"Launching", "AppReady", "Foreground">>,
    <<"Parking", "AppParked", "Manager">>,
    <<"Parking", "AppRestored", "Foreground">> }
    \union {<<d, t, "Manager">> : d \in AppDomains,
                                  t \in {"AppExited", "AppCrashed"}}

(* The guard `if expected == &actual` of their match arms.                 *)
SameApp(d, a) == d.app = a

(* apply(transition) accepts: next is the state it moves to.  For          *)
(* transitions without an application argument a is NoApp.                 *)
Accepts(t, a, next) ==
  \/ /\ <<domain.at, t, next.at>> \in PlainEdges
     /\ next.app = NoApp
  \/ /\ domain.at = "Manager" /\ t = "Launch"
     /\ next = On("Launching", a)
  \/ /\ domain.at = "Manager" /\ t = "SinglePower"
     /\ lastApp # NoApp
     /\ next = On("Launching", lastApp)
  \/ /\ domain.at = "Foreground" /\ t \in {"SinglePower", "TriplePower"}
     /\ next = On("Parking", domain.app)
  \/ /\ <<domain.at, t, next.at>> \in AppEdges
     /\ SameApp(domain, a)
     /\ next.app = IF next.at \in AppDomains THEN a ELSE NoApp
  \/ /\ t = "Failure"
     /\ next = In("Recovering")

(* Entering Foreground or Parking remembers the application.               *)
Remember(next) ==
  lastApp' = IF next.at \in {"Foreground", "Parking"} THEN next.app
                                                      ELSE lastApp

(* ManagerState::apply, when it returns Ok.                                *)
Apply(t, a) ==
  \E next \in DomainStates :
    /\ Accepts(t, a, next)
    /\ domain' = next
    /\ Remember(next)
=============================================================================
