--------------------------- MODULE SupervisorState ---------------------------
(***************************************************************************)
(* The v2 supervisor state of remagic-core (state/model.rs, transitions.rs *)
(* and lifecycle.rs): the stock/managed domain, one record per application *)
(* and the identity fence (generation, foreground epoch, display lease)    *)
(* that every lifecycle, display and input message carries.                *)
(*                                                                         *)
(* Each public method is one action.  A method that returns an error       *)
(* changes nothing, so a rejected call is a stuttering step and only the   *)
(* accepting case appears here.  Titles, pids and error texts are left     *)
(* out.                                                                    *)
(***************************************************************************)
EXTENDS Integers

CONSTANTS
  App,          (* application ids                                         *)
  NoApp,        (* Option::None of an application id                       *)
  NoLease,      (* Option::None of a lease id                              *)
  Generations,  (* generations callers may pass to start_app               *)
  Epochs,       (* foreground epochs callers may pass                      *)
  Leases,       (* lease ids callers may pass                              *)
  MaxRevision   (* u64::MAX: the last value of the state revision          *)

ASSUME NumbersAssumption ==
  /\ Generations \subseteq Nat
  /\ Epochs \subseteq Nat
  /\ Leases \subseteq Nat
  /\ MaxRevision \in Nat

ASSUME NoneAssumption ==
  /\ NoApp \notin App
  /\ NoLease \notin Nat

VARIABLES
  domain,         (* SystemDomainState                                     *)
  sleeping,
  foregroundApp,
  lastApp,
  known,          (* the keys of the `apps` map; an entry is never removed *)
  state,          (* AppInstance.state, for the known applications         *)
  generation,     (* AppToken.generation                                   *)
  epoch,          (* AppToken.foreground_epoch                             *)
  lease,          (* AppToken.lease_id                                     *)
  revision        (* state_revision                                        *)

systemVars == <<domain, sleeping>>
tokenVars  == <<generation, epoch, lease>>
vars == <<domain, sleeping, foregroundApp, lastApp, known, state,
          generation, epoch, lease, revision>>

Domains  == {"Stock", "EnteringManaged", "Managed", "LeavingManaged",
             "Recovering"}
Terminal == {"Exited", "Crashed"}
Live     == {"Starting", "Foreground", "Background", "Stopping",
             "Unresponsive"}

-----------------------------------------------------------------------------
Init ==
  /\ domain = "Stock"
  /\ sleeping = FALSE
  /\ foregroundApp = NoApp
  /\ lastApp = NoApp
  /\ known = {}
  /\ state = [a \in App |-> "Exited"]
  /\ generation = [a \in App |-> 0]
  /\ epoch = [a \in App |-> 0]
  /\ lease = [a \in App |-> NoLease]
  /\ revision = 0

(* ensure_revision_capacity on entry, bump_revision on success: at the     *)
(* last revision every method returns RevisionOverflow and changes nothing.*)
BumpRevision ==
  /\ revision < MaxRevision
  /\ revision' = revision + 1

(* current_instance_mut: only the current generation of a known            *)
(* application may be changed.                                             *)
Current(a, g) ==
  /\ a \in known
  /\ generation[a] = g

ActiveManaged == domain = "Managed" /\ ~sleeping

(* A foreground epoch is new for the instance that is granted it.          *)
NonZeroEpoch(a, e) == e # 0
NewEpoch(a, e) == e # 0 /\ e > epoch[a]

(* The states grant_foreground accepts: no stopping process comes back.    *)
Grantable == {"Starting", "Background"}

(* if self.foreground_app == Some(app) then self.foreground_app = None     *)
KeepForeground(a) == UNCHANGED foregroundApp
DropForeground(a) ==
  foregroundApp' = IF foregroundApp = a THEN NoApp ELSE foregroundApp

-----------------------------------------------------------------------------
DomainEdges ==
  {<<"Stock", "EnteringManaged">>, <<"EnteringManaged", "Managed">>,
   <<"Managed", "LeavingManaged">>, <<"LeavingManaged", "Stock">>,
   <<"Recovering", "Stock">>}
    \union {<<d, "Recovering">> : d \in Domains \ {"Recovering"}}

(* Leaving the managed domain revokes every lease and turns the foreground *)
(* application into one that is being stopped.                             *)
TransitionDomain(next) ==
  /\ BumpRevision
  /\ <<domain, next>> \in DomainEdges
  /\ next = "Stock" => \A a \in known : state[a] \in Terminal
  /\ domain' = next
  /\ IF next = "Managed"
     THEN UNCHANGED <<sleeping, foregroundApp, state, lease>>
     ELSE /\ sleeping' = FALSE
          /\ foregroundApp' = NoApp
          /\ lease' = [a \in App |-> NoLease]
          /\ state' = [a \in App |-> IF a \in known /\ state[a] = "Foreground"
                                     THEN "Stopping" ELSE state[a]]
  /\ UNCHANGED <<lastApp, known, generation, epoch>>

SetSleeping(value) ==
  /\ BumpRevision
  /\ domain = "Managed"
  /\ value => foregroundApp = NoApp
  /\ sleeping' = value
  /\ UNCHANGED <<domain, foregroundApp, lastApp, known, state, generation,
                 epoch, lease>>

-----------------------------------------------------------------------------
StartApp(a, g) ==
  /\ BumpRevision
  /\ ActiveManaged
  /\ g # 0
  /\ a \in known => g > generation[a] /\ state[a] \in Terminal
  /\ known' = known \union {a}
  /\ state' = [state EXCEPT ![a] = "Starting"]
  /\ generation' = [generation EXCEPT ![a] = g]
  /\ epoch' = [epoch EXCEPT ![a] = 0]
  /\ lease' = [lease EXCEPT ![a] = NoLease]
  /\ UNCHANGED <<domain, sleeping, foregroundApp, lastApp>>

GrantForeground(a, g, e, l) ==
  /\ BumpRevision
  /\ ActiveManaged
  /\ foregroundApp = NoApp
  /\ Current(a, g)
  /\ state[a] \in Grantable
  /\ NewEpoch(a, e)
  /\ l # 0
  /\ state' = [state EXCEPT ![a] = "Foreground"]
  /\ epoch' = [epoch EXCEPT ![a] = e]
  /\ lease' = [lease EXCEPT ![a] = l]
  /\ foregroundApp' = a
  /\ lastApp' = a
  /\ UNCHANGED <<domain, sleeping, known, generation>>

MarkBackgroundReady(a, g) ==
  /\ BumpRevision
  /\ Current(a, g)
  /\ state[a] = "Starting"
  /\ state' = [state EXCEPT ![a] = "Background"]
  /\ UNCHANGED <<domain, sleeping, foregroundApp, lastApp, known, generation,
                 epoch, lease>>

EnterBackground(a, g, e) ==
  /\ BumpRevision
  /\ Current(a, g)
  /\ state[a] = "Foreground"
  /\ epoch[a] = e
  /\ state' = [state EXCEPT ![a] = "Background"]
  /\ lease' = [lease EXCEPT ![a] = NoLease]
  /\ foregroundApp' = NoApp
  /\ lastApp' = a
  /\ UNCHANGED <<domain, sleeping, known, generation, epoch>>

(* The shared tail of begin_stop, finish_app and mark_unresponsive.        *)
LeaveScreen(a, next) ==
  /\ state' = [state EXCEPT ![a] = next]
  /\ lease' = [lease EXCEPT ![a] = NoLease]
  /\ DropForeground(a)
  /\ UNCHANGED <<domain, sleeping, lastApp, known, generation, epoch>>

BeginStop(a, g) ==
  /\ BumpRevision
  /\ Current(a, g)
  /\ state[a] \notin Terminal \union {"Stopping"}
  /\ LeaveScreen(a, "Stopping")

FinishApp(a, g, end) ==
  /\ BumpRevision
  /\ Current(a, g)
  /\ state[a] \notin Terminal
  /\ LeaveScreen(a, end)

MarkUnresponsive(a, g) ==
  /\ BumpRevision
  /\ Current(a, g)
  /\ state[a] \notin Terminal \union {"Unresponsive"}
  /\ LeaveScreen(a, "Unresponsive")

-----------------------------------------------------------------------------
AppStep(a, g) ==
  \/ StartApp(a, g)
  \/ MarkBackgroundReady(a, g)
  \/ BeginStop(a, g)
  \/ \E end \in Terminal : FinishApp(a, g, end)
  \/ MarkUnresponsive(a, g)
  \/ \E e \in Epochs : EnterBackground(a, g, e)
  \/ \E e \in Epochs, l \in Leases : GrantForeground(a, g, e, l)

Next ==
  \/ \E next \in Domains : TransitionDomain(next)
  \/ \E value \in BOOLEAN : SetSleeping(value)
  \/ \E a \in App, g \in Generations : AppStep(a, g)

Spec == Init /\ [][Next]_vars

-----------------------------------------------------------------------------
V1(d, a) == [at |-> d, app |-> a]

(* impl From<&SupervisorState> for ManagerState.  Of several starting or   *)
(* stopping applications the code takes the first key of its map; which    *)
(* one that is depends on the names, so any of them may be it.             *)
PlainDomain ==
  [Stock |-> "System", EnteringManaged |-> "EnteringManaged",
   LeavingManaged |-> "RestoringSystem", Recovering |-> "Recovering"]

AppDomain ==
  [Starting |-> "Launching", Foreground |-> "Foreground",
   Stopping |-> "Parking"]

InTransition == {a \in known : state[a] \in {"Starting", "Stopping"}}

(* As the code would be without the check of the foreground pointer first. *)
ActiveAnyOrder ==
  {a \in known : state[a] \in DOMAIN AppDomain}
ActiveApps ==
  IF foregroundApp \in known THEN {foregroundApp} ELSE InTransition

LegacyDomains ==
  IF domain # "Managed" THEN {V1(PlainDomain[domain], NoApp)}
  ELSE IF sleeping THEN {V1("Sleeping", NoApp)}
  ELSE IF ActiveApps = {} THEN {V1("Manager", NoApp)}
  ELSE {V1(AppDomain[state[a]], a) : a \in ActiveApps}

-----------------------------------------------------------------------------
TypeOK ==
  /\ domain \in Domains
  /\ sleeping \in BOOLEAN
  /\ foregroundApp \in App \union {NoApp}
  /\ lastApp \in App \union {NoApp}
  /\ known \subseteq App
  /\ state \in [App -> Live \union Terminal]
  /\ generation \in [App -> Nat]
  /\ epoch \in [App -> Nat]
  /\ lease \in [App -> Nat \union {NoLease}]
  /\ revision \in 0..MaxRevision

(* AppInstance::validate                                                   *)
ValidInstance(a) ==
  /\ generation[a] # 0
  /\ lease[a] # 0
  /\ state[a] = "Foreground" <=> lease[a] # NoLease

OneForeground ==
  \A a \in known : state[a] = "Foreground" <=> foregroundApp = a

UniqueLeases ==
  \A a, b \in known : lease[a] = lease[b] /\ lease[a] # NoLease => a = b

(* SupervisorState::validate accepts every state the operations can reach: *)
(* exactly the foreground application holds a lease, nothing is foreground *)
(* asleep or outside the managed domain, and the stock domain runs nothing.*)
(* The code calls validate on snapshots it receives; no operation calls it *)
(* on its own result.                                                      *)
Valid ==
  /\ sleeping => domain = "Managed"
  /\ \A a \in known : ValidInstance(a)
  /\ foregroundApp \in known \union {NoApp}
  /\ OneForeground
  /\ UniqueLeases
  /\ sleeping \/ domain # "Managed" => foregroundApp = NoApp
  /\ domain = "Stock" => \A a \in known : state[a] \in Terminal

(* What an application that is not in the map looks like: the strengthening*)
(* of Valid that makes it inductive.                                       *)
UnknownBlank ==
  \A a \in App \ known :
    lease[a] = NoLease /\ state[a] = "Exited" /\ generation[a] = 0

IInv == TypeOK /\ Valid /\ UnknownBlank

(* "Generation prevents an old process from impersonating its replacement; *)
(* epoch/lease fence stale foreground work" (model.rs): the pair of        *)
(* generation and epoch of an application never goes back, and a lease is  *)
(* only ever granted under a pair above every one that application had.    *)
FenceAbove(a) ==
  \/ generation'[a] > generation[a]
  \/ generation'[a] = generation[a] /\ epoch'[a] > epoch[a]

FencesRise ==
  [][\A a \in App :
       /\ FenceAbove(a) \/ UNCHANGED <<generation[a], epoch[a]>>
       /\ lease[a] # lease'[a] /\ lease'[a] # NoLease => FenceAbove(a)]_vars

(* An instance that was told to stop, was given up on or has ended is never*)
(* put back on the screen: only a new generation may be.                   *)
Ending == Terminal \union {"Stopping", "Unresponsive"}
EndingIsFinal ==
  [][\A a \in known :
       state[a] \in Ending /\ generation'[a] = generation[a]
         => state'[a] \in Ending]_vars
=============================================================================
