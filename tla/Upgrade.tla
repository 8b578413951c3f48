------------------------------ MODULE Upgrade -------------------------------
(***************************************************************************)
(* One application's package, data and writers: the package requests of    *)
(* remagicd (daemon/packages.rs), its launches (daemon/launch.rs), the     *)
(* runner that migrates the data before the application exists and the     *)
(* background service that writes the same paths.  Package requests hold   *)
(* the package lock, launches and closes the transition lock, so a launch  *)
(* may fall anywhere between the close and the reload of a request, and a  *)
(* reload, which takes neither lock, anywhere in a launch.                 *)
(*                                                                         *)
(* loaded is the daemon's copy of the manifest; the runner reads the file  *)
(* again.  Fenced says how the background service is declared: a systemd   *)
(* unit checks the schema fence and the journal before it starts; a        *)
(* managed service is started by systemd-run without either.               *)
(***************************************************************************)
EXTENDS PackageStore, DataSchema

CONSTANTS
  SchemaOf,     (* Content -> the schema version of its manifest           *)
  Fenced,
  MaxRequests,  (* bound on package requests                               *)
  MaxLaunches,
  MaxReloads,   (* bound on reloads on behalf of others                    *)
  MaxFaults     (* bound on failing steps, crashes and losses of power     *)

ASSUME UpgradeAssumption ==
  /\ SchemaOf \in [Content -> Versions] /\ Fenced \in BOOLEAN
  /\ {MaxRequests, MaxLaunches, MaxReloads, MaxFaults} \subseteq Nat

VARIABLES
  loaded,  (* the daemon's copy of the application's manifest             *)
  launch,  (* the launch in progress: its step and the manifest it read   *)
  agent,   (* the version of the running background service, 0: none      *)
  left,    (* what may still happen                                       *)
  raced    (* history: a reload has started the service beside a launch   *)
           (* whose data were not settled.  No guard reads it.            *)

vars == <<packageVars, schemaVars, loaded, launch, agent, left, raced>>

NoLaunch == [at |-> "idle", content |-> None]

Init ==
  /\ StoreInit /\ SchemaInit
  /\ loaded = None /\ launch = NoLaunch /\ agent = 0
  /\ left = [request |-> MaxRequests, launch |-> MaxLaunches,
             reload |-> MaxReloads, fault |-> MaxFaults]
  /\ raced = FALSE

Spend(what) ==
  left[what] > 0 /\ left' = [left EXCEPT ![what] = @ - 1]

DaemonUp == pkg.kind # "boot"

(* ensure_background_service of the manifest of c; UncheckedAgent is a     *)
(* unit without its two conditions.                                        *)
UncheckedAgent(c) ==
  IF c = None THEN agent
  ELSE IF agent # 0 THEN agent ELSE SchemaOf[c]
AgentOf(c) ==
  IF c = None THEN agent
  ELSE IF agent # 0 THEN agent
  ELSE IF Fenced => MayStart(SchemaOf[c]) THEN SchemaOf[c] ELSE 0

-----------------------------------------------------------------------------
(* install_bundle_reply (and upgrade), rollback and uninstall              *)
Ask(kind, c) ==
  /\ pkg = NoRequest /\ Spend("request")
  /\ kind # "install" => loaded # None
  /\ pkg' = [at |-> IF kind = "install" THEN "recover" ELSE "close",
             kind |-> kind, target |-> c]
  /\ UNCHANGED <<storeVars, schemaVars, loaded, launch, agent, raced>>

(* close(id, true) waits for the transition lock; install closes only an   *)
(* application the daemon knows.                                           *)
Close ==
  /\ At("close") /\ launch = NoLaunch
  /\ IF pkg.kind = "install" /\ loaded = None
     THEN UNCHANGED <<runner, agent>>
     ELSE runner' = RunnerOff /\ agent' = 0
  /\ Go(IF pkg.kind = "install" THEN "begin" ELSE "recover")
  /\ UNCHANGED <<storeVars, diskVars, phases, saved, loaded, launch, left,
                 raced>>

(* The runner of the launch has reported that its data are settled.        *)
BackgroundRestoreIsSafe == "complete" \in phases
Unsettled ==
  launch # NoLaunch /\ ~(launch.at = "wait" /\ BackgroundRestoreIsSafe)

(* reload_manifests takes no lock and starts what the manifests declare, a *)
(* launch between its stop of the service and its migration or not.        *)
ReadManifests ==
  /\ loaded' = manifest /\ agent' = AgentOf(manifest)
  /\ raced' = (raced \/ (Unsettled /\ agent = 0 /\ agent' # 0))

Reload ==
  /\ At("reload") /\ ReadManifests
  /\ Ends
  /\ UNCHANGED <<storeVars, schemaVars, launch, left>>

OtherReload ==
  /\ pkg = NoRequest /\ Spend("reload") /\ ReadManifests
  /\ UNCHANGED <<packageVars, schemaVars, launch>>

(* create_daemon and initialize_system: the journals are recovered, the    *)
(* manifests read, every application unit stopped.                         *)
Boot ==
  /\ At("load")
  /\ loaded' = manifest /\ agent' = AgentOf(manifest)
  /\ runner' = RunnerOff /\ launch' = NoLaunch
  /\ Ends
  /\ UNCHANGED <<storeVars, diskVars, phases, saved, left, raced>>

Package ==
  /\ PackageStep
  /\ UNCHANGED <<schemaVars, loaded, launch, agent, left, raced>>

PackageFault ==
  /\ PackageFails \/ JournalFails
  /\ Spend("fault")
  /\ UNCHANGED <<schemaVars, loaded, launch, agent, raced>>

-----------------------------------------------------------------------------
(* prepare_launch of a cold application stops the background service.      *)
PrepareLaunch ==
  /\ DaemonUp /\ launch = NoLaunch /\ Spend("launch")
  /\ loaded # None /\ Present(loaded) /\ RunnerAt("off")
  /\ launch' = [at |-> "start", content |-> loaded]
  /\ agent' = 0
  /\ UNCHANGED <<packageVars, schemaVars, loaded, raced>>

StartRunner ==
  /\ launch.at = "start"
  /\ phases' = {}
  /\ runner' = [RunnerOff EXCEPT !.at = "load"]
  /\ launch' = [launch EXCEPT !.at = "wait"]
  /\ UNCHANGED <<packageVars, diskVars, saved, loaded, agent, left, raced>>

(* load_manifest and prepare_execution                                     *)
LoadManifest ==
  /\ RunnerAt("load")
  /\ runner' = IF manifest = None THEN RunnerOff
               ELSE IF ~Present(manifest) THEN RunnerOff
               ELSE [runner EXCEPT !.at = "recover",
                                   !.version = SchemaOf[manifest]]
  /\ UNCHANGED <<packageVars, diskVars, phases, saved, loaded, launch,
                 agent, left, raced>>

Runner ==
  /\ Recover \/ Apply
  /\ UNCHANGED <<packageVars, loaded, launch, agent, left, raced>>

RunnerFault ==
  /\ MigratorFails \/ (~RunnerAt("up") /\ RunnerStops)
  /\ Spend("fault")
  /\ UNCHANGED <<packageVars, loaded, launch, agent, raced>>

(* wait_for_application succeeded: the background service starts again.    *)
LaunchEnds ==
  /\ launch.at = "wait" /\ RunnerAt("up") /\ phases = {"prepared", "complete"}
  /\ launch' = NoLaunch /\ agent' = AgentOf(launch.content)
  /\ UNCHANGED <<packageVars, schemaVars, loaded, left, raced>>

(* rollback_launch: the unit is stopped, whatever it was doing; the        *)
(* service comes back only when the migration provably completed.          *)
LaunchFails ==
  /\ launch.at # "idle"
  /\ IF launch.at = "wait" /\ RunnerAt("off")
     THEN UNCHANGED left ELSE Spend("fault")
  /\ launch' = NoLaunch /\ runner' = RunnerOff
  /\ agent' = IF BackgroundRestoreIsSafe THEN AgentOf(launch.content)
              ELSE agent
  /\ UNCHANGED <<packageVars, diskVars, phases, saved, loaded, raced>>

AppExits ==
  /\ RunnerAt("up") /\ launch = NoLaunch
  /\ RunnerStops
  /\ UNCHANGED <<packageVars, loaded, launch, agent, left, raced>>

AppWrites ==
  /\ RunnerAt("up")
  /\ \E s \in Source : Writes(s, runner.version)
  /\ UNCHANGED <<packageVars, loaded, launch, agent, left, raced>>

AgentWrites ==
  /\ agent # 0
  /\ \E s \in Source : Writes(s, agent)
  /\ UNCHANGED <<packageVars, loaded, launch, agent, left, raced>>

-----------------------------------------------------------------------------
(* remagicd dies: the units live on until its successor stops them.        *)
DaemonCrashes ==
  /\ Spend("fault")
  /\ PackageCrash
  /\ launch' = NoLaunch /\ loaded' = None
  /\ UNCHANGED <<schemaVars, agent, raced>>

PowerFails ==
  /\ Spend("fault")
  /\ PackageCrash
  /\ launch' = NoLaunch /\ loaded' = None
  /\ runner' = RunnerOff /\ phases' = {} /\ agent' = 0
  /\ UNCHANGED <<diskVars, saved, raced>>

Next ==
  \/ \E c \in Content : Ask("install", c)
  \/ Ask("rollback", None) \/ Ask("uninstall", None)
  \/ Close \/ Reload \/ OtherReload \/ Boot
  \/ Package \/ PackageFault
  \/ PrepareLaunch \/ StartRunner \/ LoadManifest \/ Runner \/ RunnerFault
  \/ LaunchEnds \/ LaunchFails \/ AppExits \/ AppWrites \/ AgentWrites
  \/ DaemonCrashes \/ PowerFails

Spec == Init /\ [][Next]_vars

-----------------------------------------------------------------------------
TypeOK ==
  /\ PackageTypeOK /\ SchemaTypeOK
  /\ loaded \in OrNone /\ launch.content \in OrNone
  /\ agent \in 0 .. MaxVersion

(* The next four are promised until a reload has started the service after *)
(* a launch stopped it and before the launch's runner reported its data    *)
(* settled: such a service writes what is being migrated, and no code      *)
(* stops it (raced).  All else overlaps: a launch any step of a package    *)
(* request, and a reload any step of a launch, as long as it starts nothing*)
(* in between.                                                             *)

(* An application that reached its own code finds its data at the version  *)
(* of the manifest it was started from, and its background service, which  *)
(* writes the same paths, does too whenever it runs.                       *)
WritersAgree ==
  \/ raced
  \/ /\ RunnerAt("up") => IntactAt(data, runner.version)
     /\ agent # 0 => IntactAt(data, agent)

(* The background service is never up while a migration of its data, or    *)
(* the recovery of one, is unresolved (data_schema.rs:145 and the comment  *)
(* of prepare_launch).                                                     *)
WriterKeptOut == raced \/ (agent # 0 => ~Unresolved)

(* However a migration, its failure or its recovery is interrupted, what   *)
(* the writers saved is not lost.                                          *)
NothingIsLost == raced \/ DataIsSafe

(* Whoever the schema fence and the journal let in finds the data at its   *)
(* version (data_schema.rs: "can never let an older agent write while      *)
(* migration or recovery is unresolved").                                  *)
FenceMeansSettled == raced \/ FenceIsTrue
=============================================================================
