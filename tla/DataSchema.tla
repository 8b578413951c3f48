----------------------------- MODULE DataSchema -----------------------------
(***************************************************************************)
(* The transaction in which an application's runner brings its data to the *)
(* schema version of its manifest (remagic-runner: data_schema.rs and its  *)
(* modules), before the application exists.  An action is one durable file *)
(* operation, so the runner may be killed, or the power fail, between any  *)
(* two.                                                                    *)
(*                                                                         *)
(* data[s] is one declared backup path: intact at a version, mixed while   *)
(* the migrator rewrites it, or gone between the two renames that put a    *)
(* restored copy in place.  Version 0 is data no schema was applied to.    *)
(* rev counts the writes of the application and its background agent;      *)
(* saved is what they were told is stored.                                 *)
(***************************************************************************)
EXTENDS Naturals, FiniteSets

CONSTANTS
  Source,     (* the declared backup paths                                *)
  MaxVersion, (* the newest schema version                                *)
  MaxRev      (* bound on the writes to one path                          *)

ASSUME SchemaAssumption == MaxVersion \in Nat /\ MaxRev \in Nat

VARIABLES
  data,     (* Source -> its state, version and revision                  *)
  applied,  (* state.json: the version and the backup it names            *)
  ready,    (* schema-ready: the version in the writers' fence, 0: none   *)
  pending,  (* pending.json: the versions of the transaction, to = 0: none*)
  snaps,    (* the published snapshots                                    *)
  runner,   (* the runner's step, version and sources still to do         *)
  phases,   (* the markers of this launch: prepared, complete             *)
  saved

diskVars == <<data, applied, ready, pending, snaps>>
schemaVars == <<diskVars, runner, phases, saved>>

Versions == 1 .. MaxVersion
Intact(v, r) == [is |-> "intact", ver |-> v, rev |-> r]
Mixed(d) == [d EXCEPT !.is = "mixed"]
Gone(d) == [d EXCEPT !.is = "gone"]

Names == {n \in [from : 0 .. MaxVersion, to : Versions] : n.from < n.to}
NoMigration == [from |-> 0, to |-> 0]
NoSnapshot == [s \in Source |-> Gone(Intact(0, 0))]
Fresh == [s \in Source |-> Intact(0, 0)]

RunnerOff ==
  [at |-> "off", version |-> 0, todo |-> {}, copy |-> NoSnapshot,
   name |-> NoMigration, failing |-> FALSE]

SchemaInit ==
  /\ data = Fresh /\ saved = [s \in Source |-> 0]
  /\ applied = NoMigration /\ ready = 0 /\ pending = NoMigration
  /\ snaps = [n \in Names |-> NoSnapshot]
  /\ runner = RunnerOff /\ phases = {}

RunnerAt(step) == runner.at = step
RunnerGo(step) == runner' = [runner EXCEPT !.at = step]
RunnerDo(step, sources) ==
  runner' = [runner EXCEPT !.at = step, !.todo = sources]
Done(s) == runner' = [runner EXCEPT !.todo = @ \ {s}]

Exists(n) == snaps[n] # NoSnapshot
Here == [from |-> applied.to, to |-> runner.version]

(* recover_pending: the transaction reached its version record.            *)
Committed == pending # NoMigration /\ applied = pending

-----------------------------------------------------------------------------
(* recover_pending                                                         *)
SourceIsCurrent == applied.to = pending.from

SettlePending ==
  /\ RunnerAt("recover")
  /\ \/ /\ pending = NoMigration
        /\ RunnerGo("decide")
     \/ /\ pending # NoMigration /\ Exists(pending) /\ Committed
        /\ RunnerGo("committed ready")
     \/ /\ pending # NoMigration /\ Exists(pending) /\ ~Committed
        /\ SourceIsCurrent
        /\ RunnerDo("restore", Source)
     \/ /\ pending # NoMigration
        /\ ~Exists(pending) \/ (~Committed /\ ~SourceIsCurrent)
        /\ runner' = RunnerOff
  /\ UNCHANGED <<diskVars, phases, saved>>

CommittedReady ==
  /\ RunnerAt("committed ready")
  /\ ready' = pending.to
  /\ RunnerGo("committed clear")
  /\ UNCHANGED <<data, applied, pending, snaps, phases, saved>>

CommittedClear ==
  /\ RunnerAt("committed clear")
  /\ pending' = NoMigration
  /\ RunnerGo("decide")
  /\ UNCHANGED <<data, applied, ready, snaps, phases, saved>>

(* restore_source: the verified copy replaces the path by two renames; a   *)
(* restore that was interrupted between them finds no current path.        *)
RestoreOut(s) ==
  /\ RunnerAt("restore") /\ s \in runner.todo /\ data[s].is # "gone"
  /\ data' = [data EXCEPT ![s] = Gone(@)]
  /\ UNCHANGED <<applied, ready, pending, snaps, runner, phases, saved>>

RestoreIn(s) ==
  /\ RunnerAt("restore") /\ s \in runner.todo /\ data[s].is = "gone"
  /\ data' = [data EXCEPT ![s] = snaps[pending][s]]
  /\ Done(s)
  /\ UNCHANGED <<applied, ready, pending, snaps, phases, saved>>

(* After a restore, in a recovery and after a failed migrator alike: the   *)
(* source version's fence, the journal, then the snapshot.                 *)
(* TargetReady opens the fence to the version that was not reached.        *)
TargetReady ==
  /\ RunnerAt("restore") /\ runner.todo = {}
  /\ ready' = pending.to
  /\ RunnerGo("restored clear")
  /\ UNCHANGED <<data, applied, pending, snaps, phases, saved>>
RestoredReady ==
  /\ RunnerAt("restore") /\ runner.todo = {}
  /\ ready' = pending.from
  /\ RunnerGo("restored clear")
  /\ UNCHANGED <<data, applied, pending, snaps, phases, saved>>

RestoredClear ==
  /\ RunnerAt("restored clear")
  /\ runner' = [runner EXCEPT !.at = "retire", !.name = pending]
  /\ pending' = NoMigration
  /\ UNCHANGED <<data, applied, ready, snaps, phases, saved>>

Retire ==
  /\ RunnerAt("retire")
  /\ snaps' = [snaps EXCEPT ![runner.name] = NoSnapshot]
  /\ runner' = IF runner.failing THEN RunnerOff
               ELSE [runner EXCEPT !.at = "decide"]
  /\ UNCHANGED <<data, applied, ready, pending, phases, saved>>

Recover ==
  \/ SettlePending \/ CommittedReady \/ CommittedClear
  \/ \E s \in Source : RestoreOut(s) \/ RestoreIn(s)
  \/ RestoredReady \/ RestoredClear \/ Retire

-----------------------------------------------------------------------------
(* apply_at_with_phases, once nothing is pending; a newer schema is refused*)
(* (OpenNewer opens it).                                                   *)
OpenNewer ==
  /\ RunnerAt("decide")
  /\ \/ applied.to >= runner.version /\ RunnerGo("same ready")
     \/ applied.to < runner.version /\ RunnerDo("snapshot", Source)
  /\ UNCHANGED <<diskVars, phases, saved>>
Decide ==
  /\ RunnerAt("decide")
  /\ \/ applied.to = runner.version /\ RunnerGo("same ready")
     \/ applied.to > runner.version /\ runner' = RunnerOff
     \/ applied.to < runner.version /\ RunnerDo("snapshot", Source)
  /\ UNCHANGED <<diskVars, phases, saved>>

SameReady ==
  /\ RunnerAt("same ready")
  /\ ready' = runner.version
  /\ RunnerGo("same prepared")
  /\ UNCHANGED <<data, applied, pending, snaps, phases, saved>>

SamePrepared ==
  /\ RunnerAt("same prepared")
  /\ phases' = phases \cup {"prepared"}
  /\ RunnerGo("complete")
  /\ UNCHANGED <<diskVars, saved>>

(* BackupStore::snapshot: a transaction of that name nobody journaled is   *)
(* retired first; the copy is published under it by one rename.            *)
RetireOrphan ==
  /\ RunnerAt("snapshot") /\ Exists(Here)
  /\ snaps' = [snaps EXCEPT ![Here] = NoSnapshot]
  /\ UNCHANGED <<data, applied, ready, pending, runner, phases, saved>>

Capture(s) ==
  /\ RunnerAt("snapshot") /\ ~Exists(Here) /\ s \in runner.todo
  /\ runner' = [runner EXCEPT !.copy[s] = data[s], !.todo = @ \ {s}]
  /\ UNCHANGED <<diskVars, phases, saved>>

PublishSnapshot ==
  /\ RunnerAt("snapshot") /\ ~Exists(Here) /\ runner.todo = {}
  /\ snaps' = [snaps EXCEPT ![Here] = runner.copy]
  /\ RunnerGo("clear ready")
  /\ UNCHANGED <<data, applied, ready, pending, phases, saved>>

ClearReady ==
  /\ RunnerAt("clear ready")
  /\ ready' = 0
  /\ RunnerGo("publish pending")
  /\ UNCHANGED <<data, applied, pending, snaps, phases, saved>>

PublishPending ==
  /\ RunnerAt("publish pending")
  /\ pending' = Here
  /\ RunnerGo("prepared")
  /\ UNCHANGED <<data, applied, ready, snaps, phases, saved>>

Prepared ==
  /\ RunnerAt("prepared")
  /\ phases' = phases \cup {"prepared"}
  /\ RunnerDo("migrate", Source)
  /\ UNCHANGED <<diskVars, saved>>

(* The migrator is the application's own program.                          *)
MigratorWrites(s) ==
  /\ RunnerAt("migrate") /\ s \in runner.todo /\ data[s].is = "intact"
  /\ data' = [data EXCEPT ![s] = Mixed(@)]
  /\ UNCHANGED <<applied, ready, pending, snaps, runner, phases, saved>>

MigratorFinishes(s) ==
  /\ RunnerAt("migrate") /\ s \in runner.todo /\ data[s].is = "mixed"
  /\ data' = [data EXCEPT ![s] = Intact(runner.version, @.rev)]
  /\ Done(s)
  /\ UNCHANGED <<applied, ready, pending, snaps, phases, saved>>

(* run_migrator: it failed or its deadline passed and its group was killed.*)
(* UnrestoredFails gives up without putting the copies back.               *)
UnrestoredFails ==
  /\ RunnerAt("migrate")
  /\ runner' = [runner EXCEPT !.at = "restored clear", !.failing = TRUE]
  /\ UNCHANGED <<diskVars, phases, saved>>
MigratorFails ==
  /\ RunnerAt("migrate")
  /\ runner' = [runner EXCEPT !.at = "restore", !.todo = Source,
                              !.failing = TRUE]
  /\ UNCHANGED <<diskVars, phases, saved>>

(* The commit: the version record, the fence, the journal, the marker.     *)
MigratorSucceeds ==
  /\ RunnerAt("migrate") /\ runner.todo = {}
  /\ RunnerGo("publish state")
  /\ UNCHANGED <<diskVars, phases, saved>>

PublishApplied ==
  /\ RunnerAt("publish state")
  /\ applied' = Here
  /\ RunnerGo("publish ready")
  /\ UNCHANGED <<data, ready, pending, snaps, phases, saved>>

(* NextReady is one version too far.                                       *)
NextReady ==
  /\ RunnerAt("publish ready")
  /\ ready' = applied.to + 1
  /\ RunnerGo("clear pending")
  /\ UNCHANGED <<data, applied, pending, snaps, phases, saved>>
PublishReady ==
  /\ RunnerAt("publish ready")
  /\ ready' = runner.version
  /\ RunnerGo("clear pending")
  /\ UNCHANGED <<data, applied, pending, snaps, phases, saved>>

ClearPending ==
  /\ RunnerAt("clear pending")
  /\ pending' = NoMigration
  /\ RunnerGo("complete")
  /\ UNCHANGED <<data, applied, ready, snaps, phases, saved>>

Complete ==
  /\ RunnerAt("complete")
  /\ phases' = phases \cup {"complete"}
  /\ RunnerGo("up")
  /\ UNCHANGED <<diskVars, saved>>

Apply ==
  \/ Decide \/ SameReady \/ SamePrepared
  \/ RetireOrphan \/ (\E s \in Source : Capture(s)) \/ PublishSnapshot
  \/ ClearReady \/ PublishPending \/ Prepared
  \/ \E s \in Source : MigratorWrites(s) \/ MigratorFinishes(s)
  \/ MigratorSucceeds
  \/ PublishApplied \/ PublishReady \/ ClearPending \/ Complete

(* An error of a step, a stop of the unit, a loss of power.                *)
RunnerStops ==
  /\ ~RunnerAt("off")
  /\ runner' = RunnerOff
  /\ UNCHANGED <<diskVars, phases, saved>>

-----------------------------------------------------------------------------
(* A writer of version v stores something in s.                            *)
Writes(s, v) ==
  /\ data[s].is = "intact" /\ data[s].rev < MaxRev
  /\ data' = [data EXCEPT ![s].rev = @ + 1]
  /\ saved' = [saved EXCEPT ![s] = data[s].rev + 1]
  /\ UNCHANGED <<applied, ready, pending, snaps, runner, phases>>

Unresolved == pending # NoMigration /\ ~Committed

SchemaTypeOK ==
  /\ \A s \in Source : data[s].is \in {"intact", "mixed", "gone"} /\
                       data[s].rev \in 0 .. MaxRev
  /\ applied \in Names \cup {NoMigration}
  /\ pending \in Names \cup {NoMigration}
  /\ ready \in 0 .. MaxVersion
  /\ runner.todo \subseteq Source
  /\ phases \subseteq {"prepared", "complete"}

(* Every path as version v stored it, with everything the writers saved.   *)
IntactAt(d, v) == \A s \in Source : d[s] = Intact(v, saved[s])

(* However a migration, its failure or its recovery is interrupted, the    *)
(* saved data is there at the version the record names, or a journaled     *)
(* snapshot holds it at the version the migration started from.            *)
DataIsSafe ==
  IF Unresolved THEN IntactAt(snaps[pending], pending.from)
  ELSE IntactAt(data, applied.to)

(* A writer of version v may start when the fence names v and no journal   *)
(* is left (the conditions of systemd/magicpaper-agent.service).           *)
MayStart(v) == ready = v /\ pending = NoMigration

(* Whoever those two files let in finds the data at its version: the fence *)
(* goes down before the journal appears and comes back only for what was   *)
(* restored or committed (data_schema.rs: "can never let an older agent    *)
(* write while migration or recovery is unresolved").                      *)
FenceIsTrue ==
  \A v \in Versions : MayStart(v) => IntactAt(data, v) /\ applied.to = v
=============================================================================
