---------------------------- MODULE PackageStore ----------------------------
(***************************************************************************)
(* The files of one application's package and the one thread that changes  *)
(* them (remagic-package/src/manager*, called by remagicd/daemon/          *)
(* packages.rs under its package lock).  An action is one durable file     *)
(* operation, so a crash may fall between any two.  pkg.at is the next     *)
(* operation; a tree is removed entry by entry, so its removal may be seen *)
(* half done: "torn" when the journal still describes it, "cut" when       *)
(* nothing on disk does.                                                   *)
(*                                                                         *)
(* current is where the symbolic link points, installed the package state  *)
(* and manifest the release the registered manifest names (materialized    *)
(* manifests name a release, never the link).                              *)
(***************************************************************************)
EXTENDS Naturals

CONSTANTS
  Content,   (* the content ids of the application's bundles              *)
  None

ASSUME NoneAssumption == None \notin Content

VARIABLES
  releases,  (* Content -> "absent", "whole", "torn" or "cut"             *)
  current,
  manifest,
  installed, (* the current and the previous content id of the state file *)
  journal,
  pkg        (* the request in work: its next step, its kind, its target  *)

storeVars == <<releases, current, manifest, installed, journal>>
packageVars == <<storeVars, pkg>>

OrNone == Content \cup {None}
NotInstalled == [current |-> None, previous |-> None]
NoJournal == [target |-> None, preexisted |-> FALSE, current |-> None,
              manifest |-> None, installed |-> NotInstalled]
NoRequest == [at |-> "idle", kind |-> "none", target |-> None]

StoreInit ==
  /\ releases = [c \in Content |-> "absent"]
  /\ current = None /\ manifest = None
  /\ installed = NotInstalled /\ journal = NoJournal
  /\ pkg = NoRequest

Present(c) == releases[c] # "absent"

At(step) == pkg.at = step
Go(step) == pkg' = [pkg EXCEPT !.at = step]
Ends == pkg' = NoRequest

-----------------------------------------------------------------------------
(* recover_journal: what the journal remembers is written back in this     *)
(* order, the new release goes last and the journal after it.              *)
Recovered ==
  CASE pkg.kind = "install" -> "prepare"
    [] pkg.kind \in {"rollback", "uninstall"} -> "begin"
    [] pkg.kind = "boot" -> "load"
    [] OTHER -> "idle"

RecoverNothing ==
  /\ At("recover") /\ journal = NoJournal
  /\ IF Recovered = "idle" THEN Ends ELSE Go(Recovered)
  /\ UNCHANGED storeVars

RecoverCurrent ==
  /\ At("recover") /\ journal # NoJournal
  /\ current' = journal.current
  /\ Go("recover manifest")
  /\ UNCHANGED <<releases, manifest, installed, journal>>

(* ForgetManifest leaves the new release registered.                       *)
ForgetManifest ==
  /\ At("recover manifest")
  /\ Go("recover state")
  /\ UNCHANGED storeVars
RecoverManifest ==
  /\ At("recover manifest")
  /\ manifest' = journal.manifest
  /\ Go("recover state")
  /\ UNCHANGED <<releases, current, installed, journal>>

(* ForgetPrevious drops the state file instead of writing the old one.     *)
ForgetPrevious ==
  /\ At("recover state")
  /\ installed' = NotInstalled
  /\ Go("recover target")
  /\ UNCHANGED <<releases, current, manifest, journal>>
RecoverState ==
  /\ At("recover state")
  /\ installed' = journal.installed
  /\ Go("recover target")
  /\ UNCHANGED <<releases, current, manifest, journal>>

TearTarget ==
  /\ At("recover target") /\ ~journal.preexisted
  /\ releases[journal.target] = "whole"
  /\ releases' = [releases EXCEPT ![journal.target] = "torn"]
  /\ UNCHANGED <<current, manifest, installed, journal, pkg>>

RecoverTarget ==
  /\ At("recover target")
  /\ releases' = IF journal.preexisted THEN releases
                 ELSE [releases EXCEPT ![journal.target] = "absent"]
  /\ Go("recover journal")
  /\ UNCHANGED <<current, manifest, installed, journal>>

RecoverJournal ==
  /\ At("recover journal")
  /\ journal' = NoJournal
  /\ IF Recovered = "idle" THEN Ends ELSE Go(Recovered)
  /\ UNCHANGED <<releases, current, manifest, installed>>

Recovery ==
  \/ RecoverNothing \/ RecoverCurrent \/ RecoverManifest \/ RecoverState
  \/ TearTarget \/ RecoverTarget \/ RecoverJournal

-----------------------------------------------------------------------------
(* prepare: the archive is unpacked into a staging directory and compared  *)
(* with its inventory and the device; whatever is wrong with it ends here. *)
Prepare ==
  /\ At("prepare")
  /\ Go("close") \/ Ends
  /\ UNCHANGED storeVars

(* install: a release that is there is either the current one, whose       *)
(* manifest is only written again, or is verified against the bundle and   *)
(* published; an absent one is published from the staging directory.       *)
IsCurrent(c) == installed.current = c /\ current = c

(* verify_installed_release compares every file, its mode and its digest.  *)
Verified(c) == releases[c] = "whole"

Refused ==
  Present(pkg.target) /\ ~IsCurrent(pkg.target) /\
  (installed.current = None \/ ~Verified(pkg.target))

RefuseInstall ==
  /\ At("begin") /\ pkg.kind = "install" /\ Refused
  /\ Ends
  /\ UNCHANGED storeVars

RefreshInstall ==
  /\ At("begin") /\ pkg.kind = "install"
  /\ Present(pkg.target) /\ IsCurrent(pkg.target)
  /\ manifest' = pkg.target
  /\ Go("reload")
  /\ UNCHANGED <<releases, current, installed, journal>>

(* begin_install remembers what is registered; without a state file the    *)
(* link stands for the previous content id.                                *)
PreviousContent ==
  IF installed.current # None THEN installed.current ELSE current

Journaled ==
  [target |-> pkg.target, preexisted |-> Present(pkg.target),
   current |-> PreviousContent, manifest |-> manifest,
   installed |-> installed]

BeginInstall ==
  /\ At("begin") /\ pkg.kind = "install"
  /\ ~Refused /\ ~(Present(pkg.target) /\ IsCurrent(pkg.target))
  /\ journal' = Journaled
  /\ Go(IF Present(pkg.target) THEN "manifest" ELSE "rename")
  /\ UNCHANGED <<releases, current, manifest, installed>>

PublishRelease ==
  /\ At("rename")
  /\ releases' = [releases EXCEPT ![pkg.target] = "whole"]
  /\ Go("manifest")
  /\ UNCHANGED <<current, manifest, installed, journal>>

PublishManifest ==
  /\ At("manifest")
  /\ manifest' = pkg.target
  /\ Go("current")
  /\ UNCHANGED <<releases, current, installed, journal>>

PublishCurrent ==
  /\ At("current")
  /\ current' = pkg.target
  /\ Go("state")
  /\ UNCHANGED <<releases, manifest, installed, journal>>

(* The state of an install remembers the journal's content id, that of a   *)
(* rollback the state it replaces.                                         *)
Superseded ==
  LET before == IF pkg.kind = "install" THEN journal.current
                ELSE installed.current
  IN IF before = pkg.target THEN None ELSE before

PublishState ==
  /\ At("state")
  /\ installed' = [current |-> pkg.target, previous |-> Superseded]
  /\ Go(IF pkg.kind = "install" THEN "commit" ELSE "reload")
  /\ UNCHANGED <<releases, current, manifest, journal>>

CommitInstall ==
  /\ At("commit")
  /\ journal' = NoJournal
  /\ Go("stale")
  /\ UNCHANGED <<releases, current, manifest, installed>>

(* remove_stale_releases keeps the release a rollback would take.          *)
Kept == {installed.current, installed.previous}

RemoveStale(c) ==
  /\ At("stale") /\ c \notin Kept /\ Present(c)
  /\ \E left \in {"absent", "cut"} :
       left # releases[c] /\ releases' = [releases EXCEPT ![c] = left]
  /\ UNCHANGED <<current, manifest, installed, journal, pkg>>

EndInstall ==
  /\ At("stale") /\ \A c \in Content \ Kept : ~Present(c)
  /\ Go("reload")
  /\ UNCHANGED storeVars

Install ==
  \/ Prepare
  \/ RefuseInstall \/ RefreshInstall \/ BeginInstall \/ PublishRelease
  \/ PublishManifest \/ PublishCurrent \/ PublishState \/ CommitInstall
  \/ \E c \in Content : RemoveStale(c)
  \/ EndInstall

-----------------------------------------------------------------------------
(* rollback keeps no journal.  It takes the previous release, or the one   *)
(* release whose manifest has the version asked for: any that is present,  *)
(* a half removed one included when its manifest is still there.           *)
RollbackTargets ==
  {c \in Content : Present(c) /\ c # installed.current}

BeginRollback ==
  /\ At("begin") /\ pkg.kind = "rollback"
  /\ \/ \E c \in RollbackTargets :
          /\ installed.current # None
          /\ pkg' = [pkg EXCEPT !.at = "manifest", !.target = c]
     \/ Ends
  /\ UNCHANGED storeVars

(* uninstall keeps none either: manifest, tree, state.                     *)
BeginUninstall ==
  /\ At("begin") /\ pkg.kind = "uninstall"
  /\ IF manifest = None THEN Ends ELSE Go("unregister")
  /\ UNCHANGED storeVars

Unregister ==
  /\ At("unregister")
  /\ manifest' = None
  /\ Go("tree")
  /\ UNCHANGED <<releases, current, installed, journal>>

CutTree ==
  /\ At("tree")
  /\ \E c \in Content :
       releases[c] = "whole" /\ releases' = [releases EXCEPT ![c] = "cut"]
  /\ current' \in {current, None}
  /\ UNCHANGED <<manifest, installed, journal, pkg>>

RemoveTree ==
  /\ At("tree")
  /\ releases' = [c \in Content |-> "absent"] /\ current' = None
  /\ Go("forget")
  /\ UNCHANGED <<manifest, installed, journal>>

ForgetState ==
  /\ At("forget")
  /\ installed' = NotInstalled
  /\ Go("reload")
  /\ UNCHANGED <<releases, current, manifest, journal>>

Others ==
  \/ BeginRollback
  \/ BeginUninstall \/ Unregister \/ CutTree \/ RemoveTree \/ ForgetState

-----------------------------------------------------------------------------
(* A file operation that fails ends its request with an error.  install    *)
(* recovers its journal first, once, and ignores how that ended; a daemon  *)
(* whose recovery fails at boot exits and is started again.                *)
JournalWritten ==
  /\ journal # NoJournal /\ pkg.kind = "install"
  /\ pkg.at \in {"rename", "manifest", "current", "state", "commit"}

Working ==
  pkg.at \notin {"idle", "prepare", "close", "load", "reload", "begin"}

PackageFails ==
  /\ Working
  /\ CASE JournalWritten -> pkg' = [pkg EXCEPT !.at = "recover",
                                               !.kind = "abort"]
       [] pkg.kind = "boot" -> Go("recover")
       [] OTHER -> Ends
  /\ UNCHANGED storeVars

(* atomic_write may fail after its rename (sync_directory): an error of    *)
(* begin_install then leaves a journal, although install gave up.          *)
JournalFails ==
  /\ At("begin") /\ pkg.kind = "install"
  /\ ~Refused /\ ~(Present(pkg.target) /\ IsCurrent(pkg.target))
  /\ journal' \in {journal, Journaled}
  /\ Ends
  /\ UNCHANGED <<releases, current, manifest, installed>>

(* The daemon dies and recovers every journal before it does anything else.*)
PackageCrash ==
  /\ pkg' = [NoRequest EXCEPT !.at = "recover", !.kind = "boot"]
  /\ UNCHANGED storeVars

PackageStep == Recovery \/ Install \/ Others

-----------------------------------------------------------------------------
Steps ==
  {"idle", "prepare", "close", "load", "reload", "begin", "recover",
   "recover manifest", "recover state", "recover target", "recover journal",
   "rename", "manifest", "current", "state", "commit", "stale",
   "unregister", "tree", "forget"}
Kinds == {"none", "install", "rollback", "uninstall", "boot", "abort"}
Registered == [current : OrNone, previous : OrNone]

PackageTypeOK ==
  /\ releases \in [Content -> {"absent", "whole", "torn", "cut"}]
  /\ current \in OrNone /\ manifest \in OrNone
  /\ installed \in Registered
  /\ journal \in [target : OrNone, preexisted : BOOLEAN, current : OrNone,
                  manifest : OrNone, installed : Registered]
  /\ pkg \in [at : Steps, kind : Kinds, target : OrNone]

(* Whatever moment the power fails at, the registered manifest, which is   *)
(* all a launch reads, names a release that is there with every file, or   *)
(* one whose tree an uninstall or the cleanup of old releases was removing *)
(* when it was interrupted.  (README.md: immutable releases, atomic        *)
(* switch, recovery from power loss.)                                      *)
ManifestHasRelease ==
  manifest # None => releases[manifest] \in {"whole", "cut"}

(* What the journal remembers, and what its install meant.                 *)
Before ==
  /\ current' = journal.current /\ manifest' = journal.manifest
  /\ installed' = journal.installed
  /\ journal.preexisted \/ releases'[journal.target] = "absent"
After ==
  /\ current' = journal.target /\ manifest' = journal.target
  /\ installed'.current = journal.target
  /\ releases'[journal.target] = "whole"

(* A journal goes away only when the store is exactly as it was before the *)
(* install or exactly as the install meant it, however often the recovery  *)
(* was itself interrupted.                                                 *)
AllOrNothing ==
  [][journal # NoJournal /\ journal' = NoJournal => Before \/ After]_packageVars
=============================================================================
