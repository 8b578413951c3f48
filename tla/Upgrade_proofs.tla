---------------------------- MODULE Upgrade_proofs ----------------------------
(***************************************************************************)
(* For any bundles, schema versions and number of faults: the registered   *)
(* manifest always names a release that is there, and the journal of an    *)
(* install goes away only when the store is wholly as before or wholly as  *)
(* meant.  Neither is inductive: what is true of the files depends on the  *)
(* step the request is at, and on what the journal says of them.           *)
(* With a background service that is fenced and launches that keep out of  *)
(* package requests, the data are never lost either, the fence never names *)
(* a version they do not have, and no two writers disagree about them.     *)
(***************************************************************************)
EXTENDS Upgrade, TLAPS

Usable(c) == releases[c] \in {"whole", "cut"}

(* A journal can be recovered at any moment: what it registers again is    *)
(* usable and is not the release the recovery removes.                     *)
JournalSound ==
  journal # NoJournal =>
    /\ journal.target \in Content
    /\ journal.manifest # None =>
         /\ Usable(journal.manifest)
         /\ ~journal.preexisted => journal.manifest # journal.target

(* Only a recovery tears a tree, and the journal tells which.              *)
TornIsJournaled ==
  \A c \in Content : releases[c] = "torn" =>
    /\ journal # NoJournal /\ ~journal.preexisted /\ journal.target = c
    /\ pkg.at # "recover journal"

(* A request past the recovery of the journals finds none.                 *)
NoneLeft ==
  \/ pkg.at \in {"prepare", "begin", "stale", "unregister", "tree", "forget"}
  \/ pkg.at = "close" /\ pkg.kind = "install"
  \/ pkg.at \in {"manifest", "current", "state"} /\ pkg.kind = "rollback"

Recovering ==
  {"recover manifest", "recover state", "recover target", "recover journal"}

(* Each step of the recovery finds what the steps before it wrote back.    *)
RecoverySteps ==
  /\ pkg.at \in Recovering =>
       journal # NoJournal /\ current = journal.current
  /\ pkg.at \in Recovering \ {"recover manifest"} =>
       manifest = journal.manifest
  /\ pkg.at \in {"recover target", "recover journal"} =>
       installed = journal.installed
  /\ pkg.at = "recover journal" =>
       journal.preexisted \/ releases[journal.target] = "absent"

(* Each step of an install finds what the steps before it published.       *)
InstallSteps ==
  /\ pkg.kind = "install" => pkg.target \in Content
  /\ pkg.at \in {"rename", "commit", "stale"} => pkg.kind = "install"
  /\ pkg.at \in {"manifest", "current", "state"} =>
       pkg.kind \in {"install", "rollback"} /\ pkg.target \in Content
  /\ pkg.at \in {"rename", "manifest", "current", "state", "commit"} /\
     pkg.kind = "install" =>
       journal # NoJournal /\ journal.target = pkg.target
  /\ pkg.at \in {"manifest", "current", "state", "commit", "stale"} =>
       IF pkg.kind = "install" THEN releases[pkg.target] = "whole"
       ELSE Usable(pkg.target)
  /\ pkg.at \in {"current", "state", "commit", "stale"} =>
       manifest = pkg.target
  /\ pkg.at \in {"state", "commit"} => current = pkg.target
  /\ pkg.at \in {"commit", "stale"} => installed.current = pkg.target
  /\ pkg.at \in {"tree", "forget"} => manifest = None

PackageInv ==
  /\ PackageTypeOK /\ ManifestHasRelease
  /\ JournalSound /\ TornIsJournaled
  /\ NoneLeft => journal = NoJournal
  /\ RecoverySteps /\ InstallSteps

(* What a request's next step changes of it.                               *)
LEMMA GoStep ==
  ASSUME PackageTypeOK, NEW step \in Steps, Go(step)
  PROVE  /\ pkg' \in [at : Steps, kind : Kinds, target : OrNone]
         /\ pkg'.at = step /\ pkg'.kind = pkg.kind
         /\ pkg'.target = pkg.target
  BY DEF PackageTypeOK, Go

(* An ended request is at no step.                                         *)
LEMMA EndsStep ==
  ASSUME Ends
  PROVE  /\ pkg' \in [at : Steps, kind : Kinds, target : OrNone]
         /\ pkg'.at = "idle" /\ pkg'.kind = "none"
  BY DEF Ends, NoRequest, Steps, Kinds, OrNone

(* Nothing to recover: the request goes on.                                *)
LEMMA RecoverNothingInv ==
  ASSUME PackageInv, RecoverNothing
  PROVE  PackageInv'
<1> USE NoneAssumption DEF PackageInv, PackageTypeOK, OrNone, Registered
<1>1. /\ pkg' \in [at : Steps, kind : Kinds, target : OrNone]
      /\ \/ pkg'.at = "prepare" /\ pkg.kind = "install"
         \/ pkg'.at = "begin" /\ pkg.kind \in {"rollback", "uninstall"}
         \/ pkg'.at \in {"load", "idle"}
      /\ pkg'.at # "idle" =>
           pkg'.kind = pkg.kind /\ pkg'.target = pkg.target
      /\ pkg'.at = "idle" => pkg'.kind = "none"
      /\ releases' = releases /\ current' = current
      /\ manifest' = manifest /\ installed' = installed
      /\ journal' = journal /\ journal = NoJournal
  BY GoStep, EndsStep DEF Steps, Kinds, Recovered, storeVars, At, RecoverNothing
<1>2. PackageTypeOK'
  BY <1>1
<1>3. (ManifestHasRelease /\ JournalSound /\ TornIsJournaled)'
  BY <1>1 DEF ManifestHasRelease, JournalSound, TornIsJournaled, Usable,
     NoneLeft, RecoverySteps, Recovering, InstallSteps
<1>4. ((NoneLeft => journal = NoJournal) /\ RecoverySteps /\ InstallSteps)'
  BY <1>1 DEF NoneLeft, RecoverySteps, Recovering, InstallSteps, Usable,
     TornIsJournaled, JournalSound
<1> QED BY <1>2, <1>3, <1>4

(* The link is written back.                                               *)
LEMMA RecoverCurrentInv ==
  ASSUME PackageInv, RecoverCurrent
  PROVE  PackageInv'
<1> USE NoneAssumption DEF PackageInv, PackageTypeOK, OrNone, Registered,
           RecoverCurrent, At, storeVars
<1>1. /\ pkg' \in [at : Steps, kind : Kinds, target : OrNone]
      /\ pkg'.at = "recover manifest"
      /\ pkg'.kind = pkg.kind
      /\ pkg'.target = pkg.target
  BY GoStep DEF Steps, Kinds
<1>2. PackageTypeOK'
  BY <1>1 DEF Steps, Kinds, JournalSound, NotInstalled, NoJournal
<1>3. (ManifestHasRelease /\ JournalSound /\ TornIsJournaled)'
  BY <1>1 DEF ManifestHasRelease, JournalSound, TornIsJournaled, Usable,
     NoneLeft, RecoverySteps, Recovering, InstallSteps, NoJournal, NotInstalled
<1>4. ((NoneLeft => journal = NoJournal) /\ RecoverySteps /\ InstallSteps)'
  BY <1>1 DEF NoneLeft, RecoverySteps, Recovering, InstallSteps, Usable,
     TornIsJournaled, JournalSound, NoJournal, NotInstalled
<1> QED BY <1>2, <1>3, <1>4

(* The manifest is written back; the journal says it is usable.            *)
LEMMA RecoverManifestInv ==
  ASSUME PackageInv, RecoverManifest
  PROVE  PackageInv'
<1> USE NoneAssumption DEF PackageInv, PackageTypeOK, OrNone, Registered,
           RecoverManifest, At, storeVars
<1>1. /\ pkg' \in [at : Steps, kind : Kinds, target : OrNone]
      /\ pkg'.at = "recover state"
      /\ pkg'.kind = pkg.kind
      /\ pkg'.target = pkg.target
  BY GoStep DEF Steps, Kinds
<1>2. PackageTypeOK'
  BY <1>1 DEF NotInstalled, NoJournal
<1>3. (ManifestHasRelease /\ JournalSound /\ TornIsJournaled)'
  BY <1>1 DEF ManifestHasRelease, JournalSound, TornIsJournaled, Usable,
     NoneLeft, RecoverySteps, Recovering, InstallSteps, NoJournal, NotInstalled
<1>4. ((NoneLeft => journal = NoJournal) /\ RecoverySteps /\ InstallSteps)'
  BY <1>1 DEF NoneLeft, RecoverySteps, Recovering, InstallSteps, Usable,
     TornIsJournaled, JournalSound, NoJournal, NotInstalled
<1> QED BY <1>2, <1>3, <1>4

(* The state file is written back.                                         *)
LEMMA RecoverStateInv ==
  ASSUME PackageInv, RecoverState
  PROVE  PackageInv'
<1> USE NoneAssumption DEF PackageInv, PackageTypeOK, OrNone, Registered,
           RecoverState, At, storeVars
<1>1. /\ pkg' \in [at : Steps, kind : Kinds, target : OrNone]
      /\ pkg'.at = "recover target"
      /\ pkg'.kind = pkg.kind
      /\ pkg'.target = pkg.target
  BY GoStep DEF Steps, Kinds
<1>2. PackageTypeOK'
  BY <1>1 DEF NotInstalled, NoJournal
<1>3. (ManifestHasRelease /\ JournalSound /\ TornIsJournaled)'
  BY <1>1 DEF ManifestHasRelease, JournalSound, TornIsJournaled, Usable,
     NoneLeft, RecoverySteps, Recovering, InstallSteps, NoJournal, NotInstalled
<1>4. ((NoneLeft => journal = NoJournal) /\ RecoverySteps /\ InstallSteps)'
  BY <1>1 DEF NoneLeft, RecoverySteps, Recovering, InstallSteps, Usable,
     TornIsJournaled, JournalSound, NoJournal, NotInstalled
<1> QED BY <1>2, <1>3, <1>4

(* The target of the journal is being removed; it is not registered.       *)
LEMMA TearTargetInv ==
  ASSUME PackageInv, TearTarget
  PROVE  PackageInv'
<1> USE NoneAssumption DEF PackageInv, PackageTypeOK, OrNone, Registered,
           TearTarget, At, storeVars
<1>1. PackageTypeOK'
  OBVIOUS
<1>2. (ManifestHasRelease /\ JournalSound /\ TornIsJournaled)'
  BY DEF ManifestHasRelease, JournalSound, TornIsJournaled, Usable,
     NoneLeft, RecoverySteps, Recovering, InstallSteps, NoJournal, NotInstalled
<1>3. ((NoneLeft => journal = NoJournal) /\ RecoverySteps /\ InstallSteps)'
  BY DEF NoneLeft, RecoverySteps, Recovering, InstallSteps, Usable,
     TornIsJournaled, JournalSound, NoJournal, NotInstalled
<1> QED BY <1>1, <1>2, <1>3

(* The target of the journal is gone.                                      *)
LEMMA RecoverTargetInv ==
  ASSUME PackageInv, RecoverTarget
  PROVE  PackageInv'
<1> USE NoneAssumption DEF PackageInv, PackageTypeOK, OrNone, Registered,
           RecoverTarget, At, storeVars
<1>1. /\ pkg' \in [at : Steps, kind : Kinds, target : OrNone]
      /\ pkg'.at = "recover journal"
      /\ pkg'.kind = pkg.kind
      /\ pkg'.target = pkg.target
  BY GoStep DEF Steps, Kinds
<1>2. PackageTypeOK'
  BY <1>1 DEF NotInstalled, NoJournal
<1>3. (ManifestHasRelease /\ JournalSound /\ TornIsJournaled)'
  <2>1. \A c \in Content :
          releases'[c] = IF ~journal.preexisted /\ c = journal.target THEN "absent"
                                                                   ELSE releases[c]
    OBVIOUS
  <2>2. journal # NoJournal /\ manifest = journal.manifest
    BY DEF RecoverySteps, Recovering
  <2>3. /\ journal.target \in Content
        /\ manifest # None =>
             /\ manifest \in Content /\ Usable(manifest)
             /\ ~journal.preexisted => manifest # journal.target
    BY <2>2 DEF JournalSound
  <2>4. ManifestHasRelease'
    BY <2>1, <2>3 DEF ManifestHasRelease, Usable
  <2>5. JournalSound'
    BY <2>1, <2>2, <2>3 DEF JournalSound, Usable
  <2>6. TornIsJournaled'
    <3>1. \A c \in Content : releases[c] = "torn" =>
            ~journal.preexisted /\ journal.target = c
      BY DEF TornIsJournaled
    <3> QED BY <2>1, <3>1 DEF TornIsJournaled
  <2> QED BY <2>4, <2>5, <2>6
<1>4. ((NoneLeft => journal = NoJournal) /\ RecoverySteps /\ InstallSteps)'
  BY <1>1 DEF NoneLeft, RecoverySteps, Recovering, InstallSteps, Usable,
     TornIsJournaled, JournalSound, NoJournal, NotInstalled
<1> QED BY <1>2, <1>3, <1>4

(* The journal goes last.                                                  *)
LEMMA RecoverJournalInv ==
  ASSUME PackageInv, RecoverJournal
  PROVE  PackageInv'
<1> USE NoneAssumption DEF PackageInv, PackageTypeOK, OrNone, Registered
<1>1. /\ pkg' \in [at : Steps, kind : Kinds, target : OrNone]
      /\ \/ pkg'.at = "prepare" /\ pkg.kind = "install"
         \/ pkg'.at = "begin" /\ pkg.kind \in {"rollback", "uninstall"}
         \/ pkg'.at \in {"load", "idle"}
      /\ pkg'.at # "idle" =>
           pkg'.kind = pkg.kind /\ pkg'.target = pkg.target
      /\ pkg'.at = "idle" => pkg'.kind = "none"
      /\ releases' = releases /\ current' = current
      /\ manifest' = manifest /\ installed' = installed
      /\ journal' = NoJournal /\ pkg.at = "recover journal"
  BY GoStep, EndsStep DEF Steps, Kinds, Recovered, storeVars, At, RecoverJournal
<1>2. PackageTypeOK'
  BY <1>1 DEF NotInstalled, NoJournal
<1>3. (ManifestHasRelease /\ JournalSound /\ TornIsJournaled)'
  BY <1>1 DEF ManifestHasRelease, JournalSound, TornIsJournaled, Usable,
     NoneLeft, RecoverySteps, Recovering, InstallSteps
<1>4. ((NoneLeft => journal = NoJournal) /\ RecoverySteps /\ InstallSteps)'
  BY <1>1 DEF NoneLeft, RecoverySteps, Recovering, InstallSteps, Usable,
     TornIsJournaled, JournalSound
<1> QED BY <1>2, <1>3, <1>4

(* A bundle is accepted or refused; the store is untouched.                *)
LEMMA PrepareInv ==
  ASSUME PackageInv, Prepare
  PROVE  PackageInv'
<1> USE NoneAssumption DEF PackageInv, PackageTypeOK, OrNone, Registered,
           Prepare, At, storeVars
<1>1. /\ pkg' \in [at : Steps, kind : Kinds, target : OrNone]
      /\ \/ /\ pkg'.at = "close" /\ pkg'.kind = pkg.kind
            /\ pkg'.target = pkg.target
         \/ pkg'.at = "idle" /\ pkg'.kind = "none"
  BY GoStep, EndsStep DEF Steps, Kinds
<1>2. PackageTypeOK'
  BY <1>1 DEF NotInstalled, NoJournal
<1>3. (ManifestHasRelease /\ JournalSound /\ TornIsJournaled)'
  BY <1>1 DEF ManifestHasRelease, JournalSound, TornIsJournaled, Usable,
     NoneLeft, RecoverySteps, Recovering, InstallSteps, NoJournal, NotInstalled
<1>4. ((NoneLeft => journal = NoJournal) /\ RecoverySteps /\ InstallSteps)'
  BY <1>1 DEF NoneLeft, RecoverySteps, Recovering, InstallSteps, Usable,
     TornIsJournaled, JournalSound, NoJournal, NotInstalled
<1> QED BY <1>2, <1>3, <1>4

(* A refused install changes nothing.                                      *)
LEMMA RefuseInstallInv ==
  ASSUME PackageInv, RefuseInstall
  PROVE  PackageInv'
<1> USE NoneAssumption DEF PackageInv, PackageTypeOK, OrNone, Registered,
           RefuseInstall, At, storeVars
<1>1. /\ pkg' \in [at : Steps, kind : Kinds, target : OrNone]
      /\ pkg'.at = "idle"
      /\ pkg'.kind = "none"
  BY EndsStep DEF Steps, Kinds
<1>2. PackageTypeOK'
  BY <1>1 DEF NotInstalled, NoJournal
<1>3. (ManifestHasRelease /\ JournalSound /\ TornIsJournaled)'
  BY <1>1 DEF ManifestHasRelease, JournalSound, TornIsJournaled, Usable,
     NoneLeft, RecoverySteps, Recovering, InstallSteps, NoJournal, NotInstalled
<1>4. ((NoneLeft => journal = NoJournal) /\ RecoverySteps /\ InstallSteps)'
  BY <1>1 DEF NoneLeft, RecoverySteps, Recovering, InstallSteps, Usable,
     TornIsJournaled, JournalSound, NoJournal, NotInstalled
<1> QED BY <1>2, <1>3, <1>4

(* The current release is registered again.                                *)
LEMMA RefreshInstallInv ==
  ASSUME PackageInv, RefreshInstall
  PROVE  PackageInv'
<1> USE NoneAssumption DEF PackageInv, PackageTypeOK, OrNone, Registered,
           RefreshInstall, At, storeVars, IsCurrent, Present
<1>1. /\ pkg' \in [at : Steps, kind : Kinds, target : OrNone]
      /\ pkg'.at = "reload"
      /\ pkg'.kind = pkg.kind
      /\ pkg'.target = pkg.target
  BY GoStep DEF Steps, Kinds
<1>2. PackageTypeOK'
  BY <1>1 DEF NotInstalled, NoJournal
<1>3. (ManifestHasRelease /\ JournalSound /\ TornIsJournaled)'
  BY <1>1 DEF ManifestHasRelease, JournalSound, TornIsJournaled, Usable,
     NoneLeft, RecoverySteps, Recovering, InstallSteps, NoJournal, NotInstalled
<1>4. ((NoneLeft => journal = NoJournal) /\ RecoverySteps /\ InstallSteps)'
  BY <1>1 DEF NoneLeft, RecoverySteps, Recovering, InstallSteps, Usable,
     TornIsJournaled, JournalSound, NoJournal, NotInstalled
<1> QED BY <1>2, <1>3, <1>4

(* The journal tells what is registered now, which is usable.              *)
LEMMA BeginInstallInv ==
  ASSUME PackageInv, BeginInstall
  PROVE  PackageInv'
<1> USE NoneAssumption DEF PackageInv, PackageTypeOK, OrNone, Registered,
           BeginInstall, At, storeVars, Refused, IsCurrent, Verified, Journaled, PreviousContent, Present
<1>1. /\ pkg' \in [at : Steps, kind : Kinds, target : OrNone]
      /\ pkg'.at = (IF Present(pkg.target) THEN "manifest" ELSE "rename")
      /\ pkg'.kind = pkg.kind
      /\ pkg'.target = pkg.target
  BY GoStep DEF Steps, Kinds
<1>2. PackageTypeOK'
  BY <1>1 DEF NotInstalled, NoJournal
<1>3. (ManifestHasRelease /\ JournalSound /\ TornIsJournaled)'
  BY <1>1 DEF ManifestHasRelease, JournalSound, TornIsJournaled, Usable,
     NoneLeft, RecoverySteps, Recovering, InstallSteps, NoJournal, NotInstalled
<1>4. ((NoneLeft => journal = NoJournal) /\ RecoverySteps /\ InstallSteps)'
  BY <1>1 DEF NoneLeft, RecoverySteps, Recovering, InstallSteps, Usable,
     TornIsJournaled, JournalSound, NoJournal, NotInstalled
<1> QED BY <1>2, <1>3, <1>4

(* The new release is renamed into place.                                  *)
LEMMA PublishReleaseInv ==
  ASSUME PackageInv, PublishRelease
  PROVE  PackageInv'
<1> USE NoneAssumption DEF PackageInv, PackageTypeOK, OrNone, Registered,
           PublishRelease, At, storeVars
<1>1. /\ pkg' \in [at : Steps, kind : Kinds, target : OrNone]
      /\ pkg'.at = "manifest"
      /\ pkg'.kind = pkg.kind
      /\ pkg'.target = pkg.target
  BY GoStep DEF Steps, Kinds
<1>2. PackageTypeOK'
  BY <1>1 DEF NotInstalled, NoJournal
<1>3. (ManifestHasRelease /\ JournalSound /\ TornIsJournaled)'
  BY <1>1 DEF ManifestHasRelease, JournalSound, TornIsJournaled, Usable,
     NoneLeft, RecoverySteps, Recovering, InstallSteps, NoJournal, NotInstalled
<1>4. ((NoneLeft => journal = NoJournal) /\ RecoverySteps /\ InstallSteps)'
  BY <1>1 DEF NoneLeft, RecoverySteps, Recovering, InstallSteps, Usable,
     TornIsJournaled, JournalSound, NoJournal, NotInstalled
<1> QED BY <1>2, <1>3, <1>4

(* The new release is registered; it is usable.                            *)
LEMMA PublishManifestInv ==
  ASSUME PackageInv, PublishManifest
  PROVE  PackageInv'
<1> USE NoneAssumption DEF PackageInv, PackageTypeOK, OrNone, Registered,
           PublishManifest, At, storeVars
<1>1. /\ pkg' \in [at : Steps, kind : Kinds, target : OrNone]
      /\ pkg'.at = "current"
      /\ pkg'.kind = pkg.kind
      /\ pkg'.target = pkg.target
  BY GoStep DEF Steps, Kinds
<1>2. PackageTypeOK'
  <2>1. manifest' \in OrNone
    OBVIOUS
  <2> QED BY <1>1, <2>1
<1>3. (ManifestHasRelease /\ JournalSound /\ TornIsJournaled)'
  BY <1>1 DEF ManifestHasRelease, JournalSound, TornIsJournaled, Usable,
     NoneLeft, RecoverySteps, Recovering, InstallSteps, NoJournal, NotInstalled
<1>4. ((NoneLeft => journal = NoJournal) /\ RecoverySteps /\ InstallSteps)'
  BY <1>1 DEF NoneLeft, RecoverySteps, Recovering, InstallSteps, Usable,
     TornIsJournaled, JournalSound, NoJournal, NotInstalled
<1> QED BY <1>2, <1>3, <1>4

(* The link follows.                                                       *)
LEMMA PublishCurrentInv ==
  ASSUME PackageInv, PublishCurrent
  PROVE  PackageInv'
<1> USE NoneAssumption DEF PackageInv, PackageTypeOK, OrNone, Registered,
           PublishCurrent, At, storeVars
<1>1. /\ pkg' \in [at : Steps, kind : Kinds, target : OrNone]
      /\ pkg'.at = "state"
      /\ pkg'.kind = pkg.kind
      /\ pkg'.target = pkg.target
  BY GoStep DEF Steps, Kinds
<1>2. PackageTypeOK'
  BY <1>1 DEF NotInstalled, NoJournal
<1>3. (ManifestHasRelease /\ JournalSound /\ TornIsJournaled)'
  BY <1>1 DEF ManifestHasRelease, JournalSound, TornIsJournaled, Usable,
     NoneLeft, RecoverySteps, Recovering, InstallSteps, NoJournal, NotInstalled
<1>4. ((NoneLeft => journal = NoJournal) /\ RecoverySteps /\ InstallSteps)'
  BY <1>1 DEF NoneLeft, RecoverySteps, Recovering, InstallSteps, Usable,
     TornIsJournaled, JournalSound, NoJournal, NotInstalled
<1> QED BY <1>2, <1>3, <1>4

(* The state file follows.                                                 *)
LEMMA PublishStateInv ==
  ASSUME PackageInv, PublishState
  PROVE  PackageInv'
<1> USE NoneAssumption DEF PackageInv, PackageTypeOK, OrNone, Registered,
           PublishState, At, storeVars, Superseded
<1>1. /\ pkg' \in [at : Steps, kind : Kinds, target : OrNone]
      /\ pkg'.at = (IF pkg.kind = "install" THEN "commit" ELSE "reload")
      /\ pkg'.kind = pkg.kind
      /\ pkg'.target = pkg.target
  BY GoStep DEF Steps, Kinds
<1>2. PackageTypeOK'
  BY <1>1 DEF NotInstalled, NoJournal
<1>3. (ManifestHasRelease /\ JournalSound /\ TornIsJournaled)'
  BY <1>1 DEF ManifestHasRelease, JournalSound, TornIsJournaled, Usable,
     NoneLeft, RecoverySteps, Recovering, InstallSteps, NoJournal, NotInstalled
<1>4. ((NoneLeft => journal = NoJournal) /\ RecoverySteps /\ InstallSteps)'
  BY <1>1 DEF NoneLeft, RecoverySteps, Recovering, InstallSteps, Usable,
     TornIsJournaled, JournalSound, NoJournal, NotInstalled
<1> QED BY <1>2, <1>3, <1>4

(* The journal goes; nothing is torn.                                      *)
LEMMA CommitInstallInv ==
  ASSUME PackageInv, CommitInstall
  PROVE  PackageInv'
<1> USE NoneAssumption DEF PackageInv, PackageTypeOK, OrNone, Registered,
           CommitInstall, At, storeVars
<1>1. /\ pkg' \in [at : Steps, kind : Kinds, target : OrNone]
      /\ pkg'.at = "stale"
      /\ pkg'.kind = pkg.kind
      /\ pkg'.target = pkg.target
  BY GoStep DEF Steps, Kinds
<1>2. PackageTypeOK'
  BY <1>1 DEF NotInstalled, NoJournal
<1>3. (ManifestHasRelease /\ JournalSound /\ TornIsJournaled)'
  BY <1>1 DEF ManifestHasRelease, JournalSound, TornIsJournaled, Usable,
     NoneLeft, RecoverySteps, Recovering, InstallSteps, NoJournal, NotInstalled
<1>4. ((NoneLeft => journal = NoJournal) /\ RecoverySteps /\ InstallSteps)'
  BY <1>1 DEF NoneLeft, RecoverySteps, Recovering, InstallSteps, Usable,
     TornIsJournaled, JournalSound, NoJournal, NotInstalled
<1> QED BY <1>2, <1>3, <1>4

(* An old release goes; the registered one is kept.                        *)
LEMMA RemoveStaleInv ==
  ASSUME PackageInv, NEW c \in Content, RemoveStale(c)
  PROVE  PackageInv'
<1> USE NoneAssumption DEF PackageInv, PackageTypeOK, OrNone, Registered,
           RemoveStale, At, storeVars, Kept
<1>1. PackageTypeOK'
  OBVIOUS
<1>2. (ManifestHasRelease /\ JournalSound /\ TornIsJournaled)'
  BY DEF ManifestHasRelease, JournalSound, TornIsJournaled, Usable,
     NoneLeft, RecoverySteps, Recovering, InstallSteps, NoJournal, NotInstalled
<1>3. ((NoneLeft => journal = NoJournal) /\ RecoverySteps /\ InstallSteps)'
  BY DEF NoneLeft, RecoverySteps, Recovering, InstallSteps, Usable,
     TornIsJournaled, JournalSound, NoJournal, NotInstalled
<1> QED BY <1>1, <1>2, <1>3

(* The install is done.                                                    *)
LEMMA EndInstallInv ==
  ASSUME PackageInv, EndInstall
  PROVE  PackageInv'
<1> USE NoneAssumption DEF PackageInv, PackageTypeOK, OrNone, Registered,
           EndInstall, At, storeVars
<1>1. /\ pkg' \in [at : Steps, kind : Kinds, target : OrNone]
      /\ pkg'.at = "reload"
      /\ pkg'.kind = pkg.kind
      /\ pkg'.target = pkg.target
  BY GoStep DEF Steps, Kinds
<1>2. PackageTypeOK'
  BY <1>1 DEF NotInstalled, NoJournal
<1>3. (ManifestHasRelease /\ JournalSound /\ TornIsJournaled)'
  BY <1>1 DEF ManifestHasRelease, JournalSound, TornIsJournaled, Usable,
     NoneLeft, RecoverySteps, Recovering, InstallSteps, NoJournal, NotInstalled
<1>4. ((NoneLeft => journal = NoJournal) /\ RecoverySteps /\ InstallSteps)'
  BY <1>1 DEF NoneLeft, RecoverySteps, Recovering, InstallSteps, Usable,
     TornIsJournaled, JournalSound, NoJournal, NotInstalled
<1> QED BY <1>2, <1>3, <1>4

(* A rollback chooses a release that is there, and none is torn.           *)
LEMMA BeginRollbackInv ==
  ASSUME PackageInv, BeginRollback
  PROVE  PackageInv'
<1> USE NoneAssumption DEF PackageInv, PackageTypeOK, OrNone, Registered,
           BeginRollback, At, storeVars, RollbackTargets, Present
<1>1. /\ pkg' \in [at : Steps, kind : Kinds, target : OrNone]
      /\ \/ pkg'.at = "manifest" /\ pkg'.kind = "rollback" /\ pkg'.target \in Content /\ releases[pkg'.target] # "absent"
         \/ pkg'.at = "idle" /\ pkg'.kind = "none"
  <2>1. CASE Ends
    BY <2>1, EndsStep
  <2>2. CASE \E c \in RollbackTargets :
               pkg' = [pkg EXCEPT !.at = "manifest", !.target = c]
    BY <2>2 DEF Steps, Kinds
  <2> QED BY <2>1, <2>2
<1>2. PackageTypeOK'
  BY <1>1
<1>3. (ManifestHasRelease /\ JournalSound /\ TornIsJournaled)'
  BY <1>1 DEF ManifestHasRelease, JournalSound, TornIsJournaled, Usable,
     NoneLeft, RecoverySteps, Recovering, InstallSteps, NoJournal, NotInstalled
<1>4. ((NoneLeft => journal = NoJournal) /\ RecoverySteps /\ InstallSteps)'
  BY <1>1 DEF NoneLeft, RecoverySteps, Recovering, InstallSteps, Usable,
     TornIsJournaled, JournalSound, NoJournal, NotInstalled
<1> QED BY <1>2, <1>3, <1>4

(* An uninstall begins with the manifest.                                  *)
LEMMA BeginUninstallInv ==
  ASSUME PackageInv, BeginUninstall
  PROVE  PackageInv'
<1> USE NoneAssumption DEF PackageInv, PackageTypeOK, OrNone, Registered,
           BeginUninstall, At, storeVars
<1>1. /\ pkg' \in [at : Steps, kind : Kinds, target : OrNone]
      /\ \/ pkg'.at = "unregister" /\ pkg'.kind = pkg.kind
         \/ pkg'.at = "idle" /\ pkg'.kind = "none"
  BY GoStep, EndsStep DEF Steps, Kinds
<1>2. PackageTypeOK'
  BY <1>1 DEF NotInstalled, NoJournal
<1>3. (ManifestHasRelease /\ JournalSound /\ TornIsJournaled)'
  BY <1>1 DEF ManifestHasRelease, JournalSound, TornIsJournaled, Usable,
     NoneLeft, RecoverySteps, Recovering, InstallSteps, NoJournal, NotInstalled
<1>4. ((NoneLeft => journal = NoJournal) /\ RecoverySteps /\ InstallSteps)'
  BY <1>1 DEF NoneLeft, RecoverySteps, Recovering, InstallSteps, Usable,
     TornIsJournaled, JournalSound, NoJournal, NotInstalled
<1> QED BY <1>2, <1>3, <1>4

(* Without a manifest there is nothing to lose.                            *)
LEMMA UnregisterInv ==
  ASSUME PackageInv, Unregister
  PROVE  PackageInv'
<1> USE NoneAssumption DEF PackageInv, PackageTypeOK, OrNone, Registered,
           Unregister, At, storeVars
<1>1. /\ pkg' \in [at : Steps, kind : Kinds, target : OrNone]
      /\ pkg'.at = "tree"
      /\ pkg'.kind = pkg.kind
      /\ pkg'.target = pkg.target
  BY GoStep DEF Steps, Kinds
<1>2. PackageTypeOK'
  BY <1>1 DEF NotInstalled, NoJournal
<1>3. (ManifestHasRelease /\ JournalSound /\ TornIsJournaled)'
  BY <1>1 DEF ManifestHasRelease, JournalSound, TornIsJournaled, Usable,
     NoneLeft, RecoverySteps, Recovering, InstallSteps, NoJournal, NotInstalled
<1>4. ((NoneLeft => journal = NoJournal) /\ RecoverySteps /\ InstallSteps)'
  BY <1>1 DEF NoneLeft, RecoverySteps, Recovering, InstallSteps, Usable,
     TornIsJournaled, JournalSound, NoJournal, NotInstalled
<1> QED BY <1>2, <1>3, <1>4

(* The tree is being removed.                                              *)
LEMMA CutTreeInv ==
  ASSUME PackageInv, CutTree
  PROVE  PackageInv'
<1> USE NoneAssumption DEF PackageInv, PackageTypeOK, OrNone, Registered,
           CutTree, At, storeVars
<1>1. PackageTypeOK'
  OBVIOUS
<1>2. (ManifestHasRelease /\ JournalSound /\ TornIsJournaled)'
  <2>1. \A c \in Content : \/ releases'[c] = releases[c]
                           \/ releases[c] = "whole" /\ releases'[c] = "cut"
    OBVIOUS
  <2>2. ManifestHasRelease'
    BY <2>1 DEF ManifestHasRelease, Usable
  <2>3. JournalSound'
    BY <2>1 DEF JournalSound, Usable
  <2>4. TornIsJournaled'
    BY <2>1 DEF TornIsJournaled
  <2> QED BY <2>2, <2>3, <2>4
<1>3. ((NoneLeft => journal = NoJournal) /\ RecoverySteps /\ InstallSteps)'
  BY DEF NoneLeft, RecoverySteps, Recovering, InstallSteps, Usable,
     TornIsJournaled, JournalSound, NoJournal, NotInstalled
<1> QED BY <1>1, <1>2, <1>3

(* The tree is gone.                                                       *)
LEMMA RemoveTreeInv ==
  ASSUME PackageInv, RemoveTree
  PROVE  PackageInv'
<1> USE NoneAssumption DEF PackageInv, PackageTypeOK, OrNone, Registered,
           RemoveTree, At, storeVars
<1>1. /\ pkg' \in [at : Steps, kind : Kinds, target : OrNone]
      /\ pkg'.at = "forget"
      /\ pkg'.kind = pkg.kind
      /\ pkg'.target = pkg.target
  BY GoStep DEF Steps, Kinds
<1>2. PackageTypeOK'
  BY <1>1 DEF NotInstalled, NoJournal
<1>3. (ManifestHasRelease /\ JournalSound /\ TornIsJournaled)'
  BY <1>1 DEF ManifestHasRelease, JournalSound, TornIsJournaled, Usable,
     NoneLeft, RecoverySteps, Recovering, InstallSteps, NoJournal, NotInstalled
<1>4. ((NoneLeft => journal = NoJournal) /\ RecoverySteps /\ InstallSteps)'
  BY <1>1 DEF NoneLeft, RecoverySteps, Recovering, InstallSteps, Usable,
     TornIsJournaled, JournalSound, NoJournal, NotInstalled
<1> QED BY <1>2, <1>3, <1>4

(* The state file goes last.                                               *)
LEMMA ForgetStateInv ==
  ASSUME PackageInv, ForgetState
  PROVE  PackageInv'
<1> USE NoneAssumption DEF PackageInv, PackageTypeOK, OrNone, Registered,
           ForgetState, At, storeVars
<1>1. /\ pkg' \in [at : Steps, kind : Kinds, target : OrNone]
      /\ pkg'.at = "reload"
      /\ pkg'.kind = pkg.kind
      /\ pkg'.target = pkg.target
  BY GoStep DEF Steps, Kinds
<1>2. PackageTypeOK'
  BY <1>1 DEF NotInstalled, NoJournal
<1>3. (ManifestHasRelease /\ JournalSound /\ TornIsJournaled)'
  BY <1>1 DEF ManifestHasRelease, JournalSound, TornIsJournaled, Usable,
     NoneLeft, RecoverySteps, Recovering, InstallSteps, NoJournal, NotInstalled
<1>4. ((NoneLeft => journal = NoJournal) /\ RecoverySteps /\ InstallSteps)'
  BY <1>1 DEF NoneLeft, RecoverySteps, Recovering, InstallSteps, Usable,
     TornIsJournaled, JournalSound, NoJournal, NotInstalled
<1> QED BY <1>2, <1>3, <1>4

(* Every step of the package thread keeps the invariant.                   *)
LEMMA PackageStepInv ==
  ASSUME PackageInv, PackageStep
  PROVE  PackageInv'
<1>1. CASE Recovery
  BY <1>1, RecoverNothingInv, RecoverCurrentInv, RecoverManifestInv,
     RecoverStateInv, TearTargetInv, RecoverTargetInv, RecoverJournalInv
     DEF Recovery
<1>2. CASE Install
  BY <1>2, PrepareInv, RefuseInstallInv, RefreshInstallInv,
     BeginInstallInv,
     PublishReleaseInv, PublishManifestInv, PublishCurrentInv,
     PublishStateInv, CommitInstallInv, RemoveStaleInv, EndInstallInv
     DEF Install
<1>3. CASE Others
  BY <1>3, BeginRollbackInv, BeginUninstallInv, UnregisterInv, CutTreeInv,
     RemoveTreeInv, ForgetStateInv DEF Others
<1> QED BY <1>1, <1>2, <1>3 DEF PackageStep

(* A request that is given up, wherever it was, leaves files that the next *)
(* recovery can start from.                                                *)
LEMMA GivenUpInv ==
  ASSUME PackageInv, UNCHANGED storeVars,
         pkg' \in [at : Steps, kind : Kinds, target : OrNone],
         pkg'.at \in {"idle", "recover", "load"},
         pkg'.kind = "install" => pkg'.target \in Content
  PROVE  PackageInv'
<1> USE DEF PackageInv, PackageTypeOK, storeVars
<1>1. (PackageTypeOK /\ ManifestHasRelease /\ JournalSound)'
  BY DEF ManifestHasRelease, JournalSound, Usable
<1>2. (TornIsJournaled /\ (NoneLeft => journal = NoJournal))'
  BY DEF TornIsJournaled, NoneLeft
<1>3. (RecoverySteps /\ InstallSteps)'
  BY DEF RecoverySteps, Recovering, InstallSteps
<1> QED BY <1>1, <1>2, <1>3

(* A failing file operation, however the install that meets it reacts.     *)
LEMMA PackageFailsInv ==
  ASSUME PackageInv, PackageFails
  PROVE  PackageInv'
<1>1. /\ UNCHANGED storeVars
      /\ \/ pkg' = [pkg EXCEPT !.at = "recover", !.kind = "abort"]
         \/ Go("recover") \/ Ends
  BY DEF PackageFails
<1>2. CASE pkg' = [pkg EXCEPT !.at = "recover", !.kind = "abort"]
  <2>1. /\ pkg' \in [at : Steps, kind : Kinds, target : OrNone]
        /\ pkg'.at = "recover" /\ pkg'.kind = "abort"
    BY <1>2 DEF PackageInv, PackageTypeOK, Steps, Kinds
  <2> QED BY <1>1, <2>1, GivenUpInv
<1>3. CASE Go("recover")
  <2>1. /\ pkg' \in [at : Steps, kind : Kinds, target : OrNone]
        /\ pkg'.at = "recover" /\ pkg'.kind = pkg.kind
        /\ pkg'.target = pkg.target
    BY <1>3, GoStep DEF PackageInv, Steps
  <2>2. pkg.kind = "install" => pkg.target \in Content
    BY DEF PackageInv, InstallSteps
  <2> QED BY <1>1, <2>1, <2>2, GivenUpInv
<1>4. CASE Ends
  BY <1>1, <1>4, EndsStep, GivenUpInv
<1> QED BY <1>1, <1>2, <1>3, <1>4

(* The journal an install leaves when it cannot begin is a sound one.      *)
LEMMA JournalFailsInv ==
  ASSUME PackageInv, JournalFails
  PROVE  PackageInv'
<1>1. CASE journal' = journal
  BY <1>1, EndsStep, GivenUpInv DEF JournalFails, storeVars
<1>2. CASE journal' = Journaled
  <2>1. /\ pkg' \in [at : Steps, kind : Kinds, target : OrNone]
        /\ pkg'.at = "idle" /\ pkg'.kind = "none"
    BY EndsStep DEF JournalFails
  <2> USE NoneAssumption DEF PackageInv, PackageTypeOK, OrNone, Registered,
          JournalFails, At, Journaled, PreviousContent, Present
  <2>2. PackageTypeOK'
    BY <1>2, <2>1 DEF NotInstalled
  <2>3. (ManifestHasRelease /\ JournalSound /\ TornIsJournaled)'
    BY <1>2, <2>1 DEF ManifestHasRelease, JournalSound, TornIsJournaled,
       Usable, NoneLeft, InstallSteps
  <2>4. ((NoneLeft => journal = NoJournal) /\ RecoverySteps /\ InstallSteps)'
    BY <2>1 DEF NoneLeft, RecoverySteps, Recovering, InstallSteps
  <2> QED BY <2>2, <2>3, <2>4
<1> QED BY <1>1, <1>2 DEF JournalFails

(* A crash keeps it: every journal is recovered before anything else.      *)
LEMMA PackageCrashInv ==
  ASSUME PackageInv, PackageCrash
  PROVE  PackageInv'
<1>1. /\ pkg' \in [at : Steps, kind : Kinds, target : OrNone]
      /\ pkg'.at = "recover" /\ pkg'.kind = "boot"
  BY DEF PackageCrash, NoRequest, Steps, Kinds, OrNone
<1> QED BY <1>1, GivenUpInv DEF PackageCrash

(* A request that is accepted has touched nothing yet.                     *)
LEMMA AskInv ==
  ASSUME PackageInv, NEW kind \in Kinds, NEW c \in OrNone, Ask(kind, c),
         kind = "install" => c \in Content
  PROVE  PackageInv'
<1> USE DEF PackageInv, PackageTypeOK, Ask, storeVars
<1>1. /\ pkg' \in [at : Steps, kind : Kinds, target : OrNone]
      /\ pkg'.at \in {"recover", "close"} /\ pkg'.kind = kind
      /\ pkg'.target = c
      /\ kind = "install" => pkg'.at = "recover"
  BY DEF Steps
<1>2. (PackageTypeOK /\ ManifestHasRelease /\ JournalSound)'
  BY <1>1 DEF ManifestHasRelease, JournalSound, Usable
<1>3. (TornIsJournaled /\ (NoneLeft => journal = NoJournal))'
  BY <1>1 DEF TornIsJournaled, NoneLeft
<1>4. (RecoverySteps /\ InstallSteps)'
  BY <1>1 DEF RecoverySteps, Recovering, InstallSteps
<1> QED BY <1>2, <1>3, <1>4

(* Closing the application moves a request on.                             *)
LEMMA CloseInv ==
  ASSUME PackageInv, Close
  PROVE  PackageInv'
<1> USE DEF PackageInv, PackageTypeOK, Close, storeVars, At
<1>1. /\ pkg' \in [at : Steps, kind : Kinds, target : OrNone]
      /\ pkg'.at = (IF pkg.kind = "install" THEN "begin" ELSE "recover")
      /\ pkg'.kind = pkg.kind /\ pkg'.target = pkg.target
  BY GoStep DEF Steps
<1>2. (PackageTypeOK /\ ManifestHasRelease /\ JournalSound)'
  BY <1>1 DEF ManifestHasRelease, JournalSound, Usable
<1>3. (TornIsJournaled /\ (NoneLeft => journal = NoJournal))'
  BY <1>1 DEF TornIsJournaled, NoneLeft
<1>4. (RecoverySteps /\ InstallSteps)'
  BY <1>1 DEF RecoverySteps, Recovering, InstallSteps
<1> QED BY <1>2, <1>3, <1>4

(* The steps that touch neither the files nor the request.                 *)
LEMMA ElsewhereInv ==
  ASSUME PackageInv, UNCHANGED packageVars
  PROVE  PackageInv'
<1>1. UNCHANGED <<releases, current, manifest, installed, journal, pkg>>
  BY DEF packageVars, storeVars
<1>2. (PackageTypeOK /\ ManifestHasRelease)'
  BY <1>1 DEF PackageInv, PackageTypeOK, ManifestHasRelease, Usable
<1>3. (JournalSound /\ TornIsJournaled)'
  BY <1>1 DEF PackageInv, JournalSound, TornIsJournaled, Usable
<1>4. (NoneLeft => journal = NoJournal)'
  BY <1>1 DEF PackageInv, NoneLeft
<1>5. (RecoverySteps /\ InstallSteps)'
  BY <1>1 DEF PackageInv, RecoverySteps, Recovering, InstallSteps, Usable
<1> QED BY <1>2, <1>3, <1>4, <1>5 DEF PackageInv

(* Every step of the system keeps the invariant.                           *)
LEMMA UpgradeNextInv == PackageInv /\ [Next]_vars => PackageInv'
<1> SUFFICES ASSUME PackageInv, [Next]_vars PROVE PackageInv'
  OBVIOUS
<1>1. CASE \E c \in Content : Ask("install", c)
  BY <1>1, AskInv DEF Kinds, OrNone
<1>2. CASE Ask("rollback", None) \/ Ask("uninstall", None)
  BY <1>2, AskInv DEF Kinds, OrNone
<1>3. CASE Close
  BY <1>3, CloseInv
<1>4. CASE Reload \/ Boot
  BY <1>4, EndsStep, GivenUpInv DEF Reload, Boot
<1>5. CASE Package
  BY <1>5, PackageStepInv DEF Package
<1>6. CASE PackageFault
  BY <1>6, PackageFailsInv, JournalFailsInv DEF PackageFault
<1>7. CASE DaemonCrashes \/ PowerFails
  BY <1>7, PackageCrashInv DEF DaemonCrashes, PowerFails
<1>8. CASE UNCHANGED packageVars
  BY <1>8, ElsewhereInv
<1>9. CASE \/ OtherReload \/ PrepareLaunch \/ StartRunner \/ LoadManifest
           \/ Runner \/ RunnerFault \/ LaunchEnds \/ LaunchFails
           \/ AppExits \/ AppWrites \/ AgentWrites
  BY <1>9, ElsewhereInv DEF OtherReload, PrepareLaunch, StartRunner,
     LoadManifest, Runner, RunnerFault, LaunchEnds, LaunchFails,
     AppExits, AppWrites, AgentWrites
<1>10. CASE UNCHANGED vars
  BY <1>10, ElsewhereInv DEF vars
<1> QED
  BY <1>1, <1>2, <1>3, <1>4, <1>5, <1>6, <1>7, <1>9, <1>10 DEF Next

(* The store starts empty.                                                 *)
LEMMA UpgradeInitInv == Init => PackageInv
  BY NoneAssumption
  DEF Init, StoreInit, PackageInv, PackageTypeOK, ManifestHasRelease,
      JournalSound, TornIsJournaled, Usable, NoneLeft, RecoverySteps,
      Recovering, InstallSteps, NoRequest, NoJournal, NotInstalled, OrNone,
      Registered, Steps, Kinds

(* The registered manifest always names a release that is there, whatever  *)
(* was interrupted and however often (the manager's publish and recovery   *)
(* order).                                                                 *)
THEOREM RegisteredReleaseIsThere == Spec => []ManifestHasRelease
<1>1. PackageInv => ManifestHasRelease
  BY DEF PackageInv
<1> QED BY <1>1, UpgradeInitInv, UpgradeNextInv, PTL DEF Spec

(* Only the end of a recovery and the commit of an install remove a        *)
(* journal.                                                                *)
LEMMA JournalRemoved ==
  ASSUME PackageInv, [Next]_vars, journal # NoJournal, journal' = NoJournal
  PROVE  RecoverJournal \/ CommitInstall
<1>1. CASE PackageStep
  BY <1>1 DEF PackageStep, Recovery, Install, Others, Prepare, RecoverNothing,
     RecoverCurrent, RecoverManifest, RecoverState, TearTarget,
     RecoverTarget, RefuseInstall, RefreshInstall, BeginInstall,
     PublishRelease, PublishManifest, PublishCurrent, PublishState,
     RemoveStale, EndInstall, BeginRollback, BeginUninstall, Unregister,
     CutTree, RemoveTree, ForgetState, storeVars, PackageInv, NoneLeft, At
<1>2. CASE JournalFails
  BY <1>2 DEF JournalFails, PackageInv, NoneLeft, At
<1>3. CASE UNCHANGED journal
  BY <1>3
<1>4. PackageStep \/ JournalFails \/ UNCHANGED journal
  BY DEF Next, vars, packageVars, storeVars, Ask, Close, Reload, OtherReload,
     Boot, Package, PackageFault, PackageFails, PrepareLaunch, StartRunner,
     LoadManifest, Runner, RunnerFault, LaunchEnds, LaunchFails, AppExits,
     AppWrites, AgentWrites, DaemonCrashes, PowerFails, PackageCrash
<1> QED BY <1>1, <1>2, <1>3, <1>4

(* An install is all or nothing: when its journal goes away the store is   *)
(* wholly what it was or wholly what was meant.                            *)
THEOREM InstallIsAllOrNothing == Spec => AllOrNothing
<1>1. ASSUME PackageInv, RecoverJournal
      PROVE  Before
  BY <1>1 DEF RecoverJournal, Before, PackageInv, RecoverySteps, Recovering,
     At
<1>2. ASSUME PackageInv, CommitInstall
      PROVE  After
  BY <1>2 DEF CommitInstall, After, PackageInv, InstallSteps, At
<1>3. PackageInv /\ [Next]_vars =>
      [journal # NoJournal /\ journal' = NoJournal =>
         Before \/ After]_packageVars
  BY <1>1, <1>2, JournalRemoved
<1> QED
  BY <1>3, UpgradeInitInv, UpgradeNextInv, PTL DEF Spec, AllOrNothing

-----------------------------------------------------------------------------
(***************************************************************************)
(* The data of the application, for a background service that systemd      *)
(* fences, as long as no reload has started it beside unsettled data       *)
(***************************************************************************)
Image == [is : {"intact", "mixed", "gone"}, ver : Nat, rev : Nat]
Busy ==
  {"load", "recover", "committed ready", "committed clear", "restore", "restored clear",
   "retire", "decide", "same ready", "same prepared", "snapshot", "clear ready",
   "publish pending", "prepared", "migrate", "publish state", "publish ready",
   "clear pending", "complete"}
RunnerStates ==
  [at : Busy \cup {"off", "up"}, version : 0 .. MaxVersion, todo : SUBSET Source,
   copy : [Source -> Image], name : Names \cup {NoMigration}, failing : BOOLEAN]

DataTypeOK ==
  /\ data \in [Source -> Image] /\ saved \in [Source -> Nat]
  /\ applied \in Names \cup {NoMigration} /\ pending \in Names \cup {NoMigration}
  /\ ready \in 0 .. MaxVersion
  /\ snaps \in [Names -> [Source -> Image]]
  /\ runner \in RunnerStates

(* The fence names the version of the record once nothing is journaled.     *)
DiskInv ==
  /\ DataIsSafe
  /\ Unresolved => applied.to = pending.from
  /\ pending = NoMigration /\ ready # 0 => ready = applied.to

(* What a step of the runner finds, from the steps before it: nothing is    *)
(* journaled,                                                              *)
QuietSteps ==
  /\ runner.at \in {"retire", "decide", "same ready", "same prepared", "snapshot",
                    "clear ready", "publish pending", "complete", "up"} =>
       pending = NoMigration
  /\ runner.at \in {"same ready", "same prepared", "complete", "up"} =>
       applied.to = runner.version /\ runner.version # 0
  /\ runner.at \in {"same prepared", "complete", "up"} => ready = runner.version
  /\ runner.at \in {"snapshot", "clear ready", "publish pending"} => Here \in Names
  /\ runner.at = "snapshot" => \A s \in Source \ runner.todo : runner.copy[s] = data[s]
  /\ runner.at \in {"clear ready", "publish pending"} => IntactAt(snaps[Here], applied.to)
  /\ runner.at \in Busy \ {"load"} => runner.version # 0

(* or its own transaction is,                                              *)
MigrationSteps ==
  /\ runner.at \in {"prepared", "migrate", "publish state"} => Here \in Names /\ pending = Here
  /\ runner.at = "prepared" => IntactAt(data, pending.from)
  /\ runner.at = "migrate" => \A s \in Source :
       /\ data[s].rev = saved[s]
       /\ s \notin runner.todo => data[s] = Intact(runner.version, saved[s])
  /\ runner.at = "publish state" => IntactAt(data, runner.version)
  /\ runner.at \in {"publish ready", "clear pending"} => Committed /\ pending.to = runner.version
  /\ runner.at = "clear pending" => ready = runner.version

(* or one that was interrupted or failed.                                  *)
RecoverySide ==
  /\ runner.at \in {"committed ready", "committed clear"} => Committed
  /\ runner.at = "committed clear" => ready = pending.to
  /\ runner.at \in {"restore", "restored clear"} => Unresolved
  /\ runner.at = "restore" => \A s \in Source \ runner.todo : data[s] = snaps[pending][s]
  /\ runner.at = "restored clear" => IntactAt(data, pending.from) /\ ready = pending.from

(* A runner is at work only in a launch, or after a death of the daemon, and*)
(* has not reported yet that its data are settled.                          *)
LaunchInv ==
  /\ loaded \in OrNone /\ launch.content \in OrNone
  /\ runner.at \in Busy =>
       /\ launch # NoLaunch \/ pkg.kind = "boot"
       /\ "complete" \notin phases
  /\ launch # NoLaunch => pkg.kind # "boot"
  /\ pkg.kind = "boot" => pkg.at \in {"recover", "load"} \cup Recovering

(* The background service runs only beside a settled schema.               *)
AgentInv ==
  agent # 0 =>
    /\ agent \in Versions /\ MayStart(agent)
    /\ ~Unsettled /\ runner.at \notin Busy

(* The part of the invariant that is about the files and the runner.        *)
CoreInv == DataTypeOK /\ DiskInv /\ QuietSteps /\ MigrationSteps /\ RecoverySide

SchemaInv == CoreInv /\ LaunchInv /\ AgentInv

(* What a step of the runner changes of it.                                *)
LEMMA RunnerGoes ==
  ASSUME runner \in RunnerStates, NEW step \in Busy \cup {"off", "up"}, RunnerGo(step)
  PROVE  /\ runner' \in RunnerStates /\ runner'.at = step
         /\ runner'.version = runner.version /\ runner'.todo = runner.todo
         /\ runner'.copy = runner.copy
  BY DEF RunnerGo, RunnerStates

(* A step that starts anew with every source.                              *)
LEMMA RunnerDoes ==
  ASSUME runner \in RunnerStates, NEW step \in Busy \cup {"off", "up"}, RunnerDo(step, Source)
  PROVE  /\ runner' \in RunnerStates /\ runner'.at = step
         /\ runner'.version = runner.version /\ runner'.todo = Source
         /\ runner'.copy = runner.copy
  BY DEF RunnerDo, RunnerStates

(* A step that is done with one source.                                    *)
LEMMA RunnerIsDone ==
  ASSUME runner \in RunnerStates, NEW s \in Source, Done(s)
  PROVE  /\ runner' \in RunnerStates /\ runner'.at = runner.at
         /\ runner'.version = runner.version /\ runner'.todo = runner.todo \ {s}
         /\ runner'.copy = runner.copy
  BY DEF Done, RunnerStates

(* The runner that is not there, and the snapshot that is not there.       *)
LEMMA RunnerIsOff ==
  /\ RunnerOff \in RunnerStates /\ RunnerOff.at = "off"
  /\ NoSnapshot \in [Source -> Image]
<1>1. NoSnapshot \in [Source -> Image]
  BY DEF NoSnapshot, Image, Gone, Intact
<1> QED BY <1>1, SchemaAssumption DEF RunnerOff, RunnerStates, SchemaAssumption

(* The fields of an intact image.                                          *)
LEMMA IntactIs == \A v, r : Intact(v, r).rev = r /\ Intact(v, r).is = "intact"
  BY DEF Intact

(* The names of the migrations and the versions in them.                   *)
LEMMA Numbers ==
  ASSUME CoreInv
  PROVE  /\ applied.to \in 0 .. MaxVersion /\ pending.from \in 0 .. MaxVersion
         /\ pending.to \in 0 .. MaxVersion /\ runner.version \in 0 .. MaxVersion
         /\ pending # NoMigration => pending \in Names /\ pending.from < pending.to
         /\ applied # NoMigration => applied \in Names
         /\ NoMigration.to = 0
         /\ Here.from = applied.to /\ Here.to = runner.version
         /\ Here \in Names => /\ Here # NoMigration /\ applied # Here
                            /\ applied.to < runner.version
         /\ runner.version # 0 => runner.version \in Versions
<1>1. MaxVersion \in Nat
  BY SchemaAssumption DEF SchemaAssumption
<1>2. \A n \in Names : n.from \in 0 .. MaxVersion /\ n.to \in 0 .. MaxVersion /\ n.from < n.to
  BY <1>1 DEF Names, Versions
<1>3. NoMigration.from = 0 /\ NoMigration.to = 0
  BY DEF NoMigration
<1>4. /\ applied \in Names \cup {NoMigration} /\ pending \in Names \cup {NoMigration}
      /\ runner.version \in 0 .. MaxVersion
  BY DEF CoreInv, DataTypeOK, RunnerStates
<1>5. Here.from = applied.to /\ Here.to = runner.version
  BY DEF Here
<1>6. Here \in Names => Here # NoMigration
  BY <1>2, <1>3
<1>7. Here \in Names => applied # Here
  <2>1. ASSUME Here \in Names, applied = Here PROVE FALSE
    <3>1. Here.from < Here.to /\ Here.from = Here.to /\ Here.from \in 0 .. MaxVersion
      BY <2>1, <1>2, <1>5
    <3> QED BY <3>1, <1>1
  <2> QED BY <2>1
<1> QED BY <1>1, <1>2, <1>3, <1>4, <1>5, <1>6, <1>7 DEF Versions

(* The files as they are settled, or as a journal has them.                 *)
LEMMA DiskHere ==
  ASSUME DiskInv
  PROVE  /\ Unresolved => /\ IntactAt(snaps[pending], pending.from)
                          /\ applied.to = pending.from
         /\ ~Unresolved => IntactAt(data, applied.to)
         /\ pending = NoMigration => ~Unresolved
         /\ pending = NoMigration /\ ready # 0 => ready = applied.to
  BY DEF DiskInv, DataIsSafe, Unresolved

(* With nothing journaled, the data are of the recorded version.           *)
LEMMA DiskSettled ==
  ASSUME ~Unresolved', IntactAt(data, applied.to)',
         (pending = NoMigration /\ ready # 0 => ready = applied.to)'
  PROVE  DiskInv'
  BY DEF DiskInv, DataIsSafe

(* With a migration journaled, its snapshot has the data.                  *)
LEMMA DiskJournaled ==
  ASSUME Unresolved', IntactAt(snaps[pending], pending.from)',
         (applied.to = pending.from)'
  PROVE  DiskInv'
<1>1. pending' # NoMigration
  BY DEF Unresolved, NoMigration
<1> QED BY <1>1 DEF DiskInv, DataIsSafe, NoMigration

(* The name of the migration, while the runner is at one.                   *)
LEMMA HereIs ==
  ASSUME CoreInv,
         runner.at \in {"snapshot", "clear ready", "publish pending", "prepared", "migrate",
                        "publish state"}
  PROVE  /\ Here \in Names /\ Here # NoMigration /\ applied # Here
         /\ Here.from = applied.to /\ Here.to = runner.version
         /\ UNCHANGED applied /\ runner'.version = runner.version => Here' = Here
<1>1. Here \in Names
  BY DEF CoreInv, QuietSteps, MigrationSteps
<1>2. UNCHANGED applied /\ runner'.version = runner.version => Here' = Here
  BY DEF Here
<1>3. applied # Here
  BY <1>1, Numbers
<1> QED BY <1>1, <1>2, <1>3, Numbers

(* The recovery of a committed migration: the fence, then the journal.    *)
LEMMA CommittedReadyCore ==
  ASSUME CoreInv, CommittedReady
  PROVE  CoreInv'
<1>1. /\ runner.at = "committed ready" /\ runner'.at = "committed clear" /\ runner' \in RunnerStates
      /\ runner'.version = runner.version /\ runner'.copy = runner.copy
      /\ runner'.todo = runner.todo
      /\ UNCHANGED <<data, applied, pending, snaps, saved>>
      /\ ready' = pending.to
  BY RunnerGoes DEF CommittedReady, RunnerAt, Busy, diskVars, CoreInv, DataTypeOK
<1>2. DataTypeOK /\ DiskInv /\ QuietSteps /\ MigrationSteps /\ RecoverySide
  BY DEF CoreInv
<1>3. DataTypeOK'
  BY <1>1, <1>2, Numbers, SchemaAssumption DEF DataTypeOK, SchemaAssumption, Versions
<1>4. DiskInv'
  BY <1>1, <1>2, Numbers DEF DiskInv, DataIsSafe, IntactAt, Committed, Unresolved, Here
<1>5. QuietSteps'
  BY <1>1, <1>2, Numbers DEF QuietSteps, Busy, IntactAt, Committed, Unresolved, Here
<1>6. MigrationSteps'
  BY <1>1, <1>2, Numbers DEF MigrationSteps, IntactAt, Committed, Unresolved, Here
<1>7. RecoverySide'
  BY <1>1, <1>2, Numbers DEF RecoverySide, IntactAt, Committed, Unresolved, Here
<1> QED BY <1>3, <1>4, <1>5, <1>6, <1>7 DEF CoreInv

(* The journal of a committed migration goes last.                        *)
LEMMA CommittedClearCore ==
  ASSUME CoreInv, CommittedClear
  PROVE  CoreInv'
<1>1. /\ runner.at = "committed clear" /\ runner'.at = "decide" /\ runner' \in RunnerStates
      /\ runner'.version = runner.version /\ runner'.copy = runner.copy
      /\ runner'.todo = runner.todo
      /\ UNCHANGED <<data, applied, ready, snaps, saved>>
      /\ pending' = NoMigration
  BY RunnerGoes DEF CommittedClear, RunnerAt, Busy, diskVars, CoreInv, DataTypeOK
<1>2. DataTypeOK /\ DiskInv /\ QuietSteps /\ MigrationSteps /\ RecoverySide
  BY DEF CoreInv
<1>3. DataTypeOK'
  BY <1>1, <1>2, Numbers, SchemaAssumption DEF DataTypeOK, SchemaAssumption, Versions
<1>4. DiskInv'
  <2>1. ~Unresolved /\ ~Unresolved'
    BY <1>1, <1>2 DEF RecoverySide, Unresolved, Committed
  <2>2. IntactAt(data, applied.to)'
    BY <1>1, <1>2, <2>1, DiskHere DEF IntactAt
  <2>3. (pending = NoMigration /\ ready # 0 => ready = applied.to)'
    BY <1>1, <1>2 DEF RecoverySide, Committed
  <2> QED BY <2>1, <2>2, <2>3, DiskSettled
<1>5. QuietSteps'
  BY <1>1, <1>2, Numbers DEF QuietSteps, Busy, IntactAt, Committed, Unresolved, Here
<1>6. MigrationSteps'
  BY <1>1, <1>2, Numbers DEF MigrationSteps, IntactAt, Committed, Unresolved, Here
<1>7. RecoverySide'
  BY <1>1, <1>2, Numbers DEF RecoverySide, IntactAt, Committed, Unresolved, Here
<1> QED BY <1>3, <1>4, <1>5, <1>6, <1>7 DEF CoreInv

(* What was restored is the data of the source version, and the fence says so.*)
LEMMA RestoredReadyCore ==
  ASSUME CoreInv, RestoredReady
  PROVE  CoreInv'
<1>1. /\ runner.at = "restore" /\ runner'.at = "restored clear" /\ runner' \in RunnerStates
      /\ runner'.version = runner.version /\ runner'.copy = runner.copy
      /\ runner'.todo = runner.todo
      /\ UNCHANGED <<data, applied, pending, snaps, saved>>
      /\ ready' = pending.from /\ runner.todo = {}
  BY RunnerGoes DEF RestoredReady, RunnerAt, Busy, diskVars, CoreInv, DataTypeOK
<1>2. DataTypeOK /\ DiskInv /\ QuietSteps /\ MigrationSteps /\ RecoverySide
  BY DEF CoreInv
<1>3. DataTypeOK'
  BY <1>1, <1>2, Numbers, SchemaAssumption DEF DataTypeOK, SchemaAssumption, Versions
<1>4. DiskInv'
  <2>1. Unresolved'
    BY <1>1, <1>2 DEF RecoverySide, Unresolved, Committed
  <2>2. IntactAt(snaps[pending], pending.from)'
    BY <1>1, <1>2, DiskHere DEF RecoverySide, IntactAt
  <2>3. (applied.to = pending.from)'
    BY <1>1, <1>2, DiskHere DEF RecoverySide
  <2> QED BY <2>1, <2>2, <2>3, DiskJournaled
<1>5. QuietSteps'
  BY <1>1, <1>2, Numbers DEF QuietSteps, Busy, IntactAt, Committed, Unresolved, Here
<1>6. MigrationSteps'
  BY <1>1, <1>2, Numbers DEF MigrationSteps, IntactAt, Committed, Unresolved, Here
<1>7. RecoverySide'
  <2>1. Unresolved /\ Unresolved'
    BY <1>1, <1>2 DEF RecoverySide, Unresolved, Committed
  <2>2. IntactAt(snaps[pending], pending.from)
    BY <2>1, <1>2, DiskHere
  <2>3. \A s \in Source : data[s] = snaps[pending][s]
    BY <1>1, <1>2 DEF RecoverySide
  <2>4. IntactAt(data, pending.from)'
    BY <2>2, <2>3, <1>1 DEF IntactAt
  <2> QED BY <1>1, <2>1, <2>4 DEF RecoverySide
<1> QED BY <1>3, <1>4, <1>5, <1>6, <1>7 DEF CoreInv

(* The data is at the version of the manifest.                            *)
LEMMA SameReadyCore ==
  ASSUME CoreInv, SameReady
  PROVE  CoreInv'
<1>1. /\ runner.at = "same ready" /\ runner'.at = "same prepared" /\ runner' \in RunnerStates
      /\ runner'.version = runner.version /\ runner'.copy = runner.copy
      /\ runner'.todo = runner.todo
      /\ UNCHANGED <<data, applied, pending, snaps, saved>>
      /\ ready' = runner.version
  BY RunnerGoes DEF SameReady, RunnerAt, Busy, diskVars, CoreInv, DataTypeOK
<1>2. DataTypeOK /\ DiskInv /\ QuietSteps /\ MigrationSteps /\ RecoverySide
  BY DEF CoreInv
<1>3. DataTypeOK'
  BY <1>1, <1>2, Numbers, SchemaAssumption DEF DataTypeOK, SchemaAssumption, Versions
<1>4. DiskInv'
  <2>1. ~Unresolved /\ ~Unresolved'
    BY <1>1, <1>2 DEF QuietSteps, Unresolved, Committed
  <2>2. IntactAt(data, applied.to)'
    BY <1>1, <1>2, <2>1, DiskHere DEF IntactAt
  <2>3. (pending = NoMigration /\ ready # 0 => ready = applied.to)'
    BY <1>1, <1>2 DEF QuietSteps
  <2> QED BY <2>1, <2>2, <2>3, DiskSettled
<1>5. QuietSteps'
  BY <1>1, <1>2, Numbers DEF QuietSteps, Busy, IntactAt, Committed, Unresolved, Here
<1>6. MigrationSteps'
  BY <1>1, <1>2, Numbers DEF MigrationSteps, IntactAt, Committed, Unresolved, Here
<1>7. RecoverySide'
  BY <1>1, <1>2, Numbers DEF RecoverySide, IntactAt, Committed, Unresolved, Here
<1> QED BY <1>3, <1>4, <1>5, <1>6, <1>7 DEF CoreInv

(* The first marker.                                                      *)
LEMMA SamePreparedCore ==
  ASSUME CoreInv, SamePrepared
  PROVE  CoreInv'
<1>1. /\ runner.at = "same prepared" /\ runner'.at = "complete" /\ runner' \in RunnerStates
      /\ runner'.version = runner.version /\ runner'.copy = runner.copy
      /\ runner'.todo = runner.todo
      /\ UNCHANGED <<data, applied, ready, pending, snaps, saved>>
  BY RunnerGoes DEF SamePrepared, RunnerAt, Busy, diskVars, CoreInv, DataTypeOK
<1>2. DataTypeOK /\ DiskInv /\ QuietSteps /\ MigrationSteps /\ RecoverySide
  BY DEF CoreInv
<1>3. DataTypeOK'
  BY <1>1, <1>2, Numbers, SchemaAssumption DEF DataTypeOK, SchemaAssumption, Versions
<1>4. DiskInv'
  BY <1>1, <1>2, Numbers DEF DiskInv, DataIsSafe, IntactAt, Committed, Unresolved, Here
<1>5. QuietSteps'
  BY <1>1, <1>2, Numbers DEF QuietSteps, Busy, IntactAt, Committed, Unresolved, Here
<1>6. MigrationSteps'
  BY <1>1, <1>2, Numbers DEF MigrationSteps, IntactAt, Committed, Unresolved, Here
<1>7. RecoverySide'
  BY <1>1, <1>2, Numbers DEF RecoverySide, IntactAt, Committed, Unresolved, Here
<1> QED BY <1>3, <1>4, <1>5, <1>6, <1>7 DEF CoreInv

(* The copies are those of the data, under the name of the migration.     *)
LEMMA PublishSnapshotCore ==
  ASSUME CoreInv, PublishSnapshot
  PROVE  CoreInv'
<1>1. /\ runner.at = "snapshot" /\ runner'.at = "clear ready" /\ runner' \in RunnerStates
      /\ runner'.version = runner.version /\ runner'.copy = runner.copy
      /\ runner'.todo = runner.todo
      /\ UNCHANGED <<data, applied, ready, pending, saved>>
      /\ snaps' = [snaps EXCEPT ![Here] = runner.copy] /\ runner.todo = {}
  BY RunnerGoes DEF PublishSnapshot, RunnerAt, Busy, diskVars, CoreInv, DataTypeOK
<1>2. DataTypeOK /\ DiskInv /\ QuietSteps /\ MigrationSteps /\ RecoverySide
  BY DEF CoreInv
<1>3. DataTypeOK'
  <2>1. snaps' \in [Names -> [Source -> Image]]
    BY <1>1, <1>2, HereIs DEF DataTypeOK, RunnerStates
  <2> QED BY <2>1, <1>1, <1>2 DEF DataTypeOK
<1>4. DiskInv'
  <2>1. ~Unresolved /\ ~Unresolved'
    BY <1>1, <1>2 DEF QuietSteps, Unresolved, Committed
  <2>2. IntactAt(data, applied.to)'
    BY <1>1, <1>2, <2>1, DiskHere DEF IntactAt
  <2>3. (pending = NoMigration /\ ready # 0 => ready = applied.to)'
    BY <1>1, <1>2 DEF QuietSteps, DiskInv
  <2> QED BY <2>1, <2>2, <2>3, DiskSettled
<1>5. QuietSteps'
  <2>1. Here' = Here /\ Here \in Names /\ pending' = NoMigration /\ runner.version # 0
    BY <1>1, <1>2, HereIs DEF QuietSteps, Busy
  <2>2. snaps'[Here] = runner.copy
    BY <1>1, <1>2, <2>1 DEF DataTypeOK
  <2>3. \A s \in Source : runner.copy[s] = data[s]
    BY <1>1, <1>2 DEF QuietSteps
  <2>4. IntactAt(data, applied.to)
    BY <1>1, <1>2, <2>1, DiskHere
  <2>5. IntactAt(snaps[Here], applied.to)'
    BY <1>1, <2>1, <2>2, <2>3, <2>4 DEF IntactAt
  <2> QED BY <1>1, <2>1, <2>5 DEF QuietSteps
<1>6. MigrationSteps'
  BY <1>1, <1>2, Numbers DEF MigrationSteps, IntactAt, Committed, Unresolved, Here
<1>7. RecoverySide'
  BY <1>1, <1>2, Numbers DEF RecoverySide, IntactAt, Committed, Unresolved, Here
<1> QED BY <1>3, <1>4, <1>5, <1>6, <1>7 DEF CoreInv

(* The fence goes down before the journal comes.                          *)
LEMMA ClearReadyCore ==
  ASSUME CoreInv, ClearReady
  PROVE  CoreInv'
<1>1. /\ runner.at = "clear ready" /\ runner'.at = "publish pending" /\ runner' \in RunnerStates
      /\ runner'.version = runner.version /\ runner'.copy = runner.copy
      /\ runner'.todo = runner.todo
      /\ UNCHANGED <<data, applied, pending, snaps, saved>>
      /\ ready' = 0
  BY RunnerGoes DEF ClearReady, RunnerAt, Busy, diskVars, CoreInv, DataTypeOK
<1>2. DataTypeOK /\ DiskInv /\ QuietSteps /\ MigrationSteps /\ RecoverySide
  BY DEF CoreInv
<1>3. DataTypeOK'
  <2>1. 0 \in 0 .. MaxVersion
    BY SchemaAssumption DEF SchemaAssumption
  <2> QED BY <2>1, <1>1, <1>2 DEF DataTypeOK
<1>4. DiskInv'
  BY <1>1, <1>2, Numbers DEF DiskInv, DataIsSafe, IntactAt, Committed, Unresolved, Here
<1>5. QuietSteps'
  BY <1>1, <1>2, Numbers DEF QuietSteps, Busy, IntactAt, Committed, Unresolved, Here
<1>6. MigrationSteps'
  BY <1>1, <1>2, Numbers DEF MigrationSteps, IntactAt, Committed, Unresolved, Here
<1>7. RecoverySide'
  BY <1>1, <1>2, Numbers DEF RecoverySide, IntactAt, Committed, Unresolved, Here
<1> QED BY <1>3, <1>4, <1>5, <1>6, <1>7 DEF CoreInv

(* From here on the snapshot is what counts.                              *)
LEMMA PublishPendingCore ==
  ASSUME CoreInv, PublishPending
  PROVE  CoreInv'
<1>1. /\ runner.at = "publish pending" /\ runner'.at = "prepared" /\ runner' \in RunnerStates
      /\ runner'.version = runner.version /\ runner'.copy = runner.copy
      /\ runner'.todo = runner.todo
      /\ UNCHANGED <<data, applied, ready, snaps, saved>>
      /\ pending' = Here
  BY RunnerGoes DEF PublishPending, RunnerAt, Busy, diskVars, CoreInv, DataTypeOK
<1>2. DataTypeOK /\ DiskInv /\ QuietSteps /\ MigrationSteps /\ RecoverySide
  BY DEF CoreInv
<1>3. DataTypeOK'
  <2>1. pending' \in Names
    BY <1>1, HereIs
  <2> QED BY <2>1, <1>1, <1>2 DEF DataTypeOK
<1>4. DiskInv'
  <2>1. Unresolved'
    BY <1>1, <1>2, HereIs DEF Unresolved, Committed
  <2>2. IntactAt(snaps[pending], pending.from)'
    BY <1>1, <1>2, Numbers DEF QuietSteps, IntactAt, CoreInv
  <2>3. (applied.to = pending.from)'
    BY <1>1, <1>2, Numbers
  <2> QED BY <2>1, <2>2, <2>3, DiskJournaled
<1>5. QuietSteps'
  BY <1>1, <1>2, Numbers DEF QuietSteps, Busy, IntactAt, Committed, Unresolved, Here
<1>6. MigrationSteps'
  <2>1. Here' = Here /\ Here \in Names /\ pending' = Here /\ Here.from = applied.to
    BY <1>1, HereIs
  <2>2. IntactAt(data, applied.to)
    BY <1>1, <1>2, DiskHere DEF QuietSteps
  <2>3. IntactAt(data, pending.from)'
    BY <1>1, <2>1, <2>2 DEF IntactAt
  <2> QED BY <1>1, <2>1, <2>3 DEF MigrationSteps
<1>7. RecoverySide'
  BY <1>1, <1>2, Numbers DEF RecoverySide, IntactAt, Committed, Unresolved, Here
<1> QED BY <1>3, <1>4, <1>5, <1>6, <1>7 DEF CoreInv

(* The migrator begins with nothing done.                                 *)
LEMMA PreparedCore ==
  ASSUME CoreInv, Prepared
  PROVE  CoreInv'
<1>1. /\ runner.at = "prepared" /\ runner'.at = "migrate" /\ runner' \in RunnerStates
      /\ runner'.version = runner.version /\ runner'.copy = runner.copy
      /\ runner'.todo = Source
      /\ UNCHANGED <<data, applied, ready, pending, snaps, saved>>
  BY RunnerDoes DEF Prepared, RunnerAt, Busy, diskVars, CoreInv, DataTypeOK
<1>2. DataTypeOK /\ DiskInv /\ QuietSteps /\ MigrationSteps /\ RecoverySide
  BY DEF CoreInv
<1>3. DataTypeOK'
  BY <1>1, <1>2, Numbers, SchemaAssumption DEF DataTypeOK, SchemaAssumption, Versions
<1>4. DiskInv'
  BY <1>1, <1>2, Numbers DEF DiskInv, DataIsSafe, IntactAt, Committed, Unresolved, Here
<1>5. QuietSteps'
  BY <1>1, <1>2, Numbers DEF QuietSteps, Busy, IntactAt, Committed, Unresolved, Here
<1>6. MigrationSteps'
  <2>1. Here' = Here /\ Here \in Names /\ pending' = Here
    BY <1>1, <1>2, HereIs DEF MigrationSteps
  <2>2. \A s \in Source : data[s].rev = saved[s]
    BY <1>1, <1>2, IntactIs DEF MigrationSteps, IntactAt
  <2> QED BY <1>1, <2>1, <2>2 DEF MigrationSteps
<1>7. RecoverySide'
  BY <1>1, <1>2, Numbers DEF RecoverySide, IntactAt, Committed, Unresolved, Here
<1> QED BY <1>3, <1>4, <1>5, <1>6, <1>7 DEF CoreInv

(* Every path is at the new version.                                      *)
LEMMA MigratorSucceedsCore ==
  ASSUME CoreInv, MigratorSucceeds
  PROVE  CoreInv'
<1>1. /\ runner.at = "migrate" /\ runner'.at = "publish state" /\ runner' \in RunnerStates
      /\ runner'.version = runner.version /\ runner'.copy = runner.copy
      /\ runner'.todo = runner.todo
      /\ UNCHANGED <<data, applied, ready, pending, snaps, saved>>
      /\ runner.todo = {}
  BY RunnerGoes DEF MigratorSucceeds, RunnerAt, Busy, diskVars, CoreInv, DataTypeOK
<1>2. DataTypeOK /\ DiskInv /\ QuietSteps /\ MigrationSteps /\ RecoverySide
  BY DEF CoreInv
<1>3. DataTypeOK'
  BY <1>1, <1>2, Numbers, SchemaAssumption DEF DataTypeOK, SchemaAssumption, Versions
<1>4. DiskInv'
  BY <1>1, <1>2, Numbers DEF DiskInv, DataIsSafe, IntactAt, Committed, Unresolved, Here
<1>5. QuietSteps'
  BY <1>1, <1>2, Numbers DEF QuietSteps, Busy, IntactAt, Committed, Unresolved, Here
<1>6. MigrationSteps'
  BY <1>1, <1>2, Numbers DEF MigrationSteps, IntactAt, Committed, Unresolved, Here
<1>7. RecoverySide'
  BY <1>1, <1>2, Numbers DEF RecoverySide, IntactAt, Committed, Unresolved, Here
<1> QED BY <1>3, <1>4, <1>5, <1>6, <1>7 DEF CoreInv

(* The commit: from here on the data counts again.                        *)
LEMMA PublishAppliedCore ==
  ASSUME CoreInv, PublishApplied
  PROVE  CoreInv'
<1>1. /\ runner.at = "publish state" /\ runner'.at = "publish ready" /\ runner' \in RunnerStates
      /\ runner'.version = runner.version /\ runner'.copy = runner.copy
      /\ runner'.todo = runner.todo
      /\ UNCHANGED <<data, ready, pending, snaps, saved>>
      /\ applied' = Here
  BY RunnerGoes DEF PublishApplied, RunnerAt, Busy, diskVars, CoreInv, DataTypeOK
<1>2. DataTypeOK /\ DiskInv /\ QuietSteps /\ MigrationSteps /\ RecoverySide
  BY DEF CoreInv
<1>3. DataTypeOK'
  <2>1. applied' \in Names
    BY <1>1, HereIs
  <2> QED BY <2>1, <1>1, <1>2 DEF DataTypeOK
<1>4. DiskInv'
  <2>1. ~Unresolved' /\ pending' # NoMigration
    BY <1>1, <1>2, Numbers DEF MigrationSteps, Unresolved, Committed
  <2>2. IntactAt(data, applied.to)'
    BY <1>1, <1>2, Numbers DEF MigrationSteps, IntactAt
  <2> QED BY <2>1, <2>2, DiskSettled
<1>5. QuietSteps'
  BY <1>1, <1>2, Numbers DEF QuietSteps, Busy, IntactAt, Committed, Unresolved, Here
<1>6. MigrationSteps'
  BY <1>1, <1>2, Numbers DEF MigrationSteps, IntactAt, Committed, Unresolved, Here
<1>7. RecoverySide'
  BY <1>1, <1>2, Numbers DEF RecoverySide, IntactAt, Committed, Unresolved, Here
<1> QED BY <1>3, <1>4, <1>5, <1>6, <1>7 DEF CoreInv

(* The fence of the new version.                                          *)
LEMMA PublishReadyCore ==
  ASSUME CoreInv, PublishReady
  PROVE  CoreInv'
<1>1. /\ runner.at = "publish ready" /\ runner'.at = "clear pending" /\ runner' \in RunnerStates
      /\ runner'.version = runner.version /\ runner'.copy = runner.copy
      /\ runner'.todo = runner.todo
      /\ UNCHANGED <<data, applied, pending, snaps, saved>>
      /\ ready' = runner.version
  BY RunnerGoes DEF PublishReady, RunnerAt, Busy, diskVars, CoreInv, DataTypeOK
<1>2. DataTypeOK /\ DiskInv /\ QuietSteps /\ MigrationSteps /\ RecoverySide
  BY DEF CoreInv
<1>3. DataTypeOK'
  BY <1>1, <1>2, Numbers, SchemaAssumption DEF DataTypeOK, SchemaAssumption, Versions
<1>4. DiskInv'
  <2>1. ~Unresolved /\ ~Unresolved'
    BY <1>1, <1>2 DEF MigrationSteps, Unresolved, Committed
  <2>2. IntactAt(data, applied.to)'
    BY <1>1, <1>2, <2>1, DiskHere DEF IntactAt
  <2>3. (pending = NoMigration /\ ready # 0 => ready = applied.to)'
    BY <1>1, <1>2, Numbers DEF MigrationSteps, Committed
  <2> QED BY <2>1, <2>2, <2>3, DiskSettled
<1>5. QuietSteps'
  BY <1>1, <1>2, Numbers DEF QuietSteps, Busy, IntactAt, Committed, Unresolved, Here
<1>6. MigrationSteps'
  BY <1>1, <1>2, Numbers DEF MigrationSteps, IntactAt, Committed, Unresolved, Here
<1>7. RecoverySide'
  BY <1>1, <1>2, Numbers DEF RecoverySide, IntactAt, Committed, Unresolved, Here
<1> QED BY <1>3, <1>4, <1>5, <1>6, <1>7 DEF CoreInv

(* The journal goes when the fence is there.                              *)
LEMMA ClearPendingCore ==
  ASSUME CoreInv, ClearPending
  PROVE  CoreInv'
<1>1. /\ runner.at = "clear pending" /\ runner'.at = "complete" /\ runner' \in RunnerStates
      /\ runner'.version = runner.version /\ runner'.copy = runner.copy
      /\ runner'.todo = runner.todo
      /\ UNCHANGED <<data, applied, ready, snaps, saved>>
      /\ pending' = NoMigration
  BY RunnerGoes DEF ClearPending, RunnerAt, Busy, diskVars, CoreInv, DataTypeOK
<1>2. DataTypeOK /\ DiskInv /\ QuietSteps /\ MigrationSteps /\ RecoverySide
  BY DEF CoreInv
<1>3. DataTypeOK'
  BY <1>1, <1>2, Numbers, SchemaAssumption DEF DataTypeOK, SchemaAssumption, Versions
<1>4. DiskInv'
  <2>1. ~Unresolved /\ ~Unresolved'
    BY <1>1, <1>2 DEF MigrationSteps, Unresolved, Committed
  <2>2. IntactAt(data, applied.to)'
    BY <1>1, <1>2, <2>1, DiskHere DEF IntactAt
  <2>3. (pending = NoMigration /\ ready # 0 => ready = applied.to)'
    BY <1>1, <1>2, Numbers DEF MigrationSteps, Committed
  <2> QED BY <2>1, <2>2, <2>3, DiskSettled
<1>5. QuietSteps'
  <2>1. applied.to = runner.version /\ runner.version # 0 /\ ready = runner.version
    BY <1>1, <1>2 DEF MigrationSteps, Committed, QuietSteps, Busy
  <2> QED BY <1>1, <2>1 DEF QuietSteps
<1>6. MigrationSteps'
  BY <1>1, <1>2, Numbers DEF MigrationSteps, IntactAt, Committed, Unresolved, Here
<1>7. RecoverySide'
  BY <1>1, <1>2, Numbers DEF RecoverySide, IntactAt, Committed, Unresolved, Here
<1> QED BY <1>3, <1>4, <1>5, <1>6, <1>7 DEF CoreInv

(* The second marker, and the application.                                *)
LEMMA CompleteCore ==
  ASSUME CoreInv, Complete
  PROVE  CoreInv'
<1>1. /\ runner.at = "complete" /\ runner'.at = "up" /\ runner' \in RunnerStates
      /\ runner'.version = runner.version /\ runner'.copy = runner.copy
      /\ runner'.todo = runner.todo
      /\ UNCHANGED <<data, applied, ready, pending, snaps, saved>>
  BY RunnerGoes DEF Complete, RunnerAt, Busy, diskVars, CoreInv, DataTypeOK
<1>2. DataTypeOK /\ DiskInv /\ QuietSteps /\ MigrationSteps /\ RecoverySide
  BY DEF CoreInv
<1>3. DataTypeOK'
  BY <1>1, <1>2, Numbers, SchemaAssumption DEF DataTypeOK, SchemaAssumption, Versions
<1>4. DiskInv'
  BY <1>1, <1>2, Numbers DEF DiskInv, DataIsSafe, IntactAt, Committed, Unresolved, Here
<1>5. QuietSteps'
  BY <1>1, <1>2, Numbers DEF QuietSteps, Busy, IntactAt, Committed, Unresolved, Here
<1>6. MigrationSteps'
  BY <1>1, <1>2, Numbers DEF MigrationSteps, IntactAt, Committed, Unresolved, Here
<1>7. RecoverySide'
  BY <1>1, <1>2, Numbers DEF RecoverySide, IntactAt, Committed, Unresolved, Here
<1> QED BY <1>3, <1>4, <1>5, <1>6, <1>7 DEF CoreInv

(* A step that leaves the files alone.                                      *)
LEMMA DiskKept ==
  ASSUME DiskInv, UNCHANGED <<data, applied, ready, pending, snaps, saved>>
  PROVE  /\ DiskInv' /\ Unresolved' = Unresolved /\ Committed' = Committed
<1>1. Unresolved' = Unresolved /\ Committed' = Committed
  BY DEF Unresolved, Committed
<1> QED BY <1>1 DEF DiskInv, DataIsSafe, IntactAt

(* A runner that is gone, or that has done nothing yet, expects nothing.    *)
LEMMA RunnerIdles ==
  ASSUME CoreInv, UNCHANGED <<diskVars, saved>>, runner' \in RunnerStates,
         runner'.at \in {"off", "load", "recover"},
         runner'.at = "recover" => runner'.version # 0
  PROVE  CoreInv'
<1>1. /\ UNCHANGED <<data, applied, ready, pending, snaps, saved>>
      /\ DataTypeOK /\ DiskInv
  BY DEF diskVars, CoreInv
<1>2. DataTypeOK'
  BY <1>1 DEF DataTypeOK
<1>3. DiskInv'
  BY <1>1, DiskKept
<1>4. QuietSteps'
  BY <1>1 DEF QuietSteps, Busy
<1>5. MigrationSteps'
  BY DEF MigrationSteps
<1>6. RecoverySide'
  BY DEF RecoverySide
<1> QED BY <1>2, <1>3, <1>4, <1>5, <1>6 DEF CoreInv

(* A runner that goes away keeps what the disk promises.                   *)
LEMMA RunnerTurnsOff ==
  ASSUME CoreInv, UNCHANGED <<diskVars, saved>>, runner' = RunnerOff
  PROVE  CoreInv'
  BY RunnerIdles, RunnerIsOff

(* What recovery finds decides which way it goes.                           *)
LEMMA SettlePendingCore ==
  ASSUME CoreInv, SettlePending
  PROVE  CoreInv'
<1>1. /\ runner.at = "recover" /\ UNCHANGED <<data, applied, ready, pending, snaps, saved>>
      /\ UNCHANGED <<diskVars, saved>>
  BY DEF SettlePending, RunnerAt, diskVars
<1>2. /\ DataTypeOK /\ DiskInv /\ QuietSteps /\ runner \in RunnerStates
      /\ runner.version # 0
  BY <1>1 DEF CoreInv, DataTypeOK, QuietSteps, Busy
<1>3. /\ DiskInv' /\ Unresolved' = Unresolved /\ Committed' = Committed
  BY <1>1, <1>2, DiskKept
<1>4. CASE pending = NoMigration /\ RunnerGo("decide")
  <2>1. /\ runner' \in RunnerStates /\ runner'.at = "decide"
        /\ runner'.version = runner.version
    BY <1>2, <1>4, RunnerGoes DEF Busy
  <2>2. DataTypeOK'
    BY <1>1, <1>2, <2>1 DEF DataTypeOK
  <2>3. QuietSteps'
    BY <1>1, <1>2, <1>4, <2>1 DEF QuietSteps
  <2>4. MigrationSteps' /\ RecoverySide'
    BY <2>1 DEF MigrationSteps, RecoverySide
  <2> QED BY <1>3, <2>2, <2>3, <2>4 DEF CoreInv
<1>5. CASE Committed /\ RunnerGo("committed ready")
  <2>1. /\ runner' \in RunnerStates /\ runner'.at = "committed ready"
        /\ runner'.version = runner.version
    BY <1>2, <1>5, RunnerGoes DEF Busy
  <2>2. DataTypeOK'
    BY <1>1, <1>2, <2>1 DEF DataTypeOK
  <2>3. QuietSteps'
    BY <1>2, <2>1 DEF QuietSteps
  <2>4. MigrationSteps' /\ RecoverySide'
    BY <1>3, <1>5, <2>1 DEF MigrationSteps, RecoverySide
  <2> QED BY <1>3, <2>2, <2>3, <2>4 DEF CoreInv
<1>6. CASE pending # NoMigration /\ ~Committed /\ RunnerDo("restore", Source)
  <2>1. /\ runner' \in RunnerStates /\ runner'.at = "restore"
        /\ runner'.version = runner.version /\ runner'.todo = Source
    BY <1>2, <1>6, RunnerDoes DEF Busy
  <2>2. DataTypeOK'
    BY <1>1, <1>2, <2>1 DEF DataTypeOK
  <2>3. QuietSteps'
    BY <1>2, <2>1 DEF QuietSteps
  <2>4. Unresolved'
    BY <1>3, <1>6 DEF Unresolved
  <2>5. MigrationSteps' /\ RecoverySide'
    BY <2>1, <2>4 DEF MigrationSteps, RecoverySide
  <2> QED BY <1>3, <2>2, <2>3, <2>5 DEF CoreInv
<1>7. CASE runner' = RunnerOff
  BY <1>1, <1>7, RunnerTurnsOff
<1> QED BY <1>4, <1>5, <1>6, <1>7 DEF SettlePending

(* A restore takes one path away, then puts the copy in its place; what it  *)
(* did not reach yet does not matter, as the journal is still there.        *)
LEMMA RestoreOutCore ==
  ASSUME CoreInv, NEW s \in Source, RestoreOut(s)
  PROVE  CoreInv'
<1>1. /\ runner.at = "restore" /\ s \in runner.todo
      /\ data' = [data EXCEPT ![s] = Gone(@)]
      /\ UNCHANGED <<applied, ready, pending, snaps, runner, saved>>
  BY DEF RestoreOut, RunnerAt
<1>2. DataTypeOK /\ DiskInv /\ QuietSteps /\ MigrationSteps /\ RecoverySide
  BY DEF CoreInv
<1>3. Unresolved /\ Unresolved'
  BY <1>1, <1>2 DEF RecoverySide, Unresolved, Committed
<1>4. DataTypeOK'
  <2>1. Gone(data[s]) \in Image
    BY <1>2 DEF DataTypeOK, Gone, Image
  <2> QED BY <1>1, <1>2, <2>1 DEF DataTypeOK
<1>5. DiskInv'
  <2>1. IntactAt(snaps[pending], pending.from)'
    BY <1>1, <1>2, <1>3, DiskHere DEF IntactAt
  <2>2. (applied.to = pending.from)'
    BY <1>1, <1>2, <1>3, DiskHere
  <2> QED BY <1>3, <2>1, <2>2, DiskJournaled
<1>6. QuietSteps'
  BY <1>1, <1>2 DEF QuietSteps, Here
<1>7. MigrationSteps'
  BY <1>1 DEF MigrationSteps
<1>8. RecoverySide'
  BY <1>1, <1>2, <1>3 DEF RecoverySide, DataTypeOK
<1> QED BY <1>4, <1>5, <1>6, <1>7, <1>8 DEF CoreInv

(* Restoring one source gives back what its snapshot has.                  *)
LEMMA RestoreInCore ==
  ASSUME CoreInv, NEW s \in Source, RestoreIn(s)
  PROVE  CoreInv'
<1>1. /\ runner.at = "restore" /\ s \in runner.todo
      /\ data' = [data EXCEPT ![s] = snaps[pending][s]]
      /\ UNCHANGED <<applied, ready, pending, snaps, saved>>
  BY DEF RestoreIn, RunnerAt
<1>2. DataTypeOK /\ DiskInv /\ QuietSteps /\ MigrationSteps /\ RecoverySide
  BY DEF CoreInv
<1>3. /\ runner' \in RunnerStates /\ runner'.at = "restore"
      /\ runner'.version = runner.version /\ runner'.todo = runner.todo \ {s}
  BY <1>1, <1>2, RunnerIsDone DEF RestoreIn, DataTypeOK
<1>4. Unresolved /\ Unresolved'
  BY <1>1, <1>2 DEF RecoverySide, Unresolved, Committed
<1>5. DataTypeOK'
  <2>1. snaps[pending][s] \in Image
    BY <1>2, <1>4 DEF DataTypeOK, Unresolved
  <2> QED BY <1>1, <1>2, <1>3, <2>1 DEF DataTypeOK
<1>6. DiskInv'
  <2>1. IntactAt(snaps[pending], pending.from)'
    BY <1>1, <1>2, <1>4, DiskHere DEF IntactAt
  <2>2. (applied.to = pending.from)'
    BY <1>1, <1>2, <1>4, DiskHere
  <2> QED BY <1>4, <2>1, <2>2, DiskJournaled
<1>7. QuietSteps'
  BY <1>1, <1>2, <1>3 DEF QuietSteps, Here
<1>8. MigrationSteps'
  BY <1>3 DEF MigrationSteps
<1>9. RecoverySide'
  <2>1. \A t \in Source \ runner'.todo : data'[t] = snaps[pending][t]
    BY <1>1, <1>2, <1>3 DEF RecoverySide, DataTypeOK
  <2> QED BY <1>1, <1>3, <1>4, <2>1 DEF RecoverySide
<1> QED BY <1>5, <1>6, <1>7, <1>8, <1>9 DEF CoreInv

(* The journal goes when every path is restored and the fence is back.      *)
LEMMA RestoredClearCore ==
  ASSUME CoreInv, RestoredClear
  PROVE  CoreInv'
<1>1. /\ runner.at = "restored clear" /\ pending' = NoMigration
      /\ runner' = [runner EXCEPT !.at = "retire", !.name = pending]
      /\ UNCHANGED <<data, applied, ready, snaps, saved>>
  BY DEF RestoredClear, RunnerAt
<1>2. DataTypeOK /\ DiskInv /\ QuietSteps /\ MigrationSteps /\ RecoverySide
  BY DEF CoreInv
<1>3. /\ runner' \in RunnerStates /\ runner'.at = "retire"
      /\ runner'.version = runner.version
  BY <1>1, <1>2 DEF DataTypeOK, RunnerStates, Busy
<1>4. applied.to = pending.from /\ IntactAt(data, pending.from) /\ ready = pending.from
  BY <1>1, <1>2, DiskHere DEF RecoverySide
<1>5. DataTypeOK'
  BY <1>1, <1>2, <1>3 DEF DataTypeOK
<1>6. DiskInv'
  <2>1. ~Unresolved'
    BY <1>1 DEF Unresolved
  <2>2. IntactAt(data, applied.to)'
    BY <1>1, <1>4 DEF IntactAt
  <2>3. (pending = NoMigration /\ ready # 0 => ready = applied.to)'
    BY <1>1, <1>4
  <2> QED BY <2>1, <2>2, <2>3, DiskSettled
<1>7. QuietSteps'
  BY <1>1, <1>2, <1>3 DEF QuietSteps, Busy
<1>8. MigrationSteps' /\ RecoverySide'
  BY <1>3 DEF MigrationSteps, RecoverySide
<1> QED BY <1>5, <1>6, <1>7, <1>8 DEF CoreInv

(* A snapshot nothing names any more is removed.                            *)
LEMMA SnapshotGoes ==
  ASSUME CoreInv, NEW n, snaps' = [snaps EXCEPT ![n] = NoSnapshot],
         pending = NoMigration, UNCHANGED <<data, applied, ready, pending, saved>>
  PROVE  DiskInv' /\ snaps' \in [Names -> [Source -> Image]]
<1>1. DataTypeOK /\ DiskInv
  BY DEF CoreInv
<1>2. ~Unresolved /\ ~Unresolved'
  BY DEF Unresolved
<1>3. IntactAt(data, applied.to)'
  BY <1>1, <1>2, DiskHere DEF IntactAt
<1>4. (pending = NoMigration /\ ready # 0 => ready = applied.to)'
  BY <1>1, DiskHere
<1>5. snaps' \in [Names -> [Source -> Image]]
  BY <1>1, RunnerIsOff DEF DataTypeOK
<1> QED BY <1>2, <1>3, <1>4, <1>5, DiskSettled

(* A snapshot is retired only with no journal that names it.               *)
LEMMA RetireCore ==
  ASSUME CoreInv, Retire
  PROVE  CoreInv'
<1>1. /\ runner.at = "retire"
      /\ snaps' = [snaps EXCEPT ![runner.name] = NoSnapshot]
      /\ \/ runner' = RunnerOff
         \/ runner' = [runner EXCEPT !.at = "decide"]
      /\ UNCHANGED <<data, applied, ready, pending, saved>>
  BY DEF Retire, RunnerAt
<1>2. DataTypeOK /\ QuietSteps /\ pending = NoMigration /\ runner.version # 0
  BY <1>1 DEF CoreInv, QuietSteps, Busy
<1>3. /\ runner' \in RunnerStates /\ runner'.at \in {"off", "decide"}
      /\ runner'.at = "decide" => runner'.version # 0
  BY <1>1, <1>2, RunnerIsOff DEF DataTypeOK, RunnerStates, Busy
<1>4. DiskInv' /\ snaps' \in [Names -> [Source -> Image]]
  BY <1>1, <1>2, SnapshotGoes
<1>5. DataTypeOK'
  BY <1>1, <1>2, <1>3, <1>4 DEF DataTypeOK
<1>6. QuietSteps'
  BY <1>1, <1>2, <1>3 DEF QuietSteps, Busy
<1>7. MigrationSteps' /\ RecoverySide'
  BY <1>3 DEF MigrationSteps, RecoverySide
<1> QED BY <1>4, <1>5, <1>6, <1>7 DEF CoreInv

(* The version of the record decides what is left to do.                    *)
LEMMA DecideCore ==
  ASSUME CoreInv, Decide
  PROVE  CoreInv'
<1>1. /\ runner.at = "decide" /\ UNCHANGED <<data, applied, ready, pending, snaps, saved>>
      /\ UNCHANGED <<diskVars, saved>>
  BY DEF Decide, RunnerAt, diskVars
<1>2. /\ DataTypeOK /\ DiskInv /\ QuietSteps /\ runner \in RunnerStates
      /\ runner.version # 0 /\ pending = NoMigration
  BY <1>1 DEF CoreInv, DataTypeOK, QuietSteps, Busy
<1>3. DiskInv'
  BY <1>1, <1>2, DiskKept
<1>4. CASE applied.to = runner.version /\ RunnerGo("same ready")
  <2>1. /\ runner' \in RunnerStates /\ runner'.at = "same ready"
        /\ runner'.version = runner.version
    BY <1>2, <1>4, RunnerGoes DEF Busy
  <2>2. DataTypeOK'
    BY <1>1, <1>2, <2>1 DEF DataTypeOK
  <2>3. QuietSteps'
    BY <1>1, <1>2, <1>4, <2>1 DEF QuietSteps
  <2>4. MigrationSteps' /\ RecoverySide'
    BY <2>1 DEF MigrationSteps, RecoverySide
  <2> QED BY <1>3, <2>2, <2>3, <2>4 DEF CoreInv
<1>5. CASE applied.to < runner.version /\ RunnerDo("snapshot", Source)
  <2>1. /\ runner' \in RunnerStates /\ runner'.at = "snapshot"
        /\ runner'.version = runner.version /\ runner'.todo = Source
    BY <1>2, <1>5, RunnerDoes DEF Busy
  <2>2. DataTypeOK'
    BY <1>1, <1>2, <2>1 DEF DataTypeOK
  <2>3. Here' \in Names
    <3>1. /\ applied.to \in 0 .. MaxVersion /\ runner.version \in Versions
          /\ applied.to < runner.version
      BY <1>2, <1>5, Numbers
    <3> QED BY <3>1, <1>1, <2>1 DEF Here, Names
  <2>4. QuietSteps'
    BY <1>1, <1>2, <2>1, <2>3 DEF QuietSteps
  <2>5. MigrationSteps' /\ RecoverySide'
    BY <2>1 DEF MigrationSteps, RecoverySide
  <2> QED BY <1>3, <2>2, <2>4, <2>5 DEF CoreInv
<1>6. CASE runner' = RunnerOff
  BY <1>1, <1>6, RunnerTurnsOff
<1> QED BY <1>4, <1>5, <1>6 DEF Decide

(* The snapshot is taken path by path, of data nobody writes.               *)
LEMMA RetireOrphanCore ==
  ASSUME CoreInv, RetireOrphan
  PROVE  CoreInv'
<1>1. /\ runner.at = "snapshot" /\ snaps' = [snaps EXCEPT ![Here] = NoSnapshot]
      /\ UNCHANGED <<data, applied, ready, pending, runner, saved>>
  BY DEF RetireOrphan, RunnerAt
<1>2. DataTypeOK /\ QuietSteps /\ pending = NoMigration /\ Here' = Here
  BY <1>1, HereIs DEF CoreInv, QuietSteps
<1>3. DiskInv' /\ snaps' \in [Names -> [Source -> Image]]
  BY <1>1, <1>2, SnapshotGoes
<1>4. DataTypeOK'
  BY <1>1, <1>2, <1>3 DEF DataTypeOK
<1>5. QuietSteps'
  BY <1>1, <1>2 DEF QuietSteps
<1>6. MigrationSteps' /\ RecoverySide'
  BY <1>1 DEF MigrationSteps, RecoverySide
<1> QED BY <1>3, <1>4, <1>5, <1>6 DEF CoreInv

(* Copying one source into the snapshot leaves the data alone.             *)
LEMMA CaptureCore ==
  ASSUME CoreInv, NEW s \in Source, Capture(s)
  PROVE  CoreInv'
<1>1. /\ runner.at = "snapshot"
      /\ runner' = [runner EXCEPT !.copy[s] = data[s], !.todo = @ \ {s}]
      /\ UNCHANGED <<data, applied, ready, pending, snaps, saved>>
  BY DEF Capture, RunnerAt, diskVars
<1>2. /\ DataTypeOK /\ DiskInv /\ QuietSteps /\ pending = NoMigration
      /\ data[s] \in Image /\ runner.version # 0
  BY <1>1 DEF CoreInv, QuietSteps, DataTypeOK, Busy
<1>3. /\ runner' \in RunnerStates /\ runner'.at = "snapshot"
      /\ runner'.version = runner.version /\ runner'.todo = runner.todo \ {s}
      /\ runner'.copy = [runner.copy EXCEPT ![s] = data[s]]
  BY <1>1, <1>2 DEF DataTypeOK, RunnerStates
<1>4. Here' = Here /\ Here \in Names
  BY <1>1, <1>3, HereIs
<1>5. DataTypeOK'
  BY <1>1, <1>2, <1>3 DEF DataTypeOK
<1>6. DiskInv'
  BY <1>1, <1>2, DiskKept
<1>7. QuietSteps'
  <2>1. \A t \in Source \ runner'.todo : runner'.copy[t] = data[t]
    BY <1>1, <1>2, <1>3 DEF QuietSteps, DataTypeOK, RunnerStates
  <2> QED BY <1>1, <1>2, <1>3, <1>4, <2>1 DEF QuietSteps
<1>8. MigrationSteps' /\ RecoverySide'
  BY <1>3 DEF MigrationSteps, RecoverySide
<1> QED BY <1>5, <1>6, <1>7, <1>8 DEF CoreInv

(* While the migrator is at it the journal names the snapshot to go back to.*)
LEMMA MigratorIs ==
  ASSUME CoreInv, runner.at = "migrate"
  PROVE  /\ Unresolved /\ pending = Here /\ Here \in Names
         /\ IntactAt(snaps[pending], pending.from) /\ applied.to = pending.from
         /\ runner.version # 0
<1>1. pending = Here /\ Here # NoMigration /\ applied # Here /\ Here \in Names
  BY HereIs DEF CoreInv, MigrationSteps
<1>2. Unresolved
  BY <1>1 DEF Unresolved, Committed
<1> QED BY <1>1, <1>2, DiskHere DEF CoreInv, QuietSteps, Busy

(* A migrator at work mixes a source that the snapshot still has.          *)
LEMMA MigratorWritesCore ==
  ASSUME CoreInv, NEW s \in Source, MigratorWrites(s)
  PROVE  CoreInv'
<1>1. /\ runner.at = "migrate" /\ s \in runner.todo
      /\ data' = [data EXCEPT ![s] = Mixed(@)]
      /\ UNCHANGED <<applied, ready, pending, snaps, runner, saved>>
  BY DEF MigratorWrites, RunnerAt
<1>2. DataTypeOK /\ QuietSteps /\ MigrationSteps
  BY DEF CoreInv
<1>3. /\ Unresolved /\ Unresolved' /\ pending = Here /\ Here' = Here /\ Here \in Names
      /\ IntactAt(snaps[pending], pending.from) /\ applied.to = pending.from
  BY <1>1, MigratorIs DEF Unresolved, Committed, Here
<1>4. Mixed(data[s]) \in Image /\ Mixed(data[s]).rev = data[s].rev
  BY <1>2 DEF DataTypeOK, Mixed, Image
<1>5. DataTypeOK'
  BY <1>1, <1>2, <1>4 DEF DataTypeOK
<1>6. DiskInv'
  <2>1. IntactAt(snaps[pending], pending.from)' /\ (applied.to = pending.from)'
    BY <1>1, <1>3 DEF IntactAt
  <2> QED BY <1>3, <2>1, DiskJournaled
<1>7. QuietSteps'
  BY <1>1, <1>2 DEF QuietSteps
<1>8. MigrationSteps'
  <2>1. \A t \in Source :
          /\ data'[t].rev = saved[t]
          /\ t \notin runner.todo => data'[t] = Intact(runner.version, saved[t])
    BY <1>1, <1>2, <1>4 DEF MigrationSteps, DataTypeOK
  <2> QED BY <1>1, <1>3, <2>1 DEF MigrationSteps
<1>9. RecoverySide'
  BY <1>1 DEF RecoverySide
<1> QED BY <1>5, <1>6, <1>7, <1>8, <1>9 DEF CoreInv

(* A source the migrator is done with has the new version.                 *)
LEMMA MigratorFinishesCore ==
  ASSUME CoreInv, NEW s \in Source, MigratorFinishes(s)
  PROVE  CoreInv'
<1>1. /\ runner.at = "migrate"
      /\ data' = [data EXCEPT ![s] = Intact(runner.version, @.rev)]
      /\ UNCHANGED <<applied, ready, pending, snaps, saved>>
  BY DEF MigratorFinishes, RunnerAt
<1>2. DataTypeOK /\ QuietSteps /\ MigrationSteps
  BY DEF CoreInv
<1>3. /\ runner' \in RunnerStates /\ runner'.at = "migrate"
      /\ runner'.version = runner.version /\ runner'.todo = runner.todo \ {s}
  BY <1>1, <1>2, RunnerIsDone DEF MigratorFinishes, DataTypeOK
<1>4. /\ Unresolved /\ Unresolved' /\ pending = Here /\ Here' = Here /\ Here \in Names
      /\ IntactAt(snaps[pending], pending.from) /\ applied.to = pending.from
      /\ runner.version # 0
  BY <1>1, <1>3, MigratorIs DEF Unresolved, Committed, Here
<1>5. Intact(runner.version, data[s].rev) \in Image
  <2>1. runner.version \in Nat /\ data[s].rev \in Nat
    BY <1>2, Numbers DEF DataTypeOK, Image
  <2> QED BY <2>1 DEF Intact, Image
<1>6. DataTypeOK'
  BY <1>1, <1>2, <1>3, <1>5 DEF DataTypeOK
<1>7. DiskInv'
  <2>1. IntactAt(snaps[pending], pending.from)' /\ (applied.to = pending.from)'
    BY <1>1, <1>4 DEF IntactAt
  <2> QED BY <1>4, <2>1, DiskJournaled
<1>8. QuietSteps'
  BY <1>3, <1>4 DEF QuietSteps
<1>9. MigrationSteps'
  <2>1. \A t \in Source :
          /\ data'[t].rev = saved[t]
          /\ t \notin runner'.todo => data'[t] = Intact(runner.version, saved[t])
    BY <1>1, <1>2, <1>3, IntactIs DEF MigrationSteps, DataTypeOK
  <2> QED BY <1>1, <1>3, <1>4, <2>1 DEF MigrationSteps
<1>10. RecoverySide'
  BY <1>3 DEF RecoverySide
<1> QED BY <1>6, <1>7, <1>8, <1>9, <1>10 DEF CoreInv

(* A migrator that failed is followed by the restore of every path.         *)
LEMMA MigratorFailsCore ==
  ASSUME CoreInv, MigratorFails
  PROVE  CoreInv'
<1>1. /\ runner.at = "migrate" /\ UNCHANGED <<data, applied, ready, pending, snaps, saved>>
      /\ runner' = [runner EXCEPT !.at = "restore", !.todo = Source, !.failing = TRUE]
  BY DEF MigratorFails, RunnerAt, diskVars
<1>2. /\ DataTypeOK /\ DiskInv /\ Unresolved /\ runner.version # 0
  BY <1>1, MigratorIs DEF CoreInv
<1>3. /\ runner' \in RunnerStates /\ runner'.at = "restore"
      /\ runner'.version = runner.version /\ runner'.todo = Source
  BY <1>1, <1>2 DEF DataTypeOK, RunnerStates, Busy
<1>4. DiskInv' /\ Unresolved'
  BY <1>1, <1>2, DiskKept
<1>5. DataTypeOK'
  BY <1>1, <1>2, <1>3 DEF DataTypeOK
<1>6. QuietSteps'
  BY <1>2, <1>3 DEF QuietSteps
<1>7. MigrationSteps' /\ RecoverySide'
  BY <1>3, <1>4 DEF MigrationSteps, RecoverySide
<1> QED BY <1>4, <1>5, <1>6, <1>7 DEF CoreInv

(* A writer of the settled version, beside no migration.                    *)
LEMMA WritesCore ==
  ASSUME CoreInv, NEW s \in Source, NEW v, Writes(s, v), pending = NoMigration,
         runner.at \in {"off", "up"}
  PROVE  CoreInv'
<1>1. /\ data' = [data EXCEPT ![s].rev = @ + 1]
      /\ saved' = [saved EXCEPT ![s] = data[s].rev + 1]
      /\ UNCHANGED <<applied, ready, pending, snaps, runner>>
  BY DEF Writes
<1>2. DataTypeOK /\ DiskInv /\ QuietSteps
  BY DEF CoreInv
<1>3. ~Unresolved /\ ~Unresolved'
  BY <1>1 DEF Unresolved
<1>4. IntactAt(data, applied.to)
  BY <1>2, <1>3, DiskHere
<1>5. data[s] \in Image /\ data[s].rev + 1 \in Nat
  BY <1>2 DEF DataTypeOK, Image
<1>6. /\ data'[s] = [data[s] EXCEPT !.rev = @ + 1] /\ saved'[s] = data[s].rev + 1
      /\ \A t \in Source \ {s} : data'[t] = data[t] /\ saved'[t] = saved[t]
      /\ data'[s] \in Image
  BY <1>1, <1>2, <1>5 DEF DataTypeOK, Image
<1>7. DataTypeOK'
  BY <1>1, <1>2, <1>5, <1>6 DEF DataTypeOK
<1>8. DiskInv'
  <2>1. data'[s] = Intact(applied.to, saved'[s])
    <3>1. data[s] = Intact(applied.to, saved[s])
      BY <1>4 DEF IntactAt
    <3>2. \A a, r : [Intact(a, r) EXCEPT !.rev = @ + 1] = Intact(a, r + 1)
      BY DEF Intact
    <3>3. data'[s] = Intact(applied.to, saved[s] + 1)
      BY <1>6, <3>1, <3>2
    <3>4. data[s].rev = saved[s]
      BY <3>1, IntactIs
    <3> QED BY <1>6, <3>3, <3>4
  <2>2. IntactAt(data, applied.to)'
    BY <1>1, <1>4, <1>6, <2>1 DEF IntactAt
  <2>3. (pending = NoMigration /\ ready # 0 => ready = applied.to)'
    BY <1>1, <1>2, DiskHere
  <2> QED BY <1>3, <2>2, <2>3, DiskSettled
<1>9. QuietSteps'
  BY <1>1, <1>2 DEF QuietSteps, Busy
<1>10. MigrationSteps' /\ RecoverySide'
  BY <1>1 DEF MigrationSteps, RecoverySide
<1> QED BY <1>7, <1>8, <1>9, <1>10 DEF CoreInv

(* Every step of the runner.                                                *)
LEMMA RunnerCore ==
  ASSUME CoreInv, Recover \/ Apply
  PROVE  CoreInv'
<1>1. CASE Recover
  BY <1>1, SettlePendingCore, CommittedReadyCore, CommittedClearCore, RestoreOutCore,
     RestoreInCore, RestoredReadyCore, RestoredClearCore, RetireCore DEF Recover
<1>2. CASE Apply
  BY <1>2, DecideCore, SameReadyCore, SamePreparedCore, RetireOrphanCore, CaptureCore,
     PublishSnapshotCore, ClearReadyCore, PublishPendingCore, PreparedCore,
     MigratorWritesCore, MigratorFinishesCore, MigratorSucceedsCore, PublishAppliedCore,
     PublishReadyCore, ClearPendingCore, CompleteCore DEF Apply
<1> QED BY <1>1, <1>2

(* What a step of a package request makes of it: launches run beside an     *)
(* install that is not yet closing the application, and a boot ends only    *)
(* with the load of the manifests.                                          *)
LEMMA PackageMoves ==
  ASSUME PackageTypeOK, PackageStep
  PROVE  \/ UNCHANGED pkg
         \/ /\ pkg' = NoRequest
            /\ pkg.at \in {"recover"} \cup Recovering => pkg.kind # "boot"
            /\ pkg.at # "load"
         \/ /\ pkg'.kind = pkg.kind /\ pkg.at \in {"recover"} \cup Recovering
            /\ \/ pkg'.at \in Recovering
               \/ pkg.kind = "install" /\ pkg'.at = "prepare"
               \/ pkg.kind = "boot" /\ pkg'.at = "load"
               \/ pkg.kind \notin {"install", "boot"}
         \/ pkg'.kind = pkg.kind /\ pkg.at = "prepare" /\ pkg'.at = "close"
         \/ /\ pkg'.kind = pkg.kind
            /\ pkg.at \notin {"idle", "close", "prepare", "recover", "load"} \cup Recovering
<1>1. CASE RecoverNothing \/ RecoverJournal
  <2>1. pkg.at \in {"recover", "recover journal"}
    BY <1>1 DEF RecoverNothing, RecoverJournal, At
  <2>2. Recovered = "idle" => pkg.kind \notin {"install", "boot"}
    BY DEF Recovered
  <2>3. CASE Recovered = "idle" /\ Ends
    BY <2>1, <2>2, <2>3 DEF Ends, Recovering
  <2>4. CASE Recovered # "idle" /\ Go(Recovered)
    <3>1. /\ Recovered \in Steps
          /\ pkg.kind = "install" => Recovered = "prepare"
          /\ pkg.kind = "boot" => Recovered = "load"
      BY DEF Recovered, Steps
    <3>2. pkg'.at = Recovered /\ pkg'.kind = pkg.kind
      BY <2>4, <3>1, GoStep
    <3> QED BY <2>1, <3>1, <3>2 DEF Recovering
  <2> QED BY <1>1, <2>3, <2>4 DEF RecoverNothing, RecoverJournal
<1>2. CASE RecoverCurrent \/ RecoverManifest \/ RecoverState \/ RecoverTarget
  <2>1. /\ pkg'.kind = pkg.kind /\ pkg.at \in {"recover"} \cup Recovering
        /\ pkg'.at \in Recovering
    BY <1>2, GoStep DEF RecoverCurrent, RecoverManifest, RecoverState, RecoverTarget, At,
       Steps, Recovering
  <2> QED BY <2>1
<1>3. CASE TearTarget \/ CutTree \/ \E c \in Content : RemoveStale(c)
  BY <1>3 DEF TearTarget, CutTree, RemoveStale
<1>4. CASE Prepare
  <2>1. Go("close") => pkg'.at = "close" /\ pkg'.kind = pkg.kind
    BY GoStep DEF Steps
  <2> QED BY <1>4, <2>1 DEF Prepare, At, Ends, Recovering
<1>5. CASE RefuseInstall \/ (BeginUninstall /\ manifest = None) \/ (BeginRollback /\ Ends)
  BY <1>5 DEF RefuseInstall, BeginUninstall, BeginRollback, Ends, At, Recovering
<1>6. CASE BeginRollback /\ ~Ends
  <2>1. PICK c \in Content : pkg' = [pkg EXCEPT !.at = "manifest", !.target = c]
    BY <1>6 DEF BeginRollback, RollbackTargets
  <2>2. pkg'.kind = pkg.kind
    BY <2>1 DEF PackageTypeOK
  <2> QED BY <1>6, <2>2 DEF BeginRollback, At, Recovering
<1>7. CASE \/ RefreshInstall \/ BeginInstall \/ PublishRelease \/ PublishManifest
           \/ PublishCurrent \/ PublishState \/ CommitInstall \/ EndInstall
           \/ (BeginUninstall /\ manifest # None) \/ Unregister \/ RemoveTree \/ ForgetState
  <2>1. pkg.at \in {"begin", "rename", "manifest", "current", "state", "commit", "stale",
                    "unregister", "tree", "forget"}
    BY <1>7 DEF RefreshInstall, BeginInstall, PublishRelease, PublishManifest,
       PublishCurrent, PublishState, CommitInstall, EndInstall, BeginUninstall, Unregister,
       RemoveTree, ForgetState, At
  <2>2. \E step \in Steps : Go(step)
    BY <1>7 DEF RefreshInstall, BeginInstall, PublishRelease, PublishManifest,
       PublishCurrent, PublishState, CommitInstall, EndInstall, BeginUninstall, Unregister,
       RemoveTree, ForgetState, Steps
  <2>3. pkg'.kind = pkg.kind
    BY <2>2, GoStep
  <2> QED BY <2>1, <2>3 DEF Recovering
<1> QED
  BY <1>1, <1>2, <1>3, <1>4, <1>5, <1>6, <1>7 DEF PackageStep, Recovery, Install, Others

(* A step of a package request goes to a place a launch allows.            *)
LEMMA PackageKeepsLaunch ==
  ASSUME PackageTypeOK, LaunchInv, PackageStep, UNCHANGED <<runner, phases, loaded, launch>>
  PROVE  LaunchInv'
<1>1. NoRequest.at = "idle" /\ NoRequest.kind = "none"
  BY DEF NoRequest
<1> QED BY <1>1, PackageMoves DEF LaunchInv, Recovering

(* So does a failure in one.                                               *)
LEMMA FaultKeepsLaunch ==
  ASSUME PackageTypeOK, LaunchInv, PackageFails \/ JournalFails,
         UNCHANGED <<runner, phases, loaded, launch>>
  PROVE  LaunchInv'
<1>1. NoRequest.at = "idle" /\ NoRequest.kind = "none"
  BY DEF NoRequest
<1>2. CASE PackageFails /\ JournalWritten
  <2>1. /\ pkg.kind = "install" /\ pkg'.at = "recover" /\ pkg'.kind = "abort"
        /\ pkg.at \in {"rename", "manifest", "current", "state", "commit"}
    BY <1>2 DEF PackageFails, JournalWritten, PackageTypeOK
  <2> QED BY <2>1 DEF LaunchInv, Recovering
<1>3. CASE PackageFails /\ ~JournalWritten /\ pkg.kind = "boot"
  <2>1. Go("recover")
    BY <1>3 DEF PackageFails
  <2>2. pkg'.at = "recover" /\ pkg'.kind = "boot"
    BY <1>3, <2>1, GoStep DEF Steps
  <2> QED BY <1>3, <2>2 DEF LaunchInv
<1>4. CASE PackageFails /\ ~JournalWritten /\ pkg.kind # "boot"
  <2>1. pkg' = NoRequest
    BY <1>4 DEF PackageFails, Ends
  <2> QED BY <1>1, <1>4, <2>1 DEF LaunchInv
<1>5. CASE JournalFails
  <2>1. pkg' = NoRequest /\ pkg.kind = "install"
    BY <1>5 DEF JournalFails, Ends
  <2> QED BY <1>1, <2>1 DEF LaunchInv
<1> QED BY <1>2, <1>3, <1>4, <1>5

(* A background service that systemd lets in finds the fence and no journal.*)
LEMMA AgentStarts ==
  ASSUME Fenced, AgentInv, NEW c \in OrNone, UNCHANGED <<ready, pending>>,
         agent' = AgentOf(c), agent' # 0
  PROVE  agent' \in Versions /\ MayStart(agent)'
<1>1. CASE agent' = agent
  BY <1>1 DEF AgentInv, MayStart
<1>2. CASE agent' # agent
  <2>1. c \in Content /\ MayStart(SchemaOf[c]) /\ agent' = SchemaOf[c]
    BY <1>2 DEF AgentOf, OrNone
  <2> QED BY <2>1, UpgradeAssumption DEF UpgradeAssumption, MayStart
<1> QED BY <1>1, <1>2

(* Only a runner at work takes a step.                                      *)
LEMMA RunnerWorks ==
  ASSUME Recover \/ Apply \/ MigratorFails
  PROVE  runner.at \in Busy
  BY DEF Busy, Recover, Apply, RunnerAt, SettlePending, CommittedReady, CommittedClear,
     RestoreOut, RestoreIn, RestoredReady, RestoredClear, Retire, Decide, SameReady,
     SamePrepared, RetireOrphan, Capture, PublishSnapshot, ClearReady, PublishPending,
     Prepared, MigratorWrites, MigratorFinishes, MigratorSucceeds, PublishApplied,
     PublishReady, ClearPending, Complete, MigratorFails

(* A runner that reports its data settled is at work no more.               *)
LEMMA RunnerReports ==
  ASSUME CoreInv, Recover \/ Apply \/ MigratorFails
  PROVE  \/ phases' = phases \/ phases' = phases \cup {"prepared"}
         \/ runner'.at = "up"
  BY DEF CoreInv, DataTypeOK, RunnerStates, Recover, Apply, RunnerAt, RunnerGo, SettlePending,
     CommittedReady, CommittedClear, RestoreOut, RestoreIn, RestoredReady, RestoredClear,
     Retire, Decide, SameReady, SamePrepared, RetireOrphan, Capture, PublishSnapshot,
     ClearReady, PublishPending, Prepared, MigratorWrites, MigratorFinishes,
     MigratorSucceeds, PublishApplied, PublishReady, ClearPending, Complete, MigratorFails

(* A step elsewhere.                                                        *)
LEMMA CoreElsewhere ==
  ASSUME CoreInv, UNCHANGED <<diskVars, runner, saved>>
  PROVE  CoreInv'
<1>1. /\ UNCHANGED <<data, applied, ready, pending, snaps, runner, saved>>
      /\ DataTypeOK /\ DiskInv /\ QuietSteps /\ MigrationSteps /\ RecoverySide
  BY DEF diskVars, CoreInv
<1>2. DataTypeOK' /\ DiskInv'
  BY <1>1, DiskKept DEF DataTypeOK
<1>3. QuietSteps'
  BY <1>1 DEF QuietSteps, Here, IntactAt
<1>4. MigrationSteps'
  BY <1>1 DEF MigrationSteps, Here, IntactAt, Committed
<1>5. RecoverySide'
  BY <1>1 DEF RecoverySide, Committed, Unresolved, IntactAt
<1> QED BY <1>2, <1>3, <1>4, <1>5 DEF CoreInv

(* A request asks, closes and ends.                                         *)
LEMMA AskKeeps ==
  ASSUME SchemaInv, NEW kind \in {"install", "rollback", "uninstall"}, NEW c, Ask(kind, c)
  PROVE  SchemaInv'
<1>1. /\ UNCHANGED <<diskVars, runner, phases, saved, ready, pending, launch, loaded, agent>>
      /\ pkg = NoRequest /\ pkg'.kind = kind
      /\ pkg'.at = IF kind = "install" THEN "recover" ELSE "close"
  BY DEF Ask, schemaVars, diskVars
<1>2. CoreInv'
  BY <1>1, CoreElsewhere DEF SchemaInv
<1>3. LaunchInv'
  BY <1>1 DEF SchemaInv, LaunchInv, NoRequest
<1>4. AgentInv'
  BY <1>1 DEF SchemaInv, AgentInv, Unsettled, BackgroundRestoreIsSafe, MayStart
<1> QED BY <1>2, <1>3, <1>4 DEF SchemaInv

(* A close finds no launch and may end the runner and the service.         *)
LEMMA CloseKeeps ==
  ASSUME PackageTypeOK, SchemaInv, Close
  PROVE  SchemaInv'
<1>1. /\ UNCHANGED <<diskVars, phases, saved, ready, pending, launch, loaded>>
      /\ pkg.at = "close" /\ launch = NoLaunch
      /\ UNCHANGED <<runner, agent>> \/ (runner' = RunnerOff /\ agent' = 0)
  BY DEF Close, At, diskVars
<1>2. pkg'.kind = pkg.kind /\ pkg'.at \in {"begin", "recover"}
  BY GoStep DEF Close, Steps
<1>3. CoreInv'
  BY <1>1, CoreElsewhere, RunnerTurnsOff DEF SchemaInv
<1>4. runner'.at = runner.at \/ runner'.at = "off"
  BY <1>1, RunnerIsOff
<1>5. pkg.kind # "boot" /\ runner.at \notin Busy
  BY <1>1 DEF SchemaInv, LaunchInv, Recovering
<1>6. LaunchInv'
  BY <1>1, <1>2, <1>4, <1>5 DEF SchemaInv, LaunchInv, Busy
<1>7. AgentInv'
  BY <1>1, <1>4, <1>5 DEF SchemaInv, AgentInv, Unsettled, BackgroundRestoreIsSafe, MayStart, Busy
<1> QED BY <1>3, <1>6, <1>7 DEF SchemaInv

(* A reload starts the service of the manifest it reads, beside a launch    *)
(* only once its data are settled.                                          *)
LEMMA ReloadKeeps ==
  ASSUME Fenced, PackageTypeOK, SchemaInv, Reload \/ OtherReload, ~raced'
  PROVE  SchemaInv'
<1>1. /\ UNCHANGED <<diskVars, runner, phases, saved, ready, pending, launch>>
      /\ loaded' = manifest /\ agent' = AgentOf(manifest) /\ manifest \in OrNone
      /\ pkg' = NoRequest
      /\ pkg.at = "reload" \/ pkg = NoRequest
  BY DEF Reload, OtherReload, ReadManifests, schemaVars, diskVars, At, Ends, PackageTypeOK,
     packageVars
<1>2. ~Unsettled \/ agent # 0 \/ agent' = 0
  BY DEF Reload, OtherReload, ReadManifests
<1>3. pkg.kind # "boot"
  <2>1. pkg = NoRequest => pkg.kind = "none"
    BY DEF NoRequest
  <2> QED BY <1>1, <2>1 DEF SchemaInv, LaunchInv, Recovering
<1>4. ~Unsettled => runner.at \notin Busy
  BY <1>3 DEF SchemaInv, LaunchInv, Unsettled, BackgroundRestoreIsSafe
<1>5. CoreInv'
  BY <1>1, CoreElsewhere DEF SchemaInv
<1>6. LaunchInv'
  BY <1>1, <1>3 DEF SchemaInv, LaunchInv, NoRequest
<1>7. AgentInv'
  <2>1. agent' # 0 => agent' \in Versions /\ MayStart(agent)'
    BY <1>1, AgentStarts DEF SchemaInv
  <2>2. agent' # 0 => ~Unsettled /\ runner.at \notin Busy
    BY <1>2, <1>4 DEF SchemaInv, AgentInv
  <2>3. Unsettled' = Unsettled
    BY <1>1 DEF Unsettled, BackgroundRestoreIsSafe
  <2> QED BY <1>1, <2>1, <2>2, <2>3 DEF AgentInv
<1> QED BY <1>5, <1>6, <1>7 DEF SchemaInv

(* A daemon that has recovered starts with no launch and no runner.        *)
LEMMA BootKeeps ==
  ASSUME Fenced, PackageTypeOK, SchemaInv, Boot
  PROVE  SchemaInv'
<1>1. /\ UNCHANGED <<diskVars, saved, ready, pending>>
      /\ runner' = RunnerOff /\ runner'.at = "off" /\ launch' = NoLaunch
      /\ loaded' = manifest /\ agent' = AgentOf(manifest) /\ manifest \in OrNone
      /\ pkg' = NoRequest
  BY RunnerIsOff DEF Boot, diskVars, Ends, PackageTypeOK
<1>2. CoreInv'
  BY <1>1, RunnerTurnsOff DEF SchemaInv
<1>3. LaunchInv'
  BY <1>1 DEF LaunchInv, NoRequest, NoLaunch, OrNone, Busy
<1>4. AgentInv'
  BY <1>1, AgentStarts DEF SchemaInv, AgentInv, Unsettled, Busy
<1> QED BY <1>2, <1>3, <1>4 DEF SchemaInv

(* The package thread does not touch the data.                             *)
LEMMA PackageKeeps ==
  ASSUME PackageTypeOK, SchemaInv, Package \/ PackageFault
  PROVE  SchemaInv'
<1>1. UNCHANGED <<diskVars, runner, phases, saved, ready, pending, launch, loaded, agent>>
  BY DEF Package, PackageFault, schemaVars, diskVars
<1>2. CoreInv'
  BY <1>1, CoreElsewhere DEF SchemaInv
<1>3. LaunchInv'
  BY <1>1, PackageKeepsLaunch, FaultKeepsLaunch DEF SchemaInv, Package, PackageFault
<1>4. AgentInv'
  BY <1>1 DEF SchemaInv, AgentInv, Unsettled, BackgroundRestoreIsSafe, MayStart
<1> QED BY <1>2, <1>3, <1>4 DEF SchemaInv

(* A launch stops the background service before its runner exists.          *)
LEMMA PrepareLaunchKeeps ==
  ASSUME SchemaInv, PrepareLaunch
  PROVE  SchemaInv'
<1>1. /\ UNCHANGED <<diskVars, runner, phases, saved, loaded, pkg>>
      /\ runner.at = "off" /\ agent' = 0 /\ pkg.kind # "boot"
      /\ launch'.content = loaded
  BY DEF PrepareLaunch, schemaVars, diskVars, packageVars, DaemonUp, RunnerAt
<1>2. CoreInv'
  BY <1>1, CoreElsewhere DEF SchemaInv
<1>3. LaunchInv'
  BY <1>1 DEF SchemaInv, LaunchInv, Busy
<1>4. AgentInv'
  BY <1>1 DEF AgentInv
<1> QED BY <1>2, <1>3, <1>4 DEF SchemaInv

(* A launch starts its runner at the load of the manifest.                 *)
LEMMA StartRunnerKeeps ==
  ASSUME SchemaInv, StartRunner
  PROVE  SchemaInv'
<1>1. /\ UNCHANGED <<diskVars, saved, ready, pending, loaded, agent, pkg>>
      /\ runner' = [RunnerOff EXCEPT !.at = "load"]
      /\ launch # NoLaunch /\ launch' = [launch EXCEPT !.at = "wait"]
      /\ launch.at = "start" /\ phases' = {} /\ Unsettled
  BY DEF StartRunner, diskVars, packageVars, NoLaunch, Unsettled
<1>2. runner' \in RunnerStates /\ runner'.at = "load"
  BY <1>1, RunnerIsOff DEF RunnerStates, Busy, RunnerOff
<1>3. CoreInv'
  BY <1>1, <1>2, RunnerIdles DEF SchemaInv
<1>4. launch' # NoLaunch /\ launch'.content = launch.content
  BY <1>1 DEF NoLaunch
<1>5. LaunchInv'
  BY <1>1, <1>2, <1>4 DEF SchemaInv, LaunchInv
<1>6. AgentInv'
  BY <1>1 DEF SchemaInv, AgentInv
<1> QED BY <1>3, <1>5, <1>6 DEF SchemaInv

(* The runner takes the schema version of the registered manifest.         *)
LEMMA LoadManifestKeeps ==
  ASSUME PackageTypeOK, SchemaInv, LoadManifest
  PROVE  SchemaInv'
<1>1. /\ UNCHANGED <<diskVars, phases, saved, ready, pending, launch, loaded, agent, pkg>>
      /\ runner.at = "load" /\ runner.at \in Busy
      /\ \/ runner' = RunnerOff
         \/ /\ manifest \in Content
            /\ runner' = [runner EXCEPT !.at = "recover", !.version = SchemaOf[manifest]]
  BY DEF LoadManifest, diskVars, packageVars, RunnerAt, Busy, PackageTypeOK, OrNone
<1>2. CASE runner' = RunnerOff
  <2>1. CoreInv'
    BY <1>1, <1>2, RunnerTurnsOff DEF SchemaInv
  <2>2. LaunchInv'
    BY <1>1, <1>2, RunnerIsOff DEF SchemaInv, LaunchInv, Busy
  <2>3. AgentInv'
    BY <1>1 DEF SchemaInv, AgentInv
  <2> QED BY <2>1, <2>2, <2>3 DEF SchemaInv
<1>3. CASE /\ manifest \in Content
           /\ runner' = [runner EXCEPT !.at = "recover", !.version = SchemaOf[manifest]]
  <2>1. SchemaOf[manifest] \in 0 .. MaxVersion /\ SchemaOf[manifest] # 0
    BY <1>3, UpgradeAssumption, SchemaAssumption
    DEF UpgradeAssumption, SchemaAssumption, Versions
  <2>2. /\ runner' \in RunnerStates /\ runner'.at = "recover" /\ runner'.version # 0
    BY <1>3, <2>1 DEF SchemaInv, CoreInv, DataTypeOK, RunnerStates, Busy
  <2>3. CoreInv'
    BY <1>1, <2>2, RunnerIdles DEF SchemaInv
  <2>4. LaunchInv'
    BY <1>1, <2>2 DEF SchemaInv, LaunchInv
  <2>5. AgentInv'
    BY <1>1 DEF SchemaInv, AgentInv
  <2> QED BY <2>3, <2>4, <2>5 DEF SchemaInv
<1> QED BY <1>1, <1>2, <1>3

(* A runner at work has no background service beside it.                    *)
LEMMA RunnerKeeps ==
  ASSUME SchemaInv, Runner \/ RunnerFault \/ AppExits
  PROVE  SchemaInv'
<1>1. UNCHANGED <<launch, loaded, agent, pkg>>
  BY DEF Runner, RunnerFault, AppExits, packageVars
<1>2. CASE Recover \/ Apply \/ MigratorFails
  <2>1. runner.at \in Busy
    BY <1>2, RunnerWorks
  <2>2. CoreInv'
    BY <1>2, RunnerCore, MigratorFailsCore DEF SchemaInv
  <2>3. LaunchInv'
    BY <1>1, <1>2, <2>1, RunnerReports DEF SchemaInv, LaunchInv, Busy
  <2>4. AgentInv'
    BY <1>1, <2>1 DEF SchemaInv, AgentInv
  <2> QED BY <2>2, <2>3, <2>4 DEF SchemaInv
<1>3. CASE RunnerStops
  <2>1. UNCHANGED <<diskVars, phases, saved, ready, pending>> /\ runner' = RunnerOff
        /\ runner'.at = "off"
    BY <1>3, RunnerIsOff DEF RunnerStops, diskVars
  <2>2. CoreInv'
    BY <2>1, RunnerTurnsOff DEF SchemaInv
  <2>3. LaunchInv'
    BY <1>1, <2>1 DEF SchemaInv, LaunchInv, Busy
  <2>4. AgentInv'
    BY <1>1, <2>1 DEF SchemaInv, AgentInv, Unsettled, BackgroundRestoreIsSafe, MayStart, Busy
  <2> QED BY <2>2, <2>3, <2>4 DEF SchemaInv
<1> QED BY <1>2, <1>3 DEF Runner, RunnerFault, AppExits

(* The background service comes back when the launch is over.               *)
LEMMA LaunchEndsKeeps ==
  ASSUME Fenced, SchemaInv, LaunchEnds \/ LaunchFails
  PROVE  SchemaInv'
<1>1. /\ UNCHANGED <<diskVars, saved, ready, pending, loaded, pkg>>
      /\ launch' = NoLaunch /\ launch # NoLaunch /\ launch.content \in OrNone
      /\ agent' = agent \/ agent' = AgentOf(launch.content)
      /\ runner' = RunnerOff \/ (UNCHANGED runner /\ runner.at = "up")
  BY DEF LaunchEnds, LaunchFails, schemaVars, diskVars, packageVars, NoLaunch, RunnerAt,
     SchemaInv, LaunchInv
<1>2. runner'.at \in {"off", "up"} /\ NoLaunch.content \in OrNone
  BY <1>1, RunnerIsOff DEF NoLaunch, OrNone
<1>3. CoreInv'
  BY <1>1, CoreElsewhere, RunnerTurnsOff DEF SchemaInv
<1>4. LaunchInv'
  BY <1>1, <1>2 DEF SchemaInv, LaunchInv, Busy
<1>5. AgentInv'
  <2>1. agent' # 0 => agent' \in Versions /\ MayStart(agent)'
    BY <1>1, AgentStarts DEF SchemaInv, AgentInv, Unsettled, BackgroundRestoreIsSafe, MayStart
  <2> QED BY <1>1, <1>2, <2>1 DEF AgentInv, Unsettled, Busy
<1> QED BY <1>3, <1>4, <1>5 DEF SchemaInv

(* Whoever writes, writes beside no migration.                              *)
LEMMA WritersKeep ==
  ASSUME SchemaInv, AppWrites \/ AgentWrites
  PROVE  SchemaInv'
<1>1. /\ UNCHANGED <<launch, loaded, agent, pkg>>
      /\ runner.at = "up" \/ agent # 0
      /\ \E s \in Source : \E v : Writes(s, v)
  BY DEF AppWrites, AgentWrites, packageVars, RunnerAt
<1>2. UNCHANGED <<ready, pending, runner, phases>>
  BY <1>1 DEF Writes
<1>3. pending = NoMigration /\ runner.at \in {"off", "up"}
  BY <1>1 DEF SchemaInv, AgentInv, Unsettled, BackgroundRestoreIsSafe, MayStart, CoreInv, QuietSteps, DataTypeOK, RunnerStates
<1>4. CoreInv'
  BY <1>1, <1>3, WritesCore DEF SchemaInv
<1>5. LaunchInv'
  BY <1>1, <1>2 DEF SchemaInv, LaunchInv
<1>6. AgentInv'
  BY <1>1, <1>2 DEF SchemaInv, AgentInv, Unsettled, BackgroundRestoreIsSafe, MayStart
<1> QED BY <1>4, <1>5, <1>6 DEF SchemaInv

(* A crash or a loss of power keeps what is on the disk.                   *)
LEMMA CrashKeeps ==
  ASSUME SchemaInv, DaemonCrashes \/ PowerFails
  PROVE  SchemaInv'
<1>1. /\ UNCHANGED <<diskVars, saved, ready, pending>>
      /\ launch' = NoLaunch /\ loaded' = None
      /\ \/ UNCHANGED <<runner, phases, agent>>
         \/ runner' = RunnerOff /\ phases' = {} /\ agent' = 0
      /\ pkg' = [NoRequest EXCEPT !.at = "recover", !.kind = "boot"]
  BY DEF DaemonCrashes, PowerFails, PackageCrash, schemaVars, diskVars
<1>2. pkg'.at = "recover" /\ pkg'.kind = "boot"
  BY <1>1 DEF NoRequest
<1>3. CoreInv'
  BY <1>1, CoreElsewhere, RunnerTurnsOff DEF SchemaInv
<1>4. LaunchInv'
  <2>1. runner'.at \in Busy => "complete" \notin phases'
    BY <1>1, RunnerIsOff DEF SchemaInv, LaunchInv, Busy
  <2>2. launch'.content \in OrNone /\ loaded' \in OrNone
    BY <1>1 DEF NoLaunch, OrNone
  <2> QED BY <1>1, <1>2, <2>1, <2>2 DEF LaunchInv
<1>5. AgentInv'
  BY <1>1 DEF SchemaInv, AgentInv, Unsettled, BackgroundRestoreIsSafe, MayStart
<1> QED BY <1>3, <1>4, <1>5 DEF SchemaInv

(* Every step keeps the invariant of the data, or it has raced.            *)
Promised == raced \/ SchemaInv

LEMMA RacedStays == raced /\ [Next]_vars => raced'
  BY DEF Next, vars, Ask, Close, Reload, OtherReload, ReadManifests, Boot, Package,
     PackageFault, PrepareLaunch, StartRunner, LoadManifest, Runner, RunnerFault,
     LaunchEnds, LaunchFails, AppExits, AppWrites, AgentWrites, DaemonCrashes, PowerFails

LEMMA SchemaNextInv ==
  ASSUME Fenced
  PROVE  PackageInv /\ Promised /\ [Next]_vars => Promised'
<1> SUFFICES ASSUME PackageInv, SchemaInv, [Next]_vars, ~raced' PROVE SchemaInv'
  BY RacedStays DEF Promised
<1>1. PackageTypeOK
  BY DEF PackageInv
<1>2. CASE UNCHANGED vars
  <2>1. UNCHANGED <<diskVars, runner, phases, saved, ready, pending, launch, loaded, agent,
                    pkg>>
    BY <1>2 DEF vars, schemaVars, diskVars, packageVars
  <2>2. CoreInv'
    BY <2>1, CoreElsewhere DEF SchemaInv
  <2>3. LaunchInv' /\ AgentInv'
    BY <2>1 DEF SchemaInv, LaunchInv, AgentInv, Unsettled, BackgroundRestoreIsSafe, MayStart
  <2> QED BY <2>2, <2>3 DEF SchemaInv
<1>3. CASE Next
  BY <1>1, <1>3, AskKeeps, CloseKeeps, ReloadKeeps, BootKeeps, PackageKeeps,
     PrepareLaunchKeeps, StartRunnerKeeps, LoadManifestKeeps, RunnerKeeps, LaunchEndsKeeps,
     WritersKeep, CrashKeeps DEF Next
<1> QED BY <1>2, <1>3

(* The first data are intact, under no schema yet.                         *)
LEMMA SchemaInitInv == Init => SchemaInv
<1> SUFFICES ASSUME Init PROVE SchemaInv
  OBVIOUS
<1>1. /\ data = Fresh /\ saved = [s \in Source |-> 0]
      /\ applied = NoMigration /\ ready = 0 /\ pending = NoMigration
      /\ snaps = [n \in Names |-> NoSnapshot]
      /\ runner = RunnerOff /\ runner.at = "off"
      /\ loaded = None /\ launch = NoLaunch /\ agent = 0 /\ pkg = NoRequest
  BY RunnerIsOff DEF Init, SchemaInit, StoreInit
<1>2. DataTypeOK
  <2>1. data \in [Source -> Image] /\ saved \in [Source -> Nat]
    BY <1>1 DEF Fresh, Image, Intact
  <2>2. snaps \in [Names -> [Source -> Image]] /\ runner \in RunnerStates
    BY <1>1, RunnerIsOff
  <2>3. ready \in 0 .. MaxVersion
    BY <1>1, SchemaAssumption DEF SchemaAssumption
  <2> QED BY <1>1, <2>1, <2>2, <2>3 DEF DataTypeOK
<1>3. DiskInv
  <2>1. ~Unresolved
    BY <1>1 DEF Unresolved
  <2>2. IntactAt(data, applied.to)
    BY <1>1 DEF IntactAt, Fresh, NoMigration
  <2> QED BY <1>1, <2>1, <2>2 DEF DiskInv, DataIsSafe
<1>4. QuietSteps /\ MigrationSteps /\ RecoverySide
  BY <1>1 DEF QuietSteps, MigrationSteps, RecoverySide, Busy
<1>5. LaunchInv /\ AgentInv
  BY <1>1 DEF LaunchInv, AgentInv, NoLaunch, OrNone, NoRequest, Busy
<1> QED BY <1>2, <1>3, <1>4, <1>5 DEF SchemaInv, CoreInv

(* What the invariant says of the data and its writers.                     *)
LEMMA SchemaSafe ==
  ASSUME SchemaInv
  PROVE  DataIsSafe /\ FenceIsTrue /\ WritersAgree /\ WriterKeptOut
<1>1. DataIsSafe
  BY DEF SchemaInv, CoreInv, DiskInv
<1>2. ASSUME NEW v \in Versions, MayStart(v)
      PROVE  IntactAt(data, v) /\ applied.to = v
  <2>1. pending = NoMigration /\ ready = v /\ ready # 0
    BY <1>2 DEF MayStart, Versions
  <2> QED BY <2>1, DiskHere DEF SchemaInv, CoreInv
<1>3. FenceIsTrue
  BY <1>2 DEF FenceIsTrue
<1>4. runner.at = "up" => IntactAt(data, runner.version)
  <2>1. runner.at = "up" => applied.to = runner.version /\ pending = NoMigration
    BY DEF SchemaInv, CoreInv, QuietSteps
  <2> QED BY <2>1, DiskHere DEF SchemaInv, CoreInv
<1>5. agent # 0 => IntactAt(data, agent) /\ ~Unresolved
  BY <1>2 DEF SchemaInv, AgentInv, MayStart, Unresolved
<1> QED BY <1>1, <1>3, <1>4, <1>5 DEF WritersAgree, WriterKeptOut, RunnerAt

(* For a background service that systemd fences, and until a reload has     *)
(* started it beside a launch whose data were not settled: however the      *)
(* requests, the launches, the migrations, their recoveries, the writers    *)
(* and any number of faults interleave, what was saved is there or in the   *)
(* snapshot a journal names,                                                *)
THEOREM DataIsNeverLost ==
  ASSUME Fenced
  PROVE  Spec => []NothingIsLost
<1>1. PackageInv /\ Promised /\ [Next]_vars => Promised'
  BY SchemaNextInv
<1>2. Promised => NothingIsLost
  BY SchemaSafe DEF Promised, NothingIsLost
<1>3. Init => Promised
  BY SchemaInitInv DEF Promised
<1> QED
  BY <1>1, <1>2, <1>3, UpgradeInitInv, UpgradeNextInv, PTL DEF Spec

(* the fence and the absence of a journal let in only a writer of the       *)
(* version the data is at (data_schema.rs and the agent's unit),            *)
THEOREM FenceIsHonest ==
  ASSUME Fenced
  PROVE  Spec => []FenceMeansSettled
<1>1. PackageInv /\ Promised /\ [Next]_vars => Promised'
  BY SchemaNextInv
<1>2. Promised => FenceMeansSettled
  BY SchemaSafe DEF Promised, FenceMeansSettled
<1>3. Init => Promised
  BY SchemaInitInv DEF Promised
<1> QED
  BY <1>1, <1>2, <1>3, UpgradeInitInv, UpgradeNextInv, PTL DEF Spec

(* the application and its background service find their own version        *)
(* whenever they run,                                                       *)
THEOREM WritersAlwaysAgree ==
  ASSUME Fenced
  PROVE  Spec => []WritersAgree
<1>1. PackageInv /\ Promised /\ [Next]_vars => Promised'
  BY SchemaNextInv
<1>2. Promised => WritersAgree
  BY SchemaSafe DEF Promised, WritersAgree
<1>3. Init => Promised
  BY SchemaInitInv DEF Promised
<1> QED
  BY <1>1, <1>2, <1>3, UpgradeInitInv, UpgradeNextInv, PTL DEF Spec

(* and the background service is down as long as a migration or its         *)
(* recovery is unresolved (prepare_launch and rollback_launch).             *)
THEOREM WriterStaysOut ==
  ASSUME Fenced
  PROVE  Spec => []WriterKeptOut
<1>1. PackageInv /\ Promised /\ [Next]_vars => Promised'
  BY SchemaNextInv
<1>2. Promised => WriterKeptOut
  BY SchemaSafe DEF Promised, WriterKeptOut
<1>3. Init => Promised
  BY SchemaInitInv DEF Promised
<1> QED
  BY <1>1, <1>2, <1>3, UpgradeInitInv, UpgradeNextInv, PTL DEF Spec
=============================================================================
