-------------------------- MODULE LifecycleProofs --------------------------
(***************************************************************************)
(* Theorems about Lifecycle, for every set of paths, targets, contents and *)
(* skip globs.                                                             *)
(***************************************************************************)
EXTENDS Lifecycle, TLAPS

-----------------------------------------------------------------------------
(* Type correctness.                                                       *)

(* The marks of an absent file and an absent record are no content.        *)
LEMMA ContentFacts ==
  /\ Framework \subseteq Contents /\ Adopter \subseteq Contents
  /\ Torn \in Contents
  /\ \A c \in Framework : Filled[c] \in Contents
  /\ NoFile \notin Contents /\ NoRecord \notin Contents
BY ContentsAssumption DEF Contents

(* The options of an idle state, and the option sets a run can start with. *)
LEMMA DefaultsType ==
  /\ Defaults \in Options
  /\ \A policy \in {"refuse", "theirs", "backup"}, skip \in SkipSets :
       [Defaults EXCEPT !.policy = policy, !.skip = skip] \in Options
  /\ \A fill \in BOOLEAN : [Defaults EXCEPT !.fill = fill] \in Options
  /\ \A force, archive \in BOOLEAN :
       [Defaults EXCEPT !.force = force, !.archive = archive] \in Options
  /\ \A yes \in SUBSET Files : [Defaults EXCEPT !.yes = yes] \in Options
BY PathsAssumption DEF Defaults, Options

(* A file that is put, and a set of paths that is archived.                *)
LEMMA PutType ==
  ASSUME TypeOK, NEW f, NEW c \in Contents \cup {NoFile}, Put(f, c)
  PROVE  dst' \in [Files -> Contents \cup {NoFile}]
BY DEF TypeOK, Put

(* Archiving keeps the type of the archives.                               *)
LEMMA ArchiveType ==
  ASSUME TypeOK, NEW S, Archive(S)
  PROVE  bak' \in [Files -> SUBSET Adopter]
BY DEF TypeOK, Archive

(* The state before the first install is well typed.                       *)
LEMMA TypeInit == Init => TypeOK
BY DefaultsType DEF Init, TypeOK, Empty, NoManifest, Phases, Contents

(* Each step of upgrade.sh keeps every variable in its type.               *)
LEMMA UpgradeType ==
  ASSUME TypeOK, Upgrading PROVE TypeOK'
<1> USE DEF repo
<1>1. CASE UpgradeStart
  <2>1. PICK policy \in {"refuse", "theirs", "backup"}, skip \in SkipSets :
          Begin("up_targets", Targets, {},
                [Defaults EXCEPT !.policy = policy, !.skip = skip])
    BY <1>1 DEF UpgradeStart
  <2>2. opt' \in Options
    BY <2>1, DefaultsType DEF Begin
  <2> QED
    BY <1>1, <2>1, <2>2
      DEF UpgradeStart, Begin, TypeOK, Phases, UpgradePhases
<1>2. ASSUME NEW t \in Targets, UpgradeSkipTarget(t) PROVE TypeOK'
  BY <1>2 DEF UpgradeSkipTarget, NextTarget, TypeOK
<1>3. ASSUME NEW t \in Targets, UpgradeTree(t) PROVE TypeOK'
  <2>1. bak' \in [Files -> SUBSET Adopter]
    BY <1>3, ArchiveType DEF UpgradeTree
  <2> QED
    BY <1>3, <2>1 DEF UpgradeTree, NextTarget, TypeOK, Phases, UpgradePhases,
                      Shipped, Present, InTarget
<1>4. ASSUME NEW t \in Targets, UpgradeOneFile(t) PROVE TypeOK'
  BY <1>4 DEF UpgradeOneFile, NextTarget, TypeOK, Phases, UpgradePhases
<1>5. ASSUME NEW t \in Targets, UpgradeLegacy(t) PROVE TypeOK'
  <2>1. bak' \in [Files -> SUBSET Adopter]
    BY <1>5, ArchiveType DEF UpgradeLegacy, LegacyArchive
  <2> QED
    BY <1>5, <2>1 DEF UpgradeLegacy, NextTarget, TypeOK, Phases, UpgradePhases,
                      Present, InTarget
<1>6. CASE LegacyDelete
  <2>1. dst' \in [Files -> Contents \cup {NoFile}]
    BY <1>6, PutType DEF LegacyDelete
  <2> QED
    BY <1>6, <2>1 DEF LegacyDelete, TypeOK
<1>7. CASE LegacyDeleted
  BY <1>7 DEF LegacyDeleted, TypeOK, Phases, UpgradePhases, Shipped, InTarget
<1>8. CASE LegacyCopy
  <2>1. dst' \in [Files -> Contents \cup {NoFile}]
    BY <1>8, PutType, ContentFacts DEF LegacyCopy, TypeOK
  <2> QED
    BY <1>8, <2>1 DEF LegacyCopy, TypeOK, Phases, UpgradePhases
<1>9. CASE UpgradeFile
  BY <1>9 DEF UpgradeFile, AfterFile, TypeOK, Phases, UpgradePhases
<1>10. CASE UpgradeBackup
  <2>1. bak' \in [Files -> SUBSET Adopter]
    BY <1>10, ArchiveType DEF UpgradeBackup, TypeOK
  <2> QED
    BY <1>10, <2>1 DEF UpgradeBackup, TypeOK, Phases, UpgradePhases
<1>11. CASE UpgradeCopy
  <2>1. dst' \in [Files -> Contents \cup {NoFile}]
    BY <1>11, ContentFacts DEF UpgradeCopy, Put, TypeOK
  <2> QED
    BY <1>11, <2>1 DEF UpgradeCopy, AfterFile, TypeOK, Phases, UpgradePhases
<1>12. CASE UpgradeManifest
  BY <1>12, ContentFacts, DefaultsType
    DEF UpgradeManifest, UpgradeBaseline, Stop, TypeOK, Phases
<1>13. CASE UpgradeAbort
  BY <1>13, DefaultsType DEF UpgradeAbort, Stop, TypeOK, Phases
<1> QED
  BY <1>1, <1>2, <1>3, <1>4, <1>5, <1>6, <1>7, <1>8, <1>9, <1>10, <1>11, <1>12,
     <1>13 DEF Upgrading, UpgradeStep

(* So does each step of install.sh, its rollback included.                 *)
LEMMA InstallType ==
  ASSUME TypeOK, Installing PROVE TypeOK'
<1> USE DEF repo
<1>1. CASE InstallStart
  BY <1>1, DefaultsType
    DEF InstallStart, Begin, Snapshot, TypeOK, Phases, InstallPhases
<1>2. CASE InstallTarget
  BY <1>2 DEF InstallTarget, ToCopy, Shipped, InTarget, TypeOK, Phases,
              InstallPhases
<1>3. CASE InstallCopy
  <2>1. dst' \in [Files -> Contents \cup {NoFile}]
    BY <1>3, ContentFacts DEF InstallCopy, Put, TypeOK
  <2> QED
    BY <1>3, <2>1 DEF InstallCopy, TypeOK, Phases, InstallPhases
<1>4. CASE InstallFill
  BY <1>4, ContentFacts
    DEF InstallFill, Substituted, TypeOK, Phases, InstallPhases
<1>5. CASE InstallManifest
  BY <1>5, ContentFacts
    DEF InstallManifest, InstallBaseline, TypeOK, Phases, InstallPhases
<1>6. CASE InstallFinish
  BY <1>6, DefaultsType DEF InstallFinish, Stop, TypeOK, Phases
<1>7. CASE InstallFail
  BY <1>7, DefaultsType
    DEF InstallFail, Stop, Empty, NoManifest, TypeOK, Phases
<1> QED
  BY <1>1, <1>2, <1>3, <1>4, <1>5, <1>6, <1>7 DEF Installing, InstallStep

(* So does each step of uninstall.sh.                                      *)
LEMMA UninstallType ==
  ASSUME TypeOK, Uninstalling PROVE TypeOK'
<1>1. CASE UninstallStart
  <2>1. bak' \in [Files -> SUBSET Adopter]
    BY <1>1, ArchiveType DEF UninstallStart, UninstallArchive, TypeOK
  <2> QED
    BY <1>1, <2>1, DefaultsType
      DEF UninstallStart, Begin, Records, TypeOK, Phases, UninstallPhases
<1>2. CASE UninstallRecord
  BY <1>2 DEF UninstallRecord, Put, TypeOK
<1>3. CASE UninstallFinish
  BY <1>3, DefaultsType DEF UninstallFinish, Stop, NoManifest, TypeOK, Phases
<1> QED
  BY <1>1, <1>2, <1>3 DEF Uninstalling, UninstallStep

(* So does each step of doctor.sh.                                         *)
LEMMA DoctorType ==
  ASSUME TypeOK, Repairing PROVE TypeOK'
<1> USE DEF repo
<1>1. CASE DoctorStart
  BY <1>1, DefaultsType
    DEF DoctorStart, Begin, Records, TypeOK, Phases, DoctorPhases
<1>2. CASE DoctorRecord
  BY <1>2 DEF DoctorRecord, TypeOK, Phases, DoctorPhases
<1>3. CASE DoctorBackup
  <2>1. bak' \in [Files -> SUBSET Adopter]
    BY <1>3, ArchiveType DEF DoctorBackup, TypeOK
  <2> QED
    BY <1>3, <2>1 DEF DoctorBackup, TypeOK, Phases, DoctorPhases
<1>4. CASE DoctorCopy
  <2>1. dst' \in [Files -> Contents \cup {NoFile}]
    BY <1>4, ContentFacts DEF DoctorCopy, Put, TypeOK
  <2> QED
    BY <1>4, <2>1 DEF DoctorCopy, TypeOK, Phases, DoctorPhases
<1>5. CASE DoctorFinish
  BY <1>5, DefaultsType DEF DoctorFinish, Stop, TypeOK, Phases
<1> QED
  BY <1>1, <1>2, <1>3, <1>4, <1>5 DEF Repairing, DoctorStep

(* So does every step of the suite and of the world.                       *)
LEMMA TypeStep == TypeOK /\ [Next]_vars => TypeOK'
<1> SUFFICES ASSUME TypeOK, [Next]_vars PROVE TypeOK'
  OBVIOUS
<1>1. CASE Release
  BY <1>1 DEF Release, run, TypeOK
<1>2. CASE AdopterEdit
  BY <1>2, ContentFacts DEF AdopterEdit, Put, run, TypeOK
<1>3. CASE Kill
  <2>1. dst' \in [Files -> Contents \cup {NoFile}]
    BY <1>3, ContentFacts DEF Kill, Put, TypeOK
  <2> QED
    BY <1>3, <2>1, DefaultsType DEF Kill, Stop, TypeOK, Phases
<1>4. CASE UNCHANGED vars
  BY <1>4 DEF vars, TypeOK
<1> QED
  BY <1>1, <1>2, <1>3, <1>4, UpgradeType, InstallType, UninstallType, DoctorType
    DEF Next

(* Every variable keeps its type, whatever the tools and faults.           *)
THEOREM TypeCorrect == Spec => []TypeOK
BY TypeInit, TypeStep, PTL DEF Spec

-----------------------------------------------------------------------------
(* The inductive invariant.                                                *)

(* Before the first install nothing is recorded and nothing runs.          *)
LEMMA SafeInit == Init => SafeInv
BY ContentsAssumption, ContentFacts
  DEF Init, SafeInv, NoAdopterBaseline, InstallInv, UpgradeInv, UninstallInv,
      DoctorInv, Running, InstallPhases, NoManifest

(* Between two runs nothing but the manifest is constrained.               *)
LEMMA IdleSafe ==
  ASSUME NoAdopterBaseline', snap' = NoSnap, pc' = "idle"
  PROVE  SafeInv'
BY DEF SafeInv, InstallInv, UpgradeInv, UninstallInv, DoctorInv, Running,
       InstallPhases

(* upgrade.sh records source digests only, and what it is about to write   *)
(* over is archived and, at a recorded path under refuse, not an           *)
(* adopter's.                                                              *)
LEMMA UpgradeSafe ==
  ASSUME TypeOK, SafeInv, Upgrading PROVE SafeInv'
<1> USE DEF repo, SafeInv
<1>1. CASE UpgradeStart
  BY <1>1 DEF UpgradeStart, Begin, NoAdopterBaseline, InstallInv, UpgradeInv,
     UninstallInv, DoctorInv, Running, InstallPhases
<1>2. ASSUME NEW t \in Targets, UpgradeSkipTarget(t) PROVE SafeInv'
  BY <1>2 DEF UpgradeSkipTarget, NextTarget, NoAdopterBaseline, InstallInv,
     UpgradeInv, UninstallInv, DoctorInv, Running, InstallPhases
<1>3. ASSUME NEW t \in Targets, UpgradeTree(t) PROVE SafeInv'
  BY <1>3 DEF UpgradeTree, NextTarget, NoAdopterBaseline, InstallInv,
     UpgradeInv, UninstallInv, DoctorInv, Running, InstallPhases
<1>4. ASSUME NEW t \in Targets, UpgradeOneFile(t) PROVE SafeInv'
  <2>1. t \in Files /\ Verdict(t) \notin {"IDENTICAL", "ADOPTER-CUSTOMIZED"}
        /\ (Verdict(t) = "CONFLICT" => opt.policy # "refuse")
        /\ Verdict(t) # "FALLBACK"
    BY <1>4, PathsAssumption
      DEF UpgradeOneFile, Classified, Spared, Present, InTarget
  <2>2. Overwritable(t)
    BY <2>1 DEF Verdict, Unclassifiable, Overwritable, NoAdopterBaseline
  <2> QED
    BY <1>4, <2>1, <2>2 DEF UpgradeOneFile, NextTarget, NoAdopterBaseline,
       InstallInv, UpgradeInv, UninstallInv, DoctorInv, Running,
       InstallPhases, Overwritable
<1>5. ASSUME NEW t \in Targets, UpgradeLegacy(t) PROVE SafeInv'
  <2>1. ASSUME NEW f \in Present(t) PROVE recorded[f] = NoRecord
    BY <1>5, <2>1, PathsAssumption
      DEF UpgradeLegacy, Replaceable, Legacy, PerFile, Classified, Loaded,
          Verdict, Unclassifiable, Present, Shipped, InTarget
  <2>2. \A f \in Present(t) : (Archived(f))'
    BY <1>5, ContentFacts DEF UpgradeLegacy, LegacyArchive, Archive, Archived, TypeOK,
       Present, InTarget
  <2>3. todo' = Present(t) /\ cur' = t /\ pc' = "up_delete"
        /\ dst' = dst /\ recorded' = recorded /\ snap' = snap
    BY <1>5 DEF UpgradeLegacy
  <2>4. UpgradeInv'
    <3>1. todo' \subseteq InTarget(cur')
      BY <2>3 DEF Present
    <3>2. \A f \in InTarget(cur') : f \in todo' \/ dst'[f] = NoFile
      BY <2>3 DEF Present
    <3>3. \A f \in todo' : (Archived(f) /\ Overwritable(f))'
      BY <2>1, <2>2, <2>3 DEF Overwritable
    <3> QED
      BY <2>3, <3>1, <3>2, <3>3 DEF UpgradeInv, InTarget
  <2> QED
    BY <2>3, <2>4 DEF NoAdopterBaseline, InstallInv, UninstallInv, DoctorInv,
       Running, InstallPhases
<1>6. CASE LegacyDelete
  BY <1>6, ContentFacts DEF LegacyDelete, Put, TypeOK, NoAdopterBaseline, InstallInv,
     UpgradeInv, UninstallInv, DoctorInv, Running, InstallPhases, Archived,
     Overwritable, InTarget
<1>7. CASE LegacyDeleted
  BY <1>7 DEF LegacyDeleted, NoAdopterBaseline, InstallInv, UpgradeInv,
     UninstallInv, DoctorInv, Running, InstallPhases, Shipped, InTarget
<1>8. CASE LegacyCopy
  BY <1>8 DEF LegacyCopy, Put, TypeOK, NoAdopterBaseline, InstallInv,
     UpgradeInv, UninstallInv, DoctorInv, Running, InstallPhases
<1>9. CASE UpgradeFile
  <2>1. PICK f \in todo :
          /\ todo' = todo \ {f}
          /\ IF Untouched(f)
             THEN pc' = AfterFile(todo \ {f}) /\ cur' = cur
             ELSE pc' = "up_backup" /\ cur' = f
    BY <1>9 DEF UpgradeFile
  <2>2. ~ Untouched(f) => Overwritable(f)
    BY <2>1, ContentFacts DEF Untouched, Spared, Verdict, Unclassifiable,
       Overwritable, NoAdopterBaseline, TypeOK
  <2> QED
    BY <1>9, <2>1, <2>2 DEF UpgradeFile, AfterFile, TypeOK, NoAdopterBaseline,
       InstallInv, UpgradeInv, UninstallInv, DoctorInv, Running,
       InstallPhases, Overwritable
<1>10. CASE UpgradeBackup
  <2>1. ~ Fault("backup") => (Archived(cur))'
    BY <1>10 DEF UpgradeBackup, Archive, Archived, TypeOK, UpgradeInv
  <2> QED
    BY <1>10, <2>1 DEF UpgradeBackup, NoAdopterBaseline, InstallInv,
       UpgradeInv, UninstallInv, DoctorInv, Running, InstallPhases,
       Overwritable, Fault
<1>11. CASE UpgradeCopy
  BY <1>11 DEF UpgradeCopy, AfterFile, NoAdopterBaseline, InstallInv,
     UpgradeInv, UninstallInv, DoctorInv, Running, InstallPhases
<1>12. CASE UpgradeManifest
  BY <1>12, IdleSafe, ContentsAssumption, ContentFacts DEF UpgradeManifest, UpgradeBaseline,
     Stop, NoAdopterBaseline, InstallInv, TypeOK
<1>13. CASE UpgradeAbort
  BY <1>13, IdleSafe DEF UpgradeAbort, Stop, NoAdopterBaseline, InstallInv
<1> QED
  BY <1>1, <1>2, <1>3, <1>4, <1>5, <1>6, <1>7, <1>8, <1>9, <1>10, <1>11, <1>12,
     <1>13 DEF Upgrading, UpgradeStep

(* install.sh over an empty tree meets no adopter bytes, so it records     *)
(* none.                                                                   *)
LEMMA InstallSafe ==
  ASSUME TypeOK, SafeInv, Rerun = "never", Installing PROVE SafeInv'
<1> USE DEF repo, SafeInv
<1>1. CASE InstallStart
  <2>1. snap' = NoSnap /\ \A f \in Files : dst[f] = NoFile
    BY <1>1 DEF InstallStart, HasTree
  <2> QED
    BY <1>1, <2>1, ContentFacts DEF InstallStart, Begin, NoAdopterBaseline,
       InstallInv, UpgradeInv, UninstallInv, DoctorInv, Running, InstallPhases
<1>2. CASE InstallTarget
  BY <1>2 DEF InstallTarget, ToCopy, NoAdopterBaseline, InstallInv, UpgradeInv,
     UninstallInv, DoctorInv, Running, InstallPhases
<1>3. CASE InstallCopy
  <2>1. \A f \in Files : dst'[f] \notin Adopter
    BY <1>3, ContentsAssumption, ContentFacts
      DEF InstallCopy, Put, TypeOK, InstallInv, Running, InstallPhases
  <2>2. \A f \in todo' : dst'[f] = NoFile
    BY <1>3 DEF InstallCopy, Put, TypeOK, InstallInv
  <2> QED
    BY <1>3, <2>1, <2>2 DEF InstallCopy, NoAdopterBaseline, InstallInv,
       UpgradeInv, UninstallInv, DoctorInv
<1>4. CASE InstallFill
  <2>1. \A f \in Files : dst'[f] \notin Adopter
    BY <1>4, ContentsAssumption
      DEF InstallFill, Substituted, InstallInv, Running, InstallPhases
  <2> QED
    BY <1>4, <2>1 DEF InstallFill, NoAdopterBaseline, InstallInv, UpgradeInv,
       UninstallInv, DoctorInv
<1>5. CASE InstallManifest
  <2>1. NoAdopterBaseline'
    BY <1>5, ContentsAssumption, ContentFacts
      DEF InstallManifest, InstallBaseline, NoAdopterBaseline, InstallInv,
          Running, InstallPhases
  <2> QED
    BY <1>5, <2>1 DEF InstallManifest, InstallInv, UpgradeInv, UninstallInv,
       DoctorInv, Running, InstallPhases
<1>6. CASE InstallFinish
  BY <1>6, IdleSafe DEF InstallFinish, Stop, NoAdopterBaseline
<1>7. CASE InstallFail
  BY <1>7, IdleSafe DEF InstallFail, Stop, InstallInv, NoAdopterBaseline
<1> QED
  BY <1>1, <1>2, <1>3, <1>4, <1>5, <1>6, <1>7 DEF Installing, InstallStep

(* uninstall.sh with a backup removes only from what its tarball holds.    *)
LEMMA UninstallSafe ==
  ASSUME TypeOK, SafeInv, Uninstalling PROVE SafeInv'
<1> USE DEF SafeInv
<1>1. CASE UninstallStart
  <2>1. opt'.archive => \A f \in Files : (Archived(f))'
    BY <1>1 DEF UninstallStart, Begin, UninstallArchive, Archive, Archived,
       Defaults, TypeOK
  <2> QED
    BY <1>1, <2>1 DEF UninstallStart, Begin, NoAdopterBaseline, InstallInv,
       UpgradeInv, UninstallInv, DoctorInv, Running, InstallPhases
<1>2. CASE UninstallRecord
  <2>1. opt.archive => \A f \in Files : (Archived(f))'
    BY <1>2, ContentFacts DEF UninstallRecord, Put, UninstallInv, Archived, TypeOK
  <2> QED
    BY <1>2, <2>1 DEF UninstallRecord, NoAdopterBaseline, InstallInv,
       UpgradeInv, UninstallInv, DoctorInv, Running, InstallPhases
<1>3. CASE UninstallFinish
  <2>1. NoAdopterBaseline'
    BY <1>3, ContentFacts DEF UninstallFinish, NoManifest, NoAdopterBaseline
  <2> QED
    BY <1>3, <2>1, IdleSafe DEF UninstallFinish, Stop, InstallInv
<1> QED
  BY <1>1, <1>2, <1>3 DEF Uninstalling, UninstallStep

(* doctor.sh goes on to its copy only with a confirmed and archived file.  *)
LEMMA DoctorSafe ==
  ASSUME TypeOK, SafeInv, Repairing PROVE SafeInv'
<1> USE DEF repo, SafeInv
<1>1. CASE DoctorStart
  BY <1>1 DEF DoctorStart, Begin, NoAdopterBaseline, InstallInv, UpgradeInv,
     UninstallInv, DoctorInv, Running, InstallPhases
<1>2. CASE DoctorRecord
  BY <1>2, ContentFacts DEF DoctorRecord, Missing, AdopterModified, Restorable,
     Archived, TypeOK, NoAdopterBaseline, InstallInv, UpgradeInv, UninstallInv,
     DoctorInv, Running, InstallPhases
<1>3. CASE DoctorBackup
  <2>1. pc' = "doc_copy" => (Archived(cur))'
    BY <1>3 DEF DoctorBackup, Archive, Archived, TypeOK, DoctorInv
  <2> QED
    BY <1>3, <2>1 DEF DoctorBackup, NoAdopterBaseline, InstallInv, UpgradeInv,
       UninstallInv, DoctorInv, Restorable, Running, InstallPhases
<1>4. CASE DoctorCopy
  BY <1>4 DEF DoctorCopy, NoAdopterBaseline, InstallInv, UpgradeInv,
     UninstallInv, DoctorInv, Running, InstallPhases
<1>5. CASE DoctorFinish
  BY <1>5, IdleSafe DEF DoctorFinish, Stop, NoAdopterBaseline, InstallInv
<1> QED
  BY <1>1, <1>2, <1>3, <1>4, <1>5 DEF Repairing, DoctorStep

(* Every step keeps the safety part of the invariant.                      *)
LEMMA SafeStep ==
  ASSUME TypeOK, SafeInv, Rerun = "never", [Next]_vars PROVE SafeInv'
<1> USE DEF SafeInv
<1>1. CASE Release
  BY <1>1, IdleSafe DEF Release, run, NoAdopterBaseline, InstallInv
<1>2. CASE AdopterEdit
  BY <1>2, IdleSafe DEF AdopterEdit, run, NoAdopterBaseline, InstallInv
<1>3. CASE Kill
  BY <1>3, IdleSafe DEF Kill, Stop, NoAdopterBaseline
<1>4. CASE UNCHANGED vars
  BY <1>4 DEF vars, NoAdopterBaseline, InstallInv, UpgradeInv, UninstallInv,
     DoctorInv, Running, InstallPhases, Archived, Overwritable, InTarget,
     Restorable
<1> QED
  BY <1>1, <1>2, <1>3, <1>4, UpgradeSafe, InstallSafe, UninstallSafe, DoctorSafe
    DEF Next

(* The invariant the safety theorems rest on.                              *)
THEOREM Invariance ==
  ASSUME Rerun = "never" PROVE Spec => []IInv
<1>1. Init => IInv
  BY TypeInit, SafeInit DEF IInv
<1>2. IInv /\ [Next]_vars => IInv'
  BY TypeStep, SafeStep DEF IInv
<1> QED
  BY <1>1, <1>2, PTL DEF Spec

(* As long as install.sh is not run again over a tree that has files, the  *)
(* manifest records framework bytes only: upgrade records the digest of    *)
(* its source, and what install hashes in the target it has just copied.   *)
THEOREM BaselineIsFrameworks ==
  ASSUME Rerun = "never" PROVE Spec => []NoAdopterBaseline
<1>1. IInv => NoAdopterBaseline
  BY DEF IInv, SafeInv
<1> QED
  BY <1>1, Invariance, PTL

-----------------------------------------------------------------------------
(* The action properties.                                                  *)

(* A tool starts from the idle state and steps in its own phases.          *)
LEMMA PhaseOfStep ==
  /\ Release \/ AdopterEdit => pc = "idle"
  /\ UpgradeStart \/ InstallStart \/ UninstallStart \/ DoctorStart => pc = "idle"
  /\ UpgradeStep \/ UpgradeAbort => pc \in UpgradePhases
  /\ InstallStep \/ InstallFail => pc \in InstallPhases
  /\ UninstallStep => pc \in UninstallPhases
  /\ DoctorStep => pc \in DoctorPhases
<1>1. Release \/ AdopterEdit => pc = "idle"
  BY DEF Release, AdopterEdit
<1>2. UpgradeStart \/ InstallStart \/ UninstallStart \/ DoctorStart => pc = "idle"
  BY DEF UpgradeStart, InstallStart, UninstallStart, DoctorStart, Begin
<1>3. UpgradeStep \/ UpgradeAbort => pc \in UpgradePhases
  BY DEF UpgradeStep, UpgradeAbort, UpgradeSkipTarget, UpgradeTree,
     UpgradeOneFile, UpgradeLegacy, NextTarget, LegacyDelete, LegacyDeleted,
     LegacyCopy, UpgradeFile, UpgradeBackup, UpgradeCopy, UpgradeManifest,
     Running, UpgradePhases
<1>4. InstallStep \/ InstallFail => pc \in InstallPhases
  BY DEF InstallStep, InstallFail, InstallTarget, InstallCopy, InstallFill,
     InstallManifest, InstallFinish, Running, InstallPhases
<1>5. UninstallStep => pc \in UninstallPhases
  BY DEF UninstallStep, UninstallRecord, UninstallFinish, UninstallPhases
<1>6. DoctorStep => pc \in DoctorPhases
  BY DEF DoctorStep, DoctorRecord, DoctorBackup, DoctorCopy, DoctorFinish,
     DoctorPhases
<1> QED
  BY <1>1, <1>2, <1>3, <1>4, <1>5, <1>6

(* Without --force uninstall.sh removes no byte an adopter wrote.          *)
THEOREM UninstallSpares ==
  ASSUME Rerun = "never" PROVE Spec => UninstallPreserves
<1> DEFINE Spares == Running(UninstallPhases) /\ ~ opt.force =>
             \A f \in Files : dst[f] \in Adopter => dst'[f] = dst[f]
<1>1. IInv /\ [Next]_vars => [Spares]_vars
  <2> SUFFICES ASSUME IInv, Next, pc = "un_records", ~ opt.force,
                      NEW f \in Files, dst[f] \in Adopter
               PROVE  dst'[f] = dst[f]
    BY DEF Running, UninstallPhases
  <2>1. CASE Kill
    BY <2>1 DEF Kill
  <2>2. CASE UninstallRecord
    BY <2>2 DEF UninstallRecord, Removable, Put, IInv, SafeInv,
       NoAdopterBaseline, TypeOK
  <2>3. CASE UninstallFinish
    BY <2>3 DEF UninstallFinish
  <2> QED
    BY <2>1, <2>2, <2>3, PhaseOfStep
      DEF Next, Upgrading, Installing, Uninstalling, UninstallStep, Repairing,
          UpgradePhases, InstallPhases, DoctorPhases
<1> QED
  BY <1>1, Invariance, PTL DEF Spec, UninstallPreserves

(* Under --on-conflict=refuse upgrade.sh does not touch adopter bytes at a *)
(* recorded path, in any of its branches.                                  *)
THEOREM RefuseSpares ==
  ASSUME Rerun = "never" PROVE Spec => RefusePreserves
<1> DEFINE Spares == Running(UpgradePhases) /\ opt.policy = "refuse" =>
             \A f \in Files : recorded[f] # NoRecord /\ dst[f] \in Adopter
                                => dst'[f] = dst[f]
<1>1. IInv /\ [Next]_vars => [Spares]_vars
  <2> SUFFICES ASSUME IInv, Next, pc \in UpgradePhases, opt.policy = "refuse",
                      NEW f \in Files, recorded[f] # NoRecord, dst[f] \in Adopter
               PROVE  dst'[f] = dst[f]
    BY DEF Running
  <2> USE DEF IInv, SafeInv, UpgradeInv, Overwritable, repo
  <2>1. CASE Kill
    BY <2>1, ContentFacts DEF Kill, Put, TypeOK, UpgradePhases
  <2>2. CASE UpgradeAbort
    BY <2>2 DEF UpgradeAbort
  <2>3. CASE \E t \in Targets : \/ UpgradeSkipTarget(t) \/ UpgradeTree(t)
                                \/ UpgradeOneFile(t) \/ UpgradeLegacy(t)
    BY <2>3 DEF UpgradeSkipTarget, UpgradeTree, UpgradeOneFile, UpgradeLegacy
  <2>4. CASE LegacyDelete
    BY <2>4 DEF LegacyDelete, Put, TypeOK
  <2>5. CASE LegacyCopy
    BY <2>5, ContentFacts DEF LegacyCopy, Put, TypeOK
  <2>6. CASE UpgradeCopy
    BY <2>6 DEF UpgradeCopy, Put, TypeOK
  <2>7. CASE LegacyDeleted \/ UpgradeFile \/ UpgradeBackup \/ UpgradeManifest
    BY <2>7 DEF LegacyDeleted, UpgradeFile, UpgradeBackup, UpgradeManifest
  <2> QED
    BY <2>1, <2>2, <2>3, <2>4, <2>5, <2>6, <2>7, PhaseOfStep
      DEF Next, Upgrading, UpgradeStep, Installing, Uninstalling, Repairing,
          UpgradePhases, InstallPhases, UninstallPhases, DoctorPhases
<1> QED
  BY <1>1, Invariance, PTL DEF Spec, RefusePreserves

(* What doctor writes is what the manifest records, over confirmed files   *)
(* only, adopter bytes once they are archived: its --repair loop is safe   *)
(* even when backups fail.                                                 *)
THEOREM DoctorIsSafe ==
  ASSUME Rerun = "never", "torn" \notin Faults
  PROVE  Spec => DoctorRestoresBaseline
<1> DEFINE Safe == Running(DoctorPhases) =>
             \A f \in Files : dst'[f] # dst[f] =>
               /\ dst'[f] = recorded[f]
               /\ dst[f] # NoFile => f \in opt.yes
               /\ dst[f] \in Adopter => dst[f] \in bak[f]
<1>1. IInv /\ [Next]_vars => [Safe]_vars
  <2> SUFFICES ASSUME IInv, Next, pc \in DoctorPhases,
                      NEW f \in Files, dst'[f] # dst[f]
               PROVE  /\ dst'[f] = recorded[f]
                      /\ dst[f] # NoFile => f \in opt.yes
                      /\ dst[f] \in Adopter => dst[f] \in bak[f]
    BY DEF Running
  <2>1. CASE DoctorCopy
    BY <2>1 DEF DoctorCopy, Put, TypeOK, IInv, SafeInv, DoctorInv, Restorable,
       Archived
  <2>2. ~ Kill
    BY DEF Kill, Fault
  <2>3. ~ (DoctorRecord \/ DoctorBackup \/ DoctorFinish)
    BY DEF DoctorRecord, DoctorBackup, DoctorFinish, repo
  <2> QED
    BY <2>1, <2>2, <2>3, PhaseOfStep
      DEF Next, Upgrading, Installing, Uninstalling, Repairing, DoctorStep,
          UpgradePhases, InstallPhases, UninstallPhases, DoctorPhases
<1> QED
  BY <1>1, Invariance, PTL DEF Spec, DoctorRestoresBaseline

-----------------------------------------------------------------------------
(* The suite implements Provenance.                                        *)

(* The promise's three kinds of step, read on the suite's variables.       *)
LEMMA StepKeepsPromise ==
  ASSUME IInv, Rerun = "never", "backup" \notin Faults, [Next]_vars
  PROVE  [Promise!ANext]_(Promise!avars)
<1> USE DEF IInv, SafeInv
<1> DEFINE Tool == /\ \A f \in Files :
                        /\ bak[f] \subseteq bak'[f]
                        /\ dst'[f] # dst[f] =>
                             /\ dst'[f] \notin Adopter
                             /\ dst[f] \in Adopter => dst[f] \in bak[f]
                   /\ mine' = mine
<1>1. Tool => Promise!ANext
  BY DEF Promise!ANext, Promise!ToolActs
<1>2. CASE Release
  BY <1>2 DEF Release, Promise!avars
<1>3. CASE AdopterEdit
  BY <1>3 DEF AdopterEdit, Put, Promise!ANext, Promise!AdopterActs
<1>4. CASE Kill
  <2>1. Tool
    BY <1>4, ContentsAssumption, ContentFacts DEF Kill, Put, Fault, TypeOK, UpgradeInv, DoctorInv,
       InstallInv, Archived
  <2> QED
    BY <1>1, <2>1
<1>5. CASE Upgrading
  <2> USE DEF repo
  <2>1. CASE UpgradeStart \/ LegacyDeleted \/ UpgradeFile \/ UpgradeManifest
               \/ UpgradeAbort
    BY <2>1 DEF UpgradeStart, LegacyDeleted, UpgradeFile, UpgradeManifest,
       UpgradeAbort, Promise!avars
  <2>2. CASE \E t \in Targets : \/ UpgradeSkipTarget(t) \/ UpgradeTree(t)
                                \/ UpgradeOneFile(t) \/ UpgradeLegacy(t)
    <3>1. Tool
      BY <2>2 DEF UpgradeSkipTarget, UpgradeTree, UpgradeOneFile,
         UpgradeLegacy, LegacyArchive, Archive, TypeOK
    <3> QED
      BY <1>1, <3>1
  <2>3. CASE LegacyDelete
    <3>1. Tool
      BY <2>3, ContentFacts DEF LegacyDelete, Put, TypeOK, UpgradeInv, Archived
    <3> QED
      BY <1>1, <3>1
  <2>4. CASE LegacyCopy
    <3>1. Tool
      BY <2>4, ContentsAssumption, ContentFacts
        DEF LegacyCopy, Put, TypeOK, UpgradeInv
    <3> QED
      BY <1>1, <3>1
  <2>5. CASE UpgradeBackup
    <3>1. Tool
      BY <2>5 DEF UpgradeBackup, Archive, TypeOK
    <3> QED
      BY <1>1, <3>1
  <2>6. CASE UpgradeCopy
    <3>1. Tool
      BY <2>6, ContentsAssumption, ContentFacts
        DEF UpgradeCopy, Put, TypeOK, UpgradeInv, Archived, Fault
    <3> QED
      BY <1>1, <3>1
  <2> QED
    BY <1>5, <2>1, <2>2, <2>3, <2>4, <2>5, <2>6 DEF Upgrading, UpgradeStep
<1>6. CASE Installing
  <2> USE DEF repo
  <2>1. CASE InstallStart \/ InstallTarget \/ InstallManifest \/ InstallFinish
               \/ InstallFail
    BY <2>1 DEF InstallStart, InstallTarget, InstallManifest, InstallFinish,
       InstallFail, InstallInv, Promise!avars
  <2>2. CASE InstallCopy
    <3>1. Tool
      BY <2>2, ContentsAssumption, ContentFacts
        DEF InstallCopy, Put, TypeOK, InstallInv
    <3> QED
      BY <1>1, <3>1
  <2>3. CASE InstallFill
    <3>1. Tool
      BY <2>3, ContentsAssumption DEF InstallFill, Substituted, TypeOK
    <3> QED
      BY <1>1, <3>1
  <2> QED
    BY <1>6, <2>1, <2>2, <2>3 DEF Installing, InstallStep
<1>7. CASE Uninstalling
  <2>1. CASE UninstallStart
    <3>1. Tool
      BY <2>1 DEF UninstallStart, UninstallArchive, Archive, TypeOK
    <3> QED
      BY <1>1, <3>1
  <2>2. CASE UninstallRecord
    <3>1. PICK f \in todo :
            /\ IF dst[f] # NoFile /\ Removable(f)
               THEN Put(f, NoFile) ELSE UNCHANGED dst
            /\ IF dst[f] # NoFile /\ opt.force /\ ~ opt.archive
               THEN mine' = [mine EXCEPT ![f] = NoFile] ELSE UNCHANGED mine
      BY <2>2 DEF UninstallRecord
    <3>2. f \in Files /\ bak' = bak /\ pc = "un_records"
      BY <2>2, <3>1 DEF UninstallRecord, TypeOK
    <3>3. CASE dst[f] # NoFile /\ opt.force /\ ~ opt.archive
      BY <3>1, <3>2, <3>3
        DEF Removable, Put, Promise!ANext, Promise!AdopterConsents
    <3>4. CASE ~ (dst[f] # NoFile /\ opt.force /\ ~ opt.archive)
      <4>1. Tool
        BY <3>1, <3>2, <3>4, ContentFacts
          DEF Removable, Put, TypeOK, NoAdopterBaseline, UninstallInv,
              Archived
      <4> QED
        BY <1>1, <4>1
    <3> QED
      BY <3>3, <3>4
  <2>3. CASE UninstallFinish
    BY <2>3 DEF UninstallFinish, Promise!avars
  <2> QED
    BY <1>7, <2>1, <2>2, <2>3 DEF Uninstalling, UninstallStep
<1>8. CASE Repairing
  <2> USE DEF repo
  <2>1. CASE DoctorStart \/ DoctorRecord \/ DoctorFinish
    BY <2>1 DEF DoctorStart, DoctorRecord, DoctorFinish, Promise!avars
  <2>2. CASE DoctorBackup
    <3>1. Tool
      BY <2>2 DEF DoctorBackup, Archive, TypeOK
    <3> QED
      BY <1>1, <3>1
  <2>3. CASE DoctorCopy
    <3>1. Tool
      BY <2>3, ContentsAssumption, ContentFacts
        DEF DoctorCopy, Put, TypeOK, DoctorInv, Archived
    <3> QED
      BY <1>1, <3>1
  <2> QED
    BY <1>8, <2>1, <2>2, <2>3 DEF Repairing, DoctorStep
<1>9. CASE UNCHANGED vars
  BY <1>9 DEF vars, Promise!avars
<1> QED
  BY <1>2, <1>3, <1>4, <1>5, <1>6, <1>7, <1>8, <1>9 DEF Next

(* With backups that succeed, whatever is run, killed or aborted, the      *)
(* suite replaces or removes an adopter's bytes only once they are         *)
(* archived, or with the operator's explicit consent.                      *)
THEOREM Refinement ==
  ASSUME Rerun = "never", "backup" \notin Faults
  PROVE  Spec => KeepsPromise
<1>1. Init => Promise!AInit
  BY DEF Init, Empty, Promise!AInit
<1>2. IInv /\ [Next]_vars => [Promise!ANext]_(Promise!avars)
  BY StepKeepsPromise
<1> QED
  BY <1>1, <1>2, Invariance, PTL DEF Spec, KeepsPromise, Promise!ASpec

(* A step the promise allows loses no file of the adopter.                 *)
LEMMA PromiseKeepsFiles ==
  ASSUME TypeOK, NoLoss, [Promise!ANext]_(Promise!avars) PROVE NoLoss'
<1> SUFFICES ASSUME NEW f \in Files, mine'[f] # NoFile
             PROVE  dst'[f] = mine'[f] \/ mine'[f] \in bak'[f]
  BY DEF NoLoss
<1>1. CASE Promise!AdopterActs
  BY <1>1 DEF Promise!AdopterActs, NoLoss, TypeOK
<1>2. CASE Promise!ToolActs
  BY <1>2 DEF Promise!ToolActs, NoLoss, TypeOK
<1>3. CASE Promise!AdopterConsents
  BY <1>3 DEF Promise!AdopterConsents, NoLoss, TypeOK
<1>4. CASE UNCHANGED Promise!avars
  BY <1>4 DEF Promise!avars, NoLoss
<1> QED
  BY <1>1, <1>2, <1>3, <1>4 DEF Promise!ANext

(* What an adopter last wrote at a path is in the tree or in an archive.   *)
THEOREM NothingIsLost ==
  ASSUME Rerun = "never", "backup" \notin Faults
  PROVE  Spec => []NoLoss
<1>1. Init => NoLoss
  BY DEF Init, NoLoss, Empty
<1>2. IInv /\ NoLoss /\ [Next]_vars => NoLoss'
  BY StepKeepsPromise, PromiseKeepsFiles DEF IInv
<1> QED
  BY <1>1, <1>2, Invariance, PTL DEF Spec

-----------------------------------------------------------------------------
(* What uninstall.sh and install.sh leave, over any tree and with any      *)
(* fault.                                                                  *)

(* With --force every record the walk is through with is gone from disk.   *)
LedgerInv ==
  pc = "un_records" /\ opt.force =>
    \A f \in Records : f \in todo \/ dst[f] = NoFile

(* A run of install.sh can put back the adopter's bytes it found, and is   *)
(* about to copy only where there is no file.                              *)
SnapInv ==
  Running(InstallPhases) =>
    /\ snap # NoSnap => \A f \in Files : dst[f] \in Adopter => snap.dst[f] = dst[f]
    /\ pc = "in_copy" => \A f \in todo : dst[f] = NoFile

LEMMA LedgerStep == TypeOK /\ LedgerInv /\ [Next]_vars => LedgerInv'
<1> SUFFICES ASSUME TypeOK, LedgerInv, [Next]_vars,
                    pc' = "un_records", opt'.force, NEW f \in Records'
             PROVE  f \in todo' \/ dst'[f] = NoFile
  BY DEF LedgerInv
<1>1. UninstallStart \/ UninstallRecord \/ UNCHANGED vars
  <2>1. ~ (Release \/ AdopterEdit)
    BY DEF Release, AdopterEdit, run
  <2>2. ~ (Kill \/ UninstallFinish)
    BY DEF Kill, UninstallFinish, Stop
  <2>3. ~ Upgrading
    BY DEF Upgrading, UpgradeStart, Begin, UpgradeStep, UpgradeAbort, Stop,
       UpgradeSkipTarget, UpgradeTree, UpgradeOneFile, UpgradeLegacy,
       NextTarget, LegacyDelete, LegacyDeleted, LegacyCopy, UpgradeFile,
       AfterFile, UpgradeBackup, UpgradeCopy, UpgradeManifest
  <2>4. ~ Installing
    BY DEF Installing, InstallStart, Begin, InstallStep, InstallFail, Stop,
       InstallTarget, InstallCopy, InstallFill, InstallManifest, InstallFinish
  <2>5. ~ Repairing
    BY DEF Repairing, DoctorStart, Begin, DoctorStep, DoctorRecord,
       DoctorBackup, DoctorCopy, DoctorFinish, Stop
  <2> QED
    BY <2>1, <2>2, <2>3, <2>4, <2>5 DEF Next, Uninstalling, UninstallStep
<1>2. CASE UninstallStart
  BY <1>2 DEF UninstallStart, Begin, Records
<1>3. CASE UninstallRecord
  BY <1>3 DEF UninstallRecord, Removable, Put, Records, LedgerInv, TypeOK
<1>4. CASE UNCHANGED vars
  BY <1>4 DEF vars, LedgerInv, Records
<1> QED
  BY <1>1, <1>2, <1>3, <1>4

(* uninstall.sh gives the manifest up only once no recorded file is left,  *)
(* whatever was run, killed or forced before.                              *)
THEOREM LedgerOutlives == Spec => LedgerOutlivesFiles
<1> DEFINE Outlives == Running(UninstallPhases) /\ recorded' # recorded =>
             \A f \in Records : dst[f] = NoFile
<1>1. Init => LedgerInv
  BY DEF Init, LedgerInv
<1>2. TypeOK /\ LedgerInv /\ [Next]_vars => [Outlives]_vars
  <2> SUFFICES ASSUME TypeOK, LedgerInv, Next, pc = "un_records",
                      recorded' # recorded, NEW f \in Records
               PROVE  dst[f] = NoFile
    BY DEF Running, UninstallPhases
  <2>1. UninstallFinish
    BY PhaseOfStep DEF Next, Kill, Uninstalling, UninstallStep,
       UninstallRecord, Upgrading, Installing, Repairing, UpgradePhases,
       InstallPhases, DoctorPhases
  <2>2. todo = {} /\ ~ Incomplete
    BY <2>1 DEF UninstallFinish
  <2> QED
    BY <2>2 DEF Incomplete, LedgerInv
<1> QED
  BY <1>1, <1>2, LedgerStep, TypeCorrect, PTL DEF Spec, LedgerOutlivesFiles

LEMMA SnapStep == TypeOK /\ SnapInv /\ [Next]_vars => SnapInv'
<1> SUFFICES ASSUME TypeOK, SnapInv, [Next]_vars, pc' \in InstallPhases
             PROVE  /\ snap' # NoSnap => \A f \in Files :
                         dst'[f] \in Adopter => snap'.dst[f] = dst'[f]
                    /\ pc' = "in_copy" => \A f \in todo' : dst'[f] = NoFile
  BY DEF SnapInv, Running
<1> USE DEF repo
<1>1. InstallStart \/ InstallTarget \/ InstallCopy \/ InstallFill
        \/ InstallManifest \/ UNCHANGED vars
  <2>1. ~ (Release \/ AdopterEdit)
    BY DEF Release, AdopterEdit, run, InstallPhases
  <2>2. ~ (Kill \/ InstallFinish \/ InstallFail)
    BY DEF Kill, InstallFinish, InstallFail, Stop, InstallPhases
  <2>3. ~ Upgrading
    BY DEF Upgrading, UpgradeStart, Begin, UpgradeStep, UpgradeAbort, Stop,
       UpgradeSkipTarget, UpgradeTree, UpgradeOneFile, UpgradeLegacy,
       NextTarget, LegacyDelete, LegacyDeleted, LegacyCopy, UpgradeFile,
       AfterFile, UpgradeBackup, UpgradeCopy, UpgradeManifest, InstallPhases
  <2>4. ~ Uninstalling
    BY DEF Uninstalling, UninstallStart, Begin, UninstallStep, UninstallRecord,
       UninstallFinish, Stop, InstallPhases
  <2>5. ~ Repairing
    BY DEF Repairing, DoctorStart, Begin, DoctorStep, DoctorRecord,
       DoctorBackup, DoctorCopy, DoctorFinish, Stop, InstallPhases
  <2> QED
    BY <2>1, <2>2, <2>3, <2>4, <2>5 DEF Next, Installing, InstallStep
<1>2. CASE InstallStart
  BY <1>2 DEF InstallStart, Begin, Snapshot
<1>3. CASE InstallTarget
  BY <1>3 DEF InstallTarget, ToCopy, SnapInv, Running, InstallPhases
<1>4. CASE InstallCopy
  <2>1. PICK f \in todo : /\ Put(f, src[f]) /\ todo' = todo \ {f}
                          /\ UNCHANGED snap /\ dst[f] = NoFile
    BY <1>4 DEF InstallCopy, SnapInv, Running, InstallPhases
  <2>2. src[f] \notin Adopter
    BY <2>1, ContentsAssumption, ContentFacts DEF TypeOK
  <2>3. \A g \in Files : dst'[g] = IF g = f THEN src[f] ELSE dst[g]
    BY <2>1 DEF Put, TypeOK
  <2> QED
    BY <1>4, <2>1, <2>2, <2>3
      DEF InstallCopy, SnapInv, Running, InstallPhases, TypeOK
<1>5. CASE InstallFill
  <2>1. \A f \in Files : dst'[f] \in Adopter => dst'[f] = dst[f]
    BY <1>5, ContentsAssumption DEF InstallFill, Substituted
  <2> QED
    BY <1>5, <2>1 DEF InstallFill, SnapInv, Running, InstallPhases
<1>6. CASE InstallManifest
  BY <1>6 DEF InstallManifest, SnapInv, Running, InstallPhases
<1>7. CASE UNCHANGED vars
  BY <1>7 DEF vars, SnapInv, Running
<1> QED
  BY <1>1, <1>2, <1>3, <1>4, <1>5, <1>6, <1>7

(* install.sh, over any tree and rolled back or not, leaves adopter bytes  *)
(* where they were unless the move of its rollback fails.                  *)
THEOREM InstallSpares == Spec => InstallPreservesOrRollsBack
<1> DEFINE Spares == Running(InstallPhases) =>
             \A f \in Files : dst[f] \in Adopter =>
               dst'[f] = dst[f] \/ (snap # NoSnap /\ pc' = "idle" /\ dst' = Empty)
<1>1. Init => SnapInv
  BY DEF Init, SnapInv, Running, InstallPhases
<1>2. TypeOK /\ SnapInv /\ [Next]_vars => [Spares]_vars
  <2> SUFFICES ASSUME TypeOK, SnapInv, Next, pc \in InstallPhases,
                      NEW f \in Files, dst[f] \in Adopter
               PROVE  dst'[f] = dst[f]
                        \/ (snap # NoSnap /\ pc' = "idle" /\ dst' = Empty)
    BY DEF Running
  <2> USE DEF repo
  <2>1. CASE Kill
    BY <2>1, ContentFacts DEF Kill, Put, SnapInv, Running, TypeOK, InstallPhases
  <2>2. CASE InstallTarget \/ InstallManifest \/ InstallFinish
    BY <2>2 DEF InstallTarget, InstallManifest, InstallFinish
  <2>3. CASE InstallCopy
    BY <2>3, ContentFacts DEF InstallCopy, Put, SnapInv, Running, TypeOK
  <2>4. CASE InstallFill
    BY <2>4, ContentsAssumption DEF InstallFill, Substituted
  <2>5. CASE InstallFail
    BY <2>5 DEF InstallFail, Stop, SnapInv, Running
  <2> QED
    BY <2>1, <2>2, <2>3, <2>4, <2>5, PhaseOfStep
      DEF Next, Upgrading, Installing, InstallStep, Uninstalling, Repairing,
          UpgradePhases, InstallPhases, UninstallPhases, DoctorPhases
<1> QED
  BY <1>1, <1>2, SnapStep, TypeCorrect, PTL
    DEF Spec, InstallPreservesOrRollsBack

-----------------------------------------------------------------------------
(* Convergence, when runs end and the manifest is written.                 *)

(* A file without a byte of its adopter is absent, or as it was recorded,  *)
(* or not recorded.                                                        *)
Fresh(f) ==
  mine[f] = NoFile => dst[f] \in {NoFile, recorded[f]} \/ recorded[f] = NoRecord

(* Such a file, if the release ships it, has the shipped content.          *)
Settled(f) == src[f] # NoFile /\ mine[f] = NoFile => dst[f] = src[f]

(* The upgrade has not come to the file.                                   *)
Ahead(f) ==
  \/ TargetOf[f] \in left
  \/ pc \in {"up_files", "up_backup", "up_copy"} /\ f \in todo

(* The upgrade is at the file.                                             *)
UnderWay(f) ==
  \/ pc \in {"up_backup", "up_copy"} /\ f = cur
  \/ pc = "up_delete" /\ TargetOf[f] = cur
  \/ pc = "up_recopy" /\ f \in todo

(* It comes to a file once.                                                *)
Once(f) ==
  /\ UnderWay(f) => ~ Ahead(f)
  /\ pc \in {"up_files", "up_backup", "up_copy"} /\ f \in todo =>
       TargetOf[f] \notin left

ConvergeInv ==
  /\ Running(UpgradePhases) =>
       /\ opt.skip = {}
       /\ pc = "up_targets" => todo = {}
       /\ \A f \in Files : Once(f)
       /\ \A f \in Files : Ahead(f) => Fresh(f)
       /\ \A f \in Files : Ahead(f) \/ UnderWay(f) \/ Settled(f)
  /\ ~ Running(UpgradePhases) => \A f \in Files : Fresh(f)
  /\ pc \in {"in_targets", "in_copy", "in_manifest"} =>
       \A f \in Files : recorded[f] = NoRecord

(* No run is cut short and every manifest is written: what a file was      *)
(* recorded with is then told from what its adopter did to it.             *)
NoInterruption == {"crash", "abort", "manifest"} \cap Faults = {}

LEMMA ConvergeInit == Init => ConvergeInv
BY DEF Init, ConvergeInv, Running, UpgradePhases, Fresh, Empty, NoManifest

(* Outside an upgrade, and between two runs, the files need only be fresh. *)
LEMMA FreshOutside ==
  ASSUME pc' \notin UpgradePhases, \A f \in Files : Fresh(f)',
         pc' \in {"in_targets", "in_copy", "in_manifest"} =>
           \A f \in Files : recorded'[f] = NoRecord
  PROVE  ConvergeInv'
BY DEF ConvergeInv, Running

(* A fresh file that the walk leaves alone has the shipped content.        *)
LEMMA SparedIsSettled ==
  ASSUME NEW f \in Files, Fresh(f), dst[f] # NoFile, Spared(f)
  PROVE  Settled(f)
BY DEF Fresh, Spared, Verdict, Unclassifiable, Settled

(* Within upgrade.sh, as long as it changes no record and nothing of the   *)
(* world, a file that is still ahead is as fresh as it was if it was not   *)
(* written.                                                                *)
LEMMA StillFresh ==
  ASSUME NEW f \in Files, Fresh(f), UNCHANGED <<recorded, mine>>, dst'[f] = dst[f]
  PROVE  Fresh(f)'
BY DEF Fresh

LEMMA StillSettled ==
  ASSUME NEW f \in Files, Settled(f), UNCHANGED <<src, mine>>, dst'[f] = dst[f]
  PROVE  Settled(f)'
BY DEF Settled

LEMMA UpgradeConverges ==
  ASSUME TypeOK, SafeInv, ConvergeInv, NoInterruption, SkipSets \subseteq {{}},
         Upgrading
  PROVE  ConvergeInv'
<1> USE DEF repo
<1>1. CASE UpgradeStart
  <2>1. /\ opt'.skip = {} /\ todo' = {} /\ left' = Targets
        /\ pc = "idle" /\ pc' = "up_targets"
    BY <1>1 DEF UpgradeStart, Begin, Defaults
  <2>2. \A f \in Files : Fresh(f)'
    BY <1>1, <2>1, StillFresh
      DEF UpgradeStart, ConvergeInv, Running, UpgradePhases
  <2>3. \A f \in Files : Ahead(f)' /\ Once(f)'
    BY <2>1, PathsAssumption DEF Ahead, Once, UnderWay
  <2> QED
    BY <2>1, <2>2, <2>3 DEF ConvergeInv, Running, UpgradePhases
<1> DEFINE Kept == pc \in UpgradePhases /\ UNCHANGED <<src, recorded, mine, opt>>
<1>2. \A f \in Files : Kept => /\ Ahead(f) => Fresh(f)
                               /\ Ahead(f) \/ UnderWay(f) \/ Settled(f)
                               /\ opt'.skip = {} /\ Once(f)
  BY DEF ConvergeInv, Running
(* What is left to show of a step within the run.                          *)
<1>3. ASSUME Kept, pc' \in UpgradePhases, pc' = "up_targets" => todo' = {},
             \A f \in Files : Once(f)',
             \A f \in Files : Ahead(f)' => Ahead(f) /\ dst'[f] = dst[f],
             \A f \in Files : Settled(f)' \/ Ahead(f)' \/ UnderWay(f)'
      PROVE  ConvergeInv'
  <2>1. \A f \in Files : Ahead(f)' => Fresh(f)'
    BY <1>2, <1>3, StillFresh
  <2>2. opt'.skip = {}
    BY <1>3 DEF ConvergeInv, Running
  <2> QED
    BY <1>3, <2>1, <2>2 DEF ConvergeInv, Running, UpgradePhases
<1>4. ASSUME NEW t \in Targets, UpgradeSkipTarget(t) PROVE ConvergeInv'
  <2>1. Kept /\ pc = "up_targets" /\ todo = {} /\ t \in left /\ opt.skip = {}
    BY <1>4 DEF UpgradeSkipTarget, NextTarget, UpgradePhases, ConvergeInv, Running
  <2>2. \A f \in Files : ~ UnderWay(f) /\ (Ahead(f) <=> TargetOf[f] \in left)
    BY <2>1 DEF UnderWay, Ahead
  <2>3. \A f \in InTarget(t) : Settled(f)
    <3> SUFFICES ASSUME NEW f \in InTarget(t) PROVE Settled(f)
      OBVIOUS
    <3>1. CASE Shipped(t) = {}
      BY <3>1 DEF Shipped, Settled
    <3>2. CASE Classified(t) /\ Spared(t)
      <4>1. f = t /\ f \in Files /\ dst[f] # NoFile /\ Spared(f)
        BY <3>2, PathsAssumption DEF Classified, Present, InTarget
      <4>2. Fresh(f)
        BY <1>2, <2>1, <2>2 DEF InTarget
      <4> QED
        BY <4>1, <4>2, SparedIsSettled
    <3> QED
      BY <1>4, <2>1, <3>1, <3>2 DEF UpgradeSkipTarget, Replaceable
  <2>4. /\ UNCHANGED <<dst, src, mine, pc, todo>> /\ left' = left \ {t}
    BY <1>4 DEF UpgradeSkipTarget, NextTarget
  <2>5. \A f \in Files : Ahead(f)' <=> Ahead(f) /\ f \notin InTarget(t)
    BY <2>1, <2>2, <2>4 DEF Ahead, InTarget
  <2>6. \A f \in Files : Settled(f) => Settled(f)'
    BY <2>4, StillSettled
  <2>7. \A f \in Files : Once(f)'
    BY <2>1, <2>4 DEF Once, UnderWay
  <2> QED
    BY <1>2, <1>3, <2>1, <2>2, <2>3, <2>4, <2>5, <2>6, <2>7
<1>5. ASSUME NEW t \in Targets, UpgradeTree(t) PROVE ConvergeInv'
  <2>1. Kept /\ pc = "up_targets" /\ todo = {} /\ t \in left
    BY <1>5 DEF UpgradeTree, NextTarget, UpgradePhases, ConvergeInv, Running
  <2>2. \A f \in Files : ~ UnderWay(f) /\ (Ahead(f) <=> TargetOf[f] \in left)
    BY <2>1 DEF UnderWay, Ahead
  <2>3. /\ UNCHANGED <<dst, src, mine>> /\ left' = left \ {t}
        /\ pc' = "up_files" /\ todo' = Shipped(t) \cup Present(t)
    BY <1>5 DEF UpgradeTree, NextTarget
  <2>4. \A f \in Files : Ahead(f)' =>  Ahead(f)
    BY <2>1, <2>2, <2>3 DEF Ahead, InTarget, Shipped, Present
  <2>5. \A f \in InTarget(t) : f \in todo' \/ Settled(f)'
    BY <2>3 DEF Shipped, Settled, InTarget
  <2>6. \A f \in Files : Ahead(f) => Ahead(f)' \/ f \in InTarget(t)
    BY <2>2, <2>3 DEF Ahead, InTarget
  <2>7. \A f \in todo' : Ahead(f)'
    BY <2>3 DEF Ahead
  <2>8. \A f \in Files : Settled(f) => Settled(f)'
    BY <2>3, StillSettled
  <2>9. pc' \in UpgradePhases /\ pc' # "up_targets"
    BY <2>3 DEF UpgradePhases
  <2>10. \A f \in Files : Once(f)'
    BY <2>3 DEF Once, UnderWay, Shipped, Present, InTarget
  <2> QED
    BY <1>2, <1>3, <2>1, <2>2, <2>3, <2>4, <2>5, <2>6, <2>7, <2>8, <2>9, <2>10
<1>6. ASSUME NEW t \in Targets, UpgradeOneFile(t) PROVE ConvergeInv'
  <2>1. Kept /\ pc = "up_targets" /\ todo = {} /\ t \in left
    BY <1>6 DEF UpgradeOneFile, NextTarget, UpgradePhases, ConvergeInv, Running
  <2>2. \A f \in Files : ~ UnderWay(f) /\ (Ahead(f) <=> TargetOf[f] \in left)
    BY <2>1 DEF UnderWay, Ahead
  <2>3. /\ UNCHANGED <<dst, src, mine, todo>> /\ left' = left \ {t}
        /\ pc' = "up_backup" /\ cur' = t
    BY <1>6 DEF UpgradeOneFile, NextTarget
  <2>4. \A f \in Files : TargetOf[f] = t => f = t
    BY <1>6, PathsAssumption DEF UpgradeOneFile, Classified
  <2>5. \A f \in Files : Ahead(f)' => Ahead(f)
    BY <2>1, <2>2, <2>3 DEF Ahead
  <2>6. \A f \in Files : Ahead(f) => Ahead(f)' \/ UnderWay(f)'
    BY <2>2, <2>3, <2>4 DEF Ahead, UnderWay
  <2>7. \A f \in Files : Settled(f) => Settled(f)'
    BY <2>3, StillSettled
  <2>8. pc' \in UpgradePhases /\ pc' # "up_targets"
    BY <2>3 DEF UpgradePhases
  <2>9. \A f \in Files : Once(f)'
    <3>1. TargetOf[t] = t
      BY <1>6, PathsAssumption DEF UpgradeOneFile, Classified, Present, InTarget
    <3> QED
      BY <2>1, <2>3, <3>1 DEF Once, UnderWay, Ahead
  <2> QED
    BY <1>2, <1>3, <2>1, <2>2, <2>3, <2>5, <2>6, <2>7, <2>8, <2>9
<1>7. ASSUME NEW t \in Targets, UpgradeLegacy(t) PROVE ConvergeInv'
  <2>1. Kept /\ pc = "up_targets" /\ todo = {} /\ t \in left
    BY <1>7 DEF UpgradeLegacy, NextTarget, UpgradePhases, ConvergeInv, Running
  <2>2. \A f \in Files : ~ UnderWay(f) /\ (Ahead(f) <=> TargetOf[f] \in left)
    BY <2>1 DEF UnderWay, Ahead
  <2>3. /\ UNCHANGED <<dst, src, mine>> /\ left' = left \ {t}
        /\ pc' = "up_delete" /\ cur' = t
    BY <1>7 DEF UpgradeLegacy, NextTarget
  <2>4. \A f \in Files : Ahead(f)' => Ahead(f)
    BY <2>2, <2>3 DEF Ahead
  <2>5. \A f \in Files : Ahead(f) => Ahead(f)' \/ UnderWay(f)'
    BY <2>2, <2>3 DEF Ahead, UnderWay
  <2>6. \A f \in Files : Settled(f) => Settled(f)'
    BY <2>3, StillSettled
  <2>7. pc' \in UpgradePhases /\ pc' # "up_targets"
    BY <2>3 DEF UpgradePhases
  <2>8. \A f \in Files : Once(f)'
    BY <2>3 DEF Once, UnderWay, Ahead
  <2> QED
    BY <1>2, <1>3, <2>1, <2>2, <2>3, <2>4, <2>5, <2>6, <2>7, <2>8
(* A step that writes at most one file the run is under way with.          *)
<1>8. ASSUME NEW f \in Files, UnderWay(f), Kept, pc' \in UpgradePhases,
             pc' = "up_targets" => todo' = {},
             \A g \in Files : Once(g)',
             \A g \in Files : g # f => dst'[g] = dst[g],
             \A g \in Files : Ahead(g)' <=> Ahead(g),
             Settled(f)' \/ UnderWay(f)',
             \A g \in Files : g # f /\ UnderWay(g) => UnderWay(g)' \/ Settled(g)'
      PROVE  ConvergeInv'
  <2>1. ~ Ahead(f)
    BY <1>2, <1>8 DEF Once
  <2>2. \A g \in Files : Ahead(g)' => Ahead(g) /\ dst'[g] = dst[g]
    BY <1>8, <2>1
  <2>3. \A g \in Files : g # f /\ Settled(g) => Settled(g)'
    BY <1>8, StillSettled
  <2>4. \A g \in Files : Settled(g)' \/ Ahead(g)' \/ UnderWay(g)'
    BY <1>2, <1>8, <2>3
  <2> QED
    BY <1>3, <1>8, <2>2, <2>4
<1>9. CASE LegacyDelete
  <2>1. PICK f \in todo : Put(f, NoFile)
    BY <1>9 DEF LegacyDelete
  <2>2. /\ Kept /\ pc = "up_delete" /\ pc' = "up_delete"
        /\ UNCHANGED <<src, mine, left, cur>> /\ todo \subseteq InTarget(cur)
    BY <1>9 DEF LegacyDelete, UpgradePhases, SafeInv, UpgradeInv
  <2>3. \A g \in Files : g # f => dst'[g] = dst[g]
    BY <2>1 DEF Put, TypeOK
  <2>4. f \in Files /\ UnderWay(f)
    BY <2>1, <2>2 DEF UnderWay, InTarget
  <2>5. \A g \in Files : (Ahead(g)' <=> Ahead(g)) /\ (UnderWay(g)' <=> UnderWay(g))
    BY <2>2 DEF Ahead, UnderWay
  <2>6. \A g \in Files : Once(g)'
    BY <1>2, <2>2, <2>5 DEF Once
  <2> QED
    BY <1>8, <2>2, <2>3, <2>4, <2>5, <2>6 DEF UpgradePhases
<1>10. CASE LegacyDeleted
  <2>1. /\ Kept /\ pc = "up_delete" /\ pc' = "up_recopy"
        /\ UNCHANGED <<src, dst, mine, left, cur>> /\ todo' = Shipped(cur)
    BY <1>10 DEF LegacyDeleted, UpgradePhases
  <2>2. \A g \in Files : (Ahead(g)' <=> Ahead(g))
    BY <2>1 DEF Ahead
  <2>3. \A g \in Files : UnderWay(g) => UnderWay(g)' \/ Settled(g)'
    BY <2>1 DEF UnderWay, Settled, Shipped, InTarget
  <2>4. \A g \in Files : Settled(g) => Settled(g)'
    BY <2>1, StillSettled
  <2>5. \A g \in Files : Once(g)'
    BY <1>2, <2>1, <2>2 DEF Once, UnderWay, Shipped, InTarget
  <2> QED
    BY <1>2, <1>3, <2>1, <2>2, <2>3, <2>4, <2>5 DEF UpgradePhases
<1>11. CASE LegacyCopy
  <2>1. PICK f \in todo :
          /\ Put(f, src[f]) /\ todo' = todo \ {f}
          /\ pc' = IF todo = {f} THEN "up_targets" ELSE "up_recopy"
    BY <1>11 DEF LegacyCopy
  <2>2. Kept /\ pc = "up_recopy" /\ UNCHANGED <<src, mine, left>>
    BY <1>11 DEF LegacyCopy, UpgradePhases
  <2>3. f \in Files /\ UnderWay(f)
    BY <2>1, <2>2 DEF UnderWay, TypeOK
  <2>4. \A g \in Files : g # f => dst'[g] = dst[g]
    BY <2>1 DEF Put, TypeOK
  <2>5. Settled(f)'
    BY <2>1, <2>2, <2>3 DEF Settled, Put, TypeOK
  <2>6. \A g \in Files : (Ahead(g)' <=> Ahead(g))
    BY <2>1, <2>2 DEF Ahead
  <2>7. \A g \in Files : g # f /\ UnderWay(g) => UnderWay(g)'
    BY <2>1, <2>2 DEF UnderWay
  <2>8. \A g \in Files : Once(g)'
    BY <1>2, <2>1, <2>2, <2>6 DEF Once, UnderWay
  <2> QED
    BY <1>8, <2>1, <2>2, <2>3, <2>4, <2>5, <2>6, <2>7, <2>8 DEF UpgradePhases
<1>12. CASE UpgradeFile
  <2>1. PICK f \in todo :
          /\ todo' = todo \ {f}
          /\ IF Untouched(f)
             THEN pc' = AfterFile(todo \ {f}) /\ cur' = cur
             ELSE pc' = "up_backup" /\ cur' = f
    BY <1>12 DEF UpgradeFile
  <2>2. /\ Kept /\ pc = "up_files" /\ UNCHANGED <<src, dst, mine, left>>
        /\ f \in Files /\ Ahead(f) /\ TargetOf[f] \notin left
    BY <1>2, <1>12, <2>1 DEF UpgradeFile, UpgradePhases, TypeOK, Ahead, Once
  <2>3. pc' \in {"up_targets", "up_files", "up_backup"}
        /\ (pc' = "up_targets" => todo' = {})
    BY <2>1 DEF AfterFile
  <2>4. \A g \in Files : Ahead(g)' => Ahead(g)
    BY <2>1, <2>2, <2>3 DEF Ahead
  <2>5. \A g \in Files : g # f /\ Ahead(g) => Ahead(g)'
    BY <2>1, <2>2, <2>3 DEF Ahead
  <2>6. \A g \in Files : ~ UnderWay(g)
    BY <2>2 DEF UnderWay
  <2>7. Settled(f)' \/ UnderWay(f)'
    <3>1. CASE Untouched(f)
      <4>1. opt.skip = {} /\ Fresh(f)
        BY <1>2, <2>2 DEF ConvergeInv, Running
      <4>2. Settled(f)
        BY <2>2, <3>1, <4>1, SparedIsSettled DEF Untouched, Settled
      <4> QED
        BY <2>2, <4>2, StillSettled
    <3>2. CASE ~ Untouched(f)
      BY <2>1, <3>2 DEF UnderWay
    <3> QED
      BY <3>1, <3>2
  <2>8. \A g \in Files : Settled(g) => Settled(g)'
    BY <2>2, StillSettled
  <2>9. \A g \in Files : Once(g)'
    BY <1>2, <2>1, <2>2, <2>3 DEF Once, UnderWay, Ahead, AfterFile
  <2>10. pc' \in UpgradePhases
    BY <2>3 DEF UpgradePhases
  <2> QED
    BY <1>2, <1>3, <2>2, <2>3, <2>4, <2>5, <2>6, <2>7, <2>8, <2>9, <2>10
<1>13. CASE UpgradeBackup
  <2>1. /\ Kept /\ pc = "up_backup" /\ pc' = "up_copy"
        /\ UNCHANGED <<src, dst, mine, left, todo, cur>>
    BY <1>13 DEF UpgradeBackup, UpgradePhases
  <2>2. \A g \in Files : (Ahead(g)' <=> Ahead(g)) /\ (UnderWay(g)' <=> UnderWay(g))
    BY <2>1 DEF Ahead, UnderWay
  <2>3. \A g \in Files : Settled(g) => Settled(g)'
    BY <2>1, StillSettled
  <2>4. \A g \in Files : Once(g)'
    BY <1>2, <2>1, <2>2 DEF Once
  <2> QED
    BY <1>2, <1>3, <2>1, <2>2, <2>3, <2>4 DEF UpgradePhases
<1>14. CASE UpgradeCopy
  <2>1. /\ Kept /\ pc = "up_copy" /\ Put(cur, src[cur]) /\ cur \in Files
        /\ pc' = AfterFile(todo) /\ UNCHANGED <<src, mine, left, todo>>
    BY <1>14 DEF UpgradeCopy, UpgradePhases, SafeInv, UpgradeInv
  <2>2. pc' \in {"up_targets", "up_files"} /\ (pc' = "up_targets" => todo' = {})
    BY <2>1 DEF AfterFile
  <2>3. UnderWay(cur) /\ \A g \in Files : UnderWay(g) => g = cur
    BY <2>1 DEF UnderWay
  <2>4. \A g \in Files : g # cur => dst'[g] = dst[g]
    BY <2>1 DEF Put, TypeOK
  <2>5. dst'[cur] = src[cur]
    BY <2>1 DEF Put, TypeOK
  <2>6. ASSUME NEW f \in Files, f = cur PROVE Settled(f)'
    BY <2>1, <2>5, <2>6 DEF Settled
  <2>7. \A g \in Files : (Ahead(g)' <=> Ahead(g))
    BY <2>1, <2>2 DEF Ahead
  <2>8. \A g \in Files : Once(g)'
    BY <1>2, <2>1, <2>2 DEF Once, UnderWay
  <2>9. pc' \in UpgradePhases
    BY <2>2 DEF UpgradePhases
  <2>10. PICK f \in Files : f = cur
    BY <2>1
  <2> QED
    BY <1>8, <2>1, <2>2, <2>3, <2>4, <2>6, <2>7, <2>8, <2>9, <2>10
<1>15. CASE UpgradeManifest
  <2>1. /\ pc = "up_targets" /\ left = {} /\ todo = {}
    BY <1>15 DEF UpgradeManifest, ConvergeInv, Running, UpgradePhases
  <2>2. \A f \in Files : Settled(f)
    BY <1>15, <2>1 DEF UpgradeManifest, ConvergeInv, Running, UpgradePhases,
       Ahead, UnderWay
  <2>3. recorded' = UpgradeBaseline /\ UNCHANGED <<src, dst, mine>> /\ pc' = "idle"
    BY <1>15 DEF UpgradeManifest, NoInterruption, Fault, Stop
  <2>4. \A f \in Files : Fresh(f)'
    BY <2>2, <2>3 DEF Fresh, Settled, UpgradeBaseline
  <2> QED
    BY <2>3, <2>4, FreshOutside DEF UpgradePhases
<1>16. ~ UpgradeAbort
  BY DEF UpgradeAbort, NoInterruption, Fault
<1> QED
  BY <1>1, <1>4, <1>5, <1>6, <1>7, <1>9, <1>10, <1>11, <1>12, <1>13, <1>14,
     <1>15, <1>16 DEF Upgrading, UpgradeStep

(* In the other tools a file stays fresh: install.sh records what it finds *)
(* over an empty manifest, doctor.sh writes recorded bytes, uninstall.sh   *)
(* removes.                                                                *)
LEMMA OthersConverge ==
  ASSUME TypeOK, SafeInv, ConvergeInv, NoInterruption, Rerun = "never",
         Installing \/ Uninstalling \/ Repairing
  PROVE  ConvergeInv'
<1> USE DEF repo
<1> DEFINE Steady == /\ pc \notin UpgradePhases /\ pc' \notin UpgradePhases
                     /\ pc' \notin {"in_targets", "in_copy", "in_manifest"}
<1>1. pc \notin UpgradePhases => \A f \in Files : Fresh(f)
  BY DEF ConvergeInv, Running
<1>2. CASE InstallStart
  <2>1. /\ pc = "idle" /\ pc' = "in_targets" /\ UNCHANGED <<dst, recorded, mine>>
        /\ \A f \in Files : recorded[f] = NoRecord
    BY <1>2 DEF InstallStart, Begin, HasTree, Loaded
  <2> QED
    BY <2>1, FreshOutside DEF Fresh, UpgradePhases
<1>3. CASE InstallTarget \/ InstallCopy \/ InstallFill
  <2>1. /\ pc \in {"in_targets", "in_copy"} /\ recorded' = recorded
        /\ pc' \in {"in_targets", "in_copy", "in_manifest"}
    BY <1>3 DEF InstallTarget, InstallCopy, InstallFill
  <2>2. \A f \in Files : recorded'[f] = NoRecord
    BY <2>1 DEF ConvergeInv
  <2> QED
    BY <2>1, <2>2, FreshOutside DEF Fresh, UpgradePhases
<1>4. CASE InstallManifest
  <2>1. /\ recorded' = InstallBaseline /\ UNCHANGED <<dst, mine>>
        /\ pc' = "in_finish"
    BY <1>4 DEF InstallManifest, NoInterruption, Fault
  <2> QED
    BY <2>1, FreshOutside DEF InstallBaseline, Fresh, UpgradePhases
<1>5. CASE InstallFinish \/ DoctorFinish \/ UninstallStart \/ DoctorStart
             \/ DoctorRecord \/ DoctorBackup
  <2>1. Steady /\ UNCHANGED <<dst, recorded, mine>>
    BY <1>5 DEF InstallFinish, DoctorFinish, Stop, UninstallStart, DoctorStart,
       Begin, DoctorRecord, DoctorBackup, UpgradePhases
  <2>2. \A f \in Files : Fresh(f)'
    BY <1>1, <2>1, StillFresh
  <2> QED
    BY <2>1, <2>2, FreshOutside
<1>6. ~ InstallFail
  BY DEF InstallFail, NoInterruption, Fault
<1>7. CASE UninstallRecord
  <2>1. Steady /\ pc = "un_records" /\ UNCHANGED recorded
    BY <1>7 DEF UninstallRecord, UpgradePhases
  <2>2. PICK f \in todo :
          /\ IF dst[f] # NoFile /\ Removable(f)
             THEN Put(f, NoFile) ELSE UNCHANGED dst
          /\ IF dst[f] # NoFile /\ opt.force /\ ~ opt.archive
             THEN mine' = [mine EXCEPT ![f] = NoFile] ELSE UNCHANGED mine
    BY <1>7 DEF UninstallRecord
  <2>3. \A g \in Files : Fresh(g)'
    BY <1>1, <2>1, <2>2 DEF Fresh, Removable, Put, TypeOK
  <2> QED
    BY <2>1, <2>3, FreshOutside
<1>8. CASE UninstallFinish
  <2>1. Steady /\ UNCHANGED <<dst, mine>>
        /\ recorded' \in {recorded, NoManifest}
    BY <1>8 DEF UninstallFinish, Stop, UpgradePhases
  <2>2. \A f \in Files : Fresh(f)'
    BY <1>1, <2>1 DEF Fresh, NoManifest
  <2> QED
    BY <2>1, <2>2, FreshOutside
<1>9. CASE DoctorCopy
  <2>1. Steady /\ UNCHANGED <<recorded, mine>>
    BY <1>9 DEF DoctorCopy, UpgradePhases
  <2>2. src[cur] = recorded[cur] /\ (Put(cur, src[cur]) \/ UNCHANGED dst)
    BY <1>9 DEF DoctorCopy, SafeInv, DoctorInv, Restorable
  <2>3. \A f \in Files : Fresh(f)'
    BY <1>1, <2>1, <2>2 DEF Fresh, Put, TypeOK
  <2> QED
    BY <2>1, <2>3, FreshOutside
<1> QED
  BY <1>2, <1>3, <1>4, <1>5, <1>6, <1>7, <1>8, <1>9
    DEF Installing, InstallStep, Uninstalling, UninstallStep, Repairing, DoctorStep

LEMMA ConvergeStep ==
  ASSUME TypeOK, SafeInv, ConvergeInv, NoInterruption, Rerun = "never",
         SkipSets \subseteq {{}}, [Next]_vars
  PROVE  ConvergeInv'
<1>1. CASE Release
  <2>1. pc = "idle" /\ UNCHANGED <<dst, recorded, mine, pc>>
    BY <1>1 DEF Release, run
  <2> QED
    BY <2>1, FreshOutside DEF ConvergeInv, Running, UpgradePhases, Fresh
<1>2. CASE AdopterEdit
  <2>1. pc = "idle" /\ UNCHANGED <<recorded, pc>>
    BY <1>2 DEF AdopterEdit, run
  <2>2. PICK f \in Files, c \in Adopter \cup {NoFile} :
          Put(f, c) /\ mine' = [mine EXCEPT ![f] = c]
    BY <1>2 DEF AdopterEdit
  <2>3. \A g \in Files : Fresh(g)'
    BY <2>1, <2>2 DEF ConvergeInv, Running, UpgradePhases, Fresh, Put, TypeOK
  <2> QED
    BY <2>1, <2>3, FreshOutside DEF UpgradePhases
<1>3. ~ Kill
  BY DEF Kill, NoInterruption, Fault
<1>4. CASE UNCHANGED vars
  BY <1>4 DEF vars, ConvergeInv, Running, Fresh, Settled, Ahead, UnderWay, Once
<1> QED
  BY <1>1, <1>2, <1>3, <1>4, UpgradeConverges, OthersConverge DEF Next

(* When no run is cut short and nothing is skipped, a file is as its       *)
(* record says until its adopter changes it, and the upgrade brings every  *)
(* such file it has come to to the release.                                *)
THEOREM Converging ==
  ASSUME Rerun = "never", NoInterruption, SkipSets \subseteq {{}}
  PROVE  Spec => []ConvergeInv
<1>1. IInv /\ ConvergeInv /\ [Next]_vars => ConvergeInv'
  BY ConvergeStep DEF IInv
<1> QED
  BY <1>1, ConvergeInit, Invariance, PTL DEF Spec

(* Only a file its adopter changed is classified as customised.            *)
THEOREM CustomizedIsAdopters ==
  ASSUME Rerun = "never", NoInterruption, SkipSets \subseteq {{}}
  PROVE  Spec => []CustomizedByAdopter
<1>1. IInv /\ ConvergeInv => CustomizedByAdopter
  <2> SUFFICES ASSUME IInv, ConvergeInv, pc = "up_files", NEW f \in todo,
                      Verdict(f) = "ADOPTER-CUSTOMIZED"
               PROVE  mine[f] # NoFile
    BY DEF CustomizedByAdopter
  <2>1. f \in Files /\ Ahead(f)
    BY DEF IInv, TypeOK, Ahead
  <2>2. Fresh(f)
    BY <2>1 DEF ConvergeInv, Running, UpgradePhases
  <2> QED
    BY <2>2 DEF Verdict, Unclassifiable, Fresh
<1> QED
  BY <1>1, Converging, Invariance, PTL

(* An upgrade that ran to its end has brought every file its adopter never *)
(* touched to the shipped content.                                         *)
THEOREM PristineIsUpgraded ==
  ASSUME Rerun = "never", NoInterruption, SkipSets \subseteq {{}}
  PROVE  Spec => PristineConverges
<1>1. ConvergeInv /\ [Next]_vars =>
        [pc = "up_targets" /\ pc' = "idle" =>
           \A f \in Files : src[f] # NoFile /\ mine[f] = NoFile
                              => dst[f] = src[f]]_vars
  <2> SUFFICES ASSUME ConvergeInv, Next, pc = "up_targets", pc' = "idle",
                      NEW f \in Files
               PROVE  Settled(f)
    BY DEF Settled
  <2>1. UpgradeManifest
    <3>1. ~ Kill /\ ~ UpgradeAbort
      BY DEF Kill, UpgradeAbort, Fault, NoInterruption
    <3>2. ~ (Installing \/ Uninstalling \/ Repairing \/ Release \/ AdopterEdit
               \/ UpgradeStart)
      BY PhaseOfStep DEF Installing, Uninstalling, Repairing, InstallPhases,
         UninstallPhases, DoctorPhases
    <3> QED
      BY <3>1, <3>2 DEF Next, Upgrading, UpgradeStep, UpgradeSkipTarget,
         UpgradeTree, UpgradeOneFile, UpgradeLegacy, LegacyDelete,
         LegacyDeleted, LegacyCopy, UpgradeFile, UpgradeBackup, UpgradeCopy
  <2>2. left = {} /\ todo = {}
    BY <2>1 DEF UpgradeManifest, ConvergeInv, Running, UpgradePhases
  <2> QED
    BY <2>2 DEF ConvergeInv, Running, UpgradePhases, Ahead, UnderWay
<1> QED
  BY <1>1, Converging, PTL DEF Spec, PristineConverges
=============================================================================
