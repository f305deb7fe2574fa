----------------------------- MODULE Lifecycle -----------------------------
(***************************************************************************)
(* The four tools over one adopter's tree, run one at a time in any order, *)
(* between releases of the framework and edits of the adopter.             *)
(***************************************************************************)
EXTENDS Upgrade, Install, Uninstall, Doctor

Next ==
  \/ Release
  \/ AdopterEdit
  \/ Kill
  \/ Upgrading
  \/ Installing
  \/ Uninstalling
  \/ Repairing

Spec == Init /\ [][Next]_vars

-----------------------------------------------------------------------------
TypeOK ==
  /\ src \in [Files -> Framework \cup {NoFile}]
  /\ dst \in [Files -> Contents \cup {NoFile}]
  /\ recorded \in [Files -> Contents \cup {NoRecord}]
  /\ bak \in [Files -> SUBSET Adopter]
  /\ mine \in [Files -> Adopter \cup {NoFile}]
  /\ snap \in {NoSnap} \cup [dst : [Files -> Contents \cup {NoFile}],
                             recorded : [Files -> Contents \cup {NoRecord}]]
  /\ pc \in Phases
  /\ left \subseteq Targets
  /\ todo \subseteq Files
  /\ cur \in Files \cup Targets \cup {NoFile}
  /\ opt \in Options

(* What the adopter last wrote is in the tree or in an archive: upgrade's  *)
(* backup before every overwrite (upgrade.sh:18, INSTALL.md:818),          *)
(* uninstall's tarball and removal by digest, doctor's backup.             *)
NoLoss ==
  \A f \in Files : mine[f] # NoFile => dst[f] = mine[f] \/ mine[f] \in bak[f]

(* The manifest records what the framework ships, never what an adopter    *)
(* wrote (_framework_manifest_set.sh:1349-1358).                           *)
NoAdopterBaseline == \A f \in Files : recorded[f] \notin Adopter

(* Only a file its adopter changed is ever classified as customised        *)
(* (install.sh:3195-3197, upgrade.sh _classify_against_baseline).          *)
CustomizedByAdopter ==
  pc = "up_files" =>
    \A f \in todo : Verdict(f) = "ADOPTER-CUSTOMIZED" => mine[f] # NoFile

(* What makes the properties inductive when install.sh is run over an empty*)
(* tree only: there is no snapshot, no adopter byte is about to be recorded*)
(* as a baseline, and what is about to be written over is archived and, at *)
(* a recorded path under refuse, not an adopter's.                         *)
Archived(f)     == dst[f] \in Adopter => dst[f] \in bak[f]
Overwritable(f) == opt.policy = "refuse" /\ recorded[f] # NoRecord
                     => dst[f] \notin Adopter

InstallInv ==
  /\ snap = NoSnap
  /\ Running(InstallPhases) => \A f \in Files : dst[f] \notin Adopter
  /\ pc = "in_copy" => \A f \in todo : dst[f] = NoFile

UpgradeInv ==
  /\ pc \in {"up_backup", "up_copy"} => cur \in Files /\ Overwritable(cur)
  /\ pc = "up_copy" /\ ~ Fault("backup") => Archived(cur)
  /\ pc = "up_delete" =>
       /\ todo \subseteq InTarget(cur)
       /\ \A f \in InTarget(cur) : f \in todo \/ dst[f] = NoFile
       /\ \A f \in todo : Archived(f) /\ Overwritable(f)
  /\ pc = "up_recopy" => \A f \in todo : dst[f] = NoFile

UninstallInv ==
  pc = "un_records" /\ opt.archive => \A f \in Files : Archived(f)

DoctorInv ==
  /\ pc \in {"doc_backup", "doc_copy"} =>
       /\ cur \in Files /\ Restorable(cur)
       /\ dst[cur] # NoFile => cur \in opt.yes
  /\ pc = "doc_copy" => Archived(cur)

SafeInv == /\ NoAdopterBaseline
           /\ InstallInv
           /\ UpgradeInv
           /\ UninstallInv
           /\ DoctorInv

IInv == TypeOK /\ SafeInv

-----------------------------------------------------------------------------
(* --on-conflict=refuse never touches adopter bytes at a recorded path:    *)
(* neither the per-file walk, nor the file branch, nor the legacy branch.  *)
RefusePreserves ==
  [][Running(UpgradePhases) /\ opt.policy = "refuse" =>
       \A f \in Files :
         recorded[f] # NoRecord /\ dst[f] \in Adopter => dst'[f] = dst[f]]_vars

(* An upgrade that ran to its end has brought every file its adopter never *)
(* touched to the shipped content, whatever ran before it.                 *)
PristineConverges ==
  [][pc = "up_targets" /\ pc' = "idle" =>
       \A f \in Files : src[f] # NoFile /\ mine[f] = NoFile
                          => dst[f] = src[f]]_vars

(* A run of install.sh leaves adopter bytes where they were; all it can do *)
(* to them is to lose the whole tree in a rollback whose move failed.      *)
InstallPreservesOrRollsBack ==
  [][Running(InstallPhases) =>
       \A f \in Files : dst[f] \in Adopter =>
         dst'[f] = dst[f] \/ (snap # NoSnap /\ pc' = "idle" /\ dst' = Empty)]_vars

(* Without --force uninstall.sh removes no byte an adopter wrote           *)
(* (uninstall.sh:5-8).                                                     *)
UninstallPreserves ==
  [][Running(UninstallPhases) /\ ~ opt.force =>
       \A f \in Files : dst[f] \in Adopter => dst'[f] = dst[f]]_vars

(* uninstall.sh deletes the manifest only once no recorded file is left,   *)
(* so a killed or incomplete run can be repeated (uninstall.sh:686-695).   *)
LedgerOutlivesFiles ==
  [][Running(UninstallPhases) /\ recorded' # recorded =>
       \A f \in Records : dst[f] = NoFile]_vars

(* What doctor writes is what the manifest records, over a confirmed file  *)
(* only, and over adopter bytes only once they are archived                *)
(* (doctor.sh:18-50).                                                      *)
DoctorRestoresBaseline ==
  [][Running(DoctorPhases) =>
       \A f \in Files : dst'[f] # dst[f] =>
         /\ dst'[f] = recorded[f]
         /\ dst[f] # NoFile => f \in opt.yes
         /\ dst[f] \in Adopter => dst[f] \in bak[f]]_vars

(* The suite keeps the promise of module Provenance.                       *)
Promise == INSTANCE Provenance WITH live <- dst, archive <- bak

KeepsPromise == Promise!ASpec
=============================================================================
