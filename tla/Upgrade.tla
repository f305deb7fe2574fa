------------------------------ MODULE Upgrade ------------------------------
(***************************************************************************)
(* scripts/upgrade.sh over the targets whose ownership does not depend on  *)
(* the ceremony: backup_and_replace for each target, then the rewrite of   *)
(* the baseline manifest.                                                  *)
(***************************************************************************)
EXTENDS AdopterRepo

(* _classify_against_baseline: the first test that succeeds decides.       *)
Unclassifiable(f) == recorded[f] = NoRecord \/ dst[f] = NoFile \/ src[f] = NoFile

Verdict(f) ==
  IF Unclassifiable(f)          THEN "FALLBACK"
  ELSE IF dst[f] = src[f]       THEN "IDENTICAL"
  ELSE IF dst[f] = recorded[f]  THEN "FRAMEWORK-CHANGED"
  ELSE IF src[f] = recorded[f]  THEN "ADOPTER-CUSTOMIZED"
  ELSE "CONFLICT"

(* Mutant: --on-conflict=refuse is forgotten.                              *)
SparedIfCustomized(f) == Verdict(f) \in {"IDENTICAL", "ADOPTER-CUSTOMIZED"}

(* The verdicts that leave the file alone.                                 *)
Spared(f) ==
  \/ Verdict(f) \in {"IDENTICAL", "ADOPTER-CUSTOMIZED"}
  \/ Verdict(f) = "CONFLICT" /\ opt.policy = "refuse"

(* The paths _per_file_classified_update does not write.                   *)
Untouched(f) ==
  \/ f \in opt.skip
  \/ src[f] = NoFile
  \/ dst[f] # NoFile /\ Spared(f)

UpgradeStart ==
  /\ "upgrade" \in Tools
  /\ \E policy \in {"refuse", "theirs", "backup"}, skip \in SkipSets :
       Begin("up_targets", Targets, {},
             [Defaults EXCEPT !.policy = policy, !.skip = skip])
  /\ UNCHANGED <<repo, snap>>

-----------------------------------------------------------------------------
(* backup_and_replace, one target at a time.                               *)

NextTarget(t) == pc = "up_targets" /\ t \in left /\ left' = left \ {t}

(* The branch a target takes once it is neither missing nor skipped.       *)
Replaceable(t) == Shipped(t) # {} /\ t \notin opt.skip
PerFile(t)     == t \in TreeTargets /\ Present(t) # {} /\ Loaded
Classified(t)  == /\ t \notin TreeTargets /\ Present(t) # {} /\ Loaded
                  /\ Verdict(t) # "FALLBACK"
Legacy(t)      == ~ PerFile(t) /\ ~ Classified(t)

UpgradeSkipTarget(t) ==
  /\ NextTarget(t)
  /\ \/ ~ Replaceable(t)
     \/ Classified(t) /\ Spared(t)
  /\ UNCHANGED <<repo, snap, pc, todo, cur, opt>>

(* A tree with a baseline: the whole tree is copied to BAK_DIR, then its   *)
(* files are taken one by one.                                             *)
UpgradeTree(t) ==
  /\ NextTarget(t)
  /\ Replaceable(t) /\ PerFile(t)
  /\ Archive(Present(t))
  /\ pc' = "up_files" /\ todo' = Shipped(t) \cup Present(t)
  /\ UNCHANGED <<src, dst, recorded, mine, snap, cur, opt>>

(* A file with a baseline that is to be overwritten.                       *)
UpgradeOneFile(t) ==
  /\ NextTarget(t)
  /\ Replaceable(t) /\ Classified(t) /\ ~ Spared(t)
  /\ pc' = "up_backup" /\ cur' = t
  /\ UNCHANGED <<repo, snap, todo, opt>>

(* Mutant: the legacy branch deletes without a backup.                     *)
NoLegacyArchive(t) == UNCHANGED bak

LegacyArchive(t) == Archive(Present(t))

(* No baseline: archive what is there, delete it, copy the source.         *)
UpgradeLegacy(t) ==
  /\ NextTarget(t)
  /\ Replaceable(t) /\ Legacy(t)
  /\ LegacyArchive(t)
  /\ pc' = "up_delete" /\ todo' = Present(t) /\ cur' = t
  /\ UNCHANGED <<src, dst, recorded, mine, snap, opt>>

LegacyDelete ==
  /\ pc = "up_delete"
  /\ \E f \in todo : Put(f, NoFile) /\ todo' = todo \ {f}
  /\ UNCHANGED <<src, recorded, bak, mine, snap, pc, left, cur, opt>>

LegacyDeleted ==
  /\ pc = "up_delete" /\ todo = {}
  /\ pc' = "up_recopy" /\ todo' = Shipped(cur)
  /\ UNCHANGED <<repo, snap, left, cur, opt>>

LegacyCopy ==
  /\ pc = "up_recopy"
  /\ \E f \in todo :
       /\ Put(f, src[f])
       /\ todo' = todo \ {f}
       /\ pc' = IF todo = {f} THEN "up_targets" ELSE "up_recopy"
       /\ cur' = IF todo = {f} THEN NoFile ELSE cur
  /\ UNCHANGED <<src, recorded, bak, mine, snap, left, opt>>

-----------------------------------------------------------------------------
(* _per_file_classified_update and _apply_single_file.                     *)

AfterFile(rest) == IF rest = {} THEN "up_targets" ELSE "up_files"

UpgradeFile ==
  /\ pc = "up_files"
  /\ \E f \in todo :
       /\ todo' = todo \ {f}
       /\ IF Untouched(f)
          THEN pc' = AfterFile(todo \ {f}) /\ cur' = cur
          ELSE pc' = "up_backup" /\ cur' = f
  /\ UNCHANGED <<repo, snap, left, opt>>

(* `cp dst bak || true`: a failing backup does not stop the overwrite.     *)
UpgradeBackup ==
  /\ pc = "up_backup"
  /\ Archive({cur}) \/ (Fault("backup") /\ UNCHANGED bak)
  /\ pc' = "up_copy"
  /\ UNCHANGED <<src, dst, recorded, mine, snap, left, todo, cur, opt>>

UpgradeCopy ==
  /\ pc = "up_copy"
  /\ Put(cur, src[cur])
  /\ pc' = AfterFile(todo) /\ cur' = NoFile
  /\ UNCHANGED <<src, recorded, bak, mine, snap, left, todo, opt>>

-----------------------------------------------------------------------------
(* Mutants: the digest of the target (FMS_HASH_ROOT unset); a record for a *)
(* path the tree does not hold; the previous record kept.                  *)
BaselineOfTarget  == [f \in Files |-> IF dst[f] # NoFile /\ src[f] # NoFile
                                      THEN dst[f] ELSE NoRecord]
BaselineFirstSeen == [f \in Files |-> IF recorded[f] # NoRecord THEN recorded[f]
                                      ELSE IF dst[f] # NoFile /\ src[f] # NoFile
                                      THEN src[f] ELSE NoRecord]

(* The baseline records the digest of the SOURCE for every managed path    *)
(* the tree holds, the skipped, refused and preserved ones included.       *)
UpgradeBaseline ==
  [f \in Files |-> IF dst[f] # NoFile /\ src[f] # NoFile
                   THEN src[f] ELSE NoRecord]

(* mktemp or mv failing leaves the old manifest and the run succeeds.      *)
UpgradeManifest ==
  /\ pc = "up_targets" /\ left = {}
  /\ \/ recorded' = UpgradeBaseline
     \/ Fault("manifest") /\ UNCHANGED recorded
  /\ Stop
  /\ UNCHANGED <<src, dst, bak, mine, snap>>

(* `set -e`: a failing backup of a target, or a failing copy, ends the run *)
(* where it stands.  The trap only restores the checkout's branch.         *)
UpgradeAbort ==
  /\ Running(UpgradePhases) /\ Fault("abort")
  /\ Stop
  /\ UNCHANGED <<repo, snap>>

UpgradeStep ==
  \/ \E t \in Targets : \/ UpgradeSkipTarget(t)
                        \/ UpgradeTree(t)
                        \/ UpgradeOneFile(t)
                        \/ UpgradeLegacy(t)
  \/ LegacyDelete
  \/ LegacyDeleted
  \/ LegacyCopy
  \/ UpgradeFile
  \/ UpgradeBackup
  \/ UpgradeCopy
  \/ UpgradeManifest

Upgrading == UpgradeStart \/ UpgradeStep \/ UpgradeAbort
=============================================================================
