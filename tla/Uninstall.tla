----------------------------- MODULE Uninstall -----------------------------
(***************************************************************************)
(* scripts/uninstall.sh: the archive, then one decision for each record of *)
(* the manifest, then the fate of the manifest.                            *)
(***************************************************************************)
EXTENDS AdopterRepo

(* Mutant: `tar --no-recursion` archives the directory entry alone, a      *)
(* defect this code has had (uninstall.sh:543-546).                        *)
UninstallArchiveEmpty(archive) == UNCHANGED bak

UninstallArchive(archive) == IF archive THEN Archive(Files) ELSE UNCHANGED bak

(* Without --no-backup the run begins with a tarball of .claude; `set -e`  *)
(* ends it, nothing removed, if tar fails.  A manifest without one valid   *)
(* record is refused.                                                      *)
UninstallStart ==
  /\ "uninstall" \in Tools
  /\ Loaded
  /\ \E force, archive \in BOOLEAN :
       /\ Begin("un_records", {}, Records,
                [Defaults EXCEPT !.force = force, !.archive = archive])
       /\ UninstallArchive(archive)
  /\ UNCHANGED <<src, dst, recorded, mine, snap>>

(* Mutant: a recorded path is removed if it exists.                        *)
RemovableIfRecorded(f) == f \in Records

Removable(f) == dst[f] = recorded[f] \/ opt.force

(* --force with --no-backup is the operator's consent to lose the file.    *)
UninstallRecord ==
  /\ pc = "un_records"
  /\ \E f \in todo :
       /\ todo' = todo \ {f}
       /\ IF dst[f] # NoFile /\ Removable(f)
          THEN Put(f, NoFile) ELSE UNCHANGED dst
       /\ IF dst[f] # NoFile /\ opt.force /\ ~ opt.archive
          THEN mine' = [mine EXCEPT ![f] = NoFile] ELSE UNCHANGED mine
  /\ UNCHANGED <<src, recorded, bak, snap, pc, left, cur, opt>>

(* Mutant: the manifest goes in every case.                                *)
NeverIncomplete == FALSE

(* A recorded file that is still there differs from its record: without    *)
(* --force the manifest is kept.                                           *)
Incomplete == ~ opt.force /\ \E f \in Records : dst[f] # NoFile

UninstallFinish ==
  /\ pc = "un_records" /\ todo = {}
  /\ recorded' = IF Incomplete THEN recorded ELSE NoManifest
  /\ Stop
  /\ UNCHANGED <<src, dst, bak, mine, snap>>

UninstallStep == UninstallRecord \/ UninstallFinish

Uninstalling == UninstallStart \/ UninstallStep
=============================================================================
