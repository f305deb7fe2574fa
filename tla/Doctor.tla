------------------------------ MODULE Doctor -------------------------------
(***************************************************************************)
(* scripts/doctor.sh --repair over the hash records of the manifest.       *)
(* Doctor writes the tree and BAK_DIR and never the manifest.              *)
(***************************************************************************)
EXTENDS AdopterRepo

(* The paths the operator confirms, by --yes-file or at the prompt.        *)
DoctorStart ==
  /\ "doctor" \in Tools
  /\ Loaded
  /\ \E yes \in SUBSET Files :
       Begin("doc_records", {}, Records, [Defaults EXCEPT !.yes = yes])
  /\ UNCHANGED <<repo, snap>>

(* Mutant: whatever the checkout ships is restored.                        *)
RestorableIfShipped(f) == src[f] # NoFile

(* Only the bytes the baseline records may be written.                     *)
Restorable(f) == src[f] # NoFile /\ src[f] = recorded[f]

Missing(f)         == dst[f] = NoFile
Drifted(f)         == dst[f] # NoFile /\ dst[f] # recorded[f]
AdopterModified(f) == Drifted(f) /\ dst[f] # src[f] /\ Restorable(f)

(* One record: a missing file is restored without a question, a modified   *)
(* one only if it was confirmed, and after a backup; everything else is    *)
(* reported.                                                               *)
DoctorRecord ==
  /\ pc = "doc_records"
  /\ \E f \in todo :
       /\ todo' = todo \ {f}
       /\ \/ /\ Missing(f) /\ Restorable(f)
             /\ pc' = "doc_copy" /\ cur' = f
          \/ /\ AdopterModified(f) /\ f \in opt.yes
             /\ pc' = "doc_backup" /\ cur' = f
          \/ /\ ~ (Missing(f) /\ Restorable(f))
             /\ ~ (AdopterModified(f) /\ f \in opt.yes)
             /\ UNCHANGED <<pc, cur>>
  /\ UNCHANGED <<repo, snap, left, opt>>

(* A file whose backup could not be made is not overwritten.               *)
DoctorBackup ==
  /\ pc = "doc_backup"
  /\ \/ Archive({cur}) /\ pc' = "doc_copy" /\ cur' = cur
     \/ /\ Fault("backup")
        /\ UNCHANGED bak /\ pc' = "doc_records" /\ cur' = NoFile
  /\ UNCHANGED <<src, dst, recorded, mine, snap, left, todo, opt>>

(* A copy that is blocked (_restore_refuses) or fails leaves the file.     *)
DoctorCopy ==
  /\ pc = "doc_copy"
  /\ Put(cur, src[cur]) \/ (Fault("blocked") /\ UNCHANGED dst)
  /\ pc' = "doc_records" /\ cur' = NoFile
  /\ UNCHANGED <<src, recorded, bak, mine, snap, left, todo, opt>>

DoctorFinish ==
  /\ pc = "doc_records" /\ todo = {}
  /\ Stop
  /\ UNCHANGED <<repo, snap>>

DoctorStep == DoctorRecord \/ DoctorBackup \/ DoctorCopy \/ DoctorFinish

Repairing == DoctorStart \/ DoctorStep
=============================================================================
