------------------------------ MODULE Install ------------------------------
(***************************************************************************)
(* scripts/install.sh in copy mode: the snapshot, install_one for each     *)
(* target, the placeholder pass, the manifest, and the EXIT trap that      *)
(* rolls a failed run back.                                                *)
(***************************************************************************)
EXTENDS AdopterRepo

(* The .claude directory, manifest included, as it was before the run.     *)
Snapshot == [dst |-> dst, recorded |-> recorded]

HasTree == (\E f \in Files : dst[f] # NoFile) \/ Loaded

InstallStart ==
  /\ "install" \in Tools
  /\ HasTree => Rerun = "any" \/ (Rerun = "managed" /\ Loaded)
  /\ \E fill \in BOOLEAN :
       Begin("in_targets", Targets, {}, [Defaults EXCEPT !.fill = fill])
  /\ snap' = IF HasTree THEN Snapshot ELSE NoSnap
  /\ UNCHANGED repo

-----------------------------------------------------------------------------
(* install_one: what exists is skipped.  Some trees are one unit, of the   *)
(* others every file is a unit.                                            *)

Exists(t) == t \in WholeTargets /\ Present(t) # {}

(* Mutant: what exists is copied over.                                     *)
ToOverwrite(t) == Shipped(t)

ToCopy(t) == IF Exists(t) THEN {} ELSE {f \in Shipped(t) : dst[f] = NoFile}

InstallTarget ==
  /\ pc = "in_targets"
  /\ \E t \in left :
       /\ left' = left \ {t}
       /\ todo' = ToCopy(t)
       /\ pc' = IF ToCopy(t) = {} THEN "in_targets" ELSE "in_copy"
  /\ UNCHANGED <<repo, snap, cur, opt>>

InstallCopy ==
  /\ pc = "in_copy"
  /\ \E f \in todo :
       /\ Put(f, src[f])
       /\ todo' = todo \ {f}
       /\ pc' = IF todo = {f} THEN "in_targets" ELSE "in_copy"
  /\ UNCHANGED <<src, recorded, bak, mine, snap, left, cur, opt>>

(* apply_placeholder_substitutions, over its fixed set of paths; contents  *)
(* without a placeholder, the adopter's and the filled ones, are unchanged.*)
Substituted(f) ==
  IF opt.fill /\ f \in Templates /\ dst[f] \in Framework
  THEN Filled[dst[f]] ELSE dst[f]

InstallFill ==
  /\ pc = "in_targets" /\ left = {}
  /\ dst' = [f \in Files |-> Substituted(f)]
  /\ pc' = "in_manifest"
  /\ UNCHANGED <<src, recorded, bak, mine, snap, left, todo, cur, opt>>

(* Without FMS_HASH_ROOT the baseline is what the TARGET holds.            *)
InstallBaseline ==
  [f \in Files |-> IF dst[f] # NoFile THEN dst[f] ELSE NoRecord]

InstallManifest ==
  /\ pc = "in_manifest"
  /\ \/ recorded' = InstallBaseline
     \/ Fault("manifest") /\ UNCHANGED recorded
  /\ pc' = "in_finish"
  /\ UNCHANGED <<src, dst, bak, mine, snap, left, todo, cur, opt>>

(* INSTALL_SUCCEEDED=1: the trap drops the snapshot.                       *)
InstallFinish ==
  /\ pc = "in_finish"
  /\ Stop
  /\ snap' = NoSnap
  /\ UNCHANGED repo

-----------------------------------------------------------------------------
(* cleanup_on_failure.  A first install has no snapshot and is left as it  *)
(* stands; otherwise .claude is removed and the snapshot moved back.  The  *)
(* snapshot directory is removed even if that move failed.                 *)
InstallFail ==
  /\ Running(InstallPhases) /\ Fault("abort")
  /\ \/ snap = NoSnap /\ UNCHANGED <<dst, recorded>>
     \/ snap # NoSnap /\ dst' = snap.dst /\ recorded' = snap.recorded
     \/ /\ snap # NoSnap /\ Fault("rollback")
        /\ dst' = Empty /\ recorded' = NoManifest
  /\ Stop
  /\ snap' = NoSnap
  /\ UNCHANGED <<src, bak, mine>>

InstallStep ==
  \/ InstallTarget
  \/ InstallCopy
  \/ InstallFill
  \/ InstallManifest
  \/ InstallFinish

Installing == InstallStart \/ InstallStep \/ InstallFail
=============================================================================
