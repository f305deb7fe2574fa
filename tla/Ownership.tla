----------------------------- MODULE Ownership ------------------------------
(***************************************************************************)
(* _ownership_verdict (scripts/_framework_manifest_set.sh): what a run     *)
(* does to one conditional surface - the root PROTOCOL.md pointer, the     *)
(* SPEC/v1 tree, the .claude/.framework-version marker - and where the     *)
(* digest of its record comes from.  It is a pure function of what its     *)
(* caller observed.  The dimension "mode" is passed but never read, and    *)
(* is left out.                                                            *)
(***************************************************************************)

Surfaces   == {"protocol", "spec", "marker"}
Priors     == {"none", "hash", "link_match", "link_retargeted"}
LiveTypes  == {"absent", "dir", "dir_empty", "regular", "symlink", "special",
               "ancestor_symlink"}
Contents   == {"-", "pristine", "legacy_pristine", "legacy_pristine_partial",
               "degraded", "edited"}
Ceremonies == {"user", "maintainer"}
Operations == {"install_fresh", "install_rerun", "upgrade"}
Skips      == {"none", "self", "descendant"}

Observations ==
  [surface : Surfaces, prior : Priors, type : LiveTypes, content : Contents,
   source : BOOLEAN, ceremony : Ceremonies, op : Operations, skip : Skips]

Verdicts    == {"DELIVER", "REFRESH", "PRESERVE_OWNED", "PRESERVE_UNOWNED"}
HashSources == {"HASH_NONE", "HASH_SOURCE", "HASH_PRIOR_RECORD",
                "HASH_CANONICAL_POINTER", "LINK_RECORD", "HASH_TARGET"}

Pair(v, h) == [verdict |-> v, hash |-> h]
Decisions  == [verdict : Verdicts, hash : HashSources]

-----------------------------------------------------------------------------
Unowned == Pair("PRESERVE_UNOWNED", "HASH_NONE")

(* Nothing is written; a record that vouches for the path is carried on,   *)
(* and never with the digest of the bytes now on disk.                     *)
Carry(o) ==
  CASE o.prior = "link_match" -> Pair("PRESERVE_OWNED", "LINK_RECORD")
    [] o.prior \in {"link_retargeted", "none"} -> Unowned
    [] o.prior = "hash" ->
         Pair("PRESERVE_OWNED",
              IF o.surface = "protocol" \/ ~ o.source \/ o.type = "dir_empty"
              THEN "HASH_PRIOR_RECORD" ELSE "HASH_SOURCE")

(* Shapes that no delivery of this surface has.                            *)
WrongShapes(s) ==
  IF s = "spec" THEN {"special"} ELSE {"dir", "dir_empty", "special"}

(* What is there cannot be the framework's.                                *)
Foreign(o) ==
  \/ o.type = "ancestor_symlink"
  \/ o.type = "symlink" /\ o.prior # "link_match"
  \/ o.type \in WrongShapes(o.surface)

(* Mutant: a partial inventory certifies a tree.                           *)
OwnedIfPartial(o) ==
  \/ o.prior \in {"hash", "link_match"}
  \/ o.type = "absent"
  \/ o.content \notin {"-", "edited"}

(* A record, an empty place, or content that proves its origin.            *)
Owned(o) ==
  \/ o.prior \in {"hash", "link_match"}
  \/ o.type = "absent"
  \/ o.content \in {"pristine", "legacy_pristine", "degraded"}

(* A user ceremony never receives the root surfaces.                       *)
OutOfScope(o) == o.ceremony = "user" /\ o.surface # "marker"

Fresh(o) ==
  IF o.surface = "protocol" THEN "HASH_CANONICAL_POINTER" ELSE "HASH_SOURCE"

(* The pointer is the one surface where an edit is content, not a fork.    *)
KeepsEdits(o) == o.surface = "protocol" /\ o.content = "edited"

(* The stages in the order of the code: refusals, ownership, execution.    *)
(* A protocol surface the checkout cannot render is an illegal cell and    *)
(* never observed.                                                         *)
Decision(o) ==
  IF ~ o.source THEN IF o.surface = "marker" THEN Unowned ELSE Carry(o)
  ELSE IF OutOfScope(o)
       THEN IF o.op = "install_fresh" THEN Unowned ELSE Carry(o)
  ELSE IF Foreign(o) THEN Unowned
  ELSE IF o.type = "symlink" \/ o.skip # "none" THEN Carry(o)
  ELSE IF ~ Owned(o) THEN Unowned
  ELSE IF o.type = "absent" THEN Pair("DELIVER", Fresh(o))
  ELSE IF o.op # "upgrade" THEN Carry(o)
  ELSE IF KeepsEdits(o)
       THEN Pair("PRESERVE_OWNED", "HASH_CANONICAL_POINTER")
  ELSE Pair("REFRESH", Fresh(o))
=============================================================================
