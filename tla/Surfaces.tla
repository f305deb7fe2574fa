------------------------------ MODULE Surfaces ------------------------------
(***************************************************************************)
(* The life of one conditional surface: installed, rerun over, upgraded,   *)
(* edited, replaced, linked, while checkouts come and go.  The surfaces    *)
(* meet only in the manifest, which is written for all of them at once,    *)
(* so a history follows one of them.                                       *)
(*                                                                         *)
(* A tree or a file is a body; a digest is the body itself.                *)
(***************************************************************************)
EXTENDS Ownership

CONSTANTS
  Watched,      \* the surfaces whose histories are explored
  Bodies,       \* what checkouts deliver (for the pointer: its renderings)
  Legacy,       \* the bodies whose fingerprint upgrade.sh pins
  Degraded,     \* the pointer with {{PROTOCOL_SOURCE}} left literal
  Adopters,     \* bodies only an adopter writes
  Odd,          \* those with an entry the fingerprint cannot inventory
  Torn,         \* a body whose copy or removal was cut short
  Checkout,     \* what a link made by install.sh points at
  Nothing,      \* no body
  Faults        \* "kill", "backup", "validate", "manifest"

Framework == Bodies \cup {Degraded}

ASSUME BodiesAssumption ==
  /\ Legacy \subseteq Bodies
  /\ Odd \subseteq Adopters
  /\ Framework \cap Adopters = {}
  /\ Torn \notin Framework \cup Adopters
  /\ Nothing \notin Framework \cup Adopters \cup {Torn}
  /\ Checkout \notin Framework \cup Adopters \cup {Torn, Nothing}
  /\ Watched \subseteq Surfaces

VARIABLES
  surface,  \* the surface this history follows
  offer,    \* what the checkout would deliver there, or Nothing
  node,     \* what the target holds there
  record,   \* what the manifest says of it
  bak,      \* the bodies any archive of the surface holds
  mine,     \* history: the body the adopter last put there
  by,       \* history: who wrote the node last
  pc, run   \* the run in progress

tree == <<node, record, bak, mine, by>>
vars == <<surface, offer, tree, pc, run>>

AllBodies == Framework \cup Adopters \cup {Torn, Checkout, Nothing}

Node(t, b) == [type |-> t, body |-> b]
Absent     == Node("absent", Nothing)
OurLink    == Node("symlink", Checkout)
Shape      == IF surface = "spec" THEN "dir" ELSE "regular"

NoRecord == [kind |-> "none", body |-> Nothing]
LinkRow  == [kind |-> "link", body |-> Checkout]
Hash(b)  == [kind |-> "hash", body |-> b]

NoRun == [op |-> "none", ceremony |-> "user", link |-> FALSE,
          skip |-> "none", prior |-> "none", type |-> "absent",
          content |-> "-", decision |-> Unowned, delivered |-> FALSE,
          failed |-> FALSE]

Phases == {"idle", "in_write", "in_render", "in_record", "up_keep",
           "up_backup", "up_delete", "up_copy", "up_record"}

Fault(f) == f \in Faults

-----------------------------------------------------------------------------
(* What an adopter may leave at the path of the surface.                   *)
AdopterNodes ==
  {Absent, Node("symlink", Nothing), Node("special", Nothing)}
    \cup {Node("regular", b) : b \in Adopters \ Odd}
    \cup {Node("dir", b) : b \in IF surface = "spec" THEN Adopters
                                 ELSE Adopters \ Odd}
    \cup (IF surface = "spec" THEN {Node("dir_empty", Nothing)} ELSE {})
    \cup (IF surface = "protocol" THEN {}
          ELSE {Node("ancestor_symlink", Nothing)})

(* A SPEC tree or a marker may be missing from a checkout; the pointer is  *)
(* rendered and never is.                                                  *)
Offers == IF surface = "protocol" THEN Bodies ELSE Bodies \cup {Nothing}

(* Trees that older releases left, without a record for the surface or,    *)
(* for a pointer that an old upgrade degraded, with one.                   *)
OlderNodes ==
  CASE surface = "spec"     -> {Node("dir", b) : b \in Legacy}
    [] surface = "protocol" -> {Node("regular", Degraded)}
    [] surface = "marker"   -> {}

Init ==
  /\ surface \in Watched
  /\ offer \in Offers
  /\ node \in AdopterNodes \cup OlderNodes
  /\ by = IF node \in OlderNodes THEN "framework" ELSE "adopter"
  /\ record \in IF node.body = Degraded
                THEN {NoRecord} \cup {Hash(b) : b \in Bodies}
                ELSE {NoRecord}
  /\ mine = IF node.body \in Adopters THEN node.body ELSE Nothing
  /\ bak = {}
  /\ pc = "idle" /\ run = NoRun

(* The adopter replaces, edits or removes what is there, or copies the     *)
(* checkout's own bytes in to hand the surface back.                       *)
AdopterChange ==
  /\ pc = "idle"
  /\ \E n \in AdopterNodes
              \cup {Node(Shape, b) : b \in {offer} \ {Nothing}} :
       /\ n # node /\ node' = n
       /\ mine' = IF n.body \in Adopters THEN n.body ELSE Nothing
  /\ by' = "adopter"
  /\ UNCHANGED <<surface, offer, record, bak, pc, run>>

(* Another release is checked out; for the pointer, also a checkout that   *)
(* moved, or another --profile or --stack.                                 *)
Release ==
  /\ pc = "idle"
  /\ offer' \in Offers \ {offer}
  /\ UNCHANGED <<surface, tree, pc, run>>

-----------------------------------------------------------------------------
(* Mutant: a rerun renews the record only of what it delivers itself.      *)
ContinuesNever == FALSE

(* install.sh keeps a record it did not renew if what is there still has   *)
(* the shape the record describes (_prior_link_target_matches).            *)
Continues ==
  \/ record.kind = "link" /\ node = OurLink
  \/ /\ record.kind = "hash" /\ node.type # "symlink"
     /\ surface # "spec" => node.type \notin {"dir", "dir_empty"}

(* Mutant: a surface that is carried on is hashed from the target.         *)
DigestOfTarget(h, prior) ==
  CASE h = "HASH_PRIOR_RECORD"                        -> prior
    [] h \in {"HASH_TARGET", "HASH_SOURCE", "HASH_CANONICAL_POINTER"} ->
         Hash(node.body)
    [] h \in {"HASH_NONE", "LINK_RECORD"}             -> NoRecord

(* The record the writer makes from the declared hash source.  What the    *)
(* checkout does not ship is not recorded.                                 *)
Digest(h, prior) ==
  CASE h = "HASH_TARGET"                              -> Hash(node.body)
    [] h \in {"HASH_SOURCE", "HASH_CANONICAL_POINTER"} ->
         IF offer = Nothing THEN NoRecord ELSE Hash(offer)
    [] h = "HASH_PRIOR_RECORD"                        -> prior
    [] h \in {"HASH_NONE", "LINK_RECORD"}             -> NoRecord

(* _write_baseline_manifest for this surface: only what was delivered is   *)
(* enumerated, a link only in link mode, and an absent or empty place, or  *)
(* a file where a tree is recorded file by file, has nothing to record.    *)
Recorded(delivered, link, h, prior) ==
  IF ~ delivered THEN NoRecord
  ELSE IF node.type = "symlink" THEN IF link THEN LinkRow ELSE NoRecord
  ELSE IF node.type # Shape THEN NoRecord
  ELSE Digest(h, prior)

PriorRow == IF record.kind = "hash" THEN record ELSE NoRecord

End == pc' = "idle" /\ run' = NoRun

(* The manifest is replaced by one mv, or stays as it was.                 *)
WriteManifest(row) ==
  record' = row \/ (Fault("manifest") /\ UNCHANGED record)

-----------------------------------------------------------------------------
(* install.sh: a user ceremony does not reach the root surfaces, and what  *)
(* exists is skipped.                                                      *)
InstallBegin ==
  /\ pc = "idle"
  /\ node.type # "ancestor_symlink"  \* _assert_no_symlink_parents exits
  /\ \E cer \in Ceremonies, link \in BOOLEAN :
       /\ run' = [NoRun EXCEPT !.op = "install", !.ceremony = cer,
                               !.link = link]
       /\ pc' = IF /\ cer # "user" \/ surface = "marker"
                   /\ node.type = "absent" /\ offer # Nothing
                THEN "in_write" ELSE "in_render"
  /\ UNCHANGED <<surface, offer, tree>>

Wrote(n) == node' = n /\ by' = "framework"

(* install_one copies or links; install_protocol_pointer writes the token  *)
(* unless the checkout lies inside the target.                             *)
InstallWrite ==
  /\ pc = "in_write"
  /\ \/ surface = "protocol" /\ \E b \in {offer, Degraded} :
                                  Wrote(Node("regular", b))
     \/ surface # "protocol" /\ run.link /\ Wrote(OurLink)
     \/ surface # "protocol" /\ ~ run.link /\ Wrote(Node(Shape, offer))
  /\ run' = [run EXCEPT !.delivered = TRUE]
  /\ pc' = "in_render"
  /\ UNCHANGED <<surface, offer, record, bak, mine>>

(* The substitution pass fills the token of any pointer it finds, one it   *)
(* just wrote as well as one an old upgrade left behind.                   *)
InstallRender ==
  /\ pc = "in_render"
  /\ IF surface = "protocol" /\ run.ceremony # "user"
          /\ node = Node("regular", Degraded)
     THEN \E b \in IF run.delivered THEN {offer} ELSE Bodies :
            Wrote(Node("regular", b))
     ELSE UNCHANGED <<node, by>>
  /\ pc' = "in_record"
  /\ UNCHANGED <<surface, offer, record, bak, mine, run>>

InstallHash ==
  IF run.delivered THEN "HASH_TARGET"
  ELSE IF surface = "protocol" THEN "HASH_PRIOR_RECORD" ELSE "HASH_SOURCE"

InstallRecord ==
  /\ pc = "in_record"
  /\ WriteManifest(Recorded(run.delivered \/ Continues, run.link,
                            InstallHash, PriorRow))
  /\ End
  /\ UNCHANGED <<surface, offer, node, bak, mine, by>>

-----------------------------------------------------------------------------
(* upgrade.sh observes.  A hash row below a symlink does not survive the   *)
(* sanitizer, a link row only at the leaf.                                 *)
ObservedPrior ==
  CASE record.kind = "none" -> "none"
    [] record.kind = "hash" ->
         IF node.type \in {"symlink", "ancestor_symlink"} THEN "none"
         ELSE "hash"
    [] record.kind = "link" ->
         IF node.type = "ancestor_symlink" THEN "none"
         ELSE IF node = OurLink THEN "link_match" ELSE "link_retargeted"

SpecContent ==
  CASE node.type \notin {"dir", "dir_empty", "regular"} -> "-"
    [] node.type = "dir" /\ node.body \in Odd -> "legacy_pristine_partial"
    [] node.type = "dir" /\ node.body = offer -> "pristine"
    [] node.type = "dir" /\ node.body # offer /\ node.body \in Legacy ->
         "legacy_pristine"
    [] OTHER -> "edited"

ObservedContent ==
  IF surface = "spec" THEN SpecContent
  ELSE IF node.type # "regular" THEN "-"
  ELSE IF surface = "protocol" /\ node.body = Degraded THEN "degraded"
  ELSE IF node.body = offer THEN "pristine" ELSE "edited"

Observed(cer, skip) ==
  [surface |-> surface, prior |-> ObservedPrior, type |-> node.type,
   content |-> ObservedContent, source |-> offer # Nothing,
   ceremony |-> cer, op |-> "upgrade", skip |-> skip]

SkipsOf == CASE surface = "spec"     -> Skips
             [] surface = "marker"   -> {"none", "self"}
             [] surface = "protocol" -> {"none"}

(* _refresh_protocol_pointer, _refresh_spec_contract and                   *)
(* _refresh_framework_marker observe and decide in one go.  A user         *)
(* ceremony's pointer is decided by the caller, with the same outcome.     *)
UpgradeDecide ==
  /\ pc = "idle"
  /\ \E cer \in Ceremonies, skip \in SkipsOf :
       LET o == Observed(cer, skip)  d == Decision(o)
       IN  /\ run' = [NoRun EXCEPT
                        !.op = "upgrade", !.ceremony = cer, !.skip = skip,
                        !.prior = o.prior, !.type = o.type,
                        !.content = o.content, !.decision = d,
                        !.delivered = d.verdict = "PRESERVE_OWNED"]
           /\ pc' = CASE d.verdict \in {"PRESERVE_OWNED",
                                        "PRESERVE_UNOWNED"} -> "up_keep"
                      [] d.verdict = "DELIVER" -> "up_copy"
                      [] d.verdict = "REFRESH" ->
                           IF surface = "marker" /\ o.content = "pristine"
                           THEN "up_copy" ELSE "up_backup"
  /\ UNCHANGED <<surface, offer, tree>>

CopiedAside ==
  \/ surface = "spec" /\ node.type = "dir" /\ run.decision = Unowned
  \/ /\ surface = "protocol" /\ run.ceremony # "user"
     /\ run.content = "edited" /\ run.decision.verdict = "PRESERVE_OWNED"

(* A fork of SPEC/v1 and an edited pointer stay and are copied aside; a    *)
(* copy that fails is ignored.                                             *)
UpgradeKeep ==
  /\ pc = "up_keep"
  /\ \/ CopiedAside /\ bak' = bak \cup {node.body}
     \/ /\ ~ CopiedAside \/ Fault("backup")
        /\ UNCHANGED bak
  /\ pc' = "up_record"
  /\ UNCHANGED <<surface, offer, node, record, mine, by, run>>

(* Mutant: a failed execution keeps the hash source of the verdict.        *)
RefusedAsDecided == run.decision.hash

(* A failed backup stops the refresh; the record must not advance.         *)
RefusedHash == "HASH_PRIOR_RECORD"

(* Mutant: the replacement goes ahead without its backup.                  *)
BackupOptional == TRUE

(* Only the pointer's backup may fail without consequence: what is         *)
(* replaced there is the framework's own rendering.                        *)
BackupNotNeeded == surface = "protocol"

UpgradeBackup ==
  /\ pc = "up_backup"
  /\ \/ /\ bak' = bak \cup ({node.body} \ {Nothing})
        /\ pc' = IF surface = "spec" THEN "up_delete" ELSE "up_copy"
        /\ UNCHANGED run
     \/ /\ Fault("backup") /\ BackupNotNeeded
        /\ pc' = "up_copy"
        /\ UNCHANGED <<bak, run>>
     \/ /\ Fault("backup") /\ ~ BackupNotNeeded
        /\ pc' = "up_record"
        /\ run' = [run EXCEPT !.failed = TRUE,
                              !.delivered = run.prior = "hash",
                              !.decision = Pair("REFRESH", RefusedHash)]
        /\ UNCHANGED bak
  /\ UNCHANGED <<surface, offer, node, record, mine, by>>

UpgradeDelete ==
  /\ pc = "up_delete"
  /\ Wrote(Absent)
  /\ pc' = "up_copy"
  /\ UNCHANGED <<surface, offer, record, bak, mine, run>>

(* The marker is read back; one that does not compare is not recorded.     *)
UpgradeCopy ==
  /\ pc = "up_copy"
  /\ \/ /\ Wrote(Node(Shape, offer))
        /\ run' = [run EXCEPT !.delivered = TRUE]
     \/ /\ Fault("validate") /\ surface = "marker"
        /\ Wrote(Node(Shape, Torn))
        /\ run' = [run EXCEPT !.failed = TRUE]
  /\ pc' = "up_record"
  /\ UNCHANGED <<surface, offer, record, bak, mine>>

(* The rewrite of the manifest, from the delivery flag and the declared    *)
(* hash source.  A link is carried in link mode, which the prior link row  *)
(* implies.                                                                *)
UpgradeRecord ==
  /\ pc = "up_record"
  /\ WriteManifest(Recorded(run.delivered, TRUE, run.decision.hash,
                            PriorRow))
  /\ End
  /\ UNCHANGED <<surface, offer, node, bak, mine, by>>

-----------------------------------------------------------------------------
(* SIGKILL: the run is gone, a copy or a removal may be half done.         *)
Kill ==
  /\ Fault("kill") /\ pc # "idle"
  /\ \/ UNCHANGED <<node, by>>
     \/ /\ \/ pc = "up_delete" /\ node.type = "dir"
           \/ pc = "up_copy"
           \/ pc = "in_write" /\ ~ run.link
        /\ Wrote(Node(Shape, Torn))
  /\ End
  /\ UNCHANGED <<surface, offer, record, bak, mine>>

InstallStep == InstallWrite \/ InstallRender \/ InstallRecord
UpgradeStep == UpgradeKeep \/ UpgradeBackup \/ UpgradeDelete \/ UpgradeCopy
                 \/ UpgradeRecord
ToolStep == InstallBegin \/ UpgradeDecide \/ InstallStep \/ UpgradeStep
              \/ Kill

Next == AdopterChange \/ Release \/ ToolStep

Spec == Init /\ [][Next]_vars

-----------------------------------------------------------------------------
Runs ==
  [op : {"none", "install", "upgrade"}, ceremony : Ceremonies,
   link : BOOLEAN, skip : Skips, prior : Priors, type : LiveTypes,
   content : Contents, decision : Decisions, delivered : BOOLEAN,
   failed : BOOLEAN]

TypeOK ==
  /\ surface \in Watched
  /\ offer \in Bodies \cup {Nothing}
  /\ surface = "protocol" => offer \in Bodies
  /\ node \in [type : LiveTypes, body : AllBodies]
  /\ record \in [kind : {"none", "hash", "link"}, body : AllBodies]
  /\ bak \subseteq AllBodies
  /\ mine \in Adopters \cup {Nothing}
  /\ by \in {"framework", "adopter"}
  /\ pc \in Phases
  /\ run \in Runs

-----------------------------------------------------------------------------
(* The invariant of the proofs, in parts.                                  *)
ForeignTypes == {"symlink", "special", "ancestor_symlink"}
InReach      == run.ceremony # "user" \/ surface = "marker"
Replacing    == pc \in {"up_backup", "up_delete", "up_copy"}

NodeInv ==
  /\ node.type = "absent" => node.body = Nothing
  /\ by = "framework" => node = OurLink \/ node.type \in {Shape, "absent"}

(* install.sh writes into an empty place only, and what it will hash from  *)
(* the target is a link, which it does not hash, or the checkout's body.   *)
InstallInv ==
  /\ pc \in {"in_write", "in_render", "in_record"} => run.op = "install"
  /\ pc = "in_write" => node = Absent /\ offer # Nothing /\ InReach
  /\ pc \in {"in_render", "in_record"} /\ run.delivered =>
       \/ node = OurLink
       \/ node.type = Shape /\ node.body \in Bodies
       \/ /\ pc = "in_render" /\ surface = "protocol" /\ InReach
          /\ node = Node("regular", Degraded)

(* What an upgrade is about to replace is no foreign shape, and no         *)
(* adopter's unless a record claims it and the archive has it.             *)
UpgradeInv ==
  /\ run.decision.hash # "HASH_TARGET"
  /\ pc = "up_keep" => ~ run.failed
  /\ Replacing =>
       /\ node.type \notin ForeignTypes /\ offer # Nothing /\ InReach
       /\ ~ run.delivered /\ ~ run.failed
       /\ run.decision.hash \in {"HASH_SOURCE", "HASH_CANONICAL_POINTER"}
       /\ node.body \in Adopters =>
            /\ record.kind # "none" /\ surface # "protocol"
            /\ pc # "up_backup" => node.body \in bak
  /\ pc = "up_record" /\ run.failed =>
       /\ node.type # "symlink"
       /\ run.delivered => run.decision.hash = "HASH_PRIOR_RECORD"

(* Before the manifest is rewritten, what deserves its record has it.      *)
CarryInv ==
  /\ pc \in {"up_keep", "up_record"} /\ ~ run.failed
  /\ by = "framework" /\ record.kind # "none" /\ offer # Nothing
  /\ node.type # "absent"
  /\ (node.type = "symlink") <=> (record.kind = "link")
  => /\ run.delivered
     /\ node.type # "symlink" =>
          run.decision.hash \in {"HASH_SOURCE", "HASH_CANONICAL_POINTER",
                                 "HASH_PRIOR_RECORD"}

(* Whatever sequence of installs, reruns, upgrades, kills and edits led    *)
(* here, the record never carries a digest of bytes an adopter wrote, nor  *)
(* of a copy cut short: uninstall.sh would delete them as the framework's. *)
RecordIsFrameworks == record.kind = "hash" => record.body \in Bodies

(* A body the adopter put at the surface is still there or in an archive,  *)
(* although SPEC/v1 and the marker are replaced by force.                  *)
NoLoss == mine # Nothing => node.body = mine \/ mine \in bak

(* The inductive invariant.                                                *)
IInv == /\ TypeOK /\ NodeInv /\ InstallInv /\ UpgradeInv /\ CarryInv
        /\ RecordIsFrameworks /\ NoLoss

(* No tool writes through a link, into a special file or below a linked    *)
(* ancestor, whatever the manifest says of the path.                       *)
ForeignShapesStay ==
  [][ToolStep /\ node.type \in {"symlink", "special", "ancestor_symlink"}
       => node' = node]_vars

(* Bytes only the adopter wrote stay if no record claims the path, and at  *)
(* the root pointer even if one does.                                      *)
AdopterBytesStay ==
  [][ToolStep /\ node.body \in Adopters
       /\ (record.kind = "none" \/ surface = "protocol") => node' = node]_vars

(* A user ceremony leaves the root surfaces alone, through every failure.  *)
UserLeavesRoot ==
  [][ToolStep /\ run.op # "none" /\ run.ceremony = "user"
       /\ surface # "marker" => node' = node]_vars

(* INV-3: an upgrade that could not carry out its verdict leaves the       *)
(* record as it was, or withdraws it; it never records what the checkout   *)
(* would have delivered.                                                   *)
FailureKeepsRecord ==
  [][pc = "up_record" /\ run.failed => record' \in {record, NoRecord}]_vars

(* A record of a surface that nobody but the framework touched outlives    *)
(* every run.  It is withdrawn only for a place that is empty, a surface   *)
(* the checkout does not ship, a write that did not compare, a link or a   *)
(* copy whose record is of the other kind (a kill came before the          *)
(* manifest), and a link rerun over in copy mode.                          *)
RecordOutlivesRuns ==
  [][ToolStep /\ by = "framework" /\ record.kind # "none"
       /\ record'.kind = "none" =>
     \/ node.type = "absent"
     \/ offer = Nothing
     \/ run.failed
     \/ (node.type = "symlink") # (record.kind = "link")
     \/ node = OurLink /\ run.op = "install" /\ ~ run.link]_vars

=============================================================================
