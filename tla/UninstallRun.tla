---------------------------- MODULE UninstallRun ----------------------------
(***************************************************************************)
(* scripts/uninstall.sh over a manifest that may be damaged: the records   *)
(* it refuses, the backup it makes of the rest, the walk that removes, the *)
(* exit code and the fate of the manifest.  Module Uninstall is the same   *)
(* program over a well-formed manifest, beside the other tools.            *)
(*                                                                         *)
(* The emptied directories the run removes last are no part of the state.  *)
(***************************************************************************)
EXTENDS Naturals, Sequences

CONSTANTS
  Paths,     \* relative paths a record may name
  Hidden,    \* the paths below .claude
  Digests,   \* contents of regular files
  Absent, Symlink, Directory,
  Through,   \* an ancestor of the path is a symlink
  Manifests, \* sequences of records a run may find
  Unreadable,\* a manifest with a NUL byte, or that is itself a symlink
  NoManifest,
  Inodes,    \* the ways paths may share an inode: functions on Paths
  Faults     \* "kill", "tar", "rm"

Nodes == Digests \cup {Absent, Symlink, Directory, Through}

(* "other" is a line the grammar refuses: a LINK record, a malformed line, *)
(* control bytes, an unsafe path.                                          *)
Records == [kind : {"file", "other"}, path : Paths, digest : Digests]

ASSUME PathsAssumption == Hidden \subseteq Paths

ASSUME NodesAssumption ==
  /\ {Absent, Symlink, Directory, Through} \cap Digests = {}
  /\ Absent \notin {Symlink, Directory, Through}
  /\ Through \notin {Symlink, Directory}

ASSUME ManifestsAssumption ==
  /\ Manifests \subseteq Seq(Records)
  /\ {Unreadable, NoManifest} \cap Manifests = {}
  /\ Unreadable # NoManifest

VARIABLES
  manifest,   \* .claude/.install-manifest.sha256
  node,       \* what is at each path
  inode,      \* which paths are names of one inode
  ledger,     \* positions in manifest of the vetted records still to act on
  archived,   \* path and content of what this run's tarball holds
  refused, mismatched, \* a record was refused, a digest differed
  opt,        \* the options of the run
  pc, rc      \* where the run is; the exit code of the last one

vars == <<manifest, node, inode, ledger, archived, refused, mismatched, opt,
          pc, rc>>

Options == [force : BOOLEAN, backup : BOOLEAN, dry : BOOLEAN]

Regular(p) == node[p] \in Digests
Exists(p)  == node[p] # Absent

Exit(code) ==
  /\ pc' = "idle" /\ rc' = code
  /\ ledger' = {} /\ archived' = {} /\ refused' = FALSE /\ mismatched' = FALSE

(* Names of one inode hold the same bytes.                                 *)
Init ==
  /\ manifest \in Manifests \cup {Unreadable}
  /\ node \in [Paths -> Nodes]
  /\ inode \in Inodes
  /\ \A p, q \in Paths : inode[p] = inode[q] => node[p] = node[q]
  /\ ledger = {} /\ archived = {} /\ refused = FALSE /\ mismatched = FALSE
  /\ opt = [force |-> FALSE, backup |-> TRUE, dry |-> FALSE]
  /\ pc = "idle" /\ rc = 0

(* No manifest is exit 2, one that cannot be read as text is exit 6.       *)
Start ==
  /\ pc = "idle"
  /\ opt' \in Options
  /\ CASE manifest = NoManifest -> pc' = pc /\ rc' = 2
       [] manifest = Unreadable -> pc' = pc /\ rc' = 6
       [] OTHER                 -> pc' = "vet" /\ rc' = rc
  /\ UNCHANGED <<manifest, node, inode, ledger, archived, refused, mismatched>>

-----------------------------------------------------------------------------
(* The single parse: the records that name one file, each without doubt,   *)
(* as positions in the manifest.                                           *)

Sane(rows) ==
  {i \in DOMAIN rows : rows[i].kind = "file" /\ node[rows[i].path] # Through}

RowsOf(rows, p) == {i \in DOMAIN rows : rows[i].path = p}

(* Of the positions S, those whose path no other of them names.            *)
Unique(rows, S) == {i \in S : S \cap RowsOf(rows, rows[i].path) = {i}}

Aliased(rows, S, p) ==
  \E i \in S :
    LET q == rows[i].path
    IN  p # q /\ inode[p] = inode[q] /\ Exists(p) /\ Exists(q)

Distinct(rows, S) == {i \in S : ~ Aliased(rows, S, rows[i].path)}

(* Mutant: a path recorded twice is acted on twice.                        *)
VettedWithRepeats(rows) == Distinct(rows, Sane(rows))

(* Repeats go first: a path that is recorded once is compared with the     *)
(* others recorded once.                                                   *)
Vetted(rows) == Distinct(rows, Unique(rows, Sane(rows)))

(* No valid record at all is refused as well.                              *)
Vet ==
  /\ pc = "vet"
  /\ ledger' = Vetted(manifest)
  /\ refused' = (ledger' # DOMAIN manifest \/ ledger' = {})
  /\ pc' = IF opt.backup /\ ~ opt.dry THEN "backup" ELSE "walk"
  /\ UNCHANGED <<manifest, node, inode, archived, mismatched, opt, rc>>

-----------------------------------------------------------------------------
LedgerPaths == {manifest[i].path : i \in ledger}

(* Mutants: a tarball of .claude alone; recorded paths that are no file.   *)
BackupHidden == {p \in Hidden : Regular(p)}

(* .claude, and every recorded regular file outside it.                    *)
BackupList == {p \in Hidden \cup LedgerPaths : Regular(p)}

(* The loop that writes the list ends with the status of its last record,  *)
(* and under pipefail `set -e` ends the run when that record is outside    *)
(* .claude and no regular file.                                            *)
ListFails ==
  \E last \in ledger :
    /\ \A i \in ledger : i <= last
    /\ manifest[last].path \notin Hidden /\ ~ Regular(manifest[last].path)

Backup ==
  /\ pc = "backup" /\ ~ ListFails
  /\ archived' = {<<p, node[p]>> : p \in BackupList}
  /\ pc' = "walk"
  /\ UNCHANGED <<manifest, node, inode, ledger, refused, mismatched, opt, rc>>

(* Nothing has been removed yet.                                           *)
BackupAbort ==
  /\ pc = "backup"
  /\ ListFails \/ "tar" \in Faults
  /\ Exit(1)
  /\ UNCHANGED <<manifest, node, inode, opt>>

-----------------------------------------------------------------------------
Matches(r) == node[r.path] = r.digest

(* Mutant: the digest is not compared.                                     *)
RemovesAny(r) == TRUE

Removes(r) == Matches(r) \/ opt.force

(* The record the walk is at.                                              *)
Reached(i) == i \in ledger /\ \A j \in ledger : i <= j

(* A link or a directory at the path is refused; what is absent passes.    *)
Walk ==
  /\ pc = "walk"
  /\ \E i \in ledger :
       LET r == manifest[i]
       IN  /\ Reached(i)
           /\ ledger' = ledger \ {i}
           /\ node' = IF Regular(r.path) /\ Removes(r) /\ ~ opt.dry
                      THEN [node EXCEPT ![r.path] = Absent] ELSE node
           /\ refused' = (refused \/ node[r.path] \in {Symlink, Directory})
           /\ mismatched' = (mismatched \/ (Regular(r.path) /\ ~ Matches(r)))
  /\ UNCHANGED <<manifest, inode, archived, opt, pc, rc>>

(* rm -f failing, under set -e.                                            *)
WalkAbort ==
  /\ pc = "walk" /\ "rm" \in Faults /\ ~ opt.dry
  /\ \E i \in ledger :
       Reached(i) /\ Regular(manifest[i].path) /\ Removes(manifest[i])
  /\ Exit(1)
  /\ UNCHANGED <<manifest, node, inode, opt>>

(* Mutant: --force lifts a refusal as it lifts a mismatch, a defect this   *)
(* code has had (uninstall.sh:651-657).                                    *)
IncompleteUnlessForced == ~ opt.force /\ (refused \/ mismatched)

(* --force lifts a mismatch, never a refusal.                              *)
Incomplete == refused \/ (mismatched /\ ~ opt.force)

Finish ==
  /\ pc = "walk" /\ ledger = {}
  /\ manifest' = IF Incomplete \/ opt.dry THEN manifest ELSE NoManifest
  /\ Exit(IF opt.dry \/ ~ Incomplete THEN 0 ELSE IF refused THEN 6 ELSE 5)
  /\ UNCHANGED <<node, inode, opt>>

Kill ==
  /\ pc # "idle" /\ "kill" \in Faults
  /\ Exit(137)
  /\ UNCHANGED <<manifest, node, inode, opt>>

(* Between two runs the adopter changes what is at a path that shares its  *)
(* inode with no other: an edit, a deletion, a link put in its place.      *)
AdopterChanges ==
  /\ pc = "idle"
  /\ \E p \in Paths, n \in Nodes :
       /\ \A q \in Paths \ {p} : inode[q] # inode[p]
       /\ node' = [node EXCEPT ![p] = n]
  /\ UNCHANGED <<manifest, inode, ledger, archived, refused, mismatched, opt,
                 pc, rc>>

Step == Vet \/ Backup \/ BackupAbort \/ Walk \/ WalkAbort \/ Finish

Next == Start \/ Step \/ Kill \/ AdopterChanges

Spec == Init /\ [][Next]_vars

-----------------------------------------------------------------------------
Stages == {"idle", "vet", "backup", "walk"}

TypeOK ==
  /\ manifest \in Manifests \cup {Unreadable, NoManifest}
  /\ node \in [Paths -> Nodes]
  /\ inode \in Inodes
  /\ ledger \subseteq Nat
  /\ archived \subseteq Paths \X Digests
  /\ refused \in BOOLEAN /\ mismatched \in BOOLEAN
  /\ opt \in Options
  /\ pc \in Stages /\ rc \in Nat

Running == pc # "idle"

Rows == IF manifest \in {NoManifest, Unreadable} THEN <<>> ELSE manifest

(* A path that several hash records name, or that is one inode with another*)
(* path recorded once, is left alone, --force or not: which digest vouches *)
(* for it is unknown (uninstall.sh:452-458, 474-483).  A path recorded once*)
(* that is one inode with a path recorded twice is not among them: the     *)
(* repeats are out of the ledger when the inodes are compared.             *)
DoubtfulStays ==
  [][Running =>
       \A p \in Paths :
         LET named == {i \in RowsOf(Rows, p) : Rows[i].kind = "file"}
         IN  (named # {}
              /\ \/ \E i, j \in named : i # j
                 \/ Aliased(Rows, Unique(Rows, Sane(Rows)), p))
               => node'[p] = node[p]]_vars

(* What goes is a recorded regular file, without --force one that has the  *)
(* bytes the manifest records (uninstall.sh:5-8), and with a backup one    *)
(* whose very bytes are in the tarball (uninstall.sh:526-530).             *)
RemovedIsRecorded ==
  [][Running =>
       \A p \in Paths :
         node'[p] # node[p] =>
           /\ opt.backup => <<p, node[p]>> \in archived
           /\ \E i \in RowsOf(Rows, p) :
                 /\ Rows[i].kind = "file" /\ Regular(p)
                 /\ Rows[i].digest = node[p] \/ opt.force]_vars

(* Exit 0 of a real run: no recorded path is left and the manifest is gone.*)
(* Exit 5: nothing was refused and a file with other bytes is left.  Exit 6*)
(* keeps the manifest.  (uninstall.sh:22-42)                               *)
ExitTellsTheTruth ==
  [][pc = "walk" /\ pc' = "idle" /\ ~ opt.dry =>
       /\ rc' = 0 => /\ manifest' = NoManifest
                     /\ \A i \in DOMAIN manifest : node[manifest[i].path] = Absent
       /\ rc' = 5 => \E i \in DOMAIN manifest :
                       LET r == manifest[i] IN Regular(r.path) /\ ~ Matches(r)
       /\ rc' # 0 => manifest' = manifest]_vars

(* A run over a manifest it can read, with no tool failing, ends with one  *)
(* of the codes the header gives such a run: 0, 5 or 6.                    *)
NoGenericFailure == rc # 1
=============================================================================
