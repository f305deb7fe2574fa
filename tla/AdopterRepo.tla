---------------------------- MODULE AdopterRepo ----------------------------
(***************************************************************************)
(* The state every installer tool of scripts/ works on: the framework      *)
(* checkout the tool ships from (src), the adopter's tree (dst), the       *)
(* baseline .claude/.install-manifest.sha256 (recorded), the archives the  *)
(* tools make before they overwrite (bak), and the progress of the one     *)
(* tool that is running.  The tools themselves are modules Upgrade,        *)
(* Install, Uninstall and Doctor; Lifecycle composes them.                 *)
(*                                                                         *)
(* A file's content is a value; a SHA-256 digest is the content itself     *)
(* (no collisions).  Files are the relative paths of the target entries    *)
(* that are managed whatever the ceremony (.claude/hooks, scripts,         *)
(* commands, skills, team.md, ...); paths of the excluded set are no       *)
(* member of Files because no tool reads or writes them.                   *)
(***************************************************************************)
EXTENDS Naturals, FiniteSets

CONSTANTS
  Files,        \* relative paths
  Targets,      \* the entries backup_and_replace is called with
  TargetOf,     \* the target a path belongs to; a file target is its path
  TreeTargets,  \* the targets that are directories
  WholeTargets, \* the trees install_one copies as one unit
  Framework,    \* contents the framework ships
  Adopter,      \* contents only an adopter writes
  FilledBytes,  \* template contents after placeholder substitution
  Filled,       \* what substitution makes of a shipped content
  Templates,    \* the paths the substitution pass rewrites
  Torn,         \* a file whose copy was cut short
  NoFile,       \* no file at the path
  NoRecord,     \* no record for the path in the manifest
  NoSnap,       \* install.sh has taken no snapshot
  SkipSets,     \* the sets of paths a --skip glob may match
  Tools,        \* the tools the operator uses
  Faults,       \* "crash", "abort", "torn", "backup", "manifest", "rollback",
                \* "blocked"
  Rerun         \* over which trees install.sh is run besides an empty one:
                \* "never", "managed" (with a manifest) or "any"

Contents == Framework \cup Adopter \cup FilledBytes \cup {Torn}

ASSUME ContentsAssumption ==
  /\ Filled \in [Framework -> FilledBytes]
  /\ Framework \cap Adopter = {}
  /\ FilledBytes \cap Adopter = {}
  /\ Torn \notin Adopter
  /\ NoFile \notin Contents
  /\ NoRecord \notin Contents

ASSUME PathsAssumption ==
  /\ TargetOf \in [Files -> Targets]
  /\ WholeTargets \subseteq TreeTargets
  /\ TreeTargets \subseteq Targets
  /\ Templates \subseteq Files
  /\ SkipSets \subseteq SUBSET (Files \cup Targets)
  /\ \A f \in Files : TargetOf[f] \notin TreeTargets => TargetOf[f] = f

ASSUME RerunAssumption == Rerun \in {"never", "managed", "any"}

VARIABLES
  src,      \* what the framework checkout ships at each path
  dst,      \* what the adopter's tree holds at each path
  recorded, \* the digest the install manifest records for each path
  bak,      \* adopter contents held in .claude.bak/ or an uninstall archive
  mine,     \* history: what the adopter last wrote at the path
  snap,     \* the copy of .claude install.sh took before it wrote
  pc,       \* where the running tool is, "idle" when none runs
  left,     \* targets the running tool has not come to yet
  todo,     \* files of the current target (or manifest records) left
  cur,      \* the file, or the target, being replaced
  opt       \* the options the running tool was started with

repo == <<src, dst, recorded, bak, mine>>
run  == <<pc, left, todo, cur, opt>>
vars == <<src, dst, recorded, bak, mine, snap, pc, left, todo, cur, opt>>

Options == [policy  : {"refuse", "theirs", "backup"},
            skip    : SUBSET (Files \cup Targets),
            force   : BOOLEAN,
            archive : BOOLEAN,
            fill    : BOOLEAN,
            yes     : SUBSET Files]

Defaults == [policy  |-> "refuse", skip |-> {}, force |-> FALSE,
             archive |-> TRUE,     fill |-> FALSE, yes |-> {}]

Empty       == [f \in Files |-> NoFile]
NoManifest  == [f \in Files |-> NoRecord]

InTarget(t) == {f \in Files : TargetOf[f] = t}
Shipped(t)  == {f \in InTarget(t) : src[f] # NoFile}
Present(t)  == {f \in InTarget(t) : dst[f] # NoFile}

(* The manifest is used only if it holds a valid record.                   *)
Loaded   == \E f \in Files : recorded[f] # NoRecord
Records  == {f \in Files : recorded[f] # NoRecord}

Running(phases) == pc \in phases

UpgradePhases   == {"up_targets", "up_files", "up_backup", "up_copy",
                    "up_delete", "up_recopy"}
InstallPhases   == {"in_targets", "in_copy", "in_manifest", "in_finish"}
UninstallPhases == {"un_records"}
DoctorPhases    == {"doc_records", "doc_backup", "doc_copy"}

Phases == {"idle"} \cup UpgradePhases \cup InstallPhases
                   \cup UninstallPhases \cup DoctorPhases

Fault(kind) == kind \in Faults

(* Add what the tree holds at the paths of S to the archives.              *)
Archive(S) ==
  bak' = [f \in Files |-> IF f \in S /\ dst[f] \in Adopter
                          THEN bak[f] \cup {dst[f]} ELSE bak[f]]

Put(f, c) == dst' = [dst EXCEPT ![f] = c]

(* The tool is over, whatever it has done.                                 *)
Stop == /\ pc' = "idle" /\ left' = {} /\ todo' = {}
        /\ cur' = NoFile /\ opt' = Defaults

Begin(phase, targets, files, options) ==
  /\ pc = "idle"
  /\ pc' = phase /\ left' = targets /\ todo' = files
  /\ cur' = NoFile /\ opt' = options

-----------------------------------------------------------------------------
(* The world between two runs.                                             *)

Init ==
  /\ src \in [Files -> Framework \cup {NoFile}]
  /\ dst = Empty
  /\ recorded = NoManifest
  /\ bak = [f \in Files |-> {}]
  /\ mine = Empty
  /\ snap = NoSnap
  /\ pc = "idle" /\ left = {} /\ todo = {} /\ cur = NoFile /\ opt = Defaults

(* The framework checkout moves to another release.                        *)
Release ==
  /\ pc = "idle"
  /\ \E f \in Files, c \in Framework \cup {NoFile} :
       /\ c # src[f]
       /\ src' = [src EXCEPT ![f] = c]
  /\ UNCHANGED <<dst, recorded, bak, mine, snap, run>>

(* The adopter writes or deletes a file.                                   *)
AdopterEdit ==
  /\ pc = "idle"
  /\ \E f \in Files, c \in Adopter \cup {NoFile} :
       /\ c # dst[f]
       /\ Put(f, c)
       /\ mine' = [mine EXCEPT ![f] = c]
  /\ UNCHANGED <<src, recorded, bak, snap, run>>

(* SIGKILL: no trap runs.  A copy in flight may leave a torn file, and     *)
(* install.sh's snapshot stays in TMPDIR, where nothing looks for it.      *)
Kill ==
  /\ pc # "idle" /\ Fault("crash")
  /\ \/ UNCHANGED dst
     \/ /\ Fault("torn") /\ cur \in Files
        /\ pc \in {"up_copy", "doc_copy"}
        /\ Put(cur, Torn)
     \/ /\ Fault("torn") /\ pc \in {"in_copy", "up_recopy"}
        /\ \E f \in todo : Put(f, Torn)
  /\ Stop
  /\ snap' = NoSnap
  /\ UNCHANGED <<src, recorded, bak, mine>>
=============================================================================
