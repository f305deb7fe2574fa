---------------------------- MODULE MCLifecycle ----------------------------
(***************************************************************************)
(* Instances of Lifecycle for TLC.  A root file and a tree; or a tree of   *)
(* two files that install.sh copies as one unit.                           *)
(***************************************************************************)
EXTENDS Lifecycle, TLC

CONSTANTS v1, v2, a1, a2

(* .claude/team.md and a file of .claude/hooks                             *)
MixedFiles    == {"team", "hook"}
MixedTargets  == {"team", "hooks"}
MixedTargetOf == ("team" :> "team") @@ ("hook" :> "hooks")
MixedTrees    == {"hooks"}
MixedSkips    == {{}, {"hook"}, {"team"}, {"hook", "hooks"}}

(* two files of .claude/commands                                           *)
UnitFiles     == {"one", "two"}
UnitTargets   == {"commands"}
UnitTargetOf  == [f \in UnitFiles |-> "commands"]
UnitTrees     == {"commands"}

NoSkips       == {{}}
NoTargets     == {}
OneTemplate   == {"team"}
NoTemplates   == {}

MCFilled      == [c \in Framework |-> <<"filled", c>>]
MCFilledBytes == {MCFilled[c] : c \in Framework}

AdopterSymmetry == Permutations(Adopter)
=============================================================================
