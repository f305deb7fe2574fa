------------------------------ MODULE Ceremony ------------------------------
(***************************************************************************)
(* The five patchers by which the Owner edits guarded files                 *)
(* (scripts/local/historical/plan-093-apply-kernel-edits.py,                *)
(* plan-094-apply-wave-a-c-e.py, and scripts/local/plan-152-apply-wave-a-   *)
(* {kernel,codex-fixes,codex-fixes-2}.py).  Each is a list of edits; an     *)
(* edit reads its file, skips when it finds its own text, else replaces its *)
(* anchors and writes the whole file with write_text, which truncates       *)
(* first: a kill leaves a prefix.  The Owner may run them in any order, any *)
(* number of times, restore a file from HEAD, or commit.                    *)
(*                                                                         *)
(* A text is the sequence of the versions of the regions the patchers know, *)
(* in file order, with what lies between them left out.                     *)
(***************************************************************************)
EXTENDS Integers, Sequences, FiniteSets

CONSTANTS
    Ceremonies, \* the sets of patchers the Owner may have at hand
    Modes,      \* how plan094 is called: "checked", "unchecked" or "dry"
    MaxKills,   \* bound: runs killed
    MaxCommits  \* bound: commits

ASSUME BoundsAssumption == MaxKills \in Nat /\ MaxCommits \in Nat

VARIABLES
    hand,       \* the patchers at hand
    text,       \* the files of the working tree
    head,       \* the files of the last commit
    run,        \* the patcher running, or Idle
    last,       \* the last run that ended: its patcher and how it ended
    kills,      \* runs killed so far
    commits,    \* commits made so far
    ready,      \* sentinel, signature, draft and accept marker are in place
    settled     \* history: patchers that exited 0 and whose files are as they left them

vars == <<hand, text, head, run, last, kills, commits, ready, settled>>

(***************************************************************************)
(* The edits.  at: the regions an edit replaces, all in one write; from: the *)
(* version its anchors belong to ("none": the file is created); to: the     *)
(* version written; skip: what makes it skip - the marker of the new text,  *)
(* the new text itself, all the entries it adds, or the file's existence;   *)
(* keeps: the new text of a region contains its anchor again.               *)
(***************************************************************************)
Edit(file, at, from, to, skip, keeps) ==
    [file |-> file, at |-> at, from |-> from, to |-> to, skip |-> skip, keeps |-> keeps]

CoverageEdit  == Edit("coverage", 1..2, "base", "plan093", "marker", 1..2)
SessionEdit   == Edit("session", 1..2, "base", "plan093", "marker", 1..2)
LoaderEdit    == Edit("loader", {1}, "base", "plan093", "marker", {1})
TransportEdit == Edit("transport", {1}, "base", "plan093", "marker", {})
RailEdit      == Edit("rail", {1}, "base", "plan093", "marker", {1})
EmitEdit      == Edit("emit", {1, 3, 4, 5}, "base", "plan093", "marker", {1, 3, 4, 5})
SpoolEdit     == Edit("spool", 1..2, "none", "plan094", "marker", {})
EntriesEdit   == Edit("emit", {2}, "base", "plan094", "entries", {})
TestsEdit     == Edit("tests", {1}, "none", "plan094", "exists", {})
SettingsEdit  == Edit("settings", {1}, "base", "kernel", "text", {})
BranchEdit    == Edit("safety", {2}, "base", "kernel", "text", {})
ReadGateEdit  == Edit("shim", {2}, "base", "kernel", "text", {})
WriteGateEdit == Edit("shim", {3}, "base", "kernel", "text", {})
SectionFix    == Edit("safety", {1}, "base", "fixes", "text", {})
BranchFix     == Edit("safety", {2}, "kernel", "fixes", "text", {})
HelpersFix    == Edit("shim", {1}, "base", "fixes", "text", {})
WriteGateFix  == Edit("shim", {3}, "kernel", "fixes", "text", {})
SectionFix2   == Edit("safety", {1}, "fixes", "fixes2", "marker", {})

Fixes == <<SectionFix, BranchFix, HelpersFix, WriteGateFix>>
Edits == [
    plan093 |-> <<CoverageEdit, SessionEdit, LoaderEdit, TransportEdit, RailEdit, EmitEdit>>,
    plan094 |-> <<SpoolEdit, EntriesEdit, TestsEdit>>,
    kernel  |-> <<SettingsEdit, BranchEdit, ReadGateEdit, WriteGateEdit>>,
    fixes   |-> Fixes,
    fixes2  |-> <<SectionFix2>> ]

\* Regions: coverage pip, append; session helper, call; emit action set,
\* entries of 094, allowlist, wrapper, dispatcher; safety section of the
\* rescan, branch of decide_command; shim trust helpers, read gate, write gate.
Regions == [coverage |-> 2, session |-> 2, loader |-> 1, transport |-> 1, rail |-> 1,
            emit |-> 5, spool |-> 2, tests |-> 1, settings |-> 1, safety |-> 2, shim |-> 3]
Files == DOMAIN Regions
Scripts == DOMAIN Edits
ASSUME CeremoniesAssumption == Ceremonies \subseteq SUBSET Scripts
FilesOf(s) == {Edits[s][i].file : i \in DOMAIN Edits[s]}

Whole(parts) == [state |-> "whole", parts |-> parts, tail |-> ""]
Absent == [state |-> "absent", parts |-> <<>>, tail |-> ""]
Untouched(f) ==
    IF f \in {"spool", "tests"} THEN Absent ELSE Whole([i \in 1..Regions[f] |-> "base"])
\* What the first version of plan093 left (the Owner is told to restore it),
\* and entries of plan094 copied in by hand.
Residue(f) ==
    CASE f = "coverage" -> Whole(<<"v1", "plan093">>)
      [] f = "emit" -> Whole(<<"plan093", "base", "base", "v1", "base">>)
ByHand == Whole(<<"base", "some", "base", "base", "base">>)

Versions == {"base", "v1", "some", "plan093", "plan094", "kernel", "fixes", "fixes2", "twice"}
Idle == [script |-> "none", mode |-> "none", step |-> 0, failed |-> 0]
Codes == {"none", "killed", "0", "1", "2"}

TypeOK ==
    /\ \A f \in Files :
          /\ text[f].state \in {"absent", "cut", "whole"}
          /\ text[f].parts \in Seq(Versions) /\ Len(text[f].parts) <= Regions[f]
          /\ text[f].state = "whole" => Len(text[f].parts) = Regions[f]
          /\ text[f].tail \in Versions \cup {""}
    /\ last \in [script: Scripts \cup {"none"}, code: Codes]
    /\ run.script \in Scripts => run.step \in 1..(Len(Edits[run.script]) + 1)
    /\ kills \in 0..MaxKills /\ commits \in 0..MaxCommits
    /\ settled \subseteq hand
    /\ hand \subseteq Scripts

(***************************************************************************)
(* What an edit finds in a text.                                            *)
(***************************************************************************)
Has(t, i, v) == i \in DOMAIN t.parts /\ t.parts[i] = v
\* Any region of the edit, or the fragment a cut ends with, carries the marker.
Marked(t, e) ==
    \E i \in e.at : Has(t, i, e.to) \/ (i = Len(t.parts) + 1 /\ t.tail = e.to)
Landed(t, e) == \A i \in e.at : Has(t, i, e.to)
Anchored(t, e) ==
    \A i \in e.at : Has(t, i, e.from) \/ (i \in e.keeps /\ Has(t, i, e.to))
LeftByV1Unchecked(t, e) == FALSE
LeftByV1(t, e) == e.to = "plan093" /\ \E i \in DOMAIN t.parts : t.parts[i] = "v1"

SkippedNever(t, e) == FALSE
Skipped(t, e) ==
    CASE e.skip = "marker" -> Marked(t, e)
      [] e.skip \in {"text", "entries"} -> Landed(t, e)
      [] e.skip = "exists" -> t.state # "absent"
\* step2_register_actions: some of the eight entries, or the marker without them.
InPart(t, e) == e.skip = "entries" /\ (Marked(t, e) \/ \E i \in e.at : Has(t, i, "some"))

Outcome(t, e) ==
    IF LeftByV1(t, e) THEN "failed"
    ELSE IF Skipped(t, e) THEN "skipped"
    ELSE IF InPart(t, e) \/ (e.from # "none" /\ ~Anchored(t, e)) THEN "failed"
    ELSE "applied"

Edited(t, e) ==
    IF e.from = "none"
    THEN Whole([i \in e.at |-> e.to])
    ELSE [t EXCEPT !.parts = [i \in DOMAIN t.parts |->
             IF i \notin e.at THEN t.parts[i] ELSE IF t.parts[i] = e.to THEN "twice" ELSE e.to]]

\* What write_text leaves when it is killed: a prefix, the empty one included.
Cuts(t) ==
    UNION {{[state |-> "cut", parts |-> SubSeq(t.parts, 1, n), tail |-> v] :
               v \in {""} \cup (IF n < Len(t.parts) THEN {t.parts[n + 1]} \ {"base"} ELSE {t.tail})}
           : n \in 0..Len(t.parts)}

(***************************************************************************)
(* A run.                                                                   *)
(***************************************************************************)
Clean == text = head
PreflightDirty == ready
Preflight == ready /\ Clean
Loses(f) == settled \ {s \in Scripts : f \in FilesOf(s)}

Ends(s, code) ==
    /\ run' = Idle
    /\ last' = [script |-> s, code |-> code]

Start(s, mode) ==
    /\ run = Idle
    /\ mode \in (IF s = "plan094" THEN Modes ELSE {"plain"})
    /\ IF mode = "checked" /\ ~Preflight
       THEN Ends(s, "1")
       ELSE /\ run' = [script |-> s, mode |-> mode, step |-> 1, failed |-> 0]
            /\ UNCHANGED last
    /\ UNCHANGED <<hand, text, head, kills, commits, ready, settled>>

\* A text that was cut may or may not parse.
Parses(f, parsed) == text'[f].state = "whole" => parsed

\* plan093, kernel and fixes count a failed edit and go on; plan094 and fixes2 stop.
StopsAtAnyFailure(s) == s # "plan093"
StopsAtFailure(s) == s \in {"plan094", "fixes2"}

Write(e) ==
    IF Outcome(text[e.file], e) = "applied" /\ run.mode # "dry"
    THEN /\ text' = [text EXCEPT ![e.file] = Edited(@, e)]
         /\ settled' = Loses(e.file)
    ELSE UNCHANGED <<text, settled>>

Step ==
    LET s == run.script
        e == Edits[s][run.step]
        \* A dry run looks for what is there already, not for the anchors.
        failed == /\ Outcome(text[e.file], e) = "failed"
                  /\ run.mode = "dry" => InPart(text[e.file], e)
    IN  /\ s \in Scripts /\ run.step <= Len(Edits[s])
        /\ Write(e)
        /\ IF failed /\ StopsAtFailure(s)
           THEN Ends(s, IF s = "plan094" THEN "2" ELSE "1")
           ELSE \E parsed \in BOOLEAN :
                   /\ Parses(e.file, parsed)
                   \* patch_settings loads the JSON it has written or found.
                   /\ IF e.file = "settings" /\ ~failed /\ ~parsed
                      THEN Ends(s, "1")
                      ELSE /\ run' = [run EXCEPT !.step = @ + 1, !.failed = @ + (IF failed THEN 1 ELSE 0)]
                           /\ UNCHANGED last
        /\ UNCHANGED <<hand, head, kills, commits, ready>>

\* promote reads the draft first: without it the run ends in a traceback.
NoDraft ==
    /\ run.script = "plan094" /\ run.step = 1 /\ ~ready
    /\ Outcome(text["spool"], Edits.plan094[1]) = "applied"
    /\ Ends("plan094", "1")
    /\ UNCHANGED <<hand, text, head, kills, commits, ready, settled>>

\* The post-checks of fixes and fixes2: the safety hook compiles, the shim parses.
Checked(s) == IF s = "fixes" THEN {"safety", "shim"} ELSE IF s = "fixes2" THEN {"safety"} ELSE {}

Finish ==
    LET s == run.script IN
    /\ s \in Scripts /\ run.step > Len(Edits[s])
    /\ UNCHANGED <<hand, text, head, kills, commits, ready>>
    /\ \E bad \in SUBSET {f \in Checked(s) : text[f].state # "whole"} :
          IF run.failed = 0 /\ bad = {}
          THEN /\ Ends(s, "0")
               /\ settled' = IF run.mode = "dry" THEN settled ELSE settled \cup {s}
          ELSE /\ Ends(s, "1")
               /\ UNCHANGED settled

Kill ==
    LET s == run.script IN
    /\ s \in Scripts
    /\ kills < MaxKills
    /\ kills' = kills + 1
    /\ Ends(s, "killed")
    /\ \/ UNCHANGED <<text, settled>>
       \/ /\ run.step <= Len(Edits[s]) /\ run.mode # "dry"
          /\ LET e == Edits[s][run.step] IN
             /\ Outcome(text[e.file], e) = "applied"
             /\ \E t \in Cuts(Edited(text[e.file], e)) : text' = [text EXCEPT ![e.file] = t]
             /\ settled' = Loses(e.file)
    /\ UNCHANGED <<hand, head, commits, ready>>

(***************************************************************************)
(* The Owner, between runs.                                                 *)
(***************************************************************************)
\* After a run that failed or was killed the Owner checks its files out again
\* (plan-093-execute-ceremony.sh lists all six).
Restore ==
    /\ run = Idle /\ last.code \in {"killed", "1", "2"}
    /\ LET lost == {f \in FilesOf(last.script) : text[f] # head[f]} IN
       /\ lost # {}
       /\ text' = [f \in Files |-> IF f \in lost THEN head[f] ELSE text[f]]
       /\ settled' = {s \in settled : FilesOf(s) \cap lost = {}}
    /\ UNCHANGED <<hand, head, run, last, kills, commits, ready>>

Commit ==
    /\ run = Idle
    /\ last.code = "0" /\ last.script \in settled
    /\ commits < MaxCommits
    /\ commits' = commits + 1
    /\ head' = text
    /\ UNCHANGED <<hand, text, run, last, kills, ready, settled>>

Prepare ==
    /\ run = Idle /\ ~ready
    /\ ready' = TRUE
    /\ UNCHANGED <<hand, text, head, run, last, kills, commits, settled>>

Init ==
    /\ hand \in Ceremonies
    /\ head = [f \in Files |-> Untouched(f)]
    /\ \E left \in SUBSET {"coverage", "emit"} :
          \/ text = [f \in Files |-> IF f \in left THEN Residue(f) ELSE Untouched(f)]
          \/ left = {} /\ text = [head EXCEPT !.emit = ByHand]
    /\ run = Idle
    /\ last = [script |-> "none", code |-> "none"]
    /\ kills = 0 /\ commits = 0
    /\ ready \in BOOLEAN
    /\ settled = {}

Next ==
    \/ \E s \in hand : \E mode \in Modes \cup {"plain"} : Start(s, mode)
    \/ Step
    \/ NoDraft
    \/ Finish
    \/ Kill
    \/ Restore
    \/ Commit
    \/ Prepare

Spec == Init /\ [][Next]_vars

(***************************************************************************)
(* Properties.                                                              *)
(***************************************************************************)

\* Exit 0 means the ceremony's text is in place: in every file that was not
\* cut by a kill each edit has landed in all of its regions; and the edits
\* that look for their own text, not for a marker, have landed even in a
\* file that was cut.
ExitTells ==
    \A s \in settled : \A i \in DOMAIN Edits[s] :
        LET e == Edits[s][i] IN
        (text[e.file].state = "whole" \/ e.skip \in {"text", "entries"}) => Landed(text[e.file], e)

\* No edit is ever stacked on itself, although most new texts contain their
\* anchor again and a rerun would find it.
NeverTwice == \A f \in Files : \A i \in DOMAIN text[f].parts : text[f].parts[i] # "twice"

\* The helper that the branch of decide_command calls is defined in the file.
Calls(branch) ==
    CASE branch = "kernel" -> {"base"}              \* _rawscan_destructive
      [] branch = "fixes" -> {"fixes", "fixes2"}    \* _recheck_whole_command
      [] OTHER -> {"base", "fixes", "fixes2"}
Served == LET p == text["safety"].parts IN p[1] \in Calls(p[2])

\* fixes writes the safety hook twice, section then branch.  Whatever was
\* killed, repeated or run out of order before, a run of fixes that comes to
\* its end leaves the branch with its helper, the runs that exit 1 included:
\* an edit that fails (the section was taken further by fixes2) does not keep
\* the others from being made.
FixesRepairs ==
    [][run.script = "fixes" /\ run' = Idle /\ last'.code # "killed"
       /\ text["safety"].state = "whole" => Served]_vars

\* A patcher that exited 0 changes nothing when it is run again, as long as
\* its files are as it left them.
RerunIdle == [][run.script \in settled => text' = text]_vars

\* A checked run of plan094 builds on the commit: whatever a killed or failed
\* ceremony left in the tree is not built upon, so each of its files is the
\* committed text or that text with the run's own edits.
BuildsOnHead ==
    [][run.mode = "checked" /\ run' # run /\ run'.script = "plan094"
       => \A i \in DOMAIN Edits.plan094 : LET e == Edits.plan094[i] IN
             text'[e.file] \in {head[e.file], Edited(head[e.file], e)}]_vars
=============================================================================
