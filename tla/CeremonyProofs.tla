--------------------------- MODULE CeremonyProofs ---------------------------
(***************************************************************************)
(* Proofs about the patchers, for any patchers at hand, any number of kills *)
(* and commits: no edit is stacked on itself, exit 0 tells what is in       *)
(* place, a checked run builds on the commit, the hook keeps its helper.    *)
(***************************************************************************)
EXTENDS Ceremony, SequenceTheorems, TLAPS

-----------------------------------------------------------------------------
(* The table of the edits                                                    *)

TableOf(e) ==
    /\ e.file \in Files /\ e.to \in Versions \ {"twice", "v1"} /\ e.from # "v1"
    /\ e.at \subseteq 1 .. Regions[e.file] /\ e.at # {}
    /\ \/ e.from = "none" /\ e.at = 1 .. Regions[e.file] /\ e.skip \in {"marker", "exists"}
       \/ e.from # "none" /\ e.skip = "marker"
       \/ e.from # "none" /\ e.skip \in {"text", "entries"} /\ \E j \in Nat : e.at = {j}

(* Every edit names a file and regions of it, and one that looks for its    *)
(* own text and not for a marker replaces a single region.                  *)
LEMMA EditTable == \A s \in Scripts : \A i \in DOMAIN Edits[s] : TableOf(Edits[s][i])
<1> SUFFICES ASSUME NEW s \in Scripts, NEW i \in DOMAIN Edits[s] PROVE TableOf(Edits[s][i])
  OBVIOUS
<1>1. TableOf(CoverageEdit) /\ TableOf(SessionEdit)
  BY DEF TableOf, CoverageEdit, SessionEdit, Edit, Files, Regions, Versions
<1>2. TableOf(LoaderEdit) /\ TableOf(TransportEdit) /\ TableOf(RailEdit)
  BY DEF TableOf, LoaderEdit, TransportEdit, RailEdit, Edit, Files, Regions, Versions
<1>3. TableOf(EmitEdit) /\ TableOf(EntriesEdit)
  BY DEF TableOf, EmitEdit, EntriesEdit, Edit, Files, Regions, Versions
<1>4. TableOf(SpoolEdit) /\ TableOf(TestsEdit)
  BY DEF TableOf, SpoolEdit, TestsEdit, Edit, Files, Regions, Versions
<1>5. TableOf(SettingsEdit) /\ TableOf(BranchEdit)
  BY DEF TableOf, SettingsEdit, BranchEdit, Edit, Files, Regions, Versions
<1>6. TableOf(ReadGateEdit) /\ TableOf(WriteGateEdit)
  BY DEF TableOf, ReadGateEdit, WriteGateEdit, Edit, Files, Regions, Versions
<1>7. TableOf(SectionFix) /\ TableOf(BranchFix) /\ TableOf(SectionFix2)
  BY DEF TableOf, SectionFix, BranchFix, SectionFix2, Edit, Files, Regions, Versions
<1>8. TableOf(HelpersFix) /\ TableOf(WriteGateFix)
  BY DEF TableOf, HelpersFix, WriteGateFix, Edit, Files, Regions, Versions
<1>9. s \in {"plan093", "plan094", "kernel", "fixes", "fixes2"}
  BY DEF Scripts, Edits
<1>10. CASE s = "plan093"
  BY <1>1, <1>2, <1>3, <1>10 DEF Edits
<1>11. CASE s = "plan094"
  BY <1>3, <1>4, <1>11 DEF Edits
<1>12. CASE s = "kernel"
  BY <1>5, <1>6, <1>12 DEF Edits
<1>13. CASE s = "fixes"
  BY <1>7, <1>8, <1>13 DEF Edits, Fixes
<1>14. CASE s = "fixes2"
  BY <1>7, <1>14 DEF Edits
<1> QED BY <1>9, <1>10, <1>11, <1>12, <1>13, <1>14

-----------------------------------------------------------------------------
(* The texts                                                                 *)

Once == Versions \ {"twice"}
Texts == [state : {"absent", "cut", "whole"}, parts : Seq(Once), tail : Versions \cup {""}]
TextsOf(n) == {t \in Texts : Len(t.parts) <= n /\ (t.state = "whole" => Len(t.parts) = n)}
TextOf(f) == TextsOf(Regions[f])

LEMMA RegionsAreNat == \A f \in Files : Regions[f] \in Nat
BY DEF Files, Regions

(* An edit that is made finds none of its regions already holding its text. *)
LEMMA AppliedOnce ==
    ASSUME NEW t, NEW e, TableOf(e), e.from # "none", Outcome(t, e) = "applied",
           NEW i \in e.at
    PROVE  ~Has(t, i, e.to)
<1>1. ~Skipped(t, e)
  BY DEF Outcome
<1>2. CASE e.skip = "marker"
  BY <1>1, <1>2 DEF Skipped, Marked
<1>3. CASE e.skip \in {"text", "entries"} /\ \E j \in Nat : e.at = {j}
  <2>1. ~Landed(t, e)
    BY <1>1, <1>3 DEF Skipped
  <2> QED BY <1>3, <2>1 DEF Landed
<1> QED BY <1>2, <1>3 DEF TableOf

LEMMA FunctionIsSeq ==
    ASSUME NEW n \in Nat, NEW S, NEW q \in [1 .. n -> S]
    PROVE  q \in Seq(S) /\ Len(q) = n
<1>1. q \in Seq(S)
  BY SeqDef
<1>2. Len(q) \in Nat /\ DOMAIN q = 1 .. Len(q)
  BY <1>1, LenProperties
<1> QED BY <1>1, <1>2

LEMMA WholeText ==
    ASSUME NEW n \in Nat, NEW q \in Seq(Once), Len(q) = n
    PROVE  Whole(q) \in TextsOf(n)
<1> DEFINE r == [state |-> "whole", parts |-> q, tail |-> ""]
<1>1. r \in Texts /\ r.parts = q
  BY DEF Texts
<1>2. Len(q) <= n
  OBVIOUS
<1> HIDE DEF r
<1>3. r \in TextsOf(n)
  BY <1>1, <1>2 DEF TextsOf
<1> QED BY <1>3 DEF Whole, r

LEMMA EditedText ==
    ASSUME NEW f \in Files, NEW t \in TextOf(f), NEW e, TableOf(e), e.file = f,
           Outcome(t, e) = "applied"
    PROVE  Edited(t, e) \in TextOf(f)
<1>1. e.to \in Once /\ Regions[f] \in Nat
  BY RegionsAreNat DEF TableOf, Once
<1>2. CASE e.from = "none"
  <2> DEFINE q == [i \in 1 .. Regions[f] |-> e.to]
  <2>1. Edited(t, e) = Whole(q)
    BY <1>2 DEF Edited, TableOf
  <2>2. q \in [1 .. Regions[f] -> Once]
    BY <1>1
  <2> HIDE DEF q
  <2>3. q \in Seq(Once) /\ Len(q) = Regions[f]
    BY <1>1, <2>2, FunctionIsSeq
  <2> QED BY <1>1, <2>1, <2>3, WholeText DEF TextOf
<1>3. CASE e.from # "none"
  <2> DEFINE p == [i \in DOMAIN t.parts |->
                     IF i \notin e.at THEN t.parts[i] ELSE IF t.parts[i] = e.to THEN "twice" ELSE e.to]
  <2>1. t \in Texts /\ t.parts \in Seq(Once)
    BY DEF TextOf, TextsOf, Texts
  <2>2. \A i \in DOMAIN t.parts : i \in e.at => t.parts[i] # e.to
    BY <1>3, AppliedOnce DEF Has
  <2>3. \A i \in DOMAIN t.parts : p[i] \in Once
    BY <1>1, <2>1, <2>2
  <2>5. Edited(t, e) = [t EXCEPT !.parts = p]
    BY <1>3 DEF Edited
  <2>6. p \in [1 .. Len(t.parts) -> Once] /\ Len(t.parts) \in Nat
    BY <2>1, <2>3, LenProperties
  <2> HIDE DEF p
  <2>4. p \in Seq(Once) /\ Len(p) = Len(t.parts)
    BY <2>6, FunctionIsSeq
  <2> QED BY <2>1, <2>4, <2>5 DEF TextOf, TextsOf, Texts
<1> QED BY <1>2, <1>3

LEMMA CutText ==
    ASSUME NEW m \in Nat, NEW t \in TextsOf(m), NEW c \in Cuts(t)
    PROVE  c \in TextsOf(m)
<1>1. PICK n \in 0 .. Len(t.parts) :
        \E v \in {""} \cup (IF n < Len(t.parts) THEN {t.parts[n + 1]} \ {"base"} ELSE {t.tail}) :
           c = [state |-> "cut", parts |-> SubSeq(t.parts, 1, n), tail |-> v]
  BY DEF Cuts
<1>2. t.parts \in Seq(Once) /\ t.tail \in Versions \cup {""}
  BY DEF TextsOf, Texts
<1>8. Len(t.parts) <= m /\ Len(t.parts) \in Nat
  BY <1>2, LenProperties DEF TextsOf
<1>3. \A i \in 1 .. Len(t.parts) : t.parts[i] \in Once
  BY <1>2, ElementOfSeq
<1>4. SubSeq(t.parts, 1, n) \in Seq(Once) /\ Len(SubSeq(t.parts, 1, n)) = n
  <2>1. \A i \in 1 .. n : t.parts[i] \in Once
    BY <1>8, <1>3
  <2> QED BY <2>1, SubSeqProperties
<1>5. PICK v : /\ v \in {""} \cup (IF n < Len(t.parts) THEN {t.parts[n + 1]} \ {"base"} ELSE {t.tail})
               /\ c = [state |-> "cut", parts |-> SubSeq(t.parts, 1, n), tail |-> v]
  BY <1>1
<1>6. v \in Versions \cup {""}
  <2>1. t.tail \in Versions \cup {""}
    BY <1>2
  <2>2. v = "" \/ v = t.tail \/ (n < Len(t.parts) /\ v = t.parts[n + 1])
    BY <1>5
  <2>3. n < Len(t.parts) => t.parts[n + 1] \in Versions
    BY <1>3, <1>8 DEF Once
  <2> QED BY <2>1, <2>2, <2>3
<1>7. n <= m
  BY <1>8
<1> QED BY <1>4, <1>5, <1>6, <1>7 DEF TextsOf, Texts

LEMMA CutState == ASSUME NEW t, NEW c \in Cuts(t) PROVE c.state = "cut"
<1>1. PICK n \in 0 .. Len(t.parts) :
        \E v \in {""} \cup (IF n < Len(t.parts) THEN {t.parts[n + 1]} \ {"base"} ELSE {t.tail}) :
           c = [state |-> "cut", parts |-> SubSeq(t.parts, 1, n), tail |-> v]
  BY DEF Cuts
<1>2. PICK v : c = [state |-> "cut", parts |-> SubSeq(t.parts, 1, n), tail |-> v]
  BY <1>1
<1> QED BY <1>2

-----------------------------------------------------------------------------
(* The inductive invariant                                                   *)

(* The trees: every text is one its file may hold, with no edit twice.      *)
Trees == [Files -> Texts]
TreesOK ==
    /\ text \in Trees /\ head \in Trees
    /\ \A f \in Files : text[f] \in TextOf(f) /\ head[f] \in TextOf(f)

(* The runs: the patcher running is at hand and at one of its edits.        *)
RunOK ==
    /\ hand \in SUBSET Scripts /\ settled \subseteq hand
    /\ run.script \in hand \cup {"none"}
    /\ run.script \in Scripts => run.step \in 1 .. (Len(Edits[run.script]) + 1)
    /\ run = [script |-> run.script, mode |-> run.mode, step |-> run.step, failed |-> run.failed]
    /\ last \in [script : Scripts \cup {"none"}, code : Codes]
    /\ kills \in 0 .. MaxKills /\ commits \in 0 .. MaxCommits

CInv == TreesOK /\ RunOK

LEMMA ScriptNames == Scripts = {"plan093", "plan094", "kernel", "fixes", "fixes2"}
BY DEF Scripts, Edits

(* A script is a sequence of edits, each in the table.                      *)
LEMMA EditsOf ==
    ASSUME NEW s \in Scripts
    PROVE  /\ Len(Edits[s]) \in Nat \ {0} /\ DOMAIN Edits[s] = 1 .. Len(Edits[s])
           /\ \A i \in 1 .. Len(Edits[s]) : TableOf(Edits[s][i])
<1>1. Len(Edits[s]) \in Nat \ {0} /\ DOMAIN Edits[s] = 1 .. Len(Edits[s])
  BY ScriptNames DEF Edits, Fixes
<1> QED BY <1>1, EditTable

LEMMA UntouchedText == \A f \in Files : Untouched(f) \in TextOf(f)
<1> SUFFICES ASSUME NEW f \in Files PROVE Untouched(f) \in TextOf(f)
  OBVIOUS
<1>1. Regions[f] \in Nat
  BY RegionsAreNat
<1>2. CASE f \in {"spool", "tests"}
  <2>1. Absent \in Texts /\ Len(Absent.parts) = 0 /\ Absent.state = "absent"
    BY DEF Absent, Texts
  <2> QED BY <1>1, <1>2, <2>1 DEF Untouched, TextOf, TextsOf
<1>3. CASE f \notin {"spool", "tests"}
  <2> DEFINE q == [i \in 1 .. Regions[f] |-> "base"]
  <2>1. q \in [1 .. Regions[f] -> Once]
    BY DEF Once, Versions
  <2>2. Untouched(f) = Whole(q)
    BY <1>3 DEF Untouched
  <2> HIDE DEF q
  <2>3. q \in Seq(Once) /\ Len(q) = Regions[f]
    BY <1>1, <2>1, FunctionIsSeq
  <2> QED BY <1>1, <2>2, <2>3, WholeText DEF TextOf
<1> QED BY <1>2, <1>3

LEMMA LeftText ==
    /\ Residue("coverage") \in TextOf("coverage")
    /\ Residue("emit") \in TextOf("emit") /\ ByHand \in TextOf("emit")
<1>1. Regions["coverage"] = 2 /\ Regions["emit"] = 5
  BY DEF Regions
<1>2. <<"v1", "plan093">> \in Seq(Once)
  BY DEF Once, Versions
<1>3. /\ <<"plan093", "base", "base", "v1", "base">> \in Seq(Once)
      /\ <<"base", "some", "base", "base", "base">> \in Seq(Once)
  BY DEF Once, Versions
<1>4. Whole(<<"v1", "plan093">>) \in TextsOf(2)
  BY <1>2, WholeText
<1>5. /\ Whole(<<"plan093", "base", "base", "v1", "base">>) \in TextsOf(5)
      /\ Whole(<<"base", "some", "base", "base", "base">>) \in TextsOf(5)
  BY <1>3, WholeText
<1> QED BY <1>1, <1>4, <1>5 DEF Residue, ByHand, TextOf

LEMMA CeremonyInit == Init => CInv
<1> SUFFICES ASSUME Init PROVE CInv
  OBVIOUS
<1>1. \A f \in Files : TextOf(f) \subseteq Texts
  BY DEF TextOf, TextsOf
<1>2. head \in Trees /\ \A f \in Files : head[f] \in TextOf(f)
  BY <1>1, UntouchedText DEF Init, Trees
<1>3. text \in Trees /\ \A f \in Files : text[f] \in TextOf(f)
  <2>1. "emit" \in Files /\ "coverage" \in Files
    BY DEF Files, Regions
  <2>2. PICK left \in SUBSET {"coverage", "emit"} :
          \/ text = [f \in Files |-> IF f \in left THEN Residue(f) ELSE Untouched(f)]
          \/ text = [head EXCEPT !.emit = ByHand]
    BY DEF Init
  <2>3. CASE text = [f \in Files |-> IF f \in left THEN Residue(f) ELSE Untouched(f)]
    <3>1. \A f \in left : Residue(f) \in TextOf(f)
      BY LeftText
    <3> QED BY <1>1, <2>3, <3>1, UntouchedText DEF Trees
  <2>4. CASE text = [head EXCEPT !.emit = ByHand]
    BY <1>1, <1>2, <2>1, <2>4, LeftText DEF Trees
  <2> QED BY <2>2, <2>3, <2>4
<1>4. RunOK
  BY ScriptNames, CeremoniesAssumption, BoundsAssumption DEF Init, RunOK, Idle, Codes
<1> QED BY <1>2, <1>3, <1>4 DEF CInv, TreesOK

(* The edit the running patcher is at, and a text it may leave in its file. *)
LEMMA EditInHand ==
    ASSUME RunOK, run.script \in Scripts, run.step <= Len(Edits[run.script])
    PROVE  TableOf(Edits[run.script][run.step])
<1>1. run.step \in 1 .. Len(Edits[run.script])
  BY EditsOf DEF RunOK
<1> QED BY <1>1, EditsOf

LEMMA FileReplaced ==
    ASSUME TreesOK, NEW f \in Files, NEW t \in TextOf(f), text' = [text EXCEPT ![f] = t], head' = head
    PROVE  TreesOK'
<1>1. t \in Texts
  BY DEF TextOf, TextsOf
<1>2. text' \in Trees
  BY <1>1 DEF TreesOK, Trees
<1>3. \A g \in Files : text'[g] \in TextOf(g)
  BY DEF TreesOK, Trees
<1> QED BY <1>2, <1>3 DEF TreesOK

LEMMA LosesSome == \A f : Loses(f) \subseteq settled
BY DEF Loses

LEMMA CeremonyStep == CInv /\ [Next]_vars => CInv'
<1> SUFFICES ASSUME CInv, [Next]_vars PROVE CInv'
  OBVIOUS
<1>0. TreesOK /\ RunOK
  BY DEF CInv
<1>n. "none" \notin Scripts
  BY ScriptNames
<1>1. ASSUME NEW s \in hand, NEW mode \in Modes \cup {"plain"}, Start(s, mode) PROVE CInv'
  <2>1. s \in Scripts /\ UNCHANGED <<hand, text, head, kills, commits, settled>>
    BY <1>0, <1>1 DEF Start, RunOK
  <2>2. CASE Ends(s, "1")
    BY <1>0, <1>n, <2>1, <2>2 DEF CInv, TreesOK, RunOK, Ends, Idle, Codes
  <2>3. CASE run' = [script |-> s, mode |-> mode, step |-> 1, failed |-> 0] /\ UNCHANGED last
    <3>1. 1 \in 1 .. (Len(Edits[s]) + 1)
      BY <2>1, EditsOf
    <3> QED BY <1>0, <2>1, <2>3, <3>1 DEF CInv, TreesOK, RunOK
  <2> QED BY <1>1, <2>2, <2>3 DEF Start
<1>2. CASE Step
  <2> DEFINE s == run.script
             e == Edits[s][run.step]
  <2>1. /\ s \in Scripts /\ run.step <= Len(Edits[s]) /\ Write(e)
        /\ UNCHANGED <<hand, head, kills, commits, ready>>
    BY <1>2 DEF Step
  <2>2. \/ run' = Idle /\ \E code \in Codes : last' = [script |-> s, code |-> code]
        \/ \E n : run' = [run EXCEPT !.step = @ + 1, !.failed = @ + n] /\ UNCHANGED last
    BY <1>2 DEF Step, Ends, Codes
  <2>3. TableOf(e)
    BY <1>0, <2>1, EditInHand
  <2> HIDE DEF e
  <2>4. TreesOK' /\ settled' \subseteq settled
    <3>1. CASE Outcome(text[e.file], e) = "applied" /\ run.mode # "dry"
      <4>1. e.file \in Files /\ text[e.file] \in TextOf(e.file)
        BY <1>0, <2>3 DEF TableOf, TreesOK
      <4>2. Edited(text[e.file], e) \in TextOf(e.file)
        BY <2>3, <3>1, <4>1, EditedText
      <4>3. text' = [text EXCEPT ![e.file] = Edited(text[e.file], e)] /\ settled' = Loses(e.file)
        BY <2>1, <3>1 DEF Write
      <4> QED BY <1>0, <2>1, <4>1, <4>2, <4>3, FileReplaced, LosesSome
    <3>2. CASE ~(Outcome(text[e.file], e) = "applied" /\ run.mode # "dry")
      BY <1>0, <2>1, <3>2 DEF Write, TreesOK
    <3> QED BY <3>1, <3>2
  <2>5. RunOK'
    <3>1. CASE run' = Idle /\ \E code \in Codes : last' = [script |-> s, code |-> code]
      BY <1>0, <1>n, <2>1, <2>4, <3>1 DEF RunOK, Idle
    <3>2. CASE \E n : run' = [run EXCEPT !.step = @ + 1, !.failed = @ + n] /\ UNCHANGED last
      <4>1. run.step + 1 \in 1 .. (Len(Edits[s]) + 1)
        BY <1>0, <2>1, EditsOf DEF RunOK
      <4>2. /\ run'.script = run.script /\ run'.step = run.step + 1
            /\ run' = [script |-> run'.script, mode |-> run'.mode, step |-> run'.step, failed |-> run'.failed]
        BY <1>0, <3>2 DEF RunOK
      <4> QED BY <1>0, <2>1, <2>4, <3>2, <4>1, <4>2 DEF RunOK
    <3> QED BY <2>2, <3>1, <3>2
  <2> QED BY <2>4, <2>5 DEF CInv
<1>3. CASE NoDraft
  <2>1. "plan094" \in Scripts
    BY ScriptNames
  <2> QED BY <1>0, <1>3, <1>n, <2>1 DEF NoDraft, Ends, CInv, TreesOK, RunOK, Idle, Codes
<1>4. CASE Finish
  <2>1. /\ run.script \in Scripts /\ run' = Idle
        /\ \E code \in Codes : last' = [script |-> run.script, code |-> code]
        /\ settled' \subseteq settled \cup {run.script}
        /\ UNCHANGED <<hand, text, head, kills, commits>>
    BY <1>4 DEF Finish, Ends, Codes
  <2> QED BY <1>0, <1>n, <2>1 DEF CInv, TreesOK, RunOK, Idle
<1>5. CASE Kill
  <2> DEFINE s == run.script
             e == Edits[s][run.step]
  <2>1. /\ s \in Scripts /\ kills < MaxKills /\ kills' = kills + 1
        /\ run' = Idle /\ last' = [script |-> s, code |-> "killed"]
        /\ UNCHANGED <<hand, head, commits>>
    BY <1>5 DEF Kill, Ends
  <2>2. TreesOK' /\ settled' \subseteq settled
    <3>1. CASE UNCHANGED <<text, settled>>
      BY <1>0, <2>1, <3>1 DEF TreesOK
    <3>2. CASE /\ run.step <= Len(Edits[s]) /\ Outcome(text[e.file], e) = "applied"
               /\ \E t \in Cuts(Edited(text[e.file], e)) : text' = [text EXCEPT ![e.file] = t]
               /\ settled' = Loses(e.file)
      <4>1. TableOf(e)
        BY <1>0, <2>1, <3>2, EditInHand
      <4> HIDE DEF e
      <4>2. e.file \in Files /\ text[e.file] \in TextOf(e.file) /\ Regions[e.file] \in Nat
        BY <1>0, <4>1, RegionsAreNat DEF TableOf, TreesOK
      <4>3. Edited(text[e.file], e) \in TextOf(e.file)
        BY <3>2, <4>1, <4>2, EditedText
      <4>4. PICK t \in Cuts(Edited(text[e.file], e)) : text' = [text EXCEPT ![e.file] = t]
        BY <3>2
      <4>5. t \in TextOf(e.file)
        BY <4>2, <4>3, CutText DEF TextOf
      <4> QED BY <1>0, <2>1, <3>2, <4>2, <4>4, <4>5, FileReplaced, LosesSome
    <3> QED BY <1>5, <3>1, <3>2 DEF Kill
  <2>3. RunOK'
    BY <1>0, <1>n, <2>1, <2>2, BoundsAssumption DEF RunOK, Idle, Codes
  <2> QED BY <2>2, <2>3 DEF CInv
<1>6. CASE Restore
  <2>1. PICK lost \in SUBSET FilesOf(last.script) :
          /\ text' = [f \in Files |-> IF f \in lost THEN head[f] ELSE text[f]]
          /\ settled' \subseteq settled
          /\ UNCHANGED <<hand, head, run, last, kills, commits>>
    BY <1>6 DEF Restore
  <2>2. TreesOK'
    BY <1>0, <2>1 DEF TreesOK, Trees
  <2> QED BY <1>0, <2>1, <2>2 DEF CInv, RunOK
<1>7. CASE Commit
  BY <1>0, <1>7, BoundsAssumption DEF Commit, CInv, TreesOK, RunOK
<1>8. CASE Prepare
  BY <1>0, <1>8 DEF Prepare, CInv, TreesOK, RunOK
<1>9. CASE UNCHANGED vars
  BY <1>0, <1>9 DEF vars, CInv, TreesOK, RunOK
<1> QED BY <1>1, <1>2, <1>3, <1>4, <1>5, <1>6, <1>7, <1>8, <1>9 DEF Next

LEMMA CeremonyHolds == Spec => []CInv
BY CeremonyInit, CeremonyStep, PTL DEF Spec

-----------------------------------------------------------------------------
(* No edit is stacked on itself, whatever was killed, restored, committed   *)
(* or run again (the skip of each edit).                                    *)
THEOREM EditedOnce == Spec => []NeverTwice
<1>1. CInv => NeverTwice
  <2> SUFFICES ASSUME CInv, NEW f \in Files, NEW i \in DOMAIN text[f].parts
               PROVE  text[f].parts[i] # "twice"
    BY DEF NeverTwice
  <2>1. text[f].parts \in Seq(Once)
    BY DEF CInv, TreesOK, TextOf, TextsOf, Texts
  <2>2. text[f].parts[i] \in Once
    BY <2>1
  <2> QED BY <2>2 DEF Once
<1> QED BY <1>1, CeremonyHolds, PTL

(* The types of the ceremonies' state.                                      *)
THEOREM CeremonyTypes == Spec => []TypeOK
<1>1. CInv => TypeOK
  <2> SUFFICES ASSUME CInv PROVE TypeOK
    OBVIOUS
  <2>1. ASSUME NEW f \in Files
        PROVE  /\ text[f].state \in {"absent", "cut", "whole"}
               /\ text[f].parts \in Seq(Versions) /\ Len(text[f].parts) <= Regions[f]
               /\ text[f].state = "whole" => Len(text[f].parts) = Regions[f]
               /\ text[f].tail \in Versions \cup {""}
    <3>1. text[f] \in TextsOf(Regions[f])
      BY DEF CInv, TreesOK, TextOf
    <3>2. text[f].parts \in Seq(Once) /\ Once \subseteq Versions
      BY <3>1 DEF TextsOf, Texts, Once
    <3>3. text[f].parts \in Seq(Versions)
      BY <3>2, SeqMonotonic
    <3> QED BY <3>1, <3>3 DEF TextsOf, Texts
  <2> QED BY <2>1 DEF TypeOK, CInv, RunOK
<1> QED BY <1>1, CeremonyHolds, PTL

-----------------------------------------------------------------------------
(* Edits of one file                                                         *)

AllEdits ==
    {CoverageEdit, SessionEdit, LoaderEdit, TransportEdit, RailEdit, EmitEdit, SpoolEdit,
     EntriesEdit, TestsEdit, SettingsEdit, BranchEdit, ReadGateEdit, WriteGateEdit, SectionFix,
     BranchFix, HelpersFix, WriteGateFix, SectionFix2}

LEMMA EditIsOneOf == \A s \in Scripts : \A i \in DOMAIN Edits[s] : Edits[s][i] \in AllEdits
<1> SUFFICES ASSUME NEW s \in Scripts, NEW i \in DOMAIN Edits[s] PROVE Edits[s][i] \in AllEdits
  OBVIOUS
<1>1. CASE s = "plan093"
  BY <1>1 DEF Edits, AllEdits
<1>2. CASE s = "plan094"
  BY <1>2 DEF Edits, AllEdits
<1>3. CASE s = "kernel"
  BY <1>3 DEF Edits, AllEdits
<1>4. CASE s = "fixes"
  BY <1>4 DEF Edits, Fixes, AllEdits
<1>5. CASE s = "fixes2"
  BY <1>5 DEF Edits, AllEdits
<1> QED BY <1>1, <1>2, <1>3, <1>4, <1>5, ScriptNames

(* Two edits of one file replace different regions, or a single region each.*)
Apart(d, e) == d.at \cap e.at = {} /\ d.from # "none" /\ e.from # "none"
Alone(d) == d.from # "none" /\ \E j \in Nat : d.at = {j}
LEMMA SameFile == \A d, e \in AllEdits : d.file = e.file => d = e \/ Apart(d, e) \/ (Alone(d) /\ Alone(e))
<1> USE DEF CoverageEdit, SessionEdit, LoaderEdit, TransportEdit, RailEdit, EmitEdit, SpoolEdit,
     EntriesEdit, TestsEdit, SettingsEdit, BranchEdit, ReadGateEdit, WriteGateEdit, SectionFix,
     BranchFix, HelpersFix, WriteGateFix, SectionFix2, Edit
<1> SUFFICES ASSUME NEW d \in AllEdits, NEW e \in AllEdits, d.file = e.file
             PROVE  d = e \/ Apart(d, e) \/ (Alone(d) /\ Alone(e))
  OBVIOUS
<1>1. CASE d.file \notin {"emit", "safety", "shim"}
  BY <1>1 DEF AllEdits
<1>2. CASE d.file = "emit"
  <2>1. d \in {EmitEdit, EntriesEdit}
    BY <1>2 DEF AllEdits
  <2>3. e.file = "emit"
    BY <1>2
  <2>2. e \in {EmitEdit, EntriesEdit}
    BY <2>3 DEF AllEdits
  <2> QED BY <2>1, <2>2 DEF Apart
<1>3. CASE d.file \in {"safety", "shim"}
  <2>1. d \in {SectionFix, BranchFix, BranchEdit, SectionFix2, ReadGateEdit, WriteGateEdit, HelpersFix, WriteGateFix}
    BY <1>3 DEF AllEdits
  <2>2. Alone(d)
    BY <2>1 DEF Alone
  <2>3. e \in {SectionFix, BranchFix, BranchEdit, SectionFix2, ReadGateEdit, WriteGateEdit, HelpersFix, WriteGateFix}
    BY <1>3 DEF AllEdits
  <2>4. Alone(e)
    BY <2>3 DEF Alone
  <2> QED BY <2>2, <2>4
<1> QED BY <1>1, <1>2, <1>3

(* Within one patcher they never overlap.                                   *)
LEMMA SameScript ==
    \A s \in Scripts : \A i, j \in DOMAIN Edits[s] :
        i # j /\ Edits[s][i].file = Edits[s][j].file => Apart(Edits[s][i], Edits[s][j])
<1> USE DEF CoverageEdit, SessionEdit, LoaderEdit, TransportEdit, RailEdit, EmitEdit, SpoolEdit,
     EntriesEdit, TestsEdit, SettingsEdit, BranchEdit, ReadGateEdit, WriteGateEdit, SectionFix,
     BranchFix, HelpersFix, WriteGateFix, SectionFix2, Edit, Apart
<1> SUFFICES ASSUME NEW s \in Scripts, NEW i \in DOMAIN Edits[s], NEW j \in DOMAIN Edits[s],
                    i # j, Edits[s][i].file = Edits[s][j].file
             PROVE  Apart(Edits[s][i], Edits[s][j])
  OBVIOUS
<1>1. CASE s = "plan093"
  BY <1>1 DEF Edits
<1>2. CASE s = "plan094"
  BY <1>2 DEF Edits
<1>3. CASE s = "kernel"
  BY <1>3 DEF Edits
<1>4. CASE s = "fixes"
  BY <1>4 DEF Edits, Fixes
<1>5. CASE s = "fixes2"
  BY <1>5 DEF Edits
<1> QED BY <1>1, <1>2, <1>3, <1>4, <1>5, ScriptNames

-----------------------------------------------------------------------------
(* What an edit does to its own and to the other edits of a file             *)

LEMMA EditKeepsMarks ==
    ASSUME NEW f \in Files, NEW t \in TextOf(f), NEW e, TableOf(e), e.from # "none",
           Outcome(t, e) = "applied"
    PROVE  LET u == Edited(t, e) IN
           /\ u.state = t.state /\ u.tail = t.tail /\ Len(u.parts) = Len(t.parts)
           /\ DOMAIN u.parts = DOMAIN t.parts
           /\ \A i \in e.at : i \in DOMAIN t.parts /\ u.parts[i] = e.to /\ t.parts[i] # "v1"
           /\ \A i \in DOMAIN t.parts \ e.at : u.parts[i] = t.parts[i]
<1> DEFINE p == [i \in DOMAIN t.parts |->
                   IF i \notin e.at THEN t.parts[i] ELSE IF t.parts[i] = e.to THEN "twice" ELSE e.to]
<1>1. t \in Texts /\ t.parts \in Seq(Once)
  BY DEF TextOf, TextsOf, Texts
<1>2. Edited(t, e) = [t EXCEPT !.parts = p]
  BY DEF Edited
<1>3. Edited(t, e).state = t.state /\ Edited(t, e).tail = t.tail /\ Edited(t, e).parts = p
  BY <1>1, <1>2 DEF Texts
<1>4. Anchored(t, e)
  BY DEF Outcome
<1>5. \A i \in e.at : i \in DOMAIN t.parts /\ t.parts[i] # e.to /\ t.parts[i] = e.from
  BY <1>4, AppliedOnce DEF Anchored, Has
<1>6. p \in [1 .. Len(t.parts) -> Once \cup {"twice"}] /\ Len(t.parts) \in Nat
  BY <1>1, LenProperties DEF TableOf, Once
<1>7. Len(p) = Len(t.parts)
  BY <1>6, FunctionIsSeq
<1> HIDE DEF p
<1>8. \A i \in DOMAIN t.parts : p[i] = (IF i \notin e.at THEN t.parts[i] ELSE IF t.parts[i] = e.to THEN "twice" ELSE e.to)
  BY DEF p
<1>9. DOMAIN p = DOMAIN t.parts
  BY DEF p
<1> QED BY <1>3, <1>5, <1>7, <1>8, <1>9 DEF TableOf

(* Once made, an edit is found made.                                        *)
LEMMA OwnSkipped ==
    ASSUME NEW f \in Files, NEW t \in TextOf(f), NEW e, TableOf(e), e.file = f,
           Outcome(t, e) = "applied"
    PROVE  Outcome(Edited(t, e), e) = "skipped" /\ Landed(Edited(t, e), e)
<1> DEFINE u == Edited(t, e)
<1>1. ~LeftByV1(t, e)
  BY DEF Outcome
<1>2. CASE e.from = "none"
  <2> DEFINE q == [i \in e.at |-> e.to]
  <2>1. u = [state |-> "whole", parts |-> q, tail |-> ""]
    BY <1>2 DEF Edited, Whole
  <2> HIDE DEF q, u
  <2>6. u.parts = q /\ u.state = "whole"
    BY <2>1
  <2>2. u.parts = [i \in e.at |-> e.to] /\ u.state = "whole"
    BY <2>6 DEF q
  <2>3. Landed(u, e) /\ ~LeftByV1(u, e)
    BY <2>2 DEF Landed, Has, LeftByV1, TableOf
  <2>4. Marked(u, e)
    BY <2>3 DEF Landed, Marked, TableOf
  <2>5. Skipped(u, e)
    BY <1>2, <2>2, <2>4 DEF Skipped, TableOf
  <2> QED BY <2>3, <2>5 DEF Outcome, u
<1>3. CASE e.from # "none"
  <2>1. /\ DOMAIN u.parts = DOMAIN t.parts
        /\ \A i \in e.at : i \in DOMAIN t.parts /\ u.parts[i] = e.to
        /\ \A i \in DOMAIN t.parts \ e.at : u.parts[i] = t.parts[i]
    BY <1>3, EditKeepsMarks
  <2> HIDE DEF u
  <2>2. Landed(u, e)
    BY <2>1 DEF Landed, Has
  <2>3. ~LeftByV1(u, e)
    BY <1>1, <2>1 DEF LeftByV1, TableOf
  <2>4. Marked(u, e)
    BY <2>2 DEF Landed, Marked, TableOf
  <2>5. Skipped(u, e)
    BY <1>3, <2>2, <2>4 DEF Skipped, TableOf
  <2> QED BY <2>2, <2>3, <2>5 DEF Outcome, u
<1> QED BY <1>2, <1>3

(* An edit leaves what was found of the others of its file.                 *)
LEMMA OthersKept ==
    ASSUME NEW f \in Files, NEW t \in TextOf(f), NEW e, TableOf(e), e.file = f,
           Outcome(t, e) = "applied", NEW d, TableOf(d), Apart(d, e)
    PROVE  /\ Outcome(Edited(t, e), d) = "skipped" <=> Outcome(t, d) = "skipped"
           /\ Landed(Edited(t, e), d) <=> Landed(t, d)
<1> DEFINE u == Edited(t, e)
<1>1. /\ u.state = t.state /\ u.tail = t.tail /\ Len(u.parts) = Len(t.parts)
      /\ DOMAIN u.parts = DOMAIN t.parts
      /\ \A i \in e.at : i \in DOMAIN t.parts /\ u.parts[i] = e.to /\ t.parts[i] # "v1"
      /\ \A i \in DOMAIN t.parts \ e.at : u.parts[i] = t.parts[i]
  BY EditKeepsMarks DEF Apart
<1> HIDE DEF u
<1>2. \A i \in d.at : \A v : Has(u, i, v) <=> Has(t, i, v)
  BY <1>1 DEF Has, Apart
<1>3. Landed(u, d) <=> Landed(t, d)
  BY <1>2 DEF Landed
<1>4. Marked(u, d) <=> Marked(t, d)
  BY <1>1, <1>2 DEF Marked
<1>5. LeftByV1(u, d) <=> LeftByV1(t, d)
  BY <1>1 DEF LeftByV1, TableOf
<1>6. Skipped(u, d) <=> Skipped(t, d)
  BY <1>1, <1>3, <1>4 DEF Skipped, TableOf
<1> QED BY <1>3, <1>5, <1>6 DEF Outcome, u

-----------------------------------------------------------------------------
(* What a run that exits 0 leaves                                            *)

Found(t, e) == Outcome(t[e.file], e) = "skipped"

(* A marker in a whole text stands for all the regions of its edit.         *)
WholeIn(tree) ==
    \A s \in Scripts : \A i \in DOMAIN Edits[s] :
        LET e == Edits[s][i] IN
        tree[e.file].state = "whole" /\ Found(tree, e) => Landed(tree[e.file], e)

(* The edits of the patchers that settled, and those behind a run that has  *)
(* not failed yet, are found made.                                          *)
FoundInv ==
    /\ run.failed \in Nat
    /\ WholeIn(text) /\ WholeIn(head)
    /\ \A s \in settled : \A i \in DOMAIN Edits[s] : Found(text, Edits[s][i])
    /\ run.script \in Scripts /\ run.mode # "dry" /\ run.failed = 0 =>
          \A i \in DOMAIN Edits[run.script] : i < run.step => Found(text, Edits[run.script][i])

(* An edit that is made leaves the tree with markers that can be relied on. *)
LEMMA WholeKept ==
    ASSUME TreesOK, WholeIn(text), NEW e \in AllEdits, TableOf(e), Outcome(text[e.file], e) = "applied",
           text' = [text EXCEPT ![e.file] = Edited(@, e)]
    PROVE  WholeIn(text')
<1> DEFINE f == e.file
<1>1. f \in Files /\ text[f] \in TextOf(f) /\ text'[f] = Edited(text[f], e)
      /\ \A g \in Files \ {f} : text'[g] = text[g]
  BY DEF TableOf, TreesOK, Trees
<1> SUFFICES ASSUME NEW s \in Scripts, NEW i \in DOMAIN Edits[s],
                    text'[Edits[s][i].file].state = "whole", Found(text', Edits[s][i])
             PROVE  Landed(text'[Edits[s][i].file], Edits[s][i])
  BY DEF WholeIn
<1> DEFINE d == Edits[s][i]
<1>2. TableOf(d) /\ d \in AllEdits
  BY EditTable, EditIsOneOf
<1>3. text[d.file].state = "whole" /\ Found(text, d) => Landed(text[d.file], d)
  BY DEF WholeIn
<1> HIDE DEF d
<1>4. text'[d.file].state = "whole" /\ Found(text', d)
  BY DEF d
<1>5. CASE d.file # f
  BY <1>1, <1>2, <1>3, <1>4, <1>5 DEF Found, TableOf, d
<1>6. CASE d = e
  BY <1>1, <1>6, OwnSkipped DEF d
<1>7. CASE d.file = f /\ Apart(d, e)
  <2>1. text'[f].state = text[f].state
    BY <1>1, <1>7, EditKeepsMarks DEF Apart
  <2>2. Outcome(text'[f], d) = "skipped" <=> Outcome(text[f], d) = "skipped"
    BY <1>1, <1>2, <1>7, OthersKept
  <2>3. Landed(text'[f], d) <=> Landed(text[f], d)
    BY <1>1, <1>2, <1>7, OthersKept
  <2> QED BY <1>3, <1>4, <1>7, <2>1, <2>2, <2>3 DEF Found, d
<1>8. CASE d.file = f /\ Alone(d)
  <2>1. PICK j \in Nat : d.at = {j}
    BY <1>8 DEF Alone
  <2>2. CASE d.skip \in {"text", "entries"}
    BY <1>4, <2>2 DEF Found, Outcome, Skipped, d
  <2>3. CASE d.skip = "marker"
    <3>1. Marked(text'[f], d)
      BY <1>4, <1>8, <2>3 DEF Found, Outcome, Skipped
    <3>2. j \in 1 .. Regions[f] /\ Regions[f] \in Nat
      BY <1>1, <1>2, <1>8, <2>1, RegionsAreNat DEF TableOf
    <3>3. Edited(text[f], e) \in TextsOf(Regions[f])
      BY <1>1, EditedText DEF TextOf
    <3>4. Len(text'[f].parts) = Regions[f]
      BY <1>1, <1>4, <1>8, <3>3 DEF TextsOf
    <3>5. j # Len(text'[f].parts) + 1
      BY <3>2, <3>4
    <3>6. Has(text'[f], j, d.to)
      BY <2>1, <3>1, <3>5 DEF Marked
    <3> QED BY <1>8, <2>1, <3>6 DEF Landed, d
  <2> QED BY <1>2, <1>8, <2>2, <2>3 DEF TableOf, Alone
<1> QED BY <1>1, <1>2, <1>5, <1>6, <1>7, <1>8, SameFile

(* No text starts with the mark of an edit, but where v1 left it.           *)
StartOf(e) ==
    /\ e.to # "base" /\ e.to # "" /\ e.to # "some"
    /\ e.from = "none" => e.file \in {"spool", "tests"}
    /\ e.file \in {"coverage", "emit"} /\ e.skip = "marker" => e.to = "plan093"
LEMMA StartTable == \A e \in AllEdits : StartOf(e)
<1> USE DEF CoverageEdit, SessionEdit, LoaderEdit, TransportEdit, RailEdit, EmitEdit, SpoolEdit,
     EntriesEdit, TestsEdit, SettingsEdit, BranchEdit, ReadGateEdit, WriteGateEdit, SectionFix,
     BranchFix, HelpersFix, WriteGateFix, SectionFix2, Edit
<1> SUFFICES ASSUME NEW e \in AllEdits PROVE StartOf(e)
  OBVIOUS
<1>1. e.to \in {"plan093", "plan094", "kernel", "fixes", "fixes2"}
  BY DEF AllEdits
<1>2. e.from = "none" => e.file \in {"spool", "tests"}
  BY DEF AllEdits
<1>3. e.file \in {"coverage", "emit"} /\ e.skip = "marker" => e.to = "plan093"
  BY DEF AllEdits
<1> QED BY <1>1, <1>2, <1>3 DEF StartOf

LEMMA FoundInit == Init => FoundInv
<1> SUFFICES ASSUME Init PROVE FoundInv
  OBVIOUS
<1> DEFINE Starts(t, e) == t.state = "whole" /\ Outcome(t, e) = "skipped" => Landed(t, e)
<1>1. ASSUME NEW e \in AllEdits, TableOf(e) PROVE Starts(Untouched(e.file), e)
  <2>1. StartOf(e)
    BY StartTable
  <2>2. CASE e.file \in {"spool", "tests"}
    BY <2>2 DEF Untouched, Absent
  <2>3. CASE e.file \notin {"spool", "tests"} /\ e.skip = "marker"
    <3> DEFINE t == Untouched(e.file)
    <3>1. t.tail = "" /\ t.parts = [i \in 1 .. Regions[e.file] |-> "base"]
      BY <2>3 DEF Untouched, Whole
    <3> HIDE DEF t
    <3>2. ~Marked(t, e)
      BY <2>1, <3>1 DEF Marked, Has, StartOf
    <3> QED BY <2>3, <3>2 DEF Outcome, Skipped, t
  <2>4. CASE e.skip \in {"text", "entries"}
    BY <2>4 DEF Outcome, Skipped
  <2> QED BY <1>1, <2>1, <2>2, <2>3, <2>4 DEF TableOf, StartOf
<1>2. ASSUME NEW e \in AllEdits, TableOf(e), e.file \in {"coverage", "emit"}
      PROVE  Starts(Residue(e.file), e) /\ (e.file = "emit" => Starts(ByHand, e))
  <2>1. StartOf(e)
    BY StartTable
  <2>2. CASE e.skip = "marker"
    <3>1. LeftByV1(Residue("coverage"), e) /\ LeftByV1(Residue("emit"), e)
      <4>1. e.to = "plan093"
        BY <1>2, <2>1, <2>2 DEF StartOf
      <4>2. Residue("coverage").parts = <<"v1", "plan093">>
        BY DEF Residue, Whole
      <4>3. Residue("emit").parts = <<"plan093", "base", "base", "v1", "base">>
        BY DEF Residue, Whole
      <4>4. 1 \in DOMAIN Residue("coverage").parts /\ Residue("coverage").parts[1] = "v1"
        BY <4>2
      <4>5. 4 \in DOMAIN Residue("emit").parts /\ Residue("emit").parts[4] = "v1"
        BY <4>3
      <4> QED BY <4>1, <4>4, <4>5 DEF LeftByV1
    <3>2. ~Marked(ByHand, e)
      <4>1. ByHand.parts = <<"base", "some", "base", "base", "base">> /\ ByHand.tail = ""
        BY DEF ByHand, Whole
      <4>2. \A i \in DOMAIN ByHand.parts : ByHand.parts[i] \in {"base", "some"}
        <5> DEFINE q == <<"base", "some", "base", "base", "base">>
        <5>1. DOMAIN q = 1 .. 5 /\ q[1] = "base" /\ q[2] = "some" /\ q[3] = "base" /\ q[4] = "base" /\ q[5] = "base"
          OBVIOUS
        <5> HIDE DEF q
        <5>2. \A i \in DOMAIN q : q[i] \in {"base", "some"}
          BY <5>1
        <5> QED BY <4>1, <5>2 DEF q
      <4> QED BY <2>1, <4>1, <4>2 DEF Marked, Has, StartOf
    <3> QED BY <1>2, <2>2, <3>1, <3>2 DEF Outcome, Skipped
  <2>3. CASE e.skip \in {"text", "entries"}
    BY <2>3 DEF Outcome, Skipped
  <2> QED BY <1>2, <2>1, <2>2, <2>3 DEF TableOf, StartOf
<1>3. \A e \in AllEdits : TableOf(e) => Starts(head[e.file], e) /\ Starts(text[e.file], e)
  <2> SUFFICES ASSUME NEW e \in AllEdits, TableOf(e)
               PROVE  Starts(head[e.file], e) /\ Starts(text[e.file], e)
    OBVIOUS
  <2>1. e.file \in Files /\ head[e.file] = Untouched(e.file)
    BY DEF TableOf, Init
  <2>2. text[e.file] = Untouched(e.file) \/ (e.file \in {"coverage", "emit"} /\ text[e.file] = Residue(e.file))
        \/ (e.file = "emit" /\ text[e.file] = ByHand)
    <3>1. PICK left \in SUBSET {"coverage", "emit"} :
            \/ text = [f \in Files |-> IF f \in left THEN Residue(f) ELSE Untouched(f)]
            \/ text = [head EXCEPT !.emit = ByHand]
      BY DEF Init
    <3>2. head = [f \in Files |-> Untouched(f)]
      BY DEF Init
    <3> QED BY <2>1, <3>1, <3>2
  <2> HIDE DEF Starts
  <2> QED BY <1>1, <1>2, <2>1, <2>2
<1>4. WholeIn(text) /\ WholeIn(head)
  BY <1>3, EditTable, EditIsOneOf DEF WholeIn, Found
<1> QED BY <1>4, ScriptNames DEF Init, FoundInv, Idle

LEMMA FoundStep == CInv /\ CInv' /\ FoundInv /\ [Next]_vars => FoundInv'
<1> SUFFICES ASSUME CInv, CInv', FoundInv, [Next]_vars PROVE FoundInv'
  OBVIOUS
<1>0. TreesOK /\ RunOK
  BY DEF CInv
<1>n. "none" \notin Scripts /\ Idle.script = "none" /\ Idle.failed = 0
  BY ScriptNames DEF Idle
\* Where the texts stay, what was found in them is found again.
<1>s. ASSUME text' = text PROVE WholeIn(text') /\ \A e : Found(text', e) <=> Found(text, e)
  BY <1>s DEF FoundInv, WholeIn, Found
<1>1. ASSUME NEW s \in hand, NEW mode \in Modes \cup {"plain"}, Start(s, mode) PROVE FoundInv'
  <2>1. UNCHANGED <<text, head, settled>> /\ s \in Scripts
    BY <1>0, <1>1 DEF Start, RunOK
  <2>2. CASE run' = Idle
    BY <1>n, <1>s, <2>1, <2>2 DEF FoundInv
  <2>3. CASE run' = [script |-> s, mode |-> mode, step |-> 1, failed |-> 0]
    <3>1. \A i \in DOMAIN Edits[s] : ~(i < 1)
      BY <2>1, EditsOf
    <3> QED BY <1>s, <2>1, <2>3, <3>1 DEF FoundInv
  <2> QED BY <1>1, <2>2, <2>3 DEF Start, Ends
<1>2. CASE Step
  <2> DEFINE s == run.script
             k == run.step
             e == Edits[s][k]
             made == Outcome(text[e.file], e) = "applied" /\ run.mode # "dry"
  <2>1. s \in Scripts /\ k <= Len(Edits[s]) /\ Write(e) /\ UNCHANGED head
    BY <1>2 DEF Step
  <2>2. k \in DOMAIN Edits[s] /\ TableOf(e) /\ e \in AllEdits
    <3>1. k \in DOMAIN Edits[s]
      BY <1>0, <2>1, EditsOf DEF RunOK
    <3> QED BY <2>1, <3>1, EditTable, EditIsOneOf
  <2>3. e.file \in Files /\ text[e.file] \in TextOf(e.file)
    BY <1>0, <2>2 DEF TableOf, TreesOK
  <2>4. /\ made => text' = [text EXCEPT ![e.file] = Edited(@, e)] /\ settled' = Loses(e.file)
        /\ ~made => UNCHANGED <<text, settled>>
    BY <2>1 DEF Write
  <2>5. \/ run' = Idle
        \/ /\ run'.script = s /\ run'.mode = run.mode /\ run'.step = k + 1
           /\ run'.failed \in Nat
           /\ run'.failed = 0 /\ run.mode # "dry" => run.failed = 0 /\ Outcome(text[e.file], e) # "failed"
    <3> DEFINE failed == /\ Outcome(text[e.file], e) = "failed"
                         /\ run.mode = "dry" => InPart(text[e.file], e)
    <3>1. run' = Idle \/ run' = [run EXCEPT !.step = @ + 1, !.failed = @ + (IF failed THEN 1 ELSE 0)]
      BY <1>2 DEF Step, Ends
    <3>2. run.failed \in Nat
      BY DEF FoundInv
    <3> HIDE DEF failed
    <3>3. CASE run' = [run EXCEPT !.step = @ + 1, !.failed = @ + (IF failed THEN 1 ELSE 0)]
      <4>1. /\ run'.script = s /\ run'.mode = run.mode /\ run'.step = k + 1
            /\ run'.failed = run.failed + (IF failed THEN 1 ELSE 0)
        BY <1>0, <3>3 DEF RunOK
      <4>2. run'.failed \in Nat /\ (run'.failed = 0 => run.failed = 0 /\ ~failed)
        BY <3>2, <4>1
      <4> QED BY <4>1, <4>2 DEF failed
    <3> QED BY <3>1, <3>3
  <2> HIDE DEF e
  <2>6. WholeIn(text')
    BY <1>0, <1>s, <2>2, <2>4, WholeKept DEF FoundInv
  <2>7. WholeIn(head')
    BY <2>1 DEF FoundInv
  <2>8. ASSUME NEW d, TableOf(d), d.file # e.file PROVE Found(text', d) <=> Found(text, d)
    BY <1>0, <2>3, <2>4, <2>8 DEF Found, TableOf, TreesOK, Trees
  <2>9. ASSUME NEW r \in settled', NEW i \in DOMAIN Edits[r] PROVE Found(text', Edits[r][i])
    <3>1. r \in settled /\ r \in Scripts /\ Found(text, Edits[r][i])
      BY <1>0, <2>4, <2>9 DEF Loses, RunOK, FoundInv
    <3>2. CASE made
      <4>1. Edits[r][i].file # e.file
        BY <2>4, <2>9, <3>1, <3>2 DEF Loses, FilesOf
      <4> QED BY <2>8, <3>1, <4>1, EditTable
    <3> QED BY <1>s, <2>4, <3>1, <3>2
  <2>10. ASSUME run'.script \in Scripts, run'.mode # "dry", run'.failed = 0,
                NEW i \in DOMAIN Edits[run'.script], i < run'.step
         PROVE  Found(text', Edits[run'.script][i])
    <3>1. /\ run'.script = s /\ run'.step = k + 1 /\ run.mode # "dry" /\ run.failed = 0
          /\ Outcome(text[e.file], e) # "failed"
      BY <1>n, <2>5, <2>10
    <3> DEFINE d == Edits[s][i]
    <3>2. i \in DOMAIN Edits[s] /\ i \in Nat /\ k \in Nat /\ i < k + 1
      BY <2>1, <2>2, <2>10, <3>1, EditsOf
    <3>3. TableOf(d)
      BY <2>1, <3>2, EditTable
    <3>4. Outcome(text[e.file], e) \in {"applied", "skipped"}
      BY <3>1 DEF Outcome
    <3>5. CASE i = k
      <4>1. d = e
        BY <3>5 DEF e
      <4>2. CASE made
        <5>1. text'[e.file] = Edited(text[e.file], e)
          BY <1>0, <2>3, <2>4, <4>2 DEF TreesOK, Trees
        <5>2. Outcome(Edited(text[e.file], e), e) = "skipped"
          BY <2>2, <2>3, <4>2, OwnSkipped
        <5> QED BY <3>1, <4>1, <5>1, <5>2 DEF Found
      <4>3. CASE ~made
        BY <2>4, <3>1, <3>4, <4>1, <4>3 DEF Found
      <4> QED BY <4>2, <4>3
    <3>6. CASE i < k
      <4>1. Found(text, d)
        BY <2>1, <3>1, <3>2, <3>6 DEF FoundInv
      <4>2. CASE ~made
        BY <1>s, <2>4, <3>1, <4>1, <4>2
      <4>3. CASE made /\ d.file # e.file
        BY <2>8, <3>1, <3>3, <4>1, <4>3
      <4>4. CASE made /\ d.file = e.file
        <5>1. Apart(d, e)
          BY <2>1, <2>2, <3>2, <3>6, <4>4, SameScript DEF e
        <5>2. text'[e.file] = Edited(text[e.file], e)
          BY <1>0, <2>3, <2>4, <4>4 DEF TreesOK, Trees
        <5> HIDE DEF d
        <5>3. Outcome(Edited(text[e.file], e), d) = "skipped" <=> Outcome(text[e.file], d) = "skipped"
          BY <2>2, <2>3, <3>3, <4>4, <5>1, OthersKept
        <5> QED BY <3>1, <4>1, <4>4, <5>2, <5>3 DEF Found, d
      <4> QED BY <4>2, <4>3, <4>4
    <3> QED BY <3>2, <3>5, <3>6
  <2>11. run'.failed \in Nat
    BY <1>n, <2>5
  <2> QED BY <2>6, <2>7, <2>9, <2>10, <2>11 DEF FoundInv
<1>3. CASE NoDraft
  BY <1>3, <1>n, <1>s DEF NoDraft, Ends, FoundInv
<1>4. CASE Finish
  <2>1. /\ run.script \in Scripts /\ run.step > Len(Edits[run.script]) /\ run' = Idle
        /\ UNCHANGED <<text, head>>
        /\ \/ settled' = settled
           \/ run.failed = 0 /\ run.mode # "dry" /\ settled' = settled \cup {run.script}
    BY <1>4 DEF Finish, Ends
  <2>2. \A i \in DOMAIN Edits[run.script] : i < run.step
    BY <1>0, <2>1, EditsOf DEF RunOK
  <2> QED BY <1>n, <1>s, <2>1, <2>2 DEF FoundInv
<1>5. CASE Kill
  <2> DEFINE s == run.script
             e == Edits[s][run.step]
  <2>1. s \in Scripts /\ run' = Idle /\ UNCHANGED head
    BY <1>5 DEF Kill, Ends
  <2>2. CASE UNCHANGED <<text, settled>>
    BY <1>n, <1>s, <2>1, <2>2 DEF FoundInv
  <2>3. CASE /\ run.step <= Len(Edits[s])
             /\ \E t \in Cuts(Edited(text[e.file], e)) : text' = [text EXCEPT ![e.file] = t]
             /\ settled' = Loses(e.file)
    <3>1. TableOf(e)
      BY <1>0, <2>1, <2>3, EditInHand
    <3> HIDE DEF e
    <3>2. /\ e.file \in Files /\ text'[e.file].state = "cut"
          /\ \A g \in Files \ {e.file} : text'[g] = text[g]
      <4>1. PICK t \in Cuts(Edited(text[e.file], e)) : text' = [text EXCEPT ![e.file] = t]
        BY <2>3
      <4>2. t.state = "cut"
        BY <4>1, CutState
      <4>3. e.file \in Files /\ text \in [Files -> Texts]
        BY <1>0, <3>1 DEF TableOf, TreesOK, Trees
      <4> QED BY <4>1, <4>2, <4>3
    <3>3. WholeIn(text')
      <4> SUFFICES ASSUME NEW r \in Scripts, NEW i \in DOMAIN Edits[r],
                          text'[Edits[r][i].file].state = "whole", Found(text', Edits[r][i])
                   PROVE  Landed(text'[Edits[r][i].file], Edits[r][i])
        BY DEF WholeIn
      <4>1. Edits[r][i].file \in Files \ {e.file}
        BY <3>2, EditTable DEF TableOf
      <4> QED BY <3>2, <4>1 DEF FoundInv, WholeIn, Found
    <3>4. ASSUME NEW r \in settled', NEW i \in DOMAIN Edits[r] PROVE Found(text', Edits[r][i])
      <4>1. r \in settled /\ r \in Scripts /\ Found(text, Edits[r][i])
        BY <1>0, <2>3, <3>4 DEF Loses, RunOK, FoundInv
      <4>2. Edits[r][i].file \in Files \ {e.file}
        BY <2>3, <3>4, <4>1, EditTable DEF Loses, FilesOf, TableOf
      <4> QED BY <3>2, <4>1, <4>2 DEF Found
    <3> QED BY <1>n, <2>1, <3>3, <3>4 DEF FoundInv
  <2> QED BY <1>5, <2>2, <2>3 DEF Kill
<1>6. CASE Restore
  <2>1. PICK lost \in SUBSET FilesOf(last.script) :
          /\ text' = [f \in Files |-> IF f \in lost THEN head[f] ELSE text[f]]
          /\ settled' = {r \in settled : FilesOf(r) \cap lost = {}}
          /\ UNCHANGED <<head, run>> /\ run = Idle
    BY <1>6 DEF Restore
  <2>2. WholeIn(text')
    <3> SUFFICES ASSUME NEW r \in Scripts, NEW i \in DOMAIN Edits[r],
                        text'[Edits[r][i].file].state = "whole", Found(text', Edits[r][i])
                 PROVE  Landed(text'[Edits[r][i].file], Edits[r][i])
      BY DEF WholeIn
    <3>1. Edits[r][i].file \in Files
      BY EditTable DEF TableOf
    <3>2. text'[Edits[r][i].file] = head[Edits[r][i].file] \/ text'[Edits[r][i].file] = text[Edits[r][i].file]
      BY <2>1, <3>1
    <3> QED BY <3>2 DEF FoundInv, WholeIn, Found
  <2>3. ASSUME NEW r \in settled', NEW i \in DOMAIN Edits[r] PROVE Found(text', Edits[r][i])
    <3>1. r \in settled /\ r \in Scripts /\ Found(text, Edits[r][i])
      BY <1>0, <2>1, <2>3 DEF RunOK, FoundInv
    <3>2. Edits[r][i].file \in Files \ lost
      BY <2>1, <2>3, <3>1, EditTable DEF FilesOf, TableOf
    <3> QED BY <2>1, <3>1, <3>2 DEF Found
  <2> QED BY <1>n, <2>1, <2>2, <2>3 DEF FoundInv
<1>7. CASE Commit
  BY <1>7, <1>s DEF Commit, FoundInv
<1>8. CASE Prepare
  BY <1>8, <1>s DEF Prepare, FoundInv
<1>9. CASE UNCHANGED vars
  BY <1>9, <1>s DEF vars, FoundInv
<1> QED BY <1>1, <1>2, <1>3, <1>4, <1>5, <1>6, <1>7, <1>8, <1>9 DEF Next

LEMMA FoundHolds == Spec => []FoundInv
<1>1. CInv /\ FoundInv /\ [Next]_vars => FoundInv'
  BY CeremonyStep, FoundStep
<1> QED BY <1>1, FoundInit, CeremonyHolds, PTL DEF Spec

-----------------------------------------------------------------------------
(* Exit 0 means the ceremony's text is in place (main of each patcher).     *)
THEOREM ExitIsTrue == Spec => []ExitTells
<1>1. CInv /\ FoundInv => ExitTells
  <2> SUFFICES ASSUME CInv, FoundInv, NEW s \in settled, NEW i \in DOMAIN Edits[s],
                      text[Edits[s][i].file].state = "whole" \/ Edits[s][i].skip \in {"text", "entries"}
               PROVE  Landed(text[Edits[s][i].file], Edits[s][i])
    BY DEF ExitTells
  <2>1. s \in Scripts /\ Found(text, Edits[s][i])
    BY DEF CInv, RunOK, FoundInv
  <2>2. CASE text[Edits[s][i].file].state = "whole"
    BY <2>1, <2>2 DEF FoundInv, WholeIn
  <2>3. CASE Edits[s][i].skip \in {"text", "entries"}
    BY <2>1, <2>3 DEF Found, Outcome, Skipped
  <2> QED BY <2>2, <2>3
<1> QED BY <1>1, CeremonyHolds, FoundHolds, PTL

(* A patcher that exited 0 changes nothing when it is run again, as long as *)
(* its files are as it left them (the skips).                               *)
THEOREM RerunChangesNothing == Spec => RerunIdle
<1>1. CInv /\ FoundInv /\ [Next]_vars => [run.script \in settled => text' = text]_vars
  <2> SUFFICES ASSUME CInv, FoundInv, Next, run.script \in settled PROVE text' = text
    BY DEF vars
  <2>1. RunOK /\ run.script \in Scripts /\ run # Idle
    BY ScriptNames DEF CInv, RunOK, Idle
  <2>2. ASSUME run.step <= Len(Edits[run.script])
        PROVE  Outcome(text[Edits[run.script][run.step].file], Edits[run.script][run.step]) = "skipped"
    <3>1. run.step \in DOMAIN Edits[run.script]
      BY <2>1, <2>2, EditsOf DEF RunOK
    <3> QED BY <3>1 DEF FoundInv, Found
  <2>3. CASE Step
    BY <2>2, <2>3 DEF Step, Write
  <2>4. CASE Kill
    BY <2>2, <2>4 DEF Kill
  <2> QED BY <2>1, <2>3, <2>4 DEF Next, Start, NoDraft, Finish, Restore, Commit, Prepare
<1> QED BY <1>1, CeremonyHolds, FoundHolds, PTL DEF Spec, RerunIdle

-----------------------------------------------------------------------------
(* A checked run of plan094                                                  *)

(* The run starts from texts that are the committed ones (Preflight); the   *)
(* files of the edits before its step hold the committed text or that text  *)
(* with the run's own edit, those from its step on the committed text.      *)
OnHead(e) == text[e.file] = head[e.file]
BuildInv ==
    run.mode = "checked" =>
        /\ run.script = "plan094"
        /\ \A i \in DOMAIN Edits.plan094 : LET e == Edits.plan094[i] IN
              OnHead(e) \/ (i < run.step /\ text[e.file] = Edited(head[e.file], e))

(* The three edits of plan094 are of three files.                           *)
LEMMA FilesApart ==
    /\ "plan094" \in Scripts
    /\ \A i, j \in DOMAIN Edits.plan094 :
          i # j => Edits.plan094[i].file # Edits.plan094[j].file
    /\ \A i \in DOMAIN Edits.plan094 : i \in Nat
<1>1. Edits.plan094 = <<SpoolEdit, EntriesEdit, TestsEdit>>
  BY DEF Edits
<1>2. SpoolEdit.file = "spool" /\ EntriesEdit.file = "emit" /\ TestsEdit.file = "tests"
  BY DEF SpoolEdit, EntriesEdit, TestsEdit, Edit
<1> QED BY <1>1, <1>2, ScriptNames

LEMMA BuildInit == Init => BuildInv
BY DEF Init, BuildInv, Idle

LEMMA BuildStep == CInv /\ BuildInv /\ [Next]_vars => BuildInv'
<1> SUFFICES ASSUME CInv, BuildInv, [Next]_vars PROVE BuildInv'
  OBVIOUS
<1>0. TreesOK /\ RunOK
  BY DEF CInv
<1>i. ASSUME run' = Idle PROVE BuildInv'
  BY <1>i DEF BuildInv, Idle
<1>1. ASSUME NEW s \in hand, NEW mode \in Modes \cup {"plain"}, Start(s, mode) PROVE BuildInv'
  <2>1. CASE run' = [script |-> s, mode |-> mode, step |-> 1, failed |-> 0] /\ mode = "checked"
    <3>1. s = "plan094" /\ text = head /\ UNCHANGED <<text, head>>
      BY <1>1, <2>1 DEF Start, Ends, Idle, Preflight, Clean
    <3> QED BY <2>1, <3>1 DEF BuildInv, OnHead
  <2>2. CASE run' = [script |-> s, mode |-> mode, step |-> 1, failed |-> 0] /\ mode # "checked"
    BY <2>2 DEF BuildInv
  <2> QED BY <1>1, <1>i, <2>1, <2>2 DEF Start, Ends
<1>2. CASE Step
  <2> SUFFICES ASSUME run' # Idle, run'.mode = "checked" PROVE BuildInv'
    BY <1>i DEF BuildInv
  <2> DEFINE k == run.step
             e == Edits.plan094[k]
  <2>1. run'.script = run.script /\ run'.mode = run.mode /\ run'.step = k + 1
    <3>1. \E n : run' = [run EXCEPT !.step = @ + 1, !.failed = @ + n]
      BY <1>2 DEF Step, Ends
    <3> QED BY <1>0, <3>1 DEF RunOK
  <2>2. run.script = "plan094" /\ k \in DOMAIN Edits.plan094 /\ k \in Nat
    <3>1. run.script = "plan094" /\ k <= Len(Edits.plan094)
      BY <1>2, <2>1 DEF Step, BuildInv
    <3> QED BY <1>0, <3>1, EditsOf, FilesApart DEF RunOK
  <2>3. Write(e) /\ head' = head
    BY <1>2, <2>2 DEF Step
  <2>4. e.file \in Files /\ text \in [Files -> Texts]
    BY <1>0, <2>2, EditTable, FilesApart DEF TableOf, TreesOK, Trees
  <2>5. OnHead(e)
    BY <2>1, <2>2 DEF BuildInv
  <2> HIDE DEF e
  <2>6. ASSUME NEW i \in DOMAIN Edits.plan094
        PROVE  LET d == Edits.plan094[i] IN
               OnHead(d)' \/ (i < k + 1 /\ text'[d.file] = Edited(head'[d.file], d))
    <3> DEFINE d == Edits.plan094[i]
    <3>1. i \in Nat /\ (OnHead(d) \/ (i < k /\ text[d.file] = Edited(head[d.file], d)))
      BY <2>1, FilesApart DEF BuildInv
    <3>2. CASE text' = text
      BY <2>2, <2>3, <3>1, <3>2 DEF OnHead
    <3>3. CASE text' = [text EXCEPT ![e.file] = Edited(@, e)]
      <4>1. CASE i = k
        <5>1. text'[e.file] = Edited(head[e.file], e) /\ d = e
          BY <2>4, <2>5, <3>3, <4>1 DEF OnHead, e
        <5> HIDE DEF d
        <5> QED BY <2>2, <2>3, <4>1, <5>1 DEF d
      <4>2. CASE i # k
        <5>1. d.file # e.file /\ d.file \in Files
          BY <2>2, <4>2, FilesApart, EditTable DEF e, TableOf
        <5>2. text'[d.file] = text[d.file]
          BY <2>4, <3>3, <5>1
        <5> HIDE DEF d
        <5> QED BY <2>2, <2>3, <3>1, <5>2 DEF OnHead, d
      <4> QED BY <4>1, <4>2
    <3> QED BY <2>3, <3>2, <3>3 DEF Write
  <2> QED BY <2>1, <2>2, <2>6 DEF BuildInv, OnHead
<1>3. CASE NoDraft
  BY <1>3, <1>i DEF NoDraft, Ends
<1>4. CASE Finish
  BY <1>4, <1>i DEF Finish, Ends
<1>5. CASE Kill
  BY <1>5, <1>i DEF Kill, Ends
<1>6. CASE Restore
  BY <1>6, <1>i DEF Restore
<1>7. CASE Commit
  BY <1>7, <1>i DEF Commit
<1>8. CASE Prepare
  BY <1>8, <1>i DEF Prepare
<1>9. CASE UNCHANGED vars
  BY <1>9 DEF vars, BuildInv, OnHead
<1> QED BY <1>1, <1>2, <1>3, <1>4, <1>5, <1>6, <1>7, <1>8, <1>9 DEF Next

LEMMA BuildHolds == Spec => []BuildInv
<1>1. CInv /\ BuildInv /\ [Next]_vars => BuildInv'
  BY BuildStep
<1> QED BY <1>1, BuildInit, CeremonyHolds, PTL DEF Spec

(* A checked run of plan094 builds on the commit: at every step of it, each *)
(* of its files is the committed text or that text with the run's own edit, *)
(* whatever killed or failed ceremonies left before (preflight and main).   *)
THEOREM ChecksBuildOnHead == Spec => BuildsOnHead
<1>1. CInv /\ BuildInv /\ BuildInv' /\ [Next]_vars
        => [run.mode = "checked" /\ run' # run /\ run'.script = "plan094"
            => \A i \in DOMAIN Edits.plan094 : LET e == Edits.plan094[i] IN
                  text'[e.file] \in {head[e.file], Edited(head[e.file], e)}]_vars
  <2> SUFFICES ASSUME CInv, BuildInv, BuildInv', Next, run.mode = "checked", run' # run,
                      run'.script = "plan094", NEW i \in DOMAIN Edits.plan094
               PROVE  LET e == Edits.plan094[i] IN
                      text'[e.file] \in {head[e.file], Edited(head[e.file], e)}
    BY DEF vars
  <2>1. run # Idle /\ run' # Idle
    BY DEF Idle
  <2>2. Step
    BY <2>1 DEF Next, Start, NoDraft, Finish, Kill, Restore, Commit, Prepare, Ends
  <2>3. head' = head /\ run'.mode = "checked"
    <3>1. \E n : run' = [run EXCEPT !.step = @ + 1, !.failed = @ + n]
      BY <2>1, <2>2 DEF Step, Ends
    <3> QED BY <2>2, <3>1 DEF Step, CInv, RunOK
  <2> QED BY <2>3 DEF BuildInv, OnHead
<1> QED BY <1>1, CeremonyHolds, BuildHolds, PTL DEF Spec, BuildsOnHead

-----------------------------------------------------------------------------
(* The safety hook                                                           *)

(* The versions the two regions of the hook may be at, in any text.         *)
Sections == {"base", "fixes", "fixes2"}
Branches == {"base", "kernel", "fixes"}
HookText(t) ==
    \A i \in DOMAIN t.parts :
        /\ i = 1 => t.parts[i] \in Sections
        /\ i = 2 => t.parts[i] \in Branches

(* Behind its first edit a run of fixes has a section that defines the      *)
(* helper of its branch, and behind the second no branch of kernel is left. *)
(* Only plan094 has a dry run.                                              *)
HookInv ==
    /\ run.mode = "dry" => run.script = "plan094"
    /\ HookText(text["safety"]) /\ HookText(head["safety"])
    /\ run.script = "fixes" /\ text["safety"].state = "whole" =>
          /\ run.step > 1 => text["safety"].parts[1] # "base"
          /\ run.step > 2 => text["safety"].parts[2] # "kernel"

LEMMA HookEdits ==
    ASSUME NEW e \in AllEdits, e.file = "safety"
    PROVE  /\ e.from # "none"
           /\ 1 \in e.at => e.to \in Sections \ {"base"}
           /\ 2 \in e.at => e.to \in Branches
<1> USE DEF CoverageEdit, SessionEdit, LoaderEdit, TransportEdit, RailEdit, EmitEdit, SpoolEdit,
     EntriesEdit, TestsEdit, SettingsEdit, BranchEdit, ReadGateEdit, WriteGateEdit, SectionFix,
     BranchFix, HelpersFix, WriteGateFix, SectionFix2, Edit
<1>1. e \in {BranchEdit, SectionFix, BranchFix, SectionFix2}
  BY DEF AllEdits
<1> QED BY <1>1 DEF Sections, Branches

LEMMA FixesTable ==
    /\ "fixes" \in Scripts /\ Len(Edits["fixes"]) = 4
    /\ Edits["fixes"][1] = SectionFix /\ Edits["fixes"][2] = BranchFix
    /\ Edits["fixes"][3].file = "shim" /\ Edits["fixes"][4].file = "shim"
BY ScriptNames DEF Edits, Fixes, HelpersFix, WriteGateFix, Edit

(* An edit keeps the hook at the versions it may be at.                     *)
LEMMA HookEdited ==
    ASSUME NEW t \in TextOf("safety"), HookText(t), NEW e \in AllEdits, TableOf(e),
           e.file = "safety", Outcome(t, e) = "applied"
    PROVE  HookText(Edited(t, e))
<1>1. "safety" \in Files /\ e.from # "none"
  BY HookEdits DEF Files, Regions
<1> DEFINE u == Edited(t, e)
<1>2. /\ DOMAIN u.parts = DOMAIN t.parts
      /\ \A i \in e.at : i \in DOMAIN t.parts /\ u.parts[i] = e.to
      /\ \A i \in DOMAIN t.parts \ e.at : u.parts[i] = t.parts[i]
  BY <1>1, EditKeepsMarks
<1> HIDE DEF u
<1>3. HookText(u)
  BY <1>2, HookEdits DEF HookText
<1> QED BY <1>3 DEF u

(* So does a cut, which leaves a prefix.                                    *)
LEMMA HookCut ==
    ASSUME NEW t \in Texts, HookText(t), NEW c \in Cuts(t)
    PROVE  HookText(c)
<1>1. PICK n \in 0 .. Len(t.parts) :
        \E v : c = [state |-> "cut", parts |-> SubSeq(t.parts, 1, n), tail |-> v]
  BY DEF Cuts
<1>2. c.parts = SubSeq(t.parts, 1, n)
  BY <1>1
<1>3. t.parts \in Seq(Once) /\ Len(t.parts) \in Nat /\ DOMAIN t.parts = 1 .. Len(t.parts)
  BY LenProperties DEF Texts
<1>4. \A i \in DOMAIN c.parts : i \in DOMAIN t.parts /\ c.parts[i] = t.parts[i]
  <2>1. \A i \in 1 .. n : t.parts[i] \in Once
    BY <1>3, ElementOfSeq
  <2>2. /\ Len(SubSeq(t.parts, 1, n)) = n /\ SubSeq(t.parts, 1, n) \in Seq(Once)
        /\ \A i \in 1 .. n : SubSeq(t.parts, 1, n)[i] = t.parts[i]
    BY <1>1, <1>3, <2>1, SubSeqProperties
  <2> QED BY <1>1, <1>2, <1>3, <2>2
<1> QED BY <1>4 DEF HookText

LEMMA HookInit == Init => HookInv
<1> SUFFICES ASSUME Init PROVE HookInv
  OBVIOUS
<1>1. "safety" \in Files /\ "emit" # "safety" /\ Regions["safety"] = 2
  BY DEF Files, Regions
<1>2. head["safety"] = Untouched("safety") /\ text["safety"] = Untouched("safety")
  BY <1>1 DEF Init
<1>3. HookText(Untouched("safety"))
  BY <1>1 DEF HookText, Untouched, Whole, Sections, Branches
<1> QED BY <1>2, <1>3 DEF HookInv, Init, Idle

LEMMA HookStep == CInv /\ HookInv /\ [Next]_vars => HookInv'
<1> SUFFICES ASSUME CInv, HookInv, [Next]_vars PROVE HookInv'
  OBVIOUS
<1>0. TreesOK /\ RunOK /\ "safety" \in Files
  BY DEF CInv, Files, Regions
<1>i. ASSUME run' = Idle, HookText(text'["safety"]), head' = head PROVE HookInv'
  BY <1>i DEF HookInv, Idle
<1>1. ASSUME NEW s \in hand, NEW mode \in Modes \cup {"plain"}, Start(s, mode) PROVE HookInv'
  <2>1. /\ UNCHANGED <<text, head>>
        /\ run' = Idle \/ (run'.step = 1 /\ (run'.mode = "dry" => run'.script = "plan094"))
    BY <1>1 DEF Start, Ends
  <2> QED BY <1>i, <2>1 DEF HookInv
<1>2. CASE Step
  <2> DEFINE s == run.script
             k == run.step
             e == Edits[s][k]
             old == text["safety"]
             new == text'["safety"]
             made == Outcome(text[e.file], e) = "applied" /\ run.mode # "dry"
  <2>1. s \in Scripts /\ k \in DOMAIN Edits[s] /\ k \in Nat /\ Write(e) /\ head' = head
    BY <1>0, <1>2, EditsOf DEF Step, RunOK
  <2>2. TableOf(e) /\ e \in AllEdits /\ old \in TextOf("safety")
    BY <1>0, <2>1, EditTable, EditIsOneOf DEF TreesOK
  <2>3. /\ made => text' = [text EXCEPT ![e.file] = Edited(@, e)]
        /\ ~made => text' = text
    BY <2>1 DEF Write
  <2>4. run' = Idle \/ (run'.script = s /\ run'.mode = run.mode /\ run'.step = k + 1)
    <3>1. run' = Idle \/ \E n : run' = [run EXCEPT !.step = @ + 1, !.failed = @ + n]
      BY <1>2 DEF Step, Ends
    <3> QED BY <1>0, <3>1 DEF RunOK
  <2>5. CASE made /\ e.file = "safety"
    <3>1. new = Edited(old, e)
      BY <1>0, <2>3, <2>5 DEF TreesOK, Trees
    <3> HIDE DEF e
    <3>2. e.from # "none"
      BY <2>2, <2>5, HookEdits
    <3>3. /\ new.state = old.state /\ DOMAIN new.parts = DOMAIN old.parts
          /\ \A i \in e.at : i \in DOMAIN old.parts /\ new.parts[i] = e.to
          /\ \A i \in DOMAIN old.parts \ e.at : new.parts[i] = old.parts[i]
      BY <1>0, <2>2, <2>5, <3>1, <3>2, EditKeepsMarks
    <3>4. HookText(new)
      BY <2>2, <2>5, <3>1, HookEdited DEF HookInv
    <3>5. ASSUME run'.script = "fixes", run' # Idle, new.state = "whole"
          PROVE  /\ run'.step > 1 => new.parts[1] # "base"
                 /\ run'.step > 2 => new.parts[2] # "kernel"
      <4>1. s = "fixes" /\ run'.step = k + 1 /\ k \in 1 .. 4
        BY <2>1, <2>4, <3>5, FixesTable, EditsOf
      <4>2. CASE k = 1
        <5>1. e = SectionFix
          BY <4>1, <4>2, FixesTable DEF e
        <5>2. e.at = {1} /\ e.to = "fixes"
          BY <5>1 DEF SectionFix, Edit
        <5> QED BY <3>3, <4>1, <4>2, <5>2
      <4>3. CASE k = 2
        <5>1. e = BranchFix
          BY <4>1, <4>3, FixesTable DEF e
        <5>2. e.at = {2} /\ e.to = "fixes"
          BY <5>1 DEF BranchFix, Edit
        <5>3. old.parts[1] # "base" /\ 1 \in DOMAIN old.parts
          <6>1. old.state = "whole" /\ Len(old.parts) = 2 /\ old.parts \in Seq(Once)
            BY <2>2, <3>3, <3>5 DEF TextOf, TextsOf, Texts, Regions
          <6>2. 1 \in DOMAIN old.parts
            BY <6>1, LenProperties
          <6> QED BY <4>1, <4>3, <6>1, <6>2 DEF HookInv
        <5> QED BY <3>3, <4>1, <4>3, <5>2, <5>3
      <4>4. k # 3 /\ k # 4
        BY <2>5, <4>1, FixesTable DEF e
      <4> QED BY <4>1, <4>2, <4>3, <4>4
    <3> QED BY <1>i, <2>1, <2>4, <3>4, <3>5 DEF HookInv
  <2>6. CASE ~(made /\ e.file = "safety")
    <3>1. new = old
      BY <1>0, <2>2, <2>3, <2>6 DEF TreesOK, Trees, TableOf
    <3>2. ASSUME run'.script = "fixes", run' # Idle, old.state = "whole"
          PROVE  /\ run'.step > 1 => old.parts[1] # "base"
                 /\ run'.step > 2 => old.parts[2] # "kernel"
      <4>1. s = "fixes" /\ run'.step = k + 1 /\ k \in 1 .. 4 /\ run.mode # "dry"
        BY <2>1, <2>4, <3>2, FixesTable, EditsOf DEF HookInv
      <4>2. old.parts \in Seq(Once) /\ DOMAIN old.parts = {1, 2}
        <5>1. Len(old.parts) = 2 /\ old.parts \in Seq(Once)
          BY <2>2, <3>2 DEF TextOf, TextsOf, Texts, Regions
        <5> QED BY <5>1, LenProperties
      <4>3. ASSUME k = 1 PROVE old.parts[1] # "base"
        <5>1. e = SectionFix
          BY <4>1, <4>3, FixesTable
        <5> HIDE DEF e
        <5>2. e.file = "safety" /\ e.at = {1} /\ e.from = "base" /\ e.to = "fixes"
              /\ e.skip = "text" /\ e.keeps = {}
          BY <5>1 DEF SectionFix, Edit
        <5>3. Outcome(old, e) # "applied"
          BY <2>6, <4>1, <5>2
        <5> QED BY <4>2, <5>2, <5>3 DEF Outcome, LeftByV1, Skipped, InPart, Anchored, Has, Landed
      <4>4. ASSUME k = 2 PROVE old.parts[2] # "kernel"
        <5>1. e = BranchFix
          BY <4>1, <4>4, FixesTable
        <5> HIDE DEF e
        <5>2. e.file = "safety" /\ e.at = {2} /\ e.from = "kernel" /\ e.to = "fixes"
              /\ e.skip = "text" /\ e.keeps = {}
          BY <5>1 DEF BranchFix, Edit
        <5>3. Outcome(old, e) # "applied"
          BY <2>6, <4>1, <5>2
        <5> QED BY <4>2, <5>2, <5>3 DEF Outcome, LeftByV1, Skipped, InPart, Anchored, Has, Landed
      <4> QED BY <3>2, <4>1, <4>3, <4>4 DEF HookInv
    <3> QED BY <1>i, <2>1, <2>4, <3>1, <3>2 DEF HookInv
  <2> QED BY <2>5, <2>6
<1>3. CASE NoDraft
  BY <1>3, <1>i DEF NoDraft, Ends, HookInv
<1>4. CASE Finish
  BY <1>4, <1>i DEF Finish, Ends, HookInv
<1>5. CASE Kill
  <2> DEFINE s == run.script
             e == Edits[s][run.step]
  <2>1. s \in Scripts /\ run' = Idle /\ head' = head
    BY <1>5 DEF Kill, Ends
  <2>2. CASE text' = text
    BY <1>i, <2>1, <2>2 DEF HookInv
  <2>3. CASE /\ run.step <= Len(Edits[s]) /\ Outcome(text[e.file], e) = "applied"
             /\ \E t \in Cuts(Edited(text[e.file], e)) : text' = [text EXCEPT ![e.file] = t]
    <3>1. TableOf(e) /\ e \in AllEdits
      BY <1>0, <2>1, <2>3, EditsOf, EditTable, EditIsOneOf DEF RunOK
    <3> HIDE DEF e
    <3>2. PICK t \in Cuts(Edited(text[e.file], e)) : text' = [text EXCEPT ![e.file] = t]
      BY <2>3
    <3>3. CASE e.file = "safety"
      <4>1. text'["safety"] = t /\ text["safety"] \in TextOf("safety")
        BY <1>0, <3>2, <3>3 DEF TreesOK, Trees
      <4>2. HookText(Edited(text["safety"], e)) /\ Edited(text["safety"], e) \in Texts
        BY <1>0, <2>3, <3>1, <3>3, <4>1, HookEdited, EditedText DEF HookInv, TextOf, TextsOf
      <4> QED BY <1>i, <2>1, <3>2, <3>3, <4>1, <4>2, HookCut
    <3>4. CASE e.file # "safety"
      <4>1. text'["safety"] = text["safety"]
        BY <1>0, <3>2, <3>4 DEF TreesOK, Trees
      <4> QED BY <1>i, <2>1, <4>1 DEF HookInv
    <3> QED BY <3>3, <3>4
  <2> QED BY <1>5, <2>2, <2>3 DEF Kill
<1>6. CASE Restore
  <2>1. run' = run /\ run = Idle /\ head' = head
        /\ text'["safety"] \in {text["safety"], head["safety"]}
    BY <1>0, <1>6 DEF Restore
  <2> QED BY <1>i, <2>1 DEF HookInv
<1>7. CASE Commit
  BY <1>7 DEF Commit, HookInv, Idle
<1>8. CASE Prepare
  BY <1>8 DEF Prepare, HookInv
<1>9. CASE UNCHANGED vars
  BY <1>9 DEF vars, HookInv
<1> QED BY <1>1, <1>2, <1>3, <1>4, <1>5, <1>6, <1>7, <1>8, <1>9 DEF Next

LEMMA HookHolds == Spec => []HookInv
<1>1. CInv /\ HookInv /\ [Next]_vars => HookInv'
  BY HookStep
<1> QED BY <1>1, HookInit, CeremonyHolds, PTL DEF Spec

(* A run of fixes that comes to its end leaves the branch of the safety     *)
(* hook with its helper, whatever was killed, repeated or run out of order  *)
(* before (main of plan-152-apply-wave-a-codex-fixes.py).                   *)
THEOREM BranchHasItsHelper == Spec => FixesRepairs
<1>1. CInv /\ HookInv /\ [Next]_vars
        => [run.script = "fixes" /\ run' = Idle /\ last'.code # "killed"
            /\ text["safety"].state = "whole" => Served]_vars
  <2> SUFFICES ASSUME CInv, HookInv, Next, run.script = "fixes", run' = Idle,
                      last'.code # "killed", text["safety"].state = "whole"
               PROVE  Served
    BY DEF vars
  <2>1. TreesOK /\ RunOK /\ "safety" \in Files
    BY DEF CInv, Files, Regions
  <2>2. run # Idle /\ run.script # "plan094"
    BY DEF Idle
  <2>3. Step \/ Finish
    BY <2>2 DEF Next, Start, NoDraft, Kill, Restore, Commit, Prepare, Ends
  <2>4. ~Step
    <3> SUFFICES ASSUME Step PROVE FALSE
      OBVIOUS
    <3> DEFINE e == Edits["fixes"][run.step]
    <3>1. run.step \in 1 .. 4
      BY <2>1, FixesTable DEF Step, RunOK
    <3>2. e.file # "settings"
      BY <3>1, FixesTable DEF SectionFix, BranchFix, Edit
    <3>3. ~StopsAtFailure("fixes")
      BY DEF StopsAtFailure
    <3>4. \E n : run' = [run EXCEPT !.step = @ + 1, !.failed = @ + n]
      BY <3>2, <3>3 DEF Step
    <3> QED BY <2>1, <2>2, <3>4 DEF RunOK, Idle
  <2>5. run.step > 4 /\ run.step \in Nat
    BY <2>1, <2>3, <2>4, FixesTable DEF Finish, RunOK
  <2> DEFINE p == text["safety"].parts
  <2>6. DOMAIN p = {1, 2}
    <3>1. Len(p) = 2 /\ p \in Seq(Once)
      BY <2>1 DEF TreesOK, TextOf, TextsOf, Texts, Regions
    <3> QED BY <3>1, LenProperties
  <2>7. p[1] \in {"fixes", "fixes2"} /\ p[2] \in {"base", "fixes"}
    BY <2>5, <2>6 DEF HookInv, HookText, Sections, Branches
  <2> QED BY <2>7 DEF Served, Calls
<1> QED BY <1>1, CeremonyHolds, HookHolds, PTL DEF Spec, FixesRepairs
=============================================================================
