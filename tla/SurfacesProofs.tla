--------------------------- MODULE SurfacesProofs ---------------------------
(***************************************************************************)
(* Theorems about Surfaces, for every set of bodies, every watched surface *)
(* and every combination of faults.                                        *)
(***************************************************************************)
EXTENDS Surfaces, TLAPS

-----------------------------------------------------------------------------
(* What the ownership verdict guarantees, whatever is observed.            *)

(* A carried record never takes its digest from the target.                *)
LEMMA CarryFacts ==
  ASSUME NEW o \in Observations
  PROVE  /\ Carry(o) \in Decisions
         /\ Carry(o).hash # "HASH_TARGET"
         /\ Carry(o).verdict \in {"PRESERVE_OWNED", "PRESERVE_UNOWNED"}
<1>1. o.prior \in Priors
  BY DEF Observations
<1>2. CASE o.prior = "link_match"
  BY <1>2 DEF Carry, Pair, Decisions, Verdicts, HashSources
<1>3. CASE o.prior \in {"link_retargeted", "none"}
  BY <1>3 DEF Carry, Unowned, Pair, Decisions, Verdicts, HashSources
<1>4. CASE o.prior = "hash"
  BY <1>4 DEF Carry, Pair, Decisions, Verdicts, HashSources
<1> QED
  BY <1>1, <1>2, <1>3, <1>4 DEF Priors

(* Every observation has a decision, and none takes the target's digest.   *)
LEMMA DecisionType ==
  ASSUME NEW o \in Observations
  PROVE  /\ Decision(o) \in Decisions
         /\ Decision(o).hash # "HASH_TARGET"
BY CarryFacts
   DEF Decision, Unowned, Pair, Decisions, Verdicts, HashSources, Fresh

(* A surface is written only if the checkout ships it, the ceremony reaches*)
(* it, nothing foreign is there, no skip was asked for and it is owned; an *)
(* edited pointer never is.                                                *)
LEMMA WritesAreOwned ==
  ASSUME NEW o \in Observations,
         Decision(o).verdict \in {"DELIVER", "REFRESH"}
  PROVE  /\ o.source /\ ~ OutOfScope(o) /\ ~ Foreign(o) /\ o.type # "symlink"
         /\ o.skip = "none" /\ Owned(o)
         /\ o.type # "absent" =>
              Decision(o).verdict = "REFRESH" /\ ~ KeepsEdits(o)
         /\ Decision(o).hash \in {"HASH_SOURCE", "HASH_CANONICAL_POINTER"}
BY CarryFacts DEF Decision, Unowned, Pair, Fresh

(* A record that vouches for a surface of the right shape is kept.         *)
LEMMA RecordsAreCarried ==
  ASSUME NEW o \in Observations, o.source, o.op = "upgrade",
         Decision(o).verdict \notin {"DELIVER", "REFRESH"},
         \/ o.prior = "link_match" /\ o.type = "symlink"
         \/ /\ o.prior = "hash"
            /\ o.type = IF o.surface = "spec" THEN "dir" ELSE "regular"
  PROVE  /\ Decision(o).verdict = "PRESERVE_OWNED"
         /\ o.type # "symlink" =>
              Decision(o).hash \in {"HASH_SOURCE", "HASH_CANONICAL_POINTER",
                                    "HASH_PRIOR_RECORD"}
BY DEF Decision, Carry, Unowned, Pair, Foreign, WrongShapes, Owned

-----------------------------------------------------------------------------
(* Type correctness.                                                       *)

(* The bodies and their kinds.                                             *)
LEMMA BodyFacts ==
  /\ Bodies \subseteq AllBodies /\ Adopters \subseteq AllBodies
  /\ Degraded \in AllBodies /\ Torn \in AllBodies /\ Checkout \in AllBodies
  /\ Nothing \in AllBodies
  /\ Nothing \notin Bodies /\ Nothing \notin Adopters
  /\ Bodies \cap Adopters = {} /\ Legacy \cap Adopters = {}
  /\ Degraded \notin Adopters /\ Torn \notin Adopters
  /\ Checkout \notin Adopters
  /\ Degraded # Nothing
BY BodiesAssumption DEF AllBodies, Framework

(* What an adopter leaves is a node without a framework body, and an       *)
(* absent one has no body at all.                                          *)
LEMMA AdopterNodeFacts ==
  \A n \in AdopterNodes :
    /\ n \in [type : LiveTypes, body : AllBodies]
    /\ n.type = "absent" => n.body = Nothing
    /\ n.body \in Adopters \cup {Nothing}
BY BodyFacts, BodiesAssumption DEF AdopterNodes, Absent, Node, LiveTypes

(* What an older release left has the shape of the surface and no body of  *)
(* an adopter's.                                                           *)
LEMMA OlderNodeFacts ==
  ASSUME surface \in Surfaces
  PROVE  \A n \in OlderNodes :
           /\ n \in [type : LiveTypes, body : AllBodies]
           /\ n.type = Shape /\ n.type # "absent"
           /\ n.body \notin Adopters
BY BodyFacts, BodiesAssumption
   DEF OlderNodes, Node, LiveTypes, Shape, Surfaces

(* A node of the framework's and a link of install.sh's.                   *)
LEMMA FrameworkNodeFacts ==
  /\ \A b \in AllBodies :
       /\ Node(Shape, b) \in [type : LiveTypes, body : AllBodies]
       /\ Node("regular", b) \in [type : LiveTypes, body : AllBodies]
  /\ OurLink \in [type : LiveTypes, body : AllBodies]
  /\ Absent \in [type : LiveTypes, body : AllBodies]
BY BodyFacts DEF Node, OurLink, Absent, Shape, LiveTypes

(* A run that has not begun.                                               *)
LEMMA NoRunType == NoRun \in Runs
BY DEF NoRun, Runs, Ceremonies, Skips, Priors, LiveTypes, Contents, Unowned,
       Pair, Decisions, Verdicts, HashSources

(* What upgrade.sh observes is an observation.                             *)
LEMMA ObservedType ==
  ASSUME TypeOK, NEW cer \in Ceremonies, NEW skip \in SkipsOf
  PROVE  Observed(cer, skip) \in Observations
<1>1. ObservedPrior \in Priors
  BY DEF TypeOK, ObservedPrior, Priors
<1>2. ObservedContent \in Contents
  BY DEF ObservedContent, SpecContent, Contents
<1>3. skip \in Skips /\ surface \in Surfaces
  BY BodiesAssumption DEF TypeOK, SkipsOf, Skips, Surfaces
<1> QED
  BY <1>1, <1>2, <1>3 DEF Observed, Observations, TypeOK, Operations

(* A row that is written is a row.                                         *)
LEMMA RowType ==
  ASSUME TypeOK, NEW delivered, NEW link, NEW h \in HashSources
  PROVE  Recorded(delivered, link, h, PriorRow)
           \in [kind : {"none", "hash", "link"}, body : AllBodies]
<1>1. /\ NoRecord \in [kind : {"none", "hash", "link"}, body : AllBodies]
      /\ LinkRow \in [kind : {"none", "hash", "link"}, body : AllBodies]
      /\ \A b \in AllBodies :
           Hash(b) \in [kind : {"none", "hash", "link"}, body : AllBodies]
  BY BodyFacts DEF NoRecord, LinkRow, Hash
<1>2. PriorRow \in [kind : {"none", "hash", "link"}, body : AllBodies]
  BY <1>1 DEF PriorRow, TypeOK
<1>3. offer \in AllBodies /\ node.body \in AllBodies
  BY BodyFacts DEF TypeOK
<1>4. Digest(h, PriorRow)
        \in [kind : {"none", "hash", "link"}, body : AllBodies]
  BY <1>1, <1>2, <1>3 DEF Digest, HashSources
<1> QED
  BY <1>1, <1>4 DEF Recorded

(* The initial states are well typed.                                      *)
LEMMA TypeInit == Init => TypeOK
<1> SUFFICES ASSUME Init PROVE TypeOK
  OBVIOUS
<1>1. surface \in Surfaces
  BY BodiesAssumption DEF Init
<1>2. node \in [type : LiveTypes, body : AllBodies]
  BY <1>1, AdopterNodeFacts, OlderNodeFacts DEF Init
<1>3. record \in [kind : {"none", "hash", "link"}, body : AllBodies]
  BY BodyFacts DEF Init, NoRecord, Hash
<1>4. offer \in Bodies \cup {Nothing}
      /\ (surface = "protocol" => offer \in Bodies)
  BY DEF Init, Offers
<1>5. bak \subseteq AllBodies /\ mine \in Adopters \cup {Nothing}
      /\ by \in {"framework", "adopter"}
  BY DEF Init
<1> QED
  BY <1>2, <1>3, <1>4, <1>5, NoRunType DEF Init, TypeOK, Phases

(* A run that ends is typed again.                                         *)
LEMMA EndType == End => run' \in Runs /\ pc' \in Phases
BY NoRunType DEF End, Phases

(* A manifest that is or is not replaced.                                  *)
LEMMA ManifestType ==
  ASSUME TypeOK, NEW row \in [kind : {"none", "hash", "link"},
                              body : AllBodies],
         WriteManifest(row)
  PROVE  record' \in [kind : {"none", "hash", "link"}, body : AllBodies]
BY DEF WriteManifest, TypeOK

(* Every step keeps every variable in its type.                            *)
LEMMA TypeStep == TypeOK /\ [Next]_vars => TypeOK'
<1> SUFFICES ASSUME TypeOK, [Next]_vars PROVE TypeOK'
  OBVIOUS
<1> USE DEF tree
<1>1. CASE AdopterChange
  <2>1. \A b \in {offer} \ {Nothing} : b \in AllBodies
    BY BodyFacts DEF TypeOK
  <2>2. node' \in [type : LiveTypes, body : AllBodies]
    BY <1>1, <2>1, AdopterNodeFacts, FrameworkNodeFacts DEF AdopterChange
  <2>3. mine' \in Adopters \cup {Nothing}
    BY <1>1 DEF AdopterChange
  <2> QED
    BY <1>1, <2>2, <2>3 DEF AdopterChange, TypeOK
<1>2. CASE Release
  BY <1>2 DEF Release, Offers, TypeOK
<1>3. CASE InstallBegin
  <2>1. PICK cer \in Ceremonies, link \in BOOLEAN :
          run' = [NoRun EXCEPT !.op = "install", !.ceremony = cer,
                               !.link = link]
    BY <1>3 DEF InstallBegin
  <2>2. run' \in Runs
    BY <2>1, NoRunType DEF Runs
  <2>3. pc' \in Phases
    BY <1>3 DEF InstallBegin, Phases
  <2> QED
    BY <1>3, <2>2, <2>3 DEF InstallBegin, TypeOK
<1>4. CASE UpgradeDecide
  <2>1. PICK cer \in Ceremonies, skip \in SkipsOf :
          LET o == Observed(cer, skip)  d == Decision(o)
          IN  /\ run' = [NoRun EXCEPT
                           !.op = "upgrade", !.ceremony = cer, !.skip = skip,
                           !.prior = o.prior, !.type = o.type,
                           !.content = o.content, !.decision = d,
                           !.delivered = d.verdict = "PRESERVE_OWNED"]
              /\ pc' = CASE d.verdict \in {"PRESERVE_OWNED",
                                           "PRESERVE_UNOWNED"} -> "up_keep"
                         [] d.verdict = "DELIVER" -> "up_copy"
                         [] d.verdict = "REFRESH" ->
                              IF surface = "marker" /\ o.content = "pristine"
                              THEN "up_copy" ELSE "up_backup"
    BY <1>4 DEF UpgradeDecide
  <2> DEFINE o == Observed(cer, skip)
  <2>2. o \in Observations /\ Decision(o) \in Decisions
    BY ObservedType, DecisionType
  <2>3. /\ o.prior \in Priors /\ o.type \in LiveTypes /\ o.content \in Contents
        /\ skip \in Skips /\ Decision(o).verdict \in Verdicts
    BY <2>2 DEF Observations, SkipsOf, Skips, Decisions, Observed
  <2>4. run' \in Runs
    BY <2>1, <2>2, <2>3, NoRunType DEF Runs
  <2>5. pc' \in Phases
    BY <2>1, <2>3 DEF Phases, Verdicts
  <2> QED
    BY <1>4, <2>4, <2>5 DEF UpgradeDecide, TypeOK
<1>5. CASE InstallWrite
  <2>1. run' \in Runs /\ pc' \in Phases
    BY <1>5 DEF InstallWrite, TypeOK, Runs, Phases
  <2>2. node' \in [type : LiveTypes, body : AllBodies] /\ by' = "framework"
    BY <1>5, FrameworkNodeFacts, BodyFacts DEF InstallWrite, Wrote, TypeOK
  <2> QED
    BY <1>5, <2>1, <2>2 DEF InstallWrite, TypeOK
<1>6. CASE InstallRender
  <2>1. node' \in [type : LiveTypes, body : AllBodies]
        /\ by' \in {"framework", "adopter"}
    BY <1>6, FrameworkNodeFacts, BodyFacts DEF InstallRender, Wrote, TypeOK
  <2> QED
    BY <1>6, <2>1 DEF InstallRender, TypeOK, Phases
<1>7. CASE InstallRecord
  <2>1. InstallHash \in HashSources
    BY DEF InstallHash, HashSources
  <2>2. record' \in [kind : {"none", "hash", "link"}, body : AllBodies]
    BY <1>7, <2>1, RowType, ManifestType DEF InstallRecord
  <2> QED
    BY <1>7, <2>2, EndType DEF InstallRecord, TypeOK
<1>8. CASE UpgradeKeep
  BY <1>8, BodyFacts DEF UpgradeKeep, TypeOK, Phases
<1>9. CASE UpgradeBackup
  <2>1. Pair("REFRESH", RefusedHash) \in Decisions
    BY DEF Pair, RefusedHash, Decisions, Verdicts, HashSources
  <2>2. run' \in Runs
    BY <1>9, <2>1 DEF UpgradeBackup, TypeOK, Runs
  <2>3. pc' \in Phases /\ bak' \subseteq AllBodies
    BY <1>9 DEF UpgradeBackup, TypeOK, Phases
  <2> QED
    BY <1>9, <2>2, <2>3 DEF UpgradeBackup, TypeOK
<1>10. CASE UpgradeDelete
  BY <1>10, FrameworkNodeFacts DEF UpgradeDelete, Wrote, TypeOK, Phases
<1>11. CASE UpgradeCopy
  <2>1. run' \in Runs /\ pc' \in Phases
    BY <1>11 DEF UpgradeCopy, TypeOK, Runs, Phases
  <2>2. node' \in [type : LiveTypes, body : AllBodies] /\ by' = "framework"
    BY <1>11, FrameworkNodeFacts, BodyFacts DEF UpgradeCopy, Wrote, TypeOK
  <2> QED
    BY <1>11, <2>1, <2>2 DEF UpgradeCopy, TypeOK
<1>12. CASE UpgradeRecord
  <2>1. run.decision.hash \in HashSources
    BY DEF TypeOK, Runs, Decisions
  <2>2. record' \in [kind : {"none", "hash", "link"}, body : AllBodies]
    BY <1>12, <2>1, RowType, ManifestType DEF UpgradeRecord
  <2> QED
    BY <1>12, <2>2, EndType DEF UpgradeRecord, TypeOK
<1>13. CASE Kill
  <2>1. node' \in [type : LiveTypes, body : AllBodies]
        /\ by' \in {"framework", "adopter"}
    BY <1>13, FrameworkNodeFacts, BodyFacts DEF Kill, Wrote, TypeOK
  <2> QED
    BY <1>13, <2>1, EndType DEF Kill, TypeOK
<1>14. CASE UNCHANGED vars
  BY <1>14 DEF vars, TypeOK
<1> QED
  BY <1>1, <1>2, <1>3, <1>4, <1>5, <1>6, <1>7, <1>8, <1>9, <1>10, <1>11,
     <1>12, <1>13, <1>14
     DEF Next, ToolStep, InstallStep, UpgradeStep

(* Every variable keeps its type in every behaviour.                       *)
THEOREM TypeCorrect == Spec => []TypeOK
BY TypeInit, TypeStep, PTL DEF Spec

-----------------------------------------------------------------------------
(* The inductive invariant.                                                *)

(* Without a run in progress only the node, the record and the archives    *)
(* are left to speak of.                                                   *)
LEMMA EndFacts == End => InstallInv' /\ UpgradeInv' /\ CarryInv'
<1> SUFFICES ASSUME End PROVE InstallInv' /\ UpgradeInv' /\ CarryInv'
  OBVIOUS
<1>1. pc' = "idle" /\ run'.decision.hash = "HASH_NONE"
  BY DEF End, NoRun, Unowned, Pair
<1> QED
  BY <1>1 DEF InstallInv, UpgradeInv, CarryInv, Replacing

(* A row is the framework's unless it is taken from a target that is not.  *)
LEMMA RowIsFrameworks ==
  ASSUME TypeOK, RecordIsFrameworks,
         NEW delivered, NEW link, NEW h \in HashSources,
         delivered /\ h = "HASH_TARGET" /\ node.type = Shape
           => node.body \in Bodies,
         WriteManifest(Recorded(delivered, link, h, PriorRow))
  PROVE  RecordIsFrameworks'
<1> DEFINE row == Recorded(delivered, link, h, PriorRow)
<1>1. row.kind = "hash" => row.body \in Bodies
  <2>1. CASE delivered /\ node.type # "symlink" /\ node.type = Shape
    <3>1. row = Digest(h, PriorRow)
      BY <2>1 DEF Recorded
    <3>2. CASE h = "HASH_TARGET"
      <4>1. row = Hash(node.body)
        BY <3>1, <3>2 DEF Digest
      <4>2. node.body \in Bodies
        BY <2>1, <3>2
      <4> QED
        BY <4>1, <4>2 DEF Hash
    <3>3. CASE h \in {"HASH_SOURCE", "HASH_CANONICAL_POINTER"}
      BY <3>1, <3>3 DEF Digest, Hash, NoRecord, TypeOK
    <3>4. CASE h = "HASH_PRIOR_RECORD"
      BY <3>1, <3>4 DEF Digest, PriorRow, NoRecord, RecordIsFrameworks
    <3>5. CASE h \in {"HASH_NONE", "LINK_RECORD"}
      BY <3>1, <3>5 DEF Digest, NoRecord
    <3> QED
      BY <3>2, <3>3, <3>4, <3>5 DEF HashSources
  <2>2. CASE ~ (delivered /\ node.type # "symlink" /\ node.type = Shape)
    BY <2>2 DEF Recorded, LinkRow, NoRecord
  <2> QED
    BY <2>1, <2>2
<1>2. CASE record' = row
  BY <1>1, <1>2 DEF RecordIsFrameworks
<1>3. CASE UNCHANGED record
  BY <1>3 DEF RecordIsFrameworks
<1> QED
  BY <1>2, <1>3 DEF WriteManifest

(* The invariant holds initially.                                          *)
LEMMA InvInit == Init => IInv
<1> SUFFICES ASSUME Init PROVE IInv
  OBVIOUS
<1>1. TypeOK /\ surface \in Surfaces
  BY TypeInit, BodiesAssumption DEF Init
<1>2. NodeInv
  BY <1>1, AdopterNodeFacts, OlderNodeFacts DEF Init, NodeInv
<1>3. InstallInv /\ UpgradeInv /\ CarryInv
  BY DEF Init, InstallInv, UpgradeInv, CarryInv, Replacing, NoRun, Unowned,
         Pair
<1>4. RecordIsFrameworks
  BY DEF Init, RecordIsFrameworks, NoRecord, Hash
<1>5. NoLoss
  BY DEF Init, NoLoss
<1> QED
  BY <1>1, <1>2, <1>3, <1>4, <1>5 DEF IInv

(* Adopters and releases act between runs.                                 *)
LEMMA WorldSafe ==
  ASSUME IInv, TypeOK', AdopterChange \/ Release PROVE IInv'
<1> USE DEF tree
<1>1. CASE AdopterChange
  <2>1. NodeInv'
    BY <1>1, AdopterNodeFacts
       DEF AdopterChange, NodeInv, Node, Shape, IInv, TypeOK
  <2>2. NoLoss'
    BY <1>1 DEF AdopterChange, NoLoss
  <2>3. InstallInv' /\ UpgradeInv' /\ CarryInv'
    BY <1>1 DEF AdopterChange, IInv, InstallInv, UpgradeInv, CarryInv,
                Replacing
  <2> QED
    BY <1>1, <2>1, <2>2, <2>3 DEF AdopterChange, IInv, RecordIsFrameworks
<1>2. CASE Release
  BY <1>2 DEF Release, IInv, NodeInv, Shape, InstallInv, UpgradeInv, CarryInv,
              Replacing, RecordIsFrameworks, NoLoss
<1> QED
  BY <1>1, <1>2

(* install.sh writes into empty places only and records what it wrote.     *)
LEMMA InstallSafe ==
  ASSUME IInv, TypeOK', InstallBegin \/ InstallStep PROVE IInv'
<1> USE DEF tree
<1>1. CASE InstallBegin
  <2>1. PICK cer \in Ceremonies, link \in BOOLEAN :
          /\ run' = [NoRun EXCEPT !.op = "install", !.ceremony = cer,
                                  !.link = link]
          /\ pc' = IF /\ cer # "user" \/ surface = "marker"
                      /\ node.type = "absent" /\ offer # Nothing
                   THEN "in_write" ELSE "in_render"
    BY <1>1 DEF InstallBegin
  <2>2. /\ run'.op = "install" /\ run'.ceremony = cer /\ ~ run'.delivered
        /\ run'.decision.hash = "HASH_NONE"
    BY <2>1 DEF NoRun, Unowned, Pair
  <2>3. node.type = "absent" => node = Absent
    BY DEF IInv, TypeOK, NodeInv, Absent, Node
  <2>4. InstallInv'
    BY <1>1, <2>1, <2>2, <2>3 DEF InstallBegin, InstallInv, InReach
  <2>5. UpgradeInv' /\ CarryInv'
    BY <2>1, <2>2 DEF UpgradeInv, CarryInv, Replacing
  <2> QED
    BY <1>1, <2>4, <2>5
       DEF InstallBegin, IInv, NodeInv, Shape, RecordIsFrameworks, NoLoss
<1>2. CASE InstallWrite
  <2>1. /\ node = Absent /\ offer \in Bodies /\ InReach /\ run.op = "install"
        /\ run.decision.hash # "HASH_TARGET" /\ run \in Runs
    BY <1>2 DEF InstallWrite, IInv, InstallInv, UpgradeInv, TypeOK
  <2>2. /\ run'.op = "install" /\ run'.ceremony = run.ceremony
        /\ run'.decision = run.decision
    BY <1>2, <2>1 DEF InstallWrite, Runs
  <2>3. /\ by' = "framework"
        /\ \/ node' = OurLink
           \/ node' = Node(Shape, offer)
           \/ surface = "protocol" /\ node' = Node("regular", Degraded)
    BY <1>2 DEF InstallWrite, Wrote, Shape
  <2>4. NodeInv'
    BY <1>2, <2>3 DEF InstallWrite, NodeInv, OurLink, Node, Shape
  <2>5. InstallInv'
    BY <1>2, <2>1, <2>2, <2>3
       DEF InstallWrite, InstallInv, InReach, Node, Shape
  <2>6. UpgradeInv' /\ CarryInv'
    BY <1>2, <2>1, <2>2 DEF InstallWrite, UpgradeInv, CarryInv, Replacing
  <2>7. NoLoss'
    BY <1>2, <2>1 DEF InstallWrite, IInv, NoLoss, Absent, Node
  <2> QED
    BY <1>2, <2>4, <2>5, <2>6, <2>7
       DEF InstallWrite, IInv, RecordIsFrameworks
<1>3. CASE InstallRender
  <2>1. /\ pc = "in_render" /\ pc' = "in_record"
        /\ run.op = "install" /\ run.decision.hash # "HASH_TARGET"
    BY <1>3 DEF InstallRender, IInv, InstallInv, UpgradeInv
  <2>2. UpgradeInv' /\ CarryInv'
    BY <1>3, <2>1 DEF InstallRender, UpgradeInv, CarryInv, Replacing
  <2>3. CASE /\ surface = "protocol" /\ run.ceremony # "user"
             /\ node = Node("regular", Degraded)
    <3>1. PICK b \in Bodies : node' = Node("regular", b) /\ by' = "framework"
      BY <1>3, <2>3 DEF InstallRender, Wrote, IInv, TypeOK
    <3>2. NodeInv'
      BY <1>3, <2>3, <3>1 DEF InstallRender, NodeInv, Node, Shape
    <3>3. InstallInv'
      BY <1>3, <2>1, <2>3, <3>1 DEF InstallRender, InstallInv, Node, Shape
    <3>4. node.body = Degraded
      BY <2>3 DEF Node
    <3>5. NoLoss'
      BY <1>3, <3>4, BodyFacts DEF InstallRender, IInv, NoLoss, TypeOK
    <3> QED
      BY <1>3, <2>2, <3>2, <3>3, <3>5
         DEF InstallRender, IInv, RecordIsFrameworks
  <2>4. CASE ~ (/\ surface = "protocol" /\ run.ceremony # "user"
                /\ node = Node("regular", Degraded))
    <3>1. UNCHANGED <<node, by>>
      BY <1>3, <2>4 DEF InstallRender
    <3>2. InstallInv'
      BY <1>3, <2>1, <2>4, <3>1
         DEF InstallRender, IInv, InstallInv, InReach, Shape
    <3> QED
      BY <1>3, <2>2, <3>1, <3>2
         DEF InstallRender, IInv, NodeInv, Shape, RecordIsFrameworks, NoLoss
  <2> QED
    BY <2>3, <2>4
<1>4. CASE InstallRecord
  <2>1. InstallHash \in HashSources
    BY DEF InstallHash, HashSources
  <2>2. /\ run.delivered \/ Continues
        /\ InstallHash = "HASH_TARGET" /\ node.type = Shape
        => node.body \in Bodies
    BY <1>4 DEF InstallRecord, InstallHash, IInv, InstallInv, OurLink, Node,
                Shape
  <2>3. RecordIsFrameworks'
    BY <1>4, <2>1, <2>2, RowIsFrameworks DEF InstallRecord, IInv
  <2> QED
    BY <1>4, <2>3, EndFacts
       DEF InstallRecord, IInv, NodeInv, Shape, NoLoss
<1> QED
  BY <1>1, <1>2, <1>3, <1>4 DEF InstallStep

(* What is owned but an adopter's has a record, and is an edited pointer   *)
(* if it is a pointer.                                                     *)
LEMMA EvidenceFacts ==
  ASSUME TypeOK, NEW cer \in Ceremonies, NEW skip \in SkipsOf,
         Owned(Observed(cer, skip)), ~ Foreign(Observed(cer, skip)),
         node.type \notin {"absent", "symlink"}, node.body \in Adopters
  PROVE  /\ record.kind # "none"
         /\ surface = "protocol" => KeepsEdits(Observed(cer, skip))
         /\ ObservedContent # "pristine"
<1> DEFINE o == Observed(cer, skip)
<1>1. /\ o.prior = ObservedPrior /\ o.type = node.type
      /\ o.content = ObservedContent /\ o.surface = surface
  BY DEF Observed
<1>2. node.body # offer /\ node.body \notin Legacy /\ node.body # Degraded
  BY BodyFacts DEF TypeOK
<1>3. ObservedContent \notin {"pristine", "legacy_pristine", "degraded"}
  <2>1. SpecContent \notin {"pristine", "legacy_pristine", "degraded"}
    BY <1>2 DEF SpecContent
  <2> QED
    BY <1>2, <2>1 DEF ObservedContent
<1>4. ObservedPrior \in {"hash", "link_match"}
  BY <1>1, <1>3 DEF Owned
<1>5. record.kind # "none"
  <2>1. CASE record.kind = "none"
    <3>1. ObservedPrior = "none"
      BY <2>1 DEF ObservedPrior
    <3> QED
      BY <1>4, <3>1
  <2> QED
    BY <2>1
<1>6. ASSUME surface = "protocol" PROVE KeepsEdits(o)
  <2>1. node.type = "regular"
    <3>1. node.type \notin {"ancestor_symlink", "dir", "dir_empty", "special"}
      BY <1>1, <1>6 DEF Foreign, WrongShapes
    <3> QED
      BY <3>1 DEF TypeOK, LiveTypes
  <2>2. ObservedContent = "edited"
    BY <1>2, <1>6, <2>1 DEF ObservedContent
  <2> QED
    BY <1>1, <1>6, <2>2 DEF KeepsEdits
<1> QED
  BY <1>3, <1>5, <1>6

(* What the verdict of upgrade.sh sets going keeps the invariant.          *)
LEMMA DecideSafe ==
  ASSUME IInv, TypeOK', UpgradeDecide PROVE IInv'
<1> USE DEF tree
<1>1. PICK cer \in Ceremonies, skip \in SkipsOf :
        LET o == Observed(cer, skip)  d == Decision(o)
        IN  /\ run' = [NoRun EXCEPT
                         !.op = "upgrade", !.ceremony = cer, !.skip = skip,
                         !.prior = o.prior, !.type = o.type,
                         !.content = o.content, !.decision = d,
                         !.delivered = d.verdict = "PRESERVE_OWNED"]
            /\ pc' = CASE d.verdict \in {"PRESERVE_OWNED",
                                         "PRESERVE_UNOWNED"} -> "up_keep"
                       [] d.verdict = "DELIVER" -> "up_copy"
                       [] d.verdict = "REFRESH" ->
                            IF surface = "marker" /\ o.content = "pristine"
                            THEN "up_copy" ELSE "up_backup"
  BY DEF UpgradeDecide
<1> DEFINE o == Observed(cer, skip)
           d == Decision(o)
<1>2. /\ o \in Observations /\ d \in Decisions /\ d.hash # "HASH_TARGET"
      /\ TypeOK
  BY ObservedType, DecisionType DEF IInv
<1>3. /\ run'.ceremony = cer /\ run'.decision = d /\ ~ run'.failed
      /\ run'.delivered = (d.verdict = "PRESERVE_OWNED")
  BY <1>1 DEF NoRun
<1>4. /\ o.prior = ObservedPrior /\ o.type = node.type /\ o.op = "upgrade"
      /\ o.content = ObservedContent /\ o.surface = surface
      /\ o.source = (offer # Nothing) /\ o.ceremony = cer
  BY DEF Observed
<1>5. UNCHANGED <<surface, offer, node, record, bak, mine, by>>
  BY DEF UpgradeDecide
<1>6. InstallInv'
  BY <1>1, <1>2 DEF InstallInv, Decisions, Verdicts
<1>7. CASE d.verdict \in {"DELIVER", "REFRESH"}
  <2>1. /\ o.source /\ ~ OutOfScope(o) /\ ~ Foreign(o) /\ o.type # "symlink"
        /\ Owned(o)
        /\ o.type # "absent" => d.verdict = "REFRESH" /\ ~ KeepsEdits(o)
        /\ d.hash \in {"HASH_SOURCE", "HASH_CANONICAL_POINTER"}
    BY <1>2, <1>7, WritesAreOwned
  <2>2. pc' \in {"up_backup", "up_copy"}
    BY <1>1, <1>7
  <2>3. node.type \notin ForeignTypes
    BY <1>4, <2>1 DEF Foreign, WrongShapes, ForeignTypes
  <2>4. offer # Nothing /\ InReach'
    BY <1>3, <1>4, <1>5, <2>1 DEF OutOfScope, InReach
  <2>5. node.body \in Adopters =>
          /\ record.kind # "none" /\ surface # "protocol"
          /\ pc' = "up_backup"
    <3>1. SUFFICES ASSUME node.body \in Adopters
                   PROVE  /\ record.kind # "none" /\ surface # "protocol"
                          /\ pc' = "up_backup"
      OBVIOUS
    <3>2. node.type \notin {"absent", "symlink"}
      BY <1>4, <2>1, <3>1, BodyFacts DEF IInv, NodeInv
    <3>3. /\ record.kind # "none" /\ surface # "protocol"
          /\ ObservedContent # "pristine"
      BY <1>2, <1>4, <2>1, <3>1, <3>2, EvidenceFacts
    <3>4. d.verdict = "REFRESH"
      BY <1>4, <2>1, <3>2
    <3> QED
      BY <1>1, <1>4, <3>3, <3>4
  <2>6. ~ run'.delivered
    BY <1>3, <1>7
  <2>7. UpgradeInv'
    BY <1>2, <1>3, <1>5, <2>1, <2>2, <2>3, <2>4, <2>5, <2>6
       DEF UpgradeInv, Replacing, ForeignTypes
  <2>8. CarryInv'
    BY <2>2 DEF CarryInv
  <2> QED
    BY <1>5, <1>6, <2>7, <2>8
       DEF IInv, NodeInv, Shape, RecordIsFrameworks, NoLoss
<1>8. CASE d.verdict \in {"PRESERVE_OWNED", "PRESERVE_UNOWNED"}
  <2>1. pc' = "up_keep"
    BY <1>1, <1>8
  <2>2. UpgradeInv'
    BY <1>2, <1>3, <2>1 DEF UpgradeInv, Replacing
  <2>3. CarryInv'
    <3>1. SUFFICES
            ASSUME by = "framework", record.kind # "none", offer # Nothing,
                   node.type # "absent",
                   (node.type = "symlink") <=> (record.kind = "link")
            PROVE  /\ d.verdict = "PRESERVE_OWNED"
                   /\ node.type # "symlink" =>
                        d.hash \in {"HASH_SOURCE", "HASH_CANONICAL_POINTER",
                                    "HASH_PRIOR_RECORD"}
      BY <1>3, <1>5 DEF CarryInv
    <3>2. node = OurLink \/ node.type = Shape
      BY <3>1 DEF IInv, NodeInv
    <3>3. CASE node = OurLink
      <4>1. node.type = "symlink" /\ record.kind = "link"
        BY <3>1, <3>3 DEF OurLink, Node
      <4>2. ObservedPrior = "link_match"
        BY <3>3, <4>1 DEF ObservedPrior
      <4> QED
        BY <1>2, <1>4, <1>8, <3>1, <4>1, <4>2, RecordsAreCarried
    <3>4. CASE node.type = Shape
      <4>1. node.type \notin {"symlink", "ancestor_symlink"}
            /\ record.kind = "hash"
        BY <1>2, <3>1, <3>4 DEF Shape, TypeOK
      <4>2. ObservedPrior = "hash"
        BY <4>1 DEF ObservedPrior
      <4> QED
        BY <1>2, <1>4, <1>8, <3>1, <3>4, <4>1, <4>2, RecordsAreCarried
           DEF Shape
    <3> QED
      BY <3>2, <3>3, <3>4
  <2> QED
    BY <1>5, <1>6, <2>2, <2>3
       DEF IInv, NodeInv, Shape, RecordIsFrameworks, NoLoss
<1> QED
  BY <1>2, <1>7, <1>8 DEF Decisions, Verdicts

(* The execution of the verdict and the rewrite of the manifest.           *)
LEMMA UpgradeSafe ==
  ASSUME IInv, TypeOK', UpgradeStep PROVE IInv'
<1> USE DEF tree
<1>1. CASE UpgradeKeep
  <2>1. bak \subseteq bak'
    BY <1>1 DEF UpgradeKeep
  <2>2. ~ Replacing' /\ pc' = "up_record" /\ ~ run.failed
    BY <1>1 DEF UpgradeKeep, Replacing, IInv, UpgradeInv
  <2>3. InstallInv' /\ CarryInv' /\ UpgradeInv'
    BY <1>1, <2>2
       DEF UpgradeKeep, IInv, InstallInv, CarryInv, UpgradeInv
  <2> QED
    BY <1>1, <2>1, <2>3
       DEF UpgradeKeep, IInv, NodeInv, Shape, RecordIsFrameworks, NoLoss
<1>2. CASE UpgradeBackup
  <2>1. /\ node.type \notin ForeignTypes /\ offer # Nothing /\ InReach
        /\ ~ run.delivered /\ ~ run.failed /\ run \in Runs
        /\ run.decision.hash \in {"HASH_SOURCE", "HASH_CANONICAL_POINTER"}
        /\ node.body \in Adopters =>
             record.kind # "none" /\ surface # "protocol"
    BY <1>2 DEF UpgradeBackup, IInv, UpgradeInv, Replacing, TypeOK
  <2>2. bak \subseteq bak'
        /\ UNCHANGED <<surface, offer, node, record, mine, by>>
    BY <1>2 DEF UpgradeBackup
  <2>3. CASE /\ bak' = bak \cup ({node.body} \ {Nothing})
             /\ pc' \in {"up_delete", "up_copy"} /\ UNCHANGED run
    <3>1. node.body \in Adopters => node.body \in bak'
      BY <2>3, BodyFacts
    <3>2. UpgradeInv' /\ InstallInv' /\ CarryInv'
      BY <2>1, <2>2, <2>3, <3>1
         DEF UpgradeInv, InstallInv, CarryInv, Replacing, InReach
    <3> QED
      BY <2>2, <3>2
         DEF IInv, NodeInv, Shape, RecordIsFrameworks, NoLoss
  <2>4. CASE /\ BackupNotNeeded /\ pc' = "up_copy"
             /\ UNCHANGED <<bak, run>>
    <3>1. node.body \notin Adopters
      BY <2>1, <2>4 DEF BackupNotNeeded
    <3>2. UpgradeInv' /\ InstallInv' /\ CarryInv'
      BY <2>1, <2>2, <2>4, <3>1
         DEF UpgradeInv, InstallInv, CarryInv, Replacing, InReach
    <3> QED
      BY <2>2, <3>2
         DEF IInv, NodeInv, Shape, RecordIsFrameworks, NoLoss
  <2>5. CASE /\ pc' = "up_record"
             /\ run' = [run EXCEPT !.failed = TRUE,
                                   !.delivered = run.prior = "hash",
                                   !.decision = Pair("REFRESH", RefusedHash)]
    <3>1. run'.failed /\ run'.decision.hash = "HASH_PRIOR_RECORD"
      BY <2>1, <2>5 DEF Runs, Pair, RefusedHash
    <3>2. UpgradeInv' /\ InstallInv' /\ CarryInv'
      BY <2>1, <2>2, <2>5, <3>1
         DEF UpgradeInv, InstallInv, CarryInv, Replacing, ForeignTypes
    <3> QED
      BY <2>2, <3>2
         DEF IInv, NodeInv, Shape, RecordIsFrameworks, NoLoss
  <2> QED
    BY <1>2, <2>3, <2>4, <2>5 DEF UpgradeBackup
<1>3. CASE UpgradeDelete
  <2>1. /\ offer # Nothing /\ InReach /\ ~ run.delivered /\ ~ run.failed
        /\ run.decision.hash \in {"HASH_SOURCE", "HASH_CANONICAL_POINTER"}
        /\ node.body \in Adopters => node.body \in bak
    BY <1>3 DEF UpgradeDelete, IInv, UpgradeInv, Replacing
  <2>2. node' = Absent /\ by' = "framework" /\ pc' = "up_copy"
        /\ node'.type = "absent" /\ node'.body = Nothing
    BY <1>3 DEF UpgradeDelete, Wrote, Absent, Node
  <2>3. NodeInv' /\ InstallInv' /\ CarryInv'
    BY <2>2 DEF NodeInv, InstallInv, CarryInv, Shape
  <2>4. UpgradeInv'
    BY <1>3, <2>1, <2>2, BodyFacts
       DEF UpgradeDelete, UpgradeInv, Replacing, ForeignTypes, InReach
  <2>5. NoLoss'
    BY <1>3, <2>1 DEF UpgradeDelete, IInv, TypeOK, NoLoss
  <2> QED
    BY <1>3, <2>3, <2>4, <2>5
       DEF UpgradeDelete, IInv, RecordIsFrameworks
<1>4. CASE UpgradeCopy
  <2>1. /\ ~ run.delivered /\ run \in Runs
        /\ run.decision.hash \in {"HASH_SOURCE", "HASH_CANONICAL_POINTER"}
        /\ node.body \in Adopters => node.body \in bak
    BY <1>4 DEF UpgradeCopy, IInv, UpgradeInv, Replacing, TypeOK
  <2>2. PICK b \in {offer, Torn} :
          /\ node' = Node(Shape, b) /\ by' = "framework"
          /\ \/ run' = [run EXCEPT !.delivered = TRUE]
             \/ run' = [run EXCEPT !.failed = TRUE]
    BY <1>4 DEF UpgradeCopy, Wrote
  <2>3. /\ node'.type = Shape /\ run'.decision = run.decision
        /\ run'.delivered \/ run'.failed
        /\ run'.failed => ~ run'.delivered \/ run.failed
    BY <2>1, <2>2 DEF Node, Runs
  <2>4. ~ run.failed /\ pc' = "up_record" /\ Shape' = Shape
        /\ Shape \notin {"symlink", "absent"}
    BY <1>4 DEF UpgradeCopy, IInv, UpgradeInv, Replacing, Shape
  <2>5. NodeInv' /\ InstallInv'
    BY <2>3, <2>4 DEF NodeInv, InstallInv
  <2>6. UpgradeInv'
    BY <2>1, <2>3, <2>4 DEF UpgradeInv, Replacing
  <2>7. CarryInv'
    BY <2>1, <2>3 DEF CarryInv
  <2>8. NoLoss'
    BY <1>4, <2>1 DEF UpgradeCopy, IInv, TypeOK, NoLoss
  <2> QED
    BY <1>4, <2>5, <2>6, <2>7, <2>8
       DEF UpgradeCopy, IInv, RecordIsFrameworks
<1>5. CASE UpgradeRecord
  <2>1. run.decision.hash \in HashSources
        /\ run.decision.hash # "HASH_TARGET"
    BY DEF IInv, TypeOK, Runs, Decisions, UpgradeInv
  <2>2. RecordIsFrameworks'
    BY <1>5, <2>1, RowIsFrameworks DEF UpgradeRecord, IInv
  <2> QED
    BY <1>5, <2>2, EndFacts
       DEF UpgradeRecord, IInv, NodeInv, Shape, NoLoss
<1> QED
  BY <1>1, <1>2, <1>3, <1>4, <1>5 DEF UpgradeStep

(* A kill at any moment.                                                   *)
LEMMA KillSafe ==
  ASSUME IInv, TypeOK', Kill PROVE IInv'
<1> USE DEF tree
<1>1. InstallInv' /\ UpgradeInv' /\ CarryInv'
  BY EndFacts DEF Kill
<1>2. UNCHANGED <<surface, offer, record, bak, mine>>
  BY DEF Kill
<1>3. CASE UNCHANGED <<node, by>>
  BY <1>1, <1>2, <1>3
     DEF IInv, NodeInv, Shape, RecordIsFrameworks, NoLoss
<1>4. CASE /\ pc \in {"up_delete", "up_copy", "in_write"}
           /\ Wrote(Node(Shape, Torn))
  <2>1. node.body \in Adopters => node.body \in bak
    BY <1>4, BodyFacts
       DEF IInv, UpgradeInv, InstallInv, Replacing, Absent, Node
  <2>2. NoLoss'
    BY <1>2, <2>1 DEF IInv, TypeOK, NoLoss
  <2>3. NodeInv'
    BY <1>2, <1>4 DEF Wrote, NodeInv, Node, Shape
  <2> QED
    BY <1>1, <1>2, <2>2, <2>3 DEF IInv, RecordIsFrameworks
<1> QED
  BY <1>3, <1>4 DEF Kill

(* Every step keeps the invariant.                                         *)
LEMMA InvStep == IInv /\ [Next]_vars => IInv'
<1> SUFFICES ASSUME IInv, [Next]_vars PROVE IInv'
  OBVIOUS
<1>1. TypeOK'
  BY TypeStep DEF IInv
<1>2. CASE UNCHANGED vars
  BY <1>2
     DEF vars, tree, IInv, TypeOK, NodeInv, Shape, InstallInv, InReach,
         UpgradeInv, Replacing, CarryInv, RecordIsFrameworks, NoLoss
<1> QED
  BY <1>1, <1>2, WorldSafe, InstallSafe, DecideSafe, UpgradeSafe, KillSafe
     DEF Next, ToolStep

(* The inductive invariant holds in every reachable state.                 *)
THEOREM Invariance == Spec => []IInv
BY InvInit, InvStep, PTL DEF Spec

(* The manifest never carries the digest of bytes an adopter wrote or of a *)
(* torn copy, whatever the runs, kills and failures that led there.        *)
THEOREM RecordsAreFrameworks == Spec => []RecordIsFrameworks
<1>1. IInv => RecordIsFrameworks
  BY DEF IInv
<1> QED
  BY <1>1, Invariance, PTL

(* What the adopter last put at the surface is there or in an archive.     *)
THEOREM NothingIsLost == Spec => []NoLoss
<1>1. IInv => NoLoss
  BY DEF IInv
<1> QED
  BY <1>1, Invariance, PTL

-----------------------------------------------------------------------------
(* Action properties.                                                      *)

(* The steps of the tools that write the node, and what they write over.   *)
LEMMA WriteFacts ==
  ASSUME IInv, ToolStep, node' # node
  PROVE  /\ node.type \notin ForeignTypes
         /\ InReach
         /\ node.body \in Adopters =>
              record.kind # "none" /\ surface # "protocol"
<1> USE DEF tree
<1>1. CASE pc = "in_write"
  BY <1>1, BodyFacts DEF IInv, InstallInv, Absent, Node, ForeignTypes
<1>2. CASE pc \in {"up_delete", "up_copy"}
  BY <1>2 DEF IInv, UpgradeInv, Replacing
<1>3. CASE InstallRender
  <2>1. run.ceremony # "user" /\ node = Node("regular", Degraded)
    BY <1>3 DEF InstallRender
  <2> QED
    BY <2>1, BodyFacts DEF InReach, Node, ForeignTypes
<1>4. CASE InstallWrite \/ UpgradeDelete \/ UpgradeCopy
  BY <1>1, <1>2, <1>4 DEF InstallWrite, UpgradeDelete, UpgradeCopy
<1>5. CASE Kill
  BY <1>1, <1>2, <1>5 DEF Kill
<1>6. ~ (InstallBegin \/ UpgradeDecide \/ InstallRecord \/ UpgradeKeep
          \/ UpgradeBackup \/ UpgradeRecord)
  BY DEF InstallBegin, UpgradeDecide, InstallRecord, UpgradeKeep,
         UpgradeBackup, UpgradeRecord
<1> QED
  BY <1>3, <1>4, <1>5, <1>6 DEF ToolStep, InstallStep, UpgradeStep

(* No tool writes over or through a link, a special file or a linked       *)
(* ancestor.                                                               *)
THEOREM ForeignShapesSpared == Spec => ForeignShapesStay
<1>1. IInv /\ [Next]_vars =>
        [ToolStep /\ node.type \in {"symlink", "special", "ancestor_symlink"}
           => node' = node]_vars
  BY WriteFacts DEF ForeignTypes
<1> QED
  BY <1>1, Invariance, PTL DEF Spec, ForeignShapesStay

(* An adopter's bytes that no record claims stay, and at the root pointer  *)
(* they stay in any case.                                                  *)
THEOREM AdopterBytesSpared == Spec => AdopterBytesStay
<1>1. IInv /\ [Next]_vars =>
        [ToolStep /\ node.body \in Adopters
           /\ (record.kind = "none" \/ surface = "protocol")
           => node' = node]_vars
  BY WriteFacts
<1> QED
  BY <1>1, Invariance, PTL DEF Spec, AdopterBytesStay

(* A user ceremony leaves the root surfaces alone.                         *)
THEOREM UserSparesRoot == Spec => UserLeavesRoot
<1>1. IInv /\ [Next]_vars =>
        [ToolStep /\ run.op # "none" /\ run.ceremony = "user"
           /\ surface # "marker" => node' = node]_vars
  BY WriteFacts DEF InReach
<1> QED
  BY <1>1, Invariance, PTL DEF Spec, UserLeavesRoot

(* INV-3: after a failed execution the record stays or is withdrawn.       *)
THEOREM FailureKeeps == Spec => FailureKeepsRecord
<1>1. ASSUME IInv, [Next]_vars, pc = "up_record", run.failed
      PROVE  record' \in {record, NoRecord}
  <2>1. /\ node.type # "symlink"
        /\ run.delivered => run.decision.hash = "HASH_PRIOR_RECORD"
    BY <1>1 DEF IInv, UpgradeInv
  <2>2. CASE UpgradeRecord
    <3> DEFINE row == Recorded(run.delivered, TRUE, run.decision.hash,
                               PriorRow)
    <3>1. row \in {PriorRow, NoRecord}
      <4>1. CASE run.delivered /\ node.type = Shape
        <5>1. row = Digest("HASH_PRIOR_RECORD", PriorRow)
          BY <2>1, <4>1 DEF Recorded
        <5> QED
          BY <5>1 DEF Digest
      <4> QED
        BY <2>1, <4>1 DEF Recorded
    <3> QED
      BY <2>2, <3>1 DEF UpgradeRecord, WriteManifest, PriorRow
  <2>3. CASE ~ UpgradeRecord
    <3>1. UNCHANGED record
      BY <1>1, <2>3
         DEF Next, ToolStep, InstallStep, UpgradeStep, AdopterChange, Release,
             InstallBegin, UpgradeDecide, InstallWrite, InstallRender,
             InstallRecord, UpgradeKeep, UpgradeBackup, UpgradeDelete,
             UpgradeCopy, Kill, vars, tree
    <3> QED
      BY <3>1
  <2> QED
    BY <2>2, <2>3
<1>2. IInv /\ [Next]_vars =>
        [pc = "up_record" /\ run.failed => record' \in {record, NoRecord}]_vars
  BY <1>1
<1> QED
  BY <1>2, Invariance, PTL DEF Spec, FailureKeepsRecord

(* A node of the framework's with a record of its own kind keeps a row, if *)
(* it counts as delivered and its digest is neither dropped nor a link's.  *)
LEMMA RowKept ==
  ASSUME IInv, by = "framework", node.type # "absent", offer # Nothing,
         record.kind # "none",
         (node.type = "symlink") <=> (record.kind = "link"),
         NEW delivered, NEW link, NEW h, delivered,
         node.type = "symlink" => link,
         node.type # "symlink" =>
           h \in {"HASH_TARGET", "HASH_SOURCE", "HASH_CANONICAL_POINTER",
                  "HASH_PRIOR_RECORD"}
  PROVE  Recorded(delivered, link, h, PriorRow).kind # "none"
<1>1. CASE node.type = "symlink"
  BY <1>1 DEF Recorded, LinkRow
<1>2. CASE node.type # "symlink"
  <2>1. node.type = Shape /\ record.kind = "hash"
    BY <1>2 DEF IInv, NodeInv, OurLink, Node, TypeOK
  <2>2. Recorded(delivered, link, h, PriorRow) = Digest(h, PriorRow)
    BY <1>2, <2>1 DEF Recorded
  <2>3. Digest(h, PriorRow).kind = "hash"
    BY <1>2, <2>1 DEF Digest, Hash, PriorRow
  <2> QED
    BY <2>2, <2>3
<1> QED
  BY <1>1, <1>2

(* Ownership of what nobody but the framework touched is not forgotten,    *)
(* but in the five ways the property lists.                                *)
THEOREM RecordsOutliveRuns == Spec => RecordOutlivesRuns
<1>1. ASSUME IInv, [Next]_vars, ToolStep, by = "framework",
             record.kind # "none", record'.kind = "none",
             node.type # "absent", offer # Nothing, ~ run.failed,
             (node.type = "symlink") <=> (record.kind = "link"),
             ~ (node = OurLink /\ run.op = "install" /\ ~ run.link)
      PROVE  FALSE
  <2>1. CASE InstallRecord
    <3> DEFINE row == Recorded(run.delivered \/ Continues, run.link,
                               InstallHash, PriorRow)
    <3>1. run.op = "install"
      BY <1>1, <2>1 DEF InstallRecord, IInv, InstallInv
    <3>2. node = OurLink \/ node.type = Shape
      BY <1>1 DEF IInv, NodeInv
    <3>3. Continues
      <4>1. record.kind \in {"hash", "link"}
        BY <1>1 DEF IInv, TypeOK
      <4>2. CASE node = OurLink
        BY <1>1, <4>2 DEF Continues, OurLink, Node
      <4>3. CASE node.type = Shape
        BY <1>1, <4>1, <4>3 DEF Continues, Shape
      <4> QED
        BY <3>2, <4>2, <4>3
    <3>4. node.type = "symlink" => run.link
      BY <1>1, <3>1, <3>2 DEF Shape
    <3>5. InstallHash \in {"HASH_TARGET", "HASH_SOURCE", "HASH_PRIOR_RECORD"}
      BY DEF InstallHash
    <3>6. row.kind # "none"
      BY <1>1, <3>3, <3>4, <3>5, RowKept
    <3> QED
      BY <1>1, <2>1, <3>6 DEF InstallRecord, WriteManifest
  <2>2. CASE UpgradeRecord
    <3> DEFINE row == Recorded(run.delivered, TRUE, run.decision.hash,
                               PriorRow)
    <3>1. /\ run.delivered
          /\ node.type # "symlink" =>
               run.decision.hash \in {"HASH_SOURCE", "HASH_CANONICAL_POINTER",
                                      "HASH_PRIOR_RECORD"}
      BY <1>1, <2>2 DEF UpgradeRecord, IInv, CarryInv
    <3>2. row.kind # "none"
      BY <1>1, <3>1, RowKept
    <3> QED
      BY <1>1, <2>2, <3>2 DEF UpgradeRecord, WriteManifest
  <2>3. CASE ~ (InstallRecord \/ UpgradeRecord)
    <3>1. UNCHANGED record
      BY <1>1, <2>3
         DEF ToolStep, InstallStep, UpgradeStep, InstallBegin, UpgradeDecide,
             InstallWrite, InstallRender, UpgradeKeep, UpgradeBackup,
             UpgradeDelete, UpgradeCopy, Kill, tree
    <3> QED
      BY <1>1, <3>1
  <2> QED
    BY <2>1, <2>2, <2>3
<1>2. IInv /\ [Next]_vars =>
        [ToolStep /\ by = "framework" /\ record.kind # "none"
           /\ record'.kind = "none" =>
         \/ node.type = "absent"
         \/ offer = Nothing
         \/ run.failed
         \/ (node.type = "symlink") # (record.kind = "link")
         \/ node = OurLink /\ run.op = "install" /\ ~ run.link]_vars
  BY <1>1
<1> QED
  BY <1>2, Invariance, PTL DEF Spec, RecordOutlivesRuns
=============================================================================
