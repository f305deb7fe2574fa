-------------------------- MODULE UninstallRunProofs --------------------------
(***************************************************************************)
(* Proofs about UninstallRun for every set of paths and contents, every    *)
(* damaged manifest of any length, every way paths share inodes and every  *)
(* fault.                                                                  *)
(***************************************************************************)
EXTENDS UninstallRun, TLAPS

(* Between two runs nothing of the last one is left.                       *)
CleanStart ==
  pc \in {"idle", "vet"} => ledger = {} /\ ~ refused /\ ~ mismatched

(* A run goes on with a manifest it can read, and with records that are    *)
(* vetted still: what it removes can only take doubts away.                *)
LedgerInv ==
  pc # "idle" => manifest \in Manifests /\ ledger \subseteq Vetted(manifest)

(* What the walk may still remove is in the tarball.                       *)
ArchivedInv ==
  pc = "walk" /\ opt.backup /\ ~ opt.dry =>
    \A i \in ledger :
      LET p == manifest[i].path IN Regular(p) => <<p, node[p]>> \in archived

LeftBehind(i) == Regular(manifest[i].path) /\ ~ Matches(manifest[i])

(* What became of the records the walk is through with, when none was      *)
(* refused; and a mismatch that was counted is on disk still.              *)
AccountsInv ==
  pc = "walk" /\ ~ opt.dry =>
    /\ ~ refused =>
         \A i \in DOMAIN manifest \ ledger :
           \/ node[manifest[i].path] = Absent
           \/ mismatched /\ ~ opt.force
    /\ mismatched /\ ~ opt.force =>
         \E i \in Vetted(manifest) \ ledger : LeftBehind(i)

(* In backup nothing has been compared, and a record that is out of the    *)
(* ledger was refused.                                                     *)
BackupInv ==
  pc = "backup" => /\ ~ mismatched
                   /\ ~ refused => ledger = DOMAIN manifest

IInv ==
  TypeOK /\ CleanStart /\ LedgerInv /\ ArchivedInv /\ BackupInv /\ AccountsInv

-----------------------------------------------------------------------------
(* A manifest the parse reads is a sequence of records.                    *)
LEMMA Reading ==
  ASSUME NEW m \in Manifests
  PROVE  /\ DOMAIN m \subseteq Nat
         /\ \A i \in DOMAIN m : m[i] \in Records
         /\ m # NoManifest /\ m # Unreadable
BY ManifestsAssumption

LEMMA VettedAre ==
  ASSUME NEW m, NEW i \in Vetted(m)
  PROVE  /\ i \in DOMAIN m /\ m[i].kind = "file" /\ node[m[i].path] # Through
         /\ i \in Unique(m, Sane(m))
         /\ ~ Aliased(m, Unique(m, Sane(m)), m[i].path)
BY DEF Vetted, Distinct, Unique, Sane

(* No other hash record names the path of a vetted one.                    *)
LEMMA NamedOnce ==
  ASSUME NEW m, NEW i \in Vetted(m), NEW j \in DOMAIN m,
         m[j].kind = "file", m[j].path = m[i].path
  PROVE  j = i
<1>1. j \in Sane(m) \cap RowsOf(m, m[i].path)
  BY VettedAre DEF Sane, RowsOf
<1>2. i \in Unique(m, Sane(m))
  BY VettedAre
<1>3. Sane(m) \cap RowsOf(m, m[i].path) = {i}
  BY <1>2 DEF Unique
<1> QED
  BY <1>1, <1>3

(* Removing a regular file leaves every vetted record vetted.              *)
LEMMA VettedStays ==
  ASSUME NEW p \in Paths, TypeOK, Regular(p), UNCHANGED <<manifest, inode>>,
         node' = [node EXCEPT ![p] = Absent]
  PROVE  Vetted(manifest) \subseteq Vetted(manifest)'
<1> DEFINE u == Unique(manifest, Sane(manifest))
<1>1. \A q : node'[q] # Absent => node'[q] = node[q]
  BY DEF TypeOK
<1>2. \A q : (node'[q] = Through) <=> (node[q] = Through)
  <2>1. node[p] # Through /\ Absent # Through
    BY NodesAssumption DEF Regular
  <2> QED
    BY <2>1 DEF TypeOK
<1>3. Sane(manifest)' = Sane(manifest)
  BY <1>2 DEF Sane
<1>4. u' = u
  BY <1>3 DEF Unique, RowsOf
<1>5. \A q : Aliased(manifest, u, q)' => Aliased(manifest, u, q)
  BY <1>1, <1>4 DEF Aliased, Exists
<1> QED
  BY <1>4, <1>5 DEF Vetted, Distinct

(* What one step of the walk does to the file at p = the path of record i. *)
LEMMA WalkStep ==
  ASSUME IInv, NEW i \in ledger, pc = "walk", Reached(i),
         node' = IF Regular(manifest[i].path) /\ Removes(manifest[i]) /\ ~ opt.dry
                 THEN [node EXCEPT ![manifest[i].path] = Absent] ELSE node,
         UNCHANGED <<manifest, inode>>
  PROVE  /\ manifest \in Manifests /\ i \in Vetted(manifest)
         /\ manifest[i] \in Records /\ manifest[i].path \in Paths
         /\ node' \in [Paths -> Nodes]
         /\ Vetted(manifest) \subseteq Vetted(manifest)'
         /\ \A j \in Vetted(manifest) :
              j # i => manifest[j].path # manifest[i].path
<1>1. manifest \in Manifests /\ i \in Vetted(manifest)
  BY DEF IInv, LedgerInv
<1>2. manifest[i] \in Records /\ manifest[i].path \in Paths
  BY <1>1, Reading, VettedAre DEF Records
<1>3. \A j \in Vetted(manifest) : j # i => manifest[j].path # manifest[i].path
  BY <1>1, NamedOnce, VettedAre
<1>4. node' \in [Paths -> Nodes]
  BY <1>2 DEF IInv, TypeOK, Nodes
<1>5. CASE node' = node
  <2>1. Vetted(manifest)' = Vetted(manifest)
    BY <1>5 DEF Vetted, Distinct, Unique, Sane, RowsOf, Aliased, Exists
  <2> QED
    BY <2>1, <1>1, <1>2, <1>3, <1>4
<1>6. CASE Regular(manifest[i].path)
           /\ node' = [node EXCEPT ![manifest[i].path] = Absent]
  BY <1>1, <1>2, <1>3, <1>4, <1>6, VettedStays DEF IInv
<1> QED
  BY <1>5, <1>6

-----------------------------------------------------------------------------
LEMMA ExitStep ==
  ASSUME IInv, NEW code \in Nat, Exit(code), UNCHANGED <<node, inode, opt>>,
         manifest' \in {manifest, NoManifest}
  PROVE  IInv'
<1>1. TypeOK'
  BY DEF IInv, TypeOK, Exit, Stages
<1>2. pc' = "idle" /\ ledger' = {} /\ ~ refused' /\ ~ mismatched'
  BY DEF Exit
<1> QED
  BY <1>1, <1>2
     DEF IInv, CleanStart, LedgerInv, ArchivedInv, BackupInv, AccountsInv

LEMMA StartStep == IInv /\ Start => IInv'
<1> SUFFICES ASSUME IInv, Start PROVE IInv'
  OBVIOUS
<1>1. /\ UNCHANGED <<manifest, node, inode, ledger, archived, refused, mismatched>>
      /\ opt' \in Options /\ rc' \in Nat
      /\ ledger = {} /\ ~ refused /\ ~ mismatched
      /\ pc' = "idle" \/ (pc' = "vet" /\ manifest \in Manifests)
  BY DEF Start, IInv, TypeOK, CleanStart
<1>2. TypeOK'
  BY <1>1 DEF IInv, TypeOK, Stages
<1> QED
  BY <1>1, <1>2
     DEF IInv, CleanStart, LedgerInv, ArchivedInv, BackupInv, AccountsInv

LEMMA VetStep == IInv /\ Vet => IInv'
<1> SUFFICES ASSUME IInv, Vet PROVE IInv'
  OBVIOUS
<1>1. manifest \in Manifests /\ ~ mismatched /\ ledger' = Vetted(manifest)
  BY DEF IInv, CleanStart, LedgerInv, Vet
<1>2. Vetted(manifest) \subseteq DOMAIN manifest /\ DOMAIN manifest \subseteq Nat
  BY <1>1, Reading, VettedAre
<1>3. TypeOK'
  BY <1>1, <1>2 DEF IInv, TypeOK, Stages, Vet
<1>4. Vetted(manifest)' = Vetted(manifest)
  BY DEF Vet, Vetted, Distinct, Unique, Sane, RowsOf, Aliased, Exists
<1>5. LedgerInv'
  BY <1>1, <1>4 DEF LedgerInv, Vet
<1>6. ~ refused' => ledger' = DOMAIN manifest'
  BY DEF Vet
<1>7. pc' \in {"backup", "walk"} /\ (pc' = "walk" => ~ (opt'.backup /\ ~ opt'.dry))
      /\ ~ mismatched'
  BY <1>1 DEF Vet
<1> QED
  BY <1>3, <1>5, <1>6, <1>7
     DEF IInv, CleanStart, ArchivedInv, BackupInv, AccountsInv

LEMMA BackupStep == IInv /\ Backup => IInv'
<1> SUFFICES ASSUME IInv, Backup PROVE IInv'
  OBVIOUS
<1>1. archived' = {<<p, node[p]>> : p \in BackupList}
  BY DEF Backup
<1>2. manifest \in Manifests /\ ledger \subseteq Vetted(manifest)
  BY DEF IInv, LedgerInv, Backup
<1>3. \A i \in ledger : manifest[i].path \in Paths
  BY <1>2, Reading, VettedAre DEF Records
<1>4. BackupList \subseteq Paths /\ \A p \in BackupList : node[p] \in Digests
  BY <1>3, PathsAssumption DEF BackupList, LedgerPaths, Regular
<1>5. TypeOK'
  BY <1>1, <1>4 DEF IInv, TypeOK, Stages, Backup
<1>6. Vetted(manifest)' = Vetted(manifest)
  BY DEF Backup, Vetted, Distinct, Unique, Sane, RowsOf, Aliased, Exists
<1>7. LedgerInv'
  BY <1>2, <1>6 DEF LedgerInv, Backup
<1>8. ArchivedInv'
  BY <1>1 DEF ArchivedInv, Backup, BackupList, LedgerPaths, Regular
<1>9. ~ mismatched /\ (~ refused => ledger = DOMAIN manifest)
  BY DEF IInv, BackupInv, Backup
<1> QED
  BY <1>5, <1>7, <1>8, <1>9
     DEF IInv, CleanStart, BackupInv, AccountsInv, Backup

LEMMA WalkInv == IInv /\ Walk => IInv'
<1> SUFFICES ASSUME IInv, Walk PROVE IInv'
  OBVIOUS
<1>1. PICK i \in ledger :
        /\ Reached(i)
        /\ ledger' = ledger \ {i}
        /\ node' = IF Regular(manifest[i].path) /\ Removes(manifest[i]) /\ ~ opt.dry
                   THEN [node EXCEPT ![manifest[i].path] = Absent] ELSE node
        /\ refused' = (refused \/ node[manifest[i].path] \in {Symlink, Directory})
        /\ mismatched' = (mismatched \/ (Regular(manifest[i].path)
                                         /\ ~ Matches(manifest[i])))
  BY DEF Walk
<1> DEFINE p == manifest[i].path
<1>2. pc = "walk" /\ UNCHANGED <<manifest, inode, archived, opt, pc, rc>>
  BY DEF Walk
<1>3. /\ manifest \in Manifests /\ i \in Vetted(manifest)
      /\ manifest[i] \in Records /\ p \in Paths
      /\ node' \in [Paths -> Nodes]
      /\ Vetted(manifest) \subseteq Vetted(manifest)'
      /\ \A j \in Vetted(manifest) : j # i => manifest[j].path # p
  BY <1>1, <1>2, WalkStep
<1>4. TypeOK'
  BY <1>1, <1>2, <1>3 DEF IInv, TypeOK
<1>5. LedgerInv'
  BY <1>1, <1>2, <1>3 DEF IInv, LedgerInv
<1>6. \A q : q # p => node'[q] = node[q]
  BY <1>1, <1>3 DEF IInv, TypeOK
<1>7. ArchivedInv'
  <2> SUFFICES ASSUME opt.backup, ~ opt.dry, NEW j \in ledger', Regular(manifest[j].path)'
               PROVE  <<manifest[j].path, node'[manifest[j].path]>> \in archived
    BY <1>2 DEF ArchivedInv
  <2>1. j \in ledger /\ manifest[j].path # p
    BY <1>1, <1>3 DEF IInv, LedgerInv, Walk
  <2>2. node'[manifest[j].path] = node[manifest[j].path]
    BY <2>1, <1>6
  <2> QED
    BY <2>1, <2>2, <1>2 DEF IInv, ArchivedInv, Regular
<1>8. AccountsInv'
  <2> SUFFICES ASSUME ~ opt.dry PROVE AccountsInv'
    BY <1>2 DEF AccountsInv
  <2>1. ASSUME ~ refused', NEW j \in DOMAIN manifest \ ledger'
        PROVE  node'[manifest[j].path] = Absent \/ (mismatched' /\ ~ opt.force)
    <3>1. CASE j = i
      <4>1. node[p] \notin {Symlink, Directory}
        BY <1>1, <2>1
      <4>2. node[p] # Through
        BY <1>3, VettedAre
      <4>3. node[p] \in Digests \cup {Absent}
        BY <1>3, <4>1, <4>2 DEF IInv, TypeOK, Nodes
      <4> QED
        BY <4>3, <1>1, <1>3, <3>1, <2>1 DEF IInv, TypeOK, Regular, Removes
    <3>2. CASE j # i
      <4>1. node[manifest[j].path] = Absent \/ (mismatched /\ ~ opt.force)
        BY <1>1, <1>2, <2>1, <3>2 DEF IInv, AccountsInv
      <4>2. node[manifest[j].path] = Absent => node'[manifest[j].path] = Absent
        BY <1>1, <1>3, <1>6 DEF IInv, TypeOK
      <4> QED
        BY <4>1, <4>2, <1>1
    <3> QED
      BY <3>1, <3>2
  <2>2. ASSUME mismatched', ~ opt.force
        PROVE  \E j \in Vetted(manifest)' \ ledger' : LeftBehind(j)'
    <3>1. CASE mismatched
      <4>1. PICK j \in Vetted(manifest) \ ledger : LeftBehind(j)
        BY <3>1, <1>2, <2>2 DEF IInv, AccountsInv
      <4>2. node'[manifest[j].path] = node[manifest[j].path]
        BY <4>1, <1>1, <1>3, <1>6
      <4>3. LeftBehind(j)'
        BY <4>1, <4>2, <1>2 DEF LeftBehind, Regular, Matches
      <4> QED
        BY <4>1, <4>3, <1>1, <1>3
    <3>2. CASE ~ mismatched
      <4>1. Regular(p) /\ ~ Matches(manifest[i])
        BY <3>2, <2>2, <1>1
      <4>2. node' = node
        BY <4>1, <2>2, <1>1 DEF Removes
      <4>3. LeftBehind(i)'
        BY <4>1, <4>2, <1>2 DEF LeftBehind, Regular, Matches
      <4> QED
        BY <4>3, <1>1, <1>3
    <3> QED
      BY <3>1, <3>2
  <2> QED
    BY <2>1, <2>2, <1>2 DEF AccountsInv
<1> QED
  BY <1>2, <1>4, <1>5, <1>7, <1>8 DEF IInv, CleanStart, BackupInv

LEMMA AdopterStep == IInv /\ AdopterChanges => IInv'
<1> SUFFICES ASSUME IInv, AdopterChanges PROVE IInv'
  OBVIOUS
<1>1. node' \in [Paths -> Nodes]
  BY DEF IInv, TypeOK, AdopterChanges
<1>2. pc = "idle" /\ UNCHANGED <<manifest, inode, ledger, archived, refused,
                                 mismatched, opt, pc, rc>>
  BY DEF AdopterChanges
<1>3. TypeOK'
  BY <1>1, <1>2 DEF IInv, TypeOK
<1> QED
  BY <1>2, <1>3
     DEF IInv, CleanStart, LedgerInv, ArchivedInv, BackupInv, AccountsInv

-----------------------------------------------------------------------------
LEMMA InitInv == Init => IInv
<1> SUFFICES ASSUME Init PROVE IInv
  OBVIOUS
<1>1. TypeOK
  BY DEF Init, TypeOK, Options, Stages
<1> QED
  BY <1>1
     DEF Init, IInv, CleanStart, LedgerInv, ArchivedInv, BackupInv, AccountsInv

LEMMA NextInv == IInv /\ [Next]_vars => IInv'
<1> SUFFICES ASSUME IInv, [Next]_vars PROVE IInv'
  OBVIOUS
<1>1. CASE Start
  BY <1>1, StartStep
<1>2. CASE Vet
  BY <1>2, VetStep
<1>3. CASE Backup
  BY <1>3, BackupStep
<1>4. CASE BackupAbort
  BY <1>4, ExitStep DEF BackupAbort
<1>5. CASE Walk
  BY <1>5, WalkInv
<1>6. CASE WalkAbort
  BY <1>6, ExitStep DEF WalkAbort
<1>7. CASE Finish
  <2>1. PICK code \in {0, 5, 6} : Exit(code)
    BY <1>7 DEF Finish
  <2> QED
    BY <2>1, <1>7, ExitStep DEF Finish
<1>8. CASE Kill
  BY <1>8, ExitStep DEF Kill
<1>9. CASE AdopterChanges
  BY <1>9, AdopterStep
<1>10. CASE UNCHANGED vars
  <2>1. Vetted(manifest)' = Vetted(manifest)
    BY <1>10 DEF vars, Vetted, Distinct, Unique, Sane, RowsOf, Aliased, Exists
  <2>2. TypeOK' /\ CleanStart' /\ LedgerInv' /\ ArchivedInv' /\ BackupInv'
    BY <1>10, <2>1
       DEF vars, IInv, TypeOK, CleanStart, LedgerInv, ArchivedInv, BackupInv, Regular
  <2>3. AccountsInv'
    BY <1>10, <2>1 DEF vars, IInv, AccountsInv, LeftBehind, Regular, Matches
  <2> QED
    BY <2>2, <2>3 DEF IInv
<1> QED
  BY <1>1, <1>2, <1>3, <1>4, <1>5, <1>6, <1>7, <1>8, <1>9, <1>10 DEF Next, Step

(* The inductive invariant: a run only ever holds records that are vetted  *)
(* in the present state, and can account for every one it is through with. *)
THEOREM Invariance == Spec => []IInv
BY InitInv, NextInv, PTL DEF Spec

(* The variables of a run keep their types.                                *)
THEOREM TypeCorrect == Spec => []TypeOK
<1>1. IInv => TypeOK
  BY DEF IInv
<1> QED
  BY <1>1, Invariance, PTL

-----------------------------------------------------------------------------
(* A running run changes at most one path, the one of the record it has    *)
(* reached.                                                                *)
LEMMA OneRemoval ==
  ASSUME IInv, [Next]_vars, Running, NEW p \in Paths, node'[p] # node[p]
  PROVE  /\ manifest \in Manifests /\ Rows = manifest
         /\ \E i \in Vetted(manifest) :
              /\ i \in ledger /\ manifest[i].path = p
              /\ Regular(p) /\ Removes(manifest[i])
         /\ pc = "walk" /\ ~ opt.dry
<1>1. Walk
  BY DEF Next, Step, Running, Start, Vet, Backup, BackupAbort, WalkAbort,
         Finish, Kill, AdopterChanges, vars
<1>2. manifest \in Manifests /\ ledger \subseteq Vetted(manifest)
  BY DEF IInv, LedgerInv, Running
<1>3. Rows = manifest
  BY <1>2, Reading DEF Rows
<1>4. PICK i \in ledger :
        node' = IF Regular(manifest[i].path) /\ Removes(manifest[i]) /\ ~ opt.dry
                THEN [node EXCEPT ![manifest[i].path] = Absent] ELSE node
  BY <1>1 DEF Walk
<1>5. manifest[i].path = p /\ Regular(p) /\ Removes(manifest[i]) /\ ~ opt.dry
  BY <1>4 DEF IInv, TypeOK
<1> QED
  BY <1>1, <1>2, <1>3, <1>4, <1>5 DEF Walk

(* A path with two records, or with the inode of another recorded path, is *)
(* never removed, --force or not.                                          *)
THEOREM DoubtsStay == Spec => DoubtfulStays
<1>1. ASSUME IInv, [Next]_vars, Running, NEW p \in Paths,
             LET named == {i \in RowsOf(Rows, p) : Rows[i].kind = "file"}
             IN  \/ \E i, j \in named : i # j
                 \/ Aliased(Rows, Unique(Rows, Sane(Rows)), p)
      PROVE  node'[p] = node[p]
  <2> SUFFICES ASSUME node'[p] # node[p] PROVE FALSE
    OBVIOUS
  <2>1. PICK i \in Vetted(manifest) : manifest[i].path = p
    BY <1>1, OneRemoval
  <2>2. Rows = manifest
    BY <1>1, OneRemoval
  <2>3. CASE Aliased(Rows, Unique(Rows, Sane(Rows)), p)
    BY <2>1, <2>2, <2>3, VettedAre
  <2>4. ASSUME NEW j \in RowsOf(Rows, p), NEW k \in RowsOf(Rows, p), j # k,
               Rows[j].kind = "file", Rows[k].kind = "file"
        PROVE  FALSE
    <3>1. /\ j \in DOMAIN manifest /\ manifest[j].path = manifest[i].path
          /\ k \in DOMAIN manifest /\ manifest[k].path = manifest[i].path
      BY <2>1, <2>2, <2>4 DEF RowsOf
    <3>2. j = i /\ k = i
      BY <2>1, <2>2, <2>4, <3>1, NamedOnce
    <3> QED
      BY <3>2, <2>4
  <2> QED
    BY <1>1, <2>3, <2>4
<1>2. IInv /\ [Next]_vars =>
        [Running =>
           \A p \in Paths :
             LET named == {i \in RowsOf(Rows, p) : Rows[i].kind = "file"}
             IN  (named # {}
                  /\ \/ \E i, j \in named : i # j
                     \/ Aliased(Rows, Unique(Rows, Sane(Rows)), p))
                   => node'[p] = node[p]]_vars
  BY <1>1
<1> QED
  BY <1>2, Invariance, PTL DEF Spec, DoubtfulStays

(* Nothing goes but a recorded file, its bytes vouched for unless --force, *)
(* and with a backup nothing that the tarball does not hold.               *)
THEOREM OnlyRecordsGo == Spec => RemovedIsRecorded
<1>1. ASSUME IInv, [Next]_vars, Running, NEW p \in Paths, node'[p] # node[p]
      PROVE  /\ opt.backup => <<p, node[p]>> \in archived
             /\ \E i \in RowsOf(Rows, p) :
                  /\ Rows[i].kind = "file" /\ Regular(p)
                  /\ Rows[i].digest = node[p] \/ opt.force
  <2>1. PICK i \in Vetted(manifest) :
          i \in ledger /\ manifest[i].path = p /\ Regular(p) /\ Removes(manifest[i])
    BY <1>1, OneRemoval
  <2>2. Rows = manifest /\ pc = "walk" /\ ~ opt.dry
    BY <1>1, OneRemoval
  <2>3. opt.backup => <<p, node[p]>> \in archived
    BY <1>1, <2>1, <2>2 DEF IInv, ArchivedInv
  <2>4. i \in RowsOf(Rows, p) /\ Rows[i].kind = "file"
    BY <2>1, <2>2, VettedAre DEF RowsOf
  <2> QED
    BY <2>1, <2>2, <2>3, <2>4 DEF Removes, Matches
<1>2. IInv /\ [Next]_vars =>
        [Running =>
           \A p \in Paths :
             node'[p] # node[p] =>
               /\ opt.backup => <<p, node[p]>> \in archived
               /\ \E i \in RowsOf(Rows, p) :
                     /\ Rows[i].kind = "file" /\ Regular(p)
                     /\ Rows[i].digest = node[p] \/ opt.force]_vars
  BY <1>1
<1> QED
  BY <1>2, Invariance, PTL DEF Spec, RemovedIsRecorded

(* The exit code of a real run is true of what is on disk: 0 leaves no     *)
(* recorded path and no manifest, 5 leaves a file with other bytes, and    *)
(* any other code than 0 leaves the manifest.                              *)
THEOREM ExitIsTrue == Spec => ExitTellsTheTruth
<1>1. ASSUME IInv, [Next]_vars, pc = "walk", pc' = "idle", ~ opt.dry
      PROVE  /\ rc' = 0 => /\ manifest' = NoManifest
                           /\ \A i \in DOMAIN manifest :
                                node[manifest[i].path] = Absent
             /\ rc' = 5 => \E i \in DOMAIN manifest :
                             LET r == manifest[i]
                             IN  Regular(r.path) /\ ~ Matches(r)
             /\ rc' # 0 => manifest' = manifest
  <2>1. Finish \/ WalkAbort \/ Kill
    BY <1>1 DEF Next, Step, Start, Vet, Backup, BackupAbort, Walk,
                AdopterChanges, vars
  <2>2. CASE WalkAbort \/ Kill
    BY <2>2 DEF WalkAbort, Kill, Exit
  <2>3. CASE Finish
    <3>1. /\ ledger = {}
          /\ manifest' = IF Incomplete THEN manifest ELSE NoManifest
          /\ rc' = IF ~ Incomplete THEN 0 ELSE IF refused THEN 6 ELSE 5
      BY <1>1, <2>3 DEF Finish, Exit
    <3>2. ASSUME rc' = 0
          PROVE  /\ manifest' = NoManifest
                 /\ \A i \in DOMAIN manifest : node[manifest[i].path] = Absent
      <4>1. ~ Incomplete
        BY <3>1, <3>2
      <4>2. ~ refused /\ ~ (mismatched /\ ~ opt.force)
        BY <4>1 DEF Incomplete
      <4> QED
        BY <1>1, <3>1, <4>1, <4>2 DEF IInv, AccountsInv
    <3>3. ASSUME rc' = 5
          PROVE  \E i \in DOMAIN manifest :
                   Regular(manifest[i].path) /\ ~ Matches(manifest[i])
      <4>1. mismatched /\ ~ opt.force
        BY <3>1, <3>3 DEF Incomplete
      <4>2. PICK i \in Vetted(manifest) : LeftBehind(i)
        BY <1>1, <4>1 DEF IInv, AccountsInv
      <4> QED
        BY <4>2, VettedAre DEF LeftBehind
    <3> QED
      BY <3>1, <3>2, <3>3
  <2> QED
    BY <2>1, <2>2, <2>3
<1>2. IInv /\ [Next]_vars =>
        [pc = "walk" /\ pc' = "idle" /\ ~ opt.dry =>
         /\ rc' = 0 => /\ manifest' = NoManifest
                       /\ \A i \in DOMAIN manifest :
                            node[manifest[i].path] = Absent
         /\ rc' = 5 => \E i \in DOMAIN manifest :
                         LET r == manifest[i] IN Regular(r.path) /\ ~ Matches(r)
         /\ rc' # 0 => manifest' = manifest]_vars
  BY <1>1
<1> QED
  BY <1>2, Invariance, PTL DEF Spec, ExitTellsTheTruth
=============================================================================
