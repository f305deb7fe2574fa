----------------------------- MODULE PeersProofs -----------------------------
(***************************************************************************)
(* Proofs about Peers for every set of strings, peers, certificates, texts  *)
(* and command lines.                                                       *)
(*   - which step may write what: Invariance, FailureWritesNothing;         *)
(*   - what the parser makes of what the renderer writes, line by line, key *)
(*     by key and row by row, and when it fails or cuts a value: RoundTrip; *)
(*   - what a run and the files carry from step to step: Carries, and from  *)
(*     both the properties of Peers.                                        *)
(***************************************************************************)
EXTENDS Peers, SequenceTheorems, WellFoundedInduction, TLAPS

RunFields == {"pc", "o", "before", "text", "rows", "verbatim", "warned"}

\* A run in progress has its fields, warns about valid peers only, and finds
\* the output as it was until its write.
RunInOrder ==
    run # Idle =>
        /\ run = [x \in RunFields |-> run[x]]
        /\ run.pc \in {"migrate", "backup", "write", "advise"}
        /\ run.warned \subseteq PeerIds
        /\ run.pc # "advise" => files["out"] = run.before

IInv == TypeOK /\ RunInOrder

LEMMA FinishSteps ==
    ASSUME NEW code, Finish(code)
    PROVE  run' = Idle /\ exit' = code /\ excused' = excused
BY DEF Finish

LEMMA InvStep == IInv /\ [Next]_vars => IInv'
<1> SUFFICES ASSUME IInv, [Next]_vars PROVE IInv'
  OBVIOUS
<1> USE DEF IInv, RunFields
<1>1. ASSUME NEW o \in Usages, Start(o) PROVE IInv'
  <2> DEFINE v == IF BadUsage(o) THEN "generic" ELSE Verdict(o, files["in"])
  <2>1. /\ UNCHANGED <<files, author, certs, sidecars>> /\ run = Idle
        /\ IF v \in Exits THEN Finish(v)
           ELSE /\ run' = [pc |-> IF v = "verbatim" THEN "backup" ELSE "migrate", o |-> o,
                           before |-> files["out"], text |-> files["in"], rows |-> Rows(files["in"]),
                           verbatim |-> v = "verbatim", warned |-> {}]
                /\ exit' = "none" /\ UNCHANGED excused
    BY <1>1 DEF Start
  <2> HIDE DEF v
  <2>2. CASE v \in Exits
    BY <2>1, <2>2, FinishSteps DEF TypeOK, RunInOrder, Idle
  <2>3. CASE v \notin Exits
    BY <2>1, <2>3 DEF TypeOK, RunInOrder, Idle, Exits
  <2> QED BY <2>2, <2>3
<1>2. CASE Migrate
  <2> DEFINE rows == run.rows
             skip == run.o.skip
             new == [i \in DOMAIN rows |-> Migrated(rows[i], skip)]
             warned == {Text(row, "peer_id") : row \in
                           {r \in {rows[i] : i \in DOMAIN rows} : ~skip /\ BelowFloor(r)}}
  <2>1. /\ run.pc = "migrate" /\ UNCHANGED <<files, author, certs, sidecars>>
        /\ \/ Finish("generic") \/ Finish("ok") \/ Finish("nonconformant")
           \/ /\ ~(\E i \in DOMAIN rows : ~Migratable(rows[i], skip))
              /\ run' = [run EXCEPT !.pc = "backup", !.rows = new, !.warned = warned]
              /\ UNCHANGED <<exit, excused>>
    BY <1>2 DEF Migrate
  <2>2. CASE Finish("generic") \/ Finish("ok") \/ Finish("nonconformant")
    BY <2>1, <2>2, FinishSteps DEF TypeOK, RunInOrder, Idle, Exits
  <2>3. CASE /\ ~(\E i \in DOMAIN rows : ~Migratable(rows[i], skip))
             /\ run' = [run EXCEPT !.pc = "backup", !.rows = new, !.warned = warned]
             /\ UNCHANGED <<exit, excused>>
    <3>1. warned \subseteq PeerIds
      BY <2>3 DEF Migratable, BelowFloor
    <3> HIDE DEF new, warned, rows
    <3>2. run # Idle
      BY <2>1 DEF Idle
    <3>3. /\ run' = [x \in RunFields |-> run'[x]] /\ run'.pc = "backup" /\ run'.warned = warned
          /\ run'.before = run.before
      BY <2>3, <3>2 DEF RunInOrder
    <3> QED BY <2>1, <2>3, <3>1, <3>2, <3>3 DEF TypeOK, RunInOrder
  <2> QED BY <2>1, <2>2, <2>3
<1>3. CASE Backup
  <2>1. CASE Finish("generic")
    BY <1>3, <2>1, FinishSteps DEF Backup, TypeOK, RunInOrder, Idle, Exits
  <2>2. CASE run' = [run EXCEPT !.pc = "write"] /\ UNCHANGED <<exit, excused>>
    <3>1. run # Idle
      BY <1>3 DEF Backup, Idle
    <3>2. /\ run' = [x \in RunFields |-> run'[x]] /\ run'.pc = "write" /\ run'.warned = run.warned
          /\ run'.before = run.before
      BY <2>2, <3>1 DEF RunInOrder
    <3> QED BY <1>3, <2>2, <3>1, <3>2 DEF Backup, TypeOK, RunInOrder
  <2> QED BY <1>3, <2>1, <2>2 DEF Backup
<1>4. CASE Write
  <2>1. CASE Finish("generic") /\ UNCHANGED <<files, author>>
    BY <1>4, <2>1, FinishSteps DEF Write, TypeOK, RunInOrder, Idle, Exits
  <2>2. CASE /\ run' = [run EXCEPT !.pc = "advise"] /\ UNCHANGED <<exit, excused>>
             /\ files' = [files EXCEPT ![run.o.out] = IF run.verbatim THEN files["in"] ELSE Emit(run.rows)]
             /\ author' = [author EXCEPT ![run.o.out] =
                              IF run.verbatim /\ files["in"] # run.text THEN "unread"
                              ELSE IF ~run.verbatim /\ ~Readable(run.rows) THEN "moved" ELSE "tool"]
    <3>1. run # Idle
      BY <1>4 DEF Write, Idle
    <3>2. run' = [x \in RunFields |-> run'[x]] /\ run'.pc = "advise" /\ run'.warned = run.warned
      BY <2>2, <3>1 DEF RunInOrder
    <3>3. DOMAIN files' = {"in", "out"} /\ author' \in [{"in", "out"} -> Authors]
      BY <2>2 DEF TypeOK, Authors
    <3> QED BY <1>4, <2>2, <3>1, <3>2, <3>3 DEF Write, TypeOK, RunInOrder
  <2> QED BY <1>4, <2>1, <2>2 DEF Write
<1>5. CASE Advise
  <2>1. CASE Finish("ok") /\ UNCHANGED sidecars
    BY <1>5, <2>1, FinishSteps DEF Advise, TypeOK, RunInOrder, Idle, Exits
  <2>2. ASSUME NEW p \in run.warned, run' = [run EXCEPT !.warned = @ \ {p}], exit' = exit,
               sidecars' \subseteq sidecars \cup {p}, excused' \subseteq excused \cup {p}
        PROVE  IInv'
    <3>1. run # Idle
      BY <1>5 DEF Advise, Idle
    <3>2. /\ run' = [x \in RunFields |-> run'[x]] /\ run'.pc = "advise"
          /\ run'.warned = run.warned \ {p}
      BY <1>5, <2>2, <3>1 DEF Advise, RunInOrder
    <3>3. UNCHANGED <<files, author, certs>> /\ p \in PeerIds
      BY <1>5, <2>2, <3>1 DEF Advise, RunInOrder
    <3> QED BY <2>2, <3>1, <3>2, <3>3 DEF TypeOK, RunInOrder
  <2> QED BY <1>5, <2>1, <2>2 DEF Advise, SidecarFails
<1>6. CASE Kill
  <2>1. (IF run.pc = "advise" THEN run.warned ELSE {}) \subseteq PeerIds
    BY <1>6 DEF Kill, RunInOrder
  <2> QED BY <1>6, <2>1 DEF Kill, TypeOK, RunInOrder, Idle, Exits
<1>7. CASE Operator
  <2>1. /\ UNCHANGED <<certs, sidecars, run, excused>> /\ exit' = "none"
        /\ DOMAIN files' = {"in", "out"} /\ files'["out"] = files["out"]
        /\ author' \in [{"in", "out"} -> Authors]
    <3>1. ASSUME NEW text, Edited(text) PROVE <2>1
      BY <3>1 DEF Edited, TypeOK, Authors
    <3>2. CASE /\ files' = [files EXCEPT !["in"] = files["out"]]
               /\ author' = [author EXCEPT !["in"] = author["out"]]
               /\ exit' = "none" /\ UNCHANGED <<certs, sidecars, run, excused>>
      BY <3>2 DEF TypeOK
    <3> QED BY <1>7, <3>1, <3>2 DEF Operator
  <2> QED BY <2>1 DEF TypeOK, RunInOrder, Exits
<1>8. CASE Renew
  <2>1. certs' \in [PeerIds -> Certs \cup {NoCert}]
    BY <1>8 DEF Renew, TypeOK, Certs
  <2> QED BY <1>8, <2>1 DEF Renew, TypeOK, RunInOrder, Exits
<1>9. CASE UNCHANGED vars
  BY <1>9 DEF vars, TypeOK, RunInOrder, Certs
<1> QED BY <1>1, <1>2, <1>3, <1>4, <1>5, <1>6, <1>7, <1>8, <1>9 DEF Next, Run

LEMMA InvInit == Init => IInv
BY DEF Init, IInv, TypeOK, RunInOrder, Idle, Authors, Exits

\* The inductive invariant of a run holds throughout.
THEOREM Invariance == Spec => []IInv
BY InvInit, InvStep, PTL DEF Spec

\* Every variable keeps its type: advisories and exit codes are the known ones.
THEOREM TypeCorrect == Spec => []TypeOK
<1>1. IInv => TypeOK
  BY DEF IInv
<1> QED BY <1>1, Invariance, PTL

\* No failing run leaves a changed output, whatever the surroundings do.
THEOREM FailureWritesNothing == Spec => FailsLoud
<1>1. IInv /\ [Next]_vars =>
        [run # Idle /\ exit' \in {"generic", "corrupt", "nonconformant"} /\ run' = Idle /\ run.pc # "idle"
            => files'["out"] = run.before]_vars
  <2> SUFFICES ASSUME IInv, Next, run # Idle, exit' \in {"generic", "corrupt", "nonconformant"},
                      run' = Idle
               PROVE  files'["out"] = run.before
    BY DEF vars
  <2>1. run.pc \in {"migrate", "backup", "write", "advise"} /\ (run.pc # "advise" => files["out"] = run.before)
    BY DEF IInv, RunInOrder
  <2>2. ~(\E o \in Usages : Start(o)) /\ ~Operator /\ ~Renew
    BY DEF Start, Operator, Edited, Renew
  <2>3. ~Kill
    BY DEF Kill
  <2>4. ~Advise
    <3>1. SUFFICES ASSUME Advise PROVE FALSE
      OBVIOUS
    <3>2. exit' # "ok"
      OBVIOUS
    <3>3. PICK p \in run.warned : run' = [run EXCEPT !.warned = @ \ {p}]
      BY <3>1, <3>2 DEF Advise, Finish, SidecarFails
    <3>4. run'.pc = "advise"
      BY <3>1, <3>3 DEF Advise, IInv, RunInOrder, RunFields
    <3> QED BY <3>4 DEF Idle
  <2>5. CASE Migrate
    BY <2>1, <2>5 DEF Migrate
  <2>6. CASE Backup
    BY <2>1, <2>6 DEF Backup
  <2>7. CASE Write
    <3>1. UNCHANGED files
      <4>1. SUFFICES ASSUME run' = [run EXCEPT !.pc = "advise"] PROVE FALSE
        BY <2>7 DEF Write
      <4>2. run'.pc = "advise"
        BY <4>1 DEF IInv, RunInOrder, RunFields
      <4> QED BY <4>2 DEF Idle
    <3> QED BY <2>1, <2>7, <3>1 DEF Write
  <2> QED BY <2>2, <2>3, <2>4, <2>5, <2>6, <2>7 DEF Next, Run
<1> QED BY <1>1, Invariance, PTL DEF Spec, FailsLoud
-----------------------------------------------------------------------------
\* Recursion over the naturals, without a theorem that takes an operator.

LEMMA Induction ==
    ASSUME NEW S, 0 \in S, \A n \in Nat : n \in S => n + 1 \in S
    PROVE  Nat \subseteq S
<1> SUFFICES ASSUME Nat \ S # {} PROVE FALSE
  OBVIOUS
<1>1. PICK m \in Nat \ S : \A n \in Nat \ S : ~(<<n, m>> \in OpToRel(<, Nat))
  BY NatLessThanWellFounded, WFMin
<1>2. m # 0 /\ m - 1 \in Nat /\ m - 1 < m /\ (m - 1) + 1 = m
  OBVIOUS
<1>3. m - 1 \in S
  BY <1>1, <1>2 DEF OpToRel
<1> QED BY <1>2, <1>3

\* A function may be given by its first value and its steps.
GoesThrough(f, L, x, step) == f[0] = x /\ \A n \in 1..L : f[n] = step[n][f[n - 1]]

LEMMA Recursion ==
    ASSUME NEW L \in Nat, NEW S, NEW x \in S, NEW step \in [1..L -> [S -> S]]
    PROVE  \E f \in [0..L -> S] : GoesThrough(f, L, x, step)
<1> DEFINE Upto(m, f) == f[0] = x /\ \A n \in 1..m : f[n] = step[n][f[n - 1]]
           Good == {m \in Nat : m <= L => \E f \in [0..m -> S] : Upto(m, f)}
<1>1. 0 \in Good
  <2>1. [n \in 0..0 |-> x] \in [0..0 -> S] /\ Upto(0, [n \in 0..0 |-> x])
    OBVIOUS
  <2> QED BY <2>1
<1>2. ASSUME NEW m \in Nat, m \in Good PROVE m + 1 \in Good
  <2> SUFFICES ASSUME m + 1 <= L PROVE \E f \in [0..m + 1 -> S] : Upto(m + 1, f)
    OBVIOUS
  <2>1. PICK f \in [0..m -> S] : Upto(m, f)
    BY <1>2
  <2> DEFINE g == [n \in 0..m + 1 |-> IF n = m + 1 THEN step[m + 1][f[m]] ELSE f[n]]
  <2>2. g \in [0..m + 1 -> S]
    <3>1. m + 1 \in 1..L /\ m \in 0..m /\ f[m] \in S
      OBVIOUS
    <3>2. step[m + 1][f[m]] \in S
      BY <3>1
    <3> QED BY <3>2
  <2>3. g[0] = x
    BY <2>1
  <2>4. ASSUME NEW n \in 1..m + 1 PROVE g[n] = step[n][g[n - 1]]
    <3>1. CASE n = m + 1
      BY <3>1
    <3>2. CASE n \in 1..m
      <4>1. g[n] = f[n] /\ g[n - 1] = f[n - 1]
        BY <3>2
      <4> QED BY <2>1, <3>2, <4>1
    <3> QED BY <3>1, <3>2
  <2> QED BY <2>2, <2>3, <2>4
<1> HIDE DEF Good
<1>3. L \in Good
  BY <1>1, <1>2, Induction
<1> QED BY <1>3 DEF Good, GoesThrough

-----------------------------------------------------------------------------
\* The parser, line by line.

Values == Scalars \cup [t : {"list"}, items : Seq(Words)]
RowSet == UNION {[D -> Values] : D \in SUBSET Keys}
Current(st) == st.rows[Len(st.rows)]

\* An indent under which a list goes on is deeper than that of any row, and
\* belongs to a list of the current row.
States ==
    {st \in [peers : BOOLEAN, rows : Seq(RowSet), item : Nat \cup {-1}, nested : Nat \cup {-1},
             list : Keys \cup {""}, bad : BOOLEAN] :
        /\ st.item = -1 <=> st.rows = << >>
        /\ st.nested # -1 =>
              /\ st.nested >= 3 /\ st.rows # << >>
              /\ st.list \in DOMAIN Current(st) /\ Current(st)[st.list].t = "list"}

LEMMA StartType == ParserStart \in States
<1>1. << >> \in Seq(RowSet)
  OBVIOUS
<1> QED BY <1>1 DEF ParserStart, States

LEMMA ValueKinds ==
    /\ \A v \in Values : v.t \in {"word", "flag", "list"} /\ (v.t = "list" <=> v \notin Scalars)
    /\ \A v \in Values : v.t = "list" => v.items \in Seq(Words) /\ v = List(v.items)
    /\ \A v \in Scalars : v.t \in {"word", "flag"} /\ v \notin {Bare, Brackets}
    /\ Bare \notin Scalars /\ Brackets \notin Scalars /\ Bare # Brackets
    /\ \A items \in Seq(Words) : List(items) \in Values /\ List(items).t = "list" /\ List(items).items = items
BY DEF Values, Scalars, Words, List, Bare, Brackets

\* What _strip_comment and _unquote make of a value.
LEMMA UnquotedType ==
    /\ \A v \in Scalars : Unquoted(v) = v
    /\ \A v \in ItemValues : Unquoted(v) \in Words /\ v \notin {Bare, Brackets}
    /\ \A s \in Strings : Str(s) \in Words
    /\ Words \subseteq Scalars
<1>1. \A v \in Scalars : Unquoted(v) = v
  BY DEF Scalars, Words, Unquoted
<1>2. \A s \in Strings : Str(s) \in Words
  BY DEF Str, Word, Words
<1>3. ASSUME NEW v \in ItemValues PROVE Unquoted(v) \in Words /\ v \notin {Bare, Brackets}
  <2>1. v \notin {Bare, Brackets}
    BY DEF ItemValues, Words, Bare, Brackets
  <2>2. CASE v \in Words
    BY <1>1, <2>1, <2>2 DEF Scalars
  <2>3. CASE v \in [t : {"quoted"}, s : Strings, esc : Nat] /\ v.s \notin Hashed
    BY <2>1, <2>3 DEF Unquoted, Word, Words
  <2>4. CASE v \in [t : {"quoted"}, s : Strings, esc : Nat] /\ v.s \in Hashed
    <3>1. LeftPlain[v.s] \in Strings /\ LeftEscaped[v.s] \in Strings
      BY <2>4, StringsAssumption
    <3>2. Unquoted(v) = Str(LeftPlain[v.s]) \/ Unquoted(v) = Str(LeftEscaped[v.s])
      BY <2>4 DEF Unquoted
    <3> QED BY <1>2, <2>1, <3>1, <3>2
  <2> QED BY <2>2, <2>3, <2>4 DEF ItemValues
<1> QED BY <1>1, <1>2, <1>3 DEF Scalars

\* What a value of a line says.
Said(v) == IF v \in {Bare, Brackets} THEN List(<< >>) ELSE Unquoted(v)

LEMMA SaidType == \A v \in LineValues : Said(v) \in Values
<1>1. << >> \in Seq(Words)
  OBVIOUS
<1>2. List(<< >>) \in Values
  BY <1>1, ValueKinds
<1>3. \A v \in Scalars \cup ItemValues : Unquoted(v) \in Values
  BY UnquotedType DEF Values
<1> QED BY <1>2, <1>3 DEF Said, LineValues

LEMMA RowFacts ==
    /\ << >> \in RowSet /\ DOMAIN << >> = {}
    /\ \A row \in RowSet : DOMAIN row \in SUBSET Keys /\ row \in [DOMAIN row -> Values]
    /\ \A D \in SUBSET Keys : [D -> Values] \subseteq RowSet
<1>1. << >> \in [{} -> Values] /\ DOMAIN << >> = {}
  OBVIOUS
<1> QED BY <1>1 DEF RowSet

LEMMA WithIs ==
    ASSUME NEW row \in RowSet, NEW k \in Keys, NEW v \in Values
    PROVE  /\ With(row, k, v) \in RowSet
           /\ DOMAIN With(row, k, v) = DOMAIN row \cup {k}
           /\ With(row, k, v)[k] = v
           /\ \A j \in DOMAIN row : j # k => With(row, k, v)[j] = row[j]
<1>1. DOMAIN row \cup {k} \in SUBSET Keys
  BY RowFacts
<1>2. With(row, k, v) \in [DOMAIN row \cup {k} -> Values]
  BY RowFacts DEF With
<1> QED BY <1>1, <1>2, RowFacts DEF With

LEMMA LastOf ==
    ASSUME NEW S, NEW s \in Seq(S), s # << >>
    PROVE  Len(s) \in Nat /\ Len(s) >= 1 /\ s[Len(s)] \in S
<1>1. Len(s) \in Nat /\ Len(s) # 0
  BY EmptySeq
<1> QED BY <1>1

LEMMA StateFields ==
    ASSUME NEW st \in States
    PROVE  /\ st = [peers |-> st.peers, rows |-> st.rows, item |-> st.item,
                    nested |-> st.nested, list |-> st.list, bad |-> st.bad]
           /\ st.peers \in BOOLEAN /\ st.bad \in BOOLEAN /\ st.rows \in Seq(RowSet)
           /\ st.item \in Nat \cup {-1} /\ st.nested \in Nat \cup {-1} /\ st.list \in Keys \cup {""}
           /\ st.item = -1 <=> st.rows = << >>
           /\ st.nested # -1 => /\ st.nested >= 3 /\ st.rows # << >>
                                /\ st.list \in DOMAIN Current(st) /\ Current(st)[st.list].t = "list"
           /\ st.rows # << >> => Len(st.rows) \in Nat /\ Len(st.rows) >= 1 /\ Current(st) \in RowSet
<1>1. st \in [peers : BOOLEAN, rows : Seq(RowSet), item : Nat \cup {-1}, nested : Nat \cup {-1},
              list : Keys \cup {""}, bad : BOOLEAN]
  BY DEF States
<1>2. st.rows \in Seq(RowSet)
  BY <1>1
<1>3. st.rows # << >> => Len(st.rows) \in Nat /\ Len(st.rows) >= 1 /\ Current(st) \in RowSet
  BY <1>2, LastOf DEF Current
<1>4. /\ st.item = -1 <=> st.rows = << >>
      /\ st.nested # -1 => /\ st.nested >= 3 /\ st.rows # << >>
                           /\ st.list \in DOMAIN Current(st) /\ Current(st)[st.list].t = "list"
  BY DEF States
<1>5. /\ st = [peers |-> st.peers, rows |-> st.rows, item |-> st.item,
               nested |-> st.nested, list |-> st.list, bad |-> st.bad]
      /\ st.peers \in BOOLEAN /\ st.bad \in BOOLEAN
      /\ st.item \in Nat \cup {-1} /\ st.nested \in Nat \cup {-1} /\ st.list \in Keys \cup {""}
  BY <1>1
<1> QED BY <1>2, <1>3, <1>4, <1>5

LEMMA StateRows ==
    ASSUME NEW st \in States
    PROVE  st.rows \in Seq(RowSet) /\ (st.rows # << >> => Current(st) \in RowSet)
BY StateFields

LEMMA StateIndents ==
    ASSUME NEW st \in States
    PROVE  /\ st.item \in Nat \cup {-1} /\ (st.item = -1 <=> st.rows = << >>)
           /\ st.nested \in Nat \cup {-1} /\ (st.nested # -1 => st.nested >= 3)
BY StateFields

LEMMA MakeState ==
    ASSUME NEW peers \in BOOLEAN, NEW rows \in Seq(RowSet), NEW item \in Nat \cup {-1},
           NEW nested \in Nat \cup {-1}, NEW list \in Keys \cup {""}, NEW bad \in BOOLEAN,
           item = -1 <=> rows = << >>,
           nested # -1 => /\ nested >= 3 /\ rows # << >>
                          /\ list \in DOMAIN rows[Len(rows)] /\ rows[Len(rows)][list].t = "list"
    PROVE  [peers |-> peers, rows |-> rows, item |-> item, nested |-> nested, list |-> list, bad |-> bad] \in States
BY DEF States, Current

\* The rows when the current one is replaced, and a state by its parts.
At(s, n, e) == [s EXCEPT ![n] = e]
Replaced(st, row) == At(st.rows, Len(st.rows), row)
Became(after, rows, st, item, nested, list) ==
    /\ after \in States /\ after.rows = rows
    /\ after.peers = st.peers /\ after.bad = st.bad
    /\ after.item = item /\ after.nested = nested /\ after.list = list

\* Where a list goes on that a bare key opened, and the key.
ListIndent(v, deeper) == IF v = Bare THEN deeper ELSE -1
ListKey(v, k) == IF v = Bare THEN k ELSE ""

\* The value with which a key enters the current row, and the state after it.
LEMMA PutIs ==
    ASSUME NEW st \in States, st.rows # << >>, NEW k \in Keys, NEW v \in LineValues,
           NEW deeper \in Nat, deeper >= 3
    PROVE  Became(Put(st, k, v, deeper), Replaced(st, With(Current(st), k, Said(v))), st,
                  st.item, ListIndent(v, deeper), ListKey(v, k))
<1> DEFINE n == Len(st.rows)
           row == With(Current(st), k, Said(v))
           rows == [st.rows EXCEPT ![n] = row]
           nested == IF v = Bare THEN deeper ELSE -1
           list == IF v = Bare THEN k ELSE ""
           after == Put(st, k, v, deeper)
<1>1. /\ st.rows \in Seq(RowSet) /\ n \in Nat /\ n >= 1 /\ Current(st) \in RowSet
      /\ st.peers \in BOOLEAN /\ st.bad \in BOOLEAN /\ st.item \in Nat \cup {-1} /\ st.item # -1
      /\ st = [peers |-> st.peers, rows |-> st.rows, item |-> st.item,
               nested |-> st.nested, list |-> st.list, bad |-> st.bad]
  BY StateFields
<1>2. /\ row \in RowSet /\ k \in DOMAIN row /\ row[k] = Said(v)
  <2>1. Current(st) \in RowSet /\ Said(v) \in Values
    BY <1>1, SaidType
  <2>2. /\ With(Current(st), k, Said(v)) \in RowSet
        /\ DOMAIN With(Current(st), k, Said(v)) = DOMAIN Current(st) \cup {k}
        /\ With(Current(st), k, Said(v))[k] = Said(v)
    BY <2>1, WithIs
  <2> QED BY <2>2
<1>3. after = [peers |-> st.peers, rows |-> rows, item |-> st.item,
               nested |-> nested, list |-> list, bad |-> st.bad]
  <2>1. after = [st EXCEPT !.rows = rows, !.nested = nested, !.list = list]
    BY <1>1 DEF Put, Said, Current
  <2> HIDE DEF rows, nested, list, after
  <2> QED BY <1>1, <2>1
<1> HIDE DEF row
<1>4. rows \in Seq(RowSet) /\ Len(rows) = n /\ rows[n] = row /\ rows # << >>
  BY <1>1, <1>2
<1>5. v = Bare => row[k].t = "list"
  BY <1>2 DEF Said, List
<1> HIDE DEF rows
<1>6. [peers |-> st.peers, rows |-> rows, item |-> st.item,
       nested |-> nested, list |-> list, bad |-> st.bad] \in States
  BY <1>1, <1>2, <1>4, <1>5, MakeState
<1>7. after \in States
  BY <1>3, <1>6
<1> HIDE DEF after, n, nested, list
<1>9. /\ after.rows = rows /\ after.peers = st.peers /\ after.bad = st.bad /\ after.item = st.item
      /\ after.nested = nested /\ after.list = list
  BY <1>3
<1> QED BY <1>7, <1>9 DEF after, n, nested, list, rows, row, Became, Replaced, At, ListIndent, ListKey

LEMMA ReplaceLast ==
    ASSUME NEW S, NEW s \in Seq(S), s # << >>, NEW e \in S
    PROVE  LET t == [s EXCEPT ![Len(s)] = e]
           IN  t \in Seq(S) /\ Len(t) = Len(s) /\ t[Len(t)] = e /\ t # << >>
<1> DEFINE t == [s EXCEPT ![Len(s)] = e]
<1>1. Len(s) \in Nat /\ Len(s) >= 1 /\ Len(s) \in 1..Len(s)
  BY LastOf
<1>2. t \in Seq(S) /\ Len(t) = Len(s) /\ t[Len(s)] = e
  BY <1>1, ExceptSeq
<1> QED BY <1>1, <1>2, EmptySeq

LEMMA AppendLast ==
    ASSUME NEW S, NEW s \in Seq(S), NEW e \in S
    PROVE  LET t == Append(s, e)
           IN  t \in Seq(S) /\ Len(t) = Len(s) + 1 /\ t[Len(t)] = e /\ t # << >>
BY AppendProperties, LenProperties

\* A line that goes on with the list of the current row, and one that opens a row.
GoneOn(st, ln) ==
    [st EXCEPT !.rows[Len(st.rows)][st.list].items = Append(@, ItemText(ln))]
Extended(st, value) ==
    [Current(st) EXCEPT ![st.list] = List(Append(Current(st)[st.list].items, value))]
Opened(st, ln) == [st EXCEPT !.rows = Append(@, << >>), !.item = ln.indent, !.nested = -1]

LEMMA LineKinds ==
    ASSUME NEW ln \in Lines
    PROVE  /\ ln.kind \in {"peers", "item", "dash", "field"}
           /\ ln.kind # "peers" => ln.indent \in Nat /\ ln.value \in LineValues
           /\ ln.kind \in {"item", "field"} => ln.key \in Keys
           /\ ln.kind \in {"item", "dash"} => ItemText(ln) \in Words
           /\ ln.kind = "dash" => ItemText(ln) = Unquoted(ln.value)
<1>1. ln.kind = "dash" => ln.value \in ItemValues
  BY DEF Lines, Heading
<1>2. ln.kind \in {"item", "dash"} => ItemText(ln) \in Words
  BY <1>1, UnquotedType, StringsAssumption DEF ItemText
<1>3. /\ ln.kind \in {"peers", "item", "dash", "field"}
      /\ ln.kind # "peers" => ln.indent \in Nat /\ ln.value \in LineValues
      /\ ln.kind \in {"item", "field"} => ln.key \in Keys
  BY <1>1 DEF Lines, Heading, LineValues
<1> QED BY <1>2, <1>3 DEF ItemText

LEMMA GoesOn ==
    ASSUME NEW st \in States, st.nested # -1, NEW ln \in Lines, ln.kind \in {"item", "dash"}
    PROVE  /\ st.rows # << >> /\ st.list \in DOMAIN Current(st)
           /\ Became(GoneOn(st, ln), Replaced(st, Extended(st, ItemText(ln))), st, st.item, st.nested, st.list)
<1> DEFINE n == Len(st.rows)
           old == Current(st)[st.list]
           new == List(Append(old.items, ItemText(ln)))
           row == [Current(st) EXCEPT ![st.list] = new]
           rows == [st.rows EXCEPT ![n] = row]
           after == GoneOn(st, ln)
<1>1. /\ st.rows \in Seq(RowSet) /\ st.rows # << >> /\ n \in Nat /\ n >= 1 /\ Current(st) \in RowSet
      /\ st.peers \in BOOLEAN /\ st.bad \in BOOLEAN /\ st.item \in Nat \cup {-1} /\ st.item # -1
      /\ st.nested \in Nat \cup {-1} /\ st.nested >= 3 /\ st.list \in Keys \cup {""}
      /\ st.list \in DOMAIN Current(st) /\ Current(st)[st.list].t = "list"
      /\ st = [peers |-> st.peers, rows |-> st.rows, item |-> st.item,
               nested |-> st.nested, list |-> st.list, bad |-> st.bad]
  BY StateFields
<1>2. old \in Values /\ old.t = "list"
  BY <1>1, RowFacts
<1>3. old.items \in Seq(Words) /\ old = List(old.items)
  BY <1>2, ValueKinds
<1>4. Append(old.items, ItemText(ln)) \in Seq(Words)
  BY <1>3, LineKinds
<1>5. new \in Values /\ new.t = "list"
  BY <1>4, ValueKinds
<1> HIDE DEF new
<1>6. row \in RowSet /\ DOMAIN row = DOMAIN Current(st) /\ row[st.list] = new
  <2> DEFINE D == DOMAIN Current(st)
  <2>1. D \in SUBSET Keys /\ Current(st) \in [D -> Values]
    BY <1>1, RowFacts
  <2>2. row \in [D -> Values]
    BY <1>5, <2>1
  <2> QED BY <1>1, <2>1, <2>2, RowFacts
<1>7. rows \in Seq(RowSet) /\ Len(rows) = n /\ rows[n] = row /\ rows # << >>
  <2> HIDE DEF row
  <2>1. st.rows \in Seq(RowSet) /\ st.rows # << >> /\ row \in RowSet
    BY <1>1, <1>6
  <2>2. rows \in Seq(RowSet) /\ Len(rows) = Len(st.rows) /\ rows[Len(rows)] = row /\ rows # << >>
    BY <2>1, ReplaceLast
  <2> QED BY <2>2
<1>8. after = [peers |-> st.peers, rows |-> rows, item |-> st.item,
               nested |-> st.nested, list |-> st.list, bad |-> st.bad]
  <2>1. [old EXCEPT !.items = Append(old.items, ItemText(ln))] = new
    <3>1. \A items, more : [List(items) EXCEPT !.items = more] = List(more)
      BY DEF List
    <3> HIDE DEF old
    <3> QED BY <1>3, <3>1 DEF new
  <2>2. after = [st EXCEPT !.rows = [st.rows EXCEPT ![n] =
                  [Current(st) EXCEPT ![st.list] = [old EXCEPT !.items = Append(old.items, ItemText(ln))]]]]
    BY <1>1 DEF GoneOn, Current
  <2>3. after = [st EXCEPT !.rows = rows]
    BY <2>1, <2>2
  <2> HIDE DEF rows, after
  <2> QED BY <1>1, <2>3
<1> HIDE DEF row, after
<1>9. after \in States
  <2> HIDE DEF rows, n
  <2> QED BY <1>1, <1>5, <1>6, <1>7, <1>8, MakeState
<1>10. /\ after.rows = rows /\ after.peers = st.peers /\ after.bad = st.bad /\ after.item = st.item
       /\ after.nested = st.nested /\ after.list = st.list
  <2> HIDE DEF rows
  <2> QED BY <1>8
<1> QED BY <1>1, <1>9, <1>10 DEF row, rows, new, after, Became, Replaced, At, Extended

LEMMA Opens ==
    ASSUME NEW st \in States, NEW ln \in Lines, ln.kind # "peers"
    PROVE  Became(Opened(st, ln), Append(st.rows, << >>), st, ln.indent, -1, st.list)
<1> DEFINE rows == Append(st.rows, << >>)
           after == Opened(st, ln)
<1>1. /\ st.rows \in Seq(RowSet) /\ << >> \in RowSet
      /\ st.peers \in BOOLEAN /\ st.bad \in BOOLEAN /\ st.list \in Keys \cup {""} /\ ln.indent \in Nat
      /\ st = [peers |-> st.peers, rows |-> st.rows, item |-> st.item,
               nested |-> st.nested, list |-> st.list, bad |-> st.bad]
  BY StateFields, LineKinds, RowFacts
<1>2. rows \in Seq(RowSet) /\ rows # << >> /\ Len(rows) = Len(st.rows) + 1 /\ rows[Len(rows)] = << >>
  BY <1>1, AppendLast
<1>3. after = [peers |-> st.peers, rows |-> rows, item |-> ln.indent,
               nested |-> -1, list |-> st.list, bad |-> st.bad]
  <2>1. after = [st EXCEPT !.rows = rows, !.item = ln.indent, !.nested = -1]
    BY DEF Opened
  <2> HIDE DEF rows, after
  <2> QED BY <1>1, <2>1
<1> HIDE DEF rows, after
<1>4. after \in States
  <2>0. ln.indent \in Nat
    BY LineKinds
  <2>1. -1 \in Nat \cup {-1} /\ ln.indent \in Nat \cup {-1} /\ ln.indent # -1
    BY <2>0
  <2> QED BY <1>1, <1>2, <1>3, <2>1, MakeState
<1>5. /\ after.rows = rows /\ after.peers = st.peers /\ after.bad = st.bad
      /\ after.item = ln.indent /\ after.nested = -1 /\ after.list = st.list
  BY <1>3
<1> QED BY <1>4, <1>5 DEF Became, rows, after

\* What one line does, by the kinds of lines.
LEMMA LineRead ==
    ASSUME NEW st \in States, ~st.bad, st.peers, NEW ln \in Lines, ln.kind # "peers"
    PROVE  /\ Nested(st, ln) => /\ st.nested # -1 /\ ln.kind \in {"item", "dash"}
                                 /\ ParseLine(st, ln) = GoneOn(st, ln)
           /\ ~Nested(st, ln) /\ OpensRow(st, ln) =>
                 ParseLine(st, ln) = IF ln.kind = "item" THEN Put(Opened(st, ln), ln.key, ln.value, ln.indent + 4)
                                     ELSE Opened(st, ln)
           /\ ~Nested(st, ln) /\ ~OpensRow(st, ln) /\ OnRow(st, ln) =>
                 /\ ln.kind = "field" /\ st.rows # << >> /\ ln.indent > st.item
                 /\ ParseLine(st, ln) = Put(st, ln.key, ln.value, ln.indent + 2)
           /\ ~Nested(st, ln) /\ ~OpensRow(st, ln) /\ ~OnRow(st, ln) =>
                 ParseLine(st, ln) = [st EXCEPT !.bad = TRUE]
BY DEF ParseLine, GoneOn, Opened, Nested, IsDash, OnRow

LEMMA FlagType ==
    ASSUME NEW st \in States
    PROVE  [st EXCEPT !.peers = TRUE] \in States /\ [st EXCEPT !.bad = TRUE] \in States
<1>1. /\ st.peers \in BOOLEAN /\ st.bad \in BOOLEAN /\ st.rows \in Seq(RowSet)
      /\ st.item \in Nat \cup {-1} /\ st.nested \in Nat \cup {-1} /\ st.list \in Keys \cup {""}
      /\ st = [peers |-> st.peers, rows |-> st.rows, item |-> st.item,
               nested |-> st.nested, list |-> st.list, bad |-> st.bad]
  BY StateFields
<1>2. /\ st.item = -1 <=> st.rows = << >>
      /\ st.nested # -1 => /\ st.nested >= 3 /\ st.rows # << >>
                           /\ st.list \in DOMAIN st.rows[Len(st.rows)]
                           /\ st.rows[Len(st.rows)][st.list].t = "list"
  BY StateFields DEF Current
<1>3. ASSUME NEW after, after = [st EXCEPT !.peers = TRUE] \/ after = [st EXCEPT !.bad = TRUE]
      PROVE  after \in States
  <2>1. /\ after.rows = st.rows /\ after.item = st.item /\ after.nested = st.nested /\ after.list = st.list
        /\ after \in [peers : BOOLEAN, rows : Seq(RowSet), item : Nat \cup {-1}, nested : Nat \cup {-1},
                     list : Keys \cup {""}, bad : BOOLEAN]
    BY <1>3 DEF States
  <2> QED BY <1>2, <2>1 DEF States, Current
<1> QED BY <1>3

LEMMA ParseLineType ==
    ASSUME NEW st \in States, NEW ln \in Lines
    PROVE  /\ ParseLine(st, ln) \in States
           /\ st.bad => ParseLine(st, ln) = st
<1>1. CASE st.bad \/ (ln.kind # "peers" /\ ~st.peers)
  BY <1>1 DEF ParseLine
<1>2. CASE ~st.bad /\ ln.kind = "peers"
  <2>1. ParseLine(st, ln) = [st EXCEPT !.peers = TRUE]
    BY <1>2 DEF ParseLine
  <2> QED BY <1>2, <2>1, FlagType
<1>3. CASE ~st.bad /\ ln.kind # "peers" /\ st.peers
  <2>0. ln.indent \in Nat /\ ln.value \in LineValues /\ (ln.kind \in {"item", "field"} => ln.key \in Keys)
    BY <1>3, LineKinds
  <2>1. CASE Nested(st, ln)
    <3>1. st.nested # -1 /\ ln.kind \in {"item", "dash"} /\ ParseLine(st, ln) = GoneOn(st, ln)
      BY <1>3, <2>1, LineRead
    <3>2. GoneOn(st, ln) \in States
      BY <1>3, <3>1, GoesOn DEF Became
    <3> QED BY <1>3, <3>1, <3>2
  <2>2. CASE ~Nested(st, ln) /\ OpensRow(st, ln)
    <3>1. Opened(st, ln) \in States /\ Opened(st, ln).rows # << >>
      <4>1. Became(Opened(st, ln), Append(st.rows, << >>), st, ln.indent, -1, st.list)
        BY <1>3, Opens
      <4>2. Append(st.rows, << >>) # << >>
        BY StateRows, RowFacts, AppendLast
      <4> QED BY <4>1, <4>2 DEF Became
    <3>2. ln.indent + 4 \in Nat /\ ln.indent + 4 >= 3
      BY <2>0
    <3>3. ln.kind = "item" => Put(Opened(st, ln), ln.key, ln.value, ln.indent + 4) \in States
      BY <2>0, <3>1, <3>2, PutIs DEF Became
    <3> QED BY <1>3, <2>2, <3>1, <3>3, LineRead
  <2>3. CASE ~Nested(st, ln) /\ ~OpensRow(st, ln) /\ OnRow(st, ln)
    <3>1. /\ ln.kind = "field" /\ st.rows # << >> /\ ln.indent > st.item
          /\ ParseLine(st, ln) = Put(st, ln.key, ln.value, ln.indent + 2)
      BY <1>3, <2>3, LineRead
    <3>2. st.item \in Nat \cup {-1} /\ st.item # -1
      BY <3>1, StateIndents
    <3>3. ln.indent + 2 \in Nat /\ ln.indent + 2 >= 3
      BY <2>0, <3>1, <3>2
    <3>4. Put(st, ln.key, ln.value, ln.indent + 2) \in States
      BY <2>0, <3>1, <3>3, PutIs DEF Became
    <3> QED BY <1>3, <3>1, <3>4
  <2>4. CASE ~Nested(st, ln) /\ ~OpensRow(st, ln) /\ ~OnRow(st, ln)
    <3>1. ParseLine(st, ln) = [st EXCEPT !.bad = TRUE]
      BY <1>3, <2>4, LineRead
    <3> QED BY <1>3, <3>1, FlagType
  <2> QED BY <1>3, <2>1, <2>2, <2>3, <2>4
<1> QED BY <1>1, <1>2, <1>3

-----------------------------------------------------------------------------
\* The parser, text by text: the states it goes through are those of its
\* definition.

Reads(text, f) ==
    f = [n \in 0..Len(text) |-> IF n = 0 THEN ParserStart ELSE ParseLine(f[n - 1], text[n])]

LEMMA ReadingExists ==
    ASSUME NEW text \in Seq(Lines)
    PROVE  \E f \in [0..Len(text) -> States] : Reads(text, f)
<1> DEFINE L == Len(text)
           step == [n \in 1..L |-> [st \in States |-> ParseLine(st, text[n])]]
<1>1. L \in Nat /\ \A n \in 1..L : text[n] \in Lines
  OBVIOUS
<1>2. step \in [1..L -> [States -> States]]
  BY <1>1, ParseLineType
<1> HIDE DEF step
<1>3. PICK f \in [0..L -> States] : GoesThrough(f, L, ParserStart, step)
  <2> HIDE DEF L
  <2>1. L \in Nat /\ ParserStart \in States
    BY <1>1, StartType
  <2> QED BY <1>2, <2>1, Recursion
<1>4. ASSUME NEW n \in 0..L PROVE f[n] = IF n = 0 THEN ParserStart ELSE ParseLine(f[n - 1], text[n])
  <2>1. CASE n \in 1..L
    <3>1. f[n - 1] \in States
      BY <1>1, <2>1
    <3> QED BY <1>3, <2>1, <3>1 DEF step, GoesThrough
  <2>2. CASE n = 0
    BY <1>3, <2>2 DEF GoesThrough
  <2> QED BY <1>1, <2>1, <2>2
<1>5. f = [n \in 0..L |-> IF n = 0 THEN ParserStart ELSE ParseLine(f[n - 1], text[n])]
  BY <1>4
<1> QED BY <1>5 DEF Reads

\* There is one such function.
LEMMA ReadingUnique ==
    ASSUME NEW text \in Seq(Lines), NEW f, NEW g, NEW more \in Seq(Lines), Reads(text, f), Reads(more, g),
           Len(text) <= Len(more), \A n \in 1..Len(text) : more[n] = text[n]
    PROVE  \A n \in 0..Len(text) : f[n] = g[n]
<1> DEFINE Same == {n \in Nat : n <= Len(text) => f[n] = g[n]}
<1>0. Len(text) \in Nat /\ Len(more) \in Nat
  OBVIOUS
<1>1. 0 \in Same
  BY <1>0 DEF Reads
<1>2. ASSUME NEW n \in Nat, n \in Same PROVE n + 1 \in Same
  <2> SUFFICES ASSUME n + 1 <= Len(text) PROVE f[n + 1] = g[n + 1]
    OBVIOUS
  <2>1. f[n] = g[n] /\ n + 1 \in 0..Len(text) /\ n + 1 \in 0..Len(more) /\ n + 1 # 0 /\ (n + 1) - 1 = n
    BY <1>0, <1>2
  <2>2. f[n + 1] = ParseLine(f[n], text[n + 1])
    BY <2>1 DEF Reads
  <2>3. g[n + 1] = ParseLine(g[n], more[n + 1])
    BY <2>1 DEF Reads
  <2>4. more[n + 1] = text[n + 1]
    BY <1>0
  <2> QED BY <2>1, <2>2, <2>3, <2>4
<1> HIDE DEF Same
<1>3. Nat \subseteq Same
  BY <1>1, <1>2, Induction
<1> QED BY <1>0, <1>3 DEF Same

LEMMA ParseIs ==
    ASSUME NEW text \in Seq(Lines)
    PROVE  \E f \in [0..Len(text) -> States] : Reads(text, f) /\ Parse(text) = f[Len(text)]
<1> DEFINE after == CHOOSE f : Reads(text, f)
<1>1. PICK f \in [0..Len(text) -> States] : Reads(text, f)
  BY ReadingExists
<1>2. Reads(text, after)
  BY <1>1
<1>3. Parse(text) = after[Len(text)]
  BY DEF Parse, Reads
<1> HIDE DEF after
<1>4. \A n \in 0..Len(text) : f[n] = after[n]
  BY <1>1, <1>2, ReadingUnique
<1>5. Len(text) \in 0..Len(text)
  OBVIOUS
<1> QED BY <1>1, <1>3, <1>4, <1>5

LEMMA ParseType == \A text \in Seq(Lines) : Parse(text) \in States
<1> SUFFICES ASSUME NEW text \in Seq(Lines) PROVE Parse(text) \in States
  OBVIOUS
<1>1. PICK f \in [0..Len(text) -> States] : Parse(text) = f[Len(text)]
  BY ParseIs
<1>2. Len(text) \in 0..Len(text)
  OBVIOUS
<1> QED BY <1>1, <1>2

LEMMA ParseEmpty == Parse(<< >>) = ParserStart
<1>1. << >> \in Seq(Lines) /\ Len(<< >>) = 0 /\ 0 \in 0..0
  OBVIOUS
<1>2. PICK f : Reads(<< >>, f) /\ Parse(<< >>) = f[0]
  BY <1>1, ParseIs
<1> QED BY <1>1, <1>2 DEF Reads

LEMMA ParseAppend ==
    ASSUME NEW text \in Seq(Lines), NEW ln \in Lines
    PROVE  Parse(Append(text, ln)) = ParseLine(Parse(text), ln)
<1> DEFINE more == Append(text, ln)
           L == Len(text)
<1>1. /\ L \in Nat /\ more \in Seq(Lines) /\ Len(more) = L + 1 /\ more[L + 1] = ln
      /\ \A n \in 1..L : more[n] = text[n]
  OBVIOUS
<1> HIDE DEF more
<1>2. PICK f : Reads(text, f) /\ Parse(text) = f[L]
  BY ParseIs
<1>3. PICK g : Reads(more, g) /\ Parse(more) = g[L + 1]
  BY <1>1, ParseIs
<1>4. f[L] = g[L]
  BY <1>1, <1>2, <1>3, ReadingUnique
<1>5. g[L + 1] = ParseLine(g[L], ln)
  <2>1. L + 1 \in 0..Len(more) /\ L + 1 # 0 /\ (L + 1) - 1 = L
    BY <1>1
  <2> QED BY <1>1, <1>3, <2>1 DEF Reads
<1> QED BY <1>2, <1>3, <1>4, <1>5 DEF more

-----------------------------------------------------------------------------
\* What the renderer writes of a key, read again.

Ready(st) == st \in States /\ st.peers /\ ~st.bad /\ st.item \in {-1, 2}
KeyLine(first, k, value) == IF first THEN Item(2, k, value) ELSE Field(4, k, value)

\* The row a key goes into, and the rows once that row is the last.
Before(first, st) == IF first THEN << >> ELSE Current(st)
Rowed(first, st, row) ==
    IF first THEN Append(st.rows, row) ELSE Replaced(st, row)

LEMMA AppendAgain ==
    ASSUME NEW S, NEW s \in Seq(S), NEW a \in S, NEW b \in S
    PROVE  At(Append(s, a), Len(s) + 1, b) = Append(s, b)
<1> DEFINE u == Append(s, a)
           t == [u EXCEPT ![Len(s) + 1] = b]
<1>1. /\ u \in Seq(S) /\ Len(u) = Len(s) + 1 /\ Len(s) + 1 \in 1..Len(u)
      /\ \A n \in 1..Len(s) : u[n] = s[n]
  BY AppendProperties, LenProperties
<1> HIDE DEF u
<1>2. t \in Seq(S) /\ Len(t) = Len(u) /\ \A n \in 1..Len(u) : t[n] = IF n = Len(s) + 1 THEN b ELSE u[n]
  BY <1>1, ExceptSeq
<1>3. /\ Append(s, b) \in Seq(S) /\ Len(Append(s, b)) = Len(s) + 1 /\ Append(s, b)[Len(s) + 1] = b
      /\ \A n \in 1..Len(s) : Append(s, b)[n] = s[n]
  BY AppendProperties, LenProperties
<1>4. \A n \in 1..Len(s) + 1 : t[n] = Append(s, b)[n]
  BY <1>1, <1>2, <1>3
<1>5. t = Append(s, b)
  <2> HIDE DEF t
  <2> QED BY <1>1, <1>2, <1>3, <1>4, SeqEqual
<1> QED BY <1>5 DEF u, At

LEMMA ReplaceAgain ==
    ASSUME NEW S, NEW s \in Seq(S), s # << >>, NEW a \in S, NEW b \in S
    PROVE  At(At(s, Len(s), a), Len(s), b) = At(s, Len(s), b)
BY DEF At

LEMMA BeforeType ==
    ASSUME NEW st \in States, NEW first \in BOOLEAN, first \/ st.rows # << >>
    PROVE  Before(first, st) \in RowSet
BY StateRows, RowFacts DEF Before

LEMMA RowedIs ==
    ASSUME NEW st \in States, NEW first \in BOOLEAN, first \/ st.rows # << >>, NEW row \in RowSet, NEW new \in RowSet
    PROVE  LET rows == Rowed(first, st, row)
           IN  /\ rows \in Seq(RowSet) /\ rows # << >> /\ rows[Len(rows)] = row
               /\ At(rows, Len(rows), new) = Rowed(first, st, new)
<1>1. st.rows \in Seq(RowSet)
  BY StateRows
<1>2. CASE first
  <2>1. Append(st.rows, row) \in Seq(RowSet) /\ Len(Append(st.rows, row)) = Len(st.rows) + 1
        /\ Append(st.rows, row) # << >> /\ Append(st.rows, row)[Len(Append(st.rows, row))] = row
    BY <1>1, AppendLast
  <2>2. At(Append(st.rows, row), Len(st.rows) + 1, new) = Append(st.rows, new)
    BY <1>1, AppendAgain
  <2> QED BY <1>2, <2>1, <2>2 DEF Rowed
<1>3. CASE ~first /\ st.rows # << >>
  <2> DEFINE rows == At(st.rows, Len(st.rows), row)
  <2>1. rows \in Seq(RowSet) /\ Len(rows) = Len(st.rows) /\ rows # << >> /\ rows[Len(rows)] = row
    BY <1>1, <1>3, ReplaceLast DEF At
  <2>2. At(rows, Len(st.rows), new) = At(st.rows, Len(st.rows), new)
    BY <1>1, <1>3, ReplaceAgain
  <2> QED BY <1>3, <2>1, <2>2 DEF Rowed, Replaced
<1> QED BY <1>2, <1>3

LEMMA KeyLineType ==
    ASSUME NEW first \in BOOLEAN, NEW k \in Keys, NEW value \in LineValues
    PROVE  KeyLine(first, k, value) \in Lines
BY DEF KeyLine, Item, Field, Lines

\* The current row has the value at k, and the parser goes on with the row, or
\* with the list at k.
ReadAs(after, first, st, k, value) ==
    /\ Ready(after) /\ after.item = 2
    /\ after.rows = Rowed(first, st, With(Before(first, st), k, value))
AtList(after, k) == after.nested = 6 /\ after.list = k

\* The line of a key opens a row or goes on with one.
LEMMA HeadRead ==
    ASSUME NEW text \in Seq(Lines), Ready(Parse(text)), NEW first \in BOOLEAN,
           NEW k \in Keys, first \/ (Parse(text).rows # << >> /\ k \in Identifiers), NEW value \in LineValues
    PROVE  /\ ReadAs(Parse(Append(text, KeyLine(first, k, value))), first, Parse(text), k, Said(value))
           /\ value = Bare => AtList(Parse(Append(text, KeyLine(first, k, value))), k)
<1> DEFINE st == Parse(text)
           ln == KeyLine(first, k, value)
           after == Parse(Append(text, ln))
<1>1. ln \in Lines /\ after = ParseLine(st, ln)
  BY KeyLineType, ParseAppend
<1>2. st \in States /\ st.peers /\ ~st.bad /\ st.item \in {-1, 2}
  BY DEF Ready
<1> HIDE DEF st, after
<1> SUFFICES ReadAs(after, first, st, k, Said(value)) /\ (value = Bare => AtList(after, k))
  BY DEF st, after
<1>3. CASE first
  <2>1. ln.kind = "item" /\ ln.indent = 2 /\ ln.key = k /\ ln.value = value
    BY <1>3 DEF KeyLine, Item
  <2> HIDE DEF ln
  <2>0. st.nested # 2
    BY <1>2, StateIndents
  <2>2. ~Nested(st, ln) /\ OpensRow(st, ln)
    BY <1>2, <2>0, <2>1 DEF Nested, OpensRow, IsDash
  <2> DEFINE op == Opened(st, ln)
             row == With(Current(op), k, Said(value))
  <2>3. after = Put(op, k, value, 6)
    BY <1>1, <1>2, <2>1, <2>2, LineRead
  <2>4. Became(op, Append(st.rows, << >>), st, 2, -1, st.list)
    BY <1>1, <1>2, <2>1, Opens
  <2> HIDE DEF op
  <2>5. /\ st.rows \in Seq(RowSet) /\ << >> \in RowSet
        /\ op \in States /\ op.rows = Append(st.rows, << >>)
    BY <1>2, <2>4, StateRows, RowFacts DEF Became
  <2>6. Len(op.rows) = Len(st.rows) + 1 /\ Current(op) = << >> /\ op.rows # << >>
    BY <2>5, AppendLast DEF Current
  <2>7. Became(after, Replaced(op, row), op, op.item, ListIndent(value, 6), ListKey(value, k))
    BY <2>3, <2>5, <2>6, PutIs
  <2>8. row \in RowSet
    BY <2>5, <2>6, SaidType, WithIs
  <2> HIDE DEF row
  <2>9. Replaced(op, row) = Append(st.rows, row)
    BY <2>5, <2>6, <2>8, AppendAgain DEF Replaced
  <2>10. row = With(Before(first, st), k, Said(value))
    BY <1>3, <2>6 DEF Before, row
  <2> QED BY <1>2, <1>3, <2>4, <2>7, <2>9, <2>10 DEF Ready, Rowed, Became, ReadAs, AtList, ListIndent, ListKey
<1>4. CASE ~first
  <2>1. ln.kind = "field" /\ ln.indent = 4 /\ ln.key = k /\ ln.value = value
    BY <1>4 DEF KeyLine, Field
  <2> HIDE DEF ln
  <2>0. st.rows # << >> /\ st.item = 2 /\ k \in Identifiers
    <3>1. st.rows # << >> /\ k \in Identifiers
      BY <1>4 DEF st
    <3> QED BY <1>2, <3>1, StateIndents
  <2>2. ~Nested(st, ln) /\ ~OpensRow(st, ln) /\ OnRow(st, ln)
    BY <2>0, <2>1 DEF Nested, OpensRow, IsDash, OnRow
  <2>3. after = Put(st, k, value, 6)
    BY <1>1, <1>2, <2>1, <2>2, LineRead
  <2> DEFINE row == With(Current(st), k, Said(value))
  <2>5. Became(after, Replaced(st, row), st, st.item, ListIndent(value, 6), ListKey(value, k))
    BY <1>2, <2>0, <2>3, PutIs
  <2>6. row = With(Before(first, st), k, Said(value))
    BY <1>4 DEF Before
  <2> HIDE DEF row
  <2> QED BY <1>2, <1>4, <2>0, <2>5, <2>6 DEF Ready, Rowed, Became, ReadAs, AtList, ListIndent, ListKey
<1> QED BY <1>3, <1>4

\* An item of a list once it is rendered and read, and the list.
AgainItem(v) == Unquoted(Quoted(v.s, v.esc))
AgainItems(items) == [i \in 1..Len(items) |-> AgainItem(items[i])]

LEMMA AgainItemsType ==
    ASSUME NEW items \in Seq(Words)
    PROVE  /\ AgainItems(items) \in Seq(Words) /\ Len(AgainItems(items)) = Len(items)
           /\ \A i \in 1..Len(items) : /\ AgainItems(items)[i] = AgainItem(items[i]) /\ AgainItem(items[i]) \in Words
                                       /\ Quoted(items[i].s, items[i].esc) \in ItemValues
<1>1. \A v \in Words : Quoted(v.s, v.esc) \in ItemValues
  BY DEF Words, Quoted, ItemValues
<1>2. \A i \in 1..Len(items) : AgainItem(items[i]) \in Words
  BY <1>1, UnquotedType DEF AgainItem
<1> HIDE DEF AgainItem
<1>3. AgainItems(items) \in Seq(Words) /\ Len(AgainItems(items)) = Len(items)
  BY <1>2 DEF AgainItems
<1> QED BY <1>1, <1>2, <1>3 DEF AgainItems

\* The lines of a list, up to the n-th item of it, and what is read of them.
UptoItem(items, n) == [i \in 1..n |-> AgainItem(items[i])]
Dashes(items, n) == [i \in 1..n |-> EmitItem(items[i])]

LEMMA UptoItemIs ==
    ASSUME NEW items \in Seq(Words)
    PROVE  /\ \A n \in 0..Len(items) : UptoItem(items, n) \in Seq(Words) /\ Dashes(items, n) \in Seq(Lines)
           /\ UptoItem(items, Len(items)) = AgainItems(items)
           /\ UptoItem(items, 0) = << >> /\ Dashes(items, 0) = << >>
           /\ \A n \in 0..Len(items) - 1 :
                 /\ items[n + 1] \in Words /\ EmitItem(items[n + 1]) \in Lines
                 /\ UptoItem(items, n + 1) = Append(UptoItem(items, n), AgainItem(items[n + 1]))
                 /\ Dashes(items, n + 1) = Append(Dashes(items, n), EmitItem(items[n + 1]))
<1>1. \A i \in 1..Len(items) : EmitItem(items[i]) \in Lines /\ AgainItem(items[i]) \in Words
  BY AgainItemsType DEF EmitItem, Dash, Lines
<1> HIDE DEF AgainItem, EmitItem
<1>2. ASSUME NEW n \in 0..Len(items)
      PROVE  UptoItem(items, n) \in Seq(Words) /\ Dashes(items, n) \in Seq(Lines)
  <2>1. \A i \in 1..n : AgainItem(items[i]) \in Words /\ EmitItem(items[i]) \in Lines
    BY <1>1
  <2> QED BY <2>1 DEF UptoItem, Dashes
<1>3. UptoItem(items, Len(items)) = AgainItems(items)
  BY DEF UptoItem, AgainItems
<1>4. UptoItem(items, 0) = << >> /\ Dashes(items, 0) = << >>
  BY DEF UptoItem, Dashes
<1>5. ASSUME NEW n \in 0..Len(items) - 1
      PROVE  /\ items[n + 1] \in Words /\ EmitItem(items[n + 1]) \in Lines
             /\ UptoItem(items, n + 1) = Append(UptoItem(items, n), AgainItem(items[n + 1]))
             /\ Dashes(items, n + 1) = Append(Dashes(items, n), EmitItem(items[n + 1]))
  <2>1. items[n + 1] \in Words /\ EmitItem(items[n + 1]) \in Lines
    BY <1>1
  <2>2. UptoItem(items, n + 1) = Append(UptoItem(items, n), AgainItem(items[n + 1]))
    BY <1>2 DEF UptoItem
  <2>3. Dashes(items, n + 1) = Append(Dashes(items, n), EmitItem(items[n + 1]))
    BY <1>2 DEF Dashes
  <2> QED BY <2>1, <2>2, <2>3
<1> QED BY <1>2, <1>3, <1>4, <1>5

LEMMA ListType ==
    ASSUME NEW items \in Seq(Words)
    PROVE  List(items) \in Values /\ List(items).items = items
BY ValueKinds

\* The list at k as far as it is read.
ListAs(after, first, st, k, items) == ReadAs(after, first, st, k, List(items)) /\ AtList(after, k)

\* An item of the list at k joins it.
LEMMA DashRead ==
    ASSUME NEW text \in Seq(Lines), NEW st \in States, NEW first \in BOOLEAN, first \/ st.rows # << >>,
           NEW k \in Keys, NEW items \in Seq(Words), NEW item \in Words,
           ListAs(Parse(text), first, st, k, items)
    PROVE  ListAs(Parse(Append(text, EmitItem(item))), first, st, k, Append(items, AgainItem(item)))
<1> DEFINE now == Parse(text)
           ln == EmitItem(item)
           after == Parse(Append(text, ln))
           v == AgainItem(item)
           row == With(Before(first, st), k, List(items))
           new == With(Before(first, st), k, List(Append(items, v)))
<1>1. ln \in Lines /\ ln.kind = "dash" /\ ln.indent = 6 /\ ItemText(ln) = v /\ v \in Words
  <2>1. Quoted(item.s, item.esc) \in ItemValues
    BY DEF Words, Quoted, ItemValues
  <2>2. ln \in Lines /\ ln.kind = "dash" /\ ln.indent = 6 /\ ItemText(ln) = v
    BY <2>1 DEF EmitItem, Dash, Lines, ItemText, AgainItem
  <2> QED BY <2>1, <2>2, UnquotedType DEF AgainItem
<1> HIDE DEF v
<1> HIDE DEF ln
<1>2. after = ParseLine(now, ln)
  BY <1>1, ParseAppend
<1>3. /\ now \in States /\ now.peers /\ ~now.bad /\ now.item = 2 /\ now.nested = 6 /\ now.list = k
      /\ now.rows = Rowed(first, st, row)
  BY DEF ListAs, ReadAs, AtList, Ready
<1> HIDE DEF now, after
<1>4. Nested(now, ln)
  BY <1>1, <1>3 DEF Nested, IsDash
<1>5. after = GoneOn(now, ln)
  BY <1>1, <1>2, <1>3, <1>4, LineRead
<1>6. Became(after, Replaced(now, Extended(now, v)), now, now.item, now.nested, now.list)
  BY <1>1, <1>3, <1>5, GoesOn
<1>7. List(items) \in Values /\ List(items).items = items /\ List(Append(items, v)) \in Values
  <2>1. Append(items, v) \in Seq(Words)
    BY <1>1
  <2> QED BY <2>1, ListType
<1>8. Before(first, st) \in RowSet
  BY BeforeType
<1>9. row \in RowSet /\ new \in RowSet /\ row[k] = List(items)
  BY <1>7, <1>8, WithIs
<1>10. Extended(now, v) = new
  <2>1. Current(now) = row
    <3> HIDE DEF row, new
    <3> QED BY <1>3, <1>9, RowedIs DEF Current
  <2>2. Extended(now, v) = [row EXCEPT ![k] = List(Append(items, v))]
    <3> HIDE DEF row
    <3> QED BY <1>3, <1>7, <1>9, <2>1 DEF Extended
  <2> QED BY <2>2 DEF With
<1> HIDE DEF row, new
<1>11. Replaced(now, new) = Rowed(first, st, new)
  BY <1>3, <1>9, RowedIs DEF Replaced
<1> QED BY <1>3, <1>6, <1>10, <1>11 DEF ListAs, ReadAs, AtList, Ready, Became, now, after, new, ln, v

LEMMA ConcatAppend ==
    ASSUME NEW S, NEW s \in Seq(S), NEW t \in Seq(S), NEW e \in S
    PROVE  s \o Append(t, e) = Append(s \o t, e)
OBVIOUS

LEMMA ListRead ==
    ASSUME NEW text \in Seq(Lines), Ready(Parse(text)), NEW first \in BOOLEAN,
           NEW k \in Keys, first \/ (Parse(text).rows # << >> /\ k \in Identifiers), NEW items \in Seq(Words)
    PROVE  ReadAs(Parse(Append(text, KeyLine(first, k, Bare)) \o Dashes(items, Len(items))), first, Parse(text), k, List(AgainItems(items)))
<1> DEFINE st == Parse(text)
           begun == Append(text, KeyLine(first, k, Bare))
           Read(n) == ListAs(Parse(begun \o Dashes(items, n)), first, st, k, UptoItem(items, n))
           Done == {n \in Nat : n <= Len(items) => Read(n)}
<1>1. begun \in Seq(Lines) /\ Bare \in LineValues /\ Said(Bare) = List(<< >>)
  <2>1. Bare \in LineValues
    BY DEF LineValues
  <2> QED BY <2>1, KeyLineType DEF Said
<1>2. st \in States
  BY DEF Ready
<1>3. 0 \in Done
  <2>1. begun \o Dashes(items, 0) = begun
    <3> HIDE DEF begun
    <3> QED BY <1>1, UptoItemIs, ConcatEmptySeq
  <2>2. ReadAs(Parse(begun), first, st, k, List(<< >>)) /\ AtList(Parse(begun), k)
    BY <1>1, HeadRead
  <2> HIDE DEF begun, st
  <2> QED BY <2>1, <2>2, UptoItemIs DEF ListAs
<1> HIDE DEF begun, st
<1>4. ASSUME NEW n \in Nat, n \in Done PROVE n + 1 \in Done
  <2> SUFFICES ASSUME n + 1 <= Len(items) PROVE Read(n + 1)
    OBVIOUS
  <2>0. n \in 0..Len(items) - 1 /\ n \in 0..Len(items)
    OBVIOUS
  <2> DEFINE now == begun \o Dashes(items, n)
  <2>1. ListAs(Parse(now), first, st, k, UptoItem(items, n))
    BY <1>4, <2>0
  <2>2. /\ Dashes(items, n) \in Seq(Lines) /\ UptoItem(items, n) \in Seq(Words)
        /\ items[n + 1] \in Words /\ EmitItem(items[n + 1]) \in Lines
        /\ UptoItem(items, n + 1) = Append(UptoItem(items, n), AgainItem(items[n + 1]))
        /\ Dashes(items, n + 1) = Append(Dashes(items, n), EmitItem(items[n + 1]))
    BY <2>0, UptoItemIs
  <2>3. now \in Seq(Lines)
    BY <1>1, <2>2
  <2>4. begun \o Dashes(items, n + 1) = Append(now, EmitItem(items[n + 1]))
    <3> DEFINE dashes == Dashes(items, n)
               e == EmitItem(items[n + 1])
    <3>1. begun \in Seq(Lines) /\ dashes \in Seq(Lines) /\ e \in Lines
      BY <1>1, <2>2
    <3> HIDE DEF dashes, e
    <3>2. begun \o Append(dashes, e) = Append(begun \o dashes, e)
      BY <3>1, ConcatAppend
    <3> QED BY <2>2, <3>2 DEF dashes, e
  <2> HIDE DEF now
  <2>5. first \/ st.rows # << >>
    BY DEF st
  <2>6. ListAs(Parse(Append(now, EmitItem(items[n + 1]))), first, st, k, Append(UptoItem(items, n), AgainItem(items[n + 1])))
    BY <1>2, <2>1, <2>2, <2>3, <2>5, DashRead
  <2> QED BY <2>2, <2>4, <2>6 DEF now
<1> HIDE DEF Done
<1>5. Nat \subseteq Done
  BY <1>3, <1>4, Induction
<1>6. Len(items) \in Nat
  OBVIOUS
<1>7. Read(Len(items))
  BY <1>5, <1>6 DEF Done
<1> QED BY <1>7, UptoItemIs DEF begun, st, ListAs

-----------------------------------------------------------------------------
\* What the renderer writes of a row, read again.

\* A value once it is rendered and read.
Again(v) == IF v.t = "list" THEN List(AgainItems(v.items)) ELSE Unquoted(EmitScalar(v))

LEMMA AgainType ==
    /\ \A v \in Values : Again(v) \in Values
    /\ \A v \in Values : v.t # "list" => EmitScalar(v) \in LineValues /\ Said(EmitScalar(v)) = Again(v)
    /\ \A items \in Seq(Words) : Again(List(items)) = List(AgainItems(items))
    /\ Again(List(<< >>)) = List(<< >>)
<1>1. ASSUME NEW v \in Scalars
      PROVE  EmitScalar(v) \in LineValues /\ Unquoted(EmitScalar(v)) \in Values /\ EmitScalar(v) \notin {Bare, Brackets}
  <2>1. CASE v.t = "word"
    <3>1. v.s \in Strings /\ v.esc \in Nat
      BY <2>1 DEF Scalars, Words
    <3>2. EmitScalar(v) \in ItemValues
      BY <2>1, <3>1 DEF EmitScalar, Quoted, ItemValues
    <3> QED BY <3>2, UnquotedType DEF LineValues, Values
  <2>2. CASE v.t # "word"
    <3>1. EmitScalar(v) = v
      BY <2>2 DEF EmitScalar
    <3> QED BY <3>1, UnquotedType, ValueKinds DEF LineValues, Values
  <2> QED BY <2>1, <2>2
<1>2. ASSUME NEW v \in Values, v.t # "list" PROVE v \in Scalars
  BY <1>2, ValueKinds
<1>3. ASSUME NEW items \in Seq(Words)
      PROVE  Again(List(items)) = List(AgainItems(items)) /\ List(AgainItems(items)) \in Values
  <2>1. List(items).t = "list" /\ List(items).items = items /\ AgainItems(items) \in Seq(Words)
    BY AgainItemsType, ValueKinds
  <2> QED BY <2>1, ValueKinds DEF Again
<1>4. ASSUME NEW v \in Values, v.t = "list" PROVE Again(v) \in Values
  BY <1>3, <1>4, ValueKinds DEF Again
<1>5. Again(List(<< >>)) = List(<< >>)
  <2>1. << >> \in Seq(Words) /\ AgainItems(<< >>) = << >>
    BY DEF AgainItems
  <2> QED BY <1>3, <2>1
<1>6. ASSUME NEW v \in Values, v.t # "list"
      PROVE  EmitScalar(v) \in LineValues /\ Said(EmitScalar(v)) = Again(v) /\ Again(v) \in Values
  BY <1>1, <1>2, <1>6 DEF Said, Again
<1> QED BY <1>3, <1>4, <1>5, <1>6

\* The three forms of a key.
LEMMA EmitKeyIs ==
    ASSUME NEW first \in BOOLEAN, NEW k \in Keys, NEW v \in Values
    PROVE  /\ v.t # "list" => EmitKey(first, k, v) = <<KeyLine(first, k, EmitScalar(v))>>
           /\ v.t = "list" /\ v.items = << >> => EmitKey(first, k, v) = <<KeyLine(first, k, Brackets)>>
           /\ v.t = "list" /\ v.items # << >> =>
                 EmitKey(first, k, v) = <<KeyLine(first, k, Bare)>> \o Dashes(v.items, Len(v.items))
<1>1. CASE v.t # "list"
  BY <1>1 DEF EmitKey, KeyLine
<1>2. CASE v.t = "list" /\ v.items = << >>
  BY <1>2 DEF EmitKey, KeyLine
<1>3. CASE v.t = "list" /\ v.items # << >>
  <2>1. v.items \in Seq(Words)
    BY <1>3, ValueKinds
  <2>2. DOMAIN v.items = 1..Len(v.items)
    BY <2>1
  <2>3. [i \in DOMAIN v.items |-> EmitItem(v.items[i])] = Dashes(v.items, Len(v.items))
    BY <2>2 DEF Dashes
  <2> QED BY <1>3, <2>3 DEF EmitKey, KeyLine
<1> QED BY <1>1, <1>2, <1>3

LEMMA ConcatOne ==
    ASSUME NEW S, NEW s \in Seq(S), NEW e \in S
    PROVE  s \o <<e>> = Append(s, e) /\ <<e>> \in Seq(S) /\ <<e>> # << >>
OBVIOUS

LEMMA ConcatFirst ==
    ASSUME NEW S, NEW s \in Seq(S), NEW e \in S, NEW t \in Seq(S)
    PROVE  s \o (<<e>> \o t) = Append(s, e) \o t /\ <<e>> \o t \in Seq(S) /\ <<e>> \o t # << >>
<1>1. s \o (<<e>> \o t) = (s \o <<e>>) \o t
  BY ConcatOne, ConcatAssociative
<1>2. s \o <<e>> = Append(s, e)
  BY ConcatOne
<1>3. <<e>> \o t \in Seq(S) /\ Len(<<e>> \o t) = Len(t) + 1 /\ Len(t) \in Nat
  OBVIOUS
<1>4. <<e>> \o t # << >>
  BY <1>3
<1> QED BY <1>1, <1>2, <1>3, <1>4

LEMMA KeyRead ==
    ASSUME NEW text \in Seq(Lines), Ready(Parse(text)), NEW first \in BOOLEAN,
           NEW k \in Keys, first \/ (Parse(text).rows # << >> /\ k \in Identifiers), NEW v \in Values
    PROVE  /\ EmitKey(first, k, v) \in Seq(Lines) /\ EmitKey(first, k, v) # << >>
           /\ ReadAs(Parse(text \o EmitKey(first, k, v)), first, Parse(text), k, Again(v))
<1>1. ASSUME NEW value \in LineValues, EmitKey(first, k, v) = <<KeyLine(first, k, value)>>, Said(value) = Again(v)
      PROVE  /\ EmitKey(first, k, v) \in Seq(Lines) /\ EmitKey(first, k, v) # << >>
             /\ ReadAs(Parse(text \o EmitKey(first, k, v)), first, Parse(text), k, Again(v))
  <2> DEFINE ln == KeyLine(first, k, value)
  <2>1. ln \in Lines
    BY KeyLineType
  <2>2. ReadAs(Parse(Append(text, ln)), first, Parse(text), k, Again(v))
    BY <1>1, HeadRead
  <2> HIDE DEF ln
  <2>3. text \o <<ln>> = Append(text, ln) /\ <<ln>> \in Seq(Lines) /\ <<ln>> # << >>
    BY <2>1, ConcatOne
  <2>4. EmitKey(first, k, v) = <<ln>>
    BY <1>1 DEF ln
  <2> QED BY <2>2, <2>3, <2>4
<1>2. CASE v.t # "list"
  <2>1. EmitScalar(v) \in LineValues /\ Said(EmitScalar(v)) = Again(v)
    BY <1>2, AgainType
  <2> QED BY <1>1, <1>2, <2>1, EmitKeyIs
<1>3. CASE v.t = "list" /\ v.items = << >>
  <2>1. Brackets \in LineValues /\ Said(Brackets) = List(<< >>)
    BY DEF LineValues, Said
  <2>2. Again(v) = List(<< >>)
    BY <1>3, AgainType, ValueKinds
  <2> QED BY <1>1, <1>3, <2>1, <2>2, EmitKeyIs
<1>4. CASE v.t = "list" /\ v.items # << >>
  <2> DEFINE ln == KeyLine(first, k, Bare)
             items == v.items
             dashes == Dashes(items, Len(items))
  <2>1. items \in Seq(Words) /\ Again(v) = List(AgainItems(items))
    BY <1>4, ValueKinds DEF Again
  <2>2. ln \in Lines
    <3>1. Bare \in LineValues
      BY DEF LineValues
    <3> QED BY <3>1, KeyLineType
  <2>3. dashes \in Seq(Lines)
    <3> HIDE DEF items
    <3>1. Len(items) \in 0..Len(items)
      BY <2>1
    <3> QED BY <2>1, <3>1, UptoItemIs
  <2>4. ReadAs(Parse(Append(text, ln) \o dashes), first, Parse(text), k, List(AgainItems(items)))
    <3> HIDE DEF items
    <3> QED BY <2>1, ListRead
  <2>5. EmitKey(first, k, v) = <<ln>> \o dashes
    BY <1>4, EmitKeyIs
  <2> HIDE DEF ln, dashes, items
  <2>6. text \o (<<ln>> \o dashes) = Append(text, ln) \o dashes /\ <<ln>> \o dashes \in Seq(Lines)
        /\ <<ln>> \o dashes # << >>
    BY <2>2, <2>3, ConcatFirst
  <2> QED BY <2>1, <2>4, <2>5, <2>6
<1> QED BY <1>2, <1>3, <1>4

\* The renderer's own recursion over the keys.
RowLines(row, f) ==
    f = [n \in 0..Len(KeyOrder) |->
            IF n = 0 THEN << >>
            ELSE IF KeyOrder[n] \notin DOMAIN row THEN f[n - 1]
            ELSE f[n - 1] \o EmitKey(f[n - 1] = << >>, KeyOrder[n], row[KeyOrder[n]])]

LEMMA KeyOrderIs ==
    /\ Len(KeyOrder) = 9 /\ KeyOrder[9] = "display-name"
    /\ \A n \in 1..9 : KeyOrder[n] \in Keys
    /\ Identifiers = {KeyOrder[n] : n \in 1..8} /\ Keys = Identifiers \cup {"display-name"}
    /\ "display-name" \notin Identifiers
BY DEF KeyOrder, Keys, Identifiers

LEMMA SeqOfOne == \A e \in Lines : <<e>> \in Seq(Lines)
OBVIOUS

LEMMA EmitKeyType ==
    ASSUME NEW first \in BOOLEAN, NEW k \in Keys, NEW v \in Values
    PROVE  EmitKey(first, k, v) \in Seq(Lines)
<1>1. CASE v.t # "list"
  <2>1. KeyLine(first, k, EmitScalar(v)) \in Lines
    BY <1>1, AgainType, KeyLineType
  <2> QED BY <1>1, <2>1, SeqOfOne, EmitKeyIs
<1>2. CASE v.t = "list" /\ v.items = << >>
  <2>1. KeyLine(first, k, Brackets) \in Lines
    BY KeyLineType DEF LineValues
  <2> QED BY <1>2, <2>1, SeqOfOne, EmitKeyIs
<1>3. CASE v.t = "list" /\ v.items # << >>
  <2>1. KeyLine(first, k, Bare) \in Lines
    BY KeyLineType DEF LineValues
  <2>2. Dashes(v.items, Len(v.items)) \in Seq(Lines)
    <3>1. v.items \in Seq(Words)
      BY <1>3, ValueKinds
    <3>2. Len(v.items) \in 0..Len(v.items)
      BY <3>1
    <3> QED BY <3>1, <3>2, UptoItemIs
  <2>3. <<KeyLine(first, k, Bare)>> \o Dashes(v.items, Len(v.items)) \in Seq(Lines)
    BY <2>1, <2>2, ConcatFirst, EmptySeq
  <2> QED BY <1>3, <2>3, EmitKeyIs
<1> QED BY <1>1, <1>2, <1>3

LEMMA RowLinesExist ==
    ASSUME NEW row \in RowSet
    PROVE  \E f \in [0..Len(KeyOrder) -> Seq(Lines)] : RowLines(row, f)
<1> DEFINE L == Len(KeyOrder)
           Grown(n, u) == IF KeyOrder[n] \notin DOMAIN row THEN u
                          ELSE u \o EmitKey(u = << >>, KeyOrder[n], row[KeyOrder[n]])
           step == [n \in 1..L |-> [u \in Seq(Lines) |-> Grown(n, u)]]
<1>1. L \in Nat /\ \A n \in 1..L : KeyOrder[n] \in Keys
  BY KeyOrderIs
<1>2. ASSUME NEW n \in 1..L, NEW u \in Seq(Lines) PROVE Grown(n, u) \in Seq(Lines)
  <2>1. CASE KeyOrder[n] \in DOMAIN row
    <3> DEFINE k == KeyOrder[n]  v == row[k]  first == (u = << >>)  lines == EmitKey(first, k, v)
    <3>1. k \in Keys /\ v \in Values /\ first \in BOOLEAN
      BY <1>1, <2>1, RowFacts
    <3> HIDE DEF k, v, first
    <3>2. lines \in Seq(Lines)
      BY <3>1, EmitKeyType
    <3> HIDE DEF lines
    <3>3. u \o lines \in Seq(Lines)
      BY <3>2
    <3> QED BY <2>1, <3>3 DEF k, v, first, lines
  <2> QED BY <2>1
<1> HIDE DEF L, Grown
<1>3. step \in [1..L -> [Seq(Lines) -> Seq(Lines)]]
  BY <1>2
<1> HIDE DEF step
<1>4. PICK f \in [0..L -> Seq(Lines)] : GoesThrough(f, L, << >>, step)
  <2>1. << >> \in Seq(Lines)
    OBVIOUS
  <2> QED BY <1>1, <1>3, <2>1, Recursion
<1>5. ASSUME NEW n \in 0..L PROVE f[n] = IF n = 0 THEN << >> ELSE Grown(n, f[n - 1])
  <2>1. CASE n \in 1..L
    <3>1. f[n - 1] \in Seq(Lines)
      BY <1>1, <2>1
    <3> QED BY <1>4, <2>1, <3>1 DEF step, GoesThrough
  <2>2. CASE n = 0
    BY <1>4, <2>2 DEF GoesThrough
  <2> QED BY <1>1, <2>1, <2>2
<1>6. f = [n \in 0..L |-> IF n = 0 THEN << >> ELSE Grown(n, f[n - 1])]
  BY <1>5
<1> QED BY <1>6 DEF RowLines, L, Grown

LEMMA EmitRowIs ==
    ASSUME NEW row \in RowSet
    PROVE  \E f : RowLines(row, f) /\ EmitRow(row) = f[9]
<1> DEFINE upto == CHOOSE f : RowLines(row, f)
<1>1. RowLines(row, upto)
  BY RowLinesExist
<1>2. EmitRow(row) = upto[9]
  BY KeyOrderIs DEF EmitRow, RowLines
<1> QED BY <1>1, <1>2

\* A row once it is rendered and read.
SaidUpto(row, n) == [k \in {KeyOrder[j] : j \in 1..n} \cap DOMAIN row |-> Again(row[k])]
SaidRow(row) == [k \in DOMAIN row |-> Again(row[k])]

LEMMA SaidUptoIs ==
    ASSUME NEW row \in RowSet
    PROVE  /\ SaidUpto(row, 9) = SaidRow(row) /\ SaidUpto(row, 0) = << >>
           /\ \A n \in 0..9 : SaidUpto(row, n) \in RowSet
           /\ \A n \in 0..8 : KeyOrder[n + 1] \notin DOMAIN row => SaidUpto(row, n + 1) = SaidUpto(row, n)
           /\ \A n \in 0..8 : KeyOrder[n + 1] \in DOMAIN row =>
                 SaidUpto(row, n + 1) = With(SaidUpto(row, n), KeyOrder[n + 1], Again(row[KeyOrder[n + 1]]))
<1>1. DOMAIN row \in SUBSET Keys /\ \A k \in DOMAIN row : row[k] \in Values
  BY RowFacts
<1>2. SaidUpto(row, 9) = SaidRow(row)
  <2>1. {KeyOrder[j] : j \in 1..9} = Keys
    BY DEF Keys, KeyOrder
  <2>2. {KeyOrder[j] : j \in 1..9} \cap DOMAIN row = DOMAIN row
    BY <1>1, <2>1
  <2> QED BY <2>2 DEF SaidUpto, SaidRow
<1>3. SaidUpto(row, 0) = << >>
  <2>1. {KeyOrder[j] : j \in 1..0} \cap DOMAIN row = {}
    OBVIOUS
  <2> QED BY <2>1 DEF SaidUpto
<1>4. ASSUME NEW n \in 0..9 PROVE SaidUpto(row, n) \in RowSet
  <2> DEFINE D == {KeyOrder[j] : j \in 1..n} \cap DOMAIN row
  <2>1. D \in SUBSET Keys /\ \A k \in D : Again(row[k]) \in Values
    BY <1>1, AgainType
  <2>2. SaidUpto(row, n) = [k \in D |-> Again(row[k])]
    BY DEF SaidUpto
  <2> HIDE DEF D
  <2>3. SaidUpto(row, n) \in [D -> Values]
    BY <2>1, <2>2
  <2> QED BY <2>1, <2>3, RowFacts
<1>5. ASSUME NEW n \in 0..8
      PROVE  {KeyOrder[j] : j \in 1..n + 1} = {KeyOrder[j] : j \in 1..n} \cup {KeyOrder[n + 1]}
  <2>1. 1..n + 1 = 1..n \cup {n + 1}
    OBVIOUS
  <2> QED BY <2>1
<1>6. ASSUME NEW n \in 0..8, KeyOrder[n + 1] \notin DOMAIN row PROVE SaidUpto(row, n + 1) = SaidUpto(row, n)
  <2>1. {KeyOrder[j] : j \in 1..n + 1} \cap DOMAIN row = {KeyOrder[j] : j \in 1..n} \cap DOMAIN row
    BY <1>5, <1>6
  <2> QED BY <2>1 DEF SaidUpto
<1>7. ASSUME NEW n \in 0..8, KeyOrder[n + 1] \in DOMAIN row
      PROVE  SaidUpto(row, n + 1) = With(SaidUpto(row, n), KeyOrder[n + 1], Again(row[KeyOrder[n + 1]]))
  <2> DEFINE D == {KeyOrder[j] : j \in 1..n} \cap DOMAIN row
             K == KeyOrder[n + 1]
             old == [k \in D |-> Again(row[k])]
  <2>1. {KeyOrder[j] : j \in 1..n + 1} \cap DOMAIN row = D \cup {K}
    BY <1>5, <1>7
  <2>2. SaidUpto(row, n + 1) = [k \in D \cup {K} |-> Again(row[k])]
    BY <2>1 DEF SaidUpto
  <2>3. With(old, K, Again(row[K])) = [k \in D \cup {K} |-> IF k = K THEN Again(row[K]) ELSE Again(row[k])]
    BY DEF With
  <2>4. SaidUpto(row, n) = old
    BY DEF SaidUpto
  <2> HIDE DEF D, K, old
  <2>5. [k \in D \cup {K} |-> IF k = K THEN Again(row[K]) ELSE Again(row[k])] =
        [k \in D \cup {K} |-> Again(row[k])]
    OBVIOUS
  <2> QED BY <2>2, <2>3, <2>4, <2>5 DEF K
<1> QED BY <1>2, <1>3, <1>4, <1>6, <1>7

\* A rendered row is read as one more row.
RowAs(after, st, row) == Ready(after) /\ after.item = 2 /\ after.rows = Append(st.rows, row)

\* The next key of a row that is read as far as the n-th.
LEMMA FirstKeyRead ==
    ASSUME NEW text \in Seq(Lines), Ready(Parse(text)), NEW k \in Keys, NEW v \in Values
    PROVE  /\ EmitKey(TRUE, k, v) \in Seq(Lines) /\ EmitKey(TRUE, k, v) # << >>
           /\ RowAs(Parse(text \o EmitKey(TRUE, k, v)), Parse(text), With(<< >>, k, Again(v)))
<1>1. /\ EmitKey(TRUE, k, v) \in Seq(Lines) /\ EmitKey(TRUE, k, v) # << >>
      /\ ReadAs(Parse(text \o EmitKey(TRUE, k, v)), TRUE, Parse(text), k, Again(v))
  BY KeyRead
<1> QED BY <1>1 DEF ReadAs, RowAs, Rowed, Before

LEMMA NextRead ==
    ASSUME NEW st \in States, NEW now \in States, NEW after \in States, NEW row \in RowSet, RowAs(now, st, row),
           NEW k \in Keys, NEW value \in Values, ReadAs(after, FALSE, now, k, value)
    PROVE  RowAs(after, st, With(row, k, value)) /\ With(row, k, value) \in RowSet
<1> DEFINE new == With(row, k, value)
<1>1. st.rows \in Seq(RowSet)
  BY StateRows
<1>2. now.rows = Append(st.rows, row)
  BY DEF RowAs
<1>3. Len(now.rows) = Len(st.rows) + 1 /\ Current(now) = row
  BY <1>1, <1>2, AppendLast DEF Current
<1>4. new \in RowSet
  BY WithIs
<1>5. Ready(after) /\ after.item = 2 /\ after.rows = Replaced(now, new)
  BY <1>3 DEF ReadAs, Rowed, Before
<1> HIDE DEF new
<1>6. At(Append(st.rows, row), Len(st.rows) + 1, new) = Append(st.rows, new)
  BY <1>1, <1>4, AppendAgain
<1>7. Replaced(now, new) = Append(st.rows, new)
  BY <1>2, <1>3, <1>6 DEF Replaced
<1> QED BY <1>4, <1>5, <1>7 DEF RowAs, new

LEMMA NextKeyRead ==
    ASSUME NEW text \in Seq(Lines), NEW st \in States, NEW row \in RowSet, RowAs(Parse(text), st, row),
           NEW k \in Keys, k \in Identifiers, NEW v \in Values
    PROVE  /\ EmitKey(FALSE, k, v) \in Seq(Lines) /\ EmitKey(FALSE, k, v) # << >>
           /\ RowAs(Parse(text \o EmitKey(FALSE, k, v)), st, With(row, k, Again(v)))
<1> DEFINE now == Parse(text)
           after == Parse(text \o EmitKey(FALSE, k, v))
<1>1. st.rows \in Seq(RowSet)
  BY StateRows
<1>2. Ready(now) /\ now \in States /\ now.rows = Append(st.rows, row)
  BY DEF RowAs, Ready
<1>3. now.rows # << >>
  BY <1>1, <1>2, AppendLast
<1>4. /\ EmitKey(FALSE, k, v) \in Seq(Lines) /\ EmitKey(FALSE, k, v) # << >>
      /\ ReadAs(after, FALSE, now, k, Again(v))
  BY <1>2, <1>3, KeyRead
<1>5. after \in States /\ Again(v) \in Values
  BY <1>4, AgainType DEF ReadAs, Ready
<1>6. RowAs(now, st, row)
  OBVIOUS
<1> HIDE DEF now, after
<1>7. RowAs(after, st, With(row, k, Again(v)))
  BY <1>2, <1>4, <1>5, <1>6, NextRead
<1> QED BY <1>4, <1>7 DEF after

LEMMA ConcatTypes ==
    ASSUME NEW s \in Seq(Lines), NEW t \in Seq(Lines), NEW u \in Seq(Lines)
    PROVE  /\ s \o t \in Seq(Lines) /\ s \o (t \o u) = (s \o t) \o u
           /\ s \o << >> = s /\ << >> \o s = s /\ (u # << >> => t \o u # << >>)
<1>1. s \o t \in Seq(Lines) /\ t \o u \in Seq(Lines) /\ s \o (t \o u) = (s \o t) \o u
      /\ s \o << >> = s /\ << >> \o s = s
  BY ConcatProperties, ConcatAssociative, ConcatEmptySeq
<1>2. u # << >> => t \o u # << >>
  <2>1. Len(t \o u) = Len(t) + Len(u) /\ Len(t) \in Nat /\ Len(u) \in Nat
    OBVIOUS
  <2>2. u # << >> => Len(u) # 0
    BY EmptySeq
  <2>3. Len(<< >>) = 0
    OBVIOUS
  <2> QED BY <2>1, <2>2, <2>3
<1> QED BY <1>1, <1>2

LEMMA RowLinesStep ==
    ASSUME NEW row, NEW f, RowLines(row, f)
    PROVE  /\ f[0] = << >>
           /\ \A n \in 0..8 : KeyOrder[n + 1] \notin DOMAIN row => f[n + 1] = f[n]
           /\ \A n \in 0..8 : KeyOrder[n + 1] \in DOMAIN row =>
                 f[n + 1] = f[n] \o EmitKey(f[n] = << >>, KeyOrder[n + 1], row[KeyOrder[n + 1]])
<1>1. Len(KeyOrder) = 9 /\ 0 \in 0..9 /\ \A n \in 0..8 : n + 1 \in 0..9 /\ n + 1 # 0 /\ (n + 1) - 1 = n
  BY KeyOrderIs
<1> QED BY <1>1 DEF RowLines

\* A row as far as its identifiers, which come first.
LEMMA IdentifiersRead ==
    ASSUME NEW text \in Seq(Lines), Ready(Parse(text)), NEW row \in RowSet, NEW f, RowLines(row, f)
    PROVE  \/ f[8] = << >> /\ SaidUpto(row, 8) = << >>
           \/ /\ f[8] \in Seq(Lines) /\ f[8] # << >>
              /\ RowAs(Parse(text \o f[8]), Parse(text), SaidUpto(row, 8))
<1> DEFINE st == Parse(text)
           said(n) == SaidUpto(row, n)
<1>2. /\ f[0] = << >>
      /\ \A n \in 0..8 : KeyOrder[n + 1] \notin DOMAIN row => f[n + 1] = f[n]
      /\ \A n \in 0..8 : KeyOrder[n + 1] \in DOMAIN row =>
            f[n + 1] = f[n] \o EmitKey(f[n] = << >>, KeyOrder[n + 1], row[KeyOrder[n + 1]])
  BY RowLinesStep
<1>3. /\ \A n \in 0..7 : KeyOrder[n + 1] \in Identifiers /\ KeyOrder[n + 1] \in Keys
      /\ \A k \in DOMAIN row : row[k] \in Values
  <2>1. \A n \in 0..7 : n + 1 \in 1..8
    OBVIOUS
  <2> QED BY <2>1, KeyOrderIs, RowFacts
<1>4. st \in States
  BY DEF Ready
<1> DEFINE Empty(n) == f[n] = << >> /\ said(n) = << >>
           Read(n) == f[n] \in Seq(Lines) /\ f[n] # << >> /\ RowAs(Parse(text \o f[n]), st, said(n))
           Done == {n \in Nat : n <= 8 => Empty(n) \/ Read(n)}
<1>5. 0 \in Done
  BY <1>2, SaidUptoIs
<1> HIDE DEF st
<1>6. ASSUME NEW n \in Nat, n \in Done PROVE n + 1 \in Done
  <2> SUFFICES ASSUME n + 1 <= 8 PROVE Empty(n + 1) \/ Read(n + 1)
    OBVIOUS
  <2> DEFINE k == KeyOrder[n + 1]  v == row[k]
  <2>1. n \in 0..7 /\ n \in 0..8 /\ n \in 0..9 /\ (Empty(n) \/ Read(n)) /\ said(n) \in RowSet
    BY <1>6, SaidUptoIs
  <2>2. CASE k \notin DOMAIN row
    <3>1. f[n + 1] = f[n] /\ said(n + 1) = said(n)
      BY <1>2, <2>1, <2>2, SaidUptoIs
    <3> HIDE DEF said
    <3> QED BY <2>1, <3>1
  <2>3. CASE k \in DOMAIN row
    <3>1. k \in Keys /\ k \in Identifiers /\ v \in Values
      BY <1>3, <2>1, <2>3
    <3>2. f[n + 1] = f[n] \o EmitKey(f[n] = << >>, k, v)
      BY <1>2, <2>1, <2>3
    <3>3. said(n + 1) = With(said(n), k, Again(v))
      BY <2>1, <2>3, SaidUptoIs
    <3> HIDE DEF said, k, v
    <3>4. CASE Empty(n)
      <4> DEFINE lines == EmitKey(TRUE, k, v)
      <4>1. lines \in Seq(Lines) /\ lines # << >> /\ RowAs(Parse(text \o lines), st, With(<< >>, k, Again(v)))
        BY <3>1, FirstKeyRead DEF st
      <4>2. f[n + 1] = << >> \o lines
        BY <3>2, <3>4
      <4> HIDE DEF lines
      <4>3. f[n + 1] = lines
        BY <4>1, <4>2, ConcatTypes
      <4> QED BY <3>3, <3>4, <4>1, <4>3
    <3>5. CASE Read(n)
      <4> DEFINE lines == EmitKey(FALSE, k, v)
                 now == text \o f[n]
      <4>1. f[n] \in Seq(Lines) /\ now \in Seq(Lines) /\ RowAs(Parse(now), st, said(n))
        BY <3>5, ConcatTypes
      <4>2. f[n + 1] = f[n] \o lines
        BY <3>2, <3>5
      <4> HIDE DEF now
      <4>3. /\ lines \in Seq(Lines) /\ lines # << >>
            /\ RowAs(Parse(now \o lines), st, With(said(n), k, Again(v)))
        BY <1>4, <2>1, <3>1, <4>1, NextKeyRead
      <4> HIDE DEF lines
      <4>4. f[n] \o lines \in Seq(Lines) /\ f[n] \o lines # << >> /\ text \o (f[n] \o lines) = (text \o f[n]) \o lines
        <5> DEFINE t == f[n]
        <5>1. t \in Seq(Lines)
          BY <4>1
        <5> HIDE DEF t
        <5>2. t \o lines \in Seq(Lines)
          BY <4>3, <5>1, ConcatProperties
        <5>3. t \o lines # << >> /\ text \o (t \o lines) = (text \o t) \o lines
          BY <4>3, <5>1, ConcatTypes
        <5> QED BY <5>2, <5>3 DEF t
      <4> QED BY <3>3, <4>2, <4>3, <4>4 DEF now
    <3> QED BY <2>1, <3>4, <3>5
  <2> QED BY <2>2, <2>3
<1> HIDE DEF Done
<1>7. Nat \subseteq Done
  BY <1>5, <1>6, Induction
<1>8. Empty(8) \/ Read(8)
  BY <1>7 DEF Done
<1> QED BY <1>8 DEF st

\* A text that has made the parser fail does so whatever follows.
LEMMA BadStays ==
    ASSUME NEW text \in Seq(Lines), NEW tail \in Seq(Lines), Parse(text).bad
    PROVE  Parse(text \o tail).bad
<1> DEFINE all == text \o tail
           L == Len(text)
           M == Len(tail)
<1>1. /\ L \in Nat /\ M \in Nat /\ all \in Seq(Lines) /\ Len(all) = L + M
      /\ \A n \in 1..L : all[n] = text[n]
  OBVIOUS
<1>2. \A n \in 1..L + M : all[n] \in Lines
  OBVIOUS
<1> HIDE DEF all
<1>3. PICK f : Reads(text, f) /\ Parse(text) = f[L]
  BY ParseIs
<1>4. \E g \in [0..L + M -> States] : Reads(all, g) /\ Parse(all) = g[L + M]
  BY <1>1, ParseIs
<1>5. PICK g : g \in [0..L + M -> States] /\ Reads(all, g) /\ Parse(all) = g[L + M]
  BY <1>4
<1>6. f[L] = g[L]
  <2>1. Reads(all, g) /\ L <= Len(all)
    BY <1>1, <1>5
  <2> QED BY <1>1, <1>3, <2>1, ReadingUnique
<1> DEFINE Done == {n \in Nat : n <= M => g[L + n].bad}
<1> HIDE DEF L, M
<1>7. 0 \in Done
  BY <1>1, <1>3, <1>6
<1>8. ASSUME NEW n \in Nat, n \in Done PROVE n + 1 \in Done
  <2> SUFFICES ASSUME n + 1 <= M PROVE g[L + (n + 1)].bad
    OBVIOUS
  <2>1. g[L + n].bad
    BY <1>1, <1>8
  <2> DEFINE m == L + n
  <2>2. m \in 0..L + M /\ m + 1 \in 0..L + M /\ m + 1 \in 1..L + M /\ m + 1 # 0 /\ (m + 1) - 1 = m
        /\ L + (n + 1) = m + 1
    BY <1>1
  <2> HIDE DEF m
  <2>3. g[m + 1] = ParseLine(g[m], all[m + 1])
    BY <1>1, <1>5, <2>2 DEF Reads
  <2>4. g[m] \in States /\ all[m + 1] \in Lines /\ g[m].bad
    BY <1>1, <1>2, <1>5, <2>1, <2>2 DEF m
  <2>5. ParseLine(g[m], all[m + 1]) = g[m]
    BY <2>4, ParseLineType
  <2> QED BY <2>2, <2>3, <2>4, <2>5
<1> HIDE DEF Done
<1>9. M \in Done
  BY <1>1, <1>7, <1>8, Induction
<1> QED BY <1>1, <1>5, <1>9 DEF Done, all

\* A key that is no identifier, on a line of its own, cannot be read.
LEMMA OddKeyRead ==
    ASSUME NEW text \in Seq(Lines), Ready(Parse(text)), NEW k \in Keys, k \notin Identifiers, NEW v \in Values
    PROVE  Parse(text \o EmitKey(FALSE, k, v)).bad
<1>1. ASSUME NEW value \in LineValues
      PROVE  /\ KeyLine(FALSE, k, value) \in Lines
             /\ Parse(Append(text, KeyLine(FALSE, k, value))).bad
  <2> DEFINE ln == KeyLine(FALSE, k, value)
             st == Parse(text)
  <2>1. ln \in Lines /\ Parse(Append(text, ln)) = ParseLine(st, ln)
    BY KeyLineType, ParseAppend
  <2>2. ln.kind = "field" /\ ln.key = k
    BY DEF KeyLine, Field
  <2>3. st \in States /\ st.peers /\ ~st.bad
    BY DEF Ready
  <2> HIDE DEF ln, st
  <2>4. ~Nested(st, ln) /\ ~OpensRow(st, ln) /\ ~OnRow(st, ln)
    BY <2>2 DEF Nested, OpensRow, OnRow, IsDash
  <2>5. ParseLine(st, ln) = [st EXCEPT !.bad = TRUE]
    BY <2>1, <2>2, <2>3, <2>4, LineRead
  <2>6. [st EXCEPT !.bad = TRUE].bad
    <3>1. st = [peers |-> st.peers, rows |-> st.rows, item |-> st.item,
                nested |-> st.nested, list |-> st.list, bad |-> st.bad]
      BY <2>3, StateFields
    <3> QED BY <3>1
  <2> QED BY <2>1, <2>5, <2>6 DEF ln
<1>2. ASSUME NEW value \in LineValues, EmitKey(FALSE, k, v) = <<KeyLine(FALSE, k, value)>>
      PROVE  Parse(text \o EmitKey(FALSE, k, v)).bad
  <2> DEFINE ln == KeyLine(FALSE, k, value)
  <2>1. ln \in Lines /\ Parse(Append(text, ln)).bad /\ EmitKey(FALSE, k, v) = <<ln>>
    BY <1>1, <1>2
  <2> HIDE DEF ln
  <2>2. text \o <<ln>> = Append(text, ln)
    BY <2>1, ConcatOne
  <2> QED BY <2>1, <2>2
<1>3. CASE v.t # "list"
  BY <1>2, <1>3, AgainType, EmitKeyIs
<1>4. CASE v.t = "list" /\ v.items = << >>
  BY <1>2, <1>4, EmitKeyIs DEF LineValues
<1>5. CASE v.t = "list" /\ v.items # << >>
  <2> DEFINE ln == KeyLine(FALSE, k, Bare)
             dashes == Dashes(v.items, Len(v.items))
  <2>1. ln \in Lines /\ Parse(Append(text, ln)).bad
    BY <1>1 DEF LineValues
  <2>2. dashes \in Seq(Lines)
    <3>1. v.items \in Seq(Words)
      BY <1>5, ValueKinds
    <3>2. Len(v.items) \in 0..Len(v.items)
      BY <3>1
    <3> QED BY <3>1, <3>2, UptoItemIs
  <2>3. EmitKey(FALSE, k, v) = <<ln>> \o dashes
    BY <1>5, EmitKeyIs
  <2> HIDE DEF ln, dashes
  <2>4. text \o (<<ln>> \o dashes) = Append(text, ln) \o dashes /\ Append(text, ln) \in Seq(Lines)
    BY <2>1, <2>2, ConcatFirst
  <2> QED BY <2>1, <2>2, <2>3, <2>4, BadStays
<1> QED BY <1>3, <1>4, <1>5

\* A row that has an identifier among its keys.
Keyed(row) == DOMAIN row \cap Identifiers # {}

LEMMA RowRead ==
    ASSUME NEW text \in Seq(Lines), Ready(Parse(text)), NEW row \in RowSet, Keyed(row)
    PROVE  /\ EmitRow(row) \in Seq(Lines)
           /\ DOMAIN row \subseteq Identifiers => RowAs(Parse(text \o EmitRow(row)), Parse(text), SaidRow(row))
           /\ ~(DOMAIN row \subseteq Identifiers) => Parse(text \o EmitRow(row)).bad
<1> DEFINE st == Parse(text)
           K == "display-name"
<1>1. PICK f : RowLines(row, f) /\ EmitRow(row) = f[9]
  BY EmitRowIs
<1>2. DOMAIN row \subseteq Keys /\ \A k \in DOMAIN row : row[k] \in Values
  BY RowFacts
<1>3. SaidUpto(row, 8) # << >>
  <2>1. DOMAIN SaidUpto(row, 8) = Identifiers \cap DOMAIN row
    BY KeyOrderIs DEF SaidUpto
  <2> QED BY <2>1, RowFacts DEF Keyed
<1>4. f[8] \in Seq(Lines) /\ f[8] # << >> /\ RowAs(Parse(text \o f[8]), st, SaidUpto(row, 8))
  BY <1>1, <1>3, IdentifiersRead
<1>5. /\ K \notin DOMAIN row => f[9] = f[8] /\ SaidUpto(row, 9) = SaidUpto(row, 8)
      /\ K \in DOMAIN row => f[9] = f[8] \o EmitKey(f[8] = << >>, K, row[K])
  <2>1. 8 \in 0..8 /\ 8 + 1 = 9 /\ KeyOrder[9] = K
    BY KeyOrderIs
  <2>2. Len(KeyOrder) = 9 /\ 9 \in 0..9 /\ 9 # 0 /\ 9 - 1 = 8
    BY KeyOrderIs
  <2>3. f[9] = IF KeyOrder[9] \notin DOMAIN row THEN f[8]
               ELSE f[8] \o EmitKey(f[8] = << >>, KeyOrder[9], row[KeyOrder[9]])
    BY <1>1, <2>2 DEF RowLines
  <2>4. K \notin DOMAIN row => SaidUpto(row, 9) = SaidUpto(row, 8)
    BY <2>1, SaidUptoIs
  <2> HIDE DEF K
  <2> QED BY <2>1, <2>3, <2>4
<1>6. CASE K \notin DOMAIN row
  <2>1. DOMAIN row \subseteq Identifiers
    BY <1>2, <1>6, KeyOrderIs
  <2>2. SaidUpto(row, 8) = SaidRow(row)
    BY <1>5, <1>6, SaidUptoIs
  <2> QED BY <1>1, <1>4, <1>5, <1>6, <2>1, <2>2
<1>7. CASE K \in DOMAIN row
  <2>1. K \in Keys /\ K \notin Identifiers /\ row[K] \in Values /\ ~(DOMAIN row \subseteq Identifiers)
    BY <1>2, <1>7, KeyOrderIs
  <2> DEFINE u == f[8]  v == row[K]  lines == EmitKey(FALSE, K, v)
             now == text \o u
  <2>2. u \in Seq(Lines) /\ f[9] = u \o lines
    BY <1>4, <1>5, <1>7
  <2>3. v \in Values
    BY <2>1
  <2>4. Ready(Parse(now))
    BY <1>4 DEF RowAs
  <2> HIDE DEF u, v, K
  <2>5. lines \in Seq(Lines)
    BY <2>1, <2>3, EmitKeyType
  <2>6. now \in Seq(Lines)
    BY <2>2, ConcatTypes
  <2> HIDE DEF now
  <2>7. Parse(now \o lines).bad
    BY <2>1, <2>3, <2>4, <2>6, OddKeyRead
  <2> HIDE DEF lines
  <2>8. u \o lines \in Seq(Lines) /\ text \o (u \o lines) = now \o lines
    BY <2>2, <2>5, ConcatTypes DEF now
  <2> QED BY <1>1, <2>1, <2>2, <2>7, <2>8
<1> QED BY <1>6, <1>7

\* The renderer's own recursion over the rows.
TextLines(rows, f) ==
    f = [n \in 0..Len(rows) |-> IF n = 0 THEN <<Heading>> ELSE f[n - 1] \o EmitRow(rows[n])]

LEMMA HeadingRead == <<Heading>> \in Seq(Lines) /\ Ready(Parse(<<Heading>>)) /\ Parse(<<Heading>>).rows = << >>
<1>1. << >> \in Seq(Lines) /\ Heading \in Lines /\ Heading.kind = "peers" /\ Append(<< >>, Heading) = <<Heading>>
  BY DEF Lines, Heading
<1>2. Parse(<<Heading>>) = ParseLine(ParserStart, Heading)
  BY <1>1, ParseAppend, ParseEmpty
<1>3. ParseLine(ParserStart, Heading) =
        [peers |-> TRUE, rows |-> << >>, item |-> -1, nested |-> -1, list |-> "", bad |-> FALSE]
  BY <1>1 DEF ParseLine, ParserStart
<1> DEFINE after == Parse(<<Heading>>)
<1>4. after \in States
  BY <1>1, <1>2, StartType, ParseLineType
<1>5. after = [peers |-> TRUE, rows |-> << >>, item |-> -1, nested |-> -1, list |-> "", bad |-> FALSE]
  BY <1>2, <1>3
<1> HIDE DEF after
<1>6. after.rows = << >> /\ after.item = -1 /\ after.peers /\ ~after.bad
  BY <1>5
<1> QED BY <1>1, <1>4, <1>6, SeqOfOne DEF Ready, after

LEMMA EmitRowType ==
    ASSUME NEW row \in RowSet, Keyed(row)
    PROVE  EmitRow(row) \in Seq(Lines)
BY HeadingRead, RowRead

LEMMA TextLinesExist ==
    ASSUME NEW rows \in Seq(RowSet), \A i \in DOMAIN rows : Keyed(rows[i])
    PROVE  \E f \in [0..Len(rows) -> Seq(Lines)] : TextLines(rows, f)
<1> DEFINE L == Len(rows)
           Lin(n) == EmitRow(rows[n])
           step == [n \in 1..L |-> [u \in Seq(Lines) |-> u \o Lin(n)]]
<1>1. L \in Nat /\ \A n \in 1..L : Lin(n) \in Seq(Lines)
  <2>1. L \in Nat /\ \A n \in 1..L : rows[n] \in RowSet /\ Keyed(rows[n])
    OBVIOUS
  <2> QED BY <2>1, EmitRowType
<1> HIDE DEF L, Lin
<1>2. step \in [1..L -> [Seq(Lines) -> Seq(Lines)]]
  <2>1. \A n \in 1..L : \A u \in Seq(Lines) : u \o Lin(n) \in Seq(Lines)
    BY <1>1
  <2> QED BY <2>1
<1> HIDE DEF step
<1>3. PICK f \in [0..L -> Seq(Lines)] : GoesThrough(f, L, <<Heading>>, step)
  BY <1>1, <1>2, HeadingRead, Recursion
<1>4. ASSUME NEW n \in 0..L PROVE f[n] = IF n = 0 THEN <<Heading>> ELSE f[n - 1] \o Lin(n)
  <2>1. CASE n \in 1..L
    <3>1. f[n - 1] \in Seq(Lines)
      BY <1>1, <2>1
    <3> QED BY <1>3, <2>1, <3>1 DEF step, GoesThrough
  <2>2. CASE n = 0
    BY <1>3, <2>2 DEF GoesThrough
  <2> QED BY <1>1, <2>1, <2>2
<1>5. f = [n \in 0..L |-> IF n = 0 THEN <<Heading>> ELSE f[n - 1] \o Lin(n)]
  BY <1>4
<1> QED BY <1>5 DEF TextLines, L, Lin

LEMMA EmitIs ==
    ASSUME NEW rows \in Seq(RowSet), \A i \in DOMAIN rows : Keyed(rows[i])
    PROVE  \E f : TextLines(rows, f) /\ Emit(rows) = f[Len(rows)]
<1> DEFINE upto == CHOOSE f : TextLines(rows, f)
<1>1. TextLines(rows, upto)
  BY TextLinesExist
<1>2. Emit(rows) = upto[Len(rows)]
  BY DEF Emit, TextLines
<1> QED BY <1>1, <1>2

SaidRows(rows, n) == [i \in 1..n |-> SaidRow(rows[i])]

LEMMA SaidRowType == \A row \in RowSet : SaidRow(row) \in RowSet /\ DOMAIN SaidRow(row) = DOMAIN row
<1> SUFFICES ASSUME NEW row \in RowSet PROVE SaidRow(row) \in RowSet /\ DOMAIN SaidRow(row) = DOMAIN row
  OBVIOUS
<1>1. SaidUpto(row, 9) = SaidRow(row) /\ SaidUpto(row, 9) \in RowSet
  BY SaidUptoIs
<1> QED BY <1>1 DEF SaidRow

LEMMA SaidRowsIs ==
    ASSUME NEW rows \in Seq(RowSet), NEW n \in Nat, n <= Len(rows)
    PROVE  /\ SaidRows(rows, n) \in Seq(RowSet) /\ SaidRows(rows, 0) = << >>
           /\ n + 1 <= Len(rows) => SaidRows(rows, n + 1) = Append(SaidRows(rows, n), SaidRow(rows[n + 1]))
<1>1. \A i \in 1..Len(rows) : SaidRow(rows[i]) \in RowSet
  BY SaidRowType
<1>2. SaidRows(rows, n) \in Seq(RowSet)
  BY <1>1 DEF SaidRows
<1>3. SaidRows(rows, 0) = << >>
  BY DEF SaidRows
<1>4. n + 1 <= Len(rows) => SaidRows(rows, n + 1) = Append(SaidRows(rows, n), SaidRow(rows[n + 1]))
  BY <1>2 DEF SaidRows
<1> QED BY <1>2, <1>3, <1>4

\* Row by row: the text is read as the rows, or has failed at one of them.
LEMMA EmitRead ==
    ASSUME NEW rows \in Seq(RowSet), \A i \in DOMAIN rows : Keyed(rows[i])
    PROVE  /\ Emit(rows) \in Seq(Lines)
           /\ Readable(rows) => ~Parse(Emit(rows)).bad /\ Rows(Emit(rows)) = [i \in DOMAIN rows |-> SaidRow(rows[i])]
           /\ ~Readable(rows) => Parse(Emit(rows)).bad
<1>1. PICK f : TextLines(rows, f) /\ Emit(rows) = f[Len(rows)]
  BY EmitIs
<1>2. Len(rows) \in Nat /\ DOMAIN rows = 1..Len(rows)
  OBVIOUS
<1>3. /\ f[0] = <<Heading>>
      /\ \A n \in Nat : n + 1 <= Len(rows) => f[n + 1] = f[n] \o EmitRow(rows[n + 1])
  <2>1. 0 \in 0..Len(rows) /\
        \A n \in Nat : n + 1 <= Len(rows) => n + 1 \in 0..Len(rows) /\ n + 1 # 0 /\ (n + 1) - 1 = n
    BY <1>2
  <2> QED BY <1>1, <2>1 DEF TextLines
<1> DEFINE Plainly(i) == DOMAIN rows[i] \subseteq Identifiers
           Read(n) == /\ \A i \in 1..n : Plainly(i)
                      /\ Ready(Parse(f[n])) /\ Parse(f[n]).rows = SaidRows(rows, n)
           Failed(n) == /\ \E i \in 1..n : ~Plainly(i)
                        /\ Parse(f[n]).bad
           Done == {n \in Nat : n <= Len(rows) => f[n] \in Seq(Lines) /\ (Read(n) \/ Failed(n))}
<1>4. 0 \in Done
  <2>1. SaidRows(rows, 0) = << >>
    BY <1>2, SaidRowsIs
  <2> QED BY <1>3, <2>1, HeadingRead
<1>5. ASSUME NEW n \in Nat, n \in Done PROVE n + 1 \in Done
  <2> SUFFICES ASSUME n + 1 <= Len(rows) PROVE f[n + 1] \in Seq(Lines) /\ (Read(n + 1) \/ Failed(n + 1))
    OBVIOUS
  <2> DEFINE text == f[n]  row == rows[n + 1]
  <2>1. text \in Seq(Lines) /\ (Read(n) \/ Failed(n))
    BY <1>2, <1>5
  <2>2. row \in RowSet /\ Keyed(row)
    <3>1. n + 1 \in DOMAIN rows
      BY <1>2
    <3> QED BY <1>2, <3>1
  <2>3. f[n + 1] = text \o EmitRow(row)
    BY <1>3
  <2>4. SaidRows(rows, n + 1) = Append(SaidRows(rows, n), SaidRow(row))
    BY <1>2, SaidRowsIs
  <2>5. 1..n + 1 = 1..n \cup {n + 1}
    OBVIOUS
  <2> HIDE DEF row
  <2>6. EmitRow(row) \in Seq(Lines)
    BY <2>2, EmitRowType
  <2>7. f[n + 1] \in Seq(Lines)
    BY <2>1, <2>3, <2>6, ConcatProperties
  <2>8. CASE Failed(n)
    <3>1. Parse(f[n + 1]).bad
      BY <2>1, <2>3, <2>6, <2>8, BadStays
    <3>2. \E i \in 1..n + 1 : ~Plainly(i)
      BY <2>5, <2>8
    <3> QED BY <2>7, <3>1, <3>2
  <2>9. CASE Read(n)
    <3>1. Ready(Parse(text)) /\ Parse(text).rows = SaidRows(rows, n)
      BY <2>9
    <3>2. CASE DOMAIN row \subseteq Identifiers
      <4>1. RowAs(Parse(text \o EmitRow(row)), Parse(text), SaidRow(row))
        BY <2>1, <2>2, <3>1, <3>2, RowRead
      <4>2. Ready(Parse(f[n + 1])) /\ Parse(f[n + 1]).rows = SaidRows(rows, n + 1)
        BY <2>3, <2>4, <3>1, <4>1 DEF RowAs
      <4>3. \A i \in 1..n + 1 : Plainly(i)
        BY <2>5, <2>9, <3>2 DEF row
      <4> QED BY <2>7, <4>2, <4>3
    <3>3. CASE ~(DOMAIN row \subseteq Identifiers)
      <4>1. Parse(text \o EmitRow(row)).bad
        BY <2>1, <2>2, <3>1, <3>3, RowRead
      <4>2. \E i \in 1..n + 1 : ~Plainly(i)
        BY <2>5, <3>3 DEF row
      <4> QED BY <2>3, <2>7, <4>1, <4>2
    <3> QED BY <3>2, <3>3
  <2> QED BY <2>1, <2>8, <2>9
<1>6. Nat \subseteq Done
  <2> HIDE DEF Done
  <2> QED BY <1>4, <1>5, Induction
<1>7. Emit(rows) \in Seq(Lines) /\ (Read(Len(rows)) \/ Failed(Len(rows)))
  BY <1>1, <1>2, <1>6
<1>8. Readable(rows) <=> \A i \in 1..Len(rows) : Plainly(i)
  BY <1>2 DEF Readable
<1>9. CASE Read(Len(rows))
  <2>1. Readable(rows)
    BY <1>8, <1>9
  <2>2. Ready(Parse(Emit(rows))) /\ Parse(Emit(rows)).rows = SaidRows(rows, Len(rows))
    BY <1>1, <1>9
  <2>3. SaidRows(rows, Len(rows)) = [i \in DOMAIN rows |-> SaidRow(rows[i])]
    BY <1>2 DEF SaidRows
  <2> QED BY <1>7, <2>1, <2>2, <2>3 DEF Ready, Rows
<1>10. CASE Failed(Len(rows))
  BY <1>1, <1>7, <1>8, <1>10
<1> QED BY <1>7, <1>9, <1>10

\* Which values come back as they were, but for the escapes.
LEMMA AgainItemIs ==
    ASSUME NEW v \in Words
    PROVE  /\ v.s \notin Hashed => AgainItem(v) = v
           /\ v.s \in Hashed => AgainItem(v) # v
<1>1. v = [t |-> "word", s |-> v.s, esc |-> v.esc] /\ v.s \in Strings /\ v.esc \in Nat
  BY DEF Words
<1>2. CASE v.s \notin Hashed
  BY <1>1, <1>2 DEF AgainItem, Unquoted, Quoted, Word
<1>3. CASE v.s \in Hashed
  <2>1. LeftPlain[v.s] # v.s
    BY <1>3, StringsAssumption
  <2>2. AgainItem(v) = Str((IF v.esc = 0 THEN LeftPlain ELSE LeftEscaped)[v.s])
    BY <1>3 DEF AgainItem, Unquoted, Quoted
  <2>3. CASE v.esc = 0
    <3>1. AgainItem(v).s = LeftPlain[v.s]
      BY <2>2, <2>3 DEF Str, Word
    <3> QED BY <1>3, <2>1, <3>1
  <2>4. CASE v.esc # 0
    <3>1. AgainItem(v).esc = 0
      BY <2>2, <2>4 DEF Str, Word
    <3> QED BY <1>3, <2>4, <3>1
  <2> QED BY <2>3, <2>4
<1> QED BY <1>2, <1>3

LEMMA AgainWord ==
    ASSUME NEW v \in Words
    PROVE  /\ v \in Values /\ v.t = "word" /\ v.s \in Strings /\ v.esc \in Nat
           /\ v.s \notin Hashed => Again(v) = Layered(v)
           /\ v.s \in Hashed => Again(v) = Str(LeftEscaped[v.s]) /\ LeftEscaped[v.s] \in Odd /\ v.s \in Odd
                                /\ Again(v) # Layered(v)
<1>1. v = [t |-> "word", s |-> v.s, esc |-> v.esc] /\ v.s \in Strings /\ v.esc \in Nat /\ v \in Values /\ v.t = "word"
  BY UnquotedType DEF Words, Values
<1>2. Again(v) = Unquoted(Quoted(v.s, IF v.s \in Odd THEN v.esc + 1 ELSE v.esc))
  BY <1>1 DEF Again, EmitScalar
<1>3. Layered(v) = Word(v.s, IF v.s \in Odd THEN v.esc + 1 ELSE v.esc)
  <2>1. CASE v.s \in Odd
    BY <1>1, <2>1 DEF Layered
  <2>2. CASE v.s \notin Odd
    BY <1>1, <2>2 DEF Layered, Word
  <2> QED BY <2>1, <2>2
<1>4. ASSUME v.s \notin Hashed PROVE Again(v) = Layered(v)
  BY <1>2, <1>3, <1>4 DEF Unquoted, Quoted
<1>5. ASSUME v.s \in Hashed
      PROVE  Again(v) = Str(LeftEscaped[v.s]) /\ LeftEscaped[v.s] \in Odd /\ v.s \in Odd /\ Again(v) # Layered(v)
  <2>1. v.s \in Odd /\ LeftEscaped[v.s] \in Odd
    BY <1>5, StringsAssumption
  <2>2. v.esc + 1 # 0
    BY <1>1
  <2>3. Again(v) = Str(LeftEscaped[v.s])
    BY <1>2, <1>5, <2>1, <2>2 DEF Unquoted, Quoted
  <2>4. Again(v).esc = 0 /\ Layered(v).esc = v.esc + 1
    BY <1>3, <2>1, <2>3 DEF Str, Word
  <2> QED BY <2>1, <2>2, <2>3, <2>4
<1> QED BY <1>1, <1>4, <1>5

LEMMA AgainFlag == \A v \in Values : v.t = "flag" => Again(v) = v /\ Layered(v) = v /\ ~Cut(v)
<1> SUFFICES ASSUME NEW v \in Values, v.t = "flag" PROVE Again(v) = v /\ Layered(v) = v /\ ~Cut(v)
  OBVIOUS
<1>1. v \in Scalars
  BY ValueKinds
<1>2. Unquoted(v) = v
  BY <1>1, UnquotedType
<1> QED BY <1>2 DEF Again, EmitScalar, Layered, Cut

LEMMA AgainIs == \A v \in Values : Again(v) = Layered(v) <=> ~Cut(v)
<1> SUFFICES ASSUME NEW v \in Values PROVE Again(v) = Layered(v) <=> ~Cut(v)
  OBVIOUS
<1>1. CASE v.t = "word"
  <2>1. v \in Words
    BY <1>1, ValueKinds DEF Scalars
  <2> QED BY <1>1, <2>1, AgainWord DEF Cut
<1>2. CASE v.t = "flag"
  BY <1>2, AgainFlag
<1>3. CASE v.t = "list"
  <2> DEFINE items == v.items
             again == AgainItems(items)
  <2>1. items \in Seq(Words) /\ v = List(items) /\ Layered(v) = v /\ Again(v) = List(again)
    BY <1>3, ValueKinds DEF Layered, Again
  <2>2. Cut(v) <=> \E i \in DOMAIN items : items[i].s \in Hashed
    BY <1>3 DEF Cut
  <2> HIDE DEF items, again
  <2>3. List(again) = List(items) <=> again = items
    BY DEF List
  <2>4. /\ again \in Seq(Words) /\ Len(again) = Len(items) /\ DOMAIN items = 1..Len(items)
        /\ \A i \in 1..Len(items) : again[i] = AgainItem(items[i]) /\ items[i] \in Words
    BY <2>1, AgainItemsType DEF again
  <2>5. \A i \in 1..Len(items) : again[i] = items[i] <=> items[i].s \notin Hashed
    BY <2>4, AgainItemIs
  <2>6. CASE \A i \in 1..Len(items) : items[i].s \notin Hashed
    <3>1. again = items
      BY <2>1, <2>4, <2>5, <2>6, SeqEqual
    <3> QED BY <2>1, <2>2, <2>4, <2>6, <3>1
  <2>7. CASE \E i \in 1..Len(items) : items[i].s \in Hashed
    <3>1. again # items
      BY <2>5, <2>7
    <3> QED BY <2>1, <2>2, <2>3, <2>4, <2>7, <3>1
  <2> QED BY <2>6, <2>7
<1> QED BY <1>1, <1>2, <1>3, ValueKinds

\* What the parser makes of a file the tool renders.  If every key of the rows
\* is an identifier (emit_peers_yaml, parse_peers_yaml), it is read back without an
\* error, row by row and key by key, and a value comes back as it was, up to the
\* layer of escapes an odd string gains, just when _strip_comment does not cut
\* it.  If one key is none, the file cannot be parsed.  Rows have a key that is
\* an identifier: "scopes", if they conform.
THEOREM RoundTrip ==
    ASSUME NEW rows \in Seq(RowSet), \A i \in DOMAIN rows : Keyed(rows[i])
    PROVE  /\ Emit(rows) \in Seq(Lines)
           /\ Parse(Emit(rows)).bad <=> ~Readable(rows)
           /\ Readable(rows) =>
                 LET after == Rows(Emit(rows))
                 IN  /\ DOMAIN after = DOMAIN rows
                     /\ \A i \in DOMAIN rows :
                           /\ DOMAIN after[i] = DOMAIN rows[i]
                           /\ \A k \in DOMAIN rows[i] : after[i][k] = Layered(rows[i][k]) <=> ~Cut(rows[i][k])
<1>1. /\ Emit(rows) \in Seq(Lines)
      /\ Readable(rows) => ~Parse(Emit(rows)).bad /\ Rows(Emit(rows)) = [i \in DOMAIN rows |-> SaidRow(rows[i])]
      /\ ~Readable(rows) => Parse(Emit(rows)).bad
  BY EmitRead
<1>2. \A i \in DOMAIN rows : rows[i] \in RowSet
  OBVIOUS
<1> DEFINE after == Rows(Emit(rows))
<1>3. ASSUME Readable(rows)
      PROVE  DOMAIN after = DOMAIN rows /\ \A i \in DOMAIN rows : after[i] = SaidRow(rows[i])
  BY <1>1, <1>3
<1> HIDE DEF after
<1>4. ASSUME Readable(rows), NEW i \in DOMAIN rows
      PROVE  /\ DOMAIN after[i] = DOMAIN rows[i]
             /\ \A k \in DOMAIN rows[i] : after[i][k] = Layered(rows[i][k]) <=> ~Cut(rows[i][k])
  <2> DEFINE row == rows[i]
  <2>1. row \in RowSet /\ after[i] = SaidRow(row)
    BY <1>2, <1>3, <1>4
  <2> HIDE DEF row
  <2>2. DOMAIN SaidRow(row) = DOMAIN row
    BY <2>1, SaidRowType
  <2>3. \A k \in DOMAIN row : SaidRow(row)[k] = Again(row[k]) /\ row[k] \in Values
    BY <2>1, RowFacts DEF SaidRow
  <2>4. \A k \in DOMAIN row : SaidRow(row)[k] = Layered(row[k]) <=> ~Cut(row[k])
    BY <2>3, AgainIs
  <2> QED BY <2>1, <2>2, <2>4 DEF row
<1> QED BY <1>1, <1>3, <1>4 DEF after

-----------------------------------------------------------------------------
\* What the checks make of a row does not depend on escapes, nor on what is
\* left of a string they do not accept.

LEMMA AgainKeeps ==
    ASSUME NEW v \in Values
    PROVE  /\ Again(v).t = v.t
           /\ v.t = "word" => Again(v).s = v.s \/ (Again(v).s \in Odd /\ v.s \in Odd)
           /\ Again(v) = List(<< >>) <=> v = List(<< >>)
           /\ Blank(Again(v)) <=> Blank(v)
<1>0. List(<< >>).t = "list"
  BY DEF List
<1>1. CASE v.t = "word"
  <2>1. v \in Words
    BY <1>1, ValueKinds DEF Scalars
  <2>2. Again(v).t = "word" /\ (Again(v).s = v.s \/ (Again(v).s \in Odd /\ v.s \in Odd))
    <3>1. CASE v.s \notin Hashed
      <4>1. Again(v) = Layered(v)
        BY <2>1, <3>1, AgainWord
      <4> QED BY <1>1, <4>1 DEF Layered, Word
    <3>2. CASE v.s \in Hashed
      <4>1. Again(v) = Str(LeftEscaped[v.s]) /\ LeftEscaped[v.s] \in Odd /\ v.s \in Odd
        BY <2>1, <3>2, AgainWord
      <4> QED BY <4>1 DEF Str, Word
    <3> QED BY <3>1, <3>2
  <2>3. "" \notin Odd
    BY StringsAssumption
  <2> QED BY <1>0, <1>1, <2>2, <2>3 DEF Blank
<1>2. CASE v.t = "flag"
  BY <1>2, AgainFlag
<1>3. CASE v.t = "list"
  <2> DEFINE items == v.items
             again == AgainItems(items)
  <2>1. items \in Seq(Words) /\ v = List(items) /\ Again(v) = List(again)
    BY <1>3, ValueKinds DEF Again
  <2> HIDE DEF items, again
  <2>2. again \in Seq(Words) /\ Len(again) = Len(items) /\ << >> \in Seq(Words)
    BY <2>1, AgainItemsType DEF again
  <2>3. again = << >> <=> items = << >>
    BY <2>1, <2>2, EmptySeq
  <2>4. (List(again) = List(<< >>) <=> again = << >>) /\ (List(items) = List(<< >>) <=> items = << >>)
    BY DEF List
  <2>5. List(again).t = "list"
    BY DEF List
  <2> QED BY <1>3, <2>1, <2>3, <2>4, <2>5 DEF Blank
<1> QED BY <1>1, <1>2, <1>3, ValueKinds

\* Valid scopes are read as they were.
LEMMA AgainScopes ==
    ASSUME NEW v \in Values, v.t = "list", \A i \in DOMAIN v.items : v.items[i] \in {Str(s) : s \in ValidScopes}
    PROVE  Again(v) = v
<1>1. ASSUME NEW i \in DOMAIN v.items PROVE v.items[i].s \notin Hashed
  <2>1. PICK s \in ValidScopes : v.items[i] = Str(s)
    BY <1>1
  <2>2. v.items[i].s = s
    BY <2>1 DEF Str, Word
  <2> QED BY <2>2, StringsAssumption
<1>2. Layered(v) = v /\ ~Cut(v)
  BY <1>1 DEF Layered, Cut
<1> QED BY <1>2, AgainIs

LEMMA SaidRowAt ==
    ASSUME NEW row \in RowSet, NEW k \in DOMAIN row
    PROVE  SaidRow(row)[k] = Again(row[k]) /\ row[k] \in Values /\ k \in DOMAIN SaidRow(row)
BY RowFacts DEF SaidRow

TextOf(v) == IF v = List(<< >>) THEN "" ELSE IF v.t = "word" THEN v.s ELSE v.t

LEMMA TextKept ==
    ASSUME NEW row \in RowSet, NEW k
    PROVE  /\ Text(SaidRow(row), k) = Text(row, k) \/ (Text(SaidRow(row), k) \in Odd /\ Text(row, k) \in Odd)
           /\ Text(SaidRow(row), k) = "" <=> Text(row, k) = ""
<1> SUFFICES Text(SaidRow(row), k) = Text(row, k) \/ (Text(SaidRow(row), k) \in Odd /\ Text(row, k) \in Odd)
  BY StringsAssumption
<1>0. DOMAIN SaidRow(row) = DOMAIN row
  BY DEF SaidRow
<1>1. CASE k \notin DOMAIN row
  BY <1>0, <1>1 DEF Text
<1>2. CASE k \in DOMAIN row
  <2> DEFINE v == row[k]  w == SaidRow(row)[k]
  <2>1. w = Again(v) /\ v \in Values
    BY <1>2, SaidRowAt
  <2>2. Text(row, k) = TextOf(v) /\ Text(SaidRow(row), k) = TextOf(w)
    BY <1>0, <1>2 DEF Text, TextOf
  <2> HIDE DEF v, w
  <2>3. /\ w.t = v.t /\ (v.t = "word" => w.s = v.s \/ (w.s \in Odd /\ v.s \in Odd))
        /\ w = List(<< >>) <=> v = List(<< >>)
    BY <2>1, AgainKeeps
  <2>4. TextOf(w) = TextOf(v) \/ (TextOf(w) \in Odd /\ TextOf(v) \in Odd)
    <3>1. CASE v = List(<< >>)
      BY <2>3, <3>1 DEF TextOf
    <3>2. CASE v # List(<< >>) /\ v.t = "word"
      BY <2>3, <3>2 DEF TextOf
    <3>3. CASE v # List(<< >>) /\ v.t # "word"
      BY <2>3, <3>3 DEF TextOf
    <3> QED BY <3>1, <3>2, <3>3
  <2> QED BY <2>2, <2>4
<1> QED BY <1>1, <1>2

LEMMA ViolatesKept ==
    ASSUME NEW row \in RowSet, ~Violates(row)
    PROVE  ~Violates(SaidRow(row))
<1> DEFINE said == SaidRow(row)
<1>1. DOMAIN said = DOMAIN row
  BY DEF SaidRow
<1>2. /\ Text(said, "peer_id_spki_fingerprint") = "" <=> Text(row, "peer_id_spki_fingerprint") = ""
      /\ Text(said, "peer_id_cert_fingerprint") = "" <=> Text(row, "peer_id_cert_fingerprint") = ""
  BY TextKept
<1>3. /\ "scopes" \in DOMAIN row /\ row["scopes"].t = "list"
      /\ \A i \in DOMAIN row["scopes"].items : row["scopes"].items[i] \in {Str(s) : s \in ValidScopes}
  BY DEF Violates
<1>4. said["scopes"] = row["scopes"]
  <2>1. said["scopes"] = Again(row["scopes"]) /\ row["scopes"] \in Values
    BY <1>3, SaidRowAt
  <2> QED BY <1>3, <2>1, AgainScopes
<1>5. "key_floor_verified_at" \in DOMAIN row =>
        (Blank(said["key_floor_verified_at"]) <=> Blank(row["key_floor_verified_at"]))
  <2> SUFFICES ASSUME "key_floor_verified_at" \in DOMAIN row
               PROVE  Blank(said["key_floor_verified_at"]) <=> Blank(row["key_floor_verified_at"])
    OBVIOUS
  <2>1. said["key_floor_verified_at"] = Again(row["key_floor_verified_at"]) /\ row["key_floor_verified_at"] \in Values
    BY SaidRowAt
  <2> QED BY <2>1, AgainKeeps
<1> HIDE DEF said
<1> QED BY <1>1, <1>2, <1>3, <1>4, <1>5 DEF Violates, said

\* A row the tool pinned to a certificate below the key floor.
PinnedBelow(row) ==
    /\ Text(row, "key_floor_verified_at") = "now"
    /\ \E c \in Certs : /\ ~c.floor /\ c.der = Text(row, "peer_id_cert_fingerprint")
                       /\ c.spki = Text(row, "peer_id_spki_fingerprint")

LEMMA CertType ==
    ASSUME NEW c \in Certs
    PROVE  c.spki \in Strings /\ c.spki \notin Odd \cup {""} /\ c.der \in Strings /\ c.der \notin Odd \cup {""}
<1>1. PICK p \in PeerIds : c \in CertsOf[p]
  BY DEF Certs
<1> DEFINE digests == Strings \ (Odd \cup {""})
<1>2. CertsOf \in [PeerIds -> SUBSET [der : digests, spki : digests, floor : BOOLEAN]]
  BY CertsAssumption
<1> HIDE DEF digests
<1>3. c.spki \in digests /\ c.der \in digests
  BY <1>1, <1>2
<1> QED BY <1>3 DEF digests

LEMMA SaidRowMeans ==
    ASSUME NEW row \in RowSet
    PROVE  /\ OneCertificate(row) => OneCertificate(SaidRow(row))
           /\ PinnedBelow(SaidRow(row)) => PinnedBelow(row)
           /\ Text(row, "peer_id") \notin Odd => Text(SaidRow(row), "peer_id") = Text(row, "peer_id")
           /\ AlreadyV2(row) => AlreadyV2(SaidRow(row))
<1> DEFINE Kept1(k) == \/ Text(SaidRow(row), k) = Text(row, k)
                       \/ Text(SaidRow(row), k) \in Odd /\ Text(row, k) \in Odd
           Empty1(k) == Text(SaidRow(row), k) = "" <=> Text(row, k) = ""
<1>1. \A k : Kept1(k) /\ Empty1(k)
  BY TextKept
<1>2. DOMAIN SaidRow(row) = DOMAIN row
  BY DEF SaidRow
<1>3. "now" \notin Odd
  BY StringsAssumption
<1> HIDE DEF SaidRow
<1>4. ASSUME OneCertificate(row) PROVE OneCertificate(SaidRow(row))
  <2> SUFFICES ASSUME Text(SaidRow(row), "peer_id_spki_fingerprint") # "",
                      Text(SaidRow(row), "peer_id_cert_fingerprint") # ""
               PROVE  \E c \in Certs : /\ c.der = Text(SaidRow(row), "peer_id_cert_fingerprint")
                                      /\ c.spki = Text(SaidRow(row), "peer_id_spki_fingerprint")
    BY DEF OneCertificate
  <2>1. Text(row, "peer_id_spki_fingerprint") # "" /\ Text(row, "peer_id_cert_fingerprint") # ""
    BY <1>1
  <2>2. PICK c \in Certs : c.der = Text(row, "peer_id_cert_fingerprint") /\ c.spki = Text(row, "peer_id_spki_fingerprint")
    BY <1>4, <2>1 DEF OneCertificate
  <2>3. c.der \notin Odd /\ c.spki \notin Odd
    BY CertType
  <2> QED BY <1>1, <2>2, <2>3
<1>5. ASSUME PinnedBelow(SaidRow(row)) PROVE PinnedBelow(row)
  <2>1. PICK c \in Certs : /\ ~c.floor /\ c.der = Text(SaidRow(row), "peer_id_cert_fingerprint")
                           /\ c.spki = Text(SaidRow(row), "peer_id_spki_fingerprint")
    BY <1>5 DEF PinnedBelow
  <2>2. c.der \notin Odd /\ c.spki \notin Odd
    BY CertType
  <2>3. /\ c.der = Text(row, "peer_id_cert_fingerprint") /\ c.spki = Text(row, "peer_id_spki_fingerprint")
        /\ Text(row, "key_floor_verified_at") = "now"
    BY <1>1, <1>3, <1>5, <2>1, <2>2 DEF PinnedBelow
  <2> QED BY <2>1, <2>3 DEF PinnedBelow
<1>6. Text(row, "peer_id") \notin Odd => Text(SaidRow(row), "peer_id") = Text(row, "peer_id")
  BY <1>1
<1> QED BY <1>2, <1>4, <1>5, <1>6 DEF AlreadyV2

\* The rendered rows conform if the rows do.
LEMMA Rendered ==
    ASSUME NEW rows \in Seq(RowSet), \A i \in DOMAIN rows : Keyed(rows[i])
    PROVE  /\ Emit(rows) \in Seq(Lines)
           /\ Parse(Emit(rows)).bad <=> ~Readable(rows)
           /\ ~Readable(rows) => Rows(Emit(rows)) = << >>
           /\ \A i \in DOMAIN rows : rows[i] \in RowSet
           /\ Readable(rows) => /\ DOMAIN Rows(Emit(rows)) = DOMAIN rows
                                /\ \A i \in DOMAIN rows : Rows(Emit(rows))[i] = SaidRow(rows[i])
                                /\ Conforms(rows) => Conforms(Rows(Emit(rows)))
<1>1. \A i \in DOMAIN rows : rows[i] \in RowSet
  OBVIOUS
<1>2. /\ Emit(rows) \in Seq(Lines)
      /\ Readable(rows) => ~Parse(Emit(rows)).bad /\ Rows(Emit(rows)) = [i \in DOMAIN rows |-> SaidRow(rows[i])]
      /\ ~Readable(rows) => Parse(Emit(rows)).bad
  BY EmitRead
<1>3. ~Readable(rows) => Rows(Emit(rows)) = << >>
  BY <1>2 DEF Rows
<1> DEFINE after == Rows(Emit(rows))
<1>4. ASSUME Readable(rows)
      PROVE  DOMAIN after = DOMAIN rows /\ \A i \in DOMAIN rows : after[i] = SaidRow(rows[i])
  BY <1>2, <1>4
<1> HIDE DEF after
<1>5. ASSUME Readable(rows), Conforms(rows) PROVE Conforms(after)
  BY <1>1, <1>4, <1>5, ViolatesKept DEF Conforms
<1> QED BY <1>1, <1>2, <1>3, <1>4, <1>5 DEF after

-----------------------------------------------------------------------------
\* The migration of a row.

LEMMA KeysAre ==
    /\ Identifiers = {"peer_id", "peer_id_spki_fingerprint", "peer_id_cert_fingerprint", "revoked",
                      "hmac_secret_hex", "scopes", "key_floor_verified_at", "note"}
    /\ Identifiers \subseteq Keys
BY DEF Identifiers, Keys, KeyOrder

LEMMA StrIs ==
    ASSUME NEW s \in Strings
    PROVE  Str(s) \in Scalars /\ Str(s) \in Values /\ Str(s) \in LineValues /\ TextOf(Str(s)) = s
<1>1. Str(s) \in Scalars
  BY UnquotedType
<1>2. Str(s) # List(<< >>) /\ Str(s).t = "word" /\ Str(s).s = s
  <2>1. Str(s).t = "word" /\ Str(s).s = s
    BY DEF Str, Word
  <2>2. List(<< >>).t = "list"
    BY DEF List
  <2> QED BY <2>1, <2>2
<1> QED BY <1>1, <1>2 DEF Values, LineValues, TextOf

LEMMA TextIs ==
    ASSUME NEW row, NEW k
    PROVE  /\ k \in DOMAIN row => Text(row, k) = TextOf(row[k])
           /\ k \notin DOMAIN row => Text(row, k) = ""
BY DEF Text, TextOf

\* Two rows with the same value at a key, or both without it.
AsAt(a, b, k) == (k \in DOMAIN a <=> k \in DOMAIN b) /\ (k \in DOMAIN a => b[k] = a[k])

LEMMA AsAtText ==
    ASSUME NEW a, NEW b, NEW k, AsAt(a, b, k)
    PROVE  Text(b, k) = Text(a, k)
<1>1. CASE k \in DOMAIN a
  BY <1>1, TextIs DEF AsAt
<1>2. CASE k \notin DOMAIN a
  BY <1>2, TextIs DEF AsAt
<1> QED BY <1>1, <1>2

LEMMA PinnedIs ==
    ASSUME NEW row \in RowSet, NEW spki \in Strings, NEW verified \in Strings
    PROVE  LET new == Pinned(row, spki, verified)
           IN  /\ new \in RowSet
               /\ DOMAIN new = DOMAIN row \cup {"peer_id_spki_fingerprint", "key_floor_verified_at"}
               /\ new["peer_id_spki_fingerprint"] = Str(spki) /\ new["key_floor_verified_at"] = Str(verified)
               /\ \A k \in DOMAIN row \ {"peer_id_spki_fingerprint", "key_floor_verified_at"} : new[k] = row[k]
<1> DEFINE mid == With(row, "peer_id_spki_fingerprint", Str(spki))
           new == With(mid, "key_floor_verified_at", Str(verified))
<1>1. "peer_id_spki_fingerprint" \in Keys /\ "key_floor_verified_at" \in Keys
  BY KeysAre
<1>2. Str(spki) \in Values /\ Str(verified) \in Values
  BY StrIs
<1>3. /\ mid \in RowSet /\ DOMAIN mid = DOMAIN row \cup {"peer_id_spki_fingerprint"}
      /\ mid["peer_id_spki_fingerprint"] = Str(spki)
      /\ \A k \in DOMAIN row : k # "peer_id_spki_fingerprint" => mid[k] = row[k]
  BY <1>1, <1>2, WithIs
<1> HIDE DEF mid
<1>4. /\ new \in RowSet /\ DOMAIN new = DOMAIN mid \cup {"key_floor_verified_at"}
      /\ new["key_floor_verified_at"] = Str(verified)
      /\ \A k \in DOMAIN mid : k # "key_floor_verified_at" => new[k] = mid[k]
  BY <1>1, <1>2, <1>3, WithIs
<1> HIDE DEF new
<1> QED BY <1>3, <1>4 DEF Pinned, mid, new

LEMMA ScopedIs ==
    ASSUME NEW row \in RowSet
    PROVE  /\ Scoped(row) \in RowSet /\ DOMAIN Scoped(row) = DOMAIN row \cup {"scopes"}
           /\ \A k \in DOMAIN row : Scoped(row)[k] = row[k]
           /\ "scopes" \notin DOMAIN row => Scoped(row)["scopes"] = List(<< >>)
<1>1. "scopes" \in Keys /\ List(<< >>) \in Values
  <2>1. << >> \in Seq(Words)
    OBVIOUS
  <2> QED BY <2>1, ValueKinds, KeysAre
<1>2. CASE "scopes" \notin DOMAIN row
  <2> DEFINE new == With(row, "scopes", List(<< >>))
  <2>1. Scoped(row) = new
    BY <1>2 DEF Scoped
  <2>2. /\ new \in RowSet /\ DOMAIN new = DOMAIN row \cup {"scopes"} /\ new["scopes"] = List(<< >>)
        /\ \A k \in DOMAIN row : k # "scopes" => new[k] = row[k]
    BY <1>1, WithIs
  <2> HIDE DEF new
  <2> QED BY <1>2, <2>1, <2>2
<1>3. CASE "scopes" \in DOMAIN row
  BY <1>3 DEF Scoped
<1> QED BY <1>2, <1>3

\* The fields of a row and those the migration gives it.
Gained(a) == DOMAIN a \cup {"peer_id_spki_fingerprint", "key_floor_verified_at", "scopes"}

\* A v1.x row with the given pin and time, and its scopes.
LEMMA ScopedPinned ==
    ASSUME NEW row \in RowSet, NEW spki \in Strings, NEW verified \in Strings
    PROVE  LET new == Scoped(Pinned(row, spki, verified))
           IN  /\ new \in RowSet /\ AlreadyV2(new)
               /\ DOMAIN new = Gained(row)
               /\ \A k \in DOMAIN row \ {"peer_id_spki_fingerprint", "key_floor_verified_at"} : new[k] = row[k]
               /\ "scopes" \notin DOMAIN row => new["scopes"] = List(<< >>)
               /\ AsAt(row, new, "peer_id") /\ AsAt(row, new, "peer_id_cert_fingerprint")
               /\ Text(new, "peer_id_spki_fingerprint") = spki /\ Text(new, "key_floor_verified_at") = verified
<1> DEFINE mid == Pinned(row, spki, verified)
           new == Scoped(mid)
<1>1. /\ mid \in RowSet
      /\ DOMAIN mid = DOMAIN row \cup {"peer_id_spki_fingerprint", "key_floor_verified_at"}
      /\ mid["peer_id_spki_fingerprint"] = Str(spki) /\ mid["key_floor_verified_at"] = Str(verified)
      /\ \A k \in DOMAIN row \ {"peer_id_spki_fingerprint", "key_floor_verified_at"} : mid[k] = row[k]
  BY PinnedIs
<1> HIDE DEF mid
<1>2. /\ new \in RowSet /\ DOMAIN new = DOMAIN mid \cup {"scopes"}
      /\ \A k \in DOMAIN mid : new[k] = mid[k]
      /\ "scopes" \notin DOMAIN mid => new["scopes"] = List(<< >>)
  BY <1>1, ScopedIs
<1> HIDE DEF new
<1>3. /\ DOMAIN new = Gained(row)
      /\ \A k \in DOMAIN row \ {"peer_id_spki_fingerprint", "key_floor_verified_at"} : new[k] = row[k]
      /\ "scopes" \notin DOMAIN row => new["scopes"] = List(<< >>)
  BY <1>1, <1>2 DEF Gained
<1>4. AlreadyV2(new) /\ AsAt(row, new, "peer_id") /\ AsAt(row, new, "peer_id_cert_fingerprint")
  BY <1>3 DEF AlreadyV2, AsAt, Gained
<1>5. new["peer_id_spki_fingerprint"] = Str(spki) /\ new["key_floor_verified_at"] = Str(verified)
  BY <1>1, <1>2
<1>6. TextOf(Str(spki)) = spki /\ TextOf(Str(verified)) = verified
  BY StrIs
<1>7. Text(new, "peer_id_spki_fingerprint") = spki /\ Text(new, "key_floor_verified_at") = verified
  BY <1>3, <1>5, <1>6, TextIs DEF Gained
<1> QED BY <1>2, <1>3, <1>4, <1>7 DEF new, mid

\* What a row becomes: nothing of it is lost, nobody is given a scope, and an
\* inspected one has its pin.
MigratedAs(a, b, skip) ==
    /\ AlreadyV2(b)
    /\ DOMAIN b \subseteq Gained(a)
    /\ \A k \in DOMAIN a : /\ k \in DOMAIN b
                           /\ AlreadyV2(a) \/ k \notin {"peer_id_spki_fingerprint", "key_floor_verified_at"}
                                 => b[k] = a[k]
    /\ "scopes" \notin DOMAIN a => b["scopes"] = List(<< >>)
    /\ ~AlreadyV2(a) /\ ~skip => Text(b, "peer_id_spki_fingerprint") # ""

Newly(row, new, spki, verified) ==
    /\ new \in RowSet /\ Text(new, "peer_id") = Text(row, "peer_id")
    /\ \A skip \in BOOLEAN : (spki = "" => skip) => MigratedAs(row, new, skip)
    /\ Text(new, "peer_id_cert_fingerprint") = Text(row, "peer_id_cert_fingerprint")
    /\ Text(new, "peer_id_spki_fingerprint") = spki /\ Text(new, "key_floor_verified_at") = verified

LEMMA NewlyPinned ==
    ASSUME NEW row \in RowSet, ~AlreadyV2(row), NEW spki \in Strings, NEW verified \in Strings
    PROVE  Newly(row, Scoped(Pinned(row, spki, verified)), spki, verified)
<1> DEFINE new == Scoped(Pinned(row, spki, verified))
<1>1. /\ new \in RowSet /\ AlreadyV2(new)
      /\ DOMAIN new = Gained(row)
      /\ \A k \in DOMAIN row \ {"peer_id_spki_fingerprint", "key_floor_verified_at"} : new[k] = row[k]
      /\ "scopes" \notin DOMAIN row => new["scopes"] = List(<< >>)
      /\ AsAt(row, new, "peer_id") /\ AsAt(row, new, "peer_id_cert_fingerprint")
      /\ Text(new, "peer_id_spki_fingerprint") = spki /\ Text(new, "key_floor_verified_at") = verified
  BY ScopedPinned
<1> HIDE DEF new
<1>2. /\ Text(new, "peer_id") = Text(row, "peer_id")
      /\ Text(new, "peer_id_cert_fingerprint") = Text(row, "peer_id_cert_fingerprint")
  BY <1>1, AsAtText
<1>3. ASSUME NEW skip \in BOOLEAN, spki = "" => skip PROVE MigratedAs(row, new, skip)
  BY <1>1, <1>3 DEF MigratedAs, Gained
<1> QED BY <1>1, <1>2, <1>3 DEF Newly, new

LEMMA CertIs ==
    ASSUME certs \in [PeerIds -> Certs \cup {NoCert}], NEW p \in PeerIds, certs[p] # NoCert
    PROVE  /\ certs[p] \in Certs /\ certs[p].spki \in Strings /\ certs[p].spki # ""
           /\ certs[p].der \in Strings /\ certs[p].der # ""
<1>1. certs[p] \in Certs
  OBVIOUS
<1> QED BY <1>1, CertType

LEMMA MigratedIs ==
    ASSUME certs \in [PeerIds -> Certs \cup {NoCert}], NEW row \in RowSet, NEW skip \in BOOLEAN, Migratable(row, skip)
    PROVE  /\ Migrated(row, skip) \in RowSet /\ MigratedAs(row, Migrated(row, skip), skip)
           /\ Text(Migrated(row, skip), "peer_id") = Text(row, "peer_id")
           /\ OneCertificate(row) => OneCertificate(Migrated(row, skip))
           /\ PinnedBelow(Migrated(row, skip)) => PinnedBelow(row) \/ (~skip /\ BelowFloor(row))
<1> DEFINE new == Migrated(row, skip)
           p == Text(row, "peer_id")
<1>1. CASE AlreadyV2(row)
  <2>1. new = row
    BY <1>1 DEF Migrated
  <2> QED BY <1>1, <2>1 DEF MigratedAs, AlreadyV2, Gained
<1>3. CASE ~AlreadyV2(row) /\ skip
  <2>1. new = Scoped(Pinned(row, "", "unknown"))
    BY <1>3 DEF Migrated
  <2> HIDE DEF new, p
  <2>2. /\ new \in RowSet /\ MigratedAs(row, new, skip) /\ Text(new, "peer_id") = p
        /\ Text(new, "peer_id_spki_fingerprint") = "" /\ Text(new, "key_floor_verified_at") = "unknown"
    <3>1. "" \in Strings /\ "unknown" \in Strings
      BY CertsAssumption
    <3>2. Newly(row, Scoped(Pinned(row, "", "unknown")), "", "unknown")
      BY <1>3, <3>1, NewlyPinned
    <3>3. Newly(row, new, "", "unknown")
      BY <2>1, <3>2
    <3> QED BY <1>3, <3>3 DEF Newly, p
  <2> QED BY <2>2 DEF OneCertificate, PinnedBelow, new, p
<1>4. CASE ~AlreadyV2(row) /\ ~skip
  <2> DEFINE c == certs[p]
  <2>1. p \in PeerIds /\ c # NoCert /\ Text(row, "peer_id_cert_fingerprint") \in {"", c.der}
    BY <1>4 DEF Migratable, Inspectable, PinMatches
  <2>2. new = Scoped(Pinned(row, c.spki, "now"))
    BY <1>4 DEF Migrated
  <2>3. BelowFloor(row) <=> ~c.floor
    BY <1>4 DEF BelowFloor
  <2> HIDE DEF new, p
  <2>4. c \in Certs /\ c.spki \in Strings /\ c.spki # "" /\ c.der # ""
    BY <2>1, CertIs
  <2> HIDE DEF c
  <2>5. /\ new \in RowSet /\ MigratedAs(row, new, skip) /\ Text(new, "peer_id") = p
        /\ Text(new, "peer_id_cert_fingerprint") = Text(row, "peer_id_cert_fingerprint")
        /\ Text(new, "peer_id_spki_fingerprint") = c.spki /\ Text(new, "key_floor_verified_at") = "now"
    <3> DEFINE spki == c.spki
    <3>1. spki \in Strings /\ "now" \in Strings /\ spki # ""
      BY <2>4, CertsAssumption
    <3>2. new = Scoped(Pinned(row, spki, "now"))
      BY <2>2
    <3> HIDE DEF spki
    <3>3. Newly(row, new, spki, "now")
      BY <1>4, <3>1, <3>2, NewlyPinned
    <3>4. /\ new \in RowSet /\ MigratedAs(row, new, skip) /\ Text(new, "peer_id") = p
          /\ Text(new, "peer_id_cert_fingerprint") = Text(row, "peer_id_cert_fingerprint")
          /\ Text(new, "peer_id_spki_fingerprint") = spki /\ Text(new, "key_floor_verified_at") = "now"
      BY <1>4, <3>1, <3>3 DEF Newly, p
    <3> QED BY <3>4 DEF spki
  <2>6. OneCertificate(new)
    BY <2>1, <2>4, <2>5 DEF OneCertificate
  <2>7. PinnedBelow(new) => BelowFloor(row)
    <3> SUFFICES ASSUME NEW d \in Certs, ~d.floor, d.der = Text(new, "peer_id_cert_fingerprint") PROVE ~c.floor
      BY <2>3 DEF PinnedBelow
    <3>1. d.der # ""
      BY CertType
    <3>2. d.der = c.der
      BY <2>1, <2>5, <3>1
    <3>3. d = c
      BY <2>4, <3>2, CertsAssumption
    <3> QED BY <3>3
  <2> QED BY <1>4, <2>5, <2>6, <2>7 DEF new, p
<1> QED BY <1>1, <1>3, <1>4

-----------------------------------------------------------------------------
\* A row an operator adds by hand.

LEMMA FieldRead ==
    ASSUME NEW text \in Seq(Lines), NEW st \in States, NEW row \in RowSet, RowAs(Parse(text), st, row),
           NEW k \in Identifiers, NEW value \in Scalars
    PROVE  /\ RowAs(Parse(Append(text, Field(4, k, value))), st, With(row, k, value))
           /\ With(row, k, value) \in RowSet /\ Append(text, Field(4, k, value)) \in Seq(Lines)
           /\ DOMAIN With(row, k, value) = DOMAIN row \cup {k}
<1> DEFINE now == Parse(text)
           ln == KeyLine(FALSE, k, value)
           after == Parse(Append(text, ln))
<1>0. k \in Keys
  BY KeysAre
<1>1. value \in LineValues /\ value \in Values /\ Said(value) = value
  BY ValueKinds, UnquotedType DEF LineValues, Values, Said
<1>2. ln \in Lines /\ ln = Field(4, k, value)
  BY <1>0, <1>1, KeyLineType DEF KeyLine
<1>3. Ready(now) /\ now \in States /\ now.rows # << >>
  <2>1. Ready(now) /\ now \in States /\ now.rows = Append(st.rows, row) /\ st.rows \in Seq(RowSet)
    BY StateRows DEF RowAs, Ready
  <2> QED BY <2>1, AppendLast
<1>4. ReadAs(after, FALSE, now, k, value)
  BY <1>0, <1>1, <1>3, HeadRead
<1>5. after \in States /\ RowAs(now, st, row)
  BY <1>4 DEF ReadAs, Ready
<1> HIDE DEF now, after
<1>6. RowAs(after, st, With(row, k, value)) /\ With(row, k, value) \in RowSet
  BY <1>0, <1>1, <1>3, <1>4, <1>5, NextRead
<1> HIDE DEF ln
<1>7. Append(text, ln) \in Seq(Lines)
  BY <1>2
<1>8. DOMAIN With(row, k, value) = DOMAIN row \cup {k}
  BY DEF With
<1> QED BY <1>2, <1>6, <1>7, <1>8 DEF after

\* The row the lines of a text have come to.
RowSoFar(text, st, row) == text \in Seq(Lines) /\ st \in States /\ row \in RowSet /\ RowAs(Parse(text), st, row)

LEMMA FieldAdds ==
    ASSUME NEW text, NEW st, NEW row, RowSoFar(text, st, row), NEW k \in Identifiers, NEW value \in Scalars
    PROVE  RowSoFar(Append(text, Field(4, k, value)), st, With(row, k, value))
<1>1. text \in Seq(Lines) /\ st \in States /\ row \in RowSet /\ RowAs(Parse(text), st, row)
  BY DEF RowSoFar
<1>2. /\ RowAs(Parse(Append(text, Field(4, k, value))), st, With(row, k, value))
      /\ With(row, k, value) \in RowSet /\ Append(text, Field(4, k, value)) \in Seq(Lines)
  BY <1>1, FieldRead
<1> QED BY <1>1, <1>2 DEF RowSoFar

\* A parser that has failed, or has not come to the rows, stays as it is.
Stuck(text) == text \in Seq(Lines) /\ (Parse(text).bad \/ ~Parse(text).peers)

LEMMA StuckStays ==
    ASSUME NEW text, Stuck(text), NEW ln \in Lines, ln.kind # "peers"
    PROVE  Stuck(Append(text, ln)) /\ Rows(Append(text, ln)) = Rows(text)
<1>1. text \in Seq(Lines) /\ Append(text, ln) \in Seq(Lines)
  BY DEF Stuck
<1>2. Parse(Append(text, ln)) = Parse(text)
  <2>1. ParseLine(Parse(text), ln) = Parse(text)
    BY DEF Stuck, ParseLine
  <2> QED BY <1>1, <2>1, ParseAppend
<1> QED BY <1>1, <1>2 DEF Stuck, Rows

Plain == {"peer_id", "peer_id_cert_fingerprint", "revoked", "hmac_secret_hex"}

LEMMA NewRowRead ==
    ASSUME certs \in [PeerIds -> Certs \cup {NoCert}], NEW p \in PeerIds, certs[p] # NoCert,
           NEW text \in Seq(Lines), ~Parse(text).bad
    PROVE  /\ text \o NewRow(p) \in Seq(Lines)
           /\ \/ Rows(text \o NewRow(p)) \in {Rows(text), << >>}
              \/ \E row \in RowSet : DOMAIN row = Plain /\ Rows(text \o NewRow(p)) = Append(Rows(text), row)
<1> DEFINE st == Parse(text)
           v1 == Str(p)  v2 == Str(certs[p].der)  v3 == Flag(FALSE)  v4 == Str("hmac")
           l1 == Item(2, "peer_id", v1)  l2 == Field(4, "peer_id_cert_fingerprint", v2)
           l3 == Field(4, "revoked", v3)  l4 == Field(4, "hmac_secret_hex", v4)
           t1 == Append(text, l1)  t2 == Append(t1, l2)  t3 == Append(t2, l3)  t4 == Append(t3, l4)
<1>1. v1 \in Scalars /\ v2 \in Scalars /\ v3 \in Scalars /\ v4 \in Scalars
  <2>1. p \in Strings /\ "hmac" \in Strings
    BY CertsAssumption
  <2>2. certs[p].der \in Strings
    BY CertIs
  <2>3. v3 \in Scalars
    BY DEF Flag, Scalars
  <2> QED BY <2>1, <2>2, <2>3, StrIs
<1>2. Plain \subseteq Keys
  BY KeysAre DEF Plain
<1>3. /\ l1 \in Lines /\ l2 \in Lines /\ l3 \in Lines /\ l4 \in Lines
      /\ l1.kind = "item" /\ l1.indent = 2 /\ l2.kind = "field" /\ l3.kind = "field" /\ l4.kind = "field"
  <2> HIDE DEF v1, v2, v3, v4
  <2>1. \A v \in Scalars : v \in LineValues
    BY DEF LineValues
  <2>2. v1 \in LineValues /\ v2 \in LineValues /\ v3 \in LineValues /\ v4 \in LineValues
    BY <1>1, <2>1
  <2>3. "peer_id" \in Keys /\ "peer_id_cert_fingerprint" \in Keys /\ "revoked" \in Keys /\ "hmac_secret_hex" \in Keys
    BY KeysAre
  <2>4. \A k \in Keys : \A v \in LineValues : Field(4, k, v) \in Lines /\ Field(4, k, v).kind = "field"
    BY DEF Lines, Field
  <2>5. \A k \in Keys : \A v \in LineValues : /\ Item(2, k, v) \in Lines
                                             /\ Item(2, k, v).kind = "item" /\ Item(2, k, v).indent = 2
    BY DEF Lines, Item
  <2> QED BY <2>2, <2>3, <2>4, <2>5
<1>4. text \o NewRow(p) = t4
  <2>1. NewRow(p) = <<l1, l2, l3, l4>>
    BY DEF NewRow
  <2> HIDE DEF l1, l2, l3, l4
  <2>2. text \o <<l1, l2, l3, l4>> = t4
    BY <1>3
  <2> QED BY <2>1, <2>2
<1>5. st \in States /\ ~st.bad
  BY ParseType
<1>6. t1 \in Seq(Lines) /\ Parse(t1) = ParseLine(st, l1)
  <2> HIDE DEF l1
  <2> QED BY <1>3, ParseAppend
<1>7. ASSUME Stuck(t1), Rows(t1) \in {Rows(text), << >>}
      PROVE  t4 \in Seq(Lines) /\ Rows(t4) \in {Rows(text), << >>}
  <2> HIDE DEF t1, l2, l3, l4
  <2>1. Stuck(t2) /\ Rows(t2) = Rows(t1)
    BY <1>3, <1>7, StuckStays
  <2> HIDE DEF t2
  <2>2. Stuck(t3) /\ Rows(t3) = Rows(t2)
    BY <1>3, <2>1, StuckStays
  <2> HIDE DEF t3
  <2>3. Stuck(t4) /\ Rows(t4) = Rows(t3)
    BY <1>3, <2>2, StuckStays
  <2> QED BY <1>7, <2>1, <2>2, <2>3 DEF Stuck
<1>8. CASE ~st.peers
  <2>1. Stuck(text)
    BY <1>8 DEF Stuck
  <2> HIDE DEF l1, l2, l3, l4
  <2>2. Stuck(t1) /\ Rows(t1) = Rows(text)
    BY <1>3, <2>1, StuckStays
  <2> HIDE DEF t1
  <2> QED BY <1>4, <1>7, <2>2
<1>9. CASE st.peers /\ st.item \notin {-1, 2}
  <2> HIDE DEF st, l1
  <2>1. st.nested # 2
    BY <1>5, StateIndents
  <2>2. ~Nested(st, l1) /\ ~OpensRow(st, l1) /\ ~OnRow(st, l1)
    BY <1>3, <1>9, <2>1 DEF Nested, OpensRow, OnRow, IsDash
  <2>3. ParseLine(st, l1) = [st EXCEPT !.bad = TRUE]
    BY <1>3, <1>5, <1>9, <2>2, LineRead
  <2> DEFINE after == [st EXCEPT !.bad = TRUE]
  <2>4. after \in States
    BY <1>5, FlagType
  <2>5. after.bad
    <3>1. st = [peers |-> st.peers, rows |-> st.rows, item |-> st.item,
                nested |-> st.nested, list |-> st.list, bad |-> st.bad]
      BY <1>5, StateFields
    <3> QED BY <3>1
  <2> HIDE DEF after
  <2>6. Parse(t1) = after
    BY <1>6, <2>3 DEF after
  <2> HIDE DEF t1
  <2>7. Stuck(t1) /\ Rows(t1) = << >>
    BY <1>6, <2>5, <2>6 DEF Stuck, Rows, st
  <2> HIDE DEF t4
  <2> QED BY <1>4, <1>7, <2>7
<1>10. CASE st.peers /\ st.item \in {-1, 2}
  <2> DEFINE r1 == With(<< >>, "peer_id", v1)  r2 == With(r1, "peer_id_cert_fingerprint", v2)
             r3 == With(r2, "revoked", v3)  r4 == With(r3, "hmac_secret_hex", v4)
  <2>1. Ready(Parse(text))
    BY <1>5, <1>10 DEF Ready
  <2> HIDE DEF v1, v2, v3, v4
  <2>2. RowAs(Parse(t1), st, r1) /\ r1 \in RowSet /\ DOMAIN r1 = {"peer_id"}
    <3>1. v1 \in LineValues /\ v1 \in Values /\ Said(v1) = v1
      BY <1>1, ValueKinds, UnquotedType DEF LineValues, Values, Said
    <3>2. KeyLine(TRUE, "peer_id", v1) = l1 /\ "peer_id" \in Keys
      BY KeysAre DEF KeyLine
    <3>3. ReadAs(Parse(Append(text, KeyLine(TRUE, "peer_id", v1))), TRUE, Parse(text), "peer_id", v1)
      BY <2>1, <3>1, <3>2, HeadRead
    <3>4. ReadAs(Parse(t1), TRUE, st, "peer_id", v1)
      BY <3>2, <3>3
    <3>5. r1 \in RowSet /\ DOMAIN r1 = {"peer_id"}
      <4>1. << >> \in RowSet /\ DOMAIN << >> = {}
        BY RowFacts
      <4>2. r1 \in RowSet
        BY <3>1, <3>2, <4>1, WithIs
      <4>3. DOMAIN r1 = DOMAIN << >> \cup {"peer_id"}
        BY DEF With
      <4> QED BY <4>1, <4>2, <4>3
    <3> HIDE DEF t1, st, r1
    <3> QED BY <3>4, <3>5 DEF ReadAs, RowAs, Rowed, Before, r1
  <2> HIDE DEF st, t1, r1
  <2>3. /\ "peer_id_cert_fingerprint" \in Identifiers /\ "revoked" \in Identifiers /\ "hmac_secret_hex" \in Identifiers
        /\ RowSoFar(t1, st, r1)
    BY <1>5, <1>6, <2>2, KeysAre DEF RowSoFar
  <2>4. RowSoFar(t2, st, r2)
    BY <1>1, <2>3, FieldAdds
  <2> HIDE DEF t2, r2
  <2>5. RowSoFar(t3, st, r3)
    BY <1>1, <2>3, <2>4, FieldAdds
  <2> HIDE DEF t3, r3
  <2>6. RowSoFar(t4, st, r4)
    BY <1>1, <2>3, <2>5, FieldAdds
  <2>7. DOMAIN r4 = Plain
    <3>1. \A row, k, v : DOMAIN With(row, k, v) = DOMAIN row \cup {k}
      BY DEF With
    <3>2. /\ DOMAIN r2 = DOMAIN r1 \cup {"peer_id_cert_fingerprint"} /\ DOMAIN r3 = DOMAIN r2 \cup {"revoked"}
          /\ DOMAIN r4 = DOMAIN r3 \cup {"hmac_secret_hex"}
      BY <3>1 DEF r2, r3
    <3> HIDE DEF r4
    <3> QED BY <2>2, <3>2 DEF Plain
  <2> HIDE DEF t4, r4
  <2>8. Rows(t4) = Append(Rows(text), r4) /\ t4 \in Seq(Lines) /\ r4 \in RowSet
    BY <1>5, <2>6 DEF RowSoFar, RowAs, Ready, Rows, st
  <2> QED BY <1>4, <2>7, <2>8
<1> HIDE DEF st
<1> QED BY <1>8, <1>9, <1>10

-----------------------------------------------------------------------------
\* A run and what it carries.

TextsInv == files \in [{"in", "out"} -> Seq(Lines) \cup {Nothing}]

\* A run carries the rows of the text it has read, and after its migration
\* rows that conform and say what they must of those.
RunInv ==
    run # Idle =>
        /\ run.o \in Options /\ ~BadUsage(run.o) /\ run.o.mode # "verify"
        /\ run.pc # "migrate" => run.o.mode # "dry"
        /\ run.verbatim \in BOOLEAN
        /\ run.text \in Seq(Lines) /\ ~Parse(run.text).bad
        /\ run.rows \in Seq(RowSet) /\ \A i \in DOMAIN run.rows : Keyed(run.rows[i])
        /\ DOMAIN run.rows = DOMAIN Rows(run.text)
        /\ run.pc = "migrate" => ~run.verbatim /\ run.warned = {}
        /\ run.pc = "migrate" \/ run.verbatim => run.rows = Rows(run.text)
        /\ run.pc # "migrate" => Conforms(run.rows)
        /\ run.pc # "migrate" /\ ~run.verbatim =>
              \A i \in DOMAIN run.rows : MigratedAs(Rows(run.text)[i], run.rows[i], run.o.skip)

RowsOf(rows) == {rows[i] : i \in DOMAIN rows}

\* The successful end of a migration, and the steps after which a run carries
\* what it did.
MigratesTo(new, warned) ==
    /\ run.pc = "migrate" /\ run.o.mode # "dry"
    /\ new = [i \in DOMAIN run.rows |-> Migrated(run.rows[i], run.o.skip)] /\ Conforms(new)
    /\ \A i \in DOMAIN run.rows : Migratable(run.rows[i], run.o.skip)
    /\ warned = {Text(row, "peer_id") : row \in {r \in RowsOf(run.rows) : ~run.o.skip /\ BelowFloor(r)}}
    /\ run' = [run EXCEPT !.pc = "backup", !.rows = new, !.warned = warned]
GoesOnRunning ==
    /\ run # Idle /\ run' # Idle
    /\ run'.o = run.o /\ run'.text = run.text /\ run'.rows = run.rows /\ run'.verbatim = run.verbatim
    /\ run.pc # "advise" => run'.warned = run.warned
    /\ run.pc = "advise" => run'.pc = "advise"
    /\ run'.pc = "migrate" => run.pc = "migrate" /\ run' = run
    /\ run.pc = "migrate" => run'.pc = "migrate"

LEMMA RunStep ==
    ASSUME IInv, Next, run' # Idle
    PROVE  \/ \E o \in Usages : Start(o)
           \/ \E new, warned : MigratesTo(new, warned)
           \/ GoesOnRunning
<1> USE DEF IInv, RunFields
<1>1. CASE Migrate
  <2>1. ~Finish("generic") /\ ~Finish("ok") /\ ~Finish("nonconformant")
    BY DEF Finish
  <2> DEFINE rows == run.rows
             skip == run.o.skip
             new == [i \in DOMAIN rows |-> Migrated(rows[i], skip)]
             warned == {Text(row, "peer_id") : row \in
                           {r \in {rows[i] : i \in DOMAIN rows} : ~skip /\ BelowFloor(r)}}
  <2>2. /\ run.pc = "migrate" /\ run.o.mode # "dry" /\ Conforms(new)
        /\ ~(\E i \in DOMAIN rows : ~Migratable(rows[i], skip))
        /\ run' = [run EXCEPT !.pc = "backup", !.rows = new, !.warned = warned]
    BY <1>1, <2>1 DEF Migrate
  <2>3. MigratesTo(new, warned)
    BY <2>2 DEF MigratesTo, RowsOf
  <2> QED BY <2>3
<1>2. CASE Backup
  <2>1. ~Finish("generic")
    BY DEF Finish
  <2>2. run.pc = "backup" /\ run' = [run EXCEPT !.pc = "write"] /\ run # Idle
    BY <1>2, <2>1 DEF Backup, Idle
  <2>3. /\ run'.o = run.o /\ run'.text = run.text /\ run'.rows = run.rows /\ run'.verbatim = run.verbatim
        /\ run'.warned = run.warned /\ run'.pc = "write"
    BY <2>2 DEF RunInOrder
  <2> QED BY <2>2, <2>3 DEF GoesOnRunning
<1>3. CASE Write
  <2>1. ~Finish("generic")
    BY DEF Finish
  <2>2. run.pc = "write" /\ run' = [run EXCEPT !.pc = "advise"] /\ run # Idle
    BY <1>3, <2>1 DEF Write, Idle
  <2>3. /\ run'.o = run.o /\ run'.text = run.text /\ run'.rows = run.rows /\ run'.verbatim = run.verbatim
        /\ run'.warned = run.warned /\ run'.pc = "advise"
    BY <2>2 DEF RunInOrder
  <2> QED BY <2>2, <2>3 DEF GoesOnRunning
<1>4. CASE Advise
  <2>1. ~Finish("ok")
    BY DEF Finish
  <2>2. PICK p : run.pc = "advise" /\ run' = [run EXCEPT !.warned = @ \ {p}] /\ run # Idle
    BY <1>4, <2>1 DEF Advise, SidecarFails, Idle
  <2>3. /\ run'.o = run.o /\ run'.text = run.text /\ run'.rows = run.rows /\ run'.verbatim = run.verbatim
        /\ run'.warned = run.warned \ {p} /\ run'.pc = "advise"
    BY <2>2 DEF RunInOrder
  <2> QED BY <2>2, <2>3 DEF GoesOnRunning
<1>5. CASE Kill
  BY <1>5 DEF Kill
<1>6. CASE Operator \/ Renew
  <2>1. run' = run
    BY <1>6 DEF Operator, Edited, Renew
  <2> QED BY <2>1 DEF GoesOnRunning
<1> QED BY <1>1, <1>2, <1>3, <1>4, <1>5, <1>6 DEF Next, Run

\* The parser's rows have a type; a row that is a peer's has a key.
LEMMA RowsType ==
    ASSUME NEW text \in Seq(Lines)
    PROVE  Rows(text) \in Seq(RowSet) /\ \A i \in DOMAIN Rows(text) : Rows(text)[i] \in RowSet
<1>1. Parse(text) \in States
  BY ParseType
<1>2. Rows(text) \in Seq(RowSet)
  BY <1>1, StateRows, EmptySeq DEF Rows
<1> QED BY <1>2

LEMMA StartGoesOn ==
    ASSUME IInv, TextsInv, NEW o \in Usages, Start(o), run' # Idle
    PROVE  /\ RunInv' /\ run'.rows = Rows(files["in"]) /\ files["in"] # Nothing /\ run'.warned = {}
           /\ run = Idle /\ run'.pc # "advise"
<1> DEFINE text == files["in"]
           rows == Rows(text)
           v == IF BadUsage(o) THEN "generic" ELSE Verdict(o, text)
<1>1. /\ ~Finish(v) /\ run = Idle
      /\ v \notin Exits
      /\ run' = [pc |-> IF v = "verbatim" THEN "backup" ELSE "migrate", o |-> o,
                 before |-> files["out"], text |-> text, rows |-> rows,
                 verbatim |-> v = "verbatim", warned |-> {}]
  BY DEF Start, Finish
<1>2. ~BadUsage(o) /\ v = Verdict(o, text) /\ text # Nothing /\ ~Parse(text).bad
  BY <1>1 DEF Verdict, Exits
<1>3. text \in Seq(Lines) /\ o \in Options
  <2>1. "in" \in {"in", "out"}
    OBVIOUS
  <2>2. text \in Seq(Lines) \cup {Nothing}
    BY <2>1 DEF TextsInv
  <2> QED BY <1>2, <2>2, UsagesAssumption
<1>4. /\ o.mode # "verify"
      /\ ~(\E i \in DOMAIN rows : ~AlreadyV2(rows[i]) /\ LacksField(rows[i]))
      /\ \/ v = "migrate"
         \/ v = "verbatim" /\ o.mode # "dry" /\ PureV2(rows) /\ Conforms(rows)
  BY <1>1, <1>2 DEF Verdict, Exits
<1>5. rows \in Seq(RowSet)
  BY <1>3, RowsType
<1>6. \A i \in DOMAIN rows : Keyed(rows[i])
  BY <1>4, KeysAre DEF AlreadyV2, LacksField, Required, Keyed
<1> HIDE DEF rows, text, v
<1>7. /\ run'.o = o /\ run'.text = text /\ run'.rows = rows /\ run'.warned = {}
      /\ run'.pc = (IF v = "verbatim" THEN "backup" ELSE "migrate") /\ run'.verbatim = (v = "verbatim")
  BY <1>1
<1>8. run'.verbatim \in BOOLEAN
  BY <1>7
<1>9. CASE v = "migrate"
  <2>1. run'.pc = "migrate" /\ ~run'.verbatim
    BY <1>7, <1>9
  <2>2. RunInv'
    BY <1>2, <1>3, <1>4, <1>5, <1>6, <1>7, <1>8, <2>1 DEF RunInv, rows
  <2> QED BY <1>1, <1>2, <1>7, <2>1, <2>2 DEF rows, text
<1>10. CASE v = "verbatim" /\ o.mode # "dry" /\ PureV2(rows) /\ Conforms(rows)
  <2>1. run'.pc = "backup" /\ run'.verbatim
    BY <1>7, <1>10
  <2>2. RunInv'
    BY <1>2, <1>3, <1>4, <1>5, <1>6, <1>7, <1>8, <1>10, <2>1 DEF RunInv, rows
  <2> QED BY <1>1, <1>2, <1>7, <2>1, <2>2 DEF rows, text
<1> QED BY <1>4, <1>9, <1>10

LEMMA CertsTyped == IInv => certs \in [PeerIds -> Certs \cup {NoCert}]
BY DEF IInv, TypeOK

\* What a migration makes of the rows.
LEMMA MigrateGoesOn ==
    ASSUME IInv, RunInv, NEW new, NEW warned, MigratesTo(new, warned)
    PROVE  /\ RunInv' /\ run'.rows = new /\ run'.warned = warned /\ run'.pc = "backup"
           /\ run # Idle /\ run' # Idle
           /\ \A row \in RowsOf(new) : \E r \in RowsOf(run.rows) :
                 /\ OneCertificate(r) => OneCertificate(row)
                 /\ PinnedBelow(row) => PinnedBelow(r) \/ Text(row, "peer_id") \in warned
                 /\ Text(row, "peer_id") = Text(r, "peer_id")
<1> DEFINE rows == run.rows
           skip == run.o.skip
<1>1. /\ run.pc = "migrate" /\ run.o.mode # "dry" /\ run # Idle
      /\ new = [i \in DOMAIN rows |-> Migrated(rows[i], skip)] /\ Conforms(new)
      /\ \A i \in DOMAIN rows : Migratable(rows[i], skip)
      /\ warned = {Text(row, "peer_id") : row \in {r \in RowsOf(rows) : ~skip /\ BelowFloor(r)}}
      /\ run' = [run EXCEPT !.pc = "backup", !.rows = new, !.warned = warned]
  BY DEF MigratesTo, Idle
<1>2. /\ run.o \in Options /\ ~BadUsage(run.o) /\ run.o.mode # "verify"
      /\ ~run.verbatim /\ run.text \in Seq(Lines) /\ ~Parse(run.text).bad
      /\ rows \in Seq(RowSet) /\ \A i \in DOMAIN rows : Keyed(rows[i])
      /\ rows = Rows(run.text)
  BY <1>1 DEF RunInv
<1>3. skip \in BOOLEAN
  BY <1>2 DEF Options
<1>4. run = [x \in RunFields |-> run[x]]
  BY <1>1 DEF IInv, RunInOrder
<1>5. /\ run'.pc = "backup" /\ run'.rows = new /\ run'.warned = warned /\ run'.o = run.o
      /\ run'.text = run.text /\ run'.verbatim = run.verbatim /\ run' # Idle
  <2> HIDE DEF rows, skip
  <2>1. /\ run'.pc = "backup" /\ run'.rows = new /\ run'.warned = warned /\ run'.o = run.o
        /\ run'.text = run.text /\ run'.verbatim = run.verbatim
    BY <1>1, <1>4 DEF RunFields
  <2>2. Idle.pc = "idle"
    BY DEF Idle
  <2> QED BY <2>1, <2>2
<1> HIDE DEF rows, skip
<1>6. ASSUME NEW i \in DOMAIN rows
      PROVE  /\ new[i] = Migrated(rows[i], skip) /\ rows[i] \in RowSet /\ new[i] \in RowSet
             /\ MigratedAs(rows[i], new[i], skip) /\ Keyed(new[i])
             /\ Text(new[i], "peer_id") = Text(rows[i], "peer_id")
             /\ OneCertificate(rows[i]) => OneCertificate(new[i])
             /\ PinnedBelow(new[i]) => PinnedBelow(rows[i]) \/ (~skip /\ BelowFloor(rows[i]))
  <2> DEFINE row == rows[i]  made == new[i]
  <2>1. made = Migrated(row, skip) /\ row \in RowSet /\ Migratable(row, skip) /\ Keyed(row)
    BY <1>1, <1>2
  <2> HIDE DEF row, made
  <2>2. /\ made \in RowSet /\ MigratedAs(row, made, skip)
        /\ Text(made, "peer_id") = Text(row, "peer_id")
        /\ OneCertificate(row) => OneCertificate(made)
        /\ PinnedBelow(made) => PinnedBelow(row) \/ (~skip /\ BelowFloor(row))
    BY <1>3, <2>1, CertsTyped, MigratedIs
  <2>3. Keyed(made)
    BY <2>2, KeysAre DEF MigratedAs, AlreadyV2, Keyed
  <2> QED BY <2>1, <2>2, <2>3 DEF row, made
<1>7. DOMAIN new = DOMAIN rows /\ new \in Seq(RowSet)
  <2>1. DOMAIN new = DOMAIN rows
    BY <1>1
  <2>2. DOMAIN rows = 1..Len(rows) /\ Len(rows) \in Nat
    BY <1>2
  <2>3. new = [i \in 1..Len(rows) |-> new[i]]
    BY <1>1, <2>1, <2>2
  <2>4. \A i \in 1..Len(rows) : new[i] \in RowSet
    BY <1>6, <2>2
  <2> DEFINE n == Len(rows)
  <2> HIDE DEF n
  <2>5. [i \in 1..n |-> new[i]] \in Seq(RowSet)
    BY <2>2, <2>4 DEF n
  <2> QED BY <2>1, <2>3, <2>5 DEF n
<1>8. RunInv'
  <2>1. run'.pc # "migrate" /\ (run'.verbatim <=> FALSE) /\ run'.verbatim \in BOOLEAN
    BY <1>1, <1>2, <1>5 DEF RunInv
  <2>2. \A i \in DOMAIN new : MigratedAs(Rows(run.text)[i], new[i], run.o.skip)
    BY <1>2, <1>6, <1>7 DEF skip
  <2>3. DOMAIN new = DOMAIN Rows(run.text)
    BY <1>2, <1>7
  <2>4. \A i \in DOMAIN new : Keyed(new[i])
    BY <1>6, <1>7
  <2> QED BY <1>1, <1>2, <1>5, <1>7, <2>1, <2>2, <2>3, <2>4 DEF RunInv
<1>9. ASSUME NEW row \in RowsOf(new)
      PROVE  \E r \in RowsOf(rows) :
                 /\ OneCertificate(r) => OneCertificate(row)
                 /\ PinnedBelow(row) => PinnedBelow(r) \/ Text(row, "peer_id") \in warned
                 /\ Text(row, "peer_id") = Text(r, "peer_id")
  <2>1. PICK i \in DOMAIN rows : row = new[i]
    BY <1>7 DEF RowsOf
  <2> DEFINE r == rows[i]
  <2>2. /\ Text(row, "peer_id") = Text(r, "peer_id") /\ (OneCertificate(r) => OneCertificate(row))
        /\ PinnedBelow(row) => PinnedBelow(r) \/ (~skip /\ BelowFloor(r))
    BY <1>6, <2>1
  <2>3. r \in RowsOf(rows)
    BY DEF RowsOf
  <2> HIDE DEF r
  <2>4. ~skip /\ BelowFloor(r) => Text(r, "peer_id") \in warned
    BY <1>1, <2>3
  <2> QED BY <2>2, <2>3, <2>4
<1> QED BY <1>1, <1>5, <1>8, <1>9 DEF rows

LEMMA RunInvStep ==
    ASSUME IInv, TextsInv, RunInv, [Next]_vars
    PROVE  RunInv'
<1>1. CASE run' = Idle
  BY <1>1 DEF RunInv, Idle
<1>2. CASE UNCHANGED vars
  BY <1>2 DEF RunInv, vars
<1>3. CASE run' # Idle /\ Next
  <2>1. CASE \E o \in Usages : Start(o)
    BY <1>3, <2>1, StartGoesOn
  <2>2. CASE \E new, warned : MigratesTo(new, warned)
    BY <2>2, MigrateGoesOn
  <2>3. CASE GoesOnRunning
    <3>1. CASE run'.pc = "migrate"
      BY <2>3, <3>1 DEF GoesOnRunning, RunInv
    <3>2. CASE run'.pc # "migrate"
      BY <2>3, <3>2 DEF GoesOnRunning, RunInv
    <3> QED BY <3>1, <3>2
  <2> QED BY <1>3, <2>1, <2>2, <2>3, RunStep
<1> QED BY <1>1, <1>2, <1>3

-----------------------------------------------------------------------------
\* Where the text of a file comes from.

Kept(f) == files'[f] = files[f] /\ author'[f] = author[f]
Wrote(f) == files'[f] \in Authored /\ author'[f] = "operator"
Added(f, p) ==
    /\ certs[p] # NoCert /\ files["in"] # Nothing /\ ~Parse(files["in"]).bad
    /\ files'[f] = files["in"] \o NewRow(p) /\ author'[f] = "operator"
Promoted(f) == files["out"] # Nothing /\ files'[f] = files["out"] /\ author'[f] = author["out"]
Advising == /\ run # Idle /\ run.pc = "write" /\ run'.pc = "advise" /\ run'.warned = run.warned
            /\ sidecars' = sidecars /\ excused' = excused
Copied(f) ==
    /\ Advising /\ run.verbatim /\ files'[f] = files["in"]
    /\ author'[f] = IF files["in"] = run.text THEN "tool" ELSE "unread"
Rendering(f) ==
    /\ Advising /\ ~run.verbatim /\ files'[f] = Emit(run.rows)
    /\ author'[f] = IF Readable(run.rows) THEN "tool" ELSE "moved"

LEMMA FileStep ==
    ASSUME IInv, TextsInv, RunInv, [Next]_vars, NEW f \in {"in", "out"}
    PROVE  \/ Kept(f) \/ Wrote(f) \/ (\E p \in PeerIds : Added(f, p)) \/ Promoted(f) \/ Copied(f) \/ Rendering(f)
<1> USE DEF IInv, TypeOK
<1>1. CASE UNCHANGED <<files, author>>
  BY <1>1 DEF Kept
<1>2. CASE Write /\ ~(UNCHANGED <<files, author>>)
  <2>1. /\ run.pc = "write" /\ run' = [run EXCEPT !.pc = "advise"] /\ run # Idle
        /\ UNCHANGED <<certs, sidecars, excused>>
        /\ files' = [files EXCEPT ![run.o.out] = IF run.verbatim THEN files["in"] ELSE Emit(run.rows)]
        /\ author' = [author EXCEPT ![run.o.out] =
                         IF run.verbatim /\ files["in"] # run.text THEN "unread"
                         ELSE IF ~run.verbatim /\ ~Readable(run.rows) THEN "moved" ELSE "tool"]
    BY <1>2 DEF Write, Idle
  <2>2. Advising
    <3>1. run'.pc = "advise" /\ run'.warned = run.warned
      BY <2>1 DEF RunInOrder, RunFields
    <3> QED BY <2>1, <3>1 DEF Advising
  <2>3. CASE f # run.o.out
    BY <2>1, <2>3 DEF Kept
  <2>4. CASE f = run.o.out /\ run.verbatim
    <3>1. files'[f] = files["in"] /\ author'[f] = (IF files["in"] = run.text THEN "tool" ELSE "unread")
      BY <2>1, <2>4
    <3> QED BY <2>2, <2>4, <3>1 DEF Copied
  <2>5. CASE f = run.o.out /\ ~run.verbatim
    <3>1. files'[f] = Emit(run.rows) /\ author'[f] = (IF Readable(run.rows) THEN "tool" ELSE "moved")
      BY <2>1, <2>5
    <3> QED BY <2>2, <2>5, <3>1 DEF Rendering
  <2>6. run.verbatim \in BOOLEAN
    BY <2>1 DEF RunInv
  <2> QED BY <2>3, <2>4, <2>5, <2>6
<1>3. CASE Operator
  <2>1. ASSUME NEW text, Edited(text), f = "in"
        PROVE  files'[f] = text /\ author'[f] = "operator"
    BY <2>1 DEF Edited
  <2>2. CASE f = "out"
    BY <1>3, <2>2 DEF Operator, Edited, Kept
  <2>3. CASE f = "in" /\ \E text \in Authored : Edited(text)
    BY <2>1, <2>3 DEF Wrote
  <2>4. ASSUME f = "in", NEW p \in PeerIds,
               files["in"] # Nothing, ~Parse(files["in"]).bad, certs[p] # NoCert,
               Edited(files["in"] \o NewRow(p))
        PROVE  Added(f, p)
    BY <2>1, <2>4 DEF Added
  <2>5. CASE /\ f = "in" /\ files["out"] # Nothing
             /\ files' = [files EXCEPT !["in"] = files["out"]]
             /\ author' = [author EXCEPT !["in"] = author["out"]]
    BY <2>5 DEF Promoted
  <2> QED BY <1>3, <2>2, <2>3, <2>4, <2>5 DEF Operator
<1>4. CASE Next /\ ~Write /\ ~Operator
  <2>1. UNCHANGED <<files, author>>
    BY <1>4 DEF Next, Run, Start, Migrate, Backup, Advise, Kill, Renew
  <2> QED BY <1>1, <2>1
<1>5. CASE UNCHANGED vars
  BY <1>1, <1>5 DEF vars
<1> QED BY <1>1, <1>2, <1>3, <1>4, <1>5

LEMMA InType ==
    ASSUME TextsInv, NEW f \in {"in", "out"}
    PROVE  (files[f] # Nothing => files[f] \in Seq(Lines)) /\ files[f] \in Seq(Lines) \cup {Nothing}
BY DEF TextsInv

LEMMA AddedType ==
    ASSUME IInv, TextsInv, NEW f \in {"in", "out"}, NEW p \in PeerIds, Added(f, p)
    PROVE  /\ files'[f] \in Seq(Lines)
           /\ \A row \in RowsOf(Rows(files'[f])) :
                 row \in RowsOf(Rows(files["in"])) \/ (row \in RowSet /\ DOMAIN row = Plain)
<1> DEFINE text == files["in"]
           more == text \o NewRow(p)
<1>1. text \in Seq(Lines) /\ ~Parse(text).bad /\ certs[p] # NoCert /\ files'[f] = more
  <2>1. "in" \in {"in", "out"}
    OBVIOUS
  <2> QED BY <2>1, InType DEF Added
<1> HIDE DEF text
<1>2. /\ more \in Seq(Lines)
      /\ \/ Rows(more) \in {Rows(text), << >>}
         \/ \E row \in RowSet : DOMAIN row = Plain /\ Rows(more) = Append(Rows(text), row)
  BY <1>1, CertsTyped, NewRowRead
<1> HIDE DEF more
<1>3. ASSUME NEW new \in RowSet, DOMAIN new = Plain, Rows(more) = Append(Rows(text), new), NEW row \in RowsOf(Rows(more))
      PROVE  row \in RowsOf(Rows(text)) \/ row = new
  <2>1. Rows(text) \in Seq(RowSet)
    BY <1>1, RowsType
  <2> DEFINE rows == Rows(text)
  <2> HIDE DEF rows
  <2>2. PICK i \in DOMAIN Append(rows, new) : row = Append(rows, new)[i]
    BY <1>3 DEF RowsOf, rows
  <2>3. rows \in Seq(RowSet)
    BY <2>1 DEF rows
  <2>4. DOMAIN Append(rows, new) = 1..Len(rows) + 1 /\ DOMAIN rows = 1..Len(rows) /\ Len(rows) \in Nat
    BY <2>3
  <2>5. \/ i \in DOMAIN rows /\ row = rows[i]
        \/ row = new
    BY <2>2, <2>3, <2>4
  <2> QED BY <2>5 DEF RowsOf, rows
<1>4. ASSUME NEW row \in RowsOf(Rows(more))
      PROVE  row \in RowsOf(Rows(text)) \/ (row \in RowSet /\ DOMAIN row = Plain)
  <2>1. CASE Rows(more) = << >>
    BY <1>4, <2>1 DEF RowsOf
  <2>2. CASE Rows(more) = Rows(text)
    BY <1>4, <2>2
  <2> QED BY <1>2, <1>3, <1>4, <2>1, <2>2
<1> QED BY <1>1, <1>2, <1>4 DEF text

LEMMA TextsInvStep ==
    ASSUME IInv, TextsInv, RunInv, [Next]_vars
    PROVE  TextsInv'
<1>1. ASSUME NEW f \in {"in", "out"} PROVE files'[f] \in Seq(Lines) \cup {Nothing}
  <2>1. CASE Kept(f)
    BY <2>1, InType DEF Kept
  <2>2. CASE Wrote(f)
    BY <2>2, TextsAssumption DEF Wrote
  <2>3. CASE \E p \in PeerIds : Added(f, p)
    BY <2>3, AddedType
  <2>4. CASE Promoted(f) \/ Copied(f)
    <3>1. "in" \in {"in", "out"} /\ "out" \in {"in", "out"}
      OBVIOUS
    <3> QED BY <2>4, <3>1, InType DEF Promoted, Copied
  <2>5. CASE Rendering(f)
    <3>1. files'[f] = Emit(run.rows) /\ run.rows \in Seq(RowSet) /\ \A i \in DOMAIN run.rows : Keyed(run.rows[i])
      BY <2>5 DEF Rendering, Advising, RunInv
    <3> QED BY <3>1, RoundTrip
  <2> QED BY <2>1, <2>2, <2>3, <2>4, <2>5, FileStep
<1>2. files' = [f \in {"in", "out"} |-> files'[f]]
  <2>1. files = [f \in {"in", "out"} |-> files[f]]
    BY DEF TextsInv
  <2>2. CASE files' = files
    BY <2>1, <2>2
  <2>3. CASE \E g, text : files' = [files EXCEPT ![g] = text]
    BY <2>1, <2>3
  <2>4. CASE Next
    <3>1. ASSUME NEW text, Edited(text) PROVE files' = [files EXCEPT !["in"] = text]
      BY <3>1 DEF Edited
    <3>2. Operator \/ Write \/ files' = files
      BY <2>4 DEF Next, Run, Start, Migrate, Backup, Advise, Kill, Renew
    <3>3. CASE Operator
      BY <2>3, <3>1, <3>3 DEF Operator
    <3>4. CASE Write
      BY <2>2, <2>3, <3>4 DEF Write
    <3> QED BY <2>2, <3>2, <3>3, <3>4
  <2> QED BY <2>2, <2>4 DEF vars
<1> QED BY <1>1, <1>2 DEF TextsInv

FileRows(f) == IF files[f] = Nothing THEN {} ELSE RowsOf(Rows(files[f]))

\* A row of a file was there, is harmless, or is one of the run's.
LEMMA RowOrigin ==
    ASSUME IInv, TextsInv, RunInv, [Next]_vars, NEW f \in {"in", "out"}, NEW row \in FileRows(f)'
    PROVE  \/ \E g \in {"in", "out"} : row \in FileRows(g)
           \/ OneCertificate(row) /\ ~PinnedBelow(row)
           \/ Advising /\ \E r \in RowsOf(run.rows) : r \in RowSet /\ row = SaidRow(r)
<1>1. files'[f] # Nothing /\ row \in RowsOf(Rows(files'[f]))
  BY DEF FileRows
<1>2. "in" \in {"in", "out"} /\ "out" \in {"in", "out"}
  OBVIOUS
<1>3. CASE Kept(f)
  BY <1>1, <1>3 DEF Kept, FileRows
<1>4. CASE Wrote(f)
  <2>1. PICK text \in Authored : files'[f] = text
    BY <1>4 DEF Wrote
  <2>2. PICK i \in DOMAIN Rows(text) : row = Rows(text)[i]
    BY <1>1, <2>1 DEF RowsOf
  <2>3. OneCertificate(row) /\ Text(row, "key_floor_verified_at") # "now"
    BY <2>2, TextsAssumption
  <2> QED BY <2>3 DEF PinnedBelow
<1>5. CASE \E p \in PeerIds : Added(f, p)
  <2>1. files["in"] # Nothing
    BY <1>5 DEF Added
  <2>2. row \in RowsOf(Rows(files["in"])) \/ (row \in RowSet /\ DOMAIN row = Plain)
    BY <1>1, <1>5, AddedType
  <2>3. CASE row \in RowsOf(Rows(files["in"]))
    BY <1>2, <2>1, <2>3 DEF FileRows
  <2>4. CASE DOMAIN row = Plain
    <3>1. Text(row, "peer_id_spki_fingerprint") = "" /\ Text(row, "key_floor_verified_at") = ""
      BY <2>4, TextIs DEF Plain
    <3> QED BY <3>1 DEF OneCertificate, PinnedBelow
  <2> QED BY <2>2, <2>3, <2>4
<1>6. CASE Promoted(f)
  BY <1>1, <1>2, <1>6 DEF Promoted, FileRows
<1>7. CASE Copied(f)
  BY <1>1, <1>2, <1>7 DEF Copied, FileRows
<1>8. CASE Rendering(f)
  <2>1. /\ Advising /\ files'[f] = Emit(run.rows)
        /\ run.rows \in Seq(RowSet) /\ \A i \in DOMAIN run.rows : Keyed(run.rows[i])
    BY <1>8 DEF Rendering, Advising, RunInv
  <2>2. PICK i \in DOMAIN Rows(Emit(run.rows)) : row = Rows(Emit(run.rows))[i]
    BY <1>1, <2>1 DEF RowsOf
  <2>3. Readable(run.rows)
    <3>1. Rows(Emit(run.rows)) # << >>
      BY <2>2
    <3> QED BY <2>1, <3>1, Rendered
  <2>4. i \in DOMAIN run.rows /\ row = SaidRow(run.rows[i]) /\ run.rows[i] \in RowSet
    BY <2>1, <2>2, <2>3, Rendered
  <2> QED BY <2>1, <2>4 DEF RowsOf
<1> QED BY <1>3, <1>4, <1>5, <1>6, <1>7, <1>8, FileStep

-----------------------------------------------------------------------------
\* The invariants of the files and of the rows a run carries.

PinsInv ==
    /\ \A f \in {"in", "out"} : \A row \in FileRows(f) : OneCertificate(row)
    /\ run # Idle => \A row \in RowsOf(run.rows) : OneCertificate(row)

\* The advisories that are there, excused, or still to be left by this run.
Settled == sidecars \cup excused \cup (IF run.pc = "advise" THEN run.warned ELSE {})
AdviceInv ==
    /\ \A f \in {"in", "out"} : \A row \in FileRows(f) : PinnedBelow(row) => Text(row, "peer_id") \in Settled
    /\ run # Idle /\ run.pc # "advise" =>
          \A row \in RowsOf(run.rows) :
              PinnedBelow(row) => Text(row, "peer_id") \in sidecars \cup excused \cup run.warned

Carried == TextsInv /\ RunInv /\ ToolOutputConforms /\ PinsInv /\ AdviceInv

LEMMA ConformStep ==
    ASSUME IInv, TextsInv, RunInv, ToolOutputConforms, [Next]_vars
    PROVE  ToolOutputConforms'
<1> DEFINE Good(f) == files'[f] # Nothing /\ ~Parse(files'[f]).bad /\ Conforms(Rows(files'[f]))
           Bad(f) == files'[f] # Nothing /\ Parse(files'[f]).bad
<1>1. ASSUME NEW f \in {"in", "out"}
      PROVE  (author'[f] = "tool" => Good(f)) /\ (author'[f] = "moved" => Bad(f))
  <2>1. CASE Kept(f)
    BY <1>1, <2>1 DEF Kept, ToolOutputConforms
  <2>2. CASE Wrote(f) \/ \E p \in PeerIds : Added(f, p)
    BY <1>1, <2>2 DEF Wrote, Added
  <2>3. CASE Promoted(f)
    BY <1>1, <2>3 DEF Promoted, ToolOutputConforms
  <2>4. CASE Copied(f)
    <3>1. author'[f] = "tool" => /\ files'[f] = run.text /\ run.text \in Seq(Lines) /\ ~Parse(run.text).bad
                                /\ Conforms(run.rows) /\ run.rows = Rows(run.text)
      BY <1>1, <2>4 DEF Copied, Advising, RunInv
    <3>2. author'[f] # "moved"
      BY <2>4 DEF Copied
    <3> QED BY <3>1, <3>2, TextsAssumption
  <2>5. CASE Rendering(f)
    <3>1. /\ files'[f] = Emit(run.rows) /\ Conforms(run.rows)
          /\ author'[f] = (IF Readable(run.rows) THEN "tool" ELSE "moved")
          /\ run.rows \in Seq(RowSet) /\ \A i \in DOMAIN run.rows : Keyed(run.rows[i])
      BY <2>5 DEF Rendering, Advising, RunInv
    <3> QED BY <3>1, Rendered, TextsAssumption
  <2> QED BY <2>1, <2>2, <2>3, <2>4, <2>5, FileStep
<1> QED BY <1>1 DEF ToolOutputConforms

\* The rows of the file a run has begun to read.
LEMMA StartRows ==
    ASSUME IInv, TextsInv, NEW o \in Usages, Start(o), run' # Idle, NEW row \in RowsOf(run'.rows)
    PROVE  run = Idle /\ run'.warned = {} /\ row \in FileRows("in")
BY StartGoesOn DEF FileRows

LEMMA PinsStep ==
    ASSUME IInv, TextsInv, RunInv, PinsInv, [Next]_vars
    PROVE  PinsInv'
<1>1. ASSUME NEW f \in {"in", "out"}, NEW row \in FileRows(f)' PROVE OneCertificate(row)
  <2>1. CASE \E g \in {"in", "out"} : row \in FileRows(g)
    BY <2>1 DEF PinsInv
  <2>2. CASE Advising /\ \E r \in RowsOf(run.rows) : r \in RowSet /\ row = SaidRow(r)
    BY <2>2, SaidRowMeans DEF PinsInv, Advising
  <2> QED BY <2>1, <2>2, RowOrigin
<1>2. ASSUME run' # Idle, NEW row \in RowsOf(run'.rows) PROVE OneCertificate(row)
  <2>1. CASE \E o \in Usages : Start(o)
    <3>1. row \in FileRows("in") /\ "in" \in {"in", "out"}
      BY <1>2, <2>1, StartRows
    <3> QED BY <3>1 DEF PinsInv
  <2>2. CASE \E new, warned : MigratesTo(new, warned)
    <3>1. PICK r \in RowsOf(run.rows) : (OneCertificate(r) => OneCertificate(row)) /\ run # Idle
      BY <1>2, <2>2, MigrateGoesOn
    <3> QED BY <3>1 DEF PinsInv
  <2>3. CASE GoesOnRunning \/ UNCHANGED vars
    BY <1>2, <2>3 DEF GoesOnRunning, vars, PinsInv
  <2> QED BY <1>2, <2>1, <2>2, <2>3, RunStep
<1> QED BY <1>1, <1>2 DEF PinsInv

LEMMA SettledStep ==
    ASSUME IInv, [Next]_vars
    PROVE  Settled \subseteq Settled' /\ sidecars \cup excused \subseteq (sidecars \cup excused)'
<1>1. CASE UNCHANGED <<sidecars, excused>> /\ run.pc # "advise"
  BY <1>1 DEF Settled
<1>2. CASE Advise
  <2>1. CASE run.warned = {} /\ Finish("ok") /\ UNCHANGED sidecars
    BY <1>2, <2>1 DEF Settled, Finish
  <2>2. ASSUME NEW p \in run.warned, run' = [run EXCEPT !.warned = @ \ {p}],
               \/ sidecars' = sidecars \cup {p} /\ excused' = excused
               \/ sidecars' = sidecars /\ excused' = excused \cup {p}
        PROVE  Settled \subseteq Settled' /\ sidecars \cup excused \subseteq (sidecars \cup excused)'
    <3>1. run.pc = "advise" /\ run # Idle
      BY <1>2 DEF Advise, Idle
    <3>2. run'.pc = "advise" /\ run'.warned = run.warned \ {p}
      BY <2>2, <3>1 DEF IInv, RunInOrder, RunFields
    <3> QED BY <2>2, <3>1, <3>2 DEF Settled
  <2> QED BY <1>2, <2>1, <2>2 DEF Advise, SidecarFails
<1>3. CASE Kill
  BY <1>3 DEF Kill, Settled
<1>4. CASE UNCHANGED <<sidecars, excused, run>>
  BY <1>4 DEF Settled
<1>5. CASE Next /\ ~Advise /\ ~Kill
  <2>1. CASE Operator \/ Renew
    BY <1>4, <2>1 DEF Operator, Edited, Renew
  <2>2. CASE (\E o \in Usages : Start(o)) \/ Migrate \/ Backup \/ Write
    <3>1. UNCHANGED <<sidecars, excused>> /\ run.pc # "advise"
      BY <2>2 DEF Start, Migrate, Backup, Write, Finish, Idle
    <3> QED BY <1>1, <3>1
  <2> QED BY <1>5, <2>1, <2>2 DEF Next, Run
<1> QED BY <1>2, <1>3, <1>4, <1>5 DEF vars

LEMMA AdviceStep ==
    ASSUME IInv, TextsInv, RunInv, AdviceInv, [Next]_vars
    PROVE  AdviceInv'
<1>1. ASSUME NEW f \in {"in", "out"}, NEW row \in FileRows(f)', PinnedBelow(row)
      PROVE  Text(row, "peer_id") \in Settled'
  <2>1. CASE \E g \in {"in", "out"} : row \in FileRows(g)
    BY <1>1, <2>1, SettledStep DEF AdviceInv
  <2>2. CASE Advising /\ \E r \in RowsOf(run.rows) : r \in RowSet /\ row = SaidRow(r)
    <3>1. PICK r \in RowsOf(run.rows) : r \in RowSet /\ row = SaidRow(r)
      BY <2>2
    <3>2. PinnedBelow(r)
      BY <1>1, <3>1, SaidRowMeans
    <3>3. Text(r, "peer_id") \in sidecars \cup excused \cup run.warned
      BY <2>2, <3>1, <3>2 DEF AdviceInv, Advising
    <3>4. Text(r, "peer_id") \notin Odd
      <4>1. sidecars \cup excused \cup run.warned \subseteq PeerIds
        BY <2>2 DEF IInv, TypeOK, RunInOrder, Advising
      <4> QED BY <3>3, <4>1, StringsAssumption
    <3>5. Text(row, "peer_id") = Text(r, "peer_id")
      BY <3>1, <3>4, SaidRowMeans
    <3> QED BY <2>2, <3>3, <3>5 DEF Advising, Settled
  <2> QED BY <1>1, <2>1, <2>2, RowOrigin
<1>2. ASSUME run' # Idle, run'.pc # "advise", NEW row \in RowsOf(run'.rows), PinnedBelow(row)
      PROVE  Text(row, "peer_id") \in (sidecars \cup excused \cup run.warned)'
  <2>1. CASE \E o \in Usages : Start(o)
    <3>1. row \in FileRows("in") /\ "in" \in {"in", "out"} /\ run = Idle
      BY <1>2, <2>1, StartRows
    <3>2. Text(row, "peer_id") \in sidecars \cup excused
      BY <1>2, <3>1 DEF AdviceInv, Settled, Idle
    <3> QED BY <3>2, SettledStep
  <2>2. CASE \E new, warned : MigratesTo(new, warned)
    <3>1. PICK new, warned : MigratesTo(new, warned)
      BY <2>2
    <3>2. /\ run.pc = "migrate" /\ run # Idle /\ run'.rows = new /\ run'.warned = warned
          /\ run.warned = {}
      BY <3>1, MigrateGoesOn DEF MigratesTo, RunInv
    <3>3. PICK r \in RowsOf(run.rows) :
                 /\ PinnedBelow(row) => PinnedBelow(r) \/ Text(row, "peer_id") \in warned
                 /\ Text(row, "peer_id") = Text(r, "peer_id")
      BY <1>2, <3>1, <3>2, MigrateGoesOn
    <3>4. Text(row, "peer_id") \in sidecars \cup excused \/ Text(row, "peer_id") \in warned
      BY <1>2, <3>2, <3>3 DEF AdviceInv
    <3> QED BY <3>2, <3>4, SettledStep
  <2>3. CASE GoesOnRunning \/ UNCHANGED vars
    <3>1. /\ run # Idle /\ run'.rows = run.rows /\ run.pc # "advise" /\ run'.warned = run.warned
      BY <1>2, <2>3 DEF GoesOnRunning, vars
    <3>2. Text(row, "peer_id") \in sidecars \cup excused \cup run.warned
      BY <1>2, <3>1 DEF AdviceInv
    <3> QED BY <3>1, <3>2, SettledStep
  <2> QED BY <1>2, <2>1, <2>2, <2>3, RunStep
<1> QED BY <1>1, <1>2 DEF AdviceInv

LEMMA CarriedInit == Init => Carried
<1> SUFFICES ASSUME Init PROVE Carried
  OBVIOUS
<1>1. PICK text \in Authored \cup {Nothing} : files = [f \in {"in", "out"} |-> IF f = "in" THEN text ELSE Nothing]
  BY DEF Init
<1>2. run = Idle /\ author = [f \in {"in", "out"} |-> "operator"]
  BY DEF Init
<1>3. TextsInv
  BY <1>1, TextsAssumption DEF TextsInv
<1>4. RunInv /\ ToolOutputConforms
  BY <1>2 DEF RunInv, ToolOutputConforms
<1>5. ASSUME NEW f \in {"in", "out"}, NEW row \in FileRows(f)
      PROVE  OneCertificate(row) /\ ~PinnedBelow(row)
  <2>1. files[f] \in Authored /\ row \in RowsOf(Rows(files[f]))
    BY <1>1, <1>5 DEF FileRows
  <2>2. PICK i \in DOMAIN Rows(files[f]) : row = Rows(files[f])[i]
    BY <2>1 DEF RowsOf
  <2>3. OneCertificate(row) /\ Text(row, "key_floor_verified_at") # "now"
    BY <2>1, <2>2, TextsAssumption
  <2> QED BY <2>3 DEF PinnedBelow
<1>6. PinsInv /\ AdviceInv
  BY <1>2, <1>5 DEF PinsInv, AdviceInv
<1> QED BY <1>3, <1>4, <1>6 DEF Carried

LEMMA CarriedStep == IInv /\ Carried /\ [Next]_vars => Carried'
BY TextsInvStep, RunInvStep, ConformStep, PinsStep, AdviceStep DEF Carried

\* What a run has read, made and warned about, and where the rows of the files
\* come from, through every step, kill, edit and promotion (main).
THEOREM Carries == Spec => []Carried
BY CarriedInit, CarriedStep, Invariance, PTL DEF Spec

\* A file the tool wrote can be parsed and conforms to v2.0, for every text,
\* command line and certificate and whatever ended the run that wrote it, unless
\* the text was copied unread; but a rendering that moves a key that is no
\* identifier to a line of its own can never be parsed (emit_peers_yaml, main).
THEOREM OutputConforms == Spec => []ToolOutputConforms
<1>1. Carried => ToolOutputConforms
  BY DEF Carried
<1> QED BY <1>1, Carries, PTL

\* No row pairs the pins of two certificates, if no authored row does.
THEOREM OnePinPerRow == Spec => []PinsAgree
<1>1. Carried => PinsAgree
  BY DEF Carried, PinsInv, PinsAgree, FileRows, RowsOf
<1> QED BY <1>1, Carries, PTL

\* A row migrated on a certificate below the key floor has its advisory, unless
\* a kill or an I/O error took it.
THEOREM AdvisoriesAreLeft == Spec => []AdvisoryLeft
<1>1. Carried => AdvisoryLeft
  <2> SUFFICES ASSUME Carried, run = Idle, NEW f \in {"in", "out"}, files[f] # Nothing,
                      NEW i \in DOMAIN Rows(files[f]), PinnedBelow(Rows(files[f])[i])
               PROVE  Text(Rows(files[f])[i], "peer_id") \in sidecars \cup excused
    BY DEF AdvisoryLeft, PinnedBelow
  <2> DEFINE row == Rows(files[f])[i]
  <2>1. row \in FileRows(f)
    BY DEF FileRows, RowsOf
  <2> HIDE DEF row
  <2>2. PinnedBelow(row)
    BY DEF row
  <2>3. Text(row, "peer_id") \in Settled
    BY <2>1, <2>2 DEF Carried, AdviceInv
  <2> QED BY <2>3 DEF Settled, Idle, row
<1> QED BY <1>1, Carries, PTL

\* The rendering of a migrated row says all that the row said.
SaysAll(a, b, skip) ==
    /\ AlreadyV2(b)
    /\ \A k \in DOMAIN a :
          AlreadyV2(a) \/ k \notin {"peer_id_spki_fingerprint", "key_floor_verified_at"}
              => (b[k] = Layered(a[k]) <=> ~Cut(a[k]))
    /\ "scopes" \notin DOMAIN a => b["scopes"] = List(<< >>)
    /\ ~AlreadyV2(a) /\ ~skip => Text(b, "peer_id_spki_fingerprint") # ""

LEMMA RowKept ==
    ASSUME NEW a \in RowSet, NEW r \in RowSet, NEW skip, MigratedAs(a, r, skip)
    PROVE  SaysAll(a, SaidRow(r), skip)
<1>1. AlreadyV2(SaidRow(r))
  BY SaidRowMeans DEF MigratedAs
<1>2. ASSUME NEW k \in DOMAIN a,
             AlreadyV2(a) \/ k \notin {"peer_id_spki_fingerprint", "key_floor_verified_at"}
      PROVE  SaidRow(r)[k] = Layered(a[k]) <=> ~Cut(a[k])
  <2>1. k \in DOMAIN r /\ r[k] = a[k]
    BY <1>2 DEF MigratedAs
  <2>2. SaidRow(r)[k] = Again(r[k]) /\ r[k] \in Values
    BY <2>1, SaidRowAt
  <2>3. Again(r[k]) = Layered(r[k]) <=> ~Cut(r[k])
    BY <2>2, AgainIs
  <2> QED BY <2>1, <2>2, <2>3
<1>3. ASSUME "scopes" \notin DOMAIN a PROVE SaidRow(r)["scopes"] = List(<< >>)
  <2>1. "scopes" \in DOMAIN r /\ r["scopes"] = List(<< >>)
    BY <1>3 DEF MigratedAs, AlreadyV2
  <2>2. SaidRow(r)["scopes"] = Again(r["scopes"])
    BY <2>1, SaidRowAt
  <2>3. Again(List(<< >>)) = List(<< >>)
    BY AgainType
  <2> QED BY <2>1, <2>2, <2>3
<1>4. ~AlreadyV2(a) /\ ~skip => Text(SaidRow(r), "peer_id_spki_fingerprint") # ""
  BY TextKept DEF MigratedAs
<1> QED BY <1>1, <1>2, <1>3, <1>4 DEF SaysAll

\* A rendered migration of rows whose keys are identifiers keeps every field,
\* gives no scope and pins what was inspected, and the next run will find nothing
\* to migrate.  A value gains at most a layer of escapes, unless it is one of
\* those _strip_comment cuts, and those never come back.
THEOREM RenderingSaysAll == Spec => RenderingKeeps
<1> DEFINE Writes == run.pc = "write" /\ ~run.verbatim /\ run'.pc = "advise"
           Keeps == LET before == Rows(run.text)
                        after == Rows(files'[run.o.out])
                    IN  Readable(before) =>
                        /\ DOMAIN after = DOMAIN before
                        /\ before # << >> => PureV2(after)
                        /\ \A i \in DOMAIN before :
                              LET a == before[i]  b == after[i]
                              IN  /\ \A k \in DOMAIN a :
                                        AlreadyV2(a) \/ k \notin {"peer_id_spki_fingerprint", "key_floor_verified_at"}
                                            => (b[k] = Layered(a[k]) <=> ~Cut(a[k]))
                                  /\ "scopes" \notin DOMAIN a => b["scopes"] = List(<< >>)
                                  /\ ~AlreadyV2(a) /\ ~run.o.skip => Text(b, "peer_id_spki_fingerprint") # ""
<1>1. ASSUME IInv, Carried, [Next]_vars, Writes, ~(UNCHANGED vars)
      PROVE  Keeps
  <2>1. run # Idle /\ run.pc = "write" /\ ~run.verbatim /\ run'.pc = "advise" /\ Next
    BY <1>1 DEF Idle
  <2>2. Write
    <3>1. ~Finish("generic") /\ ~Finish("ok")
      BY <2>1 DEF Finish, Idle
    <3> QED BY <2>1, <3>1 DEF Next, Run, Start, Migrate, Backup, Advise, Kill, Operator, Edited, Renew, Idle
  <2>3. files' = [files EXCEPT ![run.o.out] = Emit(run.rows)]
    <3>1. ~Finish("generic")
      BY <2>1 DEF Finish, Idle
    <3> QED BY <2>1, <2>2, <3>1 DEF Write
  <2>4. run.o.out \in {"in", "out"}
    BY <1>1, <2>1 DEF Carried, RunInv, BadUsage, Options
  <2>5. files'[run.o.out] = Emit(run.rows)
    BY <1>1, <2>3, <2>4 DEF Carried, TextsInv
  <2> DEFINE before == Rows(run.text)
             mid == run.rows
             after == Rows(files'[run.o.out])
  <2>6. /\ run.text \in Seq(Lines) /\ mid \in Seq(RowSet) /\ \A i \in DOMAIN mid : Keyed(mid[i])
        /\ DOMAIN mid = DOMAIN before
        /\ \A i \in DOMAIN mid : MigratedAs(before[i], mid[i], run.o.skip)
    BY <1>1, <2>1 DEF Carried, RunInv
  <2> SUFFICES ASSUME Readable(before)
               PROVE  /\ DOMAIN after = DOMAIN before
                      /\ before # << >> => PureV2(after)
                      /\ \A i \in DOMAIN before : SaysAll(before[i], after[i], run.o.skip)
    BY DEF SaysAll
  <2>11. Readable(mid)
    BY <2>6, KeysAre DEF MigratedAs, Readable, Gained
  <2>7. /\ DOMAIN after = DOMAIN mid
        /\ \A i \in DOMAIN mid : after[i] = SaidRow(mid[i]) /\ mid[i] \in RowSet
    BY <2>5, <2>6, <2>11, Rendered
  <2>8. before \in Seq(RowSet) /\ \A i \in DOMAIN before : before[i] \in RowSet
    BY <2>6, RowsType
  <2> HIDE DEF before, mid, after
  <2>9. ASSUME NEW i \in DOMAIN before
        PROVE  SaysAll(before[i], after[i], run.o.skip)
    <3> DEFINE a == before[i]  r == mid[i]  b == after[i]
    <3>1. a \in RowSet /\ r \in RowSet /\ MigratedAs(a, r, run.o.skip) /\ b = SaidRow(r)
      BY <2>6, <2>7, <2>8
    <3> HIDE DEF a, r, b
    <3>2. SaysAll(a, SaidRow(r), run.o.skip)
      BY <3>1, RowKept
    <3> QED BY <3>1, <3>2 DEF a, b
  <2>10. before # << >> => PureV2(after)
    <3>1. before # << >> => Len(before) \in DOMAIN before
      BY <2>8, LastOf
    <3>2. before # << >> => after # << >>
      BY <2>6, <2>7, <3>1
    <3> QED BY <2>6, <2>7, <2>9, <3>2 DEF PureV2, SaysAll
  <2> QED BY <2>6, <2>7, <2>9, <2>10
<1>2. IInv /\ Carried /\ [Next]_vars => [Writes => Keeps]_vars
  BY <1>1
<1> QED BY <1>2, Invariance, Carries, PTL DEF Spec, RenderingKeeps
=============================================================================
