---------------------------- MODULE LedgerProofs ----------------------------
(***************************************************************************)
(* Proofs about the audit of the token ledger, for every listing, every     *)
(* text of the transcripts, every window and every number of appended       *)
(* lines: each acceptable line is counted once, the group of a message is   *)
(* what its lines say, in whatever order they come, the distributions are   *)
(* in order and the totals of the tables agree.                             *)
(***************************************************************************)
EXTENDS Ledger, FiniteSetTheorems, WellFoundedInduction, TLAPS

-----------------------------------------------------------------------------
(* The inductive invariant                                                   *)

(* The reader and the texts: what is open is a listed transcript.           *)
Reading ==
    /\ text \in [Files -> Seq(Lines)]
    /\ torn \subseteq Files /\ appends \in Nat
    /\ pc \in {"closed", "open", "crashed", "done"}
    /\ file \in 0 .. Len(Transcripts) /\ pos \in Nat
    /\ pc = "open" => file \in Files
    /\ pc = "done" => file = Len(Transcripts)

(* Lines counted lie behind the reader and are in the texts.                *)
Behind ==
    \A t \in taken :
        /\ t.file \in Files /\ t.place \in 1 .. Len(text[t.file])
        /\ t = [file |-> t.file, place |-> t.place, line |-> text[t.file][t.place]]
        /\ Fate(t.file, t.line) = "taken"
        /\ t.file < file \/ (t.file = file /\ t.place <= pos)

(* While no session writes, no acceptable line behind the reader is missed. *)
Passed(f, n) == f < file \/ (f = file /\ (pc \in {"closed", "done"} \/ n <= pos))
NoneMissed ==
    appends = 0 =>
        /\ torn = {}
        /\ \A f \in Files : \A n \in 1 .. Len(text[f]) :
              Passed(f, n) /\ Fate(f, text[f][n]) = "taken"
                  => [file |-> f, place |-> n, line |-> text[f][n]] \in taken

RInv == Reading /\ Behind /\ NoneMissed

LEMMA FilesOfListing == Len(Transcripts) \in Nat /\ Files = 1 .. Len(Transcripts)
BY TextsAssumption

LEMMA ReadingInit == Init => RInv
<1> SUFFICES ASSUME Init PROVE RInv
  OBVIOUS
<1>1. text \in [Files -> Seq(Lines)]
  BY TextsAssumption DEF Init
<1> QED BY <1>1, FilesOfListing DEF Init, RInv, Reading, Behind, NoneMissed, Passed

LEMMA ReadingStep == RInv /\ [Next]_vars => RInv'
<1> SUFFICES ASSUME RInv, [Next]_vars PROVE RInv'
  OBVIOUS
<1> USE FilesOfListing
<1>0. Reading /\ Behind /\ NoneMissed
  BY DEF RInv
<1>1. CASE Open
  <2>1. /\ pc = "closed" /\ file' = file + 1 /\ pos' = 0 /\ pc' = "open" /\ file < Len(Transcripts)
        /\ UNCHANGED <<text, torn, appends, taken>>
    BY <1>1 DEF Open, harness, book
  <2>2. Reading'
    BY <1>0, <2>1 DEF Reading
  <2>3. Behind'
    BY <1>0, <2>1 DEF Behind, Reading
  <2>4. NoneMissed'
    BY <1>0, <2>1 DEF NoneMissed, Passed, Reading
  <2> QED BY <2>2, <2>3, <2>4 DEF RInv
<1>2. CASE ReadHalf
  <2>1. /\ pc = "open" /\ pos' = pos + 1 /\ file \in torn /\ pos < Len(text[file])
        /\ UNCHANGED <<text, torn, appends, taken, pc, file>>
    BY <1>2 DEF ReadHalf, harness, book, Half
  <2>2. appends # 0
    BY <1>0, <2>1 DEF NoneMissed
  <2> QED BY <1>0, <2>1, <2>2 DEF RInv, Reading, Behind, NoneMissed
<1>3. CASE ReadLeftOut
  <2>1. /\ pc = "open" /\ pos' = pos + 1 /\ pos < Len(text[file])
        /\ Fate(file, text[file][pos + 1]) # "taken"
        /\ pc' \in {"open", "crashed"}
        /\ UNCHANGED <<text, torn, appends, taken, file>>
    BY <1>3 DEF ReadLeftOut, harness, book
  <2>2. Reading'
    BY <1>0, <2>1 DEF Reading
  <2>3. Behind'
    BY <1>0, <2>1 DEF Behind, Reading
  <2>4. NoneMissed'
    BY <1>0, <2>1 DEF NoneMissed, Passed, Reading
  <2> QED BY <2>2, <2>3, <2>4 DEF RInv
<1>4. CASE ReadTaken
  <2> DEFINE line == text[file][pos + 1]
             new == [file |-> file, place |-> pos + 1, line |-> line]
  <2>1. /\ pc = "open" /\ pos' = pos + 1 /\ pos < Len(text[file])
        /\ Fate(file, line) = "taken"
        /\ taken' = taken \cup {new}
        /\ UNCHANGED <<text, torn, appends, pc, file>>
    BY <1>4 DEF ReadTaken, harness
  <2>2. Reading'
    BY <1>0, <2>1 DEF Reading
  <2>3. /\ new.file = file /\ new.place = pos + 1 /\ new.line = line
        /\ file \in Files /\ pos + 1 \in 1 .. Len(text[file])
    BY <1>0, <2>1 DEF Reading
  <2>4. Behind'
    BY <1>0, <2>1, <2>3 DEF Behind, Reading
  <2>5. NoneMissed'
    BY <1>0, <2>1, <2>3 DEF NoneMissed, Passed, Reading
  <2> QED BY <2>2, <2>4, <2>5 DEF RInv
<1>5. CASE Close
  <2>1. /\ pc = "open" /\ pc' = "closed" /\ pos >= Len(text[file])
        /\ UNCHANGED <<text, torn, appends, taken, file, pos>>
    BY <1>5 DEF Close, harness, book
  <2>2. Reading'
    BY <1>0, <2>1 DEF Reading
  <2>3. Behind'
    BY <1>0, <2>1 DEF Behind, Reading
  <2>4. NoneMissed'
    BY <1>0, <2>1 DEF NoneMissed, Passed, Reading
  <2> QED BY <2>2, <2>3, <2>4 DEF RInv
<1>6. CASE Report
  <2>1. /\ pc = "closed" /\ pc' = "done" /\ file = Len(Transcripts)
        /\ UNCHANGED <<text, torn, appends, taken, file, pos>>
    BY <1>6 DEF Report, harness, book
  <2> QED BY <1>0, <2>1 DEF RInv, Reading, Behind, NoneMissed, Passed
<1>7. CASE Live
  <2>1. UNCHANGED <<taken, pc, file, pos>> /\ Reading
    BY <1>0, <1>7 DEF Live, Write, Complete, book
  <2>2. CASE \E f \in Files : Complete(f)
    BY <1>0, <2>1, <2>2 DEF Complete, RInv, Reading, Behind, NoneMissed, Passed
  <2>3. ASSUME NEW f \in Files, NEW line \in Appendable, NEW half \in BOOLEAN, Write(f, line, half)
        PROVE  RInv'
    <3>1. /\ text' = [text EXCEPT ![f] = Append(@, line)] /\ appends' = appends + 1
          /\ torn' \subseteq Files
      BY <2>1, <2>3 DEF Write, Reading
    <3>2. line \in Lines /\ text[f] \in Seq(Lines)
      BY <2>1 DEF Reading, Lines
    <3>3. Append(text[f], line) \in Seq(Lines)
      BY <3>2
    <3>4. Reading'
      BY <2>1, <3>1, <3>3 DEF Reading
    <3>5. \A g \in Files : \A n \in 1 .. Len(text[g]) :
              n \in 1 .. Len(text'[g]) /\ text'[g][n] = text[g][n]
      BY <2>1, <3>1, <3>2 DEF Reading
    <3>6. Behind'
      BY <1>0, <2>1, <3>5 DEF Behind
    <3>7. NoneMissed'
      BY <2>1, <3>1 DEF NoneMissed, Reading
    <3> QED BY <3>4, <3>6, <3>7 DEF RInv
  <2> QED BY <1>7, <2>2, <2>3 DEF Live
<1>8. CASE UNCHANGED vars
  BY <1>0, <1>8 DEF RInv, Reading, Behind, NoneMissed, Passed, vars
<1> QED BY <1>1, <1>2, <1>3, <1>4, <1>5, <1>6, <1>7, <1>8 DEF Next, Audit

LEMMA ReadingHolds == Spec => []RInv
BY ReadingInit, ReadingStep, PTL DEF Spec

-----------------------------------------------------------------------------
(* Every acceptable line is counted once                                     *)

(* What is counted is an acceptable line of the transcripts, and a report   *)
(* no session wrote under rests on all of them (the loop of main).          *)
THEOREM CountedOnce == Spec => []EveryLineOnce
<1>1. RInv => EveryLineOnce
  <2> SUFFICES ASSUME RInv PROVE EveryLineOnce
    OBVIOUS
  <2> USE FilesOfListing
  <2>1. taken \subseteq Acceptable
    <3> SUFFICES ASSUME NEW t \in taken PROVE t \in Acceptable
      OBVIOUS
    <3>1. /\ t.file \in Files /\ t.place \in DOMAIN text[t.file]
          /\ t = [file |-> t.file, place |-> t.place, line |-> text[t.file][t.place]]
          /\ Fate(t.file, text[t.file][t.place]) = "taken"
      BY DEF RInv, Reading, Behind
    <3> QED BY <3>1 DEF Acceptable
  <2>2. ASSUME pc = "done", appends = 0 PROVE Acceptable \subseteq taken
    <3> SUFFICES ASSUME NEW f \in Files, NEW n \in DOMAIN text[f], Fate(f, text[f][n]) = "taken"
                 PROVE  [file |-> f, place |-> n, line |-> text[f][n]] \in taken
      BY DEF Acceptable
    <3> QED BY <2>2 DEF RInv, Reading, NoneMissed, Passed
  <2> QED BY <2>1, <2>2 DEF EveryLineOnce
<1> QED BY <1>1, ReadingHolds, PTL

-----------------------------------------------------------------------------
(* Only lines of the window, and none twice by its side chain                *)

Sums == [records : Nat, usage : [Fields -> Nat]]
RawInv == raw \in [Locations -> Sums] /\ raw["fora"].records = 0

(* The numbers of a usage line.                                             *)
Numbers == [input : Nat, output : Nat, read : Nat, five : Nat, hour : Nat]
LEMMA UsageNumbers ==
    ASSUME NEW line \in Lines
    PROVE  /\ Usage(line) \in Numbers
           /\ \A x \in Fields : Usage(line)[x] \in Nat
           /\ Usage(line).output = line.u.output
<1>1. /\ line.u.input \in Nat /\ line.u.output \in Nat /\ line.u.read \in Nat
      /\ line.u.total \in Nat /\ line.u.five \in Nat /\ line.u.hour \in Nat
  BY TextsAssumption
<1>2. HourShare(line.u) \in Nat /\ FiveShare(line.u) \in Nat
  BY <1>1 DEF HourShare, FiveShare, Smaller
<1> QED BY <1>1, <1>2 DEF Usage, Numbers, Fields

LEMMA LocationIsOne == \A f \in Files : Location(f) \in Locations
BY DEF Location, Locations

LEMMA RawStep == RInv /\ RawInv /\ [Next]_vars => RawInv'
<1> SUFFICES ASSUME RInv, RawInv, [Next]_vars PROVE RawInv'
  OBVIOUS
<1>1. CASE ReadTaken
  <2> DEFINE line == text[file][pos + 1]
             l == Location(file)
  <2>1. /\ raw' = [raw EXCEPT ![l] = Summed(@, Usage(line))]
        /\ Fate(file, line) = "taken" /\ pc = "open" /\ pos < Len(text[file])
    BY <1>1 DEF ReadTaken
  <2>2. file \in Files /\ line \in Lines
    BY <2>1, FilesOfListing DEF RInv, Reading
  <2>3. l \in Locations /\ l # "fora"
    BY <2>1, <2>2, LocationIsOne DEF Fate, Role
  <2> HIDE DEF line, l
  <2>4. \A x \in Fields : raw[l].usage[x] + Usage(line)[x] \in Nat
    BY <2>2, <2>3, UsageNumbers DEF RawInv, Sums
  <2>5. Summed(raw[l], Usage(line)) \in Sums
    BY <2>3, <2>4 DEF RawInv, Sums, Summed
  <2> QED BY <2>1, <2>3, <2>5 DEF RawInv
<1> QED BY <1>1 DEF RawInv, Next, Audit, Live, Open, ReadHalf, ReadLeftOut, Close, Report,
                    Write, Complete, book, vars

(* What is counted lies in the window and in a known place, and is no side  *)
(* chain a session repeats in its own transcript (accept).                  *)
THEOREM OnlyWindow == Spec => []OnlyTheWindow
<1>1. Init => RawInv
  BY DEF Init, RawInv, Sums, Locations
<1>2. RInv /\ RawInv => OnlyTheWindow
  <2> SUFFICES ASSUME RInv, RawInv, NEW t \in taken
               PROVE  /\ Lo <= t.line.at /\ t.line.at <= Hi
                      /\ Transcripts[t.file].depth > 1 \/ ~t.line.side
    BY DEF OnlyTheWindow, RawInv
  <2>1. t.file \in Files /\ Fate(t.file, t.line) = "taken"
    BY DEF RInv, Behind
  <2> QED BY <2>1 DEF Fate, InWindow, Role, Location
<1> QED BY <1>1, <1>2, RawStep, ReadingHolds, PTL DEF Spec

-----------------------------------------------------------------------------
(* The group of a message                                                    *)

(* The lines of S with the key k, their numbers, and what a group that      *)
(* stands for them is.                                                      *)
From(S, k) == {t \in S : t.line.id = k}
Seen(S, k) == {Usage(t.line) : t \in From(S, k)}
Models == {line.model : line \in Lines}
Group == [first : Numbers, last : Numbers, most : [Fields -> Nat], terminal : Numbers,
          n : Nat, differs : BOOLEAN, model : Models, role : Roles, opening : BOOLEAN, before : Nat]
Sound(S, k, g) ==
    /\ g.n = Cardinality(From(S, k)) /\ g.n # 0
    /\ g.first \in Seen(S, k)
    /\ (g.differs <=> \E u, v \in Seen(S, k) : u # v)
    /\ \A x \in Fields : /\ \E u \in Seen(S, k) : u[x] = g.most[x]
                         /\ \A u \in Seen(S, k) : u[x] <= g.most[x]
    /\ \E t \in From(S, k) : /\ g.model = t.line.model /\ g.terminal.output = t.line.u.output
                              /\ \A s \in From(S, k) : s.line.u.output <= t.line.u.output

LEMMA FromMore ==
    ASSUME NEW S, NEW new, NEW k, new.line.id = k
    PROVE  From(S \cup {new}, k) = From(S, k) \cup {new}
BY DEF From

LEMMA SeenMore ==
    ASSUME NEW S, NEW new, NEW k, new.line.id = k
    PROVE  Seen(S \cup {new}, k) = Seen(S, k) \cup {Usage(new.line)}
BY DEF From, Seen

LEMMA FromFinite ==
    ASSUME NEW S, IsFiniteSet(S), NEW k
    PROVE  Cardinality(From(S, k)) \in Nat
BY FS_Subset, FS_CardinalityType DEF From

LEMMA CountMore ==
    ASSUME NEW S, IsFiniteSet(S), NEW new, new \notin S, NEW k, new.line.id = k
    PROVE  Cardinality(From(S \cup {new}, k)) = Cardinality(From(S, k)) + 1
<1>1. IsFiniteSet(From(S, k)) /\ new \notin From(S, k)
  BY FS_Subset DEF From
<1>2. From(S \cup {new}, k) = From(S, k) \cup {new}
  BY FromMore
<1> QED BY <1>1, <1>2, FS_AddElement

(* A group made by the first line of its key stands for it.                 *)
LEMMA OpenedSound ==
    ASSUME NEW S, IsFiniteSet(S), NEW new, new \notin S, NEW k, new.line.id = k, From(S, k) = {},
           NEW f \in Files, Role(f) \in Roles, new.line \in Lines, first \in BOOLEAN, before \in Nat
    PROVE  Opened(f, new.line) \in Group /\ Sound(S \cup {new}, k, Opened(f, new.line))
<1> DEFINE u == Usage(new.line)
           g == Opened(f, new.line)
<1>1. u \in Numbers /\ (\A x \in Fields : u[x] \in Nat) /\ u.output = new.line.u.output
      /\ new.line.u.output \in Nat
  BY UsageNumbers, TextsAssumption
<1>2. u \in [Fields -> Nat]
  BY <1>1 DEF Usage, Fields
<1> DEFINE T == S \cup {new}
<1>2a. \A t \in S : t.line.id # k
  BY DEF From
<1>3. From(T, k) = {new}
  BY <1>2a DEF From
<1>4. Seen(T, k) = {u}
  BY <1>3 DEF Seen
<1>5. /\ g.first = u /\ g.most = u /\ g.terminal = u /\ g.n = 1 /\ g.model = new.line.model
      /\ g.differs = FALSE
  BY DEF Opened
<1>6. g \in Group
  BY <1>1, <1>2 DEF Opened, Group, Models
<1>7. Cardinality(From(T, k)) = 1
  BY <1>3, FS_Singleton
<1> HIDE DEF u, g, T
<1>8. \A x \in Fields : /\ \E v \in Seen(T, k) : v[x] = g.most[x]
                        /\ \A v \in Seen(T, k) : v[x] <= g.most[x]
  BY <1>1, <1>4, <1>5
<1>9. g.differs <=> \E v, w \in Seen(T, k) : v # w
  BY <1>4, <1>5
<1>10. \E t \in From(T, k) : /\ g.model = t.line.model /\ g.terminal.output = t.line.u.output
                             /\ \A s \in From(T, k) : s.line.u.output <= t.line.u.output
  BY <1>1, <1>3, <1>5
<1>11. Sound(T, k, g)
  BY <1>3, <1>4, <1>5, <1>7, <1>8, <1>9, <1>10 DEF Sound
<1> QED BY <1>6, <1>11 DEF g, T

(* What merging a line into a group leaves in each field of it.             *)
LEMMA MergedFields ==
    ASSUME NEW g \in Group, NEW line \in Lines
    PROVE  LET u == Usage(line)
               h == Merged(g, line) IN
           /\ h \in Group /\ h.n = g.n + 1 /\ h.first = g.first
           /\ (h.differs <=> g.differs \/ u # g.first)
           /\ \A x \in Fields : g.most[x] \in Nat /\ h.most[x] = Larger(g.most[x], u[x])
           /\ u.output > g.terminal.output => h.terminal = u /\ h.model = line.model
           /\ ~(u.output > g.terminal.output) => h.terminal = g.terminal /\ h.model = g.model
<1> DEFINE u == Usage(line)
           h == Merged(g, line)
<1>1. u \in Numbers /\ (\A x \in Fields : u[x] \in Nat)
  BY UsageNumbers
<1>2. \A x \in Fields : g.most[x] \in Nat /\ Larger(g.most[x], u[x]) \in Nat
  BY <1>1 DEF Group, Larger
<1>3. line.model \in Models
  BY DEF Models
<1>4. h.n = g.n + 1 /\ h.first = g.first
  BY DEF Merged, Group
<1>5. h.differs <=> g.differs \/ u # g.first
  BY DEF Merged, Group
<1>6. h.most = [x \in Fields |-> Larger(g.most[x], u[x])]
  BY DEF Merged, Group
<1>7. u.output > g.terminal.output => h.terminal = u /\ h.model = line.model
  BY DEF Merged, Group
<1>8. ~(u.output > g.terminal.output) => h.terminal = g.terminal /\ h.model = g.model
  BY DEF Merged, Group
<1>9. h \in Group
  <2> HIDE DEF u
  <2>1. h.most \in [Fields -> Nat]
    BY <1>2, <1>6
  <2>2. h.terminal \in Numbers /\ h.model \in Models
    BY <1>1, <1>3, <1>7, <1>8 DEF Group
  <2>3. h.n \in Nat
    BY <1>4 DEF Group
  <2> QED BY <1>1, <2>1, <2>2, <2>3 DEF Merged, Group, u
<1> QED BY <1>2, <1>4, <1>5, <1>6, <1>7, <1>8, <1>9

(* A later line of the key keeps the group standing for all of them.        *)
LEMMA MergedSound ==
    ASSUME NEW S, IsFiniteSet(S), NEW new, new \notin S, NEW k, new.line.id = k,
           new.line \in Lines, \A t \in S : t.line \in Lines, NEW g \in Group, Sound(S, k, g)
    PROVE  Merged(g, new.line) \in Group /\ Sound(S \cup {new}, k, Merged(g, new.line))
<1> DEFINE u == Usage(new.line)
           h == Merged(g, new.line)
           T == S \cup {new}
<1>1. (\A x \in Fields : u[x] \in Nat) /\ u.output = new.line.u.output /\ u.output \in Nat
  BY UsageNumbers, TextsAssumption
<1>21. From(T, k) = From(S, k) \cup {new}
  BY FromMore
<1>22. Seen(T, k) = Seen(S, k) \cup {u}
  BY SeenMore
<1>23. Cardinality(From(S, k)) \in Nat
  BY FromFinite
<1>24. Cardinality(From(T, k)) = Cardinality(From(S, k)) + 1
  BY CountMore
<1>2. /\ From(T, k) = From(S, k) \cup {new} /\ Cardinality(From(T, k)) = Cardinality(From(S, k)) + 1
      /\ Cardinality(From(S, k)) \in Nat /\ Seen(T, k) = Seen(S, k) \cup {u}
  BY <1>21, <1>22, <1>23, <1>24
<1>3. /\ h \in Group /\ h.n = g.n + 1 /\ h.first = g.first
      /\ (h.differs <=> g.differs \/ u # g.first)
      /\ \A x \in Fields : g.most[x] \in Nat /\ h.most[x] = Larger(g.most[x], u[x])
      /\ u.output > g.terminal.output => h.terminal = u /\ h.model = new.line.model
      /\ ~(u.output > g.terminal.output) => h.terminal = g.terminal /\ h.model = g.model
  BY MergedFields
<1>4. \A t \in T : t.line \in Lines
  OBVIOUS
<1>5. \A t \in T : t.line.u.output \in Nat
  BY <1>4, TextsAssumption
<1> HIDE DEF u, T, h
<1>6. h.n = Cardinality(From(T, k)) /\ h.n # 0 /\ h.first \in Seen(T, k)
  BY <1>2, <1>3 DEF Sound
<1>7. h.differs <=> \E v, w \in Seen(T, k) : v # w
  BY <1>2, <1>3 DEF Sound
<1>8. ASSUME NEW x \in Fields
      PROVE  /\ \E v \in Seen(T, k) : v[x] = h.most[x]
             /\ \A v \in Seen(T, k) : v[x] <= h.most[x]
  <2>1. \A v \in Seen(S, k) : v[x] \in Nat
    BY UsageNumbers DEF Seen, From
  <2> QED BY <1>1, <1>2, <1>3, <2>1 DEF Sound, Larger
<1>9. \E t \in From(T, k) : /\ h.model = t.line.model /\ h.terminal.output = t.line.u.output
                             /\ \A s \in From(T, k) : s.line.u.output <= t.line.u.output
  <2>1. PICK t \in From(S, k) : /\ g.model = t.line.model /\ g.terminal.output = t.line.u.output
                                /\ \A s \in From(S, k) : s.line.u.output <= t.line.u.output
    BY DEF Sound
  <2>2. \A s \in From(T, k) : s.line.u.output \in Nat
    BY <1>5 DEF From
  <2>3. CASE u.output > g.terminal.output
    BY <1>1, <1>2, <1>3, <2>1, <2>2, <2>3
  <2>4. CASE ~(u.output > g.terminal.output)
    BY <1>1, <1>2, <1>3, <2>1, <2>2, <2>4
  <2> QED BY <2>3, <2>4
<1>10. Sound(T, k, h)
  BY <1>6, <1>7, <1>8, <1>9 DEF Sound
<1> QED BY <1>3, <1>10 DEF T, h

-----------------------------------------------------------------------------
(* Deduplication                                                             *)

(* The groups, and what a new one takes from the reader.                    *)
GroupInv ==
    /\ first \in BOOLEAN /\ before \in Nat
    /\ IsFiniteSet(taken) /\ \A t \in taken : t.line \in Lines
    /\ DOMAIN groups = {t.line.id : t \in taken}
    /\ \A k \in DOMAIN groups : groups[k] \in Group /\ Sound(taken, k, groups[k])

LEMMA GroupStep == RInv /\ GroupInv /\ [Next]_vars => GroupInv'
<1> SUFFICES ASSUME RInv, GroupInv, [Next]_vars PROVE GroupInv'
  OBVIOUS
<1>1. CASE ReadTaken
  <2> DEFINE line == text[file][pos + 1]
             new == [file |-> file, place |-> pos + 1, line |-> line]
             T == taken \cup {new}
             k == line.id
  <2>1. /\ pc = "open" /\ pos < Len(text[file]) /\ Fate(file, line) = "taken"
        /\ groups' = Grouped(file, line) /\ first' = FALSE /\ before' = Usage(line).read
        /\ taken' = T
    BY <1>1 DEF ReadTaken
  <2>2. file \in Files /\ pos + 1 \in 1 .. Len(text[file]) /\ line \in Lines
    BY <2>1, FilesOfListing DEF RInv, Reading
  <2>3. new \notin taken
    BY <2>2 DEF RInv, Behind, Reading
  <2>4. Role(file) \in Roles
    BY DEF Role, Roles
  <2>5. new.line = line /\ new.line.id = k
    OBVIOUS
  <2>6. first' \in BOOLEAN /\ before' \in Nat
    BY <2>1, <2>2, UsageNumbers DEF Numbers
  <2> HIDE DEF line, new
  <2>7. IsFiniteSet(taken') /\ \A t \in taken' : t.line \in Lines
    BY <2>1, <2>2, <2>5, FS_AddElement DEF GroupInv
  <2>8. DOMAIN groups' = {t.line.id : t \in taken'}
    BY <2>1, <2>5 DEF GroupInv, Grouped
  <2>9. ASSUME NEW j \in DOMAIN groups' PROVE groups'[j] \in Group /\ Sound(taken', j, groups'[j])
    <3>1. CASE j # k
      <4>1. DOMAIN groups' = DOMAIN groups \cup {k}
        BY <2>1 DEF Grouped
      <4>2. j \in DOMAIN groups
        BY <2>9, <3>1, <4>1
      <4>3. groups'[j] = groups[j]
        BY <2>1, <2>9, <3>1, <4>1 DEF Grouped
      <4>4. From(T, j) = From(taken, j)
        BY <2>5, <3>1 DEF From
      <4>5. Seen(T, j) = Seen(taken, j)
        BY <4>4 DEF Seen
      <4> HIDE DEF T, k
      <4> QED BY <2>1, <4>2, <4>3, <4>4, <4>5 DEF GroupInv, Sound
    <3>2. CASE j = k /\ Known(line)
      <4>1. groups[k] \in Group /\ Sound(taken, k, groups[k])
        BY <3>2 DEF Known, GroupInv
      <4>2. groups'[k] = Merged(groups[k], line)
        BY <2>1, <2>9, <3>2 DEF Grouped
      <4>3. Merged(groups[k], new.line) \in Group /\ Sound(T, k, Merged(groups[k], new.line))
        BY <2>2, <2>3, <2>5, <4>1, MergedSound DEF GroupInv
      <4> QED BY <2>1, <2>5, <3>2, <4>2, <4>3
    <3>3. CASE j = k /\ ~Known(line)
      <4>1. From(taken, k) = {}
        BY <3>3 DEF Known, GroupInv, From
      <4>2. groups'[k] = Opened(file, line)
        BY <2>1, <2>9, <3>3 DEF Grouped
      <4>3. Opened(file, new.line) \in Group /\ Sound(T, k, Opened(file, new.line))
        BY <2>2, <2>3, <2>4, <2>5, <4>1, OpenedSound DEF GroupInv
      <4> QED BY <2>1, <2>5, <3>3, <4>2, <4>3
    <3> QED BY <3>1, <3>2, <3>3
  <2> QED BY <2>6, <2>7, <2>8, <2>9 DEF GroupInv
<1>2. CASE Open
  BY <1>2 DEF Open, GroupInv, book
<1> QED BY <1>1, <1>2 DEF GroupInv, Next, Audit, Live, ReadHalf, ReadLeftOut, Close, Report,
                          Write, Complete, book, progress, vars

(* The largest of the numbers a message's lines had in a field.             *)
LEMMA LargestIsMax ==
    ASSUME NEW S \in SUBSET Nat, NEW m \in S, \A n \in S : n <= m
    PROVE  m = Max(S)
<1>1. \E x \in S : \A y \in S : x >= y
  OBVIOUS
<1>2. Max(S) \in S /\ \A y \in S : Max(S) >= y
  BY <1>1 DEF Max
<1>3. Max(S) \in Nat /\ m \in Nat /\ Max(S) >= m /\ Max(S) <= m
  BY <1>2
<1> QED BY <1>3

(* Whatever the order of files and lines, the group of a message is what    *)
(* the counted lines of that message say (Group.add).                       *)
THEOREM Deduplicated == Spec => []DedupIsOrderFree
<1>1. Init => GroupInv
  BY FS_EmptySet DEF Init, GroupInv
<1>2. GroupInv => DedupIsOrderFree
  <2> SUFFICES ASSUME GroupInv, NEW k \in DOMAIN groups
               PROVE  /\ groups[k].n = Cardinality(Of(k))
                      /\ groups[k].differs <=> \E u, v \in Readings(k) : u # v
                      /\ \A x \in Fields : groups[k].most[x] = Max({u[x] : u \in Readings(k)})
                      /\ \E t \in Of(k) : /\ t.line.model = groups[k].model
                                          /\ \A s \in Of(k) : s.line.u.output <= t.line.u.output
    BY DEF GroupInv, DedupIsOrderFree
  <2>1. Of(k) = From(taken, k) /\ Readings(k) = Seen(taken, k)
    BY DEF Of, From, Readings, Seen
  <2>2. Sound(taken, k, groups[k])
    BY DEF GroupInv
  <2>3. ASSUME NEW x \in Fields
        PROVE  groups[k].most[x] = Max({u[x] : u \in Readings(k)})
    <3> DEFINE S == {u[x] : u \in Readings(k)}
    <3>1. \A u \in Readings(k) : u[x] \in Nat
      BY UsageNumbers DEF Readings, Of, GroupInv
    <3>2. S \in SUBSET Nat /\ groups[k].most[x] \in S /\ \A n \in S : n <= groups[k].most[x]
      BY <2>1, <2>2, <3>1 DEF Sound
    <3> HIDE DEF S
    <3>3. groups[k].most[x] = Max(S)
      BY <3>2, LargestIsMax
    <3> QED BY <3>3 DEF S
  <2> QED BY <2>1, <2>2, <2>3 DEF Sound
<1> QED BY <1>1, <1>2, GroupStep, ReadingHolds, PTL DEF Spec

-----------------------------------------------------------------------------
(* Types                                                                     *)

CountInv ==
    /\ appends \in 0 .. MaxAppends /\ peak \in Nat
    /\ counters \in [Fates -> Nat]
    /\ \A k \in DOMAIN groups : groups[k].role # "fora"

LEMMA CountStep == RInv /\ GroupInv /\ CountInv /\ [Next]_vars => CountInv'
<1> SUFFICES ASSUME RInv, GroupInv, CountInv, [Next]_vars PROVE CountInv'
  OBVIOUS
<1>1. ASSUME NEW fate PROVE Left(fate) \in [Fates -> Nat]
  BY DEF Left, CountInv
<1>2. CASE ReadTaken
  <2> DEFINE line == text[file][pos + 1]
  <2>1. /\ pc = "open" /\ pos < Len(text[file]) /\ Fate(file, line) = "taken"
        /\ groups' = Grouped(file, line) /\ peak' = Larger(peak, Context(Usage(line)))
        /\ counters' = Left("taken") /\ appends' = appends
    BY <1>2 DEF ReadTaken, harness
  <2>2. file \in Files /\ line \in Lines
    BY <2>1, FilesOfListing DEF RInv, Reading
  <2>3. Context(Usage(line)) \in Nat
    BY <2>2, UsageNumbers DEF Context, Numbers
  <2>4. Role(file) # "fora"
    BY <2>1 DEF Fate
  <2> HIDE DEF line
  <2>5. ASSUME NEW k \in DOMAIN groups' PROVE groups'[k].role # "fora"
    <3>1. CASE k # line.id
      BY <2>1, <2>5, <3>1 DEF Grouped, CountInv
    <3>2. CASE k = line.id /\ Known(line)
      <4>1. groups'[k] = Merged(groups[k], line) /\ k \in DOMAIN groups
        BY <2>1, <2>5, <3>2 DEF Grouped, Known
      <4>2. groups[k] \in Group /\ groups[k].role # "fora"
        BY <4>1 DEF GroupInv, CountInv
      <4>3. Merged(groups[k], line).role = groups[k].role
        BY <4>2 DEF Merged, Group
      <4> QED BY <4>1, <4>2, <4>3
    <3>3. CASE k = line.id /\ ~Known(line)
      BY <2>1, <2>4, <2>5, <3>3 DEF Grouped, Opened
    <3> QED BY <3>1, <3>2, <3>3
  <2> QED BY <1>1, <2>1, <2>3, <2>5 DEF CountInv, Larger
<1>3. CASE ReadLeftOut
  BY <1>1, <1>3 DEF ReadLeftOut, CountInv, harness, book, progress
<1>4. CASE Live
  BY <1>4, NumbersAssumption DEF Live, Write, Complete, CountInv, book, progress
<1> QED BY <1>2, <1>3, <1>4 DEF CountInv, Next, Audit, Open, ReadHalf, Close, Report,
                                harness, book, progress, vars

(* The types of the audit's state.                                          *)
THEOREM TypeCorrect == Spec => []TypeOK
<1>1. Init => GroupInv /\ RawInv /\ CountInv
  BY FS_EmptySet, NumbersAssumption DEF Init, GroupInv, RawInv, CountInv, Sums, Locations, Fates
<1>2. RInv /\ GroupInv /\ RawInv /\ CountInv => TypeOK
  <2> SUFFICES ASSUME RInv, GroupInv, RawInv, CountInv PROVE TypeOK
    OBVIOUS
  <2>1. ASSUME NEW k \in DOMAIN groups
        PROVE  /\ groups[k].n \in Nat \ {0} /\ groups[k].role \in Roles \ {"fora"}
               /\ \A rule \in {"first", "last", "most", "terminal"}, x \in Fields : groups[k][rule][x] \in Nat
    <3>1. groups[k] \in Group /\ groups[k].n # 0 /\ groups[k].role # "fora"
      BY DEF GroupInv, Sound, CountInv
    <3> QED BY <3>1 DEF Group, Numbers, Fields
  <2> QED BY <2>1 DEF TypeOK, RInv, Reading, GroupInv, RawInv, CountInv, Sums
<1> QED BY <1>1, <1>2, ReadingHolds, RawStep, GroupStep, CountStep, ReadingInit, ReadingStep,
           PTL DEF Spec

-----------------------------------------------------------------------------
(* The percentiles                                                           *)

LEMMA LeastNumber ==
    ASSUME NEW T \in SUBSET Nat, T # {}
    PROVE  \E m \in T : \A n \in T : m <= n
<1>1. PICK m \in T : \A n \in T : ~(<<n, m>> \in OpToRel(<, Nat))
  BY NatLessThanWellFounded, WFMin
<1>2. \A n \in T : ~(n < m)
  BY <1>1 DEF OpToRel
<1> QED BY <1>2

(* A table of the report: finitely many rows, each with a number.           *)
Table(S) == IsFiniteSet(S) /\ \A s \in S : s.context \in Nat
Upto(S, v) == {s \in S : s.context <= v}
Below(S, v) == {s \in S : s.context < v}

LEMMA PartOfTable ==
    ASSUME NEW S, Table(S), NEW T \in SUBSET S
    PROVE  Table(T) /\ Cardinality(T) \in Nat /\ Cardinality(T) <= Cardinality(S)
BY FS_Subset, FS_CardinalityType DEF Table

(* Its numbers have a bound: of the parts that had none, the smallest would *)
(* have one as soon as a row is taken away.                                 *)
LEMMA TableBounded ==
    ASSUME NEW S, Table(S)
    PROVE  \E b \in Nat : \A s \in S : s.context <= b
<1> DEFINE Bound(U) == \E b \in Nat : \A s \in U : s.context <= b
           Sizes == {Cardinality(U) : U \in {V \in SUBSET S : ~Bound(V)}}
<1> SUFFICES ASSUME ~Bound(S) PROVE FALSE
  OBVIOUS
<1>1. Sizes \in SUBSET Nat /\ Sizes # {}
  BY PartOfTable
<1>2. PICK m \in Sizes : \A n \in Sizes : m <= n
  BY <1>1, LeastNumber
<1>3. PICK U \in SUBSET S : ~Bound(U) /\ m = Cardinality(U)
  BY <1>2
<1>4. PICK x \in U : TRUE
  <2>1. U # {}
    BY <1>3
  <2> QED BY <2>1
<1>5. Cardinality(U \ {x}) = m - 1 /\ m \in Nat
  BY <1>3, <1>4, PartOfTable, FS_RemoveElement DEF Table
<1>6. Bound(U \ {x})
  <2> SUFFICES ASSUME ~Bound(U \ {x}) PROVE FALSE
    OBVIOUS
  <2>1. Cardinality(U \ {x}) \in Sizes
    <3>1. U \ {x} \in SUBSET S
      OBVIOUS
    <3> HIDE DEF Bound
    <3> QED BY <3>1
  <2> QED BY <1>2, <1>5, <2>1
<1>7. PICK b \in Nat : \A s \in U \ {x} : s.context <= b
  BY <1>6
<1>8. x.context \in Nat /\ \A s \in U : s.context \in Nat
  BY DEF Table
<1>9. Bound(U)
  <2>1. CASE x.context <= b
    BY <1>7, <2>1
  <2>2. CASE b < x.context
    <3>1. \A s \in U : s.context <= x.context
      BY <1>7, <1>8, <2>2
    <3> QED BY <1>8, <3>1
  <2> QED BY <1>7, <1>8, <2>1, <2>2
<1> QED BY <1>3, <1>9

(* The number at a place of the sorted table is one of the table's.         *)
LEMMA AtPlaceIs ==
    ASSUME NEW S, Table(S), NEW n \in Nat, n < Cardinality(S)
    PROVE  /\ AtPlace(S, n) \in Nat /\ \E s \in S : s.context = AtPlace(S, n)
           /\ Cardinality(Below(S, AtPlace(S, n))) <= n
           /\ Cardinality(Upto(S, AtPlace(S, n))) > n
<1> DEFINE T == {v \in Nat : Cardinality(Upto(S, v)) > n}
<1>c. \A v : Cardinality(Upto(S, v)) \in Nat /\ Cardinality(Below(S, v)) \in Nat
  BY PartOfTable DEF Upto, Below
<1>1. T # {}
  <2>1. PICK b \in Nat : \A s \in S : s.context <= b
    BY TableBounded
  <2>2. Upto(S, b) = S
    BY <2>1 DEF Upto
  <2> QED BY <2>1, <2>2
<1>2. PICK v \in T : \A w \in T : v <= w
  BY <1>1, LeastNumber
<1>3. v \in Nat /\ Cardinality(Upto(S, v)) > n
  BY <1>2
<1>4. Cardinality(Below(S, v)) <= n
  <2>1. CASE v = 0
    <3>1. Below(S, v) = {}
      BY <2>1 DEF Below, Table
    <3> QED BY <3>1, FS_EmptySet
  <2>2. CASE v # 0
    <3>1. v - 1 \in Nat /\ v - 1 \notin T
      BY <1>2, <1>3, <2>2
    <3>2. Below(S, v) = Upto(S, v - 1)
      BY <1>3, <3>1 DEF Below, Upto, Table
    <3> QED BY <1>c, <3>1, <3>2
  <2> QED BY <2>1, <2>2
<1>5. \E s \in S : s.context = v
  <2> SUFFICES ASSUME \A s \in S : s.context # v PROVE FALSE
    OBVIOUS
  <2>1. Below(S, v) = Upto(S, v)
    BY <1>3 DEF Below, Upto, Table
  <2> QED BY <1>3, <1>4, <1>c, <2>1
<1> DEFINE Good(w) == Cardinality({s \in S : s.context < w}) <= n /\ Cardinality({s \in S : s.context <= w}) > n
<1>6. v \in {s.context : s \in S} /\ Good(v)
  BY <1>3, <1>4, <1>5 DEF Below, Upto
<1>7. AtPlace(S, n) = CHOOSE w \in {s.context : s \in S} : Good(w)
  BY DEF AtPlace
<1>8. AtPlace(S, n) \in {s.context : s \in S} /\ Good(AtPlace(S, n))
  <2> HIDE DEF Good
  <2> QED BY <1>6, <1>7
<1> QED BY <1>8 DEF Below, Upto, Table

(* A later place holds no smaller number.                                   *)
LEMMA PlacesInOrder ==
    ASSUME NEW S, Table(S), NEW m \in Nat, NEW n \in Nat, m <= n, n < Cardinality(S)
    PROVE  AtPlace(S, m) <= AtPlace(S, n)
<1> DEFINE v == AtPlace(S, m)
           w == AtPlace(S, n)
<1>1. Cardinality(S) \in Nat
  BY PartOfTable
<1>2. v \in Nat /\ Cardinality(Below(S, v)) <= m
  BY <1>1, AtPlaceIs
<1>3. w \in Nat /\ Cardinality(Upto(S, w)) > n
  BY <1>1, AtPlaceIs
<1> HIDE DEF v, w
<1>4. CASE w < v
  <2>1. Upto(S, w) \in SUBSET Below(S, v) /\ Below(S, v) \in SUBSET S
    BY <1>2, <1>3, <1>4 DEF Upto, Below, Table
  <2>2. Table(Below(S, v)) /\ Cardinality(Below(S, v)) \in Nat
    BY <2>1, PartOfTable
  <2>3. Cardinality(Upto(S, w)) \in Nat /\ Cardinality(Upto(S, w)) <= Cardinality(Below(S, v))
    BY <2>1, <2>2, PartOfTable
  <2> QED BY <1>2, <1>3, <2>2, <2>3
<1> QED BY <1>2, <1>3, <1>4 DEF v, w

(* The place of the median is not behind that of the ninth decile.          *)
LEMMA RoundedPlaces ==
    ASSUME NEW n \in Nat, n # 0
    PROVE  Place(1, 2, n) \in Nat /\ Place(9, 10, n) \in Nat /\ Place(1, 2, n) <= Place(9, 10, n)
<1> DEFINE x == n - 1
           q == x \div 2
           r == x % 2
           d == (9 * x) \div 10
           e == (9 * x) % 10
<1>1. x \in Nat /\ q \in Nat /\ r \in 0 .. 1 /\ x = 2 * q + r
  OBVIOUS
<1>2. d \in Nat /\ e \in 0 .. 9 /\ 9 * x = 10 * d + e
  OBVIOUS
<1>3. Place(1, 2, n) = IF r = 0 THEN q ELSE IF q % 2 = 0 THEN q ELSE q + 1
  <2>1. 1 * (n - 1) = x
    OBVIOUS
  <2>2. Place(1, 2, n) = CASE 2 * r < 2 -> q [] 2 * r > 2 -> q + 1 [] OTHER -> IF q % 2 = 0 THEN q ELSE q + 1
    BY <2>1 DEF Place
  <2> HIDE DEF q, r
  <2> QED BY <1>1, <2>2
<1>4. Place(9, 10, n) = IF e < 5 THEN d ELSE IF e > 5 THEN d + 1 ELSE IF d % 2 = 0 THEN d ELSE d + 1
  <2>1. Place(9, 10, n) = CASE 2 * e < 10 -> d [] 2 * e > 10 -> d + 1 [] OTHER -> IF d % 2 = 0 THEN d ELSE d + 1
    BY DEF Place
  <2> HIDE DEF d, e
  <2> QED BY <1>2, <2>1
<1> HIDE DEF x, q, r, d, e
<1>5. q % 2 \in 0 .. 1 /\ (q = 0 => q % 2 = 0) /\ (q = 1 => q % 2 = 1)
  BY <1>1
<1> QED BY <1>1, <1>2, <1>3, <1>4, <1>5

(* A percentile is a number of the table, and the median of a table is at   *)
(* most its ninth decile (percentile).                                      *)
LEMMA PercentileIs ==
    ASSUME NEW S, Table(S), S # {}, NEW num, NEW den, Place(num, den, Cardinality(S)) \in Nat
    PROVE  \E s \in S : s.context = Percentile(num, den, S)
<1> DEFINE n == Smaller(Cardinality(S) - 1, Place(num, den, Cardinality(S)))
<1>1. Cardinality(S) \in Nat \ {0}
  BY PartOfTable, FS_EmptySet DEF Table
<1>2. n \in Nat /\ n < Cardinality(S)
  BY <1>1 DEF Smaller
<1>3. Percentile(num, den, S) = AtPlace(S, n)
  BY DEF Percentile
<1> HIDE DEF n
<1> QED BY <1>2, <1>3, AtPlaceIs

LEMMA MedianBelowDecile ==
    ASSUME NEW S, Table(S)
    PROVE  Percentile(1, 2, S) <= Percentile(9, 10, S)
<1>1. CASE S = {}
  BY <1>1 DEF Percentile
<1>2. CASE S # {}
  <2> DEFINE c == Cardinality(S)
             m == Smaller(c - 1, Place(1, 2, c))
             n == Smaller(c - 1, Place(9, 10, c))
  <2>1. c \in Nat \ {0}
    BY <1>2, PartOfTable, FS_EmptySet DEF Table
  <2> HIDE DEF c
  <2>2. m \in Nat /\ n \in Nat /\ m <= n /\ n < c
    BY <2>1, RoundedPlaces DEF Smaller
  <2>3. Percentile(1, 2, S) = AtPlace(S, m) /\ Percentile(9, 10, S) = AtPlace(S, n)
    BY <1>2 DEF Percentile, c
  <2> HIDE DEF m, n
  <2> QED BY <2>2, <2>3, PlacesInOrder DEF c
<1> QED BY <1>1, <1>2

-----------------------------------------------------------------------------
(* Openings, prefixes and peaks                                              *)

(* The rows of the two tables, one per transcript in that of the prefixes.  *)
Rows == [file : Files, context : Nat]
PrefixInv ==
    /\ prefixes \subseteq Rows /\ IsFiniteSet(prefixes)
    /\ peaks \subseteq Rows /\ IsFiniteSet(peaks)
    /\ peak \in Nat
    /\ \A p, q \in prefixes : p.file = q.file => p = q
    /\ \A p \in prefixes :
          /\ Role(p.file) = "subagent" /\ p.file <= file
          /\ p.file = file => ~first /\ (pc \in {"open", "crashed"} => p.context <= peak)
          /\ (p.file < file \/ pc \in {"closed", "done"}) /\ p.context > 0 =>
                \E s \in peaks : s.file = p.file /\ p.context <= s.context

(* What the reader carries from line to line of a transcript is that of its *)
(* last counted line, and so is what a group was opened with.               *)
FirstOf(t) == \A s \in taken : s.file = t.file => t.place <= s.place
CarryInv ==
    /\ IF first THEN \A s \in taken : s.file # file
       ELSE \E s \in taken : s.file = file /\ s.line.u.read = before
    /\ \A k \in DOMAIN groups :
          IF groups[k].opening
          THEN \E t \in taken : t.line.id = k /\ FirstOf(t)
          ELSE \E s, t \in taken : /\ t.line.id = k /\ s.file = t.file /\ s.place < t.place
                                   /\ s.line.u.read = groups[k].before

LEMMA PrefixStep == RInv /\ PrefixInv /\ [Next]_vars => PrefixInv'
<1> SUFFICES ASSUME RInv, PrefixInv, [Next]_vars PROVE PrefixInv'
  OBVIOUS
<1> USE FilesOfListing
<1>r. Reading
  BY DEF RInv
<1>1. CASE Open
  <2>1. /\ pc = "closed" /\ file' = file + 1 /\ pc' = "open" /\ peak' = 0
        /\ UNCHANGED <<prefixes, peaks>>
    BY <1>1 DEF Open, book
  <2>2. \A p \in prefixes : p.file # file' /\ p.file < file'
    BY <1>r, <2>1 DEF PrefixInv, Rows, Reading
  <2> QED BY <1>r, <2>1, <2>2 DEF PrefixInv, Reading, Rows
<1>2. CASE ReadHalf
  BY <1>2 DEF ReadHalf, PrefixInv, book, progress
<1>3. CASE ReadLeftOut
  <2>1. pc = "open" /\ pc' \in {"open", "crashed"} /\ UNCHANGED <<prefixes, peaks, peak, first, file>>
    BY <1>3 DEF ReadLeftOut, book, progress
  <2> QED BY <2>1 DEF PrefixInv
<1>4. CASE ReadTaken
  <2> DEFINE line == text[file][pos + 1]
             c == Context(Usage(line))
  <2>1. /\ pc = "open" /\ pos < Len(text[file]) /\ first' = FALSE
        /\ prefixes' = prefixes \cup Prefix(file, line) /\ peak' = Larger(peak, c)
        /\ UNCHANGED <<peaks, pc, file>>
    BY <1>4 DEF ReadTaken
  <2>2. file \in Files /\ line \in Lines
    BY <2>1 DEF RInv, Reading
  <2>3. c \in Nat
    BY <2>2, UsageNumbers DEF Context, Numbers
  <2>4. prefixes' = prefixes \/ (/\ first /\ Role(file) = "subagent"
                                 /\ prefixes' = prefixes \cup {[file |-> file, context |-> c]})
    BY <2>1 DEF Prefix
  <2> HIDE DEF c, line
  <2>5. peak' \in Nat /\ peak <= peak' /\ c <= peak' /\ peak \in Nat
    BY <2>1, <2>3 DEF PrefixInv, Larger
  <2>6. CASE prefixes' = prefixes
    <3>1. \A p \in prefixes : p.context <= peak => p.context <= peak'
      BY <2>5 DEF PrefixInv, Rows
    <3> QED BY <2>1, <2>5, <2>6, <3>1 DEF PrefixInv
  <2>7. CASE /\ first /\ Role(file) = "subagent"
             /\ prefixes' = prefixes \cup {[file |-> file, context |-> c]}
    <3> DEFINE new == [file |-> file, context |-> c]
    <3>1. new \in Rows /\ new.file = file /\ new.context = c
      BY <2>2, <2>3 DEF Rows
    <3>2. \A p \in prefixes : p.file # file /\ p.file < file
      BY <2>2, <2>7, <1>r DEF PrefixInv, Rows, Reading
    <3> HIDE DEF new
    <3>3. prefixes' = prefixes \cup {new}
      BY <2>7 DEF new
    <3>4. IsFiniteSet(prefixes')
      BY <3>3, FS_AddElement DEF PrefixInv
    <3>5. ~(new.file < file') /\ file <= file /\ pc' = "open"
      BY <2>1, <2>2, <3>1
    <3> QED BY <2>1, <2>5, <2>7, <3>1, <3>2, <3>3, <3>4, <3>5 DEF PrefixInv
  <2> QED BY <2>4, <2>6, <2>7
<1>5. CASE Close
  <2>1. /\ pc = "open" /\ pc' = "closed" /\ UNCHANGED <<prefixes, peak, first, file>>
        /\ peaks' = IF Role(file) = "subagent" /\ peak > 0
                    THEN peaks \cup {[file |-> file, context |-> peak]} ELSE peaks
    BY <1>5 DEF Close, book, progress
  <2>2. file \in Files /\ peak \in Nat
    BY <1>r, <2>1 DEF Reading, PrefixInv
  <2>3. peaks' \subseteq Rows /\ IsFiniteSet(peaks') /\ peaks \subseteq peaks'
    <3> DEFINE new == [file |-> file, context |-> peak]
    <3>1. new \in Rows
      BY <2>2 DEF Rows
    <3> HIDE DEF new
    <3>2. peaks' = peaks \/ peaks' = peaks \cup {new}
      BY <2>1 DEF new
    <3>3. IsFiniteSet(peaks \cup {new})
      BY FS_AddElement DEF PrefixInv
    <3> QED BY <3>1, <3>2, <3>3 DEF PrefixInv
  <2>4. ASSUME NEW p \in prefixes, p.context > 0
        PROVE  \E s \in peaks' : s.file = p.file /\ p.context <= s.context
    <3>1. p.file \in Nat /\ file \in Nat /\ p.context \in Nat /\ p.file <= file
      BY <2>2 DEF PrefixInv, Rows
    <3>2. CASE p.file < file
      BY <2>3, <2>4, <3>2 DEF PrefixInv
    <3>3. CASE p.file = file
      <4>1. p.context <= peak /\ Role(file) = "subagent"
        BY <2>1, <3>3 DEF PrefixInv
      <4>2. [file |-> file, context |-> peak] \in peaks'
        BY <2>1, <2>2, <2>4, <3>1, <4>1
      <4> QED BY <3>3, <4>1, <4>2
    <3> QED BY <3>1, <3>2, <3>3
  <2> QED BY <2>1, <2>3, <2>4 DEF PrefixInv
<1>6. CASE Report
  BY <1>6 DEF Report, PrefixInv, book, progress
<1>7. CASE Live
  BY <1>7 DEF Live, Write, Complete, PrefixInv, book, progress
<1>8. CASE UNCHANGED vars
  BY <1>8 DEF vars, PrefixInv
<1> QED BY <1>1, <1>2, <1>3, <1>4, <1>5, <1>6, <1>7, <1>8 DEF Next, Audit

LEMMA CarryStep == RInv /\ GroupInv /\ CarryInv /\ [Next]_vars => CarryInv'
<1> SUFFICES ASSUME RInv, GroupInv, CarryInv, [Next]_vars PROVE CarryInv'
  OBVIOUS
<1> USE FilesOfListing
<1>r. Reading /\ Behind
  BY DEF RInv
<1>1. CASE Open
  <2>1. /\ file' = file + 1 /\ first' = TRUE /\ UNCHANGED <<taken, groups>>
    BY <1>1 DEF Open, book
  <2>2. \A s \in taken : s.file # file'
    BY <1>r, <2>1 DEF Reading, Behind
  <2> QED BY <2>1, <2>2 DEF CarryInv, FirstOf
<1>2. CASE ReadTaken
  <2> DEFINE line == text[file][pos + 1]
             new == [file |-> file, place |-> pos + 1, line |-> line]
             T == taken \cup {new}
  <2>1. /\ pc = "open" /\ pos < Len(text[file]) /\ file' = file
        /\ groups' = Grouped(file, line) /\ first' = FALSE /\ before' = Usage(line).read
        /\ taken' = T
    BY <1>2 DEF ReadTaken
  <2>2. file \in Files /\ line \in Lines /\ pos \in Nat
    BY <1>r, <2>1 DEF Reading
  <2>3. new.file = file /\ new.place = pos + 1 /\ new.line = line /\ new \in T /\ taken \subseteq T
    OBVIOUS
  <2>4. \A t \in taken : t.place \in Nat /\ (t.file = file => t.place < pos + 1)
    BY <1>r, <2>2 DEF Behind, Reading
  <2>5. before' = line.u.read
    BY <2>1 DEF Usage
  <2> HIDE DEF line, new, T
  <2>6. \A t \in taken : FirstOf(t) => FirstOf(t)'
    <3> SUFFICES ASSUME NEW t \in taken, FirstOf(t), NEW s \in taken', s.file = t.file
                 PROVE  t.place <= s.place
      BY DEF FirstOf
    <3>1. s \in taken \/ s = new
      BY <2>1 DEF T
    <3> QED BY <2>2, <2>3, <2>4, <3>1 DEF FirstOf
  <2>7. ASSUME NEW k \in DOMAIN groups'
        PROVE  IF groups'[k].opening
               THEN \E t \in taken' : t.line.id = k /\ FirstOf(t)'
               ELSE \E s, t \in taken' : /\ t.line.id = k /\ s.file = t.file /\ s.place < t.place
                                         /\ s.line.u.read = groups'[k].before
    <3>1. CASE k \in DOMAIN groups
      <4>1. groups'[k].opening = groups[k].opening /\ groups'[k].before = groups[k].before
        <5>1. CASE k # line.id
          BY <2>1, <3>1, <5>1 DEF Grouped
        <5>2. CASE k = line.id
          <6>1. groups'[k] = Merged(groups[k], line) /\ groups[k] \in Group
            BY <2>1, <3>1, <5>2 DEF Grouped, Known, GroupInv
          <6> QED BY <6>1 DEF Merged, Group
        <5> QED BY <5>1, <5>2
      <4> QED BY <2>1, <2>3, <2>6, <3>1, <4>1 DEF CarryInv
    <3>2. CASE k \notin DOMAIN groups
      <4>1. k = line.id /\ groups'[k] = Opened(file, line)
        BY <2>1, <2>7, <3>2 DEF Grouped, Known
      <4>2. groups'[k].opening = first /\ groups'[k].before = before
        BY <4>1 DEF Opened
      <4>3. CASE first
        <5>1. \A s \in taken' : s.file = new.file => new.place <= s.place
          <6> SUFFICES ASSUME NEW s \in taken', s.file = new.file PROVE new.place <= s.place
            OBVIOUS
          <6>1. s = new
            BY <2>1, <2>3, <4>3 DEF CarryInv, T
          <6> QED BY <2>2, <2>3, <6>1
        <5>2. new \in taken' /\ new.line.id = k
          BY <2>1, <2>3, <4>1
        <5>3. \E t \in taken' : t.line.id = k /\ FirstOf(t)'
          BY <5>1, <5>2 DEF FirstOf
        <5> QED BY <4>2, <4>3, <5>3
      <4>4. CASE ~first
        BY <2>1, <2>2, <2>3, <2>4, <4>1, <4>2, <4>4 DEF CarryInv
      <4> QED BY <4>3, <4>4, <4>2 DEF GroupInv
    <3> QED BY <3>1, <3>2
  <2>8. \E s \in taken' : s.file = file' /\ s.line.u.read = before'
    BY <2>1, <2>3, <2>5
  <2> QED BY <2>1, <2>7, <2>8 DEF CarryInv
<1>3. CASE ~Open /\ ~ReadTaken
  <2>1. UNCHANGED <<taken, groups, file, first, before>>
    BY <1>3 DEF Next, Audit, Live, ReadHalf, ReadLeftOut, Close, Report,
                Write, Complete, book, progress, vars
  <2> QED BY <2>1 DEF CarryInv, FirstOf
<1> QED BY <1>1, <1>2, <1>3

(* There are no more openings than transcripts that have counted lines: the *)
(* message of an opening is that of the first line counted in one.          *)
LEMMA OpeningsAreFew ==
    ASSUME RInv, GroupInv, CarryInv
    PROVE  Cardinality({k \in DOMAIN groups : groups[k].opening}) <= Cardinality({t.file : t \in taken})
<1> DEFINE F == {t.file : t \in taken}
           K == {k \in DOMAIN groups : groups[k].opening}
           head == [f \in F |-> (CHOOSE t \in taken : t.file = f /\ FirstOf(t)).line.id]
           H == {head[f] : f \in F}
           part == [t \in taken |-> t.file]
<1>1. IsFiniteSet(taken)
  BY DEF GroupInv
<1>2. part \in Surjection(taken, F)
  BY DEF Surjection
<1>3. IsFiniteSet(F) /\ Cardinality(F) \in Nat
  <2> HIDE DEF part, F
  <2> QED BY <1>1, <1>2, FS_Surjection, FS_CardinalityType
<1>4. head \in Surjection(F, H)
  BY DEF Surjection
<1>5. IsFiniteSet(H) /\ Cardinality(H) <= Cardinality(F) /\ Cardinality(H) \in Nat
  <2> HIDE DEF head, F, H
  <2> QED BY <1>3, <1>4, FS_Surjection, FS_CardinalityType
<1>6. K \subseteq H
  <2> SUFFICES ASSUME NEW k \in DOMAIN groups, groups[k].opening PROVE k \in H
    OBVIOUS
  <2>1. PICK t \in taken : t.line.id = k /\ FirstOf(t)
    BY DEF CarryInv
  <2>2. \A s \in taken : s.file = t.file /\ FirstOf(s) => s = t
    <3> SUFFICES ASSUME NEW s \in taken, s.file = t.file, FirstOf(s) PROVE s = t
      OBVIOUS
    <3>1. s.place <= t.place /\ t.place <= s.place
      BY <2>1 DEF FirstOf
    <3>2. s.place \in Nat /\ t.place \in Nat
      BY DEF RInv, Behind, Reading
    <3>3. s.place = t.place
      BY <3>1, <3>2
    <3> QED BY <3>3 DEF RInv, Behind
  <2>3. (CHOOSE s \in taken : s.file = t.file /\ FirstOf(s)) = t
    BY <2>1, <2>2
  <2>4. t.file \in F /\ head[t.file] = k
    BY <2>1, <2>3
  <2> QED BY <2>4
<1>7. Cardinality(K) \in Nat /\ Cardinality(K) <= Cardinality(H)
  <2> HIDE DEF K, H
  <2> QED BY <1>5, <1>6, FS_Subset, FS_CardinalityType
<1> QED BY <1>3, <1>5, <1>7

(* A transcript has at most one opening, its peak is at least its prefix,   *)
(* the percentiles are in order, and before a rewrite the same transcript   *)
(* had a larger cache read (main: first_seen, prev_cr, initial_prefix and   *)
(* peak_context).                                                           *)
THEOREM Comparable == Spec => []OpeningsAndPeaks
<1>1. Init => GroupInv /\ PrefixInv /\ CarryInv
  BY FS_EmptySet DEF Init, GroupInv, PrefixInv, CarryInv
<1>2. RInv /\ GroupInv /\ PrefixInv /\ CarryInv => OpeningsAndPeaks
  <2> SUFFICES ASSUME RInv, GroupInv, PrefixInv, CarryInv PROVE OpeningsAndPeaks
    OBVIOUS
  <2>1. Table(prefixes) /\ Table(peaks)
    BY DEF PrefixInv, Table, Rows
  <2>2. Percentile(1, 2, prefixes) <= Percentile(9, 10, prefixes)
    BY <2>1, MedianBelowDecile
  <2>3. Percentile(9, 10, peaks) <= Max({0} \cup {s.context : s \in peaks})
    <3> DEFINE N == {0} \cup {s.context : s \in peaks}
    <3>1. PICK b \in Nat : \A s \in peaks : s.context <= b
      BY <2>1, TableBounded
    <3>2. N \in SUBSET Nat
      BY <2>1 DEF Table
    <3>3. \E m \in N : \A n \in N : n <= m
      <4> DEFINE U == {u \in Nat : \A n \in N : n <= u}
      <4>1. b \in U
        BY <3>1
      <4>2. PICK m \in U : \A u \in U : m <= u
        <5>1. U \in SUBSET Nat /\ U # {}
          BY <4>1
        <5> HIDE DEF U
        <5> QED BY <5>1, LeastNumber
      <4>3. m \in N
        <5> SUFFICES ASSUME m \notin N PROVE FALSE
          OBVIOUS
        <5>1. m # 0 /\ m \in Nat
          BY <4>2
        <5> HIDE DEF N
        <5>2. \A n \in N : n <= m - 1
          BY <3>2, <4>2, <5>1
        <5>3. m - 1 \in U
          BY <5>1, <5>2
        <5> QED BY <4>2, <5>1, <5>3
      <4> QED BY <4>2, <4>3
    <3>4. Percentile(9, 10, peaks) \in N
      <4>1. CASE peaks = {}
        BY <4>1 DEF Percentile
      <4>2. CASE peaks # {}
        <5>1. Cardinality(peaks) \in Nat \ {0}
          BY <2>1, <4>2, PartOfTable, FS_EmptySet DEF Table
        <5>2. Place(9, 10, Cardinality(peaks)) \in Nat
          BY <5>1, RoundedPlaces
        <5> QED BY <2>1, <4>2, <5>2, PercentileIs
      <4> QED BY <4>1, <4>2
    <3> HIDE DEF N
    <3>5. PICK m \in N : \A n \in N : n <= m
      BY <3>3
    <3>6. Max(N) = m
      BY <3>2, <3>5, LargestIsMax
    <3> QED BY <3>4, <3>5, <3>6 DEF N
  <2>4. ASSUME NEW k \in DOMAIN groups, Kind(groups[k]) = "rewrite"
        PROVE  \E s, t \in taken : /\ t.line.id = k /\ s.file = t.file /\ s.place < t.place
                                   /\ s.line.u.read > 5 * t.line.u.read
    <3> DEFINE g == groups[k]
    <3>1. g \in Group /\ Sound(taken, k, g)
      BY DEF GroupInv
    <3>2. ~g.opening /\ g.before > 0 /\ 5 * g.most.read < g.before
      <4>1. Written(g.most) \in Nat
        BY <3>1 DEF Written, Group, Fields
      <4> HIDE DEF g
      <4>2. Kind(g) = "rewrite"
        BY <2>4 DEF g
      <4>3. Written(g.most) > BigWrite /\ ~g.opening
        BY <4>1, <4>2, NumbersAssumption DEF Kind
      <4>4. Kind(g) = IF g.before > 0 /\ 5 * g.most.read < g.before THEN "rewrite" ELSE "growth"
        BY <4>1, <4>3, NumbersAssumption DEF Kind
      <4> QED BY <4>2, <4>3, <4>4
    <3>3. PICK s \in taken, t \in taken : /\ t.line.id = k /\ s.file = t.file /\ s.place < t.place
                                          /\ s.line.u.read = g.before
      BY <3>2 DEF CarryInv
    <3>4. t.line.u.read <= g.most.read
      <4>1. Usage(t.line) \in Seen(taken, k) /\ Usage(t.line).read = t.line.u.read
        BY <3>3 DEF Seen, From, Usage
      <4>2. "read" \in Fields
        BY DEF Fields
      <4>3. \A u \in Seen(taken, k) : u["read"] <= g.most["read"]
        BY <3>1, <4>2 DEF Sound
      <4> QED BY <4>1, <4>3
    <3>5. g.most.read \in Nat /\ t.line.u.read \in Nat /\ s.line.u.read \in Nat
      BY <3>1, TextsAssumption DEF Group, Fields, GroupInv
    <3> HIDE DEF g
    <3>6. s.line.u.read > 5 * t.line.u.read
      BY <3>2, <3>3, <3>4, <3>5
    <3> QED BY <3>3, <3>6
  <2>5. \A p \in prefixes :
          /\ Role(p.file) = "subagent"
          /\ (p.file < file \/ pc \in {"closed", "done"}) /\ p.context > 0 =>
                \E s \in peaks : s.file = p.file /\ p.context <= s.context
    BY DEF PrefixInv
  <2>6. \A p, q \in prefixes : p.file = q.file => p = q
    BY DEF PrefixInv
  <2> QED BY <2>2, <2>3, <2>4, <2>5, <2>6, OpeningsAreFew DEF OpeningsAndPeaks
<1>3. RInv /\ GroupInv /\ PrefixInv /\ CarryInv /\ [Next]_vars => PrefixInv' /\ CarryInv'
  BY PrefixStep, CarryStep
<1> QED BY <1>1, <1>2, <1>3, GroupStep, ReadingHolds, PTL DEF Spec

-----------------------------------------------------------------------------
(* Transcripts on their own                                                  *)

(* What the reader knows of a transcript is what its counted lines say, and *)
(* so are its row among the peaks and the groups its lines made.            *)
Weighed(t) == Context(Usage(t.line))
PeakIs(f, c) == (\E t \in In(f) : Weighed(t) = c) /\ \A t \in In(f) : Weighed(t) <= c
PeakInv ==
    /\ peak \in Nat /\ \A t \in In(file) : Weighed(t) <= peak
    /\ peak > 0 => \E t \in In(file) : Weighed(t) = peak
    /\ peaks \subseteq Rows
    /\ \A p \in peaks : /\ p.file \in Ended /\ Role(p.file) = "subagent" /\ p.context > 0
                        /\ PeakIs(p.file, p.context)
    /\ \A f \in Ended : Role(f) = "subagent" =>
          \A t \in In(f) : Weighed(t) > 0 => \E p \in peaks : p.file = f

Sooner(t) == {s \in In(t.file) : s.place < t.place}
MadeBy(t, g) ==
    /\ g.opening <=> Sooner(t) = {}
    /\ Sooner(t) = {} => g.before = 0
    /\ \A s \in Sooner(t) : (\A r \in Sooner(t) : r.place <= s.place) => g.before = s.line.u.read
MadeInv ==
    /\ first <=> In(file) = {}
    /\ first => before = 0
    /\ \A s \in In(file) : (\A r \in In(file) : r.place <= s.place) => before = s.line.u.read
    /\ \A t \in taken : Starts(t) => MadeBy(t, groups[t.line.id])

LEMMA WeighedType ==
    ASSUME GroupInv
    PROVE  \A t \in taken : Weighed(t) \in Nat
BY UsageNumbers DEF GroupInv, Weighed, Context, Numbers

(* No line has been counted of a transcript that is yet to be opened.       *)
LEMMA PeakStep == RInv /\ GroupInv /\ PeakInv /\ [Next]_vars => PeakInv'
<1> SUFFICES ASSUME RInv, GroupInv, PeakInv, [Next]_vars PROVE PeakInv'
  OBVIOUS
<1> USE FilesOfListing
<1>r. Reading /\ Behind
  BY DEF RInv
<1>1. CASE Open
  <2>1. /\ pc = "closed" /\ pc' = "open" /\ file' = file + 1 /\ peak' = 0 /\ UNCHANGED <<taken, peaks>>
    BY <1>1 DEF Open, book
  <2>2. In(file)' = {}
    BY <1>r, <2>1 DEF In, Behind, Reading
  <2>3. Ended' = Ended
    BY <1>r, <2>1 DEF Ended, Reading
  <2>4. \A f : In(f)' = In(f)
    BY <2>1 DEF In
  <2> QED BY <2>1, <2>2, <2>3, <2>4 DEF PeakInv, PeakIs
<1>2. CASE ReadTaken
  <2> DEFINE line == text[file][pos + 1]
             new == [file |-> file, place |-> pos + 1, line |-> line]
  <2>1. /\ pc = "open" /\ pc' = pc /\ pos < Len(text[file]) /\ file' = file
        /\ peak' = Larger(peak, Context(Usage(line))) /\ peaks' = peaks /\ taken' = taken \cup {new}
    BY <1>2 DEF ReadTaken
  <2>2. file \in Files /\ line \in Lines
    BY <1>r, <2>1 DEF Reading
  <2>3. new.file = file /\ new.line = line /\ Weighed(new) = Context(Usage(line)) /\ Weighed(new) \in Nat
    BY <2>2, UsageNumbers DEF Weighed, Context, Numbers
  <2> HIDE DEF line, new
  <2>4. Ended' = Ended /\ file \notin Ended
    BY <2>1, <2>2 DEF Ended
  <2>5. \A f \in Ended : In(f)' = In(f)
    BY <2>1, <2>3, <2>4 DEF In
  <2>6. In(file)' = In(file) \cup {new}
    BY <2>1, <2>3 DEF In
  <2>7. peak \in Nat /\ peak' \in Nat /\ peak <= peak' /\ Weighed(new) <= peak' /\ peak' \in {peak, Weighed(new)}
    BY <2>1, <2>3 DEF PeakInv, Larger
  <2>8. \A t \in In(file) : Weighed(t) \in Nat
    BY WeighedType DEF In
  <2>9. /\ \A t \in In(file)' : Weighed(t) <= peak'
        /\ peak' > 0 => \E t \in In(file)' : Weighed(t) = peak'
    BY <2>6, <2>7, <2>8 DEF PeakInv
  <2>10. \A p \in peaks : p.file \in Ended /\ (PeakIs(p.file, p.context) => PeakIs(p.file, p.context)')
    BY <2>5 DEF PeakInv, PeakIs
  <2> QED BY <2>1, <2>4, <2>5, <2>7, <2>9, <2>10 DEF PeakInv
<1>3. CASE Close
  <2>1. /\ pc = "open" /\ pc' = "closed" /\ UNCHANGED <<taken, peak, file>>
        /\ peaks' = IF Role(file) = "subagent" /\ peak > 0
                    THEN peaks \cup {[file |-> file, context |-> peak]} ELSE peaks
    BY <1>3 DEF Close, book, progress
  <2>2. file \in Files /\ peak \in Nat
    BY <1>r, <2>1 DEF Reading, PeakInv
  <2>3. Ended' = Ended \cup {file} /\ file \notin Ended
    BY <2>1, <2>2 DEF Ended
  <2>4. \A f : In(f)' = In(f)
    BY <2>1 DEF In
  <2> DEFINE new == [file |-> file, context |-> peak]
  <2>5. new \in Rows /\ new.file = file /\ new.context = peak
    BY <2>2 DEF Rows
  <2> HIDE DEF new
  <2>6. peaks' = peaks \/ (Role(file) = "subagent" /\ peak > 0 /\ peaks' = peaks \cup {new})
    BY <2>1 DEF new
  <2>7. peak > 0 => PeakIs(file, peak)
    BY DEF PeakInv, PeakIs
  <2>8. \A p \in peaks' : /\ p \in Rows /\ p.file \in Ended' /\ Role(p.file) = "subagent" /\ p.context > 0
                          /\ PeakIs(p.file, p.context)'
    BY <2>3, <2>4, <2>5, <2>6, <2>7 DEF PeakInv, PeakIs
  <2>9. ASSUME NEW f \in Ended', Role(f) = "subagent", NEW t \in In(f)', Weighed(t) > 0
        PROVE  \E p \in peaks' : p.file = f
    <3>1. CASE f \in Ended
      BY <2>4, <2>6, <2>9, <3>1 DEF PeakInv
    <3>2. CASE f = file
      <4>1. Weighed(t) <= peak /\ Weighed(t) \in Nat
        BY <2>4, <2>9, <3>2, WeighedType DEF PeakInv, In
      <4>2. peak > 0
        BY <2>2, <2>9, <4>1
      <4>3. new \in peaks'
        BY <2>1, <2>9, <3>2, <4>2 DEF new
      <4> QED BY <2>5, <3>2, <4>3
    <3> QED BY <2>3, <3>1, <3>2
  <2>10. In(file)' = In(file)
    BY <2>1, <2>4
  <2> QED BY <2>1, <2>4, <2>8, <2>9, <2>10 DEF PeakInv
<1>4. CASE ~Open /\ ~ReadTaken /\ ~Close
  <2>1. UNCHANGED <<taken, file, peak, peaks>>
    BY <1>4 DEF Next, Audit, Live, ReadHalf, ReadLeftOut, Report, Write, Complete, book, progress, vars
  <2>2. pc' = pc \/ (pc = "open" /\ pc' = "crashed") \/ (pc = "closed" /\ pc' = "done")
    BY <1>4 DEF Next, Audit, Live, ReadHalf, ReadLeftOut, Report, Write, Complete, book, progress, vars
  <2>3. Ended' = Ended
    BY <2>1, <2>2 DEF Ended
  <2>4. \A f : In(f)' = In(f)
    BY <2>1 DEF In
  <2>5. In(file)' = In(file)
    BY <2>1, <2>4
  <2> QED BY <2>1, <2>3, <2>4, <2>5 DEF PeakInv, PeakIs
<1> QED BY <1>1, <1>2, <1>3, <1>4

LEMMA MadeStep == RInv /\ GroupInv /\ MadeInv /\ [Next]_vars => MadeInv'
<1> SUFFICES ASSUME RInv, GroupInv, MadeInv, [Next]_vars PROVE MadeInv'
  OBVIOUS
<1> USE FilesOfListing
<1>r. Reading /\ Behind
  BY DEF RInv
<1>1. CASE Open
  <2>1. file' = file + 1 /\ first' = TRUE /\ before' = 0 /\ UNCHANGED <<taken, groups>>
    BY <1>1 DEF Open, book
  <2>3. In(file)' = {}
    BY <1>r, <2>1 DEF In, Behind, Reading
  <2>4. \A t : MadeBy(t, groups[t.line.id])' <=> MadeBy(t, groups[t.line.id])
    BY <2>1 DEF MadeBy, Sooner, In
  <2>5. \A t : Starts(t)' <=> Starts(t)
    BY <2>1 DEF Starts, Of
  <2> QED BY <2>1, <2>3, <2>4, <2>5 DEF MadeInv
<1>2. CASE ReadTaken
  <2>a. PICK line : line = text[file][pos + 1]
    OBVIOUS
  <2>b. PICK new : new = [file |-> file, place |-> pos + 1, line |-> line]
    OBVIOUS
  <2>1. /\ pc = "open" /\ pos < Len(text[file]) /\ file' = file
        /\ groups' = Grouped(file, line) /\ first' = FALSE /\ before' = Usage(line).read
        /\ taken' = taken \cup {new}
    BY <1>2, <2>a, <2>b DEF ReadTaken
  <2>2. file \in Files /\ line \in Lines /\ pos \in Nat
    BY <1>r, <2>1, <2>a DEF Reading
  <2>3. new.file = file /\ new.place = pos + 1 /\ new.line = line /\ before' = line.u.read
    BY <2>1, <2>b DEF Usage
  <2>4. \A t \in taken : /\ t.place \in Nat /\ t.file \in Nat /\ t.file <= file
                         /\ t.file = file => t.place < pos + 1
    BY <1>r, <2>2 DEF Behind, Reading
  <2>5. In(file)' = In(file) \cup {new}
    BY <2>1, <2>3 DEF In
  <2>6. \A s \in In(file)' : (\A r \in In(file)' : r.place <= s.place) => before' = s.line.u.read
    <3> SUFFICES ASSUME NEW s \in In(file)', \A r \in In(file)' : r.place <= s.place
                 PROVE  before' = s.line.u.read
      OBVIOUS
    <3>1. s = new
      <4>1. new.place <= s.place
        BY <2>5
      <4> QED BY <2>2, <2>3, <2>4, <2>5, <4>1 DEF In
    <3> QED BY <2>3, <3>1
  <2>7. ASSUME NEW t \in taken, Starts(t)' PROVE MadeBy(t, groups[t.line.id])'
    <3>1. Starts(t)
      BY <2>1, <2>7 DEF Starts, Of
    <3>2. Sooner(t)' = Sooner(t)
      BY <2>1, <2>2, <2>3, <2>4 DEF Sooner, In
    <3>3. t.line.id \in DOMAIN groups
      BY DEF GroupInv
    <3> DEFINE k == t.line.id
    <3>4. groups'[k].opening = groups[k].opening /\ groups'[k].before = groups[k].before
      <4>1. CASE k # line.id
        BY <2>1, <3>3, <4>1 DEF Grouped
      <4>2. CASE k = line.id
        <5>1. groups'[k] = Merged(groups[k], line) /\ groups[k] \in Group
          BY <2>1, <3>3, <4>2 DEF Grouped, Known, GroupInv
        <5> QED BY <5>1 DEF Merged, Group
      <4> QED BY <4>1, <4>2
    <3>5. MadeBy(t, groups[k])
      BY <3>1 DEF MadeInv
    <3> QED BY <3>2, <3>4, <3>5 DEF MadeBy
  <2>8. ASSUME Starts(new)' PROVE MadeBy(new, groups[new.line.id])'
    <3> DEFINE k == line.id
    <3>1. \A s \in taken : s.line.id # k
      <4> SUFFICES ASSUME NEW s \in taken, s.line.id = k PROVE FALSE
        OBVIOUS
      <4>1. new.file < s.file \/ (new.file = s.file /\ new.place <= s.place)
        BY <2>1, <2>3, <2>8 DEF Starts, Of
      <4> QED BY <2>2, <2>3, <2>4, <4>1
    <3>2. groups'[k] = Opened(file, line)
      BY <2>1, <3>1 DEF Grouped, Known, GroupInv
    <3>3. groups'[k].opening = first /\ groups'[k].before = before
      BY <3>2 DEF Opened
    <3>4. Sooner(new)' = In(file)
      BY <2>1, <2>2, <2>3, <2>4 DEF Sooner, In
    <3> QED BY <2>3, <3>3, <3>4 DEF MadeBy, MadeInv
  <2>9. first' = FALSE /\ In(file)' # {}
    BY <2>1, <2>5
  <2>10. \A t \in taken' : Starts(t)' => MadeBy(t, groups[t.line.id])'
    BY <2>1, <2>7, <2>8
  <2> QED BY <2>6, <2>9, <2>10 DEF MadeInv
<1>3. CASE ~Open /\ ~ReadTaken
  <2>1. UNCHANGED <<taken, groups, file, first, before>>
    BY <1>3 DEF Next, Audit, Live, ReadHalf, ReadLeftOut, Close, Report,
                Write, Complete, book, progress, vars
  <2> QED BY <2>1 DEF MadeInv, MadeBy, Sooner, Starts, Of, In
<1> QED BY <1>1, <1>2, <1>3

(* Whatever was read before, the peak of a transcript is the largest        *)
(* context of its own counted lines, and a group is marked an opening, and  *)
(* compared, by the counted lines of the transcript that made it (main:     *)
(* first_seen, prev_cr and peak).                                           *)
THEOREM Afresh == Spec => []EachFileAfresh
<1>1. Init => GroupInv /\ PeakInv /\ MadeInv
  BY FS_EmptySet, FilesOfListing DEF Init, GroupInv, PeakInv, MadeInv, In, Ended
<1>2. RInv /\ GroupInv /\ PeakInv /\ MadeInv => EachFileAfresh
  <2> SUFFICES ASSUME RInv, GroupInv, PeakInv, MadeInv PROVE EachFileAfresh
    OBVIOUS
  <2> DEFINE Contexts(f) == {Context(Usage(t.line)) : t \in In(f)}
             Heavy == {g \in Ended : Role(g) = "subagent" /\ \E t \in In(g) : Context(Usage(t.line)) > 0}
  <2>1. ASSUME NEW f, NEW c, PeakIs(f, c) PROVE c = Max(Contexts(f))
    <3>1. Contexts(f) \in SUBSET Nat
      BY WeighedType DEF Weighed, In
    <3>2. c \in Contexts(f) /\ \A n \in Contexts(f) : n <= c
      BY <2>1 DEF PeakIs, Weighed
    <3> HIDE DEF Contexts
    <3> QED BY <3>1, <3>2, LargestIsMax
  <2>2. \A p \in peaks : /\ p = [file |-> p.file, context |-> Max(Contexts(p.file))]
                         /\ p.file \in Heavy
    <3> SUFFICES ASSUME NEW p \in peaks
                 PROVE  p = [file |-> p.file, context |-> Max(Contexts(p.file))] /\ p.file \in Heavy
      OBVIOUS
    <3>1. p.context = Max(Contexts(p.file))
      BY <2>1 DEF PeakInv
    <3>2. p = [file |-> p.file, context |-> p.context]
      BY DEF PeakInv, Rows
    <3>3. p.file \in Heavy
      BY DEF PeakInv, PeakIs, Weighed
    <3> HIDE DEF Contexts, Heavy
    <3> QED BY <3>1, <3>2, <3>3
  <2>3. \A f \in Heavy : \E p \in peaks : p.file = f
    BY DEF PeakInv, Weighed
  <2>4. peaks = {[file |-> f, context |-> Max(Contexts(f))] : f \in Heavy}
    <3> HIDE DEF Contexts, Heavy
    <3> QED BY <2>2, <2>3
  <2>5. ASSUME NEW t \in taken, Starts(t) PROVE MadeBy(t, groups[t.line.id])
    BY <2>5 DEF MadeInv
  <2> QED BY <2>4, <2>5 DEF EachFileAfresh, MadeBy, Sooner
<1> QED BY <1>1, <1>2, PeakStep, MadeStep, GroupStep, ReadingHolds, PTL DEF Spec

-----------------------------------------------------------------------------
(* Sums                                                                      *)

(* The sum of w over a finite set S, as the size of a heap: the x of S with *)
(* w[x] tokens each.  What holds of sums is then what holds of sizes.       *)
Heap(w, S) == UNION {{x} \X (1 .. w[x]) : x \in S}
Weight(w, S) == Cardinality(Heap(w, S))
Weighs(w, S) == IsFiniteSet(S) /\ \A x \in S : w[x] \in Nat

LEMMA Tokens ==
    ASSUME NEW x, NEW n \in Nat
    PROVE  IsFiniteSet({x} \X (1 .. n)) /\ Cardinality({x} \X (1 .. n)) = n
<1>1. IsFiniteSet({x}) /\ Cardinality({x}) = 1
  BY FS_Singleton
<1>2. IsFiniteSet(1 .. n) /\ Cardinality(1 .. n) = n
  BY FS_Interval
<1> DEFINE N == 1 .. n
<1> HIDE DEF N
<1>3. IsFiniteSet({x} \X N) /\ Cardinality({x} \X N) = Cardinality({x}) * Cardinality(N)
  BY <1>1, <1>2, FS_Product DEF N
<1>4. Cardinality({x}) * Cardinality(N) = n
  BY <1>1, <1>2 DEF N
<1> QED BY <1>3, <1>4 DEF N

LEMMA HeapFinite ==
    ASSUME NEW w, NEW S, Weighs(w, S)
    PROVE  IsFiniteSet(Heap(w, S)) /\ Weight(w, S) \in Nat
<1> DEFINE F == [x \in S |-> {x} \X (1 .. w[x])]
           P == {{x} \X (1 .. w[x]) : x \in S}
<1>1. F \in Surjection(S, P)
  BY DEF Surjection
<1>2. IsFiniteSet(P)
  <2> HIDE DEF F, P
  <2> QED BY <1>1, FS_Surjection DEF Weighs
<1>3. \A Q \in P : IsFiniteSet(Q)
  <2> SUFFICES ASSUME NEW x \in S PROVE IsFiniteSet({x} \X (1 .. w[x]))
    OBVIOUS
  <2>1. w[x] \in Nat
    BY DEF Weighs
  <2> QED BY <2>1, Tokens
<1>4. IsFiniteSet(UNION P)
  <2> HIDE DEF P
  <2> QED BY <1>2, <1>3, FS_UNION
<1> QED BY <1>4, FS_CardinalityType DEF Heap, Weight

LEMMA HeapIs ==
    ASSUME NEW w, NEW S
    PROVE  \A p : p \in Heap(w, S) <=> \E x \in S : \E i \in 1 .. w[x] : p = <<x, i>>
BY DEF Heap

LEMMA EmptyWeight == \A w : Weight(w, {}) = 0
BY FS_EmptySet DEF Heap, Weight

LEMMA WeightMore ==
    ASSUME NEW w, NEW S, NEW y, y \notin S, Weighs(w, S \cup {y})
    PROVE  Weight(w, S \cup {y}) = Weight(w, S) + w[y]
<1> DEFINE P == {y} \X (1 .. w[y])
<1>1. Weighs(w, S) /\ w[y] \in Nat
  BY FS_Subset DEF Weighs
<1>2. IsFiniteSet(Heap(w, S)) /\ Weight(w, S) \in Nat
  BY <1>1, HeapFinite
<1>3. IsFiniteSet(P) /\ Cardinality(P) = w[y]
  BY <1>1, Tokens
<1>4. Heap(w, S \cup {y}) = Heap(w, S) \cup P
  BY DEF Heap
<1>5. Heap(w, S) \cap P = {}
  BY DEF Heap
<1> HIDE DEF P
<1>6. Cardinality(Heap(w, S) \cup P) = Cardinality(Heap(w, S)) + Cardinality(P) - Cardinality(Heap(w, S) \cap P)
  BY <1>2, <1>3, FS_Union
<1>7. Cardinality(Heap(w, S) \cap P) = 0
  BY <1>5, FS_EmptySet
<1>8. Cardinality(Heap(w, S \cup {y})) = Cardinality(Heap(w, S)) + w[y]
  <2> DEFINE a == Cardinality(Heap(w, S))
             b == w[y]
  <2>1. a \in Nat /\ b \in Nat
    BY <1>1, <1>2 DEF Weight
  <2>2. Cardinality(Heap(w, S \cup {y})) = a + b - 0
    BY <1>3, <1>4, <1>6, <1>7
  <2> HIDE DEF a, b
  <2>3. a + b - 0 = a + b
    BY <2>1
  <2> QED BY <2>2, <2>3 DEF a, b
<1> QED BY <1>8 DEF Weight

LEMMA WeightSame ==
    ASSUME NEW v, NEW w, NEW S, \A x \in S : v[x] = w[x]
    PROVE  Weight(v, S) = Weight(w, S)
<1>1. Heap(v, S) = Heap(w, S)
  BY DEF Heap
<1> QED BY <1>1 DEF Weight

(* Pointwise larger numbers have a larger sum.                              *)
LEMMA WeightGrows ==
    ASSUME NEW v, NEW w, NEW S, Weighs(v, S), Weighs(w, S), \A x \in S : v[x] <= w[x]
    PROVE  Weight(v, S) <= Weight(w, S)
<1>1. Heap(v, S) \subseteq Heap(w, S)
  <2> SUFFICES ASSUME NEW x \in S, NEW i \in 1 .. v[x] PROVE <<x, i>> \in Heap(w, S)
    BY HeapIs
  <2>1. i \in 1 .. w[x]
    BY DEF Weighs
  <2> QED BY <2>1, HeapIs
<1> QED BY <1>1, HeapFinite, FS_Subset DEF Weight

(* A sum over keys is at most a sum over things each key has one of.        *)
LEMMA WeightInjects ==
    ASSUME NEW v, NEW S, Weighs(v, S), NEW w, NEW T, Weighs(w, T), NEW h \in Injection(S, T),
           \A x \in S : v[x] = w[h[x]]
    PROVE  Weight(v, S) <= Weight(w, T)
<1> DEFINE F == [p \in Heap(v, S) |-> <<h[p[1]], p[2]>>]
<1>1. \A x \in S : h[x] \in T
  BY DEF Injection
<1>2. \A x, y \in S : h[x] = h[y] => x = y
  BY DEF Injection, IsInjective
<1>3. \A p \in Heap(v, S) : p[1] \in S /\ p[2] \in 1 .. v[p[1]] /\ p = <<p[1], p[2]>>
  BY HeapIs
<1>4. \A p \in Heap(v, S) : F[p] \in Heap(w, T)
  BY <1>1, <1>3, HeapIs
<1>5. \A p, q \in Heap(v, S) : F[p] = F[q] => p = q
  <2> SUFFICES ASSUME NEW p \in Heap(v, S), NEW q \in Heap(v, S), F[p] = F[q] PROVE p = q
    OBVIOUS
  <2>1. h[p[1]] = h[q[1]] /\ p[2] = q[2]
    OBVIOUS
  <2> QED BY <1>2, <1>3, <2>1
<1>6. F \in Injection(Heap(v, S), Heap(w, T))
  BY <1>4, <1>5 DEF Injection, IsInjective
<1> HIDE DEF F
<1> QED BY <1>6, HeapFinite, FS_Injection DEF Weight

(* A sum may be taken part by part: S is divided by c into the parts of R.  *)
Having(S, c, r) == {x \in S : c[x] = r}
LEMMA WeightByParts ==
    ASSUME NEW w, NEW S, Weighs(w, S), NEW c, NEW R, IsFiniteSet(R), \A x \in S : c[x] \in R,
           NEW W, \A r \in R : W[r] = Weight(w, Having(S, c, r))
    PROVE  Weighs(W, R) /\ Weight(W, R) = Weight(w, S)
<1> USE DEF Having
<1> DEFINE P(r) == Having(S, c, r)
           H(r) == Heap(w, P(r))
<1>1. \A r \in R : IsFiniteSet(H(r)) /\ Cardinality(H(r)) = W[r] /\ W[r] \in Nat
  <2> SUFFICES ASSUME NEW r \in R
               PROVE  IsFiniteSet(H(r)) /\ Cardinality(H(r)) = W[r] /\ W[r] \in Nat
    OBVIOUS
  <2>1. Weighs(w, P(r))
    BY FS_Subset DEF Weighs
  <2> QED BY <2>1, HeapFinite DEF Weight
<1>2. Weighs(W, R)
  BY <1>1 DEF Weighs
<1>3. \A r \in R : \E b : b \in Bijection(1 .. W[r], H(r))
  <2> HIDE DEF H
  <2> QED BY <1>1, FS_CardinalityType DEF ExistsBijection
<1> DEFINE B == [r \in R |-> CHOOSE b : b \in Bijection(1 .. W[r], H(r))]
<1>4. \A r \in R : B[r] \in Bijection(1 .. W[r], H(r))
  <2> HIDE DEF H
  <2> QED BY <1>3
<1> HIDE DEF B
<1>5. \A x, i : <<x, i>> \in Heap(w, S) <=> (c[x] \in R /\ <<x, i>> \in H(c[x]))
  BY HeapIs
<1>6. \A p \in Heap(w, S) : p = <<p[1], p[2]>> /\ c[p[1]] \in R /\ p \in H(c[p[1]])
  <2>1. \A p \in Heap(w, S) : p = <<p[1], p[2]>> /\ p[1] \in S
    BY HeapIs
  <2> QED BY <1>5, <2>1
<1>7. \A r \in R : \A p \in H(r) : p \in Heap(w, S) /\ c[p[1]] = r
  BY HeapIs
<1>8. \A q \in Heap(W, R) : q = <<q[1], q[2]>> /\ q[1] \in R /\ q[2] \in 1 .. W[q[1]]
  BY HeapIs
<1> DEFINE F == [q \in Heap(W, R) |-> B[q[1]][q[2]]]
<1> HIDE DEF H
<1>9. \A q \in Heap(W, R) : F[q] \in Heap(w, S) /\ c[F[q][1]] = q[1]
  <2> SUFFICES ASSUME NEW q \in Heap(W, R) PROVE F[q] \in Heap(w, S) /\ c[F[q][1]] = q[1]
    OBVIOUS
  <2>1. F[q] \in H(q[1])
    BY <1>4, <1>8 DEF Bijection, Injection
  <2> QED BY <1>7, <1>8, <2>1
<1>10. \A p, q \in Heap(W, R) : F[p] = F[q] => p = q
  <2> SUFFICES ASSUME NEW p \in Heap(W, R), NEW q \in Heap(W, R), F[p] = F[q] PROVE p = q
    OBVIOUS
  <2>1. p[1] = q[1]
    BY <1>9
  <2>2. B[p[1]][p[2]] = B[p[1]][q[2]]
    BY <2>1
  <2>3. p[2] = q[2]
    <3> DEFINE r == p[1]
               b == B[r]
    <3>1. r \in R /\ p[2] \in 1 .. W[r] /\ q[2] \in 1 .. W[r]
      BY <1>8, <2>1
    <3>2. b \in Bijection(1 .. W[r], H(r)) /\ b[p[2]] = b[q[2]]
      BY <1>4, <2>2, <3>1
    <3> HIDE DEF r, b
    <3>3. b \in [1 .. W[r] -> H(r)] /\ IsInjective(b)
      BY <3>2 DEF Bijection, Injection
    <3> QED BY <3>1, <3>2, <3>3 DEF IsInjective
  <2> QED BY <1>8, <2>1, <2>3
<1>11. \A p \in Heap(w, S) : \E q \in Heap(W, R) : F[q] = p
  <2> SUFFICES ASSUME NEW p \in Heap(w, S) PROVE \E q \in Heap(W, R) : F[q] = p
    OBVIOUS
  <2>1. c[p[1]] \in R /\ p \in H(c[p[1]])
    BY <1>6
  <2>2. PICK i \in 1 .. W[c[p[1]]] : B[c[p[1]]][i] = p
    BY <1>4, <2>1 DEF Bijection, Surjection
  <2>3. <<c[p[1]], i>> \in Heap(W, R)
    BY <2>1, HeapIs
  <2> QED BY <2>2, <2>3
<1>12. F \in Bijection(Heap(W, R), Heap(w, S))
  BY <1>9, <1>10, <1>11 DEF Bijection, Injection, Surjection, IsInjective
<1>13. IsFiniteSet(Heap(W, R))
  BY <1>2, HeapFinite
<1> HIDE DEF F
<1>14. Cardinality(Heap(w, S)) = Cardinality(Heap(W, R))
  BY <1>12, <1>13, FS_Bijection DEF ExistsBijection
<1> QED BY <1>2, <1>14 DEF Weight

(* The recursion of MapThenSumSet, and its one solution.                    *)
One(s) == CHOOSE z \in s : TRUE
Adds(f, w, S) ==
    f = [s \in SUBSET S |-> IF s = {} THEN 0 ELSE w[One(s)] + f[s \ {One(s)}]]

LEMMA OneIsIn == \A s : s # {} => One(s) \in s
BY DEF One

LEMMA WeightOfOne ==
    ASSUME NEW w, NEW S, Weighs(w, S), NEW s \in SUBSET S, s # {}
    PROVE  Weight(w, s) = w[One(s)] + Weight(w, s \ {One(s)})
<1> DEFINE y == One(s)
           r == s \ {y}
<1>1. y \in s /\ y \notin r /\ s = r \cup {y}
  BY OneIsIn
<1>2. Weighs(w, s) /\ Weighs(w, r)
  BY FS_Subset DEF Weighs
<1>3. w[y] \in Nat /\ Weight(w, r) \in Nat
  BY <1>1, <1>2, HeapFinite DEF Weighs
<1> HIDE DEF y, r
<1>4. Weight(w, r \cup {y}) = Weight(w, r) + w[y]
  BY <1>1, <1>2, WeightMore
<1>5. Weight(w, r) + w[y] = w[y] + Weight(w, r)
  BY <1>3
<1> QED BY <1>1, <1>4, <1>5 DEF y, r

LEMMA WeightAdds ==
    ASSUME NEW w, NEW S, Weighs(w, S)
    PROVE  Adds([s \in SUBSET S |-> Weight(w, s)], w, S)
<1> DEFINE f == [s \in SUBSET S |-> Weight(w, s)]
<1>1. ASSUME NEW s \in SUBSET S
      PROVE  f[s] = IF s = {} THEN 0 ELSE w[One(s)] + f[s \ {One(s)}]
  <2>1. f[s] = Weight(w, s) /\ f[s \ {One(s)}] = Weight(w, s \ {One(s)})
    OBVIOUS
  <2> HIDE DEF f
  <2> QED BY <2>1, EmptyWeight, WeightOfOne
<1>2. f = [s \in SUBSET S |-> f[s]]
  OBVIOUS
<1> HIDE DEF f
<1>3. f = [s \in SUBSET S |-> IF s = {} THEN 0 ELSE w[One(s)] + f[s \ {One(s)}]]
  BY <1>1, <1>2
<1> QED BY <1>3 DEF Adds, f

LEMMA AddsIsWeight ==
    ASSUME NEW w, NEW S, Weighs(w, S), NEW f, Adds(f, w, S)
    PROVE  f[S] = Weight(w, S)
<1> DEFINE D == {s \in SUBSET S : f[s] # Weight(w, s)}
           Sizes == {Cardinality(s) : s \in D}
<1>1. \A s \in SUBSET S : f[s] = IF s = {} THEN 0 ELSE w[One(s)] + f[s \ {One(s)}]
  BY DEF Adds
<1>2. \A s \in SUBSET S : IsFiniteSet(s) /\ Cardinality(s) \in Nat
  BY FS_Subset, FS_CardinalityType DEF Weighs
<1> SUFFICES ASSUME D # {} PROVE FALSE
  OBVIOUS
<1>3. Sizes \in SUBSET Nat /\ Sizes # {}
  BY <1>2
<1>4. PICK m \in Sizes : \A n \in Sizes : m <= n
  <2> HIDE DEF Sizes
  <2> QED BY <1>3, LeastNumber
<1>5. PICK s \in SUBSET S : f[s] # Weight(w, s) /\ m = Cardinality(s)
  BY <1>4
<1>6. s # {}
  BY <1>1, <1>5, EmptyWeight
<1> DEFINE r == s \ {One(s)}
<1>7. r \in SUBSET S /\ Cardinality(r) = Cardinality(s) - 1
  BY <1>2, <1>6, OneIsIn, FS_RemoveElement
<1>8. Cardinality(s) \in Nat /\ ~(Cardinality(s) <= Cardinality(r))
  BY <1>2, <1>7
<1>9. f[r] = Weight(w, r)
  <2> HIDE DEF r
  <2>1. r \in D => Cardinality(r) \in Sizes
    OBVIOUS
  <2> HIDE DEF Sizes
  <2>2. r \notin D
    BY <1>4, <1>5, <1>8, <2>1
  <2> QED BY <1>7, <2>2
<1>10. f[s] = w[One(s)] + f[r]
  BY <1>1, <1>6
<1>11. Weight(w, s) = w[One(s)] + Weight(w, r)
  BY <1>6, WeightOfOne
<1> QED BY <1>5, <1>9, <1>10, <1>11

(* The totals of the report are sums.                                       *)
LEMMA TotalIsWeight ==
    ASSUME NEW rule, NEW x, NEW w, Weighs(w, DOMAIN groups),
           \A k \in DOMAIN groups : w[k] = groups[k][rule][x]
    PROVE  Total(rule, x) = Weight(w, DOMAIN groups)
<1> DEFINE S == DOMAIN groups
           F(f) == f = [s \in SUBSET S |-> IF s = {} THEN 0
                                           ELSE groups[One(s)][rule][x] + f[s \ {One(s)}]]
<1>1. Total(rule, x) = (CHOOSE f : F(f))[S]
  BY DEF Total, MapThenSumSet, MapThenFoldSet, One
<1>2. \A s \in SUBSET S : s # {} => groups[One(s)][rule][x] = w[One(s)]
  BY OneIsIn
<1>3. \A f : F(f) <=> Adds(f, w, S)
  BY <1>2 DEF Adds
<1> HIDE DEF F
<1>4. F(CHOOSE f : F(f))
  BY <1>3, WeightAdds
<1> QED BY <1>1, <1>3, <1>4, AddsIsWeight

LEMMA PartIsWeight ==
    ASSUME NEW by, NEW row, NEW x, NEW w,
           NEW S, S = {k \in DOMAIN groups : groups[k][by] = row}, Weighs(w, S),
           \A k \in S : w[k] = groups[k].most[x]
    PROVE  Part(by, row, x) = Weight(w, S)
<1> DEFINE F(f) == f = [s \in SUBSET S |-> IF s = {} THEN 0
                                           ELSE groups[One(s)].most[x] + f[s \ {One(s)}]]
<1>1. Part(by, row, x) = (CHOOSE f : F(f))[S]
  BY DEF Part, MapThenSumSet, MapThenFoldSet, One
<1>2. \A s \in SUBSET S : s # {} => groups[One(s)].most[x] = w[One(s)]
  BY OneIsIn
<1>3. \A f : F(f) <=> Adds(f, w, S)
  BY <1>2 DEF Adds
<1> HIDE DEF F
<1>4. F(CHOOSE f : F(f))
  BY <1>3, WeightAdds
<1> QED BY <1>1, <1>3, <1>4, AddsIsWeight

SumOfParts(by, x, R) == MapThenSumSet(LAMBDA r : Part(by, r, x), R)
LEMMA PartsAreWeight ==
    ASSUME NEW by, NEW x, NEW R, NEW w, Weighs(w, R), \A r \in R : w[r] = Part(by, r, x)
    PROVE  SumOfParts(by, x, R) = Weight(w, R)
<1> DEFINE F(f) == f = [s \in SUBSET R |-> IF s = {} THEN 0
                                           ELSE Part(by, One(s), x) + f[s \ {One(s)}]]
<1>1. SumOfParts(by, x, R) = (CHOOSE f : F(f))[R]
  BY DEF SumOfParts, MapThenSumSet, MapThenFoldSet, One
<1>2. \A s \in SUBSET R : s # {} => Part(by, One(s), x) = w[One(s)]
  BY OneIsIn
<1>3. \A f : F(f) <=> Adds(f, w, R)
  BY <1>2 DEF Adds
<1> HIDE DEF F
<1>4. F(CHOOSE f : F(f))
  BY <1>3, WeightAdds
<1> QED BY <1>1, <1>3, <1>4, AddsIsWeight

LEMMA RawIsWeight ==
    ASSUME NEW x, NEW w, Weighs(w, Locations), \A l \in Locations : w[l] = raw[l].usage[x]
    PROVE  MapThenSumSet(LAMBDA l : raw[l].usage[x], Locations) = Weight(w, Locations)
<1> DEFINE F(f) == f = [s \in SUBSET Locations |-> IF s = {} THEN 0
                                           ELSE raw[One(s)].usage[x] + f[s \ {One(s)}]]
<1>1. MapThenSumSet(LAMBDA l : raw[l].usage[x], Locations) = (CHOOSE f : F(f))[Locations]
  BY DEF MapThenSumSet, MapThenFoldSet, One
<1>2. \A s \in SUBSET Locations : s # {} => raw[One(s)].usage[x] = w[One(s)]
  BY OneIsIn
<1>3. \A f : F(f) <=> Adds(f, w, Locations)
  BY <1>2 DEF Adds
<1> HIDE DEF F
<1>4. F(CHOOSE f : F(f))
  BY <1>3, WeightAdds
<1> QED BY <1>1, <1>3, <1>4, AddsIsWeight

-----------------------------------------------------------------------------
(* The totals                                                                *)

(* A field of the lines counted; what the locations hold of it together.    *)
Column(S, x) == [t \in S |-> Usage(t.line)[x]]
RawSum(x) ==
    raw["top"].usage[x] + raw["sub_direct"].usage[x] + raw["sub_nested"].usage[x] + raw["fora"].usage[x]
SumInv ==
    /\ \A k \in DOMAIN groups : groups[k].last \in Seen(taken, k)
    /\ \A x \in Fields : RawSum(x) = Weight(Column(taken, x), taken)

LEMMA ColumnWeighs ==
    ASSUME GroupInv, NEW x \in Fields
    PROVE  Weighs(Column(taken, x), taken)
BY UsageNumbers DEF GroupInv, Weighs, Column

LEMMA SumStep == RInv /\ GroupInv /\ GroupInv' /\ RawInv /\ SumInv /\ [Next]_vars => SumInv'
<1> SUFFICES ASSUME RInv, GroupInv, GroupInv', RawInv, SumInv, [Next]_vars PROVE SumInv'
  OBVIOUS
<1>1. CASE ReadTaken
  <2> DEFINE line == text[file][pos + 1]
             new == [file |-> file, place |-> pos + 1, line |-> line]
             T == taken \cup {new}
             l == Location(file)
  <2>1. /\ pc = "open" /\ pos < Len(text[file])
        /\ groups' = Grouped(file, line) /\ taken' = T
        /\ raw' = [raw EXCEPT ![l] = Summed(@, Usage(line))]
    BY <1>1 DEF ReadTaken
  <2>2. file \in Files /\ pos + 1 \in 1 .. Len(text[file]) /\ line \in Lines
    BY <2>1, FilesOfListing DEF RInv, Reading
  <2>3. new \notin taken /\ new.line = line
    BY <2>2 DEF RInv, Behind, Reading
  <2>4. l \in Locations
    BY <2>2, LocationIsOne
  <2> HIDE DEF line, new, l
  <2>5. ASSUME NEW k \in DOMAIN groups' PROVE groups'[k].last \in Seen(taken', k)
    <3>1. \A j : Seen(taken, j) \subseteq Seen(taken', j)
      BY <2>1 DEF Seen, From
    <3>2. Usage(line) \in Seen(taken', line.id)
      BY <2>1, <2>3 DEF Seen, From
    <3>3. CASE k # line.id
      <4>1. k \in DOMAIN groups /\ groups'[k] = groups[k]
        BY <2>1, <2>5, <3>3 DEF Grouped
      <4> QED BY <3>1, <4>1 DEF SumInv
    <3>4. CASE k = line.id /\ Known(line)
      <4>1. groups'[k] = Merged(groups[k], line) /\ groups[k] \in Group
        BY <2>1, <2>5, <3>4 DEF Grouped, Known, GroupInv
      <4>2. groups'[k].last = Usage(line)
        BY <4>1 DEF Merged, Group
      <4> QED BY <3>2, <3>4, <4>2
    <3>5. CASE k = line.id /\ ~Known(line)
      <4>1. groups'[k] = Opened(file, line)
        BY <2>1, <2>5, <3>5 DEF Grouped
      <4> QED BY <3>2, <3>5, <4>1 DEF Opened
    <3> QED BY <3>3, <3>4, <3>5
  <2>6. ASSUME NEW x \in Fields PROVE RawSum(x)' = Weight(Column(taken', x), taken')
    <3> DEFINE u == Usage(line)
               w == Column(T, x)
    <3>1. u[x] \in Nat
      BY <2>2, UsageNumbers
    <3>2. Weighs(w, T)
      <4>1. Weighs(Column(taken', x), taken')
        BY ColumnWeighs, UsageNumbers DEF GroupInv, Weighs, Column
      <4> QED BY <2>1, <4>1
    <3>3. w[new] = u[x] /\ \A t \in taken : Column(taken, x)[t] = w[t]
      BY <2>3 DEF Column
    <3> HIDE DEF w, u
    <3>4. Weight(w, T) = Weight(w, taken) + u[x]
      BY <2>3, <3>2, <3>3, WeightMore
    <3>5. Weight(w, taken) = Weight(Column(taken, x), taken)
      BY <3>3, WeightSame
    <3>6. \A m \in Locations : raw'[m].usage[x] = raw[m].usage[x] + (IF m = l THEN u[x] ELSE 0)
                               /\ raw[m].usage[x] \in Nat
      <4> SUFFICES ASSUME NEW m \in Locations
                   PROVE  /\ raw'[m].usage[x] = raw[m].usage[x] + (IF m = l THEN u[x] ELSE 0)
                          /\ raw[m].usage[x] \in Nat
        OBVIOUS
      <4>1. raw \in [Locations -> Sums]
        BY DEF RawInv
      <4>2. raw[m].usage[x] \in Nat
        BY <4>1 DEF Sums
      <4>3. CASE m = l
        <5>1. raw'[m] = Summed(raw[m], Usage(line))
          BY <2>1, <4>1, <4>3
        <5>2. raw'[m].usage[x] = raw[m].usage[x] + Usage(line)[x]
          BY <5>1 DEF Summed
        <5> QED BY <4>2, <4>3, <5>2 DEF u
      <4>4. CASE m # l
        <5>1. raw'[m] = raw[m]
          BY <2>1, <4>1, <4>4
        <5> QED BY <4>2, <4>4, <5>1
      <4> QED BY <4>3, <4>4
    <3>7. RawSum(x)' = RawSum(x) + u[x]
      <4>1. Locations = {"top", "sub_direct", "sub_nested", "fora"}
        BY DEF Locations
      <4>2. l = "top" \/ l = "sub_direct" \/ l = "sub_nested" \/ l = "fora"
        BY <2>4, <4>1
      <4> DEFINE a == raw["top"].usage[x]
                 b == raw["sub_direct"].usage[x]
                 c == raw["sub_nested"].usage[x]
                 d == raw["fora"].usage[x]
      <4>3. a \in Nat /\ b \in Nat /\ c \in Nat /\ d \in Nat
        BY <3>6, <4>1
      <4>4. /\ raw'["top"].usage[x] = a + (IF l = "top" THEN u[x] ELSE 0)
            /\ raw'["sub_direct"].usage[x] = b + (IF l = "sub_direct" THEN u[x] ELSE 0)
            /\ raw'["sub_nested"].usage[x] = c + (IF l = "sub_nested" THEN u[x] ELSE 0)
            /\ raw'["fora"].usage[x] = d + (IF l = "fora" THEN u[x] ELSE 0)
        BY <3>6, <4>1
      <4>5. RawSum(x) = a + b + c + d
        BY DEF RawSum
      <4>6. RawSum(x)' = raw'["top"].usage[x] + raw'["sub_direct"].usage[x]
                         + raw'["sub_nested"].usage[x] + raw'["fora"].usage[x]
        BY DEF RawSum
      <4> HIDE DEF a, b, c, d
      <4> QED BY <3>1, <4>2, <4>3, <4>4, <4>5, <4>6
    <3>8. RawSum(x) = Weight(Column(taken, x), taken)
      BY DEF SumInv
    <3> QED BY <2>1, <3>4, <3>5, <3>7, <3>8 DEF w
  <2> QED BY <2>5, <2>6 DEF SumInv
<1>2. CASE ~ReadTaken
  <2>1. UNCHANGED <<taken, groups, raw>>
    BY <1>2 DEF Next, Audit, Live, Open, ReadHalf, ReadLeftOut, Close, Report,
                Write, Complete, book, progress, vars
  <2> QED BY <2>1 DEF SumInv, RawSum
<1> QED BY <1>1, <1>2

LEMMA LocationsWeigh ==
    ASSUME NEW w, \A l \in Locations : w[l] \in Nat
    PROVE  /\ Weighs(w, Locations)
           /\ Weight(w, Locations) = w["top"] + w["sub_direct"] + w["sub_nested"] + w["fora"]
<1> DEFINE A == {} \cup {"top"}
           B == A \cup {"sub_direct"}
           C == B \cup {"sub_nested"}
           D == C \cup {"fora"}
<1>1. Locations = D
  BY DEF Locations
<1>2. w["top"] \in Nat /\ w["sub_direct"] \in Nat /\ w["sub_nested"] \in Nat /\ w["fora"] \in Nat
  BY DEF Locations
<1>3. IsFiniteSet(A) /\ IsFiniteSet(B) /\ IsFiniteSet(C) /\ IsFiniteSet(D)
  BY FS_EmptySet, FS_AddElement
<1>4. Weighs(w, A) /\ Weighs(w, B) /\ Weighs(w, C) /\ Weighs(w, D)
  BY <1>2, <1>3 DEF Weighs
<1>5. Weight(w, A) = w["top"]
  <2> DEFINE N == {}
  <2>1. "top" \notin N /\ Weight(w, N) = 0
    BY EmptyWeight
  <2> HIDE DEF N
  <2>2. A = N \cup {"top"}
    BY DEF N
  <2>3. Weight(w, A) = Weight(w, N) + w["top"]
    BY <1>4, <2>1, <2>2, WeightMore
  <2> QED BY <1>2, <2>1, <2>3
<1>6. Weight(w, B) = Weight(w, A) + w["sub_direct"]
  <2>1. "sub_direct" \notin A
    OBVIOUS
  <2> HIDE DEF A
  <2> QED BY <1>4, <2>1, WeightMore
<1>7. Weight(w, C) = Weight(w, B) + w["sub_nested"]
  <2>1. "sub_nested" \notin B
    OBVIOUS
  <2> HIDE DEF B
  <2> QED BY <1>4, <2>1, WeightMore
<1>8. Weight(w, D) = Weight(w, C) + w["fora"]
  <2>1. "fora" \notin C
    OBVIOUS
  <2> HIDE DEF C
  <2> QED BY <1>4, <2>1, WeightMore
<1> HIDE DEF A, B, C, D
<1> QED BY <1>1, <1>2, <1>4, <1>5, <1>6, <1>7, <1>8

(* What is billed of the messages is at most what the locations hold: each  *)
(* message is billed one of its own lines.                                  *)
LEMMA MostBelowRaw ==
    ASSUME GroupInv, RawInv, SumInv, NEW x \in Fields, NEW w,
           \A k \in DOMAIN groups : w[k] = groups[k].most[x], Weighs(w, DOMAIN groups)
    PROVE  Weight(w, DOMAIN groups) <= MapThenSumSet(LAMBDA l : raw[l].usage[x], Locations)
<1> DEFINE S == DOMAIN groups
           u == Column(taken, x)
           Billed(k, t) == t.line.id = k /\ Usage(t.line)[x] = groups[k].most[x]
           h == [k \in S |-> CHOOSE t \in taken : Billed(k, t)]
           r == [l \in Locations |-> raw[l].usage[x]]
<1>1. \A k \in S : \E t \in taken : Billed(k, t)
  <2> SUFFICES ASSUME NEW k \in S PROVE \E t \in taken : Billed(k, t)
    OBVIOUS
  <2>1. PICK v \in Seen(taken, k) : v[x] = groups[k].most[x]
    BY DEF GroupInv, Sound
  <2> QED BY <2>1 DEF Seen, From
<1>2. \A k \in S : h[k] \in taken /\ Billed(k, h[k])
  <2> HIDE DEF Billed
  <2> QED BY <1>1
<1> HIDE DEF h
<1>3. h \in Injection(S, taken)
  <2>1. h \in [S -> taken]
    BY <1>2 DEF h
  <2>2. \A j, k \in S : h[j] = h[k] => j = k
    BY <1>2
  <2> QED BY <2>1, <2>2 DEF Injection, IsInjective
<1>4. \A k \in S : w[k] = u[h[k]]
  BY <1>2 DEF Column
<1>5. Weighs(u, taken)
  BY ColumnWeighs
<1>6. Weight(w, S) <= Weight(u, taken)
  <2> HIDE DEF u, S
  <2> QED BY <1>3, <1>4, <1>5, WeightInjects DEF S
<1>7. \A l \in Locations : r[l] = raw[l].usage[x] /\ r[l] \in Nat
  BY DEF RawInv, Sums
<1> HIDE DEF r
<1>8. Weighs(r, Locations) /\ Weight(r, Locations) = RawSum(x)
  <2>1. r["top"] + r["sub_direct"] + r["sub_nested"] + r["fora"] = RawSum(x)
    BY <1>7 DEF RawSum, Locations
  <2> QED BY <1>7, <2>1, LocationsWeigh
<1>9. MapThenSumSet(LAMBDA l : raw[l].usage[x], Locations) = Weight(r, Locations)
  BY <1>7, <1>8, RawIsWeight
<1> QED BY <1>6, <1>8, <1>9 DEF SumInv

(* A table of the report adds up to the total, whatever divides it.         *)
LEMMA TableAddsUp ==
    ASSUME GroupInv, NEW x \in Fields, NEW w,
           \A k \in DOMAIN groups : w[k] = groups[k].most[x], Weighs(w, DOMAIN groups),
           NEW by, NEW R, IsFiniteSet(R), \A k \in DOMAIN groups : groups[k][by] \in R
    PROVE  SumOfParts(by, x, R) = Weight(w, DOMAIN groups)
<1> DEFINE S == DOMAIN groups
           c == [k \in S |-> groups[k][by]]
           W == [r \in R |-> Part(by, r, x)]
<1>1. \A r \in R : W[r] = Weight(w, Having(S, c, r))
  <2> SUFFICES ASSUME NEW r \in R PROVE Part(by, r, x) = Weight(w, Having(S, c, r))
    OBVIOUS
  <2>1. Having(S, c, r) = {k \in DOMAIN groups : groups[k][by] = r}
    BY DEF Having
  <2>2. Weighs(w, Having(S, c, r)) /\ \A k \in Having(S, c, r) : w[k] = groups[k].most[x]
    BY FS_Subset DEF Weighs, Having
  <2> QED BY <2>1, <2>2, PartIsWeight
<1>2. \A k \in S : c[k] \in R
  OBVIOUS
<1>3. Weighs(W, R) /\ Weight(W, R) = Weight(w, S)
  <2> HIDE DEF W, c, S
  <2> QED BY <1>1, <1>2, WeightByParts DEF S
<1>4. \A r \in R : W[r] = Part(by, r, x)
  OBVIOUS
<1> HIDE DEF W
<1> QED BY <1>3, <1>4, PartsAreWeight

(* The rules of deduplication bound each other and the raw sums bound them  *)
(* all; the tables by role, by model and by message add up to the same      *)
(* (main, the totals).                                                      *)
THEOREM TotalsAgree == Spec => []TotalsReconcile
<1>1. Init => GroupInv /\ RawInv /\ SumInv
  <2> SUFFICES ASSUME Init PROVE GroupInv /\ RawInv /\ SumInv
    OBVIOUS
  <2>1. GroupInv
    BY FS_EmptySet DEF Init, GroupInv
  <2>2. RawInv
    BY DEF Init, RawInv, Sums, Locations
  <2>3. \A x \in Fields : RawSum(x) = 0
    BY DEF Init, RawSum, Locations
  <2>4. taken = {} /\ DOMAIN groups = {}
    BY DEF Init
  <2> QED BY <2>1, <2>2, <2>3, <2>4, EmptyWeight DEF SumInv
<1>2. GroupInv /\ RawInv /\ SumInv => TotalsReconcile
  <2> SUFFICES ASSUME GroupInv, RawInv, SumInv, NEW x \in Fields
               PROVE  LET most == Total("most", x) IN
                      /\ Total("first", x) <= most /\ Total("last", x) <= most
                      /\ most <= MapThenSumSet(LAMBDA l : raw[l].usage[x], Locations)
                      /\ most = MapThenSumSet(LAMBDA r : Part("role", r, x), Roles)
                      /\ most = MapThenSumSet(LAMBDA m : Part("model", m, x),
                                              {groups[k].model : k \in DOMAIN groups})
    BY DEF TotalsReconcile
  <2> DEFINE S == DOMAIN groups
             w(rule) == [k \in S |-> groups[k][rule][x]]
             M == {groups[k].model : k \in S}
  <2>1. IsFiniteSet(S) /\ IsFiniteSet(M)
    <3> DEFINE id == [t \in taken |-> t.line.id]
               model == [k \in S |-> groups[k].model]
    <3>1. id \in Surjection(taken, S) /\ IsFiniteSet(taken)
      BY DEF Surjection, GroupInv
    <3>2. model \in Surjection(S, M)
      BY DEF Surjection
    <3> HIDE DEF id, model, S, M
    <3> QED BY <3>1, <3>2, FS_Surjection
  <2>2. \A k \in S : /\ groups[k] \in Group /\ Sound(taken, k, groups[k])
                     /\ groups[k].last \in Seen(taken, k)
    BY DEF GroupInv, SumInv
  <2>3. Weighs(w("most"), S) /\ Weighs(w("first"), S) /\ Weighs(w("last"), S)
    <3>1. \A k \in S : groups[k].most[x] \in Nat /\ groups[k].first[x] \in Nat /\ groups[k].last[x] \in Nat
      BY <2>2 DEF Group, Numbers, Fields
    <3> QED BY <2>1, <3>1 DEF Weighs
  <2>4. \A k \in S : w("first")[k] <= w("most")[k] /\ w("last")[k] <= w("most")[k]
    BY <2>2 DEF Sound
  <2>5. /\ Total("most", x) = Weight(w("most"), S)
        /\ Total("first", x) = Weight(w("first"), S)
        /\ Total("last", x) = Weight(w("last"), S)
    <3>1. \A rule : \A k \in S : w(rule)[k] = groups[k][rule][x]
      OBVIOUS
    <3> HIDE DEF w
    <3> QED BY <2>3, <3>1, TotalIsWeight
  <2>6. \A k \in S : w("most")[k] = groups[k].most[x]
    OBVIOUS
  <2>7. \A k \in S : groups[k]["role"] \in Roles /\ groups[k]["model"] \in M
    BY <2>2 DEF Group
  <2>8. IsFiniteSet(Roles)
    <3>1. Roles = ({"assento"} \cup {"subagent"}) \cup {"fora"}
      BY DEF Roles
    <3>2. IsFiniteSet({"assento"} \cup {"subagent"})
      BY FS_Singleton, FS_AddElement
    <3> QED BY <3>1, <3>2, FS_AddElement
  <2> HIDE DEF w, M
  <2>9. Weight(w("first"), S) <= Weight(w("most"), S) /\ Weight(w("last"), S) <= Weight(w("most"), S)
    BY <2>3, <2>4, WeightGrows
  <2>10. Weight(w("most"), S) <= MapThenSumSet(LAMBDA l : raw[l].usage[x], Locations)
    BY <2>3, <2>6, MostBelowRaw
  <2>11. SumOfParts("role", x, Roles) = Weight(w("most"), S)
    BY <2>3, <2>6, <2>7, <2>8, TableAddsUp
  <2>12. SumOfParts("model", x, M) = Weight(w("most"), S)
    BY <2>1, <2>3, <2>6, <2>7, TableAddsUp
  <2>13. MapThenSumSet(LAMBDA r : Part("role", r, x), Roles) = Weight(w("most"), S)
    BY <2>11 DEF SumOfParts
  <2>14. MapThenSumSet(LAMBDA m : Part("model", m, x), M) = Weight(w("most"), S)
    BY <2>12 DEF SumOfParts
  <2> QED BY <2>5, <2>9, <2>10, <2>13, <2>14 DEF M
<1> QED BY <1>1, <1>2, SumStep, GroupStep, RawStep, ReadingHolds, PTL DEF Spec
=============================================================================
