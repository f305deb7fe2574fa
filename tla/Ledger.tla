------------------------------- MODULE Ledger -------------------------------
(***************************************************************************)
(* The audit of the token ledger                                            *)
(* (docs/research/s354-token-consumption-study/tools/audit_collector.py):   *)
(* it lists the transcripts, reads them one after the other, line by line,  *)
(* while live sessions may still append, groups the usage lines by message, *)
(* and reports totals, first prefixes, peaks and big cache writes.          *)
(***************************************************************************)
EXTENDS Integers, Sequences, FiniteSets, FiniteSetsExt

CONSTANTS
    Transcripts,   \* the listed files, in the order of the listing: records (see Location)
    Texts,         \* the texts each transcript may hold when it is listed, by its index
    Appendable,    \* the lines a live session may append
    Lo, Hi,        \* the window, both ends inclusive
    BigWrite,      \* --big-write
    MaxAppends     \* bound: lines appended during the audit

ASSUME NumbersAssumption == Lo \in Int /\ Hi \in Int /\ BigWrite \in Nat /\ MaxAppends \in Nat

(* A transcript: depth is the number of parts of its relative path, sub the *)
(* place of the part "subagents" (0: none), agent whether its name starts   *)
(* with "agent-".  A line: the shape of its message, whether it is a side   *)
(* chain, its time (-1: none that parses), its message, model and usage.    *)
VARIABLES
    text,      \* the lines of each transcript
    torn,      \* the transcripts whose last line is half written
    appends,   \* lines appended so far
    pc,        \* "closed" (between two files), "open", "crashed", "done"
    file,      \* the transcript being read, an index
    pos,       \* lines of it read
    first,     \* first_seen: no line of it has been counted
    before,    \* prev_cr: the cache read of its last counted line
    peak,      \* its largest context so far
    groups,    \* the groups, by key
    counters,  \* the counters of the lines left out
    raw,       \* raw_loc: what each location counted, not deduplicated
    prefixes,  \* initial_prefix: [file, context]
    peaks,     \* peak_context: [file, context]
    taken      \* history: the lines counted, with their file and place

vars == <<text, torn, appends, pc, file, pos, first, before, peak, groups, counters, raw,
          prefixes, peaks, taken>>

Fields == {"input", "output", "read", "five", "hour"}
Locations == {"top", "sub_direct", "sub_nested", "fora"}
Roles == {"assento", "subagent", "fora"}
Fates == {"seen", "missing_keys", "sidechain", "no_timestamp", "out_of_window"}
Files == DOMAIN Transcripts

(* Numbers of a usage line are counts of tokens. *)
Listed == UNION {{t[n] : n \in DOMAIN t} : t \in UNION {Texts[f] : f \in Files}}
Lines == Listed \cup Appendable
ASSUME TextsAssumption ==
    /\ Len(Transcripts) \in Nat /\ Files = 1 .. Len(Transcripts)
    /\ \A f \in Files : Texts[f] \subseteq Seq(Lines)
    /\ \A line \in Lines : \A x \in {"input", "output", "read", "total", "five", "hour"} : line.u[x] \in Nat

(* classify *)
Location(f) ==
    LET t == Transcripts[f] IN
    CASE t.depth = 1 -> "top"
      [] t.depth > 1 /\ t.sub # 0 /\ t.agent ->
            IF t.depth = 3 /\ t.sub = 2 THEN "sub_direct" ELSE "sub_nested"
      [] OTHER -> "fora"
Role(f) == CASE Location(f) = "top" -> "assento"
             [] Location(f) = "fora" -> "fora"
             [] OTHER -> "subagent"

-----------------------------------------------------------------------------
(* One line                                                                  *)

Smaller(a, b) == IF a < b THEN a ELSE b
Larger(a, b) == IF a > b THEN a ELSE b

(* usage_tuple: the hour share never exceeds the total, nor the five minute *)
(* share the rest, to which the unexplained remainder goes.                 *)
HourShare(u) == Smaller(u.hour, u.total)
FiveShare(u) ==
    LET rest == u.total - HourShare(u)
        five == Smaller(u.five, rest) IN
    five + (rest - five)
Usage(line) ==
    [input |-> line.u.input, output |-> line.u.output, read |-> line.u.read,
     five |-> FiveShare(line.u), hour |-> HourShare(line.u)]

Context(u) == u.input + u.read + u.five + u.hour
Written(u) == u.five + u.hour

InWindow(line) == Lo <= line.at /\ line.at <= Hi

(* accept, which a file outside the known places does not go through, then  *)
(* the time: what becomes of a line.  An "unusable" line leaves no trace.   *)
Fate(f, line) ==
    IF line.shape = "text" /\ Role(f) = "fora" THEN "raises"
    ELSE IF line.shape \in {"text", "none"} THEN "unusable"
    ELSE IF line.shape = "keyless" /\ Role(f) # "fora" THEN "missing_keys"
    ELSE IF line.side /\ Role(f) = "assento" THEN "sidechain"
    ELSE IF line.at = -1 THEN "no_timestamp"
    ELSE IF ~InWindow(line) THEN "out_of_window"
    ELSE IF Role(f) = "fora" THEN "gap" ELSE "taken"

(* Group: the first line of a key makes it, the others are merged into it.  *)
Opened(f, line) ==
    LET u == Usage(line) IN
    [first |-> u, last |-> u, most |-> u, terminal |-> u, n |-> 1, differs |-> FALSE,
     model |-> line.model, role |-> Role(f), opening |-> first, before |-> before]
MergedByLast(g, line) ==
    LET u == Usage(line) IN
    [g EXCEPT !.n = @ + 1, !.last = u, !.most = u, !.terminal = u, !.model = line.model,
              !.differs = @ \/ u # g.first]
Merged(g, line) ==
    LET u == Usage(line)
        ends == u.output > g.terminal.output IN
    [g EXCEPT !.n = @ + 1,
              !.last = u,
              !.terminal = IF ends THEN u ELSE @,
              !.model = IF ends THEN line.model ELSE @,
              !.most = [x \in Fields |-> Larger(g.most[x], u[x])],
              !.differs = IF u # g.first THEN TRUE ELSE @]
Known(line) == line.id \in DOMAIN groups
Grouped(f, line) ==
    [k \in DOMAIN groups \cup {line.id} |->
        CASE k # line.id -> groups[k]
          [] k = line.id /\ Known(line) -> Merged(groups[k], line)
          [] OTHER -> Opened(f, line)]

-----------------------------------------------------------------------------
(* The audit                                                                 *)

Init ==
    /\ text \in {t \in [Files -> UNION {Texts[f] : f \in Files}] : \A f \in Files : t[f] \in Texts[f]}
    /\ torn = {} /\ appends = 0
    /\ pc = "closed" /\ file = 0 /\ pos = 0
    /\ first = TRUE /\ before = 0 /\ peak = 0
    /\ groups = << >>
    /\ counters = [c \in Fates |-> 0]
    /\ raw = [l \in Locations |-> [records |-> 0, usage |-> [x \in Fields |-> 0]]]
    /\ prefixes = {} /\ peaks = {} /\ taken = {}

harness == <<text, torn, appends>>
book == <<groups, raw, prefixes, taken>>
progress == <<first, before, peak>>

OpenHighUp ==
    /\ pc = "closed" /\ file < Len(Transcripts)
    /\ file' = file + 1
    /\ pos' = 0 /\ first' = TRUE /\ before' = 0
    /\ pc' = "open"
    /\ UNCHANGED <<harness, book, counters, peaks, peak>>
(* The next transcript is opened: nothing is carried over from the last.    *)
Open ==
    /\ pc = "closed" /\ file < Len(Transcripts)
    /\ file' = file + 1
    /\ pos' = 0 /\ first' = TRUE /\ before' = 0 /\ peak' = 0
    /\ pc' = "open"
    /\ UNCHANGED <<harness, book, counters, peaks>>

(* A half written line does not parse; its rest, read later, neither.       *)
HalfAtTheEnd(f, n) == n = Len(text[f])
Half(f, n) == f \in torn /\ n = Len(text[f])
ReadHalfWaits ==
    /\ pc = "open" /\ pos < Len(text[file]) /\ Half(file, pos + 1)
    /\ UNCHANGED vars
ReadHalf ==
    /\ pc = "open" /\ pos < Len(text[file]) /\ Half(file, pos + 1)
    /\ pos' = pos + 1
    /\ UNCHANGED <<harness, book, progress, counters, peaks, pc, file>>

Left(fate) == [c \in Fates |-> counters[c] + IF c \in {"seen", fate} THEN 1 ELSE 0]
ReadLeftOut ==
    /\ pc = "open" /\ pos < Len(text[file]) /\ ~Half(file, pos + 1)
    /\ LET fate == Fate(file, text[file][pos + 1]) IN
       /\ fate # "taken"
       /\ counters' = Left(fate)
       /\ pc' = IF fate = "raises" THEN "crashed" ELSE pc
    /\ pos' = pos + 1
    /\ UNCHANGED <<harness, book, progress, peaks, file>>

(* A new group made by the first counted line of a subagent's transcript    *)
(* gives that transcript's prefix.                                          *)
PrefixOfAnyNew(f, line) ==
    IF ~Known(line) /\ Role(f) = "subagent"
    THEN {[file |-> f, context |-> Context(Usage(line))]} ELSE {}
Prefix(f, line) ==
    IF ~Known(line) /\ Role(f) = "subagent" /\ first
    THEN {[file |-> f, context |-> Context(Usage(line))]} ELSE {}
SummedOver(r, u) == [records |-> r.records + 1, usage |-> u]
Summed(r, u) == [records |-> r.records + 1, usage |-> [x \in Fields |-> r.usage[x] + u[x]]]
ReadTaken ==
    /\ pc = "open" /\ pos < Len(text[file]) /\ ~Half(file, pos + 1)
    /\ LET line == text[file][pos + 1]
           u == Usage(line) IN
       /\ Fate(file, line) = "taken"
       /\ raw' = [raw EXCEPT ![Location(file)] = Summed(@, u)]
       /\ groups' = Grouped(file, line)
       /\ prefixes' = prefixes \cup Prefix(file, line)
       /\ first' = FALSE /\ before' = u.read
       /\ peak' = Larger(peak, Context(u))
       /\ taken' = taken \cup {[file |-> file, place |-> pos + 1, line |-> line]}
    /\ counters' = Left("taken")
    /\ pos' = pos + 1
    /\ UNCHANGED <<harness, peaks, pc, file>>

(* The end of a file is where the reader finds no further line.             *)
Close ==
    /\ pc = "open" /\ pos >= Len(text[file])
    /\ peaks' = IF Role(file) = "subagent" /\ peak > 0
                THEN peaks \cup {[file |-> file, context |-> peak]} ELSE peaks
    /\ pc' = "closed"
    /\ UNCHANGED <<harness, book, progress, counters, file, pos>>

Report ==
    /\ pc = "closed" /\ file = Len(Transcripts)
    /\ pc' = "done"
    /\ UNCHANGED <<harness, book, progress, counters, peaks, file, pos>>

(* A live session writes a line in two parts, or all of it at once.         *)
Write(f, line, half) ==
    /\ f \notin torn /\ appends < MaxAppends
    /\ text' = [text EXCEPT ![f] = Append(@, line)]
    /\ torn' = IF half THEN torn \cup {f} ELSE torn
    /\ appends' = appends + 1
    /\ UNCHANGED <<book, progress, counters, peaks, pc, file, pos>>
Complete(f) ==
    /\ f \in torn /\ torn' = torn \ {f}
    /\ UNCHANGED <<text, appends, book, progress, counters, peaks, pc, file, pos>>
Live == \E f \in Files : Complete(f) \/ \E line \in Appendable, half \in BOOLEAN : Write(f, line, half)

Audit == Open \/ ReadHalf \/ ReadLeftOut \/ ReadTaken \/ Close \/ Report
Next == Audit \/ Live
Spec == Init /\ [][Next]_vars /\ WF_vars(Audit)

-----------------------------------------------------------------------------
(* The report                                                                *)

(* The rules of deduplication: of each group the "first" line, the "last"   *)
(* or field by field the "most".                                            *)
Total(rule, x) == MapThenSumSet(LAMBDA k : groups[k][rule][x], DOMAIN groups)

(* The rows of the tables by "role" and by "model".                         *)
Part(by, row, x) ==
    MapThenSumSet(LAMBDA k : groups[k].most[x], {k \in DOMAIN groups : groups[k][by] = row})

(* A big write: the opening prefix, a lost prefix (the cache read fell      *)
(* below a fifth of the line's before it), or new content.                  *)
Kind(g) ==
    CASE Written(g.most) <= BigWrite -> "small"
      [] Written(g.most) > BigWrite /\ g.opening -> "initial"
      [] Written(g.most) > BigWrite /\ ~g.opening ->
            IF g.before > 0 /\ 5 * g.most.read < g.before THEN "rewrite" ELSE "growth"

(* percentile: the value at the rounded place of the sorted list, a half    *)
(* rounded to the even place.                                               *)
Place(num, den, n) ==
    LET q == (num * (n - 1)) \div den
        r == 2 * ((num * (n - 1)) % den) IN
    CASE r < den -> q
      [] r > den -> q + 1
      [] OTHER -> IF q % 2 = 0 THEN q ELSE q + 1
AtPlace(S, n) ==
    CHOOSE v \in {s.context : s \in S} :
        /\ Cardinality({s \in S : s.context < v}) <= n
        /\ Cardinality({s \in S : s.context <= v}) > n
Percentile(num, den, S) ==
    IF S = {} THEN 0 ELSE AtPlace(S, Smaller(Cardinality(S) - 1, Place(num, den, Cardinality(S))))

-----------------------------------------------------------------------------
(* Properties                                                                *)

TypeOK ==
    /\ torn \subseteq Files /\ appends \in 0 .. MaxAppends
    /\ pc \in {"closed", "open", "crashed", "done"}
    /\ file \in 0 .. Len(Transcripts) /\ pos \in Nat
    /\ first \in BOOLEAN /\ before \in Nat /\ peak \in Nat
    /\ \A k \in DOMAIN groups :
          /\ groups[k].n \in Nat \ {0} /\ groups[k].role \in Roles \ {"fora"}
          /\ \A rule \in {"first", "last", "most", "terminal"}, x \in Fields : groups[k][rule][x] \in Nat
    /\ counters \in [Fates -> Nat]
    /\ \A l \in Locations : raw[l].records \in Nat

(* What was taken of one message.                                           *)
Of(k) == {t \in taken : t.line.id = k}
Readings(k) == {Usage(t.line) : t \in Of(k)}

(* Whatever the order of the files and of the lines, the group of a message *)
(* holds for every field the largest value any counted line of that message *)
(* had, every such line counts once, and the model it is billed to is that  *)
(* of a line with the largest output (Group.add).                           *)
DedupIsOrderFree ==
    /\ DOMAIN groups = {t.line.id : t \in taken}
    /\ \A k \in DOMAIN groups :
          /\ groups[k].n = Cardinality(Of(k))
          /\ (groups[k].differs <=> \E u, v \in Readings(k) : u # v)
          /\ \A x \in Fields : groups[k].most[x] = Max({u[x] : u \in Readings(k)})
          /\ \E t \in Of(k) : /\ t.line.model = groups[k].model
                              /\ \A s \in Of(k) : s.line.u.output <= t.line.u.output

(* The rules of deduplication bound each other, field by field: first and   *)
(* last never exceed the largest, which never exceeds the raw sums of all   *)
(* the locations; the three tables of the report (by role, by model, by     *)
(* message) add up to the same (main, the totals).                          *)
TotalsReconcile ==
    \A x \in Fields :
        LET most == Total("most", x) IN
        /\ Total("first", x) <= most /\ Total("last", x) <= most
        /\ most <= MapThenSumSet(LAMBDA l : raw[l].usage[x], Locations)
        /\ most = MapThenSumSet(LAMBDA r : Part("role", r, x), Roles)
        /\ most = MapThenSumSet(LAMBDA m : Part("model", m, x), {groups[k].model : k \in DOMAIN groups})

(* A side chain a session repeats in its own transcript is counted where    *)
(* the agent wrote it, never twice: nothing counted is a side chain of a    *)
(* top transcript, lies outside the window or in a file of no known place   *)
(* (accept and the window, before any grouping).                            *)
OnlyTheWindow ==
    /\ raw["fora"].records = 0
    /\ \A t \in taken : /\ Lo <= t.line.at /\ t.line.at <= Hi
                        /\ Transcripts[t.file].depth > 1
                           \/ ~t.line.side

(* A transcript has at most one opening, in the table of the prefixes and   *)
(* among the groups, and once it has ended its peak is at least its prefix, *)
(* so that the two distributions of the report can be compared; a rewrite   *)
(* is never an opening: in the same transcript a larger cache read came     *)
(* before it (initial_prefix, peak_context, the kinds of big writes).       *)
OpeningsAndPeaks ==
    /\ \A p, q \in prefixes : p.file = q.file => p = q
    /\ \A p \in prefixes :
          /\ Role(p.file) = "subagent"
          /\ (p.file < file \/ pc \in {"closed", "done"}) /\ p.context > 0 =>
                \E s \in peaks : s.file = p.file /\ p.context <= s.context
    /\ Percentile(1, 2, prefixes) <= Percentile(9, 10, prefixes)
    /\ Percentile(9, 10, peaks) <= Max({0} \cup {s.context : s \in peaks})
    /\ Cardinality({k \in DOMAIN groups : groups[k].opening}) <= Cardinality({t.file : t \in taken})
    /\ \A k \in DOMAIN groups : Kind(groups[k]) = "rewrite" =>
          \E s, t \in taken : /\ t.line.id = k /\ s.file = t.file /\ s.place < t.place
                              /\ s.line.u.read > 5 * t.line.u.read

(* A transcript is judged by its own counted lines, whatever was read       *)
(* before it: its peak is the largest context of them; a message opens it   *)
(* just if none of them is earlier, and is compared with the cache read of  *)
(* the last earlier one (first_seen, prev_cr and peak, begun anew).         *)
In(f) == {t \in taken : t.file = f}
Ended == {f \in Files : f < file \/ (f = file /\ pc \in {"closed", "done"})}
Starts(t) == \A s \in Of(t.line.id) : t.file < s.file \/ (t.file = s.file /\ t.place <= s.place)
EachFileAfresh ==
    /\ peaks = {[file |-> f, context |-> Max({Context(Usage(t.line)) : t \in In(f)})] :
                    f \in {g \in Ended : Role(g) = "subagent" /\ \E t \in In(g) : Context(Usage(t.line)) > 0}}
    /\ \A t \in taken : Starts(t) =>
          LET earlier == {s \in In(t.file) : s.place < t.place}
              g == groups[t.line.id] IN
          /\ g.opening <=> earlier = {}
          /\ earlier = {} => g.before = 0
          /\ \A s \in earlier : (\A r \in earlier : r.place <= s.place) => g.before = s.line.u.read

(* Nothing is missed and nothing counted twice: what was counted is in the  *)
(* transcripts and acceptable; and when no session wrote during the audit,  *)
(* the report rests on every acceptable line of every listed transcript.    *)
Acceptable ==
    UNION {{[file |-> f, place |-> n, line |-> text[f][n]] :
                n \in {m \in DOMAIN text[f] : Fate(f, text[f][m]) = "taken"}} : f \in Files}
EveryLineOnce ==
    /\ taken \subseteq Acceptable
    /\ pc = "done" /\ appends = 0 => taken = Acceptable

(* The audit ends, with a report or at the line it cannot read: live        *)
(* sessions append finitely often while it runs.                            *)
AuditEnds == <>(pc \in {"done", "crashed"})
=============================================================================
