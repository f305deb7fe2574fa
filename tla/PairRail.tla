------------------------------ MODULE PairRail ------------------------------
(***************************************************************************)
(* The release gate on a pair-rail verdict                                  *)
(* (.github/scripts/validate-pair-rail-verdict.py, called by step 15 of     *)
(* .github/workflows/release.yml).  A reviewer writes a verdict against a   *)
(* commit; the Owner commits the file, goes on committing work, moves the   *)
(* pins, lets time pass, and pushes a tag.  Step 15 reads the file and      *)
(* exits 0, 1, 2 or 3; the next step binds the parent and the delta again.  *)
(*                                                                         *)
(* A text is the file: whether it decodes, whether its single yaml block is *)
(* accepted, and the lines of the block.  A value is a word or a number.    *)
(***************************************************************************)
EXTENDS Integers, Sequences, FiniteSets

CONSTANTS
    Tag,           \* the tag released
    MaxAge,        \* --max-age-hours
    CodexFloor,    \* cli_currency.CODEX_VERSION_FLOOR
    Trees,         \* what a commit may hold besides the verdict file
    First,         \* ... and what the first one does
    Tools,         \* tool_versions a reviewer may have run with
    MaxCommits,    \* bound: commits
    MaxClock,      \* bound: the clock stops here
    MaxSlips       \* bound: slips of the author

ASSUME NumbersAssumption == MaxAge \in Nat /\ CodexFloor \in Nat \ {0}
ASSUME BoundsAssumption == MaxCommits \in Nat \ {0} /\ MaxClock \in Nat /\ MaxSlips \in Nat
ASSUME TreesAssumption ==
    /\ First \in Trees
    /\ \A t \in Trees : t.pin.min \in Nat /\ t.pin.package \in Nat
    /\ \A tool \in Tools : tool.cli \in Nat

VARIABLES
    trees,      \* the commits on main, oldest first, as their trees
    verdict,    \* the verdict file at the tip
    upon,       \* the commit below the one that brought it (its parent)
    draft,      \* the verdict being written, not committed
    slips,      \* slips of the author so far
    clock,      \* hours
    gate        \* what the workflow said of the tip: the exit code of step
                \* 15, whether the release went on, and whether the transition
                \* mode (CEO_PAIR_RAIL_VERDICT_OPTIONAL) was on; Quiet at first

vars == <<trees, verdict, upon, draft, slips, clock, gate>>
Quiet == [code |-> -1, released |-> FALSE, optional |-> FALSE]

(***************************************************************************)
(* Texts.                                                                   *)
(***************************************************************************)
Entry(name, word, num) ==
    [level |-> "top", form |-> "canonical", bare |-> FALSE, name |-> name, word |-> word, num |-> num]
Heading(name) == [Entry(name, "", 0) EXCEPT !.bare = TRUE]
Inner(name, word, num) == [Entry(name, word, num) EXCEPT !.level = "inner"]
NoText == [state |-> "missing", lines |-> <<>>]
Text(lines) == [state |-> "ok", lines |-> lines]

Tops(ls) == {i \in DOMAIN ls : ls[i].level = "top"}
\* The top-level line above line j; 0 when there is none.
Above(ls, j) ==
    LET up == {i \in Tops(ls) : i < j}
    IN  IF up = {} THEN 0 ELSE CHOOSE i \in up : \A k \in up : k <= i

\* noncanonical_top_level_lines: a key has its colon right behind it and a
\* separator after it; an inner line stands under a bare key.
DeclaresTrimmed(l) == l.form # "item"
Declares(l) == l.form = "canonical"
Strays(ls, j) ==
    ls[j].level = "inner"
        /\ (Above(ls, j) = 0 \/ ~ls[Above(ls, j)].bare \/ ~Declares(ls[Above(ls, j)]))
Noncanonical(ls) ==
    {j \in DOMAIN ls : Strays(ls, j) \/ (ls[j].level = "top" /\ ~Declares(ls[j]))}

\* count_top_level_key and parse_verdict_text trim the key; the last one wins.
Declared(ls, name) == {i \in Tops(ls) : ls[i].form # "item" /\ ls[i].name = name}
Last(ls, name) == CHOOSE i \in Declared(ls, name) : \A k \in Declared(ls, name) : k <= i
\* The inner lines kept for a bare key: current_key is the last bare key above.
Parent(ls, j) ==
    LET up == {i \in Tops(ls) : i < j /\ ls[i].bare /\ ls[i].form # "item"}
    IN  IF up = {} THEN 0 ELSE CHOOSE i \in up : \A k \in up : k <= i
Children(ls, i) == {j \in DOMAIN ls : ls[j].level = "inner" /\ Parent(ls, j) = i}

Names == {"verdict", "release_tag", "parent_sha", "commit_sha", "generated_at", "inputs_hash",
          "tool_versions", "gpg_signature"}
ToolNames == {"codex_cli", "codex_cli_binary_sha256", "codex_target_triple",
              "codex_payload_sha256"}

\* What the dictionary holds under a name: no entry, a string, or a
\* dictionary, empty or not.
Field(ls, name) ==
    LET i == Last(ls, name) IN
    IF Declared(ls, name) = {} THEN [kind |-> "absent", word |-> "", num |-> 0]
    ELSE IF ~ls[i].bare THEN [kind |-> "scalar", word |-> ls[i].word, num |-> ls[i].num]
    ELSE [kind |-> IF Children(ls, i) = {} THEN "empty" ELSE "mapping", word |-> "", num |-> 0]
Tool(ls, name) ==
    LET inside == IF Declared(ls, "tool_versions") = {} \/ ~ls[Last(ls, "tool_versions")].bare
                  THEN {}
                  ELSE {j \in Children(ls, Last(ls, "tool_versions")) : ls[j].name = name}
    IN  IF inside = {} THEN [word |-> "", num |-> 0]
        ELSE LET j == CHOOSE j \in inside : \A k \in inside : k <= j
             IN  [word |-> ls[j].word, num |-> ls[j].num]

Parse(ls) ==
    [field |-> [n \in Names |-> Field(ls, n)], tool |-> [n \in ToolNames |-> Tool(ls, n)]]

Kind(v, name) == v.field[name].kind
Word(v, name) == v.field[name].word
Num(v, name)  == v.field[name].num
IsDict(v, name) == Kind(v, name) \in {"empty", "mapping"}
\* An absent tool_versions reads as an empty one; a string is malformed.
Tooled(v) == Kind(v, "tool_versions") # "scalar"

(***************************************************************************)
(* The validator.  A tree: the hash over the files its inputs manifest      *)
(* lists ("unreadable" when that cannot be taken) and the pins.             *)
(***************************************************************************)
Accepted == {"GO", "GO-WITH-CONDITIONS"}
AuthorizesWithin(d) == d \in Accepted \cup {"NO-GO"}   \* it contains GO
Authorizes(d) == d \in Accepted

\* codex_cli: 0 stands for a version that does not parse.
OutOfRange(v, pin) == v = 0 \/ v < pin.min \/ (pin.max # 0 /\ v >= pin.max)
ExactBelowTheFloor(v, pin) == v = 0 \/ v < CodexFloor
\* The sha is compared unless the cli is another release, at or above the floor.
Exact(v, pin) == v \in {0, pin.package} \/ v < CodexFloor

Unlisted(tree) == tree.inputs = "unreadable"
TooOld(age) == age > MaxAge

DecisionGates(ls, v) ==
    << <<Noncanonical(ls) # {}, 3>>,
       <<Cardinality(Declared(ls, "verdict")) > 1, 3>>,
       <<~Authorizes(Word(v, "verdict")), 3>>,
       <<IsDict(v, "release_tag"), 1>>,                    \* a dict has no strip()
       <<Word(v, "release_tag") # Tag, 3>> >>

\* expected: --parent-sha, 0 when it is empty.
ParentGates(v, expected) ==
    LET asked == expected # 0
        absent == Kind(v, "parent_sha") = "absent"
    IN  << <<asked /\ IsDict(v, "parent_sha"), 1>>,
           <<asked /\ absent /\ IsDict(v, "commit_sha"), 1>>,
           <<asked /\ absent /\ Kind(v, "commit_sha") = "absent", 3>>,
           <<asked /\ ~absent /\ Num(v, "parent_sha") # expected, 3>> >>

\* A generated_at without a value is not read; num < 0 does not parse.
AgeGates(v, now) ==
    << <<Kind(v, "generated_at") = "mapping", 1>>,
       <<Kind(v, "generated_at") = "scalar" /\ Num(v, "generated_at") < 0, 1>>,
       <<Kind(v, "generated_at") = "scalar" /\ TooOld(now - Num(v, "generated_at")), 2>> >>

InputsGates(v, tree) ==
    << <<Unlisted(tree), 1>>,
       <<IsDict(v, "inputs_hash"), 1>>,
       <<Word(v, "inputs_hash") # tree.inputs, 3>> >>

PinGates(v, pin) ==
    << <<pin.range = "malformed", 3>>,
       <<pin.range = "ok" /\ (~Tooled(v) \/ OutOfRange(v.tool.codex_cli.num, pin)), 3>>,
       <<pin.binary # "" /\ (~Tooled(v) \/ v.tool.codex_cli_binary_sha256.word # pin.binary), 3>> >>

PayloadGates(v, pin) ==
    LET triple == v.tool.codex_target_triple.word
        sha == v.tool.codex_payload_sha256.word
    IN  << <<pin.manifest = "unreadable", 1>>,
           <<pin.manifest = "malformed" \/ ~Tooled(v), 3>>,
           <<triple = "" \/ sha \in {"", "malformed"}, 3>>,
           <<triple \notin DOMAIN pin.payloads, 3>>,
           <<triple \in DOMAIN pin.payloads /\ Exact(v.tool.codex_cli.num, pin)
                 /\ sha # pin.payloads[triple], 3>> >>

SignatureGates(v) ==
    << <<Kind(v, "gpg_signature") \in {"absent", "empty"}, 3>>,
       <<Kind(v, "gpg_signature") = "mapping", 1>> >>

\* The first that stops the verdict gives the exit code; 0 when none does.
Code(gates) ==
    LET stops == {i \in DOMAIN gates : gates[i][1]}
    IN  IF stops = {} THEN 0 ELSE gates[CHOOSE i \in stops : \A k \in stops : i <= k][2]
FirstOf(codes) ==
    LET stops == {i \in DOMAIN codes : codes[i] # 0}
    IN  IF stops = {} THEN 0 ELSE codes[CHOOSE i \in stops : \A k \in stops : i <= k]

ContentCode(ls, v, expected, tree, now) ==
    FirstOf(<<Code(DecisionGates(ls, v)), Code(ParentGates(v, expected)), Code(AgeGates(v, now)),
              Code(InputsGates(v, tree)), Code(PinGates(v, tree.pin)),
              Code(PayloadGates(v, tree.pin)), Code(SignatureGates(v))>>)

Validate(text, expected, tree, now) ==
    CASE text.state = "missing" -> 1
      [] text.state \in {"not utf-8", "block rejected"} -> 3
      [] OTHER -> ContentCode(text.lines, Parse(text.lines), expected, tree, now)

(***************************************************************************)
(* The author.                                                              *)
(***************************************************************************)
Template(decision, tool, tree, parent) ==
    Text(<<Entry("verdict", decision, 0), Entry("release_tag", Tag, 0),
           Entry("parent_sha", "", parent), Entry("generated_at", "", clock),
           Entry("inputs_hash", tree.inputs, 0), Heading("tool_versions"),
           Inner("codex_cli", "", tool.cli), Inner("codex_target_triple", tool.triple, 0),
           Inner("codex_payload_sha256", tool.sha, 0), Entry("gpg_signature", "signed", 0)>>)

With(ls, i, l) == [ls EXCEPT ![i] = l]
Without(ls, i) == SubSeq(ls, 1, i - 1) \o SubSeq(ls, i + 1, Len(ls))
\* What a slip makes of a line: a key without its value, or with one it should
\* not have; the decision spelled with a space before the colon, as a list
\* item or indented; the signature indented; parent_sha under its legacy name;
\* a date that does not parse; another tag.
Misspelt(l) ==
    IF l.form = "item" THEN {[l EXCEPT !.bare = ~@]}
    ELSE {[l EXCEPT !.bare = ~@]} \cup
         CASE l.name = "verdict"       -> {[l EXCEPT !.form = "loose"], [l EXCEPT !.form = "item"],
                                           [l EXCEPT !.level = "inner"]}
           [] l.name = "gpg_signature" -> {[l EXCEPT !.level = "inner"]}
           [] l.name = "parent_sha"    -> {[l EXCEPT !.name = "commit_sha"]}
           [] l.name = "generated_at"  -> {[l EXCEPT !.num = -1]}
           [] l.name = "release_tag"   -> {[l EXCEPT !.word = "other"]}
           [] OTHER                    -> {}
\* One slip: the file saved in another encoding or with a second block, a line
\* left out, a top-level line misspelt, the decision declared again.
Resaved(ls) == {[state |-> s, lines |-> ls] : s \in {"not utf-8", "block rejected"}}
LeftOut(ls) == {Text(Without(ls, i)) : i \in DOMAIN ls}
Mistyped(ls) == UNION {{Text(With(ls, i, l)) : l \in Misspelt(ls[i])} : i \in Tops(ls)}
Repeated(ls) == {Text(Append(ls, Entry("verdict", d, 0))) : d \in {"GO", "NO-GO"}}
Slips(t) == Resaved(t.lines) \cup LeftOut(t.lines) \cup Mistyped(t.lines) \cup Repeated(t.lines)

\* A verdict is written once, and again when it has expired (exit 2 is there
\* to have it regenerated).
Review(decision, tool) ==
    /\ draft = NoText
    /\ verdict = NoText \/ gate.code = 2
    /\ draft' = Template(decision, tool, trees[Len(trees)], Len(trees))
    /\ gate' = Quiet
    /\ UNCHANGED <<trees, verdict, upon, slips, clock>>

Slip ==
    /\ draft # NoText /\ slips < MaxSlips
    /\ \E t \in Slips(draft) : draft' = t
    /\ slips' = slips + 1
    /\ gate' = Quiet
    /\ UNCHANGED <<trees, verdict, upon, clock>>

(***************************************************************************)
(* The repository.                                                          *)
(***************************************************************************)
Tip == Len(trees)
CommitVerdict ==
    /\ Tip < MaxCommits
    /\ draft # NoText /\ draft # verdict
    /\ trees' = Append(trees, trees[Tip])
    /\ verdict' = draft
    /\ upon' = Tip
    /\ draft' = NoText
    /\ gate' = Quiet
    /\ UNCHANGED <<slips, clock>>

CommitWork(tree) ==
    /\ Tip < MaxCommits
    /\ tree # trees[Tip]
    /\ trees' = Append(trees, tree)
    /\ gate' = Quiet
    /\ UNCHANGED <<verdict, upon, draft, slips, clock>>

(***************************************************************************)
(* release.yml on the tag, which is the head of main.  Step 15 is waved     *)
(* through when the optional variable is set; the step after it then        *)
(* refuses, and else binds parent_sha itself and compares the two trees.    *)
(***************************************************************************)
Expected(optional) == IF optional THEN 0 ELSE upon
StepFifteen(c, optional) == c = 0 \/ optional
Bound(v) == Kind(v, "parent_sha") = "scalar" /\ Num(v, "parent_sha") = upon
Delta(optional) ==
    /\ ~optional
    /\ verdict.state = "ok" /\ Bound(Parse(verdict.lines))
    /\ trees[upon] = trees[Tip]

Release(optional) ==
    /\ verdict # NoText
    /\ LET c == Validate(verdict, Expected(optional), trees[Tip], clock)
       IN  gate' = [code |-> c, released |-> StepFifteen(c, optional) /\ Delta(optional),
                    optional |-> optional]
    /\ UNCHANGED <<trees, verdict, upon, draft, slips, clock>>

Tick ==
    /\ clock < MaxClock
    /\ clock' = clock + 1
    /\ gate' = Quiet
    /\ UNCHANGED <<trees, verdict, upon, draft, slips>>

Init ==
    /\ trees = <<First>>
    /\ verdict = NoText
    /\ upon = 0
    /\ draft = NoText
    /\ slips = 0
    /\ clock = 0
    /\ gate = Quiet

Next ==
    \/ \E d \in {"GO", "NO-GO"}, tool \in Tools : Review(d, tool)
    \/ Slip
    \/ CommitVerdict
    \/ \E tree \in Trees : CommitWork(tree)
    \/ \E optional \in BOOLEAN : Release(optional)
    \/ Tick

Spec == Init /\ [][Next]_vars

(***************************************************************************)
(* Properties.                                                              *)
(***************************************************************************)
TypeOK ==
    /\ Len(trees) \in 1..MaxCommits /\ upon \in 0..(Tip - 1)
    /\ \A i \in DOMAIN trees : trees[i] \in Trees
    /\ draft.state \in {"missing", "ok", "not utf-8", "block rejected"}
    /\ slips \in 0..MaxSlips
    /\ clock \in 0..MaxClock
    /\ gate.code \in -1..3 /\ gate.released \in BOOLEAN /\ gate.optional \in BOOLEAN

\* Nothing is released but what was reviewed: one decision, an authorizing
\* one, for this tag, against the commit the verdict file was put upon, and
\* since then nothing but the verdict has changed.  Neither the transition
\* mode nor a verdict that only has the legacy commit_sha gets around it.
ReleasedAsReviewed ==
    gate.released =>
        LET ls == verdict.lines
            v == Parse(ls)
        IN
        /\ verdict.state = "ok"
        /\ {ls[i].word : i \in Declared(ls, "verdict")} \in {{d} : d \in Accepted}
        /\ Num(v, "parent_sha") = upon
        /\ trees[upon] = trees[Tip]
        /\ Word(v, "release_tag") = Tag /\ Word(v, "inputs_hash") = trees[Tip].inputs

\* Two readers of the signed file that keep different rules - the key trimmed
\* or the colon right behind it, the first declaration or the last - read the
\* same decision from every text the validator lets past its shape gates.
ReadersAgree ==
    verdict.state = "ok" /\ gate.code \in {0, 2} =>
        LET ls == verdict.lines
            strict == {i \in Declared(ls, "verdict") : ls[i].form = "canonical" /\ ~ls[i].bare}
            loose == {i \in DOMAIN ls : ls[i].name = "verdict"}
        IN  strict = loose /\ Cardinality(loose) = 1

\* A verdict with a date in it is released within MaxAge hours of it, even
\* when the same file passed before.
ReleasedInTime ==
    gate.released /\ Kind(Parse(verdict.lines), "generated_at") # "absent"
            /\ Kind(Parse(verdict.lines), "generated_at") # "empty"
        => clock - Num(Parse(verdict.lines), "generated_at") <= MaxAge

\* The review was made with a tool the pins of the tagged commit allow: a
\* version in their range, and the payload they name unless the version is
\* newer than the manifest they ship.
PinnedTool ==
    gate.released /\ trees[Tip].pin.range = "ok" =>
        LET pin == trees[Tip].pin
            v == Parse(verdict.lines).tool.codex_cli.num
            triple == Parse(verdict.lines).tool.codex_target_triple.word
        IN  /\ v >= pin.min
            /\ v = pin.package =>
                   Parse(verdict.lines).tool.codex_payload_sha256.word = pin.payloads[triple]

\* With a readable tree and a date that parses, what is wrong with the signed
\* text is reported as INVALID or EXPIRED, never as an infrastructure error,
\* which the transition mode may wave through.
ContentIsNotInfra ==
    gate.code = 1 => \/ verdict.state = "missing"
                     \/ Unlisted(trees[Tip]) \/ trees[Tip].pin.manifest = "unreadable"
                     \/ Num(Parse(verdict.lines), "generated_at") < 0
=============================================================================
