# ceo-orchestration in TLA+

A model of the parts of this repository that keep state across steps, runs and
failures.  First the installer suite of `scripts/`, which writes into a tree that
belongs to somebody else and promises not to lose that person's work; then the
programs that decide, convert or count: the release gate on a pair-rail verdict,
the OIDC key broker, the migration of `peers.yaml`, the patchers of the
framework's own files, the audit of the token ledger.  Every definition is
written from the code; `PROJECT.json` (`map`) gives the lines behind each one.
Paths in this file are relative to the repository.

## The system

The repository ships a directory of hooks, scripts, commands, skills and
documents into an adopter's project.  `install.sh` puts them there,
`upgrade.sh` replaces them release by release, `doctor.sh` compares and repairs
them, `uninstall.sh` takes them away.  The tools share no process and no lock.
They talk through the adopter's tree: what one leaves on disk is what the next
one finds, after any number of edits, kills and failed runs.  The other programs
meet nobody but their operator and themselves, in another thread or a later run.
The hook runtime itself (`.claude/`) is not in this tree.

### Shared state

| state | where | written by |
|---|---|---|
| framework checkout | the source directory | a release, `--pin` |
| managed files | the adopter's tree | the adopter, all four tools |
| baseline manifest | `.claude/.install-manifest.sha256` | install, upgrade; deleted by uninstall |
| archives | `.claude.bak/<second>/`, the uninstall tarball | upgrade, doctor, uninstall |
| snapshot | `BACKUP_DIR`, under `TMPDIR` | install |
| install state | `.claude/.install-state.json` | install, upgrade |
| settings | `.claude/settings.json` | install, upgrade, the adopter |
| `peers.yaml`, its output, the `.floor-fail` sidecars | the operator's directory | the operator, the migration |
| the cache of seen token ids | the broker's memory, behind a lock | its request threads |
| guarded files of the framework | its own working tree and HEAD | the Owner, five patchers |
| verdict file, pins, inputs | commits on main | the reviewer, the Owner |
| transcripts | the harness's directory | live sessions |

### Components

| component | state and operations | what is hard | what makes it correct |
|---|---|---|---|
| enumeration, manifest writer (`_framework_manifest_set.sh`) | walks the target entries, writes one record per present file through mktemp and mv | upgrade records the source's digest, install the target's; a failed write keeps the old manifest | a record is the framework's digest, never the adopter's; an unchanged file is never taken for a customised one |
| `upgrade.sh`, delivered targets | for each target: skip, walk file by file with a verdict from three digests, or archive, delete and copy | the delete-then-copy window; a backup whose failure is ignored; no baseline; `--skip`; four conflict policies | nothing an adopter wrote is lost; refuse is respected; untouched files converge |
| `install.sh` | snapshot, copy what is missing, fill placeholders, manifest, EXIT trap | a rerun over a managed tree; a trap that fails in the middle; a kill that skips the trap | adopter files stay; a failed run is undone |
| `uninstall.sh` | parse and vet the manifest, archive, remove by digest, exit code, fate of the manifest | damaged, duplicate and aliased records; abort and retry; `--force` | removes only what is recorded and unchanged; keeps its ledger while anything is left; the exit code is true |
| `doctor.sh` | a verdict per record, confirmation, backup, restore | a source of another release; a backup that fails; a blocked restore | writes the recorded bytes only, over confirmed and archived files |
| PROTOCOL pointer, SPEC, marker; ownership verdict | what a run observes of the record, the node, the checkout, ceremony and skips decides preserve, deliver or refresh, and where the next record's digest comes from | the product of the dimensions; records written by one run and read by the next; forced replacement of two of the three surfaces | nothing foreign is written over or through; a record is the framework's digest; a failed step does not advance it; ownership is not forgotten |
| OIDC key broker (`templates/oidc-proxy/oidc_key_broker.py`) | eleven checks of a token in their order, then a bounded cache of seen ids behind a lock | the clock is read outside the lock; the bound evicts live entries | an id is admitted once within its time; the bound holds and takes the entry closest to its end |
| peers migration (`tools/migrate-peers-yaml.py`) | parse, check, migrate, back up, replace, leave advisories; verify and dry run | kills and I/O errors between the steps; a renewed certificate; a renderer whose escapes the parser does not undo, that moves keys to lines which may not have them and writes strings the parser cuts; a file read twice | what it writes conforms and says what was there, with two named exceptions; pins are of one certificate; a failure writes nothing; the advisory is left |
| ceremony patchers (`scripts/local/**`) | five lists of edits, each found by its anchors and skipped by its marker; preflight and post-checks | `write_text` is not atomic; new texts contain their anchor; two edits of one file; runs out of order | exit 0 means that the text is in place; no edit is stacked; the checked ceremony builds on the commit |
| pair-rail verdict validator, step of `release.yml` | two readers of one signed block, seven families of gates with exit codes 0 to 3, a transition mode, the delta of two trees | readers with other grammars; commits and pins that move after the review; a legacy field | what is released is what was reviewed, with a tool the pins allow, within its time |
| token ledger audit (`docs/research/.../audit_collector.py`) | reads transcripts line by line, groups lines of one message, sums, prefixes, peaks | lines repeated across files, growing usage, half-written lines of live sessions, shares that exceed their total | groups and totals do not depend on the order; every line counts once; the audit ends |
| settings merge, templates and agents, purge, source pin, install state, `.gitignore` planner, Codex and Grok harness | see *Not modelled* | | |
| npm channel, plugin build, accelerators, status line, scans, CI, examples, tests | I/O or formatting | – | – |

The hard behaviours, each at its line, are the `hazards` of `PROJECT.json`.  Those
that no property covers say why: five lie outside the models, the others are what
the code does, so that a property can only except them.

## Modules

| module | models | lines of code it stands for |
|---|---|---|
| `AdopterRepo` | the shared state; the release, the adopter's edits, SIGKILL | `_framework_manifest_set.sh:95-292`, `upgrade.sh:1534-1643` |
| `Upgrade` | `backup_and_replace`, `_per_file_classified_update`, `_apply_single_file`, the classifier, the manifest rewrite | `upgrade.sh:1650-2139`, `_framework_manifest_set.sh:1311-1473` |
| `Install` | snapshot, `install_one`, substitution, manifest, `cleanup_on_failure` | `install.sh:884-915`, `1240-1372`, `2884-3041`, `3213-3479` |
| `Uninstall` | the removal over a well-formed manifest, beside the other tools | `uninstall.sh:353-713` |
| `Doctor` | the record loop with `--repair` | `doctor.sh:458-1073`, `1206-1245` |
| `Lifecycle` | composes the four tools over one tree; all their properties | – |
| `Provenance` | what the suite promises an adopter, abstractly; `Lifecycle` implements it | – |
| `UninstallRun` | the whole uninstall mode over damaged manifests and any kind of node | `uninstall.sh:353-713` |
| `Ownership` | `_ownership_verdict`, a pure function | `_framework_manifest_set.sh:1478-1645` |
| `Surfaces` | the life of one conditional surface: install, rerun, upgrade, record | `upgrade.sh:2145-2853`, `5693-5748`, `install.sh:2761-3015`, `3248-3474`, `_framework_manifest_set.sh:1301-1463` |
| `Broker` | `verify_oidc_token` and the `NonceCache`, called by threads | `oidc_key_broker.py:83-344` |
| `Peers` | parser, emitter, checks, migration and the steps of `main` | `migrate-peers-yaml.py:74-1061` |
| `Ceremony` | the edits of the five patchers, their runs, the Owner between them | `plan-093-apply-kernel-edits.py`, `plan-094-apply-wave-a-c-e.py`, `plan-152-apply-wave-a-{kernel,codex-fixes,codex-fixes-2}.py` |
| `PairRail` | author, repository, both readers of the verdict, every gate, the two steps of the release workflow | `validate-pair-rail-verdict.py:102-794`, `release.yml:708-900` |
| `Ledger` | listing, acceptance, grouping, sums and distributions, with live sessions | `audit_collector.py:92-408` |
| `MC*` | instances of the modules above for TLC | – |
| `*Proofs` | theorems about `Lifecycle`, `UninstallRun`, `Surfaces`, `Broker`, `Peers`, `Ceremony`, `PairRail`, `Ledger`, with proofs | – |

From `Broker` on, a module stands alone: the programs do not call each other.

### How state and actions correspond: the suite

`src`, `dst` and `recorded` are functions from relative paths to contents: the
checkout, the adopter's tree and the manifest.  A digest is the content itself.
`bak` is the set of adopter contents that any archive holds for a path; archives
are only ever added to.  `mine` is a history variable: what the adopter last
wrote.  `pc`, `left`, `todo`, `cur` and `opt` are the progress of the tool that
is running, and vanish with it (`Stop`).

One action is one command, or one iteration of a loop, between which a kill can
fall: a copy of a file, a backup of a target, a rewrite of the manifest.  In
`Upgrade`, `UpgradeSkipTarget`, `UpgradeTree`, `UpgradeOneFile` and
`UpgradeLegacy` are the four ways through `backup_and_replace`; `UpgradeFile`,
`UpgradeBackup` and `UpgradeCopy` are the per-file walk; `LegacyDelete` and
`LegacyCopy` the delete-then-copy branch, file by file.  In `Install` the action
`InstallFail` is the EXIT trap, with and without the move back that may fail.

`Kill` is SIGKILL: no trap runs, a copy in flight may be torn.  `UpgradeAbort`
and `InstallFail` are `set -e` ending a run, traps included.  Which of these
happen is the constant `Faults`: "crash", "torn", "abort", "backup" (a backup
copy fails), "manifest" (mktemp or mv of the manifest fails), "rollback" (the
trap's move fails), "blocked" (doctor's restore is refused).

In `Surfaces`, `node` is what is on disk at the surface's path, `record` its row
in the manifest, `offer` what the checkout would deliver there.  `UpgradeDecide`
is the observe-and-decide half of `_refresh_protocol_pointer`,
`_refresh_spec_contract` and `_refresh_framework_marker`; `UpgradeKeep`,
`UpgradeBackup`, `UpgradeDelete` and `UpgradeCopy` are the execute half, one
step for each change of the disk; `UpgradeRecord` is the rewrite of the manifest
from the delivery flag (`delivered`) and the declared hash source.
`InstallBegin`, `InstallWrite`, `InstallRender` and `InstallRecord` are
install.sh, with the continuity rule of a rerun (`Continues`).  `mine` is a
history variable as above, `by` another: who wrote the node last.

### How state and actions correspond: the other programs

- **`Broker`.**  A request is at `idle`, `checked`, `clocked`, `accepted` or
  `denied`.  `Arrive` reads the wall clock and runs the eleven checks in the
  order of `verify_oidc_token`; the first that fails names the denial.
  `ReadClock` is `check_and_store` reading the monotonic clock, before its lock;
  `Replayed` and `Admit` are its two ways through the locked part: purge from the
  front, look up, drop the stale entry, evict down to one below the bound,
  insert.  The ordered dictionary is a set of entries with ranks of insertion.
- **`Peers`.**  A text is a sequence of lines with indents; `Parse` is
  `parse_peers_yaml` line by line, `Emit` is `emit_peers_yaml`.  The line that opens
  a row takes any key, a field line only one of `Identifiers`.  A string in a line
  stands as it is, or between double quotes (`Quoted`): `Unquoted` is what
  `_strip_comment` and `_unquote` make of it.  `Start` reads
  the input and ends in one of the early exits or goes on; `Migrate`, `Backup`,
  `Write` and `Advise` are the later steps, each with its failure.  `author` and
  `excused` are history.
- **`Ceremony`.**  A text is the sequence of the versions of the regions the
  patchers know.  An edit says which regions it replaces in one write, whose
  version its anchors belong to, how it decides to skip, and which new texts
  contain their anchor again.  `Step` is one edit, `Finish` the post-checks and
  the exit code, `Kill` may leave any prefix of the text being written.
  `settled` is history: patchers that exited 0 and whose files are as they left
  them.
- **`PairRail`.**  `trees` are the commits of main, `upon` the commit the
  verdict file was put upon.  `Review` writes a verdict, `Slip` spoils it in one
  way, `CommitVerdict` and `CommitWork` extend main, `Release` is the workflow
  on a tag: `Validate` returns the exit code of the first gate that stops, and
  `Delta` is the step that follows.  Each `...Gates` operator is one family of
  gates of `main`, in its order, each with its exit code; `Field` and `Tool` say
  what `parse_verdict_text` puts in its dictionary, `Noncanonical` is the strict
  reader.
- **`Ledger`.**  `Open`, `ReadHalf`, `ReadLeftOut`, `ReadTaken`, `Close` and
  `Report` are the loops of `main`; `Fate` is `classify`, `accept` and the window
  in their order.  `Opened` and `Merged` are `Group.__init__` and `Group.add`.
  `Write` and `Complete` are a live session that appends a line, at once or in two
  parts.  `taken` is history.

### Abstractions

- Paths are atomic; a target is a file or a tree of the files that belong to it,
  and a tree exists iff it holds a managed file.  Targets, and files of a target,
  are taken in any order: the code's order is one of them.
- Excluded paths (`__pycache__`, tests, ...) are no members of `Files`: no tool
  reads or writes them.  Of the conditional surfaces, PROTOCOL, SPEC and the
  marker are in `Surfaces`; the plan and debate schemas and the templates are not
  modelled.
- `--skip` is the set of paths its globs match.
- Placeholder substitution maps a shipped content to its filled form and leaves
  other contents; adopter contents are taken to hold no placeholder token.
- Neither the adopter nor a release changes anything while a tool of the suite
  runs, and one tool runs at a time: the suite takes no lock, and its documents
  promise nothing for two runs over one target.
- The dry runs of the suite's tools write nothing and are left out, except in
  `UninstallRun`, where the exit code is at stake.
- `Surfaces` follows one surface in a history: the three meet only in the
  manifest, which one mv replaces, and in its mode, which a link row of the
  surface itself implies.  `SPEC/v1` is one body with one record, where the code
  has a record per file: a fork or a torn tree is taken to keep a file of the
  shipped names, so that its record stays.  An edited pointer has no placeholder
  token.  `InstallBegin` starts only where `_assert_no_symlink_parents` lets
  the run go on.  The ceremony of an upgrade is free, not replayed.
- `UninstallRun` does not model the emptied directories that are removed last.
- `Broker`: how a token is decoded, and the signature check the caller injects,
  are data of the token.  Wall clock and monotonic clock are one
  clock.  `access_token_thumbprint` has no state.
- `Peers`: `cert_inspector` is not in this tree; it is a certificate per peer
  with its digests and whether it passes the key floor, or a failure.  Fields that
  are treated alike are one field.  Strings are names: `Odd` says which hold a quote
  or a backslash, `Hashed` which have a `#` after an odd number of double quotes,
  and `LeftEscaped` and `LeftPlain` what is left of such a string when it is read,
  with its quotes escaped (a field) or not (an item of a list).  A row has at most
  two keys of its own, one of which is no identifier.  A backup is never read, so its content is
  left out.  The text that races with a run is one of `Racing`; certificates are
  renewed between runs, as a run reads each of them once.
- `Ceremony`: the files the patchers edit are not in this tree.  Which regions an
  edit touches comes from its anchors; the order of the regions of one file, which
  matters only for what a kill cuts off, is taken from what the anchors show and
  is otherwise an assumption.  That the Owner restores files from HEAD after a
  failed run is `plan-093-execute-ceremony.sh`.
- `PairRail`: the fences, the encoding and the byte checks of the block are the
  outcome "not utf-8" or "block rejected"; a version is a number; the reading of
  the pins is "ok", "malformed" or "unreadable".  The signature itself is another
  job's.  Of the workflow only the two steps that read the verdict are modelled.
- `Ledger`: a key of a message is its id; prices, the comparison with the
  collector's own output and with `stats-cache.json`, and the printed form are
  left out.

## Runs

| run | bounds | shows |
|---|---|---|
| `Suite` | a root file and a tree of one file, two releases, one adopter content, four skip sets, all four tools, install over an empty tree only; kill, torn copy, abort, failing manifest write | `KeepsPromise` (the refinement of `Provenance`), `NoLoss`, `NoAdopterBaseline`, `RefusePreserves`, `UninstallPreserves`, `LedgerOutlivesFiles` |
| `Converge` | the same tree, all four tools, no fault, no `--skip` | `CustomizedByAdopter`, `PristineConverges` |
| `Reinstall` | a tree of two files copied as one unit, all four tools, install over any tree; kill, abort, failing manifest, backup, restore and rollback | `InstallPreservesOrRollsBack`, `DoctorRestoresBaseline` |
| `UninstallRun` | three paths (one below `.claude`, two outside that may be one inode), two contents, links, directories and linked ancestors, every manifest of up to two records, three hash records with the first digest fixed (exchanging the two contents gives the rest), a manifest that cannot be read; kill, failing tar, failing rm | `DoubtfulStays`, `RemovedIsRecorded`, `ExitTellsTheTruth` |
| `BadAbsent` | as `UninstallRun`, no fault | a disagreement, see below |
| `Surfaces` | each of the three surfaces; three bodies a checkout may deliver, one of them pinned as legacy, a degraded pointer, two adopter bodies (one that cannot be inventoried), every kind of node; both ceremonies, both install modes, every `--skip`; kill, failing backup, a marker that does not read back, failing manifest write | `RecordIsFrameworks`, `NoLoss`, `AdopterBytesStay`, `FailureKeepsRecord`, `RecordOutlivesRuns` |
| `Broker` | three requests (symmetric), five tokens, skew 1, lifetime 3, two entries, clock to 4 | `AdmitOnce`, `OncePerLife`, `Bounded`, `EvictsClosestToExpiry` |
| `Peers` | two peers, one with a certificate that may be renewed, one below the key floor; seven authored texts, one of which may race with a run, six command lines, two rows (among them a row that begins with a key no other line may have, and strings that are cut at a `#`); kills and I/O errors at every step | `ToolOutputConforms`, `PinsAgree`, `AdvisoryLeft`, `FailsLoud`, `RenderingKeeps` |
| `Ceremony` | the PLAN-093/094 patchers, or the three of PLAN-152, in any order and number, all modes of plan094; clean files, the residue of an older version, entries copied by hand; one kill, one commit | `ExitTells`, `NeverTwice`, `FixesRepairs`, `BuildsOnHead`, and that nothing blocks |
| `PairRail` | four trees, four tools, three commits, an age of one hour, a clock to 2, one slip | `ReleasedAsReviewed`, `ReadersAgree`, `PinnedTool` |
| `BadInfra` | as `PairRail` | a disagreement, see below |
| `Ledger` | four transcripts, one of every class, with up to five texts each (lines repeated, growing, half-written, side chains, malformed, early, late, without a time), a window of two ticks, one appended line | `DedupIsOrderFree`, `TotalsReconcile`, `OpeningsAndPeaks`, `EachFileAfresh`, `EveryLineOnce`, `AuditEnds` |

Why the bounds are enough.  The tools of the suite look at one path at a time;
paths meet in the target (the whole-target branch, the unit copy), in `Loaded`
(one record makes the manifest usable) and in the manifest's fate.  One root file
beside one tree, and one tree of two files, have all of these.  A verdict
compares three digests: two releases and one adopter content give every equality
pattern (all equal, each pair equal, all different).  Two records are enough for
a duplicate, an alias and an order; a third record separates a path recorded
twice from its alias recorded once, and a third path "outside, aliased" from
"outside, alone".

`Surfaces` needs three bodies: one on disk, one recorded, one offered; its
properties talk of one surface, and its runs are cut into steps at every change
of the disk.  `RecordOutlivesRuns` lists the five ways the code withdraws the
record of a surface only the framework touched.  Two of them deserve a look: a
marker that a `--pin` to a release without one drops is not adopted again once
its bytes differ from the checkout's, and an `install.sh` rerun in copy mode
over a link install drops the link's row.

In `Broker` two threads race for one token and a third is overtaken, or fills the
cache: three requests over two entries have an eviction while both entries are
live, and the clock outlives a whole lifetime.  Tokens that differ from a good one
in one respect are enough for the checks.  In `Peers` a file that was migrated may
be promoted, edited and migrated again, without a bound on the number of runs; two
rows are what a rendering needs to get a boundary wrong.  `Strings` lists the
strings those files and certificates hold.  `Ceremony` has all five
patchers, and any number of runs: only kills and commits are bounded, as one kill
already leaves every prefix of every write.  In `PairRail` three commits give the
verdict a commit before and one after it; four trees differ in the inputs, in the
pins, or cannot be read; the tools are older than, equal to, equal but with
another payload, and newer than the manifest.  `Ledger` lists a transcript of
every class, every pair of which shares messages.

The action properties are about what a step may do, so histories need no length
bound except where the table names one; every run explores its whole state
space.  `Broker`, `PairRail` and `Ledger` do not check for deadlock: the bound on
the clock, the bound on the commits and the end of the audit stop them.

**Fairness.**  Only `Ledger` asks for any: weak fairness of the audit's step.  The
live sessions owe nothing, and a line that is never completed does not keep the
audit from its end.  The loops of the suite run over listings computed beforehand
and end by their shape; nothing is claimed of them.

### Where the code and its documents part

Two runs show a counterexample:

- `BadAbsent`: a recorded file outside `.claude` that is gone and comes last in
  the ledger ends `uninstall.sh` with exit 1 before the backup, on every retry.
- `BadInfra`: a field of the signed verdict that is a dictionary where a string
  is expected ends the validator with exit 1, the code of an infrastructure
  error, although its comment says that a property of the signed bytes never
  does.  The release still stops: the next step has no transition mode.

Others are built into the models, as exceptions of a property or as a constant
that leaves the case out, and have no run of their own:

- `install.sh:3473`: a rerun records the target's bytes, an adopter's edits
  included; `uninstall.sh` then removes them without `--force`
  (`uninstall.sh:6`).  `Rerun = "never"` leaves it out.
- `upgrade.sh:1988`: without a baseline a directory is deleted and replaced
  whatever `--skip` says of the files in it (`upgrade.sh:523`).
- `upgrade.sh:1775`: `_apply_single_file` overwrites even if its backup failed
  (`upgrade.sh:551`, `INSTALL.md:818`).  The fault "backup" is left out of
  `Suite`.
- `_framework_manifest_set.sh:1449`: a pristine file that was skipped once is
  later classified ADOPTER-CUSTOMIZED (`install.sh:3196`), since the baseline
  took the digest of a file that was not delivered.  `Converge` has no skips.
- `install.sh:909`: `cleanup_on_failure` deletes its snapshot even if moving it
  back failed, and prints that the rollback is complete (`install.sh:912`).
  `InstallPreservesOrRollsBack` has the exception.
- `uninstall.sh:452-472`: a path recorded twice leaves the ledger before the
  inodes are compared (`uninstall.sh:474-518`), so that another path of the same
  inode, recorded once, is no alias and is removed if its digest matches,
  although the comment says that every path whose inode appears under more than
  one spelling is refused.  `DoubtfulStays` leaves this case out.
- `upgrade.sh:2249`: the root pointer is compared with today's rendering only,
  never with the recorded digest (`upgrade.sh:2141-2144`); the framework's own
  older pointer is preserved as an edit.
- `migrate-peers-yaml.py:468-474`: a row migrated with `--skip-cert-inspect` has
  an empty SPKI pin and counts as v2.0, so that a later run with inspection
  never pins it (against the docstring, lines 9-10 and 18-19).  `PinsAgree`
  speaks of rows with both pins.
- `migrate-peers-yaml.py:236-241`, `257-259`, `346-349`: a row may begin with a key
  that is no identifier (`- display-name: "x"`); the emitter puts the canonical keys
  first and that key on a line of its own, which the parser refuses (292).  The run
  exits 0 with a file no later run can read, against the parser's docstring
  ("re-emit is round-trip-safe", 174-175).  The author "moved" of
  `ToolOutputConforms` says so, and `RoundTrip` that it is so whenever a key is none.
- `migrate-peers-yaml.py:135-147`: `_strip_comment` takes an escaped quote for a
  delimiter and `_unquote` removes no escapes.  `a"b#c` is written as `"a\"b#c"` and
  read back cut at the `#`; any other string with a quote or a backslash gains a
  layer of escapes with every rendering; against the same docstring and the comment
  of `_emit_scalar` ("for parser idempotency", 326-328).  `RenderingKeeps` says
  which values come back: `Layered` and `Cut`.
- `oidc_key_broker.py:221-224`: the entry that goes at `max_entries` may be live, and
  its nonce is then admitted again, although the docstring says that within the
  entry's lifetime a replay is always denied (151-167).  `AdmitOnce` and
  `OncePerLife` except evicted entries.
- `oidc_key_broker.py:211`: the clock is read before the lock, so that a thread that
  was overtaken inserts a deadline behind later ones: the front of the dictionary
  is then not the entry closest to its expiry "by construction" (155).
  `EvictsClosestToExpiry` excepts such an entry.
- `migrate-peers-yaml.py:961`: a pure v2.0 input is checked from one read and
  copied from another; the author "unread" is exempt from `ToolOutputConforms`.
- `audit_collector.py:292-324`: the prefix of an agent's transcript is that of
  its first counted line if that line opens a group, not of its first turn, as
  the docstring says: an earlier line may be out of the window or known from
  another file.
- `audit_collector.py:288`: a message that is a text, in a file of no known
  place, ends the audit with a traceback; `AuditEnds` counts it as an end.
  So does a number that is infinite (lines 96-100), which is not modelled.

## Proofs

Eight modules hold theorems.  Each rests on an inductive invariant; the set of runs
is kept small, so the invariants themselves, the type invariants and the properties
below marked with a dash are in no run of `PROJECT.json`.  Apart from what
"under" says, the only assumptions are the named ones of the modules about their
constants, which TLC evaluates in every run.

| module | theorem | states | under |
|---|---|---|---|
| `LifecycleProofs` | `TypeCorrect` | `[]TypeOK` – | – |
| | `Invariance` | `[]IInv` – | install over an empty tree only |
| | `BaselineIsFrameworks` | `[]NoAdopterBaseline` | the same |
| | `UninstallSpares` | `UninstallPreserves` | the same |
| | `RefuseSpares` | `RefusePreserves` | the same |
| | `DoctorIsSafe` | `DoctorRestoresBaseline` | the same, no torn copies |
| | `Refinement` | `KeepsPromise` | install over an empty tree only, backups do not fail |
| | `NothingIsLost` | `[]NoLoss` | the same |
| | `LedgerOutlives` | `LedgerOutlivesFiles` | – |
| | `InstallSpares` | `InstallPreservesOrRollsBack` | – |
| | `Converging` | `[]ConvergeInv` – | install over an empty tree only, no kill, no abort, every manifest is written, no `--skip` |
| | `CustomizedIsAdopters` | `[]CustomizedByAdopter` | the same |
| | `PristineIsUpgraded` | `PristineConverges` | the same |
| `UninstallRunProofs` | `TypeCorrect`, `Invariance` | `[]TypeOK`, `[]IInv` – | – |
| | `DoubtsStay` | `DoubtfulStays` | – |
| | `OnlyRecordsGo` | `RemovedIsRecorded` | – |
| | `ExitIsTrue` | `ExitTellsTheTruth` | – |
| `SurfacesProofs` | `TypeCorrect`, `Invariance` | `[]TypeOK`, `[]IInv` – | – |
| | `RecordsAreFrameworks` | `[]RecordIsFrameworks` | – |
| | `NothingIsLost` | `[]NoLoss` | – |
| | `ForeignShapesSpared` | `ForeignShapesStay` – | – |
| | `AdopterBytesSpared` | `AdopterBytesStay` | – |
| | `UserSparesRoot` | `UserLeavesRoot` – | – |
| | `FailureKeeps` | `FailureKeepsRecord` | – |
| | `RecordsOutliveRuns` | `RecordOutlivesRuns` | – |
| `BrokerProofs` | `TypeCorrect`, `Invariance` | `[]TypeOK`, `[]IInv` – | – |
| | `AdmittedOnce` | `[]AdmitOnce` | – |
| | `AcceptedOncePerLife` | `[]OncePerLife` | – |
| | `RefusedTakesNoPlace` | `[]RefusedLeavesNoTrace` – | – |
| | `NeverOverBound` | `[]Bounded` | – |
| | `EvictsTheClosest` | `EvictsClosestToExpiry` | – |
| `PeersProofs` | `TypeCorrect`, `Invariance` | `[]TypeOK`, `[]IInv` – | – |
| | `FailureWritesNothing` | `FailsLoud` | – |
| | `RoundTrip` | `Parse(Emit(rows))` fails just when a key is no identifier, else has every row and key, and a value, up to escapes, just when it is not cut – | rows with a key that is an identifier, as every row that conforms |
| | `Carries` | `[]Carried` – | – |
| | `OutputConforms` | `[]ToolOutputConforms` | – |
| | `OnePinPerRow` | `[]PinsAgree` | – |
| | `AdvisoriesAreLeft` | `[]AdvisoryLeft` | – |
| | `RenderingSaysAll` | `RenderingKeeps` | – |
| `CeremonyProofs` | `CeremonyTypes` | `[]TypeOK` – | – |
| | `EditedOnce` | `[]NeverTwice` | – |
| | `ExitIsTrue` | `[]ExitTells` | – |
| | `RerunChangesNothing` | `RerunIdle` – | – |
| | `ChecksBuildOnHead` | `BuildsOnHead` | – |
| | `BranchHasItsHelper` | `FixesRepairs` | – |
| `PairRailProofs` | `TypeCorrect`, `Invariance` | `[]TypeOK`, `[]IInv` – | – |
| | `WhatIsReleased` | `[]ReleasedAsReviewed` | – |
| | `WithAPinnedTool` | `[]PinnedTool` | – |
| | `WithinItsTime` | `[]ReleasedInTime` – | – |
| | `OneSlipIsSeen` | `[](slips <= 1 => ReadersAgree)` | at most one slip so far, as in the run |
| `LedgerProofs` | `TypeCorrect` | `[]TypeOK` – | – |
| | `CountedOnce` | `[]EveryLineOnce` | – |
| | `Deduplicated` | `[]DedupIsOrderFree` | – |
| | `OnlyWindow` | `[]OnlyTheWindow` – | – |
| | `Comparable` | `[]OpeningsAndPeaks` | – |
| | `Afresh` | `[]EachFileAfresh` | – |
| | `TotalsAgree` | `[]TotalsReconcile` | – |

`TextsAssumption`, `CertsAssumption` and `StringsAssumption` of `Peers` are such
assumptions: no text the operator writes by hand pairs the pins of two certificates
or has the time only the tool writes; a DER digest names its certificate; names,
digests, times and scopes hold no quote, a string that is cut is not what it was,
and what is left of an escaped quote keeps it.

### The arguments

**The suite.**  None of the properties is inductive.  That the manifest holds
no adopter bytes needs to know that install.sh, when it records the target, finds
none there (`InstallInv`).  That refuse spares an adopter's file needs to know,
at the moment of the copy, what the verdict said two steps earlier
(`UpgradeInv`: `Overwritable(cur)`), and, in the whole-target branch, what the
target held when it was entered.  That nothing is lost needs to know that a
content about to be overwritten was archived (`Archived`), in three tools.  These
conjuncts form `SafeInv`; `IInv == TypeOK /\ SafeInv` is inductive.  `SafeStep`
has one lemma per tool (`UpgradeSafe`, `InstallSafe`, `UninstallSafe`,
`DoctorSafe`).  `Refinement` follows from `StepKeepsPromise`, which maps each
action to an action of `Provenance` or a stutter, and `NothingIsLost` from the
refinement: `Provenance` alone implies it.  The conditions are the code's: with
reruns over a managed tree, or with backups that fail, the theorems are false.
A torn copy leaves bytes neither tool nor adopter wrote, over which the text of
`DoctorRestoresBaseline` does not range.

`LedgerOutlives` and `InstallSpares` need no condition.  The first rests on
`LedgerInv`: under `--force` a record the walk is through with is gone from disk.
The second on `SnapInv`: the snapshot of a run of install.sh, if it took one, holds
every adopter byte in the tree, and a copy goes only where there is no file.
Convergence is about every file at once: outside an upgrade each untouched file is
as its record says (`Fresh`); within one, a file the upgrade has yet to reach
(`Ahead`) is still fresh, one it is at (`UnderWay`) may be half replaced, and every
other has the release's content (`Settled`).  No file is reached twice (`Once`).  A
run cut short leaves files that are settled under a manifest that is not, and a
skipped file is recorded with
what it was not given: both break `Fresh`, hence the conditions.

**The removal.**  A record is vetted once, at the start, while files go one by
one.  `LedgerInv` says that what the walk still has to act on is vetted in the
*present* tree: removals can only take aliases away (`VettedStays`), and no other
record names a vetted path (`NamedOnce`).  `ArchivedInv` carries what tar put in
the archive to the moment of the removal, `BackupInv` that nothing was compared
before it.  `AccountsInv` is the ledger of fates: as long as no record was
refused, each record the walk is through with is gone or is a counted mismatch, and
a counted mismatch is still there.  The exit code is a function of these.

**The surfaces.**  No fault is excluded.  The argument starts from what the
verdict guarantees for every observation: it never takes a digest from the target
(`DecisionType`), it writes only what is owned, in reach and not foreign
(`WritesAreOwned`), and it keeps a record that vouches for a surface of the right
shape (`RecordsAreCarried`).  The verdict is about the moment of observation; the
invariant carries it to the steps that follow.  `UpgradeInv` says that what is
about to be replaced is no foreign shape, and, if it is the adopter's, is claimed
by a record and archived before it goes.  `InstallInv` says that what install.sh
will hash from the target is a body of the checkout, although it may have been a
degraded pointer a step earlier.  `CarryInv` says that a record that is deserved
reaches the rewrite of the manifest with a digest, and `NodeInv` that the
framework leaves a node of the surface's own shape or a link of its own.

**The broker.**  Purge and lookup rely on deadlines that rise with the rank,
which threads that were overtaken between clock and lock break.  What holds
instead is `Remembers`: an admission is in the store under its own deadline, or
was evicted, or its lifetime is over by the clock.  It survives a purge since a
thread's reading is never ahead of the clock (`RequestsInOrder`), and a purge
drops only what is expired by that reading.  `AdmitOnce` follows at each
admission; `OncePerLife` from it, with the windows the token had passed before
(`HistoryInOrder`).  The bound is a matter of counting: what the eviction leaves
are the entries with fewer than n newer ones, of which a set with distinct ranks
has at most n (`NewestAreFew`, by taking the newest away one by one).

**The migration.**  `RunInOrder` says that a run before its write finds the
output as it was when it began, which no edit of the input disturbs; hence
`FailsLoud`.  An operator who promotes the output does so between runs.

The other properties are about what the files say, so that the parser has to be
run on what the renderer wrote.  Both are recursive functions; a value at every
length comes from `Recursion`, proved like every induction here from a least
counterexample (`Induction`).  `States` types what the parser may hold between two
lines: a row is open iff an indent is set, and a list that is open belongs to the
last row and lies deeper than any row.  `HeadRead` and `DashRead` say what one
rendered line adds, `KeyRead` what the lines of a key add, whatever list was open
before, `RowRead` those of a row, and `RoundTrip` puts the rows together.  What a
value becomes is `Again`, and `AgainKeeps` that it is the value, with its escapes,
just when it is not cut.  A key that is no identifier is never first
(`IdentifiersRead`: a row that conforms has others), so that its line fails
(`OddKeyRead`), and a failed parser stays failed (`BadStays`).
`RunInv` says what a run carries from its read to its write: the rows of the text
it read, then rows that conform and are a migration of those (`MigratedAs`).
`FileStep` lists the ways a file may change, `RowOrigin` concludes where each
row of a file comes from: it was in a file before, it was authored or added
without an SPKI pin, or it is the rendering of a row the run carries.  `PinsInv`
and `AdviceInv` follow row by row, the advisories counted as `Settled` once they
are left, excused, or still owed by a run past its write.

**The patchers.**  `CInv` types the trees: which versions a region of a file may
hold at all, and that none is stacked.  `ExitIsTrue` needs `FoundInv`: the edits of
a patcher that settled are all found made, those behind a run without a failure
too, and in a whole file a marker stands for all the regions of its edit
(`WholeIn`) - which is what the first version's residue, entries copied by hand,
and a kill in the middle of a write could have broken, and why the property
excepts marker edits in a file that was cut.  The table of the edits is
checked once (`EditTable`), and two edits never disturb each other's outcome but
in the listed ways.  `BuildInv` says that a checked run of plan094, which starts
from texts its preflight found committed, has touched no files but those of
the edits before its step (`FilesApart`: each edit has its own).  `HookInv` follows the
two regions of the safety hook through the four edits that reach them: behind its
first edit a run of the fixes has a section with the helper, behind its second no
branch without it, in a file that is whole.

**The release gate.**  A code of 0 means that no gate of any family stopped
(`NoneStops`).  What a gate said is about the text and the tree it read; the
invariant's `Told` says that a release that stands was told of the present tip at
the present hour, as every commit and every tick takes the word back.  The
strict reader allows no stray, loose or indented declaration and the counting one
at most one, so the set of the declared decisions is a singleton (`OneDecision`),
whatever and however many the author's slips.

That readers with other rules see no second decision is another matter: one that
is indented under a key without a value is no declaration, and no gate may reach it.
In a text that expired, a decision under a `gpg_signature` that lost its value is
such a case, and takes two slips; the text is not released (`WhatIsReleased`).
`ReaderInv` says what one slip can do: it may hide the only decision among the inner
lines or add one at the top, but not both (`SlipTogether`), and an exit code of 0 or 2
is past the decision gates (`ShapePasses`).

**The audit.**  `Behind` and `NoneMissed` say that what is counted lies behind
the reader, and, as long as no session writes, that nothing acceptable behind the
reader is missed.  `Sound` says of a group that it is what the set of its lines
says - a count, maxima, a line with the largest output, the mark of
disagreement - and a set has no order; `GroupStep` adds one line to it.
The percentiles are taken from sorted tables: `AtPlaceIs` says how many entries lie
below and above the value at a place, from which places in order have values in
order (`PlacesInOrder`).  `PrefixInv` ties prefix, opening and peak of a transcript to
its counted rows, `CarryInv` the last cache read to the line it came from; `PeakInv`
and `MadeInv` say of both that they are those of the transcript's own lines and no
other's (`Afresh`).  A sum over a
set is the size of a heap, `w[x]` tokens for each x (`Heap`, `Weight`): sums are
compared by injections and split by parts (`WeightByParts`) with what is known of
cardinalities.  `SumInv` says that the raw sums are such weights; `TotalsAgree` is then
arithmetic of parts.

### Model-checked only

Liveness under fairness is beyond the prover: `AuditEnds`.  The two runs that
expect a violation have no theorem.  Every other property of a run is proved;
`ReadersAgree` under its bound, since it is not true of any number of slips.

## What is left

In the order of what it would add:

1. `Converging` with runs cut short: what an aborted upgrade leaves, and that a
   second upgrade which ends makes up for it.
2. `Surfaces` against an abstract specification of a surface, as `Provenance` is one
   of the managed files.
3. `Templates`: three-way delivery of templates, agents and schema documents;
   `Purge`; `uninstall.sh --restore`; link mode of the delivered targets.
4. `InstallState` and the harnesses: replay of the recorded request.
5. `PinCheckout`: two upgrades that share a source, with git's lock and HEAD.

## Not modelled

- **Settings merge and migration**: merges of JSON by `jq` and embedded Python,
  each ended by one replacement of the file; what could go wrong is in the shape
  of the JSON.
- **Templates, agents, schema documents, purge**: the verdict of three digests as
  in `Upgrade`, with a route table and one variant per kind of file; the purge is
  a list of special cases per release.
- **Source pin**: the state that matters is git's (index lock, detached HEAD);
  the source checkout is one atomic value here.
- **Install state, Codex and Grok harness**: parsing and precedence of recorded
  values, and generated files with a rule each.  `Surfaces` leaves the ceremony of
  an upgrade free, which covers every replay.
- **`.gitignore` planner, pre-push gates, benchmark replay, version drift, foreign
  context discovery, status line**: one pass over a text or a report, with no
  state that outlives it.
- **Packaging and download** (`install-npm.sh`, `npm-rebuild.sh`,
  `build-plugin.py`, `publish-plugin.sh`, `install-accelerators.sh`), CI helpers
  and workflows but for the two steps named above, examples and tests: I/O or
  formatting.
- `docs/formal-verification/` and `SPEC/` describe a runtime whose code is not in
  this tree.
