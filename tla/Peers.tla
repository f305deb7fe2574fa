-------------------------------- MODULE Peers --------------------------------
(***************************************************************************)
(* tools/migrate-peers-yaml.py: the migration of peers.yaml from v1.x rows  *)
(* (a DER fingerprint) to v2.0 rows (an SPKI fingerprint taken from the     *)
(* peer's certificate, a list of scopes, the time of the key-floor check).  *)
(* A run reads the file, migrates, backs up, writes and leaves advisories;  *)
(* between two steps it may be killed, its operator may edit or promote a   *)
(* file and a certificate may be rotated.                                   *)
(*                                                                         *)
(* A text is a sequence of lines that are not blank once comments are off.  *)
(* The written form of a value and what the parser makes of it are kept     *)
(* apart, since the parser does not undo what the emitter does.             *)
(***************************************************************************)
EXTENDS Integers, Sequences, FiniteSets

CONSTANTS
    Strings,     \* the strings a file may hold
    PeerIds,     \* the valid peer names, each with a file in the cert dir
    CertsOf,     \* the certificates a peer may have: der, spki, floor
    Authored,    \* texts the operator may write
    Racing,      \* bound: the ones written while a run is under way
    Usages,      \* the command lines used
    Odd,         \* the strings that hold a double quote or a backslash
    Hashed,      \* those which, in double quotes, have a # outside of them
    LeftEscaped, \* what _strip_comment and _unquote leave of such a string
    LeftPlain,   \*   in double quotes: with its quotes escaped, and without
    MaxRows,     \* bound: rows of a file the operator still adds to
    NoCert,      \* no certificate, or one that cannot be inspected
    Nothing      \* an absent file

VARIABLES
    files,     \* "in" and "out": a text or Nothing
    author,    \* history: who wrote each, see Authors
    certs,     \* the cert dir: peer -> certificate or NoCert
    sidecars,  \* peers with a .floor-fail file
    run,       \* the run in progress
    exit,      \* how the run ended that was the last to act, else "none"
    excused    \* history: peers whose advisory a kill or an I/O error cost

vars == <<files, author, certs, sidecars, run, exit, excused>>

(***************************************************************************)
(* Values.  A word carries the escape layers an Odd string has gained.      *)
(***************************************************************************)
Certs == UNION {CertsOf[p] : p \in PeerIds}
Word(s, n) == [t |-> "word", s |-> s, esc |-> n]
Str(s) == Word(s, 0)
Flag(b) == [t |-> "flag", b |-> b]
List(items) == [t |-> "list", items |-> items]

Words == [t : {"word"}, s : Strings, esc : Nat]
Scalars == Words \cup [t : {"flag"}, b : BOOLEAN]

(***************************************************************************)
(* Lines.  A value in a line is a scalar, in a spelling that says it, or     *)
(* what stands between double quotes, which may say something else.         *)
(***************************************************************************)
Quoted(s, n) == [t |-> "quoted", s |-> s, esc |-> n]
Bare == [t |-> "bare"]       \* "key:" with nothing after the colon
Brackets == [t |-> "[]"]     \* "key: []"

Heading == [kind |-> "peers"]
Item(i, k, v) == [kind |-> "item", indent |-> i, key |-> k, value |-> v]   \* "- k: v"
Dash(i, v) == [kind |-> "dash", indent |-> i, value |-> v]                 \* "- v"
Field(i, k, v) == [kind |-> "field", indent |-> i, key |-> k, value |-> v] \* "k: v"

\* The canonical order of the keys.  Other keys follow in the order of the
\* row, for which one order stands: "note", and "display-name" for those that
\* are no identifier, which a line that opens a row may have and no other.
KeyOrder == <<"peer_id", "peer_id_spki_fingerprint", "peer_id_cert_fingerprint", "revoked",
              "hmac_secret_hex", "scopes", "key_floor_verified_at", "note", "display-name">>
Keys == {KeyOrder[n] : n \in DOMAIN KeyOrder}
Identifiers == Keys \ {"display-name"}

ItemValues == Words \cup [t : {"quoted"}, s : Strings, esc : Nat]
LineValues == Scalars \cup ItemValues \cup {Bare, Brackets}
Lines == {Heading} \cup [kind : {"item", "field"}, indent : Nat, key : Keys, value : LineValues]
           \cup [kind : {"dash"}, indent : Nat, value : ItemValues]

(***************************************************************************)
(* parse_peers_yaml: one pass over the lines.  An indent of -1 is None.     *)
(***************************************************************************)
ParserStart == [peers |-> FALSE, rows |-> << >>, item |-> -1, nested |-> -1, list |-> "", bad |-> FALSE]

\* _strip_comment takes every double quote for a delimiter, escaped or not, and
\* ends the line at a # outside of them; _unquote removes no escapes.
Unquoted(v) ==
    IF v.t # "quoted" THEN v
    ELSE IF v.s \notin Hashed THEN Word(v.s, v.esc)
    ELSE Str((IF v.esc = 0 THEN LeftPlain ELSE LeftEscaped)[v.s])

\* row[k] = v
With(row, k, v) == [j \in DOMAIN row \cup {k} |-> IF j = k THEN v ELSE row[j]]

\* The value of a key, and the list a bare key opens at the given indent.
Put(st, k, v, deeper) ==
    LET value == IF v \in {Bare, Brackets} THEN List(<< >>) ELSE Unquoted(v)
    IN  [st EXCEPT !.rows[Len(st.rows)] = With(@, k, value),
                   !.nested = IF v = Bare THEN deeper ELSE -1,
                   !.list = IF v = Bare THEN k ELSE ""]

IsDash(ln) == ln.kind \in {"item", "dash"}
Nested(st, ln) == st.nested # -1 /\ IsDash(ln) /\ ln.indent = st.nested
OpensRow(st, ln) == IsDash(ln) /\ st.item \in {-1, ln.indent}
OnRow(st, ln) ==
    ln.kind = "field" /\ ln.key \in Identifiers /\ st.rows # << >> /\ ln.indent > st.item

\* An item of a list is all that follows the dash, a colon included.
ItemText(ln) == IF ln.kind = "item" THEN Str("key: value") ELSE Unquoted(ln.value)

ParseLine(st, ln) ==
    IF st.bad \/ (ln.kind # "peers" /\ ~st.peers) THEN st
    ELSE IF ln.kind = "peers" THEN [st EXCEPT !.peers = TRUE]
    ELSE IF Nested(st, ln)
    THEN [st EXCEPT !.rows[Len(st.rows)][st.list].items = Append(@, ItemText(ln))]
    ELSE IF OpensRow(st, ln)
    THEN LET opened == [st EXCEPT !.rows = Append(@, << >>), !.item = ln.indent, !.nested = -1]
         IN  IF ln.kind = "item" THEN Put(opened, ln.key, ln.value, ln.indent + 4) ELSE opened
    ELSE IF OnRow(st, ln) THEN Put(st, ln.key, ln.value, ln.indent + 2)
    ELSE [st EXCEPT !.bad = TRUE]

Parse(text) ==
    LET after[n \in 0..Len(text)] == IF n = 0 THEN ParserStart ELSE ParseLine(after[n - 1], text[n])
    IN  after[Len(text)]
\* An error leaves no rows.
Rows(text) == IF Parse(text).bad THEN << >> ELSE Parse(text).rows

(***************************************************************************)
(* emit_peers_yaml: the keys in their order; strings between double quotes,  *)
(* escaped unless they are items of a list.                                  *)
(***************************************************************************)
EmitScalar(v) ==
    IF v.t = "word" THEN Quoted(v.s, IF v.s \in Odd THEN v.esc + 1 ELSE v.esc) ELSE v
EmitItem(v) == Dash(6, Quoted(v.s, v.esc))

EmitKeyShallow(first, k, v) ==
    IF v.t = "list" THEN <<Field(4, k, Bare)>> \o [i \in DOMAIN v.items |-> Dash(4, v.items[i])]
    ELSE IF first THEN <<Item(2, k, v)>> ELSE <<Field(4, k, v)>>
EmitKey(first, k, v) ==
    LET head(value) == IF first THEN Item(2, k, value) ELSE Field(4, k, value)
    IN  IF v.t # "list" THEN <<head(EmitScalar(v))>>
        ELSE IF v.items = << >> THEN <<head(Brackets)>>
        ELSE <<head(Bare)>> \o [i \in DOMAIN v.items |-> EmitItem(v.items[i])]

EmitRow(row) ==
    LET upto[n \in 0..Len(KeyOrder)] ==
            IF n = 0 THEN << >>
            ELSE IF KeyOrder[n] \notin DOMAIN row THEN upto[n - 1]
            ELSE upto[n - 1] \o EmitKey(upto[n - 1] = << >>, KeyOrder[n], row[KeyOrder[n]])
    IN  upto[Len(KeyOrder)]

Emit(rows) ==
    LET upto[n \in 0..Len(rows)] == IF n = 0 THEN <<Heading>> ELSE upto[n - 1] \o EmitRow(rows[n])
    IN  upto[Len(rows)]

(***************************************************************************)
(* Checks and the migration of a row.                                       *)
(***************************************************************************)
\* The v1.x fields; hmac_secret_hex stands for the ones treated alike.
Required == {"peer_id", "peer_id_cert_fingerprint", "revoked", "hmac_secret_hex"}
ValidScopes == {"peer_register", "audit_event_push", "audit_event_push_batch", "peer_revoke"}

Blank(v) == v.t = "word" /\ v.s = ""
\* str(value or "").strip(): an empty list is no text.
Text(row, k) ==
    IF k \notin DOMAIN row \/ row[k] = List(<< >>) THEN ""
    ELSE IF row[k].t = "word" THEN row[k].s ELSE row[k].t

LacksField(row) ==
    \E k \in Required : k \notin DOMAIN row \/ (Blank(row[k]) /\ k # "revoked")

AlreadyV2(row) == {"peer_id_spki_fingerprint", "scopes", "key_floor_verified_at"} \subseteq DOMAIN row
PureV2(rows) == rows # << >> /\ \A i \in DOMAIN rows : AlreadyV2(rows[i])

Violates(row) ==
    \/ Text(row, "peer_id_spki_fingerprint") = "" /\ Text(row, "peer_id_cert_fingerprint") = ""
    \/ "scopes" \notin DOMAIN row
    \/ row["scopes"].t # "list"
    \/ \E i \in DOMAIN row["scopes"].items : row["scopes"].items[i] \notin {Str(s) : s \in ValidScopes}
    \/ /\ Text(row, "peer_id_spki_fingerprint") # ""
       /\ ("key_floor_verified_at" \notin DOMAIN row \/ Blank(row["key_floor_verified_at"]))
Conforms(rows) == \A i \in DOMAIN rows : ~Violates(rows[i])

\* The two pins of a row are those of one certificate.
OneCertificate(row) ==
    LET spki == Text(row, "peer_id_spki_fingerprint")
        der == Text(row, "peer_id_cert_fingerprint")
    IN  spki # "" /\ der # "" => \E c \in Certs : c.der = der /\ c.spki = spki

\* Names, digests, times and scopes hold no quote.  What is left of a quoted
\* string keeps an escape if it had any.
ASSUME StringsAssumption ==
    /\ Hashed \subseteq Odd /\ Odd \subseteq Strings /\ "key: value" \in Strings
    /\ LeftEscaped \in [Hashed -> Odd] /\ LeftPlain \in [Hashed -> Strings]
    /\ \A s \in Hashed : LeftPlain[s] # s
    /\ ({"", "unknown", "now", "hmac"} \cup PeerIds \cup ValidScopes) \cap Odd = {}

\* A digest names its certificate.
ASSUME CertsAssumption ==
    /\ PeerIds \cup {"", "unknown", "now", "hmac"} \subseteq Strings
    /\ LET digests == Strings \ (Odd \cup {""})
       IN  CertsOf \in [PeerIds -> SUBSET [der : digests, spki : digests, floor : BOOLEAN]]
    /\ \A c, d \in Certs : c.der = d.der => c = d
    /\ NoCert \notin Certs

\* What an operator writes pairs no pins wrongly, and "now" is a time only the
\* tool writes.
ASSUME TextsAssumption ==
    /\ Authored \subseteq Seq(Lines) /\ Nothing \notin Seq(Lines)
    /\ \A text \in Authored : \A i \in DOMAIN Rows(text) :
          OneCertificate(Rows(text)[i]) /\ Text(Rows(text)[i], "key_floor_verified_at") # "now"

\* cert_inspector on the peer's file, and the legacy pin it must match.
Inspectable(row) == certs[Text(row, "peer_id")] # NoCert
PinUnchecked(row) == TRUE
PinMatches(row) ==
    Text(row, "peer_id_cert_fingerprint") \in {"", certs[Text(row, "peer_id")].der}

Migratable(row, skip) ==
    \/ AlreadyV2(row)
    \/ /\ Text(row, "peer_id") \in PeerIds
       /\ skip \/ (Inspectable(row) /\ PinMatches(row))

\* new_row.setdefault("scopes", [])
ScopedAll(row) == With(row, "scopes", List(<< Str("audit_event_push") >>))
Scoped(row) == IF "scopes" \in DOMAIN row THEN row ELSE With(row, "scopes", List(<< >>))

Pinned(row, spki, verified) ==
    With(With(row, "peer_id_spki_fingerprint", Str(spki)), "key_floor_verified_at", Str(verified))

Migrated(row, skip) ==
    IF AlreadyV2(row) THEN row
    ELSE Scoped(IF skip THEN Pinned(row, "", "unknown")
                ELSE Pinned(row, certs[Text(row, "peer_id")].spki, "now"))

BelowFloorNever(row) == FALSE
BelowFloor(row) == ~AlreadyV2(row) /\ ~certs[Text(row, "peer_id")].floor

(***************************************************************************)
(* A run.  "ok", "generic", "corrupt" and "nonconformant" are the exit      *)
(* codes 0, 1, 6 and 7.                                                     *)
(***************************************************************************)
Options == [mode: {"write", "dry", "verify"}, skip: BOOLEAN, certdir: BOOLEAN,
            out: {"in", "out", "none"}, backup: BOOLEAN]
ASSUME UsagesAssumption == Usages \subseteq Options
\* "unread": copied by a run that had read another text.  "moved": rendered of
\* rows with a key that only the line which opens a row may have.
Authors == {"operator", "tool", "unread", "moved"}
Readable(rows) == \A i \in DOMAIN rows : DOMAIN rows[i] \subseteq Identifiers
Exits == {"none", "ok", "generic", "corrupt", "nonconformant", "killed"}
Idle == [pc |-> "idle"]

BadUsage(o) == o.mode # "verify" /\ ((o.out = "none" /\ o.mode # "dry") \/ (~o.skip /\ ~o.certdir))

\* What main makes of the text it has read.
Verdict(o, text) ==
    IF text = Nothing THEN "generic"
    ELSE IF Parse(text).bad THEN "corrupt"
    ELSE LET rows == Rows(text)
             checked(otherwise) == IF Conforms(rows) THEN otherwise ELSE "nonconformant"
         IN  IF o.mode = "verify" THEN checked("ok")
             ELSE IF \E i \in DOMAIN rows : ~AlreadyV2(rows[i]) /\ LacksField(rows[i]) THEN "corrupt"
             ELSE IF ~PureV2(rows) THEN "migrate"
             ELSE IF o.mode = "dry" THEN "ok" ELSE checked("verbatim")

Finish(code) == run' = Idle /\ exit' = code /\ UNCHANGED excused

\* Up to the migration a run does nothing but read one file.
Start(o) ==
    /\ run = Idle
    /\ LET v == IF BadUsage(o) THEN "generic" ELSE Verdict(o, files["in"])
       IN  IF v \in Exits THEN Finish(v)
           ELSE /\ run' = [pc |-> IF v = "verbatim" THEN "backup" ELSE "migrate", o |-> o,
                           before |-> files["out"], text |-> files["in"], rows |-> Rows(files["in"]),
                           verbatim |-> v = "verbatim", warned |-> {}]
                /\ exit' = "none" /\ UNCHANGED excused
    /\ UNCHANGED <<files, author, certs, sidecars>>

Migrate ==
    /\ run.pc = "migrate"
    /\ LET rows == run.rows
           skip == run.o.skip
           new == [i \in DOMAIN rows |-> Migrated(rows[i], skip)]
           warned == {Text(row, "peer_id") : row \in
                         {r \in {rows[i] : i \in DOMAIN rows} : ~skip /\ BelowFloor(r)}}
       IN  \/ ~skip /\ Finish("generic")    \* cert_inspector cannot be imported, or raises
          \/ IF \E i \in DOMAIN rows : ~Migratable(rows[i], skip) THEN Finish("generic")
             ELSE IF run.o.mode = "dry" THEN Finish("ok")
             ELSE IF ~Conforms(new) THEN Finish("nonconformant")
             ELSE /\ run' = [run EXCEPT !.pc = "backup", !.rows = new, !.warned = warned]
                  /\ UNCHANGED <<exit, excused>>
    /\ UNCHANGED <<files, author, certs, sidecars>>

\* The copy itself is left out: nothing reads it again.
Backup ==
    /\ run.pc = "backup"
    /\ \/ run.o.backup /\ Finish("generic")
       \/ /\ run' = [run EXCEPT !.pc = "write"]
          /\ UNCHANGED <<exit, excused>>
    /\ UNCHANGED <<files, author, certs, sidecars>>

\* Atomic: a temporary file, then a rename.  A pure v2.0 text is read anew.
Write ==
    /\ run.pc = "write"
    /\ \/ /\ files' = [files EXCEPT ![run.o.out] = IF run.verbatim THEN files["in"] ELSE Emit(run.rows)]
          /\ author' = [author EXCEPT ![run.o.out] =
                           IF run.verbatim /\ files["in"] # run.text THEN "unread"
                           ELSE IF ~run.verbatim /\ ~Readable(run.rows) THEN "moved" ELSE "tool"]
          /\ run' = [run EXCEPT !.pc = "advise"]
          /\ UNCHANGED <<exit, excused>>
       \/ Finish("generic") /\ UNCHANGED <<files, author>>
    /\ UNCHANGED <<certs, sidecars>>

SidecarCounts(p) == run' = Idle /\ exit' = "generic"
SidecarFails(p) == run' = [run EXCEPT !.warned = @ \ {p}] /\ exit' = exit

Advise ==
    /\ run.pc = "advise"
    /\ \/ run.warned = {} /\ Finish("ok") /\ UNCHANGED sidecars
       \/ \E p \in run.warned :
             /\ sidecars' = sidecars \cup {p}
             /\ run' = [run EXCEPT !.warned = @ \ {p}]
             /\ UNCHANGED <<exit, excused>>
       \/ \E p \in run.warned : SidecarFails(p) /\ excused' = excused \cup {p} /\ UNCHANGED sidecars
    /\ UNCHANGED <<files, author, certs>>

(***************************************************************************)
(* The run's surroundings: it is killed; the operator edits the file, adds  *)
(* a v1.x row or puts the output in place; a certificate is renewed, under  *)
(* the same key or another.                                                 *)
(***************************************************************************)
Kill ==
    /\ run # Idle
    /\ run' = Idle /\ exit' = "killed"
    /\ excused' = excused \cup (IF run.pc = "advise" THEN run.warned ELSE {})
    /\ UNCHANGED <<files, author, certs, sidecars>>

Edited(text) ==
    /\ files' = [files EXCEPT !["in"] = text]
    /\ author' = [author EXCEPT !["in"] = "operator"]
    /\ exit' = "none"
    /\ UNCHANGED <<certs, sidecars, run, excused>>

NewRow(p) == <<Item(2, "peer_id", Str(p)), Field(4, "peer_id_cert_fingerprint", Str(certs[p].der)),
               Field(4, "revoked", Flag(FALSE)), Field(4, "hmac_secret_hex", Str("hmac"))>>

Operator ==
    \/ \E text \in Authored : (run = Idle \/ text \in Racing) /\ Edited(text)
    \/ \E p \in PeerIds :
          /\ run = Idle /\ files["in"] # Nothing /\ ~Parse(files["in"]).bad
          /\ Len(Rows(files["in"])) < MaxRows /\ certs[p] # NoCert
          /\ Edited(files["in"] \o NewRow(p))
    \/ /\ run = Idle /\ files["out"] # Nothing
       /\ files' = [files EXCEPT !["in"] = files["out"]]
       /\ author' = [author EXCEPT !["in"] = author["out"]]
       /\ exit' = "none"
       /\ UNCHANGED <<certs, sidecars, run, excused>>

\* A run reads a certificate once, so renewals between runs are enough.
Renew ==
    \E p \in PeerIds : \E c \in CertsOf[p] \cup {NoCert} :
        /\ run = Idle
        /\ certs' = [certs EXCEPT ![p] = c]
        /\ exit' = "none"
        /\ UNCHANGED <<files, author, sidecars, run, excused>>

Init ==
    /\ files \in {[f \in {"in", "out"} |-> IF f = "in" THEN text ELSE Nothing] :
                     text \in Authored \cup {Nothing}}
    /\ author = [f \in {"in", "out"} |-> "operator"]
    /\ certs \in [PeerIds -> Certs \cup {NoCert}]
    /\ \A p \in PeerIds : certs[p] \in CertsOf[p] \cup {NoCert}
    /\ sidecars = {} /\ run = Idle /\ exit = "none" /\ excused = {}

Run == Migrate \/ Backup \/ Write \/ Advise
Next == (\E o \in Usages : Start(o)) \/ Run \/ Kill \/ Operator \/ Renew
Spec == Init /\ [][Next]_vars

(***************************************************************************)
(* Properties                                                               *)
(***************************************************************************)
TypeOK ==
    /\ DOMAIN files = {"in", "out"}
    /\ author \in [{"in", "out"} -> Authors]
    /\ certs \in [PeerIds -> Certs \cup {NoCert}]
    /\ sidecars \subseteq PeerIds /\ excused \subseteq PeerIds
    /\ run.pc \in {"idle", "migrate", "backup", "write", "advise"}
    /\ exit \in Exits

\* A file the tool wrote can be parsed and conforms to v2.0, whenever it was
\* killed or failed.  Two exceptions the code leaves.  A pure v2.0 text is read
\* a second time to be copied, and what was put there meanwhile is not checked.
\* A key that is no identifier is read on the line that opens a row and written
\* on a line of its own: no run can parse what has been written, whose exit
\* code was 0.
ToolOutputConforms ==
    \A f \in {"in", "out"} :
        /\ author[f] = "tool" => files[f] # Nothing /\ ~Parse(files[f]).bad /\ Conforms(Rows(files[f]))
        /\ author[f] = "moved" => files[f] # Nothing /\ Parse(files[f]).bad

\* No row pairs the DER pin of one certificate with the SPKI pin of another,
\* through renewals, repeated runs and rows added by hand (F-003).
PinsAgree ==
    \A f \in {"in", "out"} : files[f] # Nothing =>
        \A i \in DOMAIN Rows(files[f]) : OneCertificate(Rows(files[f])[i])

\* A peer migrated on a certificate below the key floor has its advisory,
\* unless a kill or an I/O error came between the file and the sidecar: no
\* later run makes up for it (F-004).
AdvisoryLeft ==
    run = Idle =>
        \A f \in {"in", "out"} : files[f] # Nothing =>
            \A i \in DOMAIN Rows(files[f]) :
                LET row == Rows(files[f])[i]
                IN  (/\ Text(row, "key_floor_verified_at") = "now"
                     /\ \E c \in Certs : /\ ~c.floor /\ c.der = Text(row, "peer_id_cert_fingerprint")
                                        /\ c.spki = Text(row, "peer_id_spki_fingerprint"))
                    => Text(row, "peer_id") \in sidecars \cup excused

\* A run that fails leaves the output as it was ("no files written").
FailsLoud ==
    [][run # Idle /\ exit' \in {"generic", "corrupt", "nonconformant"} /\ run' = Idle /\ run.pc # "idle"
          => files'["out"] = run.before]_vars

\* A value with its layer of escapes, and the values _strip_comment cuts.
Layered(v) == IF v.t = "word" /\ v.s \in Odd THEN Word(v.s, v.esc + 1) ELSE v
Cut(v) ==
    \/ v.t = "word" /\ v.s \in Hashed
    \/ v.t = "list" /\ \E i \in DOMAIN v.items : v.items[i].s \in Hashed

\* What a migrated file says after it is parsed again, if its keys are
\* identifiers: every field of the input is there, a row that was v2.0 is the
\* same, nobody is given a scope, and an inspected row has its SPKI pin.  Every
\* row is v2.0, so that a second run copies the file.  A value is the same but
\* for a layer of escapes which an odd string gains with every rendering, and
\* is another one just when a # comes after an odd number of double quotes.
RenderingKeeps ==
    [][run.pc = "write" /\ ~run.verbatim /\ run'.pc = "advise" =>
          LET before == Rows(run.text)
              after == Rows(files'[run.o.out])
          IN  Readable(before) =>
              /\ DOMAIN after = DOMAIN before
              /\ before # << >> => PureV2(after)
              /\ \A i \in DOMAIN before :
                    LET a == before[i]  b == after[i]
                    IN  /\ \A k \in DOMAIN a :
                              AlreadyV2(a) \/ k \notin {"peer_id_spki_fingerprint", "key_floor_verified_at"}
                                  => (b[k] = Layered(a[k]) <=> ~Cut(a[k]))
                        /\ "scopes" \notin DOMAIN a => b["scopes"] = List(<< >>)
                        /\ ~AlreadyV2(a) /\ ~run.o.skip => Text(b, "peer_id_spki_fingerprint") # ""]_vars

=============================================================================
