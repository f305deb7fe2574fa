------------------------------- MODULE MCPeers -------------------------------
(* Two peers: p1's certificate may be replaced, p2's is below the key floor. *)
(* The texts cover both generations, a mixture, and what the checks         *)
(* are there to refuse.                                                      *)
EXTENDS Peers

Cert(der, spki, floor) == [der |-> der, spki |-> spki, floor |-> floor]
MCCertsOf == [p \in {"p1", "p2"} |->
                 IF p = "p1" THEN {Cert("d1", "s1", TRUE), Cert("d2", "s2", TRUE)}
                 ELSE {Cert("d3", "s3", FALSE)}]

MCStrings == {"", "p1", "p2", "d1", "d2", "d3", "s1", "s2", "s3", "hmac", "now", "earlier", "unknown",
              "odd", "hashed", "left", "n", "key: value", "audit_event_push", "everything"}

V1(p, der) == <<Item(2, "peer_id", Str(p)), Field(4, "peer_id_cert_fingerprint", Str(der)),
                Field(4, "revoked", Flag(FALSE)), Field(4, "hmac_secret_hex", Str("hmac"))>>
V2(p, scope, note) == <<Item(2, "peer_id", Str(p)), Field(4, "peer_id_cert_fingerprint", Str("d1")),
                  Field(4, "peer_id_spki_fingerprint", Str("s1")), Field(4, "scopes", Bare),
                  Dash(6, Str(scope)), Field(4, "key_floor_verified_at", Str("earlier")),
                  Field(4, "note", Str(note))>>
\* A row that begins with a key of its own, and one with a list of its own.
Named(p, der) == <<Item(2, "display-name", Str("n")), Field(4, "peer_id", Str(p))>> \o Tail(V1(p, der))
Noted(p, der) == V1(p, der) \o <<Field(4, "note", Bare), Dash(6, Str("n")), Dash(6, Str("hashed"))>>

Mixed == <<Heading>> \o V2("p1", "audit_event_push", "odd") \o Noted("p2", "d3")
MCAuthored == {Mixed,
               <<Heading>> \o V2("p1", "audit_event_push", "hashed"),
               <<Heading>> \o V1("p1", "d1") \o V1("p2", "d3"),
               <<Heading>> \o Named("p1", "d1") \o V1("p2", "d3"),
               <<Heading>> \o V2("p1", "everything", "n"),         \* not a scope
               <<Heading>> \o V1("", "d1") \o V1("p2", "d3"),      \* a required field is empty
               <<Heading>> \o V1("p1", "d1") \o <<Field(2, "note", Str("n"))>>}
MCRacing == {<<Heading>> \o V2("p1", "everything", "n")}
MCLeft == [s \in {"hashed"} |-> "left"]

\* Without --out only a dry run or a verification may be asked for.
Use(mode, skip, out, backup) ==
    [mode |-> mode, skip |-> skip, certdir |-> ~skip, out |-> out, backup |-> backup]
MCUsages == {Use("write", FALSE, "out", FALSE), Use("write", FALSE, "in", FALSE),
             Use("write", TRUE, "in", TRUE), Use("dry", FALSE, "none", FALSE),
             Use("verify", FALSE, "none", FALSE), Use("write", FALSE, "none", TRUE)}
=============================================================================
