----------------------------- MODULE MCPairRail -----------------------------
(* PairRail: a tool older than the manifest, the one of the manifest, a newer *)
(* one, and one with a payload of its own; trees whose inputs or pins differ. *)
EXTENDS PairRail

Pin(min, package, sha) ==
    [range |-> "ok", min |-> min, max |-> 0, binary |-> "", manifest |-> "ok",
     package |-> package, payloads |-> [linux |-> sha]]
MCFirst == [inputs |-> "i1", pin |-> Pin(2, 2, "sha2")]
MCTrees == {
    MCFirst,
    [inputs |-> "i2", pin |-> Pin(2, 2, "sha2")],
    [inputs |-> "i1", pin |-> Pin(3, 3, "sha3")],
    [inputs |-> "unreadable", pin |-> [Pin(2, 2, "sha2") EXCEPT !.manifest = "unreadable"]] }
MCTools == {
    [cli |-> 1, triple |-> "linux", sha |-> "sha1"],
    [cli |-> 2, triple |-> "linux", sha |-> "sha2"],
    [cli |-> 2, triple |-> "linux", sha |-> "sha9"],
    [cli |-> 3, triple |-> "linux", sha |-> "sha3"] }
=============================================================================
