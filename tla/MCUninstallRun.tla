--------------------------- MODULE MCUninstallRun ---------------------------
(***************************************************************************)
(* An instance of UninstallRun: a path below .claude, two outside it that  *)
(* may be names of one inode, two contents, up to three records.           *)
(***************************************************************************)
EXTENDS UninstallRun

CONSTANTS x, y

MCPaths  == {"hook", "doc", "spec"}
MCHidden == {"hook"}

MCRecords == [kind : {"file"}, path : MCPaths, digest : Digests]
               \cup [kind : {"other"}, path : {"doc"}, digest : {x}]

(* Every manifest of up to two records; three hash records, the first of   *)
(* them with digest x: exchanging x and y gives the others.                *)
MCManifests ==
  UNION {[1..n -> MCRecords] : n \in 0..2}
    \cup {m \in [1..3 -> {r \in MCRecords : r.kind = "file"}] : m[1].digest = x}

MCInodes == {[p \in MCPaths |-> p],
             [p \in MCPaths |-> IF p = "hook" THEN p ELSE "doc"]}
=============================================================================
