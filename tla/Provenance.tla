---------------------------- MODULE Provenance -----------------------------
(***************************************************************************)
(* What the installer suite promises an adopter, whatever tool runs and    *)
(* however often: a tool replaces or removes an adopter's bytes only once  *)
(* they are archived, it never produces adopter bytes, and it never thins  *)
(* an archive out.  Losing a file takes the adopter's own hand or explicit *)
(* consent (uninstall.sh --force --no-backup).                             *)
(*                                                                         *)
(* scripts/upgrade.sh:16-20, scripts/uninstall.sh:5-8, scripts/doctor.sh   *)
(* 18-50 each state a part of it.                                          *)
(***************************************************************************)
CONSTANTS Files, Adopter, NoFile

VARIABLES
  live,     \* what the tree holds
  archive,  \* what the archives hold of each path
  mine      \* what the adopter last wrote at each path

avars == <<live, archive, mine>>

AInit ==
  /\ live = [f \in Files |-> NoFile]
  /\ mine = [f \in Files |-> NoFile]
  /\ archive = [f \in Files |-> {}]

AdopterActs ==
  /\ \E f \in Files, c \in Adopter \cup {NoFile} :
       /\ live' = [live EXCEPT ![f] = c]
       /\ mine' = [mine EXCEPT ![f] = c]
  /\ archive' = archive

(* A tool archives, or changes files whose bytes it may change.            *)
ToolActs ==
  /\ \A f \in Files :
       /\ archive[f] \subseteq archive'[f]
       /\ live'[f] # live[f] => /\ live'[f] \notin Adopter
                                /\ live[f] \in Adopter => live[f] \in archive[f]
  /\ mine' = mine

(* The file of a consenting adopter goes without a copy.                   *)
AdopterConsents ==
  /\ \E f \in Files :
       /\ live' = [live EXCEPT ![f] = NoFile]
       /\ mine' = [mine EXCEPT ![f] = NoFile]
  /\ archive' = archive

ANext == AdopterActs \/ ToolActs \/ AdopterConsents

ASpec == AInit /\ [][ANext]_avars
=============================================================================
