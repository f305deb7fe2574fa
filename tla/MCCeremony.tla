----------------------------- MODULE MCCeremony -----------------------------
(* Ceremony, with every patcher and every way plan094 is called. *)
EXTENDS Ceremony

MCCeremonies == {{"plan093", "plan094"}, {"kernel", "fixes", "fixes2"}}
MCModes == {"checked", "unchecked", "dry"}
=============================================================================
