----------------------------- MODULE MCSurfaces -----------------------------
(* Instances of Surfaces for TLC.                                          *)
EXTENDS Surfaces

CONSTANTS b0, b1, b2, m, odd

MCBodies   == {b0, b1, b2}
MCLegacy   == {b0}
MCAdopters == {m, odd}
MCOdd      == {odd}
=============================================================================
