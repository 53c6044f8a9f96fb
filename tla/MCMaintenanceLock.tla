--------------------------- MODULE MCMaintenanceLock ---------------------------
(* Instances of MaintenanceLock for TLC.                                   *)
EXTENDS MaintenanceLock

CONSTANTS c1, c2, c3

TwoContenders   == {c1, c2}
ThreeContenders == {c1, c2, c3}
=============================================================================
