-------------------------- MODULE MCRouteCoordinator --------------------------
(* Instances of RouteCoordinator for TLC.                                  *)
EXTENDS RouteCoordinator

CONSTANTS r1, r2

OneRequest  == {r1}
TwoRequests == {r1, r2}
=============================================================================
