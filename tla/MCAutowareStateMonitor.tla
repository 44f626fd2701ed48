----------------------- MODULE MCAutowareStateMonitor -----------------------
(* The state monitor with three routes, which no action tells apart.       *)
EXTENDS AutowareStateMonitor, TLC

CONSTANTS r1, r2, r3
MCRoutes == {r1, r2, r3}
RouteSymmetry == Permutations(MCRoutes)
=============================================================================
