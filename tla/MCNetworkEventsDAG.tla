------------------------- MODULE MCNetworkEventsDAG -------------------------
(***************************************************************************)
(* Model checking of NetworkEventsDAG: two runs that may overlap, two      *)
(* captures, two clearances.                                                *)
(***************************************************************************)
EXTENDS NetworkEventsDAG, TLC

CONSTANTS r1, r2

MCRun    == {r1, r2}
Symmetry == Permutations(MCRun)
=============================================================================
