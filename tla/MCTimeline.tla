------------------------------ MODULE MCTimeline ------------------------------
(***************************************************************************)
(* The instance of Timeline: two requests that may overlap.                *)
(***************************************************************************)
EXTENDS Timeline, TLC

MCAlike == Permutations(Gets)

=============================================================================
