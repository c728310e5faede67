----------------------------- MODULE MCTracker -----------------------------
(* The tracker with small bounds, for TLC. *)
EXTENDS Tracker, TLC

CONSTANTS p1, p2

MCSymmetry == Permutations(Producers)
=============================================================================
