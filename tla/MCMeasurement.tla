--------------------------- MODULE MCMeasurement ---------------------------
(* The measurement of one worker of each type, for TLC. *)
EXTENDS Measurement, TLC

CONSTANTS m1, m2

MCSymmetry == Permutations(Messages)
=============================================================================
