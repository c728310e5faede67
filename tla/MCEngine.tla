------------------------------ MODULE MCEngine ------------------------------
(* The engine with small bounds, for TLC; the constants are given in the cfg files. *)
EXTENDS Engine
=============================================================================
