--------------------------- MODULE MCSeekSnapshot ---------------------------
(* SeekSnapshot, instantiated for TLC. *)
EXTENDS SeekSnapshot
=============================================================================
