----------------------------- MODULE MCWorkers -----------------------------
(* Workers, instantiated for TLC. *)
EXTENDS Workers

CONSTANTS p1, s1, s2

(* The types whose messages are delivered twice or more are explored with two less. *)
MCMaxPublish ==
    [k \in Kinds |-> IF k \in {"fan_out", "nack_redelivery", "dead_letter"} THEN 3 ELSE 5]
=============================================================================
