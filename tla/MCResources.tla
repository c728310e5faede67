---------------------------- MODULE MCResources ----------------------------
(* Two agents.  The first has two runs, the second one. *)
EXTENDS Resources, TLC

CONSTANTS a1, a2

Apart == (a1 :> <<"gcp_burnin_go">>) @@ (a2 :> <<"gcp_burnin_java">>)
Nested == (a1 :> <<"gcp_burnin">>) @@ (a2 :> <<"gcp_burnin", "_go">>)

Run(kinds, settings) == [kinds |-> kinds, settings |-> settings]

(* One agent with every worker type, and a run of two that asks for other settings. *)
AnyWorker ==
    [configs |-> (a1 :> {Run(<<k>>, 1) : k \in {"publish_pull_round_trip", "ordering_keys",
                            "fan_out", "exactly_once", "dead_letter", "streaming_pull",
                            "cross_protocol_interop", "nack_redelivery", "filtering",
                            "schema_enforce", "inflight_cap"}}
                        \cup {Run(<<"schema_enforce", "seek_snapshot">>, 2)}) @@ (a2 :> {}),
     cleaned |-> {a1}, checks |-> <<>>]

(* Two agents and both tools at once. *)
Shared ==
    [configs |-> (a1 :> {Run(<<"seek_snapshot">>, 1)}) @@ (a2 :> {Run(<<"schema_enforce">>, 1)}),
     cleaned |-> {a1, a2}, checks |-> <<"rt", "interop">>]

Both == {AnyWorker, Shared}
OnlyShared == {Shared}
Runs == (a1 :> 2) @@ (a2 :> 1)
=============================================================================
