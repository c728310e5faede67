\* One worker of each type; two deliveries.
SPECIFICATION Spec
CONSTANTS
    m1 = m1
    m2 = m2
    Messages = {m1, m2}
    Kinds = {"streaming_pull", "exactly_once", "schema_enforce", "publish_pull_round_trip",
             "dead_letter", "cross_protocol_interop", "inflight_cap"}
SYMMETRY MCSymmetry
INVARIANTS NoFalseFailure TestedIsJudged SchemaAlwaysJudged UnreconciledNotOvercounted
