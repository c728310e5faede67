\* cmd/cleanup for the default prefix beside an agent whose prefix extends it.
SPECIFICATION Spec
CONSTANTS
    a1 = a1
    a2 = a2
    Agents = {a1, a2}
    Prefix <- Nested
    Scenarios <- OnlyShared
    MaxRuns <- Runs
    MaxFaults = 0
INVARIANT OthersUndisturbed
CHECK_DEADLOCK FALSE
