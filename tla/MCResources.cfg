\* One agent with every worker type, and two agents with cmd/cleanup and cmd/verify.
SPECIFICATION Spec
CONSTANTS
    a1 = a1
    a2 = a2
    Agents = {a1, a2}
    Prefix <- Apart
    Scenarios <- Both
    MaxRuns <- Runs
    MaxFaults = 1
INVARIANTS StartFailsOnlyOnFault HandlesClosed  CleanupComplete
    OthersUndisturbed SettingsAsAsked VerifyLeavesNothing
CHECK_DEADLOCK FALSE
