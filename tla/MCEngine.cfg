\* Runs one after the other, with stops, failures and signals at every point.
SPECIFICATION Spec
CONSTANTS
    NumGroups = 2
    MaxRuns = 2
    HastyClient = FALSE
INVARIANTS VerdictIsOwn WorkersStopped DrainsWithReceivers  ShutdownWaitsForRun
PROPERTIES ImplementsLifecycle
