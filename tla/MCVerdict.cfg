SPECIFICATION Spec
CONSTANTS
    Kinds <- MCKinds
    StartupKinds <- MCStartupKinds
    NumChannels = 2
    MaxRuns = 2
    EnabledSets <- MCEnabledSets
    MaxDeviations <- MCMaxDeviations
INVARIANTS
    
    NothingMasked
    ReportAgrees
CHECK_DEADLOCK FALSE
