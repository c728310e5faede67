\* Every run that can end does, and the process exits once it is told to.
SPECIFICATION FairSpec
CONSTANTS
    NumGroups = 3
    MaxRuns = 1
    HastyClient = FALSE
PROPERTIES RunsEnd ShutdownEnds
