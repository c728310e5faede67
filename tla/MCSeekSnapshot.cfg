\* Rounds of both kinds in the warmup and in the measurement, cut off anywhere.
SPECIFICATION FairSpec
CONSTANTS
    SeekReplayCount = 3
    PullBatch = 3
    MaxRounds = 2
    MaxFaults = 1
INVARIANTS  SnapshotsCleanedUp
PROPERTIES DriverStops
CHECK_DEADLOCK FALSE
