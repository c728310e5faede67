\* Each type of worker, from its warmup to its stop, against a connector that reorders,
\* redelivers, loses and refuses messages.
SPECIFICATION Spec
CONSTANTS
    p1 = p1
    s1 = s1
    s2 = s2
    Kinds <- AllKinds
    Producers = {p1}
    Subs = {s1, s2}
    BatchSize = 2
    Window = 2
    MaxPublish <- MCMaxPublish
    MaxFaults = 1
    BacklogTarget = 3
    PullBatch = 2
    Cap = 3
    OrderingKeyCount = 2
    MaxAttempts = 2
INVARIANTS   NackedComesBack HeldLeasesReleased
     ReconcileExact AttemptsSurface
CHECK_DEADLOCK FALSE
