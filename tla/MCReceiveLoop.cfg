\* The fan_out worker with two subscriptions under forced disconnects.
SPECIFICATION Spec
CONSTANTS
    s1 = s1
    s2 = s2
    Subs = {s1, s2}
    MaxDisconnects = 2
    MaxFailures = 1
INVARIANTS
    ReconnectionsJustified
    
PROPERTIES
    NoChurnDuringStop
    Reestablished
    
CHECK_DEADLOCK FALSE
