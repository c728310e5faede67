\* Two producers share the tracker; no delivery is more than two windows ahead.
SPECIFICATION Spec
CONSTANTS
    p1 = p1
    p2 = p2
    Producers = {p1, p2}
    Window = 2
    MaxSeq = 7
    Ahead = 5
    MaxCalls = 6
SYMMETRY MCSymmetry
INVARIANTS LossNotUnderreported FalseLossOnlyFromSliders
PROPERTIES DuplicateIsRedelivery
