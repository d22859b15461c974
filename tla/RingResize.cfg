SPECIFICATION RingSpec
CONSTANTS
    Maps = {none, m1, m2}
    EmptyMap = none
    NoSnapshot = missing
    DefaultCount = 3
    MaxCount = 5
INVARIANT EveryResizeIsPossible
