SPECIFICATION Spec
CONSTANTS
    n1 = n1  n2 = n2  p1 = p1
    Alphabet = {n1, n2}
    NotaryDisabled = TRUE
    BlockDiff = 0
    MaxHeight = 1
    Peers = {p1}
    RingLists <- NoRingLists
    Settings <- NoSettings
    NoSnapshot = NoSnapshot
    DefaultCount = 1
    MaxCount = 1
    Counts = {}
    EpochSteps = {1}
    MaxEpoch = 2
PROPERTIES ChangesAreApproved EpochsGoForward
SYMMETRY NodeSymmetry
CHECK_DEADLOCK FALSE
