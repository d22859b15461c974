SPECIFICATION StorageSpec
CONSTANTS
    n1 = n1  n2 = n2  n3 = n3
    Nodes = {n1, n2, n3}
    Committees <- ShrinkingCommittees
    Decisions = {d1, d2}
    BlockDiff = 1
    MaxHeight = 2
    MaxRounds = 1
    Maps = {none, m1, m2}
    EmptyMap = none
    NoSnapshot = missing
    DefaultCount = 3
    MaxCount = 5
INVARIANTS NoDuplicates RingTypeOK RingWellFormed
PROPERTIES RefinesVoteDecision RemovesItsOwnBallot RefinesHistory
CHECK_DEADLOCK FALSE
