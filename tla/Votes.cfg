SPECIFICATION FairSpec
CONSTANTS
    n1 = n1  n2 = n2  n3 = n3  n4 = n4  n5 = n5  outsider = outsider
    Nodes = {n1, n2, n3, n4, n5, outsider}
    Committees <- RotatingCommittees
    Decisions = {d1}
    BlockDiff = 1
    MaxHeight = 2
    MaxRounds = 2
INVARIANTS AtMostOnce NeverOverdue
PROPERTIES FreshQuorum NoSilentGap RetriesSucceed
CHECK_DEADLOCK FALSE
