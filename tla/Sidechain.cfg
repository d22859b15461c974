SPECIFICATION SideSpec
CONSTANTS
    alice = alice  lock1 = lock1
    n1 = n1
    Alphabet = {n1}
    NotaryDisabled = FALSE
    BlockDiff = 0
    MaxHeight = 0
    Peers = {p1}
    RingLists <- OneRingList
    Settings <- OneSetting
    NoSnapshot = NoSnapshot
    DefaultCount = 2
    MaxCount = 3
    Counts = {1, 3}
    EpochSteps = {1, 3}
    MaxEpoch = 6
    Containers = {c1}
    Users = {alice}
    LockAccounts = {lock1}
    Locks <- OneWithdrawal
    FirstAccounts <- Accounts
INVARIANTS TypeOK SnapshotsAreOfTheirEpochs OldEstimationsAreRemoved
PROPERTIES NetworkMapFixedInEpoch EstimationsAreKept EstimationsAreOfThePreviousMap LocksEndWithTheirEpoch
CHECK_DEADLOCK FALSE
