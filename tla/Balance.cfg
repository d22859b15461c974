SPECIFICATION MCSpec
CONSTANTS
    alice = alice  bob = bob  lock1 = lock1  lock2 = lock2
    d1 = d1  d2 = d2  w1 = w1  w2 = w2
    Users = {alice, bob}
    LockAccounts = {lock1, lock2}
    Alphabet = {n1, n2, n3, n4}
    NotaryDisabled = TRUE
    Mints <- TwoDeposits
    Locks <- TwoWithdrawals
    Burns <- TwoCheques
    Payments <- SomePayments
    BlockDiff = 1
    MaxHeight = 2
    MaxEpoch = 3
    MaxPayments = 2
INVARIANTS TypeOK SupplyMatchesBalances 
PROPERTIES OwnersKeepTheirAssets DebitsAreAuthorised LocksHoldUntilTheirEpoch
SYMMETRY NodeSymmetry
CHECK_DEADLOCK FALSE
