SPECIFICATION BridgeSpec
CONSTANTS
    alice = alice  bob = bob  lock1 = lock1
    n1 = n1  n2 = n2  n3 = n3  multisig = multisig
    d1 = d1  t1 = t1  a1 = a1  c1 = c1
    Users = {alice, bob}
    LockAccounts = {lock1}
    Alphabet = {multisig}
    NotaryDisabled = FALSE
    Mints <- MintsOfDeposits
    Locks <- LocksOfWithdrawals
    Burns <- BurnsOfWithdrawals
    Payments <- PaymentToAlice
    BlockDiff = 0
    MaxHeight = 0
    MaxEpoch = 2
    MaxPayments = 1
    Nodes = {n1, n2, n3}
    FirstAlphabet = {n1, n2}
    FirstConfig <- FirstFees
    FirstGas <- GasOfUsers
    Deposits <- OneDeposit
    SilentDeposits <- LargeSilentDeposit
    Withdrawals <- OneWithdrawal
    Candidates = {n3}
    AlphabetUpdates <- NewAlphabet
    Settings <- NoFee
    MaxAmount = 2
    MainNotaryDisabled = TRUE
    MainMaxHeight = 1
    LockAccountOf <- LockAddresses
    LockEpochs = 2
INVARIANTS BridgeTypeOK GasBacksTheSupply LocksCoverTheirCheques
CHECK_DEADLOCK FALSE
