SPECIFICATION Spec
CONSTANTS
    zone = zone  cdn = cdn  a = a  b = b  c1 = c1  c2 = c2  alice = alice
    Alphabet = {n1, n2}
    NotaryDisabled = FALSE
    BlockDiff = 0
    MaxHeight = 0
    Domains = {zone, a, cdn, b}
    ParentOf <- TwoZones
    EndingIn <- NoSuffixes
    Holders = {committee, "Container contract"}
    Committee = committee
    Year = 1
    MaxTime = 3
    Containers = {c1, c2}
    OwnerOf <- OneOwner
    Puts <- RivalPuts
    Rules = {}
    EstimationIds <- OneStart
    FirstFunds <- Funds
    ContainerFee = 1
    AliasFee = 0
    OwnZone = zone
    DefaultExpire = 2
    OtherData = other
INVARIANT DeletesArePossible
CHECK_DEADLOCK FALSE
