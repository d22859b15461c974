SPECIFICATION RegistriesSpec
CONSTANTS
    cnr = cnr  com = com  site = site  sub = sub
    c1 = c1  alice = alice  bob = bob  acl = acl  v1 = v1  v2 = v2  k1 = k1  k2 = k2
    Alphabet = {n1, n2}
    NotaryDisabled = TRUE
    BlockDiff = 0
    MaxHeight = 1
    Domains = {cnr, com, site, sub}
    ParentOf <- Parents
    EndingIn <- NoLongerNames
    Holders = {committee, alice, "Container contract"}
    Committee = committee
    Year = 1
    MaxTime = 2
    Containers = {c1}
    OwnerOf <- OnlyOwner
    Puts <- OnePut
    Rules <- OneRule
    EstimationIds <- OneStop
    FirstFunds <- Funds
    ContainerFee = 1
    AliasFee = 0
    OwnZone = cnr
    DefaultExpire = 2
    OtherData = other
    Contents = {d1}
    Subnets = {s1, s2}
    SubnetOwners = {alice, bob}
    Infos = {i1}
    Admins = {adm}
    SubnetNodes = {m1}
    Groups = {g1}
    SubnetUsers = {u1}
    Reputations <- SomeReports
    Audits <- DistantAudits
    MaxReports = 2
    Index = 1
    RingNodes = {r1, r2}
    Yields = {1, 7, 16}
    Nominations <- OneNomination
    LastEpoch = 1
    MaxGas = 24
INVARIANT ListingsAreOfTheirEpoch
CHECK_DEADLOCK FALSE
