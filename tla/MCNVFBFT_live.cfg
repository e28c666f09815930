SPECIFICATION TimelySpec
CONSTANTS
    Node = {1, 2, 3}
    Authority = 1
    InitRegistered = {1, 2, 3}
    InitPeers <- AllPeers
    InitUp <- Everyone
    Genesis <- OneGenesis
    Tx = {1, 2}
    Paid = {}
    FeeBearing = {}
    Expiring = {}
    Registers <- AdmitsNobody
    Clients <- ClientsOfFirst
    Forwarded = {1, 2}
    NoRound = NoRound
    MaxBlocks <- TwoEach
    MaxCrashes = 0
INVARIANTS
    FinalityQuorum
    SettledAgreement
PROPERTIES
    PendingConfirmed
CHECK_DEADLOCK FALSE
