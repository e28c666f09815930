SPECIFICATION Spec
CONSTANTS
    Node = {1, 2}
    Authority = 1
    InitRegistered = {1, 2}
    InitPeers <- AllPeers
    InitUp <- Everyone
    Genesis <- OneGenesis
    Tx = {1}
    Paid = {1}
    FeeBearing = {}
    Expiring = {}
    Registers <- AdmitsNobody
    Clients <- ClientsOfAll
    Forwarded = {}
    NoRound = NoRound
    MaxBlocks <- ByWallet
    MaxCrashes = 0
INVARIANTS
    TypeOK
    FinalityQuorum
    SameHistory
CHECK_DEADLOCK FALSE
