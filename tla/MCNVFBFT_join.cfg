SPECIFICATION Spec
CONSTANTS
    Node = {1, 2}
    Authority = 1
    InitRegistered = {1}
    InitPeers <- NoPeers
    InitUp <- Everyone
    Genesis <- OneGenesis
    Tx = {2, 9}
    Paid = {9}
    FeeBearing = {9}
    Expiring = {9}
    Registers <- AdmitsItself
    Clients <- ClientsOfAll
    Forwarded = {}
    NoRound = NoRound
    MaxBlocks <- TwoEach
    MaxCrashes = 0
INVARIANTS
    CertificatesGenuine
    SybilCertificates
    RegisteredSound
    SoloOnlyAuthority
CHECK_DEADLOCK FALSE
