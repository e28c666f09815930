SPECIFICATION Spec
CONSTANTS
    n1 = n1
    n2 = n2
    Node = {n1, n2}
    Backend <- MCBackend
    Wallet = {w1, w2}
    Cid = {cid}
    Total = 1
    Royalty = {"none", "part"}
    Nobody = Nobody
    NoRecord = NoRecord
    NoSale = NoSale
    MaxTx = 3
    MaxPosts = 1
    MaxLog = 3
SYMMETRY Wallets
INVARIANTS
    TypeOK
    OwnersReplay
    RoyaltyFirst
PROPERTIES
    CreatorFixed
    CheckedHolds
CHECK_DEADLOCK FALSE
