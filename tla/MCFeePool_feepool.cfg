SPECIFICATION Spec
CONSTANTS
    Ann = Ann
    Bob = Bob
    Auth = Auth
    Account = {Ann, Bob, Auth}
    Authority = Auth
    Operator = Auth
    Signed = {1}
    Built = {2, 3}
    Shape <- MCShape
    Funds <- MCFunds
    Stamps <- MCStamps
    NotMade = NotMade
    MaxAge = 1
    BatchTimeout = 1
    MaxTxPerBlock = 3
    MaxPosts = 2
    MaxOpen = 2
    MaxCrashes = 1
INVARIANTS
    TypeOK
    StoredOnce
    FeesWithTx
    ChargedOnce
    Conserved
PROPERTIES
    PoolDrains
