SPECIFICATION Spec
CONSTANTS
    Ann = Ann
    Bob = Bob
    Auth = Auth
    Account = {Ann, Bob, Auth}
    Authority = Auth
    Operator = Auth
    Signed = {1}
    Built = {2, 3}
    Shape <- MCShape
    Funds <- MCFunds
    Stamps = {0, 1}
    NotMade = NotMade
    MaxAge = 2
    BatchTimeout = 1
    MaxTxPerBlock = 4
    MaxPosts = 3
    MaxOpen = 1
    MaxCrashes = 0
PROPERTIES
    MinesWhenFull
