SPECIFICATION Spec
CONSTANTS
    Alice = Alice
    Bob = Bob
    Cid = Cid
    Account = {Alice, Bob}
    Token = {Cid}
    NoOwner = NoOwner
    NoToken = NoToken
    NoBlock = NoBlock
    Genesis <- MCGenesis
    Offered <- MCOffered
    Thread = {1, 2}
    FeesRefused = {5}
    Client = {2}
    MaxCrashes = 0
    MaxErrors = 0
INVARIANTS
    BooksReplay
