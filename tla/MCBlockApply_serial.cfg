SPECIFICATION Spec
CONSTANTS
    Alice = Alice
    Bob = Bob
    Cid = Cid
    Account = {Alice, Bob}
    Token = {Cid}
    NoOwner = NoOwner
    NoToken = NoToken
    NoBlock = NoBlock
    Genesis <- MCGenesis
    Offered <- MCOffered
    Thread = {1}
    FeesRefused = {5}
    Client = {2}
    MaxCrashes = 1
    MaxErrors = 1
INVARIANTS
    TypeOK
    Linked
    BooksReplay
    RecordedNotPending
PROPERTIES
    ImplementsLedger
