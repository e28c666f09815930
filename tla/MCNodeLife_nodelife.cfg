SPECIFICATION Spec
CONSTANTS
    p1 = p1
    p2 = p2
    Hash = {"none", "bad", "g", "o", "a1", "a2", "a3", "b2", "n1", "n2", "n3", "n"}
    Mismatch = "bad"
    Peer = {p1, p2}
    Held <- MCHeld
    Start <- MCStart
    Genesis <- MCGenesis
    OwnGenesis <- MCOwnGenesis
    SyncChunkSize = 2
    Plugins <- MCPlugins
    Asking = {}
    Hooks = 2
    NewHash <- OwnHash
    NoBlock = NoBlock
    MaxReady = 1
    MaxHeight = 3
    MaxStops = 1
INVARIANTS
    TypeOK
    Linked
    SyncTruth
    ToldInOrder
    ToldAll
PROPERTIES
    SyncEnds
    StatusAnswered
CHECK_DEADLOCK FALSE
