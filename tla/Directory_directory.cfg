SPECIFICATION Spec
CONSTANTS
    Node = {n1, n2, n3}
    Fallback = {n1}
    NodeTtl = 2
    Interval = 1
    MaxStarts = 3
    MaxLost = 1
INVARIANTS
    TypeOK
    ListedWhileServing
    KnownUnlessOverlapped
PROPERTIES
    AnnouncementsEnd
