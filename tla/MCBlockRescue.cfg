CONSTANTS
    a = a
    b = b
    c = c
    PK = PK
    Clients <- Three
    DataTimeout = 3
    BlockTime = 5
    Interval = 2
    MaxHops = 2
    MaxLag = 0
    MaxFaults = 2
    MaxMoves = 1
SPECIFICATION OrderedSpec
PROPERTIES
    OnlyHeadsRescue
    BlocksPassOn
    Repaired
    Calm
    FloodEnds
