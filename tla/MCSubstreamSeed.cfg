CONSTANTS
    s1 = s1
    s2 = s2
    NoPeer = NoPeer
    Peers <- TwoPeers
    PK <- MCPK
    Substreams <- OneSubstream
    MaxSessions = 1
    MaxBlocks = 0
SPECIFICATION Spec
PROPERTY SeedDetachesAll
