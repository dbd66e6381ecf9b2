CONSTANTS
    s1 = s1
    s2 = s2
    NoPeer = NoPeer
    Peers <- OnePeer
    PK <- MCPK
    Substreams <- TwoSubstreams
    MaxSessions = 2
    MaxBlocks = 0
SPECIFICATION Spec
INVARIANT CandidateOwned
PROPERTIES
    PKSourceKept
    SourceKept
    RecordsSpec
SYMMETRY Symmetry
