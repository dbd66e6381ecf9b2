CONSTANTS
    s1 = s1
    s2 = s2
    NoPeer = NoPeer
    Peers <- TwoPeers
    PK <- MCPK
    Substreams <- OneSubstream
    MaxSessions = 2
    MaxBlocks = 1
SPECIFICATION FairSpec
PROPERTIES
    ChangeSpec
    EmptiedOnlyByMove
    Repaired
    Settled
    CandidatesSettled
