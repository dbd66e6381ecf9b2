SPECIFICATION FairSpec
CONSTANTS
    Header = 2
    Payloads <- MCPayloads
    SndBuf = 5
    MaxPending = 3
    MaxPosts = 2
PROPERTIES ChannelSpec Delivered
CHECK_DEADLOCK FALSE
