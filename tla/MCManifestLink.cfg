CONSTANTS
    NoChild = NoChild
    Children <- OneChild
    Me = 1
    SubStreamNum = 1
    MaxSessions = 2
    MaxLinks = 2
SPECIFICATION ManifestFairSpec
PROPERTIES
    MissingOnlyByListing
    ExcessOnlyBySelection
    Answered
CHECK_DEADLOCK FALSE
