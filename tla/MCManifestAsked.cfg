CONSTANTS
    NoChild = NoChild
    Children <- OneChild
    Me = 1
    SubStreamNum = 1
    MaxSessions = 2
    MaxLinks = 2
SPECIFICATION ManifestSpec
PROPERTIES
    SelectedIsAsked
CHECK_DEADLOCK FALSE
