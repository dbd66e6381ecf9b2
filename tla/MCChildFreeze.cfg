CONSTANTS
    p1 = p1
    Players = {}
    Size = 1
    Window = 1
    MaxSeq = 1
    NoChild = NoChild
    Children <- ThreeChildren
    SubStreamNum = 1
    MaxSessions = 3
    MaxLinks = 3
    MaxFreezes = 2
SPECIFICATION SelectedFairSpec
PROPERTIES
    StackSpec
    StarvedReleased
CHECK_DEADLOCK FALSE
