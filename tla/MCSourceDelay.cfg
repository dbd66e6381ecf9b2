CONSTANTS
    Skew = 3
    MaxDelay = 2
    DelayTimes = 1
    MaxNow = 6
    MaxDrift = 2
    MaxTransit = 6
    MaxRun = 2
SPECIFICATION Spec
INVARIANTS
    ErrorBounded
PROPERTIES
    GivesUpOnlyByDrift
    NoFalseRescue
    ToldBeforeRescue
CHECK_DEADLOCK FALSE
