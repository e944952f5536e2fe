SPECIFICATION Spec
CONSTANTS
    MaxTurns = 1
    MaxDeltas = 2
    MaxCrashes = 1
    MaxSessions = 2
    MaxRetries = 0
    MaxFaults = 0
INVARIANTS LedgerWhole PublishedIsDurable NothingLost ExactWhenAlone NoFalseAlarm
CHECK_DEADLOCK FALSE
