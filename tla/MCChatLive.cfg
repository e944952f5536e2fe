SPECIFICATION Spec
CONSTANTS
    MaxTurns = 1
    MaxDeltas = 1
    MaxCrashes = 1
    MaxSessions = 1
    MaxRetries = 1
    MaxFaults = 1
PROPERTY StreamsEnd
CHECK_DEADLOCK FALSE
