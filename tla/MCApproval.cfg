SPECIFICATION Spec
CONSTANTS
    Clients = {c1, c2}
    MaxGens = 2
    MaxActions = 2
    MaxAttempts = 3
INVARIANTS OneDriver DecidedOnce
PROPERTIES SavedBeforeOutcome RequestsReturn
CHECK_DEADLOCK FALSE
