CONSTANTS
    Chats = {private, group}
    MaxTurns = 2
    TTL = 2
    MaxId = 2
    MaxClock = 3
    MaxQueue = 1
    MaxLost = 1
SPECIFICATION Spec
INVARIANTS OwnAnswer
CHECK_DEADLOCK FALSE
