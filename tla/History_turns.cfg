SPECIFICATION Spec
CONSTANTS
    Slots = {1, 2}
    Keep = 2
    Pin = 1
    StubKeep = 2
    RecursionLimit = 2
    MaxTurns = 2
    MaxFaults = 1
CHECK_DEADLOCK FALSE
INVARIANTS TypeOK EveryCallAnswered UserFollowsModel Recoverable
PROPERTIES RunsOut
