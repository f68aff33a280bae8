SPECIFICATION Spec
CONSTANTS
    Slots = {1}
    Keep = 3
    Pin = 1
    StubKeep = 2
    RecursionLimit = 2
    MaxTurns = 2
    MaxFaults = 1
CHECK_DEADLOCK FALSE
PROPERTIES ResumeKeepsCall
