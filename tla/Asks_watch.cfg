SPECIFICATION FairSpec
CONSTANTS
    Chats = {c1}
    Foreground = {}
    Background = {b1, b2}
    MaxInterrupts = 1
    MaxAttempts = 1
    MaxRestarts = 1
    MaxLate = 0
    None = None
PROPERTIES AnswerArrives Reported
