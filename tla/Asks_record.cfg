SPECIFICATION Spec
CONSTANTS
    Chats = {c1}
    Foreground = {f1}
    Background = {b1}
    MaxInterrupts = 1
    MaxAttempts = 2
    MaxRestarts = 1
    MaxLate = 2
    None = None
INVARIANTS TypeOK  
PROPERTIES Refines
