SPECIFICATION FairSpec
CONSTANTS
    Threads = {t1}
    Viewers = {v1}
    Chans = {c1, c2}
    Runs = {r1, r2}
    None = None
    RingSize = 3
    Backlog = 0
    MaxTracked = 1
    MaxFrames = 4
INVARIANTS LosslessResume RingIsTurns
PROPERTIES InOrder StopStops 
