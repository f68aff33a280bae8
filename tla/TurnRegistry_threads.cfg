SPECIFICATION Spec
CONSTANTS
    Threads = {t1, t2}
    Viewers = {v1}
    Chans = {c1, c2}
    Runs = {r1, r2}
    None = None
    RingSize = 2
    Backlog = 0
    MaxTracked = 2
    MaxFrames = 2
INVARIANTS TypeOK SingleWriter Reachable
