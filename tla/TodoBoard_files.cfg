SPECIFICATION FairSpec
CONSTANTS
    Cards = {c1}
    Atts = {a1, a2}
    Names = {n1}
    Made = {m1, m2}
    Jobs = {j1, j2}
    MaxFaults = 1
    None = None
CHECK_DEADLOCK FALSE
INVARIANTS TypeOK NeverDangling 
PROPERTIES Refines OrphansSwept
