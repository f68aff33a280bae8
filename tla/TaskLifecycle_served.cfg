SPECIFICATION FairSpec
CONSTANTS
    Direct = {d1}
    Submitted = {s1}
    Organic = {}
    MaxHandlers = 1
    Unwanted = {s1}
    None = None
INVARIANTS TypeOK ConsentBoundary  NeverStarts
PROPERTIES Refines Served
