SPECIFICATION FairSpec
CONSTANTS
    Direct = {}
    Submitted = {}
    Organic = {o1, o2}
    MaxHandlers = 1
    Unwanted = {}
    None = None
 
PROPERTIES Decided
