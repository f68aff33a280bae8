CONSTANTS
    Threads = {"t1"}
    Width <- MCWidth
    Dirs <- MCDirs
    Inside <- MCInside
    Root <- MCRoot
    Sandbox <- MCSandbox
    Critical = {"etc"}
    Host = "host"
    Requests <- MCRequests
    AutoApproved = {}
    MaxBatches = 2
    MaxFaults = 1
SPECIFICATION Spec
INVARIANT RejectionHolds
CHECK_DEADLOCK FALSE
