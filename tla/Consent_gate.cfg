CONSTANTS
    Threads = {"t1", "t2", "t3"}
    Width <- MCWidth
    Dirs <- MCDirs
    Inside <- MCInside
    Root <- MCRoot
    Sandbox <- MCSandbox
    Critical = {"etc"}
    Host = "host"
    Requests <- MCRequests
    AutoApproved = {"read"}
    MaxBatches = 2
    MaxFaults = 1
SPECIFICATION Spec
INVARIANTS TypeOK 
 
CHECK_DEADLOCK FALSE
