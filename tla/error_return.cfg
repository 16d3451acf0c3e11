\* The cluster does not expand: Close waits for a scheduler that never ran.
SPECIFICATION FairSpec
CONSTANTS
    a = a  b = b  c = c  t = t  big = big  small = small
    Absent = Absent  Unbound = Unbound  NoPod = NoPod
    Pod = {a, b, c, t}  TestPod = t
    Node = {big, small}  NodeOrder <- TwoNodes
    Workload <- Two
    NodeName <- NoNodeName
    Ours = {a, b, c, t}
    Cpu <- Requests
    CpuCap <- Capacity
    Disk <- NoRequests
    DiskCap <- Roomy
    MayRefuse = TRUE
    ChanSize = 2
    LateWatch = FALSE
    MaxRetries = 0
PROPERTIES
    ErrorReturns
\* Simulate returns or hangs, and so may the run.
CHECK_DEADLOCK FALSE
