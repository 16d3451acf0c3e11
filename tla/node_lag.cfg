\* A pod is scheduled before the scheduler has heard of every node.
SPECIFICATION Spec
CONSTANTS
    a = a  b = b  c = c  t = t  big = big  small = small
    Absent = Absent  Unbound = Unbound  NoPod = NoPod
    Pod = {a, b, c, t}  TestPod = t
    Node = {big, small}  NodeOrder <- TwoNodes
    Workload <- Three
    NodeName <- NoNodeName
    Ours = {a, b, c, t}
    Cpu <- Requests
    CpuCap <- Capacity
    Disk <- NoRequests
    DiskCap <- Roomy
    MayRefuse = FALSE
    ChanSize = 2
    LateWatch = FALSE
    MaxRetries = 0
INVARIANTS
    ReportedUnfit
\* Simulate returns or hangs, and so may the run.
CHECK_DEADLOCK FALSE
