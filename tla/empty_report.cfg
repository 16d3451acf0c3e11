\* Filter decides from a snapshot, Bind from the API server.
SPECIFICATION Spec
CONSTANTS
    a = a  b = b  c = c  t = t  big = big  small = small
    Absent = Absent  Unbound = Unbound  NoPod = NoPod
    Pod = {a, b, c, t}  TestPod = t
    Node = {big, small}  NodeOrder <- TwoNodes
    Workload <- Three
    NodeName <- NoNodeName
    Ours = {a, b, c, t}
    Cpu <- NoRequests
    CpuCap <- Capacity
    Disk <- OneUnit
    DiskCap <- Unit
    MayRefuse = FALSE
    ChanSize = 9
    LateWatch = FALSE
    MaxRetries = 0
INVARIANTS
    EmptyMeansPlaced
\* Simulate returns or hangs, and so may the run.
CHECK_DEADLOCK FALSE
