\* Three pods that ask for open-local storage, room for one on each node; a name given
\* twice and applications that may not expand.
SPECIFICATION FairSpec
CONSTANTS
    a = a  b = b  c = c  t = t  big = big  small = small
    Absent = Absent  Unbound = Unbound  NoPod = NoPod
    Pod = {a, b, c, t}  TestPod = t
    Node = {big, small}  NodeOrder <- TwoNodes
    Workload <- Again
    NodeName <- NoNodeName
    Ours = {a, b, c, t}
    Cpu <- NoRequests
    CpuCap <- Capacity
    Disk <- OneUnit
    DiskCap <- Unit
    MayRefuse = TRUE
    ChanSize = 9
    LateWatch = FALSE
    MaxRetries = 0
INVARIANTS
    DiskAccounted
    RightBlame
    CacheExact
PROPERTIES
    WaitEnds
    CloseReturns
\* Simulate returns or hangs, and so may the run.
CHECK_DEADLOCK FALSE
