\* A pod that names its node, two that do not both fit, a late watch and applications
\* that may not expand.
SPECIFICATION Spec
CONSTANTS
    a = a  b = b  c = c  t = t  big = big  small = small
    Absent = Absent  Unbound = Unbound  NoPod = NoPod
    Pod = {a, b, c, t}  TestPod = t
    Node = {big, small}  NodeOrder <- TwoNodes
    Workload <- Three
    NodeName <- AOnBig
    Ours = {a, b, c, t}
    Cpu <- RequestsButA
    CpuCap <- Capacity
    Disk <- NoRequests
    DiskCap <- Roomy
    MayRefuse = TRUE
    ChanSize = 2
    LateWatch = TRUE
    MaxRetries = 0
INVARIANTS
    TypeOK
    OneAtATime
    RightBlame
    Conserved
    ReportIsFinal
    NoOvercommit
    CacheExact
    NoPanic
    Baton
PROPERTIES
    PlacementFinal
    ImplementsSequential
\* Simulate returns or hangs, and so may the run.
CHECK_DEADLOCK FALSE
