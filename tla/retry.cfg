\* Failed bindings and unschedulable pods come back after a timer.
SPECIFICATION Spec
CONSTANTS
    a = a  b = b  c = c  t = t  big = big  small = small
    Absent = Absent  Unbound = Unbound  NoPod = NoPod
    Pod = {a, b, c, t}  TestPod = t
    Node = {big, small}  NodeOrder <- TwoNodes
    Workload <- Three
    NodeName <- NoNodeName
    Ours = {a, b, c, t}
    Cpu <- OneUnit
    CpuCap <- Capacity
    Disk <- OneUnit
    DiskCap <- Unit
    MayRefuse = FALSE
    ChanSize = 9
    LateWatch = FALSE
    MaxRetries = 1
INVARIANTS
    NoOvercommit
    Life
PROPERTIES
    FailedStayGone
\* Simulate returns or hangs, and so may the run.
CHECK_DEADLOCK FALSE
