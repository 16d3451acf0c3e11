\* Three pods that want devices, one that has some, one that wants storage only; one
\* pod comes back by a timer.
SPECIFICATION Spec
CONSTANTS
    a = a  b = b  c = c  e = e  f = f  big = big  small = small
    Absent = Absent  Unbound = Unbound  NoPod = NoPod
    Pod = {a, b, c, e, f}
    Node = {big, small}
    Workload <- Five
    NodeName <- FOnBig
    GpuMem <- Memory
    GpuNum <- Pieces
    Preset <- Named
    Storage = {a, e}
    Count <- Devices
    TotalMem <- Memories
    MaxRetries = 1
INVARIANTS
    TypeOK
    DeviceFits
    CacheCounts
    NodeObjectKept
    ReserveFinds
    AllocationExact
\* The workload ends, and so does the run.
CHECK_DEADLOCK FALSE
