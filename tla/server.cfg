\* Two handlers, a rollout, a pod that is created anew, and requests that fail.
SPECIFICATION Spec
CONSTANTS
    w2 = w2  db0 = db0  db1 = db1  dp = dp
    web2 = web2  db = db  ds = ds
    d1 = d1  s1 = s1  s2 = s2
    NoWorkload = NoWorkload  Nobody = Nobody
    Pods = {w2, db0, db1, dp}
    Workloads = {web2, db, ds}
    PodName <- Names
    OwnerOf <- Owners
    KindOf <- KindOfEach
    NameOf <- NameOfEach
    NamespaceOf <- OneNamespace
    DeploymentOf <- Webs
    FirstPhase <- InRollout
    FirstWorkloads = {db, ds}
    Changing = {web2}
    Requests = {d1, s1, s2}
    Handler <- HandlerOfEach
    Scaled <- Apps
    MayHang = TRUE
INVARIANTS
    TypeOK
    LockMatchesFlight
    EachPodOnce
    ScaledAnew
\* The requests are answered and the cluster comes to rest.
CHECK_DEADLOCK FALSE
