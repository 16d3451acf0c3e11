\* One node and at most two more, of three units each.  The cluster has a pod of one
\* unit on its node, the applications ask for four and for one: at 60% the first needs
\* two new nodes, the second one, and both together never fit the limit unless a pod
\* is lost.
SPECIFICATION FairSpec
CONSTANTS
    base = base  elsewhere = elsewhere
    m1 = m1  here = here  gone = gone  sts = sts  disk = disk  bad = bad
    agent = agent  plain = plain  rogue = rogue
    None = None  Unset = Unset  NotANumber = NotANumber
    Manifests = {m1, here, gone, sts, disk, bad}
    Replicas <- ReplicasOfEach
    Valid = {m1, here, gone, sts, disk}
    RoutinePodNum = 2
    ClusterResource <- TheCluster
    Apps <- TheApps
    Interactive = TRUE
    DaemonSets = {agent, plain, rogue}
    DaemonSetsOf <- DaemonSetsOfEach
    HasAffinity = {agent}
    ValidTemplate = {agent, plain}
    Suits <- SuitsEach
    ClusterNodes = {base}
    NewNode = "valid"
    Numbers <- Typed
    NodeName <- NodeNameOfEach
    MayFail = {disk}
    ResourceNames = {"cpu"}
    Demand <- DemandOfEach
    Allocatable <- Three
    VGShares <- Percents
    MaxUse <- Limits
INVARIANTS
    ApplyTypeOK
    ExpandedOnce
    RoundsAlike
    SuccessHolds
PROPERTIES
    EndsOrAsks
\* The program ends.
CHECK_DEADLOCK FALSE
