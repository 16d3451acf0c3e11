\* The same instance as apply.cfg: with web and disk, or with too few new nodes, the limit is
\* exceeded although every pod fits.
SPECIFICATION FairSpec
CONSTANTS
    base = base  elsewhere = elsewhere
    m1 = m1  here = here  gone = gone  sts = sts  disk = disk  bad = bad
    agent = agent  plain = plain  rogue = rogue
    None = None  Unset = Unset  NotANumber = NotANumber
    Manifests = {m1, here, gone, sts, disk, bad}
    Replicas <- ReplicasOfEach
    Valid = {m1, here, gone, sts, disk}
    RoutinePodNum = 2
    ClusterResource <- TheCluster
    Apps <- TheApps
    Interactive = TRUE
    DaemonSets = {agent, plain, rogue}
    DaemonSetsOf <- DaemonSetsOfEach
    HasAffinity = {agent}
    ValidTemplate = {agent, plain}
    Suits <- SuitsEach
    ClusterNodes = {base}
    NewNode = "valid"
    Numbers <- Typed
    NodeName <- NodeNameOfEach
    MayFail = {disk}
    ResourceNames = {"cpu"}
    Demand <- DemandOfEach
    Allocatable <- Three
    VGShares <- Percents
    MaxUse <- Limits
PROPERTIES
    LimitsAdjust
CHECK_DEADLOCK FALSE
