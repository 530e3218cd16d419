CONSTANTS
    Validators = {"v1"}
    ReadNodes = {"r1"}
    NumShards = 2
    Fid = {"f1", "f2"}
    RouteFid <- MCRoute
    Message <- MCMessage
    MaxMessagesPerBlock = 1
    ShardRoutingFix = TRUE
    Quota = Quota
    QueueSize = 1
    GossipSize = 1
    SystemSize = 1
    DecisionSize = 1
    Configs <- MCConfigs
    None = None
SPECIFICATION Spec
INVARIANT TransfersReachAllShards
CHECK_DEADLOCK FALSE
