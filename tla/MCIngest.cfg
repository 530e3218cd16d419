CONSTANTS
    Validators = {"v1"}
    ReadNodes = {"r1"}
    NumShards = 2
    Fid = {"f1", "f2"}
    RouteFid <- MCRoute
    Message <- MCMessage
    MaxMessagesPerBlock = 1
    ShardRoutingFix = TRUE
    Quota <- MCQuota
    QueueSize = 1
    GossipSize = 1
    SystemSize = 1
    DecisionSize = 1
    Configs <- MCConfigs
    None = None
SPECIFICATION MCSpec
INVARIANTS  RebroadcastBounded CursorCovers FnameCursorCovers ActorsHearOfPeers
PROPERTIES PulledNotMerged  EventsSettle StaysConnected
CHECK_DEADLOCK FALSE
