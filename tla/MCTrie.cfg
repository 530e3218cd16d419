CONSTANTS
    FidShard <- MCFidShard
    NameLength = 2
    UncompactedLength = 6
    Scenarios <- MCScenarios
SPECIFICATION Spec
INVARIANT RootDependsOnKeys
CHECK_DEADLOCK FALSE
