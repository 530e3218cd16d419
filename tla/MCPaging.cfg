CONSTANTS
    ShardOf <- MCShardOf
    Scenarios <- MCReactions
SPECIFICATION FairSpec
PROPERTY PagingEnds
CHECK_DEADLOCK FALSE
