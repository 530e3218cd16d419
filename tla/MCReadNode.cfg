CONSTANTS
    MaxHeight = 4
    MaxBuffered = 1
    SyncThreshold = 1
    MaxMail = 1
    MaxRestarts = 1
    None = None
SPECIFICATION FairSpec
INVARIANTS CommittedInOrder BufferBehindGap BufferBounded SyncFollowsHost
PROPERTY CatchesUp
