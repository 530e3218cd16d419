CONSTANTS
    StoreKind = "reaction"
    Message <- MCMessages
    Key = {"k1", "k2"}
    LinkType = {"any"}
    Target = {"any"}
    Signer = {"s1", "s2"}
    None = None
    Limit = 1
    Txns <- MCTxns
    BadTxns <- MCBadTxns
    Times = {1}
    OwnRounds = {1}
    MaxHeight = 2
    MaxRound = 1
    MaxSeq = 2
    MaxCrashes = 1
SPECIFICATION Spec
INVARIANTS  StoredChunksDecided  PanicOnlyOnPrunedAgain
PROPERTY EventHeights
CHECK_DEADLOCK FALSE
