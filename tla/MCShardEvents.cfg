CONSTANTS
    StoreKind = "reaction"
    Message <- MCMessages
    Key = {"k1", "k2"}
    LinkType = {"any"}
    Target = {"any"}
    Signer = {"s1", "s2"}
    None = None
    Limit = 1
    Txns <- MCTxns
    BadTxns <- MCBadTxns
    Times = {1}
    OwnRounds = {}
    MaxHeight = 1
    MaxRound = 0
    MaxSeq = 2
    MaxCrashes = 0
SPECIFICATION Spec
INVARIANT EventsMatch
CHECK_DEADLOCK FALSE
