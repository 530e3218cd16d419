CONSTANTS
    StoreKind = "link"
    Message <- MCLinks
    Key = {"k1", "k2"}
    LinkType = {"follow", "any"}
    Target = {"t1", "t2", "any"}
    Signer = {"s1", "s2"}
    Limits = {1, 2}
    None = None
SPECIFICATION MCSpec
INVARIANTS  IndicesSound AddsRemovesDisjoint RootCoversStore SignerIndexLatest SignedByActive UsernameOwned  SameBlocksSameState RootDependsOnKeys ListingComplete LatestServable RestoredWhole
PROPERTIES LastWriteWins CastsSound
CHECK_DEADLOCK FALSE
