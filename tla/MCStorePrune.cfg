CONSTANTS
    StoreKind = "cast"
    Message <- MCOverPrune
    Key = {"k1", "k2"}
    LinkType = {"any"}
    Target = {"any"}
    Signer = {"s1"}
    Limits = {2}
    None = None
SPECIFICATION Spec
PROPERTY PruneOnlyOverLimit
