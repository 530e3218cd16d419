CONSTANTS
    StoreKind = "link"
    Message <- MCCollision
    Key = {"k1", "k2", "k3"}
    LinkType = {"follow"}
    Target = {"t1", "t2", "t3"}
    Signer = {"s1"}
    Limits = {2}
    None = None
SPECIFICATION Spec
INVARIANT CollisionsResolved
