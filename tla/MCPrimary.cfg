CONSTANTS
    Fids = {1}
    SignerKeys = {"k1", "k2"}
    FNames = {"n"}
    EnsNames = {"e.eth"}
    Addresses = {"a"}
    Scenarios <- MCVerified
    None = None
SPECIFICATION Spec
INVARIANT PrimaryAddressVerified
CHECK_DEADLOCK FALSE
