SPECIFICATION MobileSpec
CONSTANTS
    Keys = {k1, k2, k3}
    NoKey = NoKey
    Photos = {p1}
    NoPhoto = NoPhoto
    Controllers = {c1, c2}
    Paths = {"cart-items", "orders", "cancel", "evidence", "tickets", "withdrawals"}
    Scenarios <- MCScenarios
SYMMETRY Symmetry
INVARIANTS
    MobileTypeOK
    Recoverable
    BusyHasWork
