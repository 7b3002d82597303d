SPECIFICATION WebSpec
CONSTANTS
    Keys = {k1, k2}
    NoKey = NoKey
    Flights = {f1, f2}
    Scenarios <- MCScenarios
SYMMETRY Symmetry
INVARIANTS
    WebTypeOK
    UnresolvedStored
    OneSupportCommand
    NothingBesideUnresolved
