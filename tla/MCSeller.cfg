SPECIFICATION SellerSpec
CONSTANTS
    Tabs = {t1, t2}
    Fields = {"storeName", "city"}
    Blank = Blank
    Filed = Filed
    Keys = {k1, k2}
    NoKey = NoKey
    Flights = {f1, f2}
    NoTab = NoTab
    Scenarios <- MCScenarios
SYMMETRY Symmetry
INVARIANTS
    SellerTypeOK
    DraftReadable
    OwnChangesOnly
    SubmissionRepeatable
    ShownAsStored
