CONSTANTS
    b1 = b1
    p1 = p1
    h1 = h1
    s1 = s1
    bread = bread
    soap = soap
    tehran = tehran
    Accounts <- MCAccounts
    Programs = {p1}
    Withdrawals = {}
    o1 = o1
    OrderIds = {o1}
    Households = {h1}
    NoHousehold = NoHousehold
    Categories = {"food", "home"}
    InitialCash <- MCInitialCash
    FundAmounts = {}
    ProgramTerms <- MCProgramTerms
    Pools = {}
    Weights = {}
    WithdrawAmounts = {}
    WithdrawalSla = 1
    MaxTime = 4
    MaxRial = 20
    Sellers = {s1}
    NoSeller = NoSeller
    Products = {bread, soap}
    CategoryOf <- MCCategoryOf
    OfferIds = {1, 2}
    QuoteIds = {1}
    Cities = {tehran}
    NoCity = NoCity
    StoreCity <- MCStoreCity
    Prices = {}
    Stocks = {}
    Quantities = {}
    QuoteLife = 1
    MaxVersion = 3
    IncidentIds = {1, 2}
    EvidenceIds = {e1}
    FeeVersions = {"v1", "v2"}
    FeeAmounts = {0, 3}
    ReportWindow = 1
    ReturnWindow = 1
    DayLength = 2
SPECIFICATION MCSpec
INVARIANT AfterSalesTypeOK
INVARIANT OrderMoneyConserved
INVARIANT CasesCoverItems
INVARIANT SettlementConsistent
INVARIANT PenaltyDeserved
INVARIANT LatenessCharged
INVARIANT EvidenceKept
INVARIANT FeeVersionStable
