CONSTANTS
    b1 = b1
    b2 = b2
    p1 = p1
    h1 = h1
    s1 = s1
    bread = bread
    soap = soap
    tehran = tehran
    karaj = karaj
    Accounts <- MCAccounts
    Programs = {p1}
    Withdrawals = {}
    OrderIds = {1, 2}
    Households = {h1}
    NoHousehold = NoHousehold
    Categories = {"food", "home"}
    InitialCash <- MCInitialCash
    FundAmounts = {}
    ProgramTerms <- MCProgramTerms
    Pools = {}
    Weights = {}
    WithdrawAmounts = {}
    WithdrawalSla = 1
    MaxTime = 1
    MaxRial = 10
    Sellers = {s1}
    NoSeller = NoSeller
    Products = {bread, soap}
    CategoryOf <- MCCategoryOf
    OfferIds = {1, 2}
    QuoteIds = {1, 2}
    Cities = {tehran, karaj}
    NoCity = NoCity
    StoreCity <- MCStoreCity
    Prices = {2, 3}
    Stocks = {1}
    Quantities = {0, 2}
    QuoteLife = 1
    MaxVersion = 3
SPECIFICATION MCSpec
INVARIANT PurchaseTypeOK
INVARIANT Reconciled
INVARIANT OrdersFunded
INVARIANT OrderMoneyConserved
 

