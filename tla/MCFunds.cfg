CONSTANTS
    a1 = a1
    a2 = a2
    Accounts <- MCAccounts
    Programs = {p1}
    Withdrawals = {w1, w2}
    OrderIds = {}
    Households = {h1, h2}
    NoHousehold = NoHousehold
    Categories = {"food"}
    InitialCash <- MCInitialCash
    FundAmounts = {5}
    ProgramTerms <- MCProgramTerms
    Pools = {1, 2, 5}
    Weights = {1, 2}
    WithdrawAmounts = {1, 2}
    WithdrawalSla = 1
    MaxTime = 2
    MaxRial = 10
SPECIFICATION FundsSpec
INVARIANT FundsTypeOK
INVARIANT Reconciled
INVARIANT ProgramsAccounted
INVARIANT HouseholdOncePerProgram
