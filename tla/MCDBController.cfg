SPECIFICATION DBFairSpec
CONSTANTS
    Names <- MCNames
    Unstorable <- MCUnstorable
    TableOf <- MCTableOf
    Amount <- MCAmount
    Half = 2
    MaxTime = 1
INVARIANTS
    DBTypeOK
    FetchConsistent
PROPERTIES
    WholeBatches
    HistoryGrows
    DepositReturns
