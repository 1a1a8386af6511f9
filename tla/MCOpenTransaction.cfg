SPECIFICATION DBSpec
CONSTANTS
    Names <- MCNames
    Unstorable <- MCUnstorable
    TableOf <- MCTableOf
    Amount <- MCAmount
    Half = 2
    MaxTime = 1
INVARIANT DroppedOnlyWhenBusy
