SPECIFICATION Spec
CONSTANTS
    a = a
    b = b
    c1 = c1
    c2 = c2
    Nil = Nil
    MaxBytes = 2
    Names <- MCNames
    Unstorable <- MCUnstorable
    Dir <- MCDir
    Lens <- MCLens
    Callers <- MCCallers
INVARIANT EveryAddCounts
