SPECIFICATION APISpec
CONSTANTS
    a = a
    c1 = c1
    c2 = c2
    Nil = Nil
    MaxBytes = 0
    Names <- MCNames
    Unstorable <- MCUnstorable
    Dir <- MCDir
    Lens <- MCLens
    Callers <- MCCallers
INVARIANT NoLeak
