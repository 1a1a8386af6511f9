SPECIFICATION APISpec
CONSTANTS
    a = a
    c1 = c1
    c2 = c2
    Nil = Nil
    MaxBytes = 1
    Names <- MCNames
    Unstorable <- MCUnstorable
    Dir <- MCDir
    Lens <- MCLens
    Callers <- MCCallers
INVARIANTS
    APITypeOK
    OpenWhileUsed
    StreamedOnce
PROPERTIES
    UsesStorage
    SnapshotIsPending
    RefusedOnlyByOther
