SPECIFICATION LRUSpec
CONSTANTS
    Items = {1, 2, 3, 4}
    MaxSize = 3
    MaxUses = 6
INVARIANTS
    LRUTypeOK
    Recency
