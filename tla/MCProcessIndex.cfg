SPECIFICATION PIFairSpec
CONSTANTS
    Pids <- MCPids
    Inodes = {7, 8, 9}
    CacheSize = 1
INVARIANTS
    PITypeOK
    SearchComplete
PROPERTIES
    FoundInTheEnd
    KeepsPromise
