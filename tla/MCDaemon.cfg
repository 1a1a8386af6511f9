SPECIFICATION DFairSpec
CONSTANTS
    Junk = Junk
    Nothing = Nothing
    etc = etc
    other = other
    DefaultPath = etc
    Paths <- MCPaths
    Contents <- MCContents
    CommandLines <- MCCommandLines
    DeviceLists <- MCDeviceLists
INVARIANTS
    DTypeOK
    SettingsSurvive
    ArgumentsFirst
    ThreadsHaveParts
    StaysUp
PROPERTY
    TermEnds
