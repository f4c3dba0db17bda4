SPECIFICATION FairSpec
CONSTANTS
    Key = {1, 2}
    Reader = {r1}
    Limit = 2
    MaxImmutable = 1
    Threshold = 2
    NumLevels = 3
    LevelLimit = 1
    Event = {}
    MaxTxn = 3
    MaxEvents = 1
INVARIANT ReadsAgree
PROPERTIES IsDurableMap WritesEnd
CHECK_DEADLOCK FALSE
