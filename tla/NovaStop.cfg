SPECIFICATION FairSpec
CONSTANTS
    Key = {1, 2}
    Reader = {}
    Limit = 2
    MaxImmutable = 1
    Threshold = 2
    NumLevels = 3
    LevelLimit = 1
    Event = {"blank"}
    MaxTxn = 2
    MaxEvents = 1
PROPERTY IsDurableMap
CHECK_DEADLOCK FALSE
