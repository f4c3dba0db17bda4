SPECIFICATION FairSpec
CONSTANTS
    pkg = pkg
    before = before
    added = added
    File = {pkg, before, added}
    Always = {pkg}
    Release = {1, 2}
    Ships <- ShipsDef
    Bad = {2}
    NoCore = NoCore
    Core = Core
    Rebuilds = TRUE
    Failing = {"update"}
    MaxBackups = 3
    MaxCrashes = 1
    MaxFailures = 1
    MaxEvents = 1
INVARIANTS FilesAreKnown RecoveryIsReady
CHECK_DEADLOCK FALSE
PROPERTY BotComesUp
