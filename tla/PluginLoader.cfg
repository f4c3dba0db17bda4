CONSTANTS
    a = a
    b = b
    c = c
    Plugin <- MCPlugin
    Commanded <- MCCommanded
    Booted <- MCBooted
    MaxCalls = 2
    MaxEvents = 2
SPECIFICATION Spec
INVARIANTS BootIsSound NothingIsLeftBehind
PROPERTY DepsOutlive
CHECK_DEADLOCK FALSE
