SPECIFICATION FairSpec
CONSTANTS
    Shard = {s1, s2}
    Call = {main, c1, c2}
    Main = main
    None = None
    Event = {"timeout", "expiry", "login_fails"}
    MaxOverlap = 2
    MaxUpdates = 3
INVARIANTS NoDoubleIdentify ManagedClientsLive RunsWhatIsAssigned
PROPERTY AssignmentsConverge
CHECK_DEADLOCK FALSE
