SPECIFICATION Spec
CONSTANTS
    Machine = {w1, w2}
    Shard = {s1, s2}
    Task = {t1, t2}
    Nobody = Nobody
    MaxUpdates = 1
    MaxMoves = 1
    Event = {"join", "rebalance", "shift", "update", "crash", "false_dead", "loss", "abort", "restart"}
    MaxEvents = 4
    MaxGeneration = 5
SYMMETRY Symmetry
INVARIANTS OwnersAreTold UpdatesAreFresh UpdatingIsInFlight
CHECK_DEADLOCK FALSE
