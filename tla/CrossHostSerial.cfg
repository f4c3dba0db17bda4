SPECIFICATION Spec
CONSTANTS
    Machine = {w1, w2, w3}
    Shard = {s1, s2}
    Task = {t1}
    Nobody = Nobody
    MaxUpdates = 1
    MaxMoves = 0
    Event = {"join", "shift", "update", "crash", "false_dead"}
    MaxEvents = 4
    MaxGeneration = 9
SYMMETRY Symmetry
INVARIANT QuietIsAgreed
CHECK_DEADLOCK FALSE
