SPECIFICATION FairSpec
CONSTANTS
    Machine = {w1, w2}
    Shard = {s1, s2}
    Task = {t1}
    Nobody = Nobody
    MaxUpdates = 1
    MaxMoves = 0
    Event = {"join", "crash", "shift", "false_dead", "update", "abort"}
    MaxEvents = 4
    MaxGeneration = 30
PROPERTY EveryShardServed
CHECK_DEADLOCK FALSE
