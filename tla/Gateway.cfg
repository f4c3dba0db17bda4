SPECIFICATION FairSpec
CONSTANTS
    MaxShards = 2
    MaxFaults = 2
    MaxOps = 3
INVARIANT SessionsAreKnown
PROPERTIES ShardComesBackUnlessLate LockIsReleased
CHECK_DEADLOCK FALSE
