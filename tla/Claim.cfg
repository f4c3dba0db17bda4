SPECIFICATION FairSpec
CONSTANTS
    Process = {p1, p2}
    Token = {k1, k2, k3, k4}
    None = None
    Ttl = 3
    Interval = 1
    MaxLate = 4
INVARIANT OneOrchestrator
PROPERTIES SplitBrainEnds ClaimIsRecovered
