SPECIFICATION AccessSpec
CONSTANTS
    User = {u1, u2}
    BotRole = {rb}
    ServerRole = {rs}
    Bit = {view, owner}
    OwnerBit = owner
    ServerOwner = server_owner
    GuildOwner = u1
    None = none
    Linked = {rb}
    Redis = TRUE
    Caller = {c1, c2}
    MaxCalls = 2
    MaxEvents = 1
    Process = {1, 2}
    Limit = 1
    Window = 2
    Gate = {guild, plugin}
    Operation = {1, 2}
    Guild = {1, 2}
    MaxTime = 5
    MaxChecks = 4
    MaxRefunds = 1
    MaxTokens = 3
    MaxRevokes = 1
    MaxOperations = 3
INVARIANTS HoldersHaveReasons StaleHasReason CooldownIsKept GateIsCurrent RevocationIsExact GuildsAreDecided
CHECK_DEADLOCK FALSE
