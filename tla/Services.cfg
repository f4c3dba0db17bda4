CONSTANTS
    Caller = {1, 2}
    Shards = 3
    MaxConcurrency = 2
    GrantInterval = 2
    Lists <- MCLists
    Publisher = {1, 2}
    MaxRetained = 2
    MaxVersion = 4
    Fault = {"overlap", "failed", "lost", "restart", "pulls", "exit"}
    MaxMishaps = 2
    Pattern = {"event", "any"}
    Callback = {1, 2}
    Owner = {"o1"}
    Priority = {1, 2}
    Emit = {1, 2}
    MaxListeners = 2
    MaxEmits = 3
    Name = {1}
    JobInterval = 2
    MaxTime = 7
    MaxCalls = 2
    MaxCrashes = 1
    Worker = {"w1", "w2"}
    Home = "w1"
    Listed = {{}, {"w1", "w2"}}
    Concurrency = 1
    MaxRequests = 4
    Plugin = {"gap"}
    Steps <- MCSteps
    Engine = {"sqlite", "postgres", "mongo"}
    MaxFailures = 2
    Asked <- MCAsked
    Requirement <- MCRequirement
    CoreTag <- MCCoreTag
    PluginTag <- MCPluginTag
    MaxEvents = 2
    Machine = {"a", "b"}
    Sender = {"a"}
    Handler = {"h", "k"}
    Registered <- MCRegistered
    MaxMessages = 2
    MaxChanges = 1
    Job = {1, 2}
    MaxEdits = 2
    MaxCommands = 1
SPECIFICATION SvcSpec
INVARIANTS ScheduleIsKept StepsAreRight RangesMean AnswersAreTheirs MemoryIsFile
PROPERTIES  SnapshotsAreTrue CallsAreRight QueryWaits PlanSettles
CHECK_DEADLOCK FALSE
