SPECIFICATION PlaneSpec
CONSTANTS
    ProbeOrder <- MCProbeOrder
    Items <- MCItems
    KindOf <- MCKindOf
    ClassOf <- MCClassOf
    ProcessSets <- MCProcessSets
    StartHosts <- MCStartHosts
    Builtin <- MCBuiltin
    Policies <- MCPolicies
    FetchInterval = 1
    MaxAge = 2
    MaxRevision = 2
    SampleLimit = 1
    MaxFaults = 1
    MaxChanges = 1
    RunOrder <- MCRunOrder
    MaxEntries = 2
    Period = 1
    MetricLines = 1
    MaxUpFaults = 1
    InputOrder <- MCInputOrder
    Unsupported = {"u"}
    RemarkOrder <- MCRemarkOrder
    LocalOutputs <- MCLocalOutputs
    SpoolLimit = 2
    MaxUnread = 1
    MaxNoticeFaults = 2
    MaxMoves = 2
INVARIANTS VanishTold HealthyRoundAgrees EntriesKept WorkStateTold TickTold
PROPERTIES PlaneSettles
CHECK_DEADLOCK FALSE
