SPECIFICATION ScansSpec
CONSTANTS
    MaxUplinkBody = 8
    DiskRoot = "/"
    Entries <- TreeEntries
    ParentOf <- TreeParent
    KindOf <- TreeKind
    SizeOf <- TreeSize
    InodeOf <- TreeInode
    Shuts <- ShutSets
    Vanishing <- GoneSets
    Budgets <- WalkBudgets
    CheckEvery = 2
    TopCount = 2
    KeepCount = 2
    MinSize = 3
    Usages <- DiskUsages
    OtherDirs <- AgentDirs
    Procs = {"p1", "p2", "p3", "p4"}
    AgentProcs = {"p4"}
    Groups = {"g1", "g2"}
    GroupOf <- LGroupOf
    LabelOf <- LLabel
    ExeOf <- LExe
    NoGroup = "nogroup"
    NoLabel = "nolabel"
    PidLimit = 3
    TrackLimit = 1
    Denied = {}
    Hosts <- LHosts
    MaxBurn = 1
    AccountHosts <- AccountsSet
    SudoMain = "sudoers"
    SshdMain = "sshd_config"
    MaxIncludeDepth = 4
    AccountTop = 3
    PersistenceHosts <- PersistenceSet
    ExposureHosts <- ExposureSet
    TelemetryHosts <- TelemetrySet
    RecentDays = 7
    MaxFds = 2
    SilenceWarn = 4
    SilenceFail = 8
    SpoolMax = 8
    HostTop = 3
    Machines <- MCMachines
    Changes <- MCChanges
    MaxChanges = 1
    Asked <- AskedFor
    Platforms = {"linux", "macos"}
INVARIANTS DiskReportTrue LoadChargedRight IncludesRead AnswerTrue
PROPERTIES ScanEnds
CHECK_DEADLOCK FALSE
