SPECIFICATION RefreshSpec
CONSTANTS
    Works = {w1, w2}
    Contents = {"logs", "metrics"}
    Units <- UnitList
    MaxSeq = 3
    MaxLost = 1
    MaxWorkCrash = 1
    Roots = {"r1", "r2", "rbad"}
    BadRoots = {"rbad"}
    None = None
    Unset = Unset
    Lost = Lost
    MaxRoots = 1
    Intervals = {1, 3}
    MinInterval = 2
    PolicyEvery = 2
    FetchEvery = 1
    FactEvery = 2
    ClockSteps = {1, 5}
    Cap = 12
    RootLists <- SentRoots
    MaxEdits = 2
    MaxFail = 1
    MaxPullCrash = 1
INVARIANTS PullsSafe
PROPERTIES SnapshotPrompt PullsSettle
CHECK_DEADLOCK FALSE
