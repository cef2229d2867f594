SPECIFICATION Spec
CONSTANTS
    TabMemo = {1, 2, 3}
    Stored = {2, 3}
    Filter = {"all", "tag"}
    FirstFilter = "all"
    Matches <- MatchesDef
    PageSize = 1
    Slot = {s1}
    MaxWrites = 1
    MaxLoads = 1
    MaxLosses = 1
    Box = {b1, b2}
    TopBox = {b1}
    Click = {k1, k2, k3}
    MaxFailures = 1
    Text = {"a"}
    TabFile = {1, 2}
    MaxTurns = 3
    MaxFaults = 1
CHECK_DEADLOCK FALSE
INVARIANTS
    RequestAsMeant
    AnswerAsMeant
    ReturnsAsSent
    ListIsOfFilter
    EndOfListHasAll
    ShownIsStored
    BoxesShowContent
    ClicksAreSaved
    TextKept
    SavedOnce
    
PROPERTIES
    LoadingEnds
