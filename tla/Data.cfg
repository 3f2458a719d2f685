SPECIFICATION Spec
CONSTANTS
    Parts = {"terminal", "names", "files", "requests", "timers"}
    Width = 4
    Height = 4
    MaxConsoleChar = 2
    WindowHeights = {2, 3}
    MaxPhrases = 3
    Vocabularies <- VocabulariesDef
    VtermWords = {"texts"}
    DefaultStyle <- DefaultStyleDef
    ArgumentLists <- ArgumentListsDef
    Environments <- EnvironmentsDef
    Parents <- ParentsDef
    required_vars <- RequiredDef
    PATH = 4
    SearchPaths <- SearchPathsDef
    Files <- FilesDef
    Existing <- ExistingDef
    Targets <- TargetsDef
    Numerals <- NumeralsDef
    Words <- WordsDef
    TextsToRead <- TextsDef
    Paths = {"a", "b", "m"}
    Fds = {"fd1", "fd2"}
    FsThreads = {"t1", "t2"}
    Menus <- MenusDef
    MountPoint = "m"
    TempPaths = {"a", "b"}
    TMP_MAX = 2
    MaxCalls = 4
    MaxFaults = 1
    TimerSet = {1, 2, 3, 4, 5, 6}
    Null = 0
    Bits = 4
    MaxWait = 5
    TimerUses <- TimerUsesDef
    Requests <- RequestsDef
    IovMax = 2
    BufsMl = 2
    EmulBuf = 2
    ChmodErrors = {5}
    MaxErrors = 2
INVARIANTS
    ConsoleIsRight
    NamesAreRight
    CallsCleanUp
    AppendsLoseNothing
    TransfersAreExact
    FailuresLeaveNothing
    TimersAreRight
CHECK_DEADLOCK FALSE
