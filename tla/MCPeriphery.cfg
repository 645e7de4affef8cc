CONSTANTS
    MaxLines = 2
    MaxOutboxFaults = 2
    NoOffset = NoOffset

    Channel = {c1, c2, c3}
    Seed = {c1}
    Denied = {c3}
    MayRefuse = {c2}
    MaxDrops = 2
    MaxKicks = 2
    MaxRetry = 5

    Hall = {h1, h2}
    Bob = {b1}
    MaxModeSteps = 5

    Seat = {s1, s2}
    MachineOfSeat <- MCMachineOfSeat
    Grace = 2
    Ttl = 2
    NoQuit = NoQuit

    fi = fi
    fp = fp
    Item = {fi, fp}
    Succeeds <- MCSucceeds
    MaxFocusCmds = 2
    NoEdit = NoEdit

    IdemKey = {k1}
    NoIdem = NoIdem
    MaxSubmissions = 2
    MaxIntakeFaults = 1
    NoDesk = NoDesk

    ErrorReport = {x1, x2}
    Trouble = {"t"}
    TroubleOf <- MCTroubleOf
    DedupeWindow = 1
    RateWindow = 1
    RateMax = 2
    HubPost = {1, 2, 3, 4}
    NoPost = NoPost
    MaxReportFaults = 1
    MaxReportKills = 1
    NoReport = NoReport

    Starter = {p1, p2}
    Pid = {n1, n2, n3}
    NoPid = NoPid
    MaxStarts = 4

    Machine = {"dev", "ionos"}
    MachineName = {"dev", "dev1", "all", "other"}
    MachineNamed <- MCMachineNamed
    Fleet = Fleet
    NoMachine = NoMachine
    Operator = {o1}
    Cooldown = 2
    MaxRoutes = 5
    MaxChairStarts = 1

    WatchNick = {1, 2}
    WatchJob = {j1}
    WatchMode = {"FR", "MRB"}
    AckTimeout = 1
    AssignWindow = 0
    Lookback = 1
    MaxLog = 3
    MaxClock = 2

    LineMax = 512
    PrefixBytes = 45
    SoftMax = 400
    RefBytes = {20, 150}
    UrlBytes = {45, 180}
    FixesBytes = {0, 20, 150}
    HeadBytes = {0, 10, 250}
    TitleBytes = {0, 1, 3, 60, 256}
    ActorBytes = {0, 39}
    NoLine = NoLine

    WorkSeat = {s1, s2}
    Work = {w1}
    NoWork = NoWork
    NoRow = NoRow
    Unsaved = Unsaved
SPECIFICATION PeripherySpec
INVARIANTS
    PeripheryTypeOK
    LinesAccounted
    GraceKeepsSeats
    RanksInOrder
    ToldIsKept
    MadeOnce
    ReportsKept
    RateKept
    OneIssuePerTrouble
    OneInstance
    FewRecycles
    FindsOpenAcks
    FindsDualAssigns
    LineReadsBack
    TilesTrue
PROPERTIES
    NoReplay
    RefusedStaysOut
    StormBacksOff
    GrantsOnce
    GoneSeatsRelease
    GhostsGo
CHECK_DEADLOCK FALSE
