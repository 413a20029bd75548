SPECIFICATION PlatformSpec
CONSTANTS
    Rows = {a, b}
    Replicas = {"p", "q"}
    MaxSaves = 1
    MaxLate = 1
    Versions <- MCVersions
    Users <- MCUsers
    Requests <- MCRequests
    Bucket = 2
    Migrations <- MCMigrations
    MaxCrashes = 2
    MaxBytes = 2
    MaxOutput = 4
    Margin = 1
    Lifetimes = {1, 4}
    MaxFetch = 1
    MaxClock = 9
    MaxUpdates = 2
    Dumpers = {"cron", "api"}
    Scheduled = "cron"
    Retention = 1
    MaxTime = 4
    MaxKills = 1
    PageSize = 1
    MaxEntries = 4
    MaxErrors = 1
    Filters <- MCFilters
    LastDay = "day"
    Cleared <- MCCleared
    Pages <- MCPages
    MaxLogins = 2
    MaxLoads = 3
    Calls <- MCCalls
    Legs <- MCLegs
    MaxTrail = 3
    Tabs = {"t1", "t2"}
    Releases <- MCReleases
    Pinned = "callId"
    Sizes = {0, 3}
    MaxEdits = 2
    Records <- MCRecords
    Accounts = {"a"}
    MaxSessions = 1
    MaxSetups = 2
    MaxRequests = 2
    KeyPending = 2
    KeyWrites = 4
    People = {"me", "u", "v"}
    Self = "me"
    Groups = {"g", " g"}
    ReadsAs <- MCReadsAs
    Unlimited = Null
    FirstPeople <- MCFirstPeople
    OtherRows <- MCOtherRows
    UserPending = 1
    UserWrites = 3
    Sources = {"s", "t", "u"}
    FirstSources = {"s", "t"}
    SourcePending = 1
    SourceWrites = 2
    NoFilter = NoFilter
    Null = Null
INVARIANTS
    TypesOK
    RotationKeepsSecrets
    BootedOnce
    OutputIsComplete
    HeaderIsGood
    DumpSurvives
    ExportIsNewest
    ScopeNeverWidens
    StatisticsAddUp
    ScreenIsTrue
PROPERTIES
    EveryReplicaServes
    EveryRunSettles
CHECK_DEADLOCK FALSE
