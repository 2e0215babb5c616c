SPECIFICATION Spec
CONSTANTS
    LockTasks = {t1, t2}
    LockKeys = {k1, k2, k3, k4, k5}
    SweepBase = 0
    RequestTasks = {t1, t2}
    Clients <- MCClients
    MaxRequestsPerWindow = 2
    MaxFailures = 1
    RateWindow = 2
    SweepSlack = 0
    MaxTime = 3
    Downloaders = {t1, t2}
    LastBuild = 3
    SizeOf <- MCSizes
    SecondOf <- MCSeconds
    FileKind = "nupkg"
    Tasks = {t1, t2}
    Urls <- MCUrls
    Upstream <- MCUpstream
    MaxRedirects = 2
    MaxRequests = 2
    Files = {1, 2}
    MaxBuilds = 2
    BuildSize <- MCBuildSize
    MaxPasses = 2
    MaxRuns = 2
    MaxStops = 1
    OldDatabases <- MCOldDatabases
    Openers = {1, 2}
    MaxWrites = 2
    MaxDeaths = 1
    Fetchers = {t1, t2}
    HostFiles = {1, 2, 3}
    ValidatorOf <- MCValidators
    FileLen = 2
    MaxBytes = 2
    ResumeAttempts = 1
    MaxFetches = 3
    MaxDamage = 1
SYMMETRY TaskSymmetry
INVARIANTS LocksStayKeyed ThrottleHolds DownloadsAreTrue CacheDeliversWhole
PROPERTIES ClientKeepsBounds BackupsRestore UpgradesKeepFeeds
CHECK_DEADLOCK FALSE
