SPECIFICATION Spec
CONSTANTS
    SymTasks = {1, 2}
    SymPushes <- MCPushes
    SymVersions = {1, 2, 3}
    IdOf <- MCIdOf
    SymKeys = {1, 2}
    MoveFails = FALSE
    MaxSymFaults = 1
    MaxBuild = 2
    Contents <- MCContents
    Blocks = {1, 2}
    MaxUploads = 4
    MaxCrashes = 1
    MaxDays = 9
    AllRows <- MCRows
    Policy <- MCPolicy
    MaxEdits = 5
    Conns = {c1, c2}
    MaxConnections = 1
    MaxStarts = 3
    MaxKills = 1
    MaxRemovals = 1
INVARIANTS SymbolsAreKept
PROPERTIES DropsAreKept CleanupIsAsShown ProcessIsSound 
CHECK_DEADLOCK FALSE
