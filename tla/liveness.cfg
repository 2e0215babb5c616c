\* Every sequence ends and orphans go, on a filesystem without hard links; syncs settle
\* every watch entry, and a migration run again ends complete.
SPECIFICATION LiveSpec
CONSTANTS
    f1 = f1  f2 = f2  b1 = b1  b2 = b2  t1 = t1  t2 = t2  sweeper = sweeper
    Feeds = {f1, f2}
    Builds = {b1, b2}
    Tasks = {t1, sweeper}
    Sweeper = sweeper
    None = None
    Overwrite <- OverwriteAll
    Gated = {}
    Blocked <- NothingBlocked
    Upstream = b1
    Prerelease = FALSE
    HardLinks = FALSE
    Ops = {"push", "purge", "planned", "list"}
    MaxFaults = 2
    MaxCrashes = 1
    MaxLosses = 0
    SyncVersions = {1, 2}
    Watches <- MCWatches
    MaxSyncEvents = 3
    MaxSyncFaults = 1
    Source <- MCSource
    Concurrencies = {0, 2}
    Overwriting = FALSE
    MaxSourceFaults = 2
    MaxServerSteps = 2
INVARIANTS ImportsAreTrue
PROPERTIES AllSettles SyncsAreTrue
