\* A mirror feed beside pushes, purges and retention, with a payload lost
\* from disk.
SPECIFICATION Spec
CONSTANTS
    f1 = f1  f2 = f2  b1 = b1  b2 = b2  t1 = t1  t2 = t2  sweeper = sweeper
    Feeds = {f1, f2}
    Builds = {b1, b2}
    Tasks = {t1, t2, sweeper}
    Sweeper = sweeper
    None = None
    Overwrite <- OverwriteRing
    Gated = {}
    Blocked <- NothingBlocked
    Upstream = b2
    Prerelease = FALSE
    HardLinks = TRUE
    Ops = {"push", "mirror", "purge", "planned", "follow", "pin", "list"}
    MaxFaults = 0
    MaxCrashes = 0
    MaxLosses = 1
SYMMETRY WorkerSymmetry
PROPERTIES MirrorNeverReplaces
