\* Pushes, purges and copies over two feeds, with a fault and a crash.
SPECIFICATION Spec
CONSTANTS
    f1 = f1  f2 = f2  b1 = b1  b2 = b2  t1 = t1  t2 = t2  sweeper = sweeper
    Feeds = {f1, f2}
    Builds = {b1, b2}
    Tasks = {t1, t2, sweeper}
    Sweeper = sweeper
    None = None
    Overwrite <- OverwriteRing
    Gated = {}
    Blocked <- SecondBlocked
    Upstream = b1
    Prerelease = FALSE
    HardLinks = TRUE
    Ops = {"push", "purge", "copy", "enable"}
    MaxFaults = 1
    MaxCrashes = 1
    MaxLosses = 0
SYMMETRY WorkerSymmetry
INVARIANTS TypeOK HeldIsServable MismatchIsLogged
PROPERTIES PushedIsServed LeavesWithTombstone ServedIsImmutable KeepsContract
