\* Two feeds that require approval, an intake feed under "pending-only" and one that
\* overwrites: approvals race replacements and moves, and a call fails.
SPECIFICATION Spec
CONSTANTS
    f1 = f1  f2 = f2  b1 = b1  b2 = b2  t1 = t1  t2 = t2  sweeper = sweeper
    Feeds = {f1, f2}
    Builds = {b1, b2}
    Tasks = {t1, t2, sweeper}
    Sweeper = sweeper
    None = None
    Overwrite <- OverwriteIntake
    Gated = {f1, f2}
    Blocked <- NothingBlocked
    Upstream = b1
    Prerelease = TRUE
    HardLinks = TRUE
    Ops = {"push", "approve", "move"}
    MaxFaults = 1
    MaxCrashes = 0
    MaxLosses = 0
SYMMETRY WorkerSymmetry
INVARIANTS GateHolds
