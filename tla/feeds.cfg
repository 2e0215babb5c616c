\* Pushes, bodies of unknown length and a resumable upload, with failing measurements
\* and queries; two reads of two packages through to an upstream;
\* feeds whose names change.
SPECIFICATION FeedsSpec
CONSTANTS
    t1 = t1  t2 = t2  u1 = u1  k1 = k1  k2 = k2
    Writers = {t1, t2}
    Uploads = {u1}
    Capacity = 9
    Reserve = 6
    Interval = 1
    Length = 2
    Sizes = {2}
    MaxBody = 2
    Faults = TRUE
    Kinds = {"push", "chunked", "create", "patch"}
    None = None
    Readers = {t1, t2}
    Keys = {k1, k2}
    Offered <- MCOffered
    Named <- MCNamed
    Versions = {1, 2}
    MaxVersions = 2
    MaxTracked = 1
    MaxEvents = 2
    FeedNames = {"old", "new", "open"}
    GatedNames = {"old", "new"}
    StoredVersions = {1, 2}
    MaxConfigs = 2
    MaxCommands = 2
    MaxServed = 3
SYMMETRY RequestSymmetry
INVARIANTS PoolIsSum
PROPERTIES SpaceIsKept ReadsShareAFetch CommandsKeepFeeds
CHECK_DEADLOCK FALSE
