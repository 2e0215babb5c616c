\* A request beside the daily pass: leftovers go, tasks end.
SPECIFICATION FairSpec
CONSTANTS
    Feeds = {f1, f2}
    Versions = {v1, v2}
    Names = {n1}
    Blobs = {s1}
    Tasks = {t1}
    Sweeper = sweeper
    Gated = {f1}
    PendingOnly = {f2}
    KeySets = {{}, {f1}}
    None = None
    MaxTroubles = 1
PROPERTIES AttachmentsSettle
