\* Two requests and the daily pass over two versions that share a blob.
SPECIFICATION Spec
CONSTANTS
    Feeds = {f1, f2}
    Versions = {v1, v2}
    Names = {n1}
    Blobs = {s1}
    Tasks = {t1, t2}
    Sweeper = sweeper
    Gated = {f1}
    PendingOnly = {f2}
    KeySets = {{}, {f1}}
    None = None
    MaxTroubles = 1
INVARIANTS HeldHasBytes
PROPERTIES ApprovedFilesStay
