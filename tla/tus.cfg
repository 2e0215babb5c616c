\* Two requests and the sweep, with a failing call (any but the
\* second read of the session), a dropped request or a restart.
\* An upload ends when it is attached, deleted or swept.
SPECIFICATION FairSpec
CONSTANTS
    Workers = {w1, w2}
    Sweeper = sweeper
    Contents = {0, 1}
    Length = 2
    Faulty = {"insert", "space", "resume", "truncate", "append", "record", "sync",
              "rename", "deleteRow", "removePart", "removeRow"}
    MaxTroubles = 1
    None = None
INVARIANTS AttachedIsHashed
PROPERTIES UploadsKeepBytes ExpiredGoes
CHECK_DEADLOCK FALSE
