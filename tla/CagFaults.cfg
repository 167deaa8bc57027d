SPECIFICATION MaintSpec
CONSTANTS
    d1 = d1
    a = a
    Doc = {d1}
    Text = {a}
    TextOf <- One
    Model = {1}
    CagSlots = 2
    Empty = Empty
    NoFile = NoFile
    None = None
    Thread = {t1, t2}
    Worker = {w1}
    Shared = TRUE
    Faults = {"drift", "restart", "race", "props", "anonymous", "marker", "unlink", "spawn", "lostsave", "db", "crash"}
PROPERTY
    LockIsolates
CHECK_DEADLOCK FALSE
