SPECIFICATION Spec
CONSTANTS
    d1 = d1
    d2 = d2
    d3 = d3
    a = a
    b = b
    c = c
    Doc = {d1, d2}
    Text = {a, b, c}
    TextOf <- Distinct
    Model = {1, 2}
    CagSlots = 1
    Empty = Empty
    NoFile = NoFile
    None = None
    Thread = {t1}
    Worker = {w1}
    Shared = TRUE
    Faults = {"restart", "rollback"}
INVARIANT KvFresh
CHECK_DEADLOCK FALSE
