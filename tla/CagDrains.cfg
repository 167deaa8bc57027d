SPECIFICATION MaintSpec
CONSTANTS
    d1 = d1
    a = a
    Doc = {d1}
    Text = {a}
    TextOf <- One
    Model = {1}
    CagSlots = 1
    Empty = Empty
    NoFile = NoFile
    None = None
    Thread = {t1, t2}
    Worker = {w1}
    Shared = TRUE
    Faults = {"llama", "lostsave", "restart"}
INVARIANTS
    MaintTypeOK
    SweepSparesClaimed
PROPERTIES
    Drains
    OrphansSwept
CHECK_DEADLOCK FALSE
