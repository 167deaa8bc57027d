SPECIFICATION Spec
CONSTANTS
    d1 = d1
    d2 = d2
    d3 = d3
    a = a
    b = b
    c = c
    Doc = {d1, d2, d3}
    Text = {a, b, c}
    TextOf <- Distinct3
    Model = {1}
    CagSlots = 2
    Empty = Empty
    NoFile = NoFile
    None = None
    Thread = {t1, t2}
    Worker = {w1}
    Shared = TRUE
    Faults = {"drift"}
SYMMETRY Interchangeable
INVARIANTS
    TypeOK
    SlotMapInjective
    EvictionHasVictim
    CachedFileExists
CHECK_DEADLOCK FALSE
