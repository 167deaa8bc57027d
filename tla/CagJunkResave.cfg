SPECIFICATION Spec
CONSTANTS
    d1 = d1
    d2 = d2
    d3 = d3
    a = a
    b = b
    c = c
    Doc = {d1, d2}
    Text = {a, b, c}
    TextOf <- Distinct
    Model = {1}
    CagSlots = 1
    Empty = Empty
    NoFile = NoFile
    None = None
    Thread = {t1, t2}
    Worker = {w1, w2}
    Shared = TRUE
    Faults = {"llama"}
SYMMETRY Interchangeable
INVARIANT FilesTruthful
CHECK_DEADLOCK FALSE
