CONSTANTS
    r1 = r1
    r2 = r2
    d1 = d1
    Request = {r1, r2}
    Check = {c1}
    Doc = {d1, d2}
    None = none
    Routes <- RoutesOfTwo
    Named <- NamedByTwo
    PoolSizes = {1, 2}
    CheckThreads = 1
    Items = 2
    DbFails = TRUE
SPECIFICATION Spec
INVARIANTS TypeOK LogAccounts UsesCoverLog AnswerKept BatteryAddsUp VerdictReadsItsDocument
PROPERTIES HealthAnswers RequestsEnd
CHECK_DEADLOCK FALSE
