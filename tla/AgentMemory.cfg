CONSTANTS
    old = old
    new = new
    rate = rate
    taste = taste
    silence = silence
    blank = blank
    generic = generic
    oldQuote = oldQuote
    newQuote = newQuote
    Claim = {rate, taste, silence}
    EmptyClaim = silence
    Canon = {old, new}
    Quote = {blank, generic, oldQuote, newQuote}
    Blank = blank
    Substantial = {oldQuote, newQuote}
    Found <- FoundIn
    Words <- WordsOf
    Stretches <- StretchesOf
    Unsegmented = {}
    Tool = {"cag_remember", "memory", "save_memory"}
    Call = {c1, c2}
    MaxLines = 1
    Pinned = {NoCanon, old}
    Unwritable <- NoneOrAll
    NoFact = NoFact
    NoCanon = NoCanon
SPECIFICATION Spec
SYMMETRY Interchangeable

INVARIANTS TypeOK VerifiedHasEvidence TwistNeverStored DirectIsGated ConflictRecorded PortAgrees
