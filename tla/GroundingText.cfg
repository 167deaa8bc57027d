CONSTANTS
    w1 = w1
    w2 = w2
    w3 = w3
    a = a
    b = b
    Gap = gap
    Blur = blur
    Token <- Tokens
    Place = {0, 1, 2, 4, 5, 6}
    Window = 3
    DocLen = 7
    Before = 1
    After = 2
    ExcerptCap = 4
    Anchor = {a, b}
    Spot = {0, 1, 4, 5, 8, 9, 12, 13, 16, 17}
    TextLen = 20
    QuoteLen = 8
    Quotes <- AnchoredQuotes
    SeedCap = 5
    WindowCap = 3
SPECIFICATION Spec
INVARIANTS ProbeIsMax ExcerptLocatesBest SilenceIsReal UncappedQuoteScored RarestSeeded SampleSpread
CHECK_DEADLOCK FALSE
