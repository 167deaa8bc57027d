---------------------------- MODULE QuoteWindows ----------------------------
(***************************************************************************)
(* How _best_fuzzy_ratio() of api/app/grounding.py chooses the stretches   *)
(* of a document it compares with a quote that is not in it word for word: *)
(* windows are seeded at the occurrences of the quote's words, the rarest  *)
(* word first, thinned, and sampled when they are still too many.          *)
(*                                                                         *)
(* The comparison itself is data: a quote that stands in the document with *)
(* a word changed is found when a window holds all of it, for the score is *)
(* that of the blocks within the window.                                   *)
(***************************************************************************)
EXTENDS Integers, Sequences, FiniteSets, FiniteSetsExt, SequencesExt

CONSTANTS
    Anchor,         \* words of four letters or more of the quotes
    Blur,           \* what stands where no anchor begins
    Spot,           \* positions of the normalized document where words begin
    TextLen,        \* its length
    QuoteLen,       \* length of the normalized quote
    Quotes,         \* quotes, each a function from its anchors to their offsets
    SeedCap,        \* _SEED_CAP
    WindowCap       \* _WINDOW_CAP

ASSUME WindowsAssumption ==
    /\ Blur \notin Anchor
    /\ QuoteLen \in Nat \ {0} /\ TextLen \in Nat
    /\ Spot \subseteq 0..(TextLen - 1)
    /\ Quotes \subseteq [Anchor -> 0..(QuoteLen - 1)]
    /\ SeedCap \in Nat \ {0} /\ WindowCap \in Nat \ {0}

VARIABLES
    text,           \* the anchor that begins at each spot of the document
    quote,          \* the quote
    phase,          \* where the choice is
    seeded,         \* the anchors whose occurrences have seeded windows
    unsorted,       \* starts that have not been thinned yet
    thinned,        \* starts kept, in ascending order
    windows         \* starts of the windows that are scored

windowVars == <<text, quote, phase, seeded, unsorted, thinned, windows>>

Occurrences(w) == {p \in DOMAIN text : text[p] = w}

SeedsOf(W) == UNION {Occurrences(w) : w \in W}

Quarter == QuoteLen \div 4
Advance == IF Quarter > 1 THEN Quarter ELSE 1
Span == QuoteLen + QuoteLen \div 2

-----------------------------------------------------------------------------
WindowsInit ==
    /\ text \in [Spot -> Anchor \cup {Blur}]
    /\ quote \in Quotes
    /\ phase = "seed"
    /\ seeded = {}
    /\ unsorted = {}
    /\ thinned = <<>> /\ windows = <<>>

Unseeded == {w \in Anchor \ seeded : Occurrences(w) # {}}

\* Mutant of ComesFirst: the commonest word comes first.
ComesFirstCommon(w) ==
    \A v \in Unseeded : Cardinality(Occurrences(w)) >= Cardinality(Occurrences(v))

\* The stable sort by number of hits, over a table in the order of first hits.
ComesFirst(w) ==
    \A v \in Unseeded \ {w} :
        LET n == Cardinality(Occurrences(w))
            k == Cardinality(Occurrences(v))
        IN n < k \/ (n = k /\ Min(Occurrences(w)) < Min(Occurrences(v)))

\* The windows of the rarest word left.
Seed ==
    /\ phase = "seed" /\ Cardinality(SeedsOf(seeded)) < SeedCap
    /\ \E w \in Unseeded : ComesFirst(w) /\ seeded' = seeded \cup {w}
    /\ UNCHANGED <<text, quote, phase, unsorted, thinned, windows>>

Shift(p) == IF p > Quarter THEN p - Quarter ELSE 0

\* All words are in, or the cap is reached; without a hit there is no window.
Sort ==
    /\ phase = "seed"
    /\ Unseeded = {} \/ Cardinality(SeedsOf(seeded)) >= SeedCap
    /\ unsorted' = {Shift(p) : p \in SeedsOf(seeded)}
    /\ phase' = "thin"
    /\ UNCHANGED <<text, quote, seeded, thinned, windows>>

\* Mutant of FarEnough: one window per half window instead of one per quarter.
FarEnoughSpan(s) == thinned = <<>> \/ s - Last(thinned) >= Span

FarEnough(s) == thinned = <<>> \/ s - Last(thinned) >= Advance

Thin ==
    /\ phase = "thin"
    /\ \E s \in unsorted :
          /\ \A u \in unsorted : s <= u
          /\ unsorted' = unsorted \ {s}
          /\ thinned' = IF FarEnough(s) THEN Append(thinned, s) ELSE thinned
    /\ UNCHANGED <<text, quote, phase, seeded, windows>>

\* Mutant of Sampled: the first windows of the document.
SampledFirst(s) == SubSeq(s, 1, WindowCap)

\* int(i * stride) for i in range(_WINDOW_CAP), the rounding of floats aside.
Sampled(s) == [i \in 1..WindowCap |-> s[((i - 1) * Len(s)) \div WindowCap + 1]]

Choose ==
    /\ phase = "thin" /\ unsorted = {}
    /\ windows' = IF Len(thinned) > WindowCap THEN Sampled(thinned) ELSE thinned
    /\ phase' = "score"
    /\ UNCHANGED <<text, quote, seeded, unsorted, thinned>>

WindowsNext == Seed \/ Sort \/ Thin \/ Choose

WindowsSpec == WindowsInit /\ [][WindowsNext]_windowVars

-----------------------------------------------------------------------------
\* Properties.

\* The quote stands at position b, but for words that are no anchors here.
Stands(b) ==
    /\ b + QuoteLen <= TextLen
    /\ \A w \in Anchor : b + quote[w] \in Occurrences(w)

\* Window k holds the quote that stands at b.
Holds(k, b) == k <= b /\ b + QuoteLen <= k + Span

ScoredAt(b) == \E i \in DOMAIN windows : Holds(windows[i], b)

Places == 0..(TextLen - 1)

\* Seeding stopped at a word, or the windows were sampled.
Capped == Unseeded # {} \/ Len(thinned) > WindowCap

\* Thinning never loses a match: unless a cap was reached, a quote one of whose
\* anchors is in its first quarter is scored as a whole wherever it stands.
UncappedQuoteScored ==
    phase = "score" /\ ~Capped /\ (\E w \in Anchor : quote[w] <= Quarter) =>
        \A b \in Places : Stands(b) => ScoredAt(b)

\* Whatever the caps cut, the rarest word of the document is seeded, at every
\* occurrence.
RarestSeeded ==
    phase = "score" =>
        \A w \in Anchor :
            (/\ Occurrences(w) # {}
             /\ \A v \in Anchor \ {w} :
                   Occurrences(v) = {} \/ Cardinality(Occurrences(w)) < Cardinality(Occurrences(v)))
            => \A p \in Occurrences(w) :
                  \E i \in DOMAIN thinned :
                      thinned[i] <= Shift(p) /\ Shift(p) - thinned[i] < Advance

\* The sample scores no window twice, and leaves a hole of one stride at most
\* anywhere in the document, its end included.
SampleSpread ==
    phase = "score" /\ Len(thinned) > WindowCap =>
        LET stride == (Len(thinned) + WindowCap - 1) \div WindowCap
        IN /\ \A i, j \in DOMAIN windows : i < j => windows[i] < windows[j]
           /\ \A k \in DOMAIN thinned :
                 \E j \in DOMAIN thinned, i \in DOMAIN windows :
                     j <= k /\ k - j < stride /\ windows[i] = thinned[j]

\* The comment over the caps: a quote whose common words repeat thousands of
\* times before its real location is still found.  Here its first word occurs at
\* that location alone.
PresentQuoteFound ==
    phase = "score" =>
        \A b \in Places :
            /\ Stands(b)
            /\ \E w \in Anchor : quote[w] = 0 /\ Occurrences(w) = {b}
            => ScoredAt(b)
=============================================================================
