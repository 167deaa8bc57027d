------------------------------ MODULE ProbeScan ------------------------------
(***************************************************************************)
(* recall_probe() of api/app/grounding.py: how many of a claim's           *)
(* distinctive words the document mentions within one stretch of           *)
(* window_chars, found in one pass with two pointers.                      *)
(*                                                                         *)
(* The pointers are the positions of hits here, where the code has an      *)
(* index into the list of hits for the one and a position for the other.   *)
(***************************************************************************)
EXTENDS Integers, FiniteSets

CONSTANTS
    Token,          \* distinctive words
    Gap,            \* what stands where no distinctive word begins
    Place,          \* positions in the normalized document
    Window,         \* window_chars
    DocLen,         \* length of the normalized document
    Before, After,  \* what the excerpt takes before and after the stretch
    ExcerptCap      \* the most it keeps of that

ASSUME ProbeAssumption ==
    /\ Gap \notin Token
    /\ Place \subseteq Nat /\ IsFiniteSet(Place)
    /\ IsFiniteSet(Token)
    /\ Window \in Nat
    /\ DocLen \in Nat /\ \A p \in Place : p < DocLen
    /\ Before \in Nat /\ After \in Nat \ {0}
    /\ ExcerptCap \in Nat /\ Before < ExcerptCap

VARIABLES
    content,        \* the word that begins at each position
    tokens,         \* the claim's distinctive words
    unsegmented,    \* has a token a script without spaces between words?
    step,           \* where the pass is
    lo, hi,         \* the first hit of the window, and the last one read
    counts,         \* occurrences of each token in the window
    distinct,       \* tokens whose count is not 0
    best, bestLo, bestHi,
    overlap,        \* the numerator of max_overlap, or a word for what it is
    excerpt         \* the positions the excerpt runs from, and up to

probeVars == <<content, tokens, unsegmented, step, lo, hi, counts, distinct,
               best, bestLo, bestHi, overlap, excerpt>>

Hits == {p \in Place : content[p] \in tokens}

\* The tokens that begin between positions a and b.
Mentioned(a, b) == {content[p] : p \in {q \in Hits : a <= q /\ q <= b}}

IsFirst(p, S) == p \in S /\ \A q \in S : p <= q

Least(x, y) == IF x <= y THEN x ELSE y

NoExcerpt == [from |-> 0, to |-> 0]

\* What is cut around the hits at a and b: the slice, then its first characters.
Cut(a, b) ==
    LET from == IF a < Before THEN 0 ELSE a - Before
    IN [from |-> from,
        to   |-> Least(Least(DocLen, b + After), from + ExcerptCap)]

-----------------------------------------------------------------------------
ProbeInit ==
    /\ content \in [Place -> Token \cup {Gap}]
    /\ tokens \in SUBSET Token
    /\ unsegmented \in BOOLEAN
    /\ step = "collect"
    /\ lo = 0 /\ hi = -1
    /\ counts = [w \in Token |-> 0]
    /\ distinct = 0
    /\ best = 0 /\ bestLo = 0 /\ bestHi = 0
    /\ overlap = "pending"
    /\ excerpt = NoExcerpt

\* Mutant of Inconclusive: no hit counts as silence in any script.
InconclusiveFewTokens == Cardinality(tokens) < 2

\* Nothing to measure: too few tokens, or no hit in a script without spaces.
Inconclusive == Cardinality(tokens) < 2 \/ (Hits = {} /\ unsegmented)

\* The early returns, or the start of the pass at the first hit.
Collect ==
    /\ step = "collect"
    /\ IF Inconclusive \/ Hits = {}
       THEN /\ overlap' = IF Inconclusive THEN "inconclusive" ELSE "silent"
            /\ step' = "returned"
            /\ UNCHANGED lo
       ELSE /\ \E p \in Hits : IsFirst(p, Hits) /\ lo' = p
            /\ step' = "read"
            /\ UNCHANGED overlap
    /\ UNCHANGED <<content, tokens, unsegmented, hi, counts, distinct, best,
                   bestLo, bestHi, excerpt>>

\* The next hit enters the window.
Read ==
    /\ step = "read"
    /\ \E p \in Hits :
          /\ IsFirst(p, {q \in Hits : q > hi})
          /\ hi' = p
          /\ counts' = [counts EXCEPT ![content[p]] = @ + 1]
          /\ distinct' = distinct + (IF counts[content[p]] = 0 THEN 1 ELSE 0)
    /\ step' = "narrow"
    /\ UNCHANGED <<content, tokens, unsegmented, lo, best, bestLo, bestHi, overlap,
                   excerpt>>

\* Mutant of TooWide: a stretch of exactly window_chars is too wide.
TooWideByOne == hi - lo >= Window

TooWide == hi - lo > Window

\* One round of the inner loop: the first hit leaves the window.
Narrow ==
    /\ step = "narrow" /\ TooWide
    /\ counts' = [counts EXCEPT ![content[lo]] = @ - 1]
    /\ distinct' = distinct - (IF counts[content[lo]] = 1 THEN 1 ELSE 0)
    /\ \E p \in Hits : IsFirst(p, {q \in Hits : q > lo}) /\ lo' = p
    /\ UNCHANGED <<content, tokens, unsegmented, step, hi, best, bestLo, bestHi,
                   overlap, excerpt>>

\* The window fits: it is compared with the best one.
Compare ==
    /\ step = "narrow" /\ ~TooWide
    /\ IF distinct > best
       THEN best' = distinct /\ bestLo' = lo /\ bestHi' = hi
       ELSE UNCHANGED <<best, bestLo, bestHi>>
    /\ step' = "read"
    /\ UNCHANGED <<content, tokens, unsegmented, lo, hi, counts, distinct, overlap,
                   excerpt>>

\* Mutant of Report: the excerpt is cut around the last window.
ReportLast ==
    /\ step = "read"
    /\ \A q \in Hits : q <= hi
    /\ overlap' = "measured"
    /\ excerpt' = Cut(lo, hi)
    /\ step' = "returned"
    /\ UNCHANGED <<content, tokens, unsegmented, lo, hi, counts, distinct, best,
                   bestLo, bestHi>>

\* No hit is left to read.
Report ==
    /\ step = "read"
    /\ \A q \in Hits : q <= hi
    /\ overlap' = "measured"
    /\ excerpt' = Cut(bestLo, bestHi)
    /\ step' = "returned"
    /\ UNCHANGED <<content, tokens, unsegmented, lo, hi, counts, distinct, best,
                   bestLo, bestHi>>

ProbeNext == Collect \/ Read \/ Narrow \/ Compare \/ Report

ProbeSpec == ProbeInit /\ [][ProbeNext]_probeVars

-----------------------------------------------------------------------------
\* Properties.

\* max_overlap is the most tokens any stretch of window_chars mentions: the one
\* pass misses none, and overstates none, whatever words repeat in the window.
ProbeIsMax ==
    overlap = "measured" =>
        /\ \A a, b \in Place : b - a <= Window => Cardinality(Mentioned(a, b)) <= best
        /\ \E a, b \in Place : b - a <= Window /\ Cardinality(Mentioned(a, b)) = best

\* The beginning of the word at p is in the excerpt.
Shows(p) == excerpt.from <= p /\ p < excerpt.to

\* The excerpt lies in the document, is no longer than it may be, and shows where a
\* stretch with best tokens begins: of the tokens counted there, those that begin
\* within ExcerptCap - Before of its first one (200 of the 400 characters a stretch
\* may have).  The truncation may cut off the others.
ExcerptLocatesBest ==
    overlap = "measured" =>
        /\ excerpt.to <= DocLen /\ excerpt.to - excerpt.from <= ExcerptCap
        /\ \E a, b \in Hits :
              /\ b - a <= Window /\ Cardinality(Mentioned(a, b)) = best
              /\ \A q \in Hits :
                    a <= q /\ q <= b /\ q - a < ExcerptCap - Before => Shows(q)

\* "absent" is backed by a 0 only when the document mentions no token of a claim
\* whose tokens could have been found; any mention is reported as more than 0.
SilenceIsReal ==
    /\ overlap = "silent" => Hits = {} /\ ~unsegmented
    /\ overlap = "measured" => best > 0
=============================================================================
