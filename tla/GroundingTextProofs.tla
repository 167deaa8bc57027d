------------------------ MODULE GroundingTextProofs ------------------------
(***************************************************************************)
(* The text work of grounding.py for documents, quotes, words, windows and *)
(* caps of any size: the pass of recall_probe() with two pointers computes *)
(* the maximum over all stretches, and seeding and thinning lose no match  *)
(* of a quote.                                                             *)
(***************************************************************************)
EXTENDS GroundingText, FiniteSetTheorems, TLAPS

-----------------------------------------------------------------------------
\* recall_probe().

\* The occurrences of one token in a stretch.
Within(a, b, w) == {q \in Hits : a <= q /\ q <= b /\ content[q] = w}

Scanning == step \in {"read", "narrow"}

TextOK ==
    /\ content \in [Place -> Token \cup {Gap}]
    /\ tokens \in SUBSET Token
    /\ step \in {"collect", "read", "narrow", "returned"}
    /\ step # "returned" => overlap = "pending"
    /\ hi \in Nat \cup {-1} /\ best \in Nat
    /\ step = "collect" =>
          hi = -1 /\ counts = [w \in Token |-> 0] /\ distinct = 0 /\ best = 0

\* lo is a hit, and hi the last one read; nothing is counted before the first.
Pointers ==
    Scanning =>
        /\ lo \in Hits
        /\ hi = -1 => step = "read" /\ IsFirst(lo, Hits)
        /\ hi # -1 => hi \in Hits /\ lo <= hi

\* The two counters describe the hits between the pointers.
Counted ==
    Scanning =>
        /\ counts = [w \in Token |-> Cardinality(Within(lo, hi, w))]
        /\ distinct = Cardinality(Mentioned(lo, hi))

\* What left the window is too far from hi to share a stretch with it.
Passed == Scanning => \A q \in Hits : q < lo => hi - q > Window

\* best bounds every stretch that ends before hi, or at hi once compared.
Bounded ==
    Scanning =>
        \A a, b \in Place :
            b - a <= Window /\ (b < hi \/ (b = hi /\ step = "read"))
                => Cardinality(Mentioned(a, b)) <= best

Attained ==
    Scanning =>
        \/ best = 0
        \/ /\ {bestLo, bestHi} \subseteq Hits
           /\ bestHi - bestLo <= Window
           /\ Cardinality(Mentioned(bestLo, bestHi)) = best

Fitted == step = "read" /\ hi # -1 => hi - lo <= Window /\ best > 0

ProbeInv ==
    /\ TextOK
    /\ Pointers /\ Counted /\ Passed
    /\ Bounded /\ Attained /\ Fitted
    /\ ProbeIsMax /\ ExcerptLocatesBest /\ SilenceIsReal

-----------------------------------------------------------------------------
\* Hits and the sets made of them are finite, and hits are positions.
LEMMA HitsFinite ==
    ASSUME TextOK
    PROVE  /\ Hits \subseteq Place /\ Hits \subseteq Nat /\ IsFiniteSet(Hits)
           /\ \A p \in Hits : content[p] \in Token
<1>1. Hits \subseteq Place
  BY DEF Hits
<1>2. Hits \subseteq Nat /\ Place \subseteq Nat /\ IsFiniteSet(Place)
  BY <1>1, ProbeAssumption
<1>3. IsFiniteSet(Hits)
  BY <1>1, <1>2, FS_Subset
<1>4. \A p \in Hits : content[p] \in Token
  BY DEF Hits, TextOK
<1> QED
  BY <1>1, <1>2, <1>3, <1>4

\* What the probe counts is finite.
LEMMA CountsFinite ==
    ASSUME TextOK, NEW a, NEW b
    PROVE  /\ IsFiniteSet(Mentioned(a, b))
           /\ Cardinality(Mentioned(a, b)) \in Nat
           /\ \A w : /\ IsFiniteSet(Within(a, b, w))
                     /\ Cardinality(Within(a, b, w)) \in Nat
<1>1. Mentioned(a, b) \subseteq Token
  BY HitsFinite DEF Mentioned
<1>2. IsFiniteSet(Mentioned(a, b))
  BY <1>1, ProbeAssumption, FS_Subset
<1>3. ASSUME NEW w
      PROVE  IsFiniteSet(Within(a, b, w))
  <2>1. Within(a, b, w) \subseteq Hits
    BY DEF Within
  <2> QED
    BY <2>1, HitsFinite, FS_Subset
<1> QED
  BY <1>2, <1>3, FS_CardinalityType

\* A stretch within another mentions no more.
LEMMA MentionedMonotone ==
    ASSUME TextOK, NEW a, NEW b, NEW c, NEW d,
           \A q \in Hits : a <= q /\ q <= b => c <= q /\ q <= d
    PROVE  Cardinality(Mentioned(a, b)) <= Cardinality(Mentioned(c, d))
<1>1. Mentioned(a, b) \subseteq Mentioned(c, d)
  BY DEF Mentioned
<1> QED
  BY <1>1, CountsFinite, FS_Subset

\* A token is mentioned where it occurs.
LEMMA MentionedOccurs ==
    ASSUME TextOK, NEW a, NEW b, NEW w
    PROVE  w \in Mentioned(a, b) <=> Cardinality(Within(a, b, w)) # 0
<1>1. w \in Mentioned(a, b) <=> Within(a, b, w) # {}
  BY DEF Mentioned, Within
<1> QED
  BY <1>1, CountsFinite, FS_EmptySet

-----------------------------------------------------------------------------
\* The pass starts with nothing counted.
LEMMA InitSatisfies == ProbeInit => ProbeInv
<1> SUFFICES ASSUME ProbeInit
             PROVE  ProbeInv
  OBVIOUS
<1>1. TextOK
  BY DEF ProbeInit, TextOK
<1>2. ~Scanning /\ step # "read" /\ overlap = "pending"
  BY DEF ProbeInit, Scanning
<1> QED
  BY <1>1, <1>2 DEF ProbeInv, Pointers, Counted, Passed, Bounded, Attained, Fitted,
     ProbeIsMax, ExcerptLocatesBest, SilenceIsReal

\* While the pass has not returned, the promises about its result are void.
LEMMA NoResultYet ==
    ASSUME TextOK', step' # "returned"
    PROVE  ProbeIsMax' /\ ExcerptLocatesBest' /\ SilenceIsReal'
BY DEF TextOK, ProbeIsMax, ExcerptLocatesBest, SilenceIsReal

\* The document and the claim stay what they are.
LEMMA TextStays ==
    ASSUME UNCHANGED <<content, tokens>>
    PROVE  /\ Hits' = Hits
           /\ \A a, b : /\ {content'[p] : p \in {q \in Hits' : a <= q /\ q <= b}}
                              = Mentioned(a, b)
                        /\ \A w : {q \in Hits' : a <= q /\ q <= b /\ content'[q] = w}
                              = Within(a, b, w)
<1>1. Hits' = Hits
  BY DEF Hits
<1> QED
  BY <1>1 DEF Mentioned, Within

\* Collecting the hits.
LEMMA CollectStep ==
    ASSUME ProbeInv, Collect
    PROVE  ProbeInv'
<1>1. TextOK'
  BY DEF ProbeInv, TextOK, Collect
<1>2. Hits' = Hits
  BY TextStays DEF Collect
<1>3. CASE Inconclusive \/ Hits = {}
  <2>1. step' = "returned" /\ overlap' # "measured"
        /\ (overlap' = "silent" => Hits = {} /\ ~unsegmented)
    BY <1>3 DEF Collect, Inconclusive
  <2>2. SilenceIsReal'
    BY <2>1, <1>2 DEF SilenceIsReal, Collect
  <2> QED
    BY <1>1, <2>1, <2>2 DEF ProbeInv, Scanning, Pointers, Counted, Passed, Bounded,
       Attained, Fitted, ProbeIsMax, ExcerptLocatesBest
<1>4. CASE ~(Inconclusive \/ Hits = {})
  <2>1. /\ step' = "read" /\ lo' \in Hits /\ IsFirst(lo', Hits)
        /\ UNCHANGED <<hi, counts, distinct, best, bestLo, bestHi, content, tokens>>
    BY <1>4 DEF Collect
  <2>2. hi = -1 /\ counts = [w \in Token |-> 0] /\ distinct = 0 /\ best = 0
    BY DEF ProbeInv, TextOK, Collect
  <2>3. \A b \in Nat \cup {-1} : b <= hi => \A a, w : Mentioned(a, b) = {} /\ Within(a, b, w) = {}
    BY <2>2, HitsFinite DEF Mentioned, Within, ProbeInv
  <2>4. Pointers'
    BY <1>2, <2>1, <2>2 DEF Pointers, Scanning, IsFirst
  <2>5. Counted'
    <3>1. \A w : Within(lo', hi, w) = {} /\ Mentioned(lo', hi) = {}
      BY <2>2, <2>3
    <3>2. counts' = [w \in Token |-> Cardinality(Within(lo', hi, w))]
      BY <2>1, <2>2, <3>1, FS_EmptySet
    <3>3. distinct' = Cardinality(Mentioned(lo', hi))
      BY <2>1, <2>2, <3>1, FS_EmptySet
    <3>4. /\ \A w : Within(lo, hi, w)' = Within(lo', hi, w)
          /\ Mentioned(lo, hi)' = Mentioned(lo', hi)
      BY <1>2, <2>1 DEF Within, Mentioned
    <3> QED
      BY <3>2, <3>3, <3>4 DEF Counted
  <2>6. Passed'
    BY <1>2, <2>1, HitsFinite DEF Passed, IsFirst, ProbeInv
  <2>7. Bounded'
    <3>1. \A b \in Place : ~(b < -1) /\ b # -1
      BY ProbeAssumption
    <3> QED
      BY <2>1, <2>2, <3>1 DEF Bounded
  <2>8. Attained' /\ Fitted'
    BY <2>1, <2>2 DEF Attained, Fitted
  <2>9. ProbeIsMax' /\ ExcerptLocatesBest' /\ SilenceIsReal'
    BY <1>1, <2>1, NoResultYet
  <2> QED
    BY <1>1, <2>4, <2>5, <2>6, <2>7, <2>8, <2>9 DEF ProbeInv
<1> QED
  BY <1>3, <1>4

\* The right pointer reads a hit.
LEMMA ReadStep ==
    ASSUME ProbeInv, Read
    PROVE  ProbeInv'
<1>1. PICK p \in Hits :
           /\ IsFirst(p, {q \in Hits : q > hi})
           /\ hi' = p
           /\ counts' = [counts EXCEPT ![content[p]] = @ + 1]
           /\ distinct' = distinct + (IF counts[content[p]] = 0 THEN 1 ELSE 0)
  BY DEF Read
<1>2. /\ TextOK /\ step = "read" /\ step' = "narrow"
      /\ UNCHANGED <<content, tokens, unsegmented, lo, best, bestLo, bestHi, overlap>>
  BY DEF Read, ProbeInv
<1>3. /\ hi \in Int /\ p \in Nat /\ p > hi /\ lo \in Hits /\ lo \in Nat /\ lo <= p
      /\ Hits \subseteq Nat /\ content[p] \in Token /\ Window \in Nat
      /\ \A q \in Hits : q <= p => q <= hi \/ q = p
      /\ hi = -1 => lo = p /\ \A q \in Hits : p <= q
      /\ hi # -1 => hi \in Hits /\ lo <= hi
  <2>1. /\ hi \in Int /\ p > hi /\ \A q \in Hits : q > hi => p <= q
        /\ Hits \subseteq Nat /\ content[p] \in Token /\ Window \in Nat
    BY <1>1, <1>2, HitsFinite, ProbeAssumption DEF IsFirst, TextOK
  <2>2. /\ lo \in Hits
        /\ hi = -1 => \A q \in Hits : lo <= q
        /\ hi # -1 => hi \in Hits /\ lo <= hi
    BY <1>2 DEF ProbeInv, Pointers, Scanning, IsFirst
  <2> QED
    BY <2>1, <2>2
<1>4. /\ Hits' = Hits
      /\ \A w : Within(lo, hi, w)' = Within(lo, p, w)
      /\ Mentioned(lo, hi)' = Mentioned(lo, p)
  <2>1. Hits' = Hits
    BY <1>2, TextStays
  <2> QED
    BY <1>1, <1>2, <2>1 DEF Within, Mentioned
<1>5. TextOK'
  BY <1>1, <1>2, <1>3 DEF TextOK
<1>6. Pointers'
  BY <1>1, <1>2, <1>3, <1>4 DEF Pointers
<1>7. Counted'
  <2>1. /\ counts = [w \in Token |-> Cardinality(Within(lo, hi, w))]
        /\ distinct = Cardinality(Mentioned(lo, hi))
    BY <1>2 DEF ProbeInv, Counted, Scanning
  <2>a. \A q \in Hits : lo <= q /\ q <= p <=> (lo <= q /\ q <= hi) \/ q = p
    BY <1>3
  <2>2. Within(lo, p, content[p]) = Within(lo, hi, content[p]) \cup {p}
    BY <2>a DEF Within
  <2>3. p \notin Within(lo, hi, content[p])
    BY <1>3 DEF Within
  <2>4. \A w : w # content[p] => Within(lo, p, w) = Within(lo, hi, w)
    BY <2>a DEF Within
  <2>5. Cardinality(Within(lo, p, content[p])) = Cardinality(Within(lo, hi, content[p])) + 1
    <3>1. IsFiniteSet(Within(lo, hi, content[p]))
      BY <1>2, CountsFinite
    <3> QED
      BY <2>2, <2>3, <3>1, FS_AddElement
  <2>6. counts' = [w \in Token |-> Cardinality(Within(lo, p, w))]
    BY <1>1, <1>3, <2>1, <2>4, <2>5
  <2>7. Mentioned(lo, p) = Mentioned(lo, hi) \cup {content[p]}
    BY <2>a DEF Mentioned
  <2>8. content[p] \in Mentioned(lo, hi) <=> counts[content[p]] # 0
    BY <1>2, <1>3, <2>1, MentionedOccurs
  <2>9. Cardinality(Mentioned(lo, p)) = distinct'
    <3>1. IsFiniteSet(Mentioned(lo, hi)) /\ Cardinality(Mentioned(lo, hi)) \in Nat
      BY <1>2, CountsFinite
    <3>2. Cardinality(Mentioned(lo, p)) =
             IF content[p] \in Mentioned(lo, hi) THEN Cardinality(Mentioned(lo, hi))
                                                ELSE Cardinality(Mentioned(lo, hi)) + 1
      BY <2>7, <3>1, FS_AddElement
    <3> QED
      BY <1>1, <2>1, <2>8, <3>1, <3>2
  <2> QED
    BY <1>4, <2>6, <2>9 DEF Counted
<1>8. Passed'
  <2>1. \A q \in Hits : q < lo => hi # -1 /\ hi - q > Window
    BY <1>2, <1>3 DEF ProbeInv, Passed, Scanning
  <2>2. \A q \in Hits : q < lo => p - q > Window
    BY <1>3, <2>1
  <2> QED
    BY <1>1, <1>2, <1>4, <2>2 DEF Passed
<1>9. Bounded'
  <2> SUFFICES ASSUME NEW a \in Place, NEW b \in Place, b - a <= Window, b < p
               PROVE  Cardinality(Mentioned(a, b)) <= best
    <3>2. \A c, d : Mentioned(c, d)' = Mentioned(c, d)
      BY <1>2, <1>4 DEF Mentioned
    <3> QED
      BY <1>1, <1>2, <3>2 DEF Bounded
  <2>1. a \in Nat /\ b \in Nat /\ best \in Nat /\ hi \in Nat \cup {-1}
    BY <1>2, ProbeAssumption DEF TextOK
  <2>2. CASE hi = -1
    <3>1. Mentioned(a, b) = {}
      BY <1>3, <2>1, <2>2 DEF Mentioned
    <3> QED
      BY <2>1, <3>1, FS_EmptySet
  <2>3. CASE hi # -1 /\ b <= hi
    BY <1>2, <2>1, <2>3 DEF ProbeInv, Bounded, Scanning
  <2>4. CASE hi # -1 /\ b > hi
    <3>1. \A q \in Hits : a <= q /\ q <= b => a <= q /\ q <= hi
      BY <1>3, <2>1, <2>4
    <3>2. Cardinality(Mentioned(a, b)) <= Cardinality(Mentioned(a, hi))
      BY <1>2, <3>1, MentionedMonotone
    <3>3. hi \in Place /\ hi - a <= Window
      BY <1>2, <1>3, <2>1, <2>4, HitsFinite
    <3>4. Cardinality(Mentioned(a, hi)) <= best
      BY <1>2, <3>3 DEF ProbeInv, Bounded, Scanning
    <3> QED
      BY <1>2, <2>1, <3>2, <3>4, CountsFinite
  <2> QED
    BY <1>3, <2>1, <2>2, <2>3, <2>4
<1>10. Attained'
  <2>1. Mentioned(bestLo, bestHi)' = Mentioned(bestLo, bestHi)
    BY <1>2, <1>4 DEF Mentioned
  <2> QED
    BY <1>2, <1>4, <2>1 DEF ProbeInv, Attained, Scanning
<1>11. Fitted' /\ ProbeIsMax' /\ ExcerptLocatesBest' /\ SilenceIsReal'
  BY <1>2, <1>5, NoResultYet DEF Fitted
<1> QED
  BY <1>5, <1>6, <1>7, <1>8, <1>9, <1>10, <1>11 DEF ProbeInv

\* The left pointer gives one up.
LEMMA NarrowStep ==
    ASSUME ProbeInv, Narrow
    PROVE  ProbeInv'
<1>1. PICK p \in Hits : IsFirst(p, {q \in Hits : q > lo}) /\ lo' = p
  BY DEF Narrow
<1>2. /\ TextOK /\ step = "narrow" /\ TooWide
      /\ counts' = [counts EXCEPT ![content[lo]] = @ - 1]
      /\ distinct' = distinct - (IF counts[content[lo]] = 1 THEN 1 ELSE 0)
      /\ UNCHANGED <<content, tokens, unsegmented, step, hi, best, bestLo, bestHi, overlap>>
  BY DEF Narrow, ProbeInv
<1>3. /\ lo \in Hits /\ hi \in Hits /\ lo \in Nat /\ hi \in Nat /\ p \in Nat
      /\ Hits \subseteq Nat /\ content[lo] \in Token /\ Window \in Nat
      /\ hi - lo > Window /\ lo < p /\ p <= hi
      /\ \A q \in Hits : q > lo => p <= q
  <2>1. lo \in Hits /\ hi \in Hits
    BY <1>2 DEF ProbeInv, Pointers, Scanning
  <2>2. /\ Hits \subseteq Nat /\ content[lo] \in Token /\ Window \in Nat /\ lo < p
        /\ \A q \in Hits : q > lo => p <= q
    BY <1>1, <1>2, <2>1, HitsFinite, ProbeAssumption DEF IsFirst
  <2> QED
    BY <1>2, <2>1, <2>2 DEF TooWide
<1>4. /\ Hits' = Hits
      /\ \A w : Within(lo, hi, w)' = Within(p, hi, w)
      /\ Mentioned(lo, hi)' = Mentioned(p, hi)
      /\ \A c, d : Mentioned(c, d)' = Mentioned(c, d)
  <2>1. Hits' = Hits
    BY <1>2, TextStays
  <2> QED
    BY <1>1, <1>2, <2>1 DEF Within, Mentioned
<1>5. TextOK'
  BY <1>2 DEF TextOK
<1>6. Pointers'
  BY <1>1, <1>2, <1>3, <1>4 DEF Pointers
<1>7. Counted'
  <2>1. /\ counts = [w \in Token |-> Cardinality(Within(lo, hi, w))]
        /\ distinct = Cardinality(Mentioned(lo, hi))
    BY <1>2 DEF ProbeInv, Counted, Scanning
  <2>2. \A q \in Hits : p <= q /\ q <= hi <=> (lo <= q /\ q <= hi) /\ q # lo
    BY <1>3
  <2>3. Within(p, hi, content[lo]) = Within(lo, hi, content[lo]) \ {lo}
    BY <2>2 DEF Within
  <2>4. lo \in Within(lo, hi, content[lo])
    BY <1>3 DEF Within
  <2>5. \A w : w # content[lo] => Within(p, hi, w) = Within(lo, hi, w)
    BY <2>2 DEF Within
  <2>6. Cardinality(Within(p, hi, content[lo])) = Cardinality(Within(lo, hi, content[lo])) - 1
    <3>1. IsFiniteSet(Within(lo, hi, content[lo]))
      BY <1>2, CountsFinite
    <3> QED
      BY <2>3, <2>4, <3>1, FS_RemoveElement
  <2>7. counts' = [w \in Token |-> Cardinality(Within(p, hi, w))]
    BY <1>2, <1>3, <2>1, <2>5, <2>6
  <2>8. Cardinality(Mentioned(p, hi)) = distinct'
    <3>1. /\ IsFiniteSet(Mentioned(lo, hi)) /\ Cardinality(Mentioned(lo, hi)) \in Nat
          /\ Cardinality(Within(p, hi, content[lo])) \in Nat
          /\ Cardinality(Within(lo, hi, content[lo])) \in Nat
      BY <1>2, CountsFinite
    <3>2. content[lo] \in Mentioned(lo, hi)
      BY <1>3 DEF Mentioned
    <3>3. content[lo] \in Mentioned(p, hi) <=> counts[content[lo]] # 1
      <4>1. counts[content[lo]] = Cardinality(Within(p, hi, content[lo])) + 1
        BY <1>3, <2>1, <2>6, <3>1
      <4> QED
        BY <1>2, <3>1, <4>1, MentionedOccurs
    <3>4. Mentioned(lo, hi) = Mentioned(p, hi) \cup {content[lo]}
      BY <1>3, <2>2 DEF Mentioned
    <3>5. CASE counts[content[lo]] # 1
      <4>1. Mentioned(p, hi) = Mentioned(lo, hi)
        BY <3>3, <3>4, <3>5
      <4> QED
        BY <1>2, <2>1, <3>1, <3>5, <4>1
    <3>6. CASE counts[content[lo]] = 1
      <4>1. Mentioned(p, hi) = Mentioned(lo, hi) \ {content[lo]}
        BY <3>3, <3>4, <3>6
      <4> QED
        BY <1>2, <2>1, <3>1, <3>2, <3>6, <4>1, FS_RemoveElement
    <3> QED
      BY <3>5, <3>6
  <2> QED
    BY <1>4, <2>7, <2>8 DEF Counted
<1>8. Passed'
  <2>1. \A q \in Hits : q < lo => hi - q > Window
    BY <1>2 DEF ProbeInv, Passed, Scanning
  <2>2. \A q \in Hits : q < p => hi - q > Window
    BY <1>3, <2>1
  <2> QED
    BY <1>1, <1>2, <1>4, <2>2 DEF Passed
<1>9. Bounded'
  BY <1>2, <1>4 DEF ProbeInv, Bounded, Scanning
<1>10. Attained'
  <2>1. Mentioned(bestLo, bestHi)' = Mentioned(bestLo, bestHi)
    BY <1>2, <1>4 DEF Mentioned
  <2> QED
    BY <1>2, <1>4, <2>1 DEF ProbeInv, Attained, Scanning
<1>11. Fitted' /\ ProbeIsMax' /\ ExcerptLocatesBest' /\ SilenceIsReal'
  BY <1>2, <1>5, NoResultYet DEF Fitted
<1> QED
  BY <1>5, <1>6, <1>7, <1>8, <1>9, <1>10, <1>11 DEF ProbeInv

\* The window is compared with the best so far.
LEMMA CompareStep ==
    ASSUME ProbeInv, Compare
    PROVE  ProbeInv'
<1>1. /\ TextOK /\ step = "narrow" /\ step' = "read" /\ ~TooWide
      /\ UNCHANGED <<content, tokens, unsegmented, lo, hi, counts, distinct, overlap>>
      /\ IF distinct > best
         THEN best' = distinct /\ bestLo' = lo /\ bestHi' = hi
         ELSE UNCHANGED <<best, bestLo, bestHi>>
  BY DEF Compare, ProbeInv
<1>2. /\ lo \in Hits /\ hi \in Hits /\ lo \in Nat /\ hi \in Nat /\ lo <= hi
      /\ Hits \subseteq Nat /\ Window \in Nat /\ hi - lo <= Window
      /\ best \in Nat /\ hi # -1
  <2>1. lo \in Hits /\ hi \in Hits /\ lo <= hi
    BY <1>1 DEF ProbeInv, Pointers, Scanning
  <2> QED
    BY <1>1, <2>1, HitsFinite, ProbeAssumption DEF TooWide, TextOK
<1>3. /\ Hits' = Hits
      /\ \A w : Within(lo, hi, w)' = Within(lo, hi, w)
      /\ \A c, d : Mentioned(c, d)' = Mentioned(c, d)
      /\ Mentioned(lo, hi)' = Mentioned(lo, hi)
  <2>1. Hits' = Hits
    BY <1>1, TextStays
  <2> QED
    BY <1>1, <2>1 DEF Within, Mentioned
<1>4. /\ distinct = Cardinality(Mentioned(lo, hi)) /\ distinct \in Nat /\ distinct > 0
      /\ best' \in Nat /\ best' >= best /\ best' >= distinct
  <2>1. distinct = Cardinality(Mentioned(lo, hi))
    BY <1>1 DEF ProbeInv, Counted, Scanning
  <2>2. content[lo] \in Mentioned(lo, hi)
    BY <1>2 DEF Mentioned
  <2>3. distinct \in Nat /\ distinct # 0
    BY <1>1, <2>1, <2>2, CountsFinite, FS_EmptySet
  <2> QED
    BY <1>1, <1>2, <2>1, <2>3
<1>5. TextOK'
  BY <1>1, <1>4 DEF TextOK
<1>6. Pointers'
  BY <1>1, <1>2, <1>3 DEF Pointers
<1>7. Counted'
  BY <1>1, <1>3 DEF ProbeInv, Counted, Scanning
<1>8. Passed'
  BY <1>1, <1>3 DEF ProbeInv, Passed, Scanning
<1>9. Bounded'
  <2> SUFFICES ASSUME NEW a \in Place, NEW b \in Place, b - a <= Window, b <= hi
               PROVE  Cardinality(Mentioned(a, b)) <= best'
    <3>1. \A b \in Place : b < hi \/ b = hi => b <= hi
      BY <1>2, ProbeAssumption
    <3> QED
      BY <1>1, <1>3, <3>1 DEF Bounded
  <2>1. a \in Nat /\ b \in Nat /\ Cardinality(Mentioned(a, b)) \in Nat
    BY <1>1, ProbeAssumption, CountsFinite
  <2>2. CASE b < hi
    <3>1. Cardinality(Mentioned(a, b)) <= best
      BY <1>1, <2>2 DEF ProbeInv, Bounded, Scanning
    <3> QED
      BY <1>2, <1>4, <2>1, <3>1
  <2>3. CASE b = hi
    <3>1. \A q \in Hits : q < lo => hi - q > Window
      BY <1>1 DEF ProbeInv, Passed, Scanning
    <3>2. \A q \in Hits : a <= q /\ q <= b => lo <= q /\ q <= hi
      BY <1>2, <2>1, <2>3, <3>1
    <3>3. Cardinality(Mentioned(a, b)) <= Cardinality(Mentioned(lo, hi))
      BY <1>1, <3>2, MentionedMonotone
    <3> QED
      BY <1>4, <2>1, <3>3
  <2> QED
    BY <1>2, <2>1, <2>2, <2>3
<1>10. Attained'
  <2>1. CASE distinct > best
    <3>1. Mentioned(bestLo, bestHi)' = Mentioned(lo, hi)
      BY <1>1, <1>3, <2>1 DEF Mentioned
    <3> QED
      BY <1>1, <1>2, <1>3, <1>4, <2>1, <3>1 DEF Attained
  <2>2. CASE ~(distinct > best)
    <3>1. Mentioned(bestLo, bestHi)' = Mentioned(bestLo, bestHi)
      BY <1>1, <1>3, <2>2 DEF Mentioned
    <3> QED
      BY <1>1, <1>3, <2>2, <3>1 DEF ProbeInv, Attained, Scanning
  <2> QED
    BY <2>1, <2>2
<1>11. Fitted'
  BY <1>1, <1>2, <1>4 DEF Fitted
<1>12. ProbeIsMax' /\ ExcerptLocatesBest' /\ SilenceIsReal'
  BY <1>1, <1>5, NoResultYet
<1> QED
  BY <1>5, <1>6, <1>7, <1>8, <1>9, <1>10, <1>11, <1>12 DEF ProbeInv

\* What is cut around two hits stays in bounds and shows the hits that follow the
\* first within ExcerptCap - Before.
LEMMA CutShows ==
    ASSUME NEW a \in Nat, NEW b \in Nat, b < DocLen
    PROVE  /\ Cut(a, b).to <= DocLen /\ Cut(a, b).to - Cut(a, b).from <= ExcerptCap
           /\ \A q \in Nat :
                 a <= q /\ q <= b /\ q - a < ExcerptCap - Before =>
                     Cut(a, b).from <= q /\ q < Cut(a, b).to
<1> DEFINE from == IF a < Before THEN 0 ELSE a - Before
           to == Least(Least(DocLen, b + After), from + ExcerptCap)
<1>1. Cut(a, b).from = from /\ Cut(a, b).to = to
  BY DEF Cut
<1>2. from \in Nat /\ from <= a /\ a - Before <= from
  BY ProbeAssumption
<1>3. /\ to <= DocLen /\ to <= from + ExcerptCap
      /\ to \in {DocLen, b + After, from + ExcerptCap}
  BY <1>2, ProbeAssumption DEF Least
<1> HIDE DEF from, to
<1> QED
  BY <1>1, <1>2, <1>3, ProbeAssumption

\* The pass is over.
LEMMA ReportStep ==
    ASSUME ProbeInv, Report
    PROVE  ProbeInv'
<1>1. /\ TextOK /\ step = "read" /\ step' = "returned" /\ overlap' = "measured"
      /\ \A q \in Hits : q <= hi
      /\ UNCHANGED <<content, tokens, unsegmented, lo, hi, counts, distinct, best,
                     bestLo, bestHi>>
  BY DEF Report, ProbeInv
<1>2. /\ hi # -1 /\ hi \in Hits /\ hi \in Nat /\ Hits \subseteq Nat
      /\ best \in Nat /\ best > 0
  <2>1. lo \in Hits /\ lo \in Nat /\ Hits \subseteq Nat
    BY <1>1, HitsFinite DEF ProbeInv, Pointers, Scanning
  <2>2. hi # -1
    BY <1>1, <2>1
  <2>3. hi \in Hits
    BY <1>1, <2>2 DEF ProbeInv, Pointers, Scanning
  <2> QED
    BY <1>1, <2>1, <2>2, <2>3 DEF ProbeInv, Fitted, TextOK
<1>3. /\ Hits' = Hits
      /\ \A c, d : Mentioned(c, d)' = Mentioned(c, d)
      /\ Mentioned(bestLo, bestHi)' = Mentioned(bestLo, bestHi)
  <2>1. Hits' = Hits
    BY <1>1, TextStays
  <2> QED
    BY <1>1, <2>1 DEF Mentioned
<1>4. /\ bestLo \in Hits /\ bestHi \in Hits
      /\ bestHi - bestLo <= Window
      /\ Cardinality(Mentioned(bestLo, bestHi)) = best
  BY <1>1, <1>2 DEF ProbeInv, Attained, Scanning
<1>5. ASSUME NEW a \in Place, NEW b \in Place, b - a <= Window
      PROVE  Cardinality(Mentioned(a, b)) <= best
  <2>1. /\ a \in Nat /\ b \in Nat /\ Window \in Nat
        /\ Cardinality(Mentioned(a, b)) \in Nat /\ Cardinality(Mentioned(a, hi)) \in Nat
    BY <1>1, ProbeAssumption, CountsFinite
  <2>2. CASE b <= hi
    BY <1>1, <1>2, <1>5, <2>1, <2>2 DEF ProbeInv, Bounded, Scanning
  <2>3. CASE b > hi
    <3>1. \A q \in Hits : a <= q /\ q <= b => a <= q /\ q <= hi
      BY <1>1
    <3>2. Cardinality(Mentioned(a, b)) <= Cardinality(Mentioned(a, hi))
      BY <1>1, <3>1, MentionedMonotone
    <3>3. hi \in Place /\ hi - a <= Window
      BY <1>1, <1>2, <1>5, <2>1, <2>3, HitsFinite
    <3>4. Cardinality(Mentioned(a, hi)) <= best
      BY <1>1, <3>3 DEF ProbeInv, Bounded, Scanning
    <3> QED
      BY <1>2, <2>1, <3>2, <3>4
  <2> QED
    BY <1>2, <2>1, <2>2, <2>3
<1>6. ProbeIsMax'
  <2>1. \A a, b \in Place : b - a <= Window => Cardinality(Mentioned(a, b)') <= best'
    BY <1>1, <1>3, <1>5
  <2>2. bestLo \in Place /\ bestHi \in Place
    BY <1>1, <1>4, HitsFinite
  <2>3. \E a, b \in Place : b - a <= Window /\ Cardinality(Mentioned(a, b)') = best'
    BY <1>1, <1>3, <1>4, <2>2
  <2> QED
    BY <2>1, <2>3 DEF ProbeIsMax
<1>7. ExcerptLocatesBest'
  <2>1. excerpt' = Cut(bestLo, bestHi)
    BY DEF Report
  <2>2. bestLo \in Nat /\ bestHi \in Nat /\ bestHi < DocLen
    BY <1>1, <1>4, HitsFinite, ProbeAssumption
  <2>3. /\ excerpt'.to <= DocLen /\ excerpt'.to - excerpt'.from <= ExcerptCap
        /\ \A q \in Hits :
              bestLo <= q /\ q <= bestHi /\ q - bestLo < ExcerptCap - Before =>
                  excerpt'.from <= q /\ q < excerpt'.to
    BY <1>2, <2>1, <2>2, CutShows
  <2> QED
    BY <1>1, <1>3, <1>4, <2>3 DEF ExcerptLocatesBest, Shows
<1>8. SilenceIsReal'
  BY <1>1, <1>2 DEF SilenceIsReal
<1>9. TextOK'
  BY <1>1 DEF TextOK
<1> QED
  BY <1>1, <1>6, <1>7, <1>8, <1>9 DEF ProbeInv, Pointers, Counted, Passed, Bounded,
     Attained, Fitted, Scanning

\* Nothing happens.
LEMMA ProbeStutter ==
    ASSUME ProbeInv, UNCHANGED probeVars
    PROVE  ProbeInv'
<1>1. /\ Hits' = Hits
      /\ \A a, b, w : Within(a, b, w)' = Within(a, b, w)
      /\ \A a, b : Mentioned(a, b)' = Mentioned(a, b)
      /\ \A w : Within(lo, hi, w)' = Within(lo, hi, w)
      /\ Mentioned(lo, hi)' = Mentioned(lo, hi)
      /\ Mentioned(bestLo, bestHi)' = Mentioned(bestLo, bestHi)
  BY DEF probeVars, Hits, Within, Mentioned
<1>2. TextOK' /\ Pointers' /\ Passed' /\ Fitted'
  BY <1>1 DEF ProbeInv, probeVars, TextOK, Pointers, Passed, Fitted, Scanning, IsFirst
<1>3. Counted' /\ Bounded' /\ Attained'
  BY <1>1 DEF ProbeInv, probeVars, Counted, Bounded, Attained, Scanning
<1>4. ProbeIsMax' /\ SilenceIsReal'
  BY <1>1 DEF ProbeInv, probeVars, ProbeIsMax, SilenceIsReal
<1>5. ExcerptLocatesBest'
  BY <1>1 DEF ProbeInv, probeVars, ExcerptLocatesBest, Shows
<1> QED
  BY <1>2, <1>3, <1>4, <1>5 DEF ProbeInv

\* The pass is right at every step.
LEMMA ProbeInvariant == ProbeSpec => []ProbeInv
<1>1. ProbeInv /\ [ProbeNext]_probeVars => ProbeInv'
  BY CollectStep, ReadStep, NarrowStep, CompareStep, ReportStep, ProbeStutter DEF ProbeNext
<1> QED
  BY <1>1, InitSatisfies, PTL DEF ProbeSpec

-----------------------------------------------------------------------------
\* The number recall_probe() returns is the most distinctive words any stretch
\* of window_chars mentions.
THEOREM PassIsExact == ProbeSpec => []ProbeIsMax
<1>1. ProbeInv => ProbeIsMax
  BY DEF ProbeInv
<1> QED
  BY <1>1, ProbeInvariant, PTL

\* The excerpt shows where a stretch with that many words begins, and those of them
\* that begin within ExcerptCap - Before of its start.
THEOREM ExcerptLocates == ProbeSpec => []ExcerptLocatesBest
<1>1. ProbeInv => ExcerptLocatesBest
  BY DEF ProbeInv
<1> QED
  BY <1>1, ProbeInvariant, PTL

\* A document is called silent only when it mentions none of the words.
THEOREM SilenceIsExact == ProbeSpec => []SilenceIsReal
<1>1. ProbeInv => SilenceIsReal
  BY DEF ProbeInv
<1> QED
  BY <1>1, ProbeInvariant, PTL

-----------------------------------------------------------------------------
\* The windows of _best_fuzzy_ratio().

Starts == {Shift(p) : p \in SeedsOf(seeded)}

\* A start kept just before s stands for it.
Covered(s) == \E i \in DOMAIN thinned : thinned[i] <= s /\ s - thinned[i] < Advance

ChoiceOK ==
    /\ text \in [Spot -> Anchor \cup {Blur}]
    /\ quote \in Quotes
    /\ phase \in {"seed", "thin", "score"}
    /\ seeded \subseteq Anchor
    /\ unsorted \subseteq Nat
    /\ thinned \in Seq(Nat)
    /\ phase = "seed" => thinned = <<>>

\* Starts are taken in ascending order.
Ascending == \A i \in DOMAIN thinned : \A u \in unsorted : thinned[i] <= u

\* Every start seeded is still to come, or covered.
NoneLost == phase # "seed" => \A s \in Starts : s \in unsorted \/ Covered(s)

IsRarest(w) ==
    /\ Occurrences(w) # {}
    /\ \A v \in Anchor \ {w} :
          Occurrences(v) = {} \/ Cardinality(Occurrences(w)) < Cardinality(Occurrences(v))

\* The first word seeded is the rarest.
RarestFirst ==
    \A w \in Anchor : IsRarest(w) /\ (seeded # {} \/ phase # "seed") => w \in seeded

\* Scoring starts when nothing is left to thin.
AllThinned ==
    phase = "score" =>
        unsorted = {} /\ (Len(thinned) <= WindowCap => windows = thinned)

WindowsInv ==
    ChoiceOK /\ Ascending /\ NoneLost /\ RarestFirst /\ AllThinned

-----------------------------------------------------------------------------
\* A quarter and an advance together stay within half the quote.
LEMMA LengthsOK ==
    /\ QuoteLen \in Nat /\ Quarter \in Nat /\ Advance \in Nat /\ Advance > 0
    /\ Quarter + Advance <= QuoteLen \div 2 + 1
    /\ QuoteLen \div 2 \in Nat
BY WindowsAssumption DEF Quarter, Advance

\* Occurrences are positions, finitely many.
LEMMA OccurrencesFinite ==
    ASSUME ChoiceOK, NEW w
    PROVE  /\ Occurrences(w) \subseteq Nat
           /\ IsFiniteSet(Occurrences(w))
           /\ Cardinality(Occurrences(w)) \in Nat
<1>1. Occurrences(w) \subseteq 0..(TextLen - 1) /\ TextLen \in Nat
  BY WindowsAssumption DEF Occurrences, ChoiceOK
<1>2. IsFiniteSet(0..(TextLen - 1))
  BY <1>1, FS_Interval
<1> QED
  BY <1>1, <1>2, FS_Subset, FS_CardinalityType

\* Windows start at positions.
LEMMA StartsAreNat ==
    ASSUME ChoiceOK
    PROVE  Starts \subseteq Nat
<1>1. \A p \in SeedsOf(seeded) : p \in Nat
  BY OccurrencesFinite DEF SeedsOf
<1>2. \A p \in Nat : Shift(p) \in Nat
  BY LengthsOK DEF Shift
<1> QED
  BY <1>1, <1>2 DEF Starts

-----------------------------------------------------------------------------
\* Nothing is chosen yet.
LEMMA WindowsInitSatisfies == WindowsInit => WindowsInv
<1> SUFFICES ASSUME WindowsInit
             PROVE  WindowsInv
  OBVIOUS
<1>1. phase = "seed" /\ seeded = {} /\ unsorted = {} /\ thinned = <<>>
  BY DEF WindowsInit
<1>2. ChoiceOK
  BY <1>1 DEF WindowsInit, ChoiceOK
<1> QED
  BY <1>1, <1>2 DEF WindowsInv, Ascending, NoneLost, RarestFirst, AllThinned

\* A word seeds windows at its occurrences.
LEMMA SeedStep ==
    ASSUME WindowsInv, Seed
    PROVE  WindowsInv'
<1>1. /\ ChoiceOK /\ phase = "seed"
      /\ UNCHANGED <<text, quote, phase, unsorted, thinned, windows>>
  BY DEF Seed, WindowsInv
<1>2. PICK v \in Unseeded : ComesFirst(v) /\ seeded' = seeded \cup {v}
  BY DEF Seed
<1>3. ChoiceOK'
  BY <1>1, <1>2 DEF ChoiceOK, Unseeded
<1>4. Ascending' /\ NoneLost' /\ AllThinned'
  BY <1>1 DEF WindowsInv, Ascending, NoneLost, AllThinned
<1>5. RarestFirst'
  <2>1. \A w : Occurrences(w)' = Occurrences(w)
    BY <1>1 DEF Occurrences
  <2> SUFFICES ASSUME NEW w \in Anchor, IsRarest(w)
               PROVE  w \in seeded'
    BY <2>1 DEF RarestFirst, IsRarest
  <2>2. CASE seeded # {}
    BY <1>1, <1>2, <2>2 DEF WindowsInv, RarestFirst
  <2>3. CASE seeded = {} /\ v # w
    <3>1. w \in Unseeded \ {v} /\ v \in Anchor /\ Occurrences(v) # {}
      BY <1>2, <2>3 DEF Unseeded, IsRarest
    <3>2. Cardinality(Occurrences(v)) <= Cardinality(Occurrences(w))
      BY <1>1, <1>2, <3>1, OccurrencesFinite DEF ComesFirst
    <3>3. Cardinality(Occurrences(w)) < Cardinality(Occurrences(v))
      BY <2>3, <3>1 DEF IsRarest
    <3> QED
      BY <1>1, <3>2, <3>3, OccurrencesFinite
  <2> QED
    BY <1>2, <2>2, <2>3
<1> QED
  BY <1>3, <1>4, <1>5 DEF WindowsInv

\* All words are seeded and the starts go to be thinned.
LEMMA SortStep ==
    ASSUME WindowsInv, Sort
    PROVE  WindowsInv'
<1>1. /\ ChoiceOK /\ phase = "seed" /\ phase' = "thin"
      /\ unsorted' = Starts
      /\ UNCHANGED <<text, quote, seeded, thinned, windows>>
  BY DEF Sort, WindowsInv, Starts
<1>2. ChoiceOK'
  BY <1>1, StartsAreNat DEF ChoiceOK
<1>3. \A w : Occurrences(w)' = Occurrences(w)
  BY <1>1 DEF Occurrences
<1>4. Starts' = Starts
  BY <1>1, <1>3 DEF Starts, SeedsOf, Shift
<1>5. Ascending'
  <2>1. thinned' = <<>>
    BY <1>1 DEF ChoiceOK
  <2> QED
    BY <2>1 DEF Ascending
<1>6. NoneLost'
  BY <1>1, <1>4 DEF NoneLost
<1>7. RarestFirst'
  <2> SUFFICES ASSUME NEW w \in Anchor, IsRarest(w)
               PROVE  w \in seeded
    BY <1>1, <1>3 DEF RarestFirst, IsRarest
  <2>1. CASE seeded # {}
    BY <2>1 DEF WindowsInv, RarestFirst
  <2>2. CASE seeded = {}
    <3>1. SeedsOf(seeded) = {}
      BY <2>2 DEF SeedsOf
    <3>2. Cardinality(SeedsOf(seeded)) < SeedCap
      BY <3>1, FS_EmptySet, WindowsAssumption
    <3>3. Unseeded = {}
      BY <3>2, <3>1, FS_EmptySet, WindowsAssumption DEF Sort
    <3> QED
      BY <2>2, <3>3 DEF Unseeded, IsRarest
  <2> QED
    BY <2>1, <2>2
<1>8. AllThinned'
  BY <1>1 DEF AllThinned
<1> QED
  BY <1>2, <1>5, <1>6, <1>7, <1>8 DEF WindowsInv

\* The least start left is kept or is close to one kept.
LEMMA ThinStep ==
    ASSUME WindowsInv, Thin
    PROVE  WindowsInv'
<1>1. PICK s \in unsorted :
           /\ \A u \in unsorted : s <= u
           /\ unsorted' = unsorted \ {s}
           /\ thinned' = IF FarEnough(s) THEN Append(thinned, s) ELSE thinned
  BY DEF Thin
<1>2. /\ ChoiceOK /\ phase = "thin" /\ phase' = phase
      /\ UNCHANGED <<text, quote, seeded, windows>>
      /\ s \in Nat /\ thinned \in Seq(Nat) /\ unsorted \subseteq Nat
  BY DEF Thin, WindowsInv, ChoiceOK
<1>3. ChoiceOK'
  BY <1>1, <1>2 DEF ChoiceOK
<1>4. /\ \A w : Occurrences(w)' = Occurrences(w)
      /\ Starts' = Starts
  BY <1>2 DEF Occurrences, Starts, SeedsOf, Shift
<1>5. /\ \A i \in DOMAIN thinned : i \in DOMAIN thinned' /\ thinned'[i] = thinned[i]
      /\ \A i \in DOMAIN thinned' : i \in DOMAIN thinned \/ thinned'[i] = s
  BY <1>1, <1>2
<1>6. Ascending'
  <2>1. \A i \in DOMAIN thinned, u \in unsorted : thinned[i] <= u
    BY DEF WindowsInv, Ascending
  <2>2. ASSUME NEW i \in DOMAIN thinned', NEW u \in unsorted'
        PROVE  thinned'[i] <= u
    BY <1>1, <1>5, <2>1
  <2> QED
    BY <2>2 DEF Ascending
<1>7. Covered(s)'
  <2>1. CASE FarEnough(s)
    <3>1. /\ thinned' = Append(thinned, s)
          /\ Len(thinned) + 1 \in DOMAIN thinned' /\ thinned'[Len(thinned) + 1] = s
      BY <1>1, <1>2, <2>1
    <3> QED
      BY <1>2, <3>1, LengthsOK DEF Covered, Advance, Quarter
  <2>2. CASE ~FarEnough(s)
    <3>1. /\ thinned' = thinned
          /\ Len(thinned) \in DOMAIN thinned /\ thinned[Len(thinned)] \in Nat
          /\ ~(s - thinned[Len(thinned)] >= Advance)
      BY <1>1, <1>2, <2>2 DEF FarEnough, Last
    <3>2. thinned[Len(thinned)] <= s
      BY <3>1 DEF WindowsInv, Ascending
    <3>3. s - thinned[Len(thinned)] < Advance
      BY <1>2, <3>1, LengthsOK
    <3> QED
      BY <3>1, <3>2, <3>3 DEF Covered, Advance, Quarter
  <2> QED
    BY <2>1, <2>2
<1>8. NoneLost'
  <2> SUFFICES ASSUME NEW t \in Starts, t \notin unsorted'
               PROVE  Covered(t)'
    BY <1>4 DEF NoneLost
  <2>1. CASE t = s
    BY <1>7, <2>1 DEF Covered
  <2>2. CASE t # s
    <3>1. Covered(t)
      BY <1>1, <1>2, <2>2 DEF WindowsInv, NoneLost
    <3> QED
      BY <1>5, <3>1 DEF Covered, Advance, Quarter
  <2> QED
    BY <2>1, <2>2
<1>9. RarestFirst' /\ AllThinned'
  BY <1>2, <1>4 DEF WindowsInv, RarestFirst, IsRarest, AllThinned
<1> QED
  BY <1>3, <1>6, <1>8, <1>9 DEF WindowsInv

\* The windows are the thinned starts, or a sample of them.
LEMMA ChooseStep ==
    ASSUME WindowsInv, Choose
    PROVE  WindowsInv'
<1>1. /\ ChoiceOK /\ phase = "thin" /\ phase' = "score" /\ unsorted = {}
      /\ windows' = IF Len(thinned) > WindowCap THEN Sampled(thinned) ELSE thinned
      /\ UNCHANGED <<text, quote, seeded, unsorted, thinned>>
  BY DEF Choose, WindowsInv
<1>2. /\ \A w : Occurrences(w)' = Occurrences(w)
      /\ Starts' = Starts
      /\ \A s : Covered(s)' = Covered(s)
  BY <1>1 DEF Occurrences, Starts, SeedsOf, Shift, Covered, Advance, Quarter
<1>3. ChoiceOK'
  BY <1>1 DEF ChoiceOK
<1>4. Ascending' /\ NoneLost' /\ RarestFirst'
  BY <1>1, <1>2 DEF WindowsInv, Ascending, NoneLost, RarestFirst, IsRarest
<1>5. AllThinned'
  <2>1. Len(thinned) \in Nat /\ WindowCap \in Nat
    BY <1>1, WindowsAssumption DEF ChoiceOK
  <2> QED
    BY <1>1, <2>1 DEF AllThinned
<1> QED
  BY <1>3, <1>4, <1>5 DEF WindowsInv

\* Nothing happens.
LEMMA WindowsStutter ==
    ASSUME WindowsInv, UNCHANGED windowVars
    PROVE  WindowsInv'
<1>1. /\ \A w : Occurrences(w)' = Occurrences(w)
      /\ Starts' = Starts
      /\ \A s : Covered(s)' = Covered(s)
  BY DEF windowVars, Occurrences, Starts, SeedsOf, Shift, Covered, Advance, Quarter
<1> QED
  BY <1>1 DEF WindowsInv, windowVars, ChoiceOK, Ascending, NoneLost, RarestFirst, IsRarest,
     AllThinned

\* The choice is right at every step.
LEMMA WindowsInvariant == WindowsSpec => []WindowsInv
<1>1. WindowsInv /\ [WindowsNext]_windowVars => WindowsInv'
  BY SeedStep, SortStep, ThinStep, ChooseStep, WindowsStutter DEF WindowsNext
<1> QED
  BY <1>1, WindowsInitSatisfies, PTL DEF WindowsSpec

-----------------------------------------------------------------------------
\* When nothing is left to thin, every start seeded is covered.
LEMMA SeededIsCovered ==
    ASSUME WindowsInv, phase = "score", NEW w \in seeded, NEW p \in Occurrences(w)
    PROVE  Covered(Shift(p))
<1>1. Shift(p) \in Starts
  BY DEF Starts, SeedsOf
<1> QED
  BY <1>1 DEF WindowsInv, NoneLost, AllThinned

\* A start kept close before an occurrence has the whole quote in its window.
LEMMA CoveredHolds ==
    ASSUME WindowsInv, NEW b \in Nat, NEW w \in Anchor, NEW i \in DOMAIN thinned,
           quote[w] <= Quarter, Stands(b),
           thinned[i] <= Shift(b + quote[w]),
           Shift(b + quote[w]) - thinned[i] < Advance
    PROVE  Holds(thinned[i], b)
<1>1. /\ quote[w] \in Nat /\ thinned[i] \in Nat
      /\ Quarter \in Nat /\ Advance \in Nat /\ QuoteLen \in Nat /\ QuoteLen \div 2 \in Nat
      /\ Quarter + Advance <= QuoteLen \div 2 + 1
  BY LengthsOK, WindowsAssumption DEF WindowsInv, ChoiceOK
<1>2. /\ Shift(b + quote[w]) \in Nat /\ Shift(b + quote[w]) <= b
      /\ b - Shift(b + quote[w]) <= Quarter
  BY <1>1 DEF Shift
<1>3. thinned[i] <= b /\ b - thinned[i] <= QuoteLen \div 2
  BY <1>1, <1>2
<1> QED
  BY <1>1, <1>3 DEF Holds, Span

\* Unless a cap was reached, a quote one of whose words lies in its first
\* quarter is scored as a whole wherever it stands.
THEOREM ThinningKeepsMatches == WindowsSpec => []UncappedQuoteScored
<1>1. ASSUME WindowsInv
      PROVE  UncappedQuoteScored
  <2> SUFFICES ASSUME phase = "score", ~Capped, NEW w \in Anchor, quote[w] <= Quarter,
                      NEW b \in Places, Stands(b)
               PROVE  ScoredAt(b)
    BY DEF UncappedQuoteScored
  <2>1. b \in Nat /\ b + quote[w] \in Occurrences(w)
    BY WindowsAssumption DEF Places, Stands
  <2>2. w \in seeded
    BY <2>1 DEF Capped, Unseeded
  <2>3. Covered(Shift(b + quote[w]))
    BY <1>1, <2>1, <2>2, SeededIsCovered
  <2>4. PICK i \in DOMAIN thinned :
             /\ thinned[i] <= Shift(b + quote[w])
             /\ Shift(b + quote[w]) - thinned[i] < Advance
    BY <2>3 DEF Covered
  <2>5. Holds(thinned[i], b)
    BY <1>1, <2>1, <2>4, CoveredHolds
  <2>6. windows = thinned
    <3>1. Len(thinned) \in Nat /\ WindowCap \in Nat
      BY <1>1, WindowsAssumption DEF WindowsInv, ChoiceOK
    <3> QED
      BY <1>1, <3>1 DEF Capped, WindowsInv, AllThinned
  <2> QED
    BY <2>4, <2>5, <2>6 DEF ScoredAt
<1> QED
  BY <1>1, WindowsInvariant, PTL

\* The rarest word of a document is seeded at every occurrence, whatever the
\* caps cut.
THEOREM RarestIsSeeded == WindowsSpec => []RarestSeeded
<1>1. ASSUME WindowsInv
      PROVE  RarestSeeded
  <2> SUFFICES ASSUME phase = "score", NEW w \in Anchor, IsRarest(w),
                      NEW p \in Occurrences(w)
               PROVE  Covered(Shift(p))
    BY DEF RarestSeeded, IsRarest, Covered
  <2>1. w \in seeded
    BY <1>1 DEF WindowsInv, RarestFirst
  <2> QED
    BY <1>1, <2>1, SeededIsCovered
<1> QED
  BY <1>1, WindowsInvariant, PTL

-----------------------------------------------------------------------------
\* The sample of windows.

\* Integer division rounds down.
LEMMA DivBounds ==
    ASSUME NEW a \in Nat, NEW b \in Nat \ {0}
    PROVE  a \div b \in Nat /\ b * (a \div b) <= a /\ a < b * (a \div b) + b
OBVIOUS

LEMMA TimesMonotone ==
    ASSUME NEW k \in Nat, NEW a \in Nat, NEW b \in Nat, a <= b
    PROVE  k * a \in Nat /\ k * b \in Nat /\ k * a <= k * b
OBVIOUS

LEMMA TimesCancels ==
    ASSUME NEW k \in Nat \ {0}, NEW a \in Int, NEW b \in Int, k * a < k * b
    PROVE  a < b
OBVIOUS

\* The position, from 0, of sample number i + 1 of w among n > w starts.
SampleAt(i, n, w) == (i * n) \div w

LEMMA SampleInside ==
    ASSUME NEW w \in Nat \ {0}, NEW n \in Nat, n > w, NEW i \in 0 .. w - 1
    PROVE  SampleAt(i, n, w) \in 0 .. n - 1
<1> DEFINE q == (i * n) \div w
<1>1. i * n \in Nat
  OBVIOUS
<1>2. q \in Nat /\ w * q <= i * n
  BY <1>1, DivBounds
<1> HIDE DEF q
<1>3. n * i \in Nat /\ n * (w - 1) \in Nat /\ n * i <= n * (w - 1)
  BY TimesMonotone
<1>4. n * (w - 1) < w * n /\ n * i = i * n
  OBVIOUS
<1>5. w * q < w * n
  BY <1>1, <1>2, <1>3, <1>4
<1>6. q < n
  BY <1>2, <1>5, TimesCancels
<1> QED
  BY <1>2, <1>6 DEF q, SampleAt

\* With more starts than samples, no start is sampled twice.
LEMMA SampleAscends ==
    ASSUME NEW w \in Nat \ {0}, NEW n \in Nat, n > w,
           NEW i \in 0 .. w - 1, NEW j \in 0 .. w - 1, i < j
    PROVE  SampleAt(i, n, w) < SampleAt(j, n, w)
<1> DEFINE p == (i * n) \div w
           q == (j * n) \div w
<1>1. i * n \in Nat /\ j * n \in Nat
  OBVIOUS
<1>2. p \in Nat /\ w * p <= i * n
  BY <1>1, DivBounds
<1>3. q \in Nat /\ j * n < w * q + w
  BY <1>1, DivBounds
<1> HIDE DEF p, q
<1>4. n * (i + 1) <= n * j
  BY TimesMonotone
<1>5. n * (i + 1) = i * n + n /\ n * j = j * n
  OBVIOUS
<1>6. w * p < w * q
  <2>1. w * p \in Nat /\ w * q \in Nat
    BY <1>2, <1>3
  <2> QED
    BY <1>1, <1>2, <1>3, <1>4, <1>5, <2>1
<1>7. p < q
  BY <1>2, <1>3, <1>6, TimesCancels
<1> QED
  BY <1>7 DEF p, q, SampleAt

\* Every start has a sample less than a stride before it.
LEMMA SampleDense ==
    ASSUME NEW w \in Nat \ {0}, NEW n \in Nat, n > w, NEW k \in 1 .. n
    PROVE  \E i \in 0 .. w - 1 :
              /\ SampleAt(i, n, w) < k
              /\ k - (SampleAt(i, n, w) + 1) < (n + w - 1) \div w
<1> DEFINE i == (k * w - 1) \div n
           q == (i * n) \div w
           stride == (n + w - 1) \div w
<1>1. k * w \in Nat /\ k * w - 1 \in Nat /\ n \in Nat \ {0} /\ n + w - 1 \in Nat
  OBVIOUS
<1>2. i \in Nat /\ n * i <= k * w - 1 /\ k * w - 1 < n * i + n
  BY <1>1, DivBounds
<1>3. stride \in Nat /\ n + w - 1 < w * stride + w
  BY <1>1, DivBounds
<1> HIDE DEF i, stride
<1>4. i * n \in Nat /\ n * i = i * n
  BY <1>2
<1>5. q \in Nat /\ w * q <= i * n /\ i * n < w * q + w
  BY <1>4, DivBounds
<1> HIDE DEF q
<1>6. w * q \in Nat /\ w * stride \in Nat /\ w * k = k * w
  BY <1>3, <1>5
<1>7. i < w
  <2>1. w * k <= w * n
    BY TimesMonotone
  <2>2. w * n = n * w /\ w * n \in Nat
    OBVIOUS
  <2>3. n * i < n * w
    BY <1>1, <1>2, <1>4, <1>6, <2>1, <2>2
  <2> QED
    BY <1>1, <1>2, <2>3, TimesCancels
<1>8. q < k
  <2>1. w * q < w * k
    BY <1>1, <1>2, <1>4, <1>5, <1>6
  <2> QED
    BY <1>5, <2>1, TimesCancels
<1>9. k < q + 1 + stride
  <2>1. w * (q + 1 + stride) = w * q + w + w * stride
    BY <1>3, <1>5
  <2>2. w * k < w * (q + 1 + stride)
    BY <1>1, <1>2, <1>3, <1>4, <1>5, <1>6, <2>1
  <2>3. q + 1 + stride \in Int
    BY <1>3, <1>5
  <2> QED
    BY <2>2, <2>3, TimesCancels
<1>10. SampleAt(i, n, w) = q
  BY DEF SampleAt, q
<1>11. i \in 0 .. w - 1
  BY <1>2, <1>7
<1>12. k - (q + 1) < stride
  BY <1>3, <1>5, <1>9
<1> QED
  BY <1>8, <1>10, <1>11, <1>12 DEF stride

\* No start is kept twice, and the sample is taken once, when all are in.
SpreadInv ==
    /\ \A i, j \in DOMAIN thinned : i < j => thinned[i] < thinned[j]
    /\ phase = "score" /\ Len(thinned) > WindowCap => windows = Sampled(thinned)

LEMMA SpreadInit == WindowsInit => SpreadInv
BY DEF WindowsInit, SpreadInv

LEMMA SpreadThin ==
    ASSUME WindowsInv, SpreadInv, Thin
    PROVE  SpreadInv'
<1>1. PICK s \in unsorted :
         /\ \A u \in unsorted : s <= u
         /\ thinned' = IF FarEnough(s) THEN Append(thinned, s) ELSE thinned
  BY DEF Thin
<1>2. phase = "thin" /\ phase' = "thin"
  BY DEF Thin
<1>3. thinned \in Seq(Nat) /\ s \in Nat
  BY <1>1 DEF WindowsInv, ChoiceOK
<1>4. CASE FarEnough(s)
  <2> DEFINE n == Len(thinned)
  <2>1. /\ n \in Nat /\ DOMAIN thinned = 1 .. n /\ \A i \in 1 .. n : thinned[i] \in Nat
        /\ DOMAIN thinned' = 1 .. n + 1 /\ thinned'[n + 1] = s
        /\ \A i \in 1 .. n : thinned'[i] = thinned[i]
    BY <1>1, <1>3, <1>4
  <2> HIDE DEF n
  <2>2. \A i \in 1 .. n : thinned[i] < s
    <3>1. ASSUME NEW i \in 1 .. n
          PROVE  thinned[i] < s
      <4>1. thinned # <<>> /\ Last(thinned) = thinned[n] /\ n \in 1 .. n
        <5>1. n = Len(thinned)
          BY DEF n
        <5>2. n \in 1 .. n
          BY <2>1, <3>1
        <5>3. thinned # <<>>
          BY <2>1, <3>1
        <5> QED
          BY <5>1, <5>2, <5>3 DEF Last
      <4>2. s - thinned[n] >= Advance /\ Advance \in Nat /\ Advance > 0
        BY <1>4, <4>1, LengthsOK DEF FarEnough
      <4>3. thinned[n] < s
        BY <1>3, <2>1, <4>1, <4>2
      <4>4. thinned[i] <= thinned[n]
        <5>1. i < n => thinned[i] < thinned[n]
          BY <2>1, <4>1 DEF SpreadInv
        <5>2. i < n \/ i = n
          BY <2>1, <3>1
        <5>3. thinned[i] \in Nat /\ thinned[n] \in Nat
          BY <2>1, <3>1, <4>1
        <5> QED
          BY <5>1, <5>2, <5>3
      <4> QED
        BY <1>3, <2>1, <4>1, <4>3, <4>4
    <3> QED
      BY <3>1
  <2>3. ASSUME NEW i \in DOMAIN thinned', NEW j \in DOMAIN thinned', i < j
        PROVE  thinned'[i] < thinned'[j]
    <3>1. i \in 1 .. n /\ j \in 1 .. n + 1
      BY <2>1, <2>3
    <3>2. CASE j = n + 1
      BY <2>1, <2>2, <3>1, <3>2
    <3>3. CASE j # n + 1
      <4>1. j \in 1 .. n
        BY <2>1, <3>1, <3>3
      <4> QED
        BY <2>1, <2>3, <3>1, <4>1 DEF SpreadInv
    <3> QED
      BY <3>2, <3>3
  <2> QED
    BY <1>2, <2>3 DEF SpreadInv
<1>5. CASE ~FarEnough(s)
  <2>1. thinned' = thinned
    BY <1>1, <1>5
  <2> QED
    BY <1>2, <2>1 DEF SpreadInv
<1> QED
  BY <1>4, <1>5

LEMMA SpreadNext == WindowsInv /\ SpreadInv /\ [WindowsNext]_windowVars => SpreadInv'
<1> SUFFICES ASSUME WindowsInv, SpreadInv, [WindowsNext]_windowVars
             PROVE  SpreadInv'
  OBVIOUS
<1>1. CASE Seed \/ Sort \/ UNCHANGED windowVars
  BY <1>1 DEF Seed, Sort, windowVars, SpreadInv, Sampled
<1>2. CASE Thin
  BY <1>2, SpreadThin
<1>3. CASE Choose
  <2>1. thinned' = thinned /\ windows' = IF Len(thinned) > WindowCap
                                        THEN Sampled(thinned) ELSE thinned
    BY <1>3 DEF Choose
  <2> QED
    BY <2>1 DEF SpreadInv, Sampled
<1> QED
  BY <1>1, <1>2, <1>3 DEF WindowsNext

LEMMA SpreadInvariant == WindowsSpec => []SpreadInv
BY SpreadInit, SpreadNext, WindowsInvariant, PTL DEF WindowsSpec

\* What the cap on windows leaves is spread over the whole document: no window is
\* scored twice, and none of those dropped is a stride or more behind a scored one.
THEOREM SampleIsSpread == WindowsSpec => []SampleSpread
<1>1. ASSUME WindowsInv, SpreadInv
      PROVE  SampleSpread
  <2> DEFINE n == Len(thinned)
             w == WindowCap
             stride == (n + w - 1) \div w
  <2> SUFFICES ASSUME phase = "score", n > w
               PROVE  /\ \A i, j \in DOMAIN windows : i < j => windows[i] < windows[j]
                      /\ \A k \in DOMAIN thinned :
                            \E j \in DOMAIN thinned, i \in DOMAIN windows :
                               j <= k /\ k - j < stride /\ windows[i] = thinned[j]
    BY DEF SampleSpread
  <2>1. n \in Nat /\ DOMAIN thinned = 1 .. n /\ w \in Nat \ {0}
    BY <1>1, WindowsAssumption DEF WindowsInv, ChoiceOK
  <2>2. windows = [i \in 1 .. w |-> thinned[((i - 1) * n) \div w + 1]]
    BY <1>1 DEF SpreadInv, Sampled
  <2>3. /\ DOMAIN windows = 1 .. w
        /\ \A i \in 1 .. w : windows[i] = thinned[SampleAt(i - 1, n, w) + 1]
    BY <2>2 DEF SampleAt
  <2>4. \A i, j \in 1 .. n : i < j => thinned[i] < thinned[j]
    BY <1>1, <2>1 DEF SpreadInv
  <2> HIDE DEF n, w, stride
  <2>5. ASSUME NEW i \in 1 .. w
        PROVE  i - 1 \in 0 .. w - 1 /\ SampleAt(i - 1, n, w) \in 0 .. n - 1
    <3>1. i - 1 \in 0 .. w - 1
      BY <2>1
    <3> QED
      BY <2>1, <3>1, SampleInside
  <2>6. ASSUME NEW i \in 1 .. w, NEW j \in 1 .. w, i < j
        PROVE  windows[i] < windows[j]
    <3>1. SampleAt(i - 1, n, w) < SampleAt(j - 1, n, w)
      BY <2>1, <2>5, <2>6, SampleAscends
    <3>2. /\ SampleAt(i - 1, n, w) + 1 \in 1 .. n /\ SampleAt(j - 1, n, w) + 1 \in 1 .. n
          /\ SampleAt(i - 1, n, w) + 1 < SampleAt(j - 1, n, w) + 1
      BY <2>1, <2>5, <3>1
    <3> QED
      BY <2>3, <2>4, <3>2
  <2>7. ASSUME NEW k \in 1 .. n
        PROVE  \E j \in 1 .. n, i \in 1 .. w :
                  j <= k /\ k - j < stride /\ windows[i] = thinned[j]
    <3>1. PICK i \in 0 .. w - 1 :
             SampleAt(i, n, w) < k /\ k - (SampleAt(i, n, w) + 1) < stride
      BY <2>1, SampleDense DEF stride
    <3>2. i + 1 \in 1 .. w /\ (i + 1) - 1 = i
      BY <2>1, <3>1
    <3>3. SampleAt(i, n, w) \in 0 .. n - 1
      BY <2>5, <3>2
    <3>4. windows[i + 1] = thinned[SampleAt(i, n, w) + 1]
      BY <2>3, <3>2
    <3>5. SampleAt(i, n, w) + 1 \in 1 .. n /\ SampleAt(i, n, w) + 1 <= k
      BY <2>1, <3>1, <3>3
    <3> QED
      BY <3>1, <3>2, <3>4, <3>5
  <2> QED
    BY <2>1, <2>3, <2>6, <2>7
<1> QED
  BY <1>1, WindowsInvariant, SpreadInvariant, PTL
=============================================================================
