---------------------------- MODULE GroundingText ----------------------------
(***************************************************************************)
(* The text work behind one answer of verify_claim(): recall_probe() for a *)
(* claim the model calls absent, and the fuzzy search of grounding() for a *)
(* quote that is not in the document word for word.                        *)
(***************************************************************************)
EXTENDS ProbeScan, QuoteWindows

textVars == <<probeVars, windowVars>>

\* recall_probe() is not called.
NoProbe ==
    /\ content = [p \in Place |-> Gap] /\ tokens = {} /\ unsegmented = FALSE
    /\ step = "returned"
    /\ lo = 0 /\ hi = -1
    /\ counts = [w \in Token |-> 0] /\ distinct = 0
    /\ best = 0 /\ bestLo = 0 /\ bestHi = 0
    /\ overlap = "pending" /\ excerpt = NoExcerpt

\* _best_fuzzy_ratio() is not called.
NoWindows ==
    /\ text = [p \in Spot |-> Blur]
    /\ quote = CHOOSE q \in Quotes : TRUE
    /\ phase = "exact"
    /\ seeded = {} /\ unsorted = {}
    /\ thinned = <<>> /\ windows = <<>>

Init == (ProbeInit /\ NoWindows) \/ (WindowsInit /\ NoProbe)

Next ==
    \/ ProbeNext /\ UNCHANGED windowVars
    \/ WindowsNext /\ UNCHANGED probeVars

Spec == Init /\ [][Next]_textVars
=============================================================================
