--------------------------- MODULE GroundingGate ---------------------------
(***************************************************************************)
(* What one check of a claim yields: POST /verify (verify_claim in         *)
(* api/app/cag.py, with its mechanical quote grounding), and the ruling    *)
(* that integrations/cag_gate/gate.py and its standalone port for          *)
(* OpenClaw, cag_verify.py, make of the response under the default Policy. *)
(*                                                                         *)
(* The text work is data: which quotes occur in which document, which are  *)
(* long enough to be evidence, and which words stand close together in a   *)
(* document are constants.  What the language model answers is any verdict *)
(* with any quote.                                                         *)
(***************************************************************************)
EXTENDS Integers, FiniteSets

CONSTANTS
    Claim,          \* factual claims
    EmptyClaim,     \* the empty or all-whitespace one
    Canon,          \* documents a claim can be checked against
    Quote,          \* quotes the language model may cite
    Blank,          \* the empty quote
    Substantial,    \* the quotes of min_grounded_quote_chars or more
    Found,          \* Found[d]: the quotes grounding() finds in document d
    Words,          \* Words[c]: the distinctive tokens of claim c
    Stretches,      \* Stretches[d]: the sets of tokens that stand within
                    \* window_chars of each other in document d
    Unsegmented     \* claims in a script without spaces between words

ASSUME GateAssumption ==
    /\ Blank \in Quote \ Substantial
    /\ Substantial \subseteq Quote
    /\ Found \in [Canon -> SUBSET (Quote \ {Blank})]
    /\ Unsegmented \subseteq Claim
    /\ EmptyClaim \in Claim

Verdict == {"supported", "absent", "contradicted"}

\* What the model may answer; "error" is an answer verify_claim cannot read.
Answer == [verdict : Verdict \cup {"error"}, quote : Quote]

\* grounding(): nothing to check, found exactly or nearly, or fabricated.
Grounded(quote, d) ==
    CASE quote = Blank -> "none"
      [] quote \in Found[d] -> "yes"
      [] OTHER -> "no"

\* recall_probe(): the most distinctive words of the claim that co-occur, out of
\* all it has, or "none" where that measures nothing.  "high" starts at the
\* default absent_recall_overlap, one half.
RecallProbe == [c \in Claim |-> [d \in Canon |->
    LET hits == {near \cap Words[c] : near \in Stretches[d]} \ {{}}
    IN IF Cardinality(Words[c]) < 2 \/ (hits = {} /\ c \in Unsegmented) THEN "none"
       ELSE IF \E h \in hits : 2 * Cardinality(h) >= Cardinality(Words[c]) THEN "high"
       ELSE "low"]]

\* The response to claim c about document d when the model answers a.
VerifyClaim(c, d, a) ==
    [verdict  |-> a.verdict,
     quote    |-> a.quote,
     grounded |-> IF a.verdict = "error" THEN "none" ELSE Grounded(a.quote, d),
     overlap  |-> IF a.verdict = "absent" THEN RecallProbe[c][d] ELSE "none"]

\* The oracle is unreachable, refuses, or answers with an error status.
Unavailable ==
    [verdict |-> "error", quote |-> Blank, grounded |-> "none", overlap |-> "none"]

\* The body is JSON, but not an object.
NotAnObject ==
    [verdict |-> "no object", quote |-> Blank, grounded |-> "none", overlap |-> "none"]

-----------------------------------------------------------------------------
\* GroundingGate.evaluate, by what the response shows of the claim.

\* Mutant of Supported: no floor under the length of the cited quote.
SupportedNoFloor(r) == r.verdict = "supported" /\ r.grounded # "no"

Supported(r) ==
    r.verdict = "supported" /\ r.grounded # "no" /\ r.quote \in Substantial

\* Contradicted, or supported by a fabricated citation.
Refuted(r) ==
    r.verdict = "contradicted" \/ (r.verdict = "supported" /\ r.grounded = "no")

\* Absent, but the canon discusses the claim's vocabulary.
TopicPresent(r) == r.verdict = "absent" /\ r.overlap = "high"

\* Absent, supported by a quote too short to count, or no verdict at all.
Unproven(r) == ~Supported(r) /\ ~Refuted(r) /\ ~TopicPresent(r)

\* A blank claim is blocked, whatever a check of it would say.  A memory write that
\* is not allowed is quarantined; an action is blocked, or escalated when the oracle
\* could not tell, an answer that is no object included.
Evaluate(c, r, isAction) ==
    IF c = EmptyClaim THEN "block"
    ELSE CASE Supported(r) -> "allow"
           [] Refuted(r) -> IF isAction THEN "block" ELSE "quarantine"
           [] TopicPresent(r) -> "escalate"
           [] Unproven(r) -> IF isAction THEN "escalate" ELSE "quarantine"

Trusted(action) == action = "allow"

\* Mutant of Decide: a missing citation is taken for a fabricated one.
DecideBlocksBlank(r) ==
    CASE r.verdict = "supported" ->
            IF r.grounded # "yes" THEN "block"
            ELSE IF r.quote \in Substantial THEN "allow" ELSE "escalate"
      [] r.verdict = "contradicted" -> "block"
      [] r = NotAnObject -> "raises"
      [] OTHER -> "escalate"

\* The action cag_verify.py prints: main's except clause, then decide, which it
\* reaches with a blank claim too.  On a body that is no object data.get raises: exit
\* status 1, as for any refusal, and no action printed.
Decide(r) ==
    CASE r.verdict = "supported" /\ r.grounded = "no" -> "block"
      [] r.verdict = "supported" /\ r.grounded # "no" ->
            IF r.quote \in Substantial THEN "allow" ELSE "escalate"
      [] r.verdict = "contradicted" -> "block"
      [] r = NotAnObject -> "raises"
      [] OTHER -> "escalate"
=============================================================================
