---------------------------- MODULE AnswerBudget ----------------------------
(***************************************************************************)
(* How CagEngine decides what fits a slot: the gate an upload passes in    *)
(* _ingest, and the budget query() gives a question, its conversation      *)
(* history and its answer next to a document that may have been ingested   *)
(* under another geometry.  Token counts are numbers; a turn is its role   *)
(* and its estimate (_estimate_turn_tokens).                               *)
(***************************************************************************)
EXTENDS Integers, Sequences, SequencesExt

CONSTANTS
    Geometry,       \* the <<LLAMA_CTX_SIZE, CAG_SLOTS>> deployed one after another
    Reserve,        \* answer_reserve_tokens
    Overhead,       \* prompt_overhead_tokens
    Text,           \* uploads: their exact count and their characters, and the
                    \* estimate of their file name
    Question,       \* estimates of questions
    Turn,           \* turns of a conversation
    MaxTurns,       \* bound of the model: the longest history
    MaxTokens       \* requested answer budgets

ASSUME BudgetAssumption ==
    /\ Geometry \subseteq (Nat \ {0}) \X Nat
    /\ Reserve \in Nat /\ Overhead \in Nat /\ MaxTurns \in Nat
    /\ Text \subseteq [tokens : Nat, chars : Nat, name : Nat]
    /\ Question \subseteq Nat \ {0}
    /\ Turn \subseteq [role : {"user", "assistant"}, tokens : Nat \ {0}]
    /\ MaxTokens \subseteq Nat \ {0}

\* An answer is not worth generating below this many tokens.
MinFit == 16

VARIABLES
    geometry,       \* the settings of the running engine
    text,           \* the document's upload
    counted,        \* whether its row has n_tokens: it was cached once
    admittedIn,     \* history: the geometry it was admitted under
    pc,             \* where query() is, or how it ended
    question,       \* the estimate of the question asked
    asked,          \* the history as it was sent
    kept,           \* the history as it is handed on
    spent,          \* "used": the running estimate of question and history
    requested,      \* the max_tokens asked for
    granted         \* max_tokens

docVars == <<text, counted, admittedIn>>
vars == <<geometry, docVars, pc, question, asked, kept, spent, requested, granted>>

NoText == [tokens |-> 0, chars |-> 0, name |-> 0]

SlotCtx(g) == g[1] \div (IF g[2] > 1 THEN g[2] ELSE 1)

\* Mutant of TokenLimit: nothing is reserved for the answer.
TokenLimitNoReserve(g) == SlotCtx(g) - Overhead

TokenLimit(g) == SlotCtx(g) - Reserve - Overhead

\* query() falls back on an estimate for a row that was never cached.
DocTokens == IF counted THEN text.tokens ELSE text.chars \div 3 + 8

\* Mutant of Available: the prompt's own framing is forgotten.
AvailableNoOverhead == SlotCtx(geometry) - DocTokens

Available == SlotCtx(geometry) - DocTokens - Overhead

Cost(turns) == FoldLeft(LAMBDA sum, turn : sum + turn.tokens, 0, turns)

Init ==
    /\ geometry \in Geometry
    /\ text = NoText
    /\ counted = FALSE
    /\ admittedIn = geometry
    /\ pc = "no_document"
    /\ question = 0
    /\ asked = <<>>
    /\ kept = <<>>
    /\ spent = 0
    /\ requested = 0
    /\ granted = 0

-----------------------------------------------------------------------------
\* _ingest up to the INSERT: both gates, the cheap one by characters first.
\* The row is pending, or cached once the warm is done.
Admit ==
    /\ pc = "no_document"
    /\ \E x \in Text, done \in BOOLEAN :
          /\ x.chars \div 4 <= TokenLimit(geometry)
          /\ x.tokens + x.name <= TokenLimit(geometry)
          /\ text' = x
          /\ counted' = done
    /\ admittedIn' = geometry
    /\ pc' = "idle"
    /\ UNCHANGED <<geometry, question, asked, kept, spent, requested, granted>>

\* The engine is restarted with other settings.
Reconfigure ==
    /\ pc = "idle"
    /\ geometry' \in Geometry
    /\ geometry' # geometry
    /\ UNCHANGED <<docVars, pc, question, asked, kept, spent, requested, granted>>

\* query() is called: the document is measured again, then the request.
Ask ==
    /\ pc = "idle"
    /\ \E q \in Question, h \in SeqOf(Turn, MaxTurns), m \in MaxTokens :
          /\ question' = q
          /\ asked' = h
          /\ requested' = m
          /\ IF DocTokens > TokenLimit(geometry)
             THEN pc' = "document_too_large" /\ UNCHANGED <<kept, spent, granted>>
             ELSE /\ pc' = "trim"
                  /\ kept' = h
                  /\ spent' = q + Cost(h)
                  /\ granted' = m
    /\ UNCHANGED <<geometry, docVars>>

Overflows == spent + granted > Available

DropFirst == kept' = Tail(kept) /\ spent' = spent - Head(kept).tokens

\* Mutant of TrimOldest: the dropped turn is still counted.
TrimOldestKeepsCost ==
    /\ pc = "trim"
    /\ kept # <<>> /\ Overflows
    /\ kept' = Tail(kept)
    /\ UNCHANGED <<spent, geometry, docVars, pc, question, asked, requested, granted>>

\* One round of the first loop: the oldest turn goes while the sum overflows.
TrimOldest ==
    /\ pc = "trim"
    /\ kept # <<>> /\ Overflows
    /\ DropFirst
    /\ UNCHANGED <<geometry, docVars, pc, question, asked, requested, granted>>

\* Mutant of TrimmedEnough: the loop may stop once a minimal answer fits.
TrimmedEnoughForMinimum ==
    /\ pc = "trim"
    /\ ~(kept # <<>> /\ Available - spent < MinFit)
    /\ pc' = "pair"
    /\ UNCHANGED <<geometry, docVars, question, asked, kept, spent, requested,
                   granted>>

TrimmedEnough ==
    /\ pc = "trim"
    /\ ~(kept # <<>> /\ Overflows)
    /\ pc' = "pair"
    /\ UNCHANGED <<geometry, docVars, question, asked, kept, spent, requested,
                   granted>>

LeadsWithAssistant == kept # <<>> /\ Head(kept).role = "assistant"

\* One round of the second loop: no history starts with an assistant turn.
TrimAssistant ==
    /\ pc = "pair"
    /\ LeadsWithAssistant
    /\ DropFirst
    /\ UNCHANGED <<geometry, docVars, pc, question, asked, requested, granted>>

\* The request fits, is clamped to what is left, or is refused.
Settle ==
    /\ pc = "pair"
    /\ ~LeadsWithAssistant
    /\ \/ ~Overflows /\ pc' = "answered" /\ UNCHANGED granted
       \/ /\ Overflows /\ Available - spent >= MinFit
          /\ granted' = Available - spent
          /\ pc' = "answered"
       \/ /\ Overflows /\ Available - spent < MinFit
          /\ pc' = "question_too_large"
          /\ UNCHANGED granted
    /\ UNCHANGED <<geometry, docVars, question, asked, kept, spent, requested>>

\* The handler returns; a re-save after an answer leaves the row counted.
Return ==
    /\ pc \in {"answered", "question_too_large", "document_too_large"}
    /\ pc' = "idle"
    /\ question' = 0 /\ asked' = <<>> /\ kept' = <<>>
    /\ spent' = 0 /\ requested' = 0 /\ granted' = 0
    /\ counted' \in {counted, counted \/ pc = "answered"}
    /\ UNCHANGED <<geometry, text, admittedIn>>

Next ==
    \/ Admit \/ Reconfigure \/ Ask
    \/ TrimOldest \/ TrimmedEnough \/ TrimAssistant
    \/ Settle \/ Return

Spec == Init /\ [][Next]_vars

-----------------------------------------------------------------------------
\* Properties.

\* An answer is generated only if everything that shares the slot fits its
\* context as the running estimate has it: the document, the framing, the
\* question, the history that is really handed on, and the tokens granted.
BudgetHolds ==
    pc = "answered" =>
        DocTokens + Overhead + question + Cost(kept) + granted <= SlotCtx(geometry)

Suffix(i) == SubSeq(asked, i, Len(asked))

\* History from turn i on can be handed on with the answer as requested.
Usable(i) ==
    /\ question + Cost(Suffix(i)) + requested <= Available
    /\ asked[i].role = "user"

\* The two loops together keep the longest recent part of the history that fits
\* and begins with a user turn: nothing is trimmed that could have stayed.
KeptIsLongest ==
    pc \in {"answered", "question_too_large"} =>
        \E i \in 1 .. Len(asked) + 1 :
            /\ kept = Suffix(i)
            /\ i <= Len(asked) => Usable(i)
            /\ \A j \in 1 .. i - 1 : ~Usable(j)

\* The answer is cut short only when the whole history has been given up for it.
ClampedAlone ==
    pc = "answered" /\ granted < requested => kept = <<>>

\* The gate at ingest and the one at query agree: a cached document, under the
\* geometry it was admitted in, answers every question that fits the reserve,
\* whatever history and answer length come with it.
AdmittedIsAnswerable ==
    counted /\ geometry = admittedIn /\ question <= Reserve - MinFit =>
        pc \notin {"question_too_large", "document_too_large"}
=============================================================================
