--------------------------- MODULE MCAgentMemory ---------------------------
(* An instance of AgentMemory for TLC. *)
EXTENDS AgentMemory, TLC

CONSTANTS old, new,             \* two editions of a canon
          rate, taste,          \* a claim both discuss; one neither does at first
          silence,              \* the blank claim
          blank, generic, oldQuote, newQuote

\* A generic fragment occurs in both editions, a real passage in one.
FoundIn == old :> {generic, oldQuote} @@ new :> {generic, newQuote}

\* The second claim has four distinctive words; two of them come together in the
\* new edition only, one at a time in the old.
WordsOf ==
    rate :> {"annual", "rate"} @@ taste :> {"sweet", "dark", "bitter", "mild"} @@
    silence :> {}

StretchesOf ==
    old :> {{"annual", "rate"}, {"sweet"}, {"dark", "rate"}} @@
    new :> {{"rate"}, {"sweet", "mild"}}

\* Every append succeeds, or none.
NoneOrAll == {{}, {"memory", "quarantine"}}

Interchangeable == Permutations(Call)
=============================================================================
