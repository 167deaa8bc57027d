--------------------------- MODULE MCAnswerBudget ---------------------------
(* An instance of AnswerBudget for TLC, scaled down to a slot of 200 tokens. *)
EXTENDS AnswerBudget

\* One slot, two slots, and a context so small that little fits.
Geometries == {<<200, 1>>, <<400, 0>>, <<300, 2>>}

\* At the limit of 200 - 40 - 10 with its file name, above it in all geometries
\* but one, far below it, and a text of many characters for its tokens.
Texts == {[tokens |-> 141, chars |-> 500, name |-> 9],
          [tokens |-> 186, chars |-> 600, name |-> 4],
          [tokens |-> 92, chars |-> 320, name |-> 8],
          [tokens |-> 30, chars |-> 400, name |-> 9]}

Turns == {[role |-> r, tokens |-> n] : r \in {"user", "assistant"}, n \in {9, 30}}
=============================================================================
