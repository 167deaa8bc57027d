--------------------------- MODULE MCGroundingText ---------------------------
(* An instance of GroundingText for TLC. *)
EXTENDS GroundingText

CONSTANTS w1, w2, w3, a, b

Tokens == {w1, w2, w3}

\* Two quotes of 8, in one of which the first anchor is not the rarest to come.
AnchoredQuotes == {a :> 0 @@ b :> 5, a :> 4 @@ b :> 1}
=============================================================================
