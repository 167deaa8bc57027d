---------------------------- MODULE MCCagEngine ----------------------------
(* Instances of CagEngine for TLC. *)
EXTENDS CagEngine, TLC

CONSTANTS d1, d2, d3, a, b, c

\* Every document has its own content.
Distinct == d1 :> a @@ d2 :> b
Distinct3 == d1 :> a @@ d2 :> b @@ d3 :> c

\* The threads are interchangeable, and so are the workers, and the documents as
\* long as each has a content of its own.
Interchangeable ==
    Permutations(Thread) \cup Permutations(Worker) \cup Permutations(Doc)
=============================================================================
