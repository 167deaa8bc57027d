---------------------------- MODULE MCCagService ----------------------------
(* An instance of CagService for TLC. *)
EXTENDS CagService, TLC

CONSTANTS r1, r2, d1

\* A battery beside a query or a verify.
RoutesOfTwo == r1 :> {"calibrate"} @@ r2 :> {"query", "verify"}

\* About a document by its id, and about the latest, which may be the same one.
NamedByTwo == r1 :> {d1} @@ r2 :> {None}
=============================================================================
