-------------------------- MODULE MCCagMaintenance --------------------------
(* Instances of CagMaintenance for TLC. *)
EXTENDS CagMaintenance, TLC

CONSTANTS d1, a

One == d1 :> a
=============================================================================
