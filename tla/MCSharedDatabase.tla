-------------------------- MODULE MCSharedDatabase --------------------------
(* Values of SharedDatabase's constants for TLC. *)
EXTENDS SharedDatabase, TLC

CONSTANTS n1, n2, d1, d2

Apart == n1 :> d1 @@ n2 :> d2
=============================================================================
