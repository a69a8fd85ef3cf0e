--------------------------- MODULE MCWorkshopRuns ---------------------------
(* Finite instances of WorkshopRuns for TLC.                               *)
EXTENDS DocClaims, TLC

CONSTANTS r1, r2

(* Every event under a name of its own. *)
OwnNames == [r \in Runs |-> r]
(* Two events booked under one name. *)
OneName == [r \in Runs |-> "Workshop"]

OnlyAws == {{"aws"}}
NoCloud == {{}}

Symmetry == Permutations(Executions) \cup Permutations(Requests) \cup Permutations(Reapers)
=============================================================================
