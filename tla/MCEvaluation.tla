------------------------------ MODULE MCEvaluation ------------------------------
(***************************************************************************)
(* Two experiments of the same suite or of both; one suite has a           *)
(* configuration with a memory, the other one without.  All directories    *)
(* are named in the same second.                                           *)
(***************************************************************************)
EXTENDS Evaluation, TLC

ConfigsOf == [s \in Suites |-> IF s = "main" THEN <<"D">> ELSE <<"B">>]
Symmetry == Permutations(Experiments)
=============================================================================
