----------------------------- MODULE MCSmtTask -----------------------------
(* SmtTask on small instances for TLC. *)
EXTENDS SmtTask, TLC

CONSTANTS a1, a2

Symmetry == Permutations({a1, a2})
=============================================================================
