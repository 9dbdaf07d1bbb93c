------------------------------ MODULE MCIntake ------------------------------
(* Intake on small instances for TLC. *)
EXTENDS Intake, TLC

CONSTANTS a, b, o1, o2, m1, m2

Symmetry == Permutations({o1, o2}) \cup Permutations({m1, m2})
=============================================================================
