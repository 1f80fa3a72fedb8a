--------------------------- MODULE MCRegistration ---------------------------
(* Instances of Registration for TLC. *)
EXTENDS Registration, TLC

\* The calls and messages under way are interchangeable.
Symmetry == Permutations(Task)

=============================================================================
