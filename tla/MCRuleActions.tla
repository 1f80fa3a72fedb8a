--------------------------- MODULE MCRuleActions ---------------------------
(* Instances of RuleActions for TLC. *)
EXTENDS RuleActions, TLC

\* The provider's numbers and the evaluations are interchangeable.
Symmetry == Permutations(ID) \cup Permutations(Task)

=============================================================================
