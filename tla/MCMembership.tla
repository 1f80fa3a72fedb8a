---------------------------- MODULE MCMembership ----------------------------
(* Instances of Membership for TLC. *)
EXTENDS Membership, TLC

\* Codes are interchangeable, and so are the calls under way.
Symmetry == Permutations(Code) \cup Permutations(Task)

=============================================================================
