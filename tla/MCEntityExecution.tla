------------------------ MODULE MCEntityExecution ------------------------
(* Instances of EntityExecution for TLC. *)
EXTENDS EntityExecution, TLC

\* Servers and execution IDs are interchangeable in the safety runs.
Symmetry == Permutations(Server) \cup Permutations(ExecID)

=============================================================================
