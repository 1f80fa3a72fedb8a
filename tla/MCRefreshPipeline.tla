------------------------- MODULE MCRefreshPipeline -------------------------
(* Instances of RefreshPipeline for TLC. *)
EXTENDS RefreshPipeline, TLC

=============================================================================
