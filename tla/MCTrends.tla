------------------------------ MODULE MCTrends ------------------------------
(* Instances of Trends for TLC. *)
EXTENDS Trends
=============================================================================
