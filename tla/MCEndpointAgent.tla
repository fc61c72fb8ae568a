-------------------------- MODULE MCEndpointAgent --------------------------
(* Instances of EndpointAgent for TLC. *)
EXTENDS EndpointAgent, TLC

\* Events on one printer queue, or on two in turn.
OneQueue == [e \in Events |-> "q1"]
TwoQueues == [e \in Events |-> IF e % 2 = 1 THEN "q1" ELSE "q2"]

(* Request threads are interchangeable where no liveness is checked. *)
Symmetry == Permutations(Handlers)
=============================================================================
