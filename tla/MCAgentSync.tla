---------------------------- MODULE MCAgentSync ----------------------------
(* Instances of AgentSync for TLC. *)
EXTENDS AgentSync, TLC

\* Every job has its own record_id, as the jobs of one Print Server do.
OwnKey == [j \in Jobs |-> j]

\* Jobs on one printer queue, or on two in turn.
OneQueue == [j \in Jobs |-> "q1"]
TwoQueues == [j \in Jobs |-> IF j % 2 = 1 THEN "q1" ELSE "q2"]

\* The request threads are interchangeable.
Symmetry == Permutations(Handlers)
=============================================================================
