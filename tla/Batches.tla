------------------------------ MODULE Batches ------------------------------
(***************************************************************************)
(* Bounded batches in the order of their ids, as "ORDER BY id LIMIT n" and *)
(* "Sort-Object RecordId | Select-Object -First n" return them.            *)
(***************************************************************************)
EXTENDS Naturals, FiniteSets

(* B is the batch of the first n elements of the set S of ids. *)
IsFirst(B, S, n) ==
    /\ B \subseteq S
    /\ \/ Cardinality(B) = n
       \/ B = S /\ Cardinality(S) < n
    /\ \A i \in B, k \in S \ B : i < k
=============================================================================
