-------------------------- MODULE MCAdministrators --------------------------
(* Instances of Administrators for TLC. *)
EXTENDS Administrators, TLC

\* Row 3 is a second row for the login of row 1: one can follow the other.
SharedLogin == [u \in Users |-> IF u = 3 THEN 1 ELSE u]

\* Sessions are interchangeable, and so are the threads that serve requests.
Symmetry == Permutations(Tokens) \cup Permutations(Attempts) \cup Permutations(Requests)
=============================================================================
