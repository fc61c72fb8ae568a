--------------------------- MODULE MCDepartments ---------------------------
(* Instances of Departments for TLC. *)
EXTENDS Departments, TLC

CONSTANTS n1, l1

\* Names as the log has them carry no domain: AD knows them with the domain only.
NoExact == [n \in Names |-> None]
WithDomain == [n \in Names |-> l1]
OneUser == [j \in Jobs |-> n1]

\* The rule of group 1 is switched on and off, the one of group 2 is as important or more.
TwoForms == [g \in Groups |-> IF g = 1 THEN {<<0, TRUE>>, <<0, FALSE>>} ELSE {<<0, TRUE>>, <<1, TRUE>>}]

\* Departments are interchangeable, and so are jobs of one user.
Symmetry == Permutations(Depts) \cup Permutations(Jobs)
=============================================================================
