----------------------------- MODULE MCTariffs -----------------------------
(* Instances of Tariffs for TLC. *)
EXTENDS Tariffs

CONSTANTS q1, q2

NotListed == [q \in Queues |-> IF q = q2 THEN "bw" ELSE None]
Printers == [j \in Jobs |-> q1]

\* A general tariff that outranks the others, one of the queue until a day and one
\* of the queue from that day on: day 0, which in UTC begins at 1 on the server's clock.
ThreeForms ==
    { [queue |-> None, from |-> None, to |-> None, priority |-> 1],
      [queue |-> q1, from |-> None, to |-> 0, priority |-> 0],
      [queue |-> q1, from |-> 0, to |-> None, priority |-> 0] }

TwoSettings ==
    { [mode |-> "color", collected |-> TRUE, priced |-> TRUE],
      [mode |-> "bw", collected |-> FALSE, priced |-> FALSE] }
=============================================================================
