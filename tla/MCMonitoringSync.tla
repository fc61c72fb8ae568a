--------------------------- MODULE MCMonitoringSync ---------------------------
(* Instances of MonitoringSync for TLC. *)
EXTENDS MonitoringSync, TLC

CONSTANTS d1, s1

(* A reading and two problems of one device: a batch can end between the   *)
(* problems, and a poll can change both together.                          *)
TwoAlerts == s1 :> d1 @@ 1 :> d1 @@ 2 :> d1

(* A problem alone. *)
Problem == 1 :> d1
=============================================================================
