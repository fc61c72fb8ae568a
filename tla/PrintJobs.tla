------------------------------ MODULE PrintJobs ------------------------------
(***************************************************************************)
(* The print jobs that a site records.  Two components say what a job is   *)
(* charged to: Departments its department, Tariffs its price.  They have   *)
(* no row in common; what they share is here.                              *)
(***************************************************************************)
CONSTANTS
    Jobs,
    None,         \* NULL
    Missing       \* no row

ASSUME NoRowAssumption == None # Missing

\* A process or a request that has read nothing.
Idle == [op |-> "idle"]
=============================================================================
