---------------------------- MODULE JobDelivery ----------------------------
(***************************************************************************)
(* What the delivery of print jobs from a site to the central server       *)
(* promises, without outbox, requests or retries: every job the site       *)
(* records is an obligation, the centre stores recorded jobs and never     *)
(* drops one, and the site believes a job delivered only if it is stored.  *)
(***************************************************************************)
CONSTANT Jobs

VARIABLES
    recorded,   \* jobs the site has committed together with an outbox row
    stored,     \* jobs committed in the print_jobs table of the centre
    confirmed   \* jobs the site marks delivered

vars == <<recorded, stored, confirmed>>

TypeOK ==
    /\ recorded  \subseteq Jobs
    /\ stored    \subseteq Jobs
    /\ confirmed \subseteq Jobs

Init ==
    /\ recorded = {}
    /\ stored = {}
    /\ confirmed = {}

(* The site commits new jobs, together. *)
Record ==
    \E S \in SUBSET (Jobs \ recorded) :
        /\ S # {}
        /\ recorded' = recorded \cup S
        /\ UNCHANGED <<stored, confirmed>>

(* The centre commits a batch: new jobs appear all at once, none leaves. *)
Store ==
    \E S \in SUBSET (recorded \ stored) :
        /\ S # {}
        /\ stored' = stored \cup S
        /\ UNCHANGED <<recorded, confirmed>>

(* The site applies one answer.  It may newly mark jobs delivered, if they *)
(* are stored; it may also take the mark back from jobs (two overlapping   *)
(* runs of the synchroniser that received different answers), which never  *)
(* affects what is stored.                                                 *)
Confirm ==
    \E Add, Drop \in SUBSET stored :
        /\ confirmed' = (confirmed \ Drop) \cup Add
        /\ UNCHANGED <<recorded, stored>>

Next == Record \/ Store \/ Confirm

Spec == Init /\ [][Next]_vars
=============================================================================
