----------------------------- MODULE Collector -----------------------------
(***************************************************************************)
(* The collector of a Print Server (collector/collect_print_events.py): it *)
(* reads the Windows event log above a cursor, turns each print event into *)
(* a job or passes it over, and commits the jobs, their outbox rows and    *)
(* the new cursor in one transaction.                                      *)
(*                                                                         *)
(* The log is a ring: it keeps the last LogSize events, and events printed *)
(* while the collector is down may be overwritten before it reads them.    *)
(* The scheduled run may overlap one started by hand.                      *)
(*                                                                         *)
(* Abstracted: the fields of a job (price, department, colour: computed    *)
(* from the event, they decide nothing here); the printer queues, all      *)
(* known, with one collection_enabled switch for all of them; the rows of  *)
(* sync_runs; a job stands for its print_jobs row and, in agent mode, the  *)
(* outbox row committed with it.                                           *)
(***************************************************************************)
EXTENDS Naturals, FiniteSets, Batches

CONSTANTS
    LastEvent,   \* how many print events happen
    LogSize,     \* how many events the log keeps
    Unreadable,  \* events without user, printer or a number of pages
    Runs,        \* processes running run_once
    Scheduled,   \* those the Task Scheduler starts
    MaxEvents,   \* collector.max_events_per_run
    MaxFaults    \* how often a run fails or dies

ASSUME EventAssumption == LastEvent \in Nat /\ LogSize \in Nat \ {0}
ASSUME RunAssumption == Scheduled \subseteq Runs
ASSUME BoundAssumption == MaxEvents \in Nat \ {0} /\ MaxFaults \in Nat

Events == 1 .. LastEvent

VARIABLES
    printed,     \* EventRecordID of the newest event in the log
    collecting,  \* collection_enabled of the printer queues
    cursor,      \* collector_state.last_record_id
    jobs,        \* committed print_jobs rows per event
    passed,      \* events a committed run decided not to record
    pc,          \* what each run does next
    base,        \* the cursor it started from
    batch,       \* the fetched events it has not examined yet
    newest,      \* max_record_id
    added,       \* the jobs in its session, not yet committed
    left,        \* the events it decided not to record
    faults

runVars == <<pc, base, batch, newest, added, left>>
vars == <<printed, collecting, cursor, jobs, passed, runVars, faults>>

TypeOK ==
    /\ printed \in 0 .. LastEvent
    /\ collecting \in BOOLEAN
    /\ cursor \in 0 .. LastEvent
    /\ jobs \in [Events -> Nat]
    /\ passed \in SUBSET Events
    /\ pc \in [Runs -> {"idle", "export", "examine"}]
    /\ base \in [Runs -> 0 .. LastEvent]
    /\ batch \in [Runs -> SUBSET Events]
    /\ newest \in [Runs -> 0 .. LastEvent]
    /\ added \in [Runs -> SUBSET Events]
    /\ left \in [Runs -> SUBSET Events]
    /\ faults \in 0 .. MaxFaults

Init ==
    /\ printed = 0
    /\ collecting = TRUE
    /\ cursor = 0
    /\ jobs = [e \in Events |-> 0]
    /\ passed = {}
    /\ pc = [r \in Runs |-> "idle"]
    /\ base = [r \in Runs |-> 0]
    /\ batch = [r \in Runs |-> {}]
    /\ newest = [r \in Runs |-> 0]
    /\ added = [r \in Runs |-> {}]
    /\ left = [r \in Runs |-> {}]
    /\ faults = 0

Overwritten(e) == e + LogSize <= printed
InLog == {e \in Events : e <= printed /\ ~Overwritten(e)}

(* The spooler logs one more event 307. *)
LogEvent ==
    /\ printed < LastEvent
    /\ printed' = printed + 1
    /\ UNCHANGED <<collecting, cursor, jobs, passed, runVars, faults>>

(* An administrator switches collection for the queues off or on. *)
SwitchCollection ==
    /\ collecting' = ~collecting
    /\ UNCHANGED <<printed, cursor, jobs, passed, runVars, faults>>

Start(r) ==
    /\ pc[r] = "idle"
    /\ pc' = [pc EXCEPT ![r] = "export"]
    /\ base' = [base EXCEPT ![r] = cursor]
    /\ UNCHANGED <<printed, collecting, cursor, jobs, passed, batch, newest, added, left, faults>>

(* Slip: -MaxEvents given to Get-WinEvent, which returns the newest first. *)
IsExport_NewestFirst(B, S) ==
    B \subseteq S /\ (B = S \/ Cardinality(B) = MaxEvents) /\ \A i \in B, k \in S \ B : i > k

(* Export-PrintEvents.ps1: the oldest MaxEvents events above the cursor. *)
IsExport(B, S) == IsFirst(B, S, MaxEvents)

Export(r) ==
    /\ pc[r] = "export"
    /\ \E B \in SUBSET InLog :
        /\ IsExport(B, {e \in InLog : e > base[r]})
        /\ batch' = [batch EXCEPT ![r] = B]
        /\ \E n \in B \cup {base[r]} :
            /\ \A e \in B : e <= n
            /\ newest' = [newest EXCEPT ![r] = n]
    /\ pc' = [pc EXCEPT ![r] = "examine"]
    /\ UNCHANGED <<printed, collecting, cursor, jobs, passed, base, added, left, faults>>

IsNext(r, e) == e \in batch[r] /\ \A k \in batch[r] : e <= k

(* Slip: an unreadable event raises out of the loop and ends the run. *)
Examine_Raises(r, e) ==
    /\ pc[r] = "examine" /\ IsNext(r, e)
    /\ IF e \in Unreadable
       THEN /\ pc' = [pc EXCEPT ![r] = "idle"]
            /\ batch' = [batch EXCEPT ![r] = {}]
            /\ added' = [added EXCEPT ![r] = {}]
            /\ left' = [left EXCEPT ![r] = {}]
       ELSE /\ batch' = [batch EXCEPT ![r] = @ \ {e}]
            /\ added' = [added EXCEPT ![r] = IF jobs[e] = 0 /\ collecting THEN @ \cup {e} ELSE @]
            /\ left' = [left EXCEPT ![r] = IF jobs[e] = 0 /\ ~collecting THEN @ \cup {e} ELSE @]
            /\ UNCHANGED pc
    /\ UNCHANGED <<printed, collecting, cursor, jobs, passed, base, newest, faults>>

(* An event that has its job, cannot be read, or was printed on a queue    *)
(* that is not collected is passed over; any other becomes a job.          *)
Examine(r, e) ==
    /\ pc[r] = "examine" /\ IsNext(r, e)
    /\ batch' = [batch EXCEPT ![r] = @ \ {e}]
    /\ \/ /\ jobs[e] > 0
          /\ UNCHANGED <<added, left>>
       \/ /\ jobs[e] = 0 /\ (e \in Unreadable \/ ~collecting)
          /\ left' = [left EXCEPT ![r] = @ \cup {e}]
          /\ UNCHANGED added
       \/ /\ jobs[e] = 0 /\ e \notin Unreadable /\ collecting
          /\ added' = [added EXCEPT ![r] = @ \cup {e}]
          /\ UNCHANGED left
    /\ UNCHANGED <<printed, collecting, cursor, jobs, passed, pc, base, newest, faults>>

(* The run is over; whatever its session holds is gone. *)
EndRun(r) ==
    /\ pc' = [pc EXCEPT ![r] = "idle"]
    /\ batch' = [batch EXCEPT ![r] = {}]
    /\ added' = [added EXCEPT ![r] = {}]
    /\ left' = [left EXCEPT ![r] = {}]
    /\ UNCHANGED <<base, newest>>

(* Slip: print_jobs has no UNIQUE constraint. *)
Collision_Ignored(r) == FALSE

(* Another run has committed one of these jobs since it was looked up. *)
Collision(r) == \E e \in added[r] : jobs[e] > 0

(* Slip: the cursor is the next id to read, but the export reads above it. *)
Commit_CursorNext(r) ==
    /\ pc[r] = "examine" /\ batch[r] = {} /\ ~Collision(r)
    /\ jobs' = [e \in Events |-> IF e \in added[r] THEN jobs[e] + 1 ELSE jobs[e]]
    /\ passed' = passed \cup left[r]
    /\ cursor' = newest[r] + 1
    /\ EndRun(r)
    /\ UNCHANGED <<printed, collecting, faults>>

(* One transaction: jobs, outbox rows, cursor.  The cursor is written only *)
(* if it changed, and then whatever another run wrote to it since.         *)
Commit(r) ==
    /\ pc[r] = "examine" /\ batch[r] = {} /\ ~Collision(r)
    /\ jobs' = [e \in Events |-> IF e \in added[r] THEN jobs[e] + 1 ELSE jobs[e]]
    /\ passed' = passed \cup left[r]
    /\ cursor' = IF newest[r] = base[r] THEN cursor ELSE newest[r]
    /\ EndRun(r)
    /\ UNCHANGED <<printed, collecting, faults>>

(* The UNIQUE constraint refuses the transaction. *)
CommitFails(r) ==
    /\ pc[r] = "examine" /\ batch[r] = {} /\ Collision(r)
    /\ EndRun(r)
    /\ UNCHANGED <<printed, collecting, cursor, jobs, passed, faults>>

(* PowerShell fails, the database is locked, or the process dies. *)
RunFails(r) ==
    /\ pc[r] # "idle" /\ faults < MaxFaults
    /\ faults' = faults + 1
    /\ EndRun(r)
    /\ UNCHANGED <<printed, collecting, cursor, jobs, passed>>

Run(r) ==
    \/ Start(r) \/ Export(r) \/ Commit(r) \/ CommitFails(r) \/ RunFails(r)
    \/ \E e \in Events : Examine(r, e)

Next == LogEvent \/ SwitchCollection \/ \E r \in Runs : Run(r)

Spec == Init /\ [][Next]_vars

(* The scheduled run starts every few minutes and goes on once started.    *)
Fairness ==
    \A r \in Scheduled :
        WF_vars(\/ Start(r) \/ Export(r) \/ Commit(r) \/ CommitFails(r)
                \/ \E e \in Events : Examine(r, e))

FairSpec == Spec /\ Fairness

-----------------------------------------------------------------------------
(* Properties *)

(* No event becomes two jobs, whatever runs overlap, fail or start over.   *)
JobsOnce == \A e \in Events : jobs[e] <= 1

(* An event is accounted for if it is a job, was passed over by a run that *)
(* committed, or was overwritten in the log.                               *)
Accounted(e) == jobs[e] > 0 \/ e \in passed \/ Overwritten(e)

(* The cursor never leaves an event behind: events at or below it are      *)
(* never looked at again, so each of them must be accounted for, however   *)
(* the runs that moved the cursor overlapped or failed.                    *)
CursorCovers == \A e \in Events : e <= cursor => Accounted(e)

(* Every event that stays in the log long enough is handled, an unreadable *)
(* one before it included.                                                 *)
EveryEventHandled == \A e \in Events : e <= printed ~> Accounted(e)
=============================================================================
