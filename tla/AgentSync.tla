----------------------------- MODULE AgentSync -----------------------------
(***************************************************************************)
(* Delivery of print jobs from one site to the central server:             *)
(* collector/agent_sync.py (the outbox reader, run by the Task Scheduler   *)
(* and by hand with --retry-failed) and the POST /api/v1/agent/events/batch *)
(* handler of webapp/agent_api.py.                                         *)
(*                                                                         *)
(* A run is a process: it fetches due rows, posts them, waits, and commits *)
(* what the answer says.  The centre serves each request in its own        *)
(* transaction, one SAVEPOINT per event, READ COMMITTED, one commit at the *)
(* end.  A run gives up waiting without stopping the transaction it        *)
(* started, so an abandoned request and its retry may be served together.  *)
(*                                                                         *)
(* Abstracted: the job's columns other than its key and its validity; the  *)
(* length of the backoff (a row is due or not yet due); the columns of     *)
(* print_servers the handler stamps (last_contact_at, last_sync_at,        *)
(* last_ingest_error) and the heartbeat; monitoring, a protocol of its own *)
(* that a run executes after the jobs.                                     *)
(***************************************************************************)
EXTENDS Naturals, FiniteSets, Batches

CONSTANTS
    Jobs,        \* outbox rows, in the order of outbox_events.id
    Key,         \* Key[j] is the record_id sent for job j
    Invalid,     \* jobs whose event the handler's own validation refuses
    Malformed,   \* jobs whose event the request schema refuses (422)
    Queue,       \* Queue[j] is the printer queue job j was printed on
    Known,       \* queues that already have a row at the centre
    Runs,        \* processes running agent_sync.run_once
    Manual,      \* those started by an operator with --retry-failed
    Handlers,    \* request threads of the centre
    NoHandler,   \* a run that is not waiting for any request
    MaxBatch,    \* agent.max_batch_size
    MaxFaults,   \* how often the environment may fail before it behaves
    DbErrors     \* whether the centre's database may fail on single events

ASSUME JobsAssumption == Jobs \subseteq Nat
ASSUME KeyAssumption == DOMAIN Key = Jobs
ASSUME QueueAssumption == DOMAIN Queue = Jobs
ASSUME ClassAssumption == Invalid \subseteq Jobs /\ Malformed \subseteq Jobs
ASSUME RunAssumption == Manual \subseteq Runs
ASSUME HandlerAssumption == NoHandler \notin Handlers
ASSUME BoundAssumption == MaxBatch \in Nat \ {0} /\ MaxFaults \in Nat
ASSUME DbErrorsAssumption == DbErrors \in BOOLEAN

Keys == {Key[j] : j \in Jobs}
Answers == {"none", "inserted", "duplicate", "rejected"}
NoAnswer == [k \in Keys |-> "none"]

VARIABLES
    \* the site's outbox_events table
    status,    \* OutboxEvent.status; "absent" before the job is recorded
    due,       \* next_attempt_at is NULL or has passed
    \* the runs
    pc,        \* what each run does next
    rows,      \* the rows it fetched
    at,        \* the request it waits for
    answer,    \* the per-event answers it received, by record_id
    \* the centre's transactions
    stage,     \* what each request thread does next
    todo,      \* events of its batch not yet processed
    mine,      \* rows it inserted and has not committed
    ack,       \* the answers it has built, by record_id
    \* the centre's tables
    stored,    \* committed print_jobs rows per job
    enabled,   \* the PrintServer is registered, its token current, not disabled
    faults     \* environment failures so far

outboxVars == <<status, due>>
runVars    == <<pc, rows, at, answer>>
reqVars    == <<stage, todo, mine, ack>>
vars       == <<outboxVars, runVars, reqVars, stored, enabled, faults>>

TypeOK ==
    /\ status  \in [Jobs -> {"absent", "pending", "delivered", "failed"}]
    /\ due     \in [Jobs -> BOOLEAN]
    /\ pc      \in [Runs -> {"idle", "reset", "send", "wait", "answered", "error"}]
    /\ rows    \in [Runs -> SUBSET Jobs]
    /\ at      \in [Runs -> Handlers \cup {NoHandler}]
    /\ answer  \in [Runs -> [Keys -> Answers]]
    /\ stage   \in [Handlers -> {"idle", "received", "check", "create", "insert", "respond"}]
    /\ todo    \in [Handlers -> SUBSET Jobs]
    /\ mine    \in [Handlers -> SUBSET Jobs]
    /\ ack     \in [Handlers -> [Keys -> Answers]]
    /\ stored  \in [Jobs -> Nat]
    /\ enabled \in BOOLEAN
    /\ faults  \in 0 .. MaxFaults

Init ==
    /\ status = [j \in Jobs |-> "absent"]
    /\ due = [j \in Jobs |-> TRUE]
    /\ pc = [r \in Runs |-> "idle"]
    /\ rows = [r \in Runs |-> {}]
    /\ at = [r \in Runs |-> NoHandler]
    /\ answer = [r \in Runs |-> NoAnswer]
    /\ stage = [h \in Handlers |-> "idle"]
    /\ todo = [h \in Handlers |-> {}]
    /\ mine = [h \in Handlers |-> {}]
    /\ ack = [h \in Handlers |-> NoAnswer]
    /\ stored = [j \in Jobs |-> 0]
    /\ enabled = TRUE
    /\ faults = 0

Fault == faults < MaxFaults /\ faults' = faults + 1

-----------------------------------------------------------------------------
(* The site *)

(* The collector or the endpoint API commits a PrintJob and its outbox row *)
(* in one transaction.                                                     *)
Record(j) ==
    /\ status[j] = "absent"
    /\ status' = [status EXCEPT ![j] = "pending"]
    /\ UNCHANGED <<due, runVars, reqVars, stored, enabled, faults>>

BackoffElapses(j) ==
    /\ ~due[j]
    /\ due' = [due EXCEPT ![j] = TRUE]
    /\ UNCHANGED <<status, runVars, reqVars, stored, enabled, faults>>

(* --retry-failed, a commit of its own before the batch is fetched. *)
RetryFailed(r) ==
    /\ r \in Manual /\ pc[r] = "idle"
    /\ status' = [j \in Jobs |-> IF status[j] = "failed" THEN "pending" ELSE status[j]]
    /\ due' = [j \in Jobs |-> IF status[j] = "failed" THEN TRUE ELSE due[j]]
    /\ pc' = [pc EXCEPT ![r] = "reset"]
    /\ UNCHANGED <<rows, at, answer, reqVars, stored, enabled, faults>>

DueRows == {j \in Jobs : status[j] = "pending" /\ due[j]}

(* One query; the run then holds its own copy of the rows.  Without a due  *)
(* row it posts nothing.                                                   *)
Fetch(r) ==
    /\ pc[r] = IF r \in Manual THEN "reset" ELSE "idle"
    /\ \E B \in SUBSET DueRows :
        /\ IsFirst(B, DueRows, MaxBatch)
        /\ rows' = [rows EXCEPT ![r] = B]
        /\ pc' = [pc EXCEPT ![r] = IF B = {} THEN "idle" ELSE "send"]
    /\ UNCHANGED <<outboxVars, at, answer, reqVars, stored, enabled, faults>>

Send(r, h) ==
    /\ pc[r] = "send" /\ stage[h] = "idle"
    /\ pc' = [pc EXCEPT ![r] = "wait"]
    /\ at' = [at EXCEPT ![r] = h]
    /\ stage' = [stage EXCEPT ![h] = "received"]
    /\ todo' = [todo EXCEPT ![h] = rows[r]]
    /\ UNCHANGED <<outboxVars, rows, answer, mine, ack, stored, enabled, faults>>

(* The request never reaches the centre. *)
LoseRequest(r) ==
    /\ pc[r] = "send" /\ Fault
    /\ pc' = [pc EXCEPT ![r] = "error"]
    /\ UNCHANGED <<outboxVars, rows, at, answer, reqVars, stored, enabled>>

(* The HTTP timeout, or a connection lost before the answer is read; the   *)
(* centre does not notice.                                                 *)
Timeout(r) ==
    /\ pc[r] = "wait" /\ Fault
    /\ pc' = [pc EXCEPT ![r] = "error"]
    /\ at' = [at EXCEPT ![r] = NoHandler]
    /\ UNCHANGED <<outboxVars, rows, answer, reqVars, stored, enabled>>

Answer(r, j) == answer[r][Key[j]]

(* Slips: the answer itself is written into the row; any answer counts as  *)
(* a delivery; a refused row is sent again.                                *)
Settled_AsAnswered(r, j) ==
    IF Answer(r, j) = "none" THEN status[j] ELSE Answer(r, j)
Settled_AnyAnswer(r, j) ==
    IF Answer(r, j) = "none" THEN status[j] ELSE "delivered"
Settled_RefusedAgain(r, j) ==
    IF Answer(r, j) \in {"inserted", "duplicate"} THEN "delivered" ELSE status[j]

(* The status a run writes back to a row it fetched, whatever another run  *)
(* wrote to the row since.                                                 *)
Settled(r, j) ==
    IF Answer(r, j) \in {"inserted", "duplicate"} THEN "delivered"
    ELSE IF Answer(r, j) = "rejected" THEN "failed"
    ELSE status[j]

(* The run is over, normally or not. *)
EndRun(r) ==
    /\ pc' = [pc EXCEPT ![r] = "idle"]
    /\ rows' = [rows EXCEPT ![r] = {}]
    /\ at' = [at EXCEPT ![r] = NoHandler]
    /\ answer' = [answer EXCEPT ![r] = NoAnswer]

ApplyAnswers(r) ==
    /\ pc[r] = "answered"
    /\ status' = [j \in Jobs |-> IF j \in rows[r] THEN Settled(r, j) ELSE status[j]]
    /\ due' = [j \in Jobs |-> IF j \in rows[r] THEN Answer(r, j) # "none" ELSE due[j]]
    /\ EndRun(r)
    /\ UNCHANGED <<reqVars, stored, enabled, faults>>

(* Slip: a failed post is taken for a refusal of each of its rows. *)
ApplyError_Fails(r) ==
    /\ pc[r] = "error"
    /\ status' = [j \in Jobs |-> IF j \in rows[r] THEN "failed" ELSE status[j]]
    /\ EndRun(r)
    /\ UNCHANGED <<due, reqVars, stored, enabled, faults>>

(* A failed post leaves every status alone and schedules the next attempt. *)
ApplyError(r) ==
    /\ pc[r] = "error"
    /\ due' = [j \in Jobs |-> IF j \in rows[r] THEN FALSE ELSE due[j]]
    /\ EndRun(r)
    /\ UNCHANGED <<status, reqVars, stored, enabled, faults>>

CrashRun(r) ==
    /\ pc[r] # "idle" /\ Fault
    /\ EndRun(r)
    /\ UNCHANGED <<outboxVars, reqVars, stored, enabled>>

-----------------------------------------------------------------------------
(* The centre *)

(* The request is over; what it has not committed is gone. *)
EndRequest(h) ==
    /\ stage' = [stage EXCEPT ![h] = "idle"]
    /\ todo' = [todo EXCEPT ![h] = {}]
    /\ mine' = [mine EXCEPT ![h] = {}]
    /\ ack' = [ack EXCEPT ![h] = NoAnswer]

(* The run still waiting for request h, if any, learns its outcome p. *)
Notify(h, p) ==
    /\ pc' = [r \in Runs |-> IF at[r] = h THEN p ELSE pc[r]]
    /\ at' = [r \in Runs |-> IF at[r] = h THEN NoHandler ELSE at[r]]
    /\ UNCHANGED rows

(* The request schema, then the token: a refusal concerns the whole batch. *)
Refuse(h) ==
    /\ stage[h] = "received"
    /\ ~enabled \/ todo[h] \cap Malformed # {}
    /\ EndRequest(h) /\ Notify(h, "error")
    /\ UNCHANGED <<outboxVars, answer, stored, enabled, faults>>

Accept(h) ==
    /\ stage[h] = "received"
    /\ enabled /\ todo[h] \cap Malformed = {}
    /\ stage' = [stage EXCEPT ![h] = "check"]
    /\ UNCHANGED <<outboxVars, runVars, todo, mine, ack, stored, enabled, faults>>

(* The event being processed: the batch is in the order of outbox ids. *)
IsCurrent(h, j) == j \in todo[h] /\ \A k \in todo[h] : j <= k

(* Rows with j's key that request h sees: committed ones and its own. *)
Exists(h, j) ==
    \E k \in Jobs : Key[k] = Key[j] /\ (stored[k] > 0 \/ k \in mine[h])

(* The printer queue of j has a row that request h sees. *)
QueueSeen(h, j) ==
    \/ Queue[j] \in Known
    \/ \E k \in Jobs : Queue[k] = Queue[j] /\ (stored[k] > 0 \/ k \in mine[h])

(* The event is done with: its answer is noted, the next one follows. *)
Acknowledge(h, j, a) ==
    /\ ack' = [ack EXCEPT ![h][Key[j]] = a]
    /\ todo' = [todo EXCEPT ![h] = @ \ {j}]
    /\ stage' = [stage EXCEPT ![h] = "check"]

(* The lookup by (print_server_id, record_id), the handler's validation and *)
(* the lookup of the queue, whose row is created if there is none.         *)
Check(h, j) ==
    /\ stage[h] = "check" /\ IsCurrent(h, j)
    /\ \/ /\ Exists(h, j)
          /\ Acknowledge(h, j, "duplicate")
       \/ /\ ~Exists(h, j) /\ j \in Invalid
          /\ Acknowledge(h, j, "rejected")
       \/ /\ ~Exists(h, j) /\ j \notin Invalid
          /\ stage' = [stage EXCEPT ![h] = IF QueueSeen(h, j) THEN "insert" ELSE "create"]
          /\ UNCHANGED <<todo, ack>>
    /\ UNCHANGED <<outboxVars, runVars, mine, stored, enabled, faults>>

(* The event that request h is about to flush. *)
Flushes(h, j) == stage[h] \in {"create", "insert"} /\ IsCurrent(h, j)

(* Transaction g has an uncommitted row with j's key, or has inserted or    *)
(* updated (last_seen_at) the row of j's queue: other writers wait for it.  *)
Holds(g, j) == \E k \in mine[g] : Key[k] = Key[j] \/ Queue[k] = Queue[j]
Blocked(h, j) == \E g \in Handlers \ {h} : Holds(g, j)

(* Slip: print_jobs has no UNIQUE constraint. *)
Insert_NoConstraint(h, j) ==
    /\ Flushes(h, j)
    /\ Acknowledge(h, j, "inserted")
    /\ mine' = [mine EXCEPT ![h] = @ \cup {j}]
    /\ UNCHANGED <<outboxVars, runVars, stored, enabled, faults>>

(* The flush of the queue and the job.  The UNIQUE constraints see what was *)
(* committed since the lookups; a violation is an exception, so "rejected". *)
Collides(h, j) == Exists(h, j) \/ (stage[h] = "create" /\ QueueSeen(h, j))

Insert(h, j) ==
    /\ Flushes(h, j) /\ ~Blocked(h, j)
    /\ \/ /\ Collides(h, j)
          /\ Acknowledge(h, j, "rejected")
          /\ UNCHANGED mine
       \/ /\ ~Collides(h, j)
          /\ Acknowledge(h, j, "inserted")
          /\ mine' = [mine EXCEPT ![h] = @ \cup {j}]
    /\ UNCHANGED <<outboxVars, runVars, stored, enabled, faults>>

(* Request h is among transactions that wait for each other. *)
WaitsFor(h, g) == g # h /\ \E j \in Jobs : Flushes(h, j) /\ Holds(g, j)
Deadlocked(h) ==
    \E S \in SUBSET Handlers : h \in S /\ \A g \in S : \E f \in S : WaitsFor(g, f)

(* The database ends a deadlock by failing one of the statements.          *)
EndDeadlock(h, j) ==
    /\ Flushes(h, j) /\ Deadlocked(h)
    /\ Acknowledge(h, j, "rejected")
    /\ UNCHANGED <<outboxVars, runVars, mine, stored, enabled, faults>>

(* Another error while an event is flushed, caught by the same handler.    *)
InsertFails(h, j) ==
    /\ Flushes(h, j) /\ DbErrors /\ Fault
    /\ Acknowledge(h, j, "rejected")
    /\ UNCHANGED <<outboxVars, runVars, mine, stored, enabled>>

Commit(h) ==
    /\ stage[h] = "check" /\ todo[h] = {}
    /\ stored' = [j \in Jobs |-> IF j \in mine[h] THEN stored[j] + 1 ELSE stored[j]]
    /\ mine' = [mine EXCEPT ![h] = {}]
    /\ stage' = [stage EXCEPT ![h] = "respond"]
    /\ UNCHANGED <<outboxVars, runVars, todo, ack, enabled, faults>>

(* The answer reaches the run if it still waits for it. *)
Respond(h) ==
    /\ stage[h] = "respond"
    /\ answer' = [r \in Runs |-> IF at[r] = h THEN ack[h] ELSE answer[r]]
    /\ EndRequest(h) /\ Notify(h, "answered")
    /\ UNCHANGED <<outboxVars, stored, enabled, faults>>

(* The centre dies or its commit fails: the transaction is rolled back. *)
CrashHandler(h) ==
    /\ stage[h] # "idle" /\ Fault
    /\ EndRequest(h) /\ Notify(h, "error")
    /\ UNCHANGED <<outboxVars, answer, stored, enabled>>

(* An administrator disables the print server or rotates its token. *)
Disable ==
    /\ enabled /\ Fault
    /\ enabled' = FALSE
    /\ UNCHANGED <<outboxVars, runVars, reqVars, stored>>

Enable ==
    /\ ~enabled
    /\ enabled' = TRUE
    /\ UNCHANGED <<outboxVars, runVars, reqVars, stored, faults>>

-----------------------------------------------------------------------------
Site(r) ==
    \/ RetryFailed(r) \/ Fetch(r) \/ LoseRequest(r) \/ Timeout(r)
    \/ ApplyAnswers(r) \/ ApplyError(r) \/ CrashRun(r)
    \/ \E h \in Handlers : Send(r, h)

ProcessEvent(h) == \E j \in Jobs : Check(h, j) \/ Insert(h, j)

Centre(h) ==
    \/ Refuse(h) \/ Accept(h) \/ ProcessEvent(h)
    \/ \E j \in Jobs : EndDeadlock(h, j) \/ InsertFails(h, j)
    \/ Commit(h) \/ Respond(h) \/ CrashHandler(h)

Next ==
    \/ \E j \in Jobs : Record(j) \/ BackoffElapses(j)
    \/ \E r \in Runs : Site(r)
    \/ \E h \in Handlers : Centre(h)
    \/ Disable \/ Enable

Spec == Init /\ [][Next]_vars

(* A malformed row comes due again and again, and a batch with one is      *)
(* refused as a whole.  Its backoff grows far beyond the interval between  *)
(* runs and is drawn at random for each row, so a valid row comes due, and *)
(* a run fetches it, while no malformed row is due.                        *)
Apart == DueRows \cap Malformed = {}

JitterSeparates ==
    /\ \A j \in Jobs \ Malformed : SF_vars(BackoffElapses(j) /\ Apart)
    /\ \A r \in Runs \ Manual : SF_vars(Fetch(r) /\ Apart /\ DueRows # {})

(* The Task Scheduler starts a run every minute or two and a started run   *)
(* goes on; time passes; the centre's threads run, its database ends       *)
(* deadlocks, and a posted request is served even if others keep arriving  *)
(* (strong fairness of Send).  Nothing is assumed of operators and         *)
(* administrators.                                                         *)
Fairness ==
    /\ \A j \in Jobs : WF_vars(BackoffElapses(j))
    /\ \A r \in Runs : /\ WF_vars(Fetch(r))
                       /\ SF_vars(\E h \in Handlers : Send(r, h))
                       /\ WF_vars(ApplyAnswers(r) \/ ApplyError(r))
    /\ \A h \in Handlers : /\ WF_vars(Refuse(h) \/ Accept(h) \/ ProcessEvent(h)
                                      \/ Commit(h) \/ Respond(h))
                           /\ WF_vars(\E j \in Jobs : EndDeadlock(h, j))
    /\ JitterSeparates

FairSpec == Spec /\ Fairness

-----------------------------------------------------------------------------
(* Properties *)

KeysDistinct == \A i, j \in Jobs : Key[i] = Key[j] => i = j

(* The centre holds at most one print_jobs row per record_id, and so never *)
(* bills a job twice, however often and however concurrently a batch is    *)
(* sent (agent_api.py, idempotency by (print_server_id, record_id)).       *)
StoredOnce ==
    \A i, j \in Jobs :
        /\ stored[i] <= 1
        /\ stored[i] > 0 /\ stored[j] > 0 /\ Key[i] = Key[j] => i = j

(* A row the site marks delivered, and will never send again, is committed *)
(* at the centre: an acknowledgement never outruns its transaction, and    *)
(* "duplicate" is never said of a row that can still be rolled back.       *)
DeliveredIsStored == \A j \in Jobs : status[j] = "delivered" => stored[j] = 1

(* "failed" is terminal without an operator, so no job gets there with a   *)
(* request that failed as a whole: a row becomes failed only by a run      *)
(* whose batch was answered row by row, with a refusal of that very row,   *)
(* and never in the company of a malformed one.                            *)
FailedWasJudged ==
    [][\A j \in Jobs :
          status[j] # "failed" /\ status'[j] = "failed" =>
              \E r \in Runs :
                  /\ j \in rows[r] /\ Answer(r, j) = "rejected"
                  /\ \A k \in rows[r] : k \notin Malformed /\ Answer(r, k) # "none"]_vars

(* Where runs never overlap, a delivered row stays delivered.              *)
DeliveredIsFinal ==
    [][\A j \in Jobs : status[j] = "delivered" => status'[j] = "delivered"]_vars

(* Every valid job the site records ends up in the centre once requests    *)
(* stop failing, without an operator and in spite of malformed neighbours, *)
(* if the print server is not left disabled, the job's queue is known and  *)
(* no deadlock makes the job its victim; a job "rejected" for losing a     *)
(* race against its own earlier request was stored by that request.        *)
EveryJobStored ==
    []<>enabled =>
        \A j \in Jobs \ (Invalid \cup Malformed) : status[j] # "absent" ~> stored[j] = 1

(* Every well-formed row stops being pending, whether the centre takes or  *)
(* refuses the job, and although a malformed neighbour has whole batches   *)
(* refused.  A malformed row itself is sent for ever.                      *)
EveryRowSettles ==
    []<>enabled =>
        \A j \in Jobs \ Malformed : status[j] = "pending" ~> status[j] \in {"delivered", "failed"}

(* The outbox, the runs and the centre together deliver jobs as            *)
(* JobDelivery promises.                                                   *)
Delivery == INSTANCE JobDelivery WITH
    recorded  <- {j \in Jobs : status[j] # "absent"},
    stored    <- {j \in Jobs : stored[j] > 0},
    confirmed <- {j \in Jobs : status[j] = "delivered"}

DeliverySpec == Delivery!Spec
=============================================================================
