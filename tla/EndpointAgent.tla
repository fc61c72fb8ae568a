--------------------------- MODULE EndpointAgent ---------------------------
(***************************************************************************)
(* The endpoint agent of a PC (endpoint_agent/) and the site server's      *)
(* POST /api/v1/endpoint/events/batch handler (webapp/endpoint_api.py).    *)
(*                                                                         *)
(* A cycle of the agent captures new print events into its local SQLite    *)
(* outbox, sends one batch of due rows and writes the answers back, each   *)
(* in a commit of its own.  The Windows service repeats the cycle; an      *)
(* operator may run one more with --once over the same database file.      *)
(*                                                                         *)
(* The site server serves each request in a session of its own, one        *)
(* SAVEPOINT per event.  On SQLite releasing it commits the event, on      *)
(* PostgreSQL the batch is committed at the end; the model allows both.    *)
(*                                                                         *)
(* Abstracted: the payload; the price and department of a job; the length  *)
(* of the backoff; which printers are network printers,                    *)
(* taken to be a fact about the event; the heartbeat, which changes no     *)
(* state of delivery; a log too small for its events (see Collector, which *)
(* reads it with the same script).  A stored job stands for its print_jobs *)
(* row and, in agent mode, the outbox row committed with it.               *)
(***************************************************************************)
EXTENDS Naturals, FiniteSets, Batches

CONSTANTS
    LastEvent,   \* how many print events happen
    Skipped,     \* events without user or printer, or on an excluded printer
    Poison,      \* events whose number of pages is not a number
    Malformed,   \* events the request schema refuses (422)
    Queue,       \* Queue[e] is the printer queue event e was printed on
    Known,       \* queues of the PC that already have a row at the site
    Agents,      \* processes running the agent's cycle
    Service,     \* the one that repeats it
    Handlers,    \* request threads of the site server
    NoHandler,   \* an agent that is not waiting for any request
    MaxEvents,   \* max_events_per_run
    BatchSize,   \* batch_size
    MaxFaults,   \* how often the environment may fail before it behaves
    DbErrors     \* whether the site's database may fail on single events

ASSUME EventAssumption == LastEvent \in Nat
ASSUME AgentAssumption == Service \in Agents
ASSUME HandlerAssumption == NoHandler \notin Handlers
ASSUME BoundAssumption ==
    MaxEvents \in Nat \ {0} /\ BatchSize \in Nat \ {0} /\ MaxFaults \in Nat
ASSUME DbErrorsAssumption == DbErrors \in BOOLEAN

Events == 1 .. LastEvent

ASSUME QueueAssumption == DOMAIN Queue = Events

Answers == {"none", "inserted", "duplicate", "rejected"}
NoAnswer == [e \in Events |-> "none"]

VARIABLES
    printed,   \* EventRecordID of the newest event in the PC's log
    \* the PC's database
    cursor,    \* agent_state.last_record_id
    status,    \* outbox_events.status; "absent" before the event is enqueued
    due,       \* next_attempt_at is NULL or has passed
    \* the agent's processes
    pc,        \* what each does next
    newest,    \* the cursor a capture started from, then max_record_id; 0 after it
    rows,      \* the fetched rows it has not written back
    at,        \* the request it waits for
    answer,    \* the per-event answers it received
    \* the server's requests
    stage,     \* what each request thread does next
    todo,      \* events of its batch not yet processed
    mine,      \* rows it inserted and has not committed
    ack,       \* the answers it has built
    \* the server's tables
    stored,    \* committed print_jobs rows per event
    enabled,   \* the EndpointAgent is registered, its token current, not disabled
    faults     \* environment failures so far

pcVars    == <<cursor, status, due>>
agentVars == <<pc, newest, rows, at, answer>>
reqVars   == <<stage, todo, mine, ack>>
vars      == <<printed, pcVars, agentVars, reqVars, stored, enabled, faults>>

TypeOK ==
    /\ printed \in 0 .. LastEvent
    /\ cursor  \in 0 .. LastEvent
    /\ status  \in [Events -> {"absent", "pending", "sent", "failed"}]
    /\ due     \in [Events -> BOOLEAN]
    /\ pc      \in [Agents -> {"idle", "capture", "cursor", "fetch", "send",
                               "wait", "apply", "retry", "raised"}]
    /\ newest  \in [Agents -> 0 .. LastEvent]
    /\ rows    \in [Agents -> SUBSET Events]
    /\ at      \in [Agents -> Handlers \cup {NoHandler}]
    /\ answer  \in [Agents -> [Events -> Answers]]
    /\ stage   \in [Handlers -> {"idle", "received", "check", "create", "insert", "respond"}]
    /\ todo    \in [Handlers -> SUBSET Events]
    /\ mine    \in [Handlers -> SUBSET Events]
    /\ ack     \in [Handlers -> [Events -> Answers]]
    /\ stored  \in [Events -> Nat]
    /\ enabled \in BOOLEAN
    /\ faults  \in 0 .. MaxFaults

Init ==
    /\ printed = 0
    /\ cursor = 0
    /\ status = [e \in Events |-> "absent"]
    /\ due = [e \in Events |-> TRUE]
    /\ pc = [a \in Agents |-> "idle"]
    /\ newest = [a \in Agents |-> 0]
    /\ rows = [a \in Agents |-> {}]
    /\ at = [a \in Agents |-> NoHandler]
    /\ answer = [a \in Agents |-> NoAnswer]
    /\ stage = [h \in Handlers |-> "idle"]
    /\ todo = [h \in Handlers |-> {}]
    /\ mine = [h \in Handlers |-> {}]
    /\ ack = [h \in Handlers |-> NoAnswer]
    /\ stored = [e \in Events |-> 0]
    /\ enabled = TRUE
    /\ faults = 0

Fault == faults < MaxFaults /\ faults' = faults + 1

-----------------------------------------------------------------------------
(* The PC *)

LogEvent ==
    /\ printed < LastEvent
    /\ printed' = printed + 1
    /\ UNCHANGED <<pcVars, agentVars, reqVars, stored, enabled, faults>>

BackoffElapses(e) ==
    /\ ~due[e]
    /\ due' = [due EXCEPT ![e] = TRUE]
    /\ UNCHANGED <<printed, cursor, status, agentVars, reqVars, stored, enabled, faults>>

(* get_cursor *)
Begin(a) ==
    /\ pc[a] = "idle"
    /\ pc' = [pc EXCEPT ![a] = "capture"]
    /\ newest' = [newest EXCEPT ![a] = cursor]
    /\ UNCHANGED <<printed, pcVars, rows, at, answer, reqVars, stored, enabled, faults>>

(* Slip: the cursor goes to the end of the log, not of the batch. *)
IsNewest_OfLog(n, B, base) == n = IF B = {} THEN base ELSE printed

(* n is max_record_id after batch B was read above base. *)
IsNewest(n, B, base) == n \in B \cup {base} /\ \A e \in B : e <= n

(* The export, the parsing and INSERT OR IGNORE of the batch, one commit.  *)
(* A number of pages that is not a number raises out of the whole cycle.   *)
Capture(a) ==
    /\ pc[a] = "capture"
    /\ \E B \in SUBSET Events :
        /\ IsFirst(B, {e \in Events : newest[a] < e /\ e <= printed}, MaxEvents)
        /\ IF B \cap Poison # {}
           THEN /\ pc' = [pc EXCEPT ![a] = "raised"]
                /\ UNCHANGED <<newest, status>>
           ELSE /\ pc' = [pc EXCEPT ![a] = IF B = {} THEN "fetch" ELSE "cursor"]
                /\ \E n \in 0 .. LastEvent :
                    /\ IsNewest(n, B, newest[a])
                    /\ newest' = [newest EXCEPT ![a] = n]
                /\ status' = [e \in Events |->
                       IF e \in B \ Skipped /\ status[e] = "absent" THEN "pending" ELSE status[e]]
    /\ UNCHANGED <<printed, cursor, due, rows, at, answer, reqVars, stored, enabled, faults>>

(* PowerShell fails; what is already in the outbox is sent all the same. *)
CaptureFails(a) ==
    /\ pc[a] = "capture" /\ Fault
    /\ pc' = [pc EXCEPT ![a] = "fetch"]
    /\ UNCHANGED <<printed, pcVars, newest, rows, at, answer, reqVars, stored, enabled>>

SetCursor(a) ==
    /\ pc[a] = "cursor"
    /\ cursor' = newest[a]
    /\ pc' = [pc EXCEPT ![a] = "fetch"]
    /\ UNCHANGED <<printed, status, due, newest, rows, at, answer, reqVars, stored, enabled, faults>>

DueRows == {e \in Events : status[e] = "pending" /\ due[e]}

(* fetch_due_batch; without a due row only the heartbeat is left. *)
FetchDue(a) ==
    /\ pc[a] = "fetch"
    /\ \E B \in SUBSET DueRows :
        /\ IsFirst(B, DueRows, BatchSize)
        /\ rows' = [rows EXCEPT ![a] = B]
        /\ pc' = [pc EXCEPT ![a] = IF B = {} THEN "idle" ELSE "send"]
    /\ newest' = [newest EXCEPT ![a] = 0]
    /\ UNCHANGED <<printed, pcVars, at, answer, reqVars, stored, enabled, faults>>

Send(a, h) ==
    /\ pc[a] = "send" /\ stage[h] = "idle"
    /\ pc' = [pc EXCEPT ![a] = "wait"]
    /\ at' = [at EXCEPT ![a] = h]
    /\ stage' = [stage EXCEPT ![h] = "received"]
    /\ todo' = [todo EXCEPT ![h] = rows[a]]
    /\ UNCHANGED <<printed, pcVars, newest, rows, answer, mine, ack, stored, enabled, faults>>

(* The request cannot be sent: URLError, and so SyncError. *)
LoseRequest(a) ==
    /\ pc[a] = "send" /\ Fault
    /\ pc' = [pc EXCEPT ![a] = "retry"]
    /\ UNCHANGED <<printed, pcVars, newest, rows, at, answer, reqVars, stored, enabled>>

(* The cycle is over, normally (p is "idle") or by an exception ("raised"). *)
EndCycle(a, p) ==
    /\ pc' = [pc EXCEPT ![a] = p]
    /\ rows' = [rows EXCEPT ![a] = {}]
    /\ at' = [at EXCEPT ![a] = NoHandler]
    /\ answer' = [answer EXCEPT ![a] = NoAnswer]
    /\ newest' = [newest EXCEPT ![a] = 0]

(* No answer within http_timeout_seconds: urllib turns only errors of      *)
(* sending into URLError, so TimeoutError raises out of the whole cycle.   *)
Timeout(a) ==
    /\ pc[a] = "wait" /\ Fault
    /\ EndCycle(a, "raised")
    /\ UNCHANGED <<printed, pcVars, reqVars, stored, enabled>>

(* run_forever logs the exception and goes on with the next cycle. *)
Rest(a) ==
    /\ pc[a] = "raised"
    /\ pc' = [pc EXCEPT ![a] = "idle"]
    /\ newest' = [newest EXCEPT ![a] = 0]
    /\ UNCHANGED <<printed, pcVars, rows, at, answer, reqVars, stored, enabled, faults>>

(* Slip: the answer itself is written into the row. *)
Outcome_AsAnswered(a, e) == IF answer[a][e] = "none" THEN status[e] ELSE answer[a][e]

Outcome(a, e) ==
    IF answer[a][e] \in {"inserted", "duplicate"} THEN "sent"
    ELSE IF answer[a][e] = "rejected" THEN "failed"
    ELSE status[e]

IsNextRow(a, e) == e \in rows[a] /\ \A k \in rows[a] : e <= k

(* The answer to one row, committed; mark_retry if there is none. *)
ApplyRow(a, e) ==
    /\ pc[a] = "apply" /\ IsNextRow(a, e)
    /\ status' = [status EXCEPT ![e] = Outcome(a, e)]
    /\ due' = [due EXCEPT ![e] = @ /\ answer[a][e] # "none"]
    /\ rows' = [rows EXCEPT ![a] = @ \ {e}]
    /\ UNCHANGED <<printed, cursor, pc, newest, at, answer, reqVars, stored, enabled, faults>>

(* Slip: an error of the whole batch is terminal for each of its rows. *)
RetryRow_Fails(a, e) ==
    /\ pc[a] = "retry" /\ IsNextRow(a, e)
    /\ status' = [status EXCEPT ![e] = "failed"]
    /\ rows' = [rows EXCEPT ![a] = @ \ {e}]
    /\ UNCHANGED <<printed, cursor, due, pc, newest, at, answer, reqVars, stored, enabled, faults>>

(* mark_retry of one row of a batch that failed as a whole, committed. *)
RetryRow(a, e) ==
    /\ pc[a] = "retry" /\ IsNextRow(a, e)
    /\ due' = [due EXCEPT ![e] = FALSE]
    /\ rows' = [rows EXCEPT ![a] = @ \ {e}]
    /\ UNCHANGED <<printed, cursor, status, pc, newest, at, answer, reqVars, stored, enabled, faults>>

(* After the last row, the heartbeat and the pause until the next cycle. *)
Finish(a) ==
    /\ pc[a] \in {"apply", "retry"} /\ rows[a] = {}
    /\ EndCycle(a, "idle")
    /\ UNCHANGED <<printed, pcVars, reqVars, stored, enabled, faults>>

(* The PC is switched off, or the local database is locked for too long. *)
CrashAgent(a) ==
    /\ pc[a] # "idle" /\ Fault
    /\ EndCycle(a, "idle")
    /\ UNCHANGED <<printed, pcVars, reqVars, stored, enabled>>

-----------------------------------------------------------------------------
(* The site server *)

(* The request is over; what it has not committed is gone. *)
EndRequest(h) ==
    /\ stage' = [stage EXCEPT ![h] = "idle"]
    /\ todo' = [todo EXCEPT ![h] = {}]
    /\ mine' = [mine EXCEPT ![h] = {}]
    /\ ack' = [ack EXCEPT ![h] = NoAnswer]

(* The agent still waiting for request h, if any, goes on at p. *)
Notify(h, p) ==
    /\ pc' = [a \in Agents |-> IF at[a] = h THEN p ELSE pc[a]]
    /\ at' = [a \in Agents |-> IF at[a] = h THEN NoHandler ELSE at[a]]
    /\ UNCHANGED newest

(* 401 or 422: an answer about the whole batch. *)
Refuse(h) ==
    /\ stage[h] = "received"
    /\ ~enabled \/ todo[h] \cap Malformed # {}
    /\ EndRequest(h) /\ Notify(h, "retry")
    /\ UNCHANGED <<printed, pcVars, rows, answer, stored, enabled, faults>>

Accept(h) ==
    /\ stage[h] = "received"
    /\ enabled /\ todo[h] \cap Malformed = {}
    /\ stage' = [stage EXCEPT ![h] = "check"]
    /\ UNCHANGED <<printed, pcVars, agentVars, todo, mine, ack, stored, enabled, faults>>

IsCurrent(h, e) == e \in todo[h] /\ \A k \in todo[h] : e <= k

(* Slip: the lookup sees rows other transactions have not committed. *)
Exists_Dirty(h, e) == stored[e] > 0 \/ \E g \in Handlers : e \in mine[g]

(* A row of the event that request h sees: committed, or its own. *)
Exists(h, e) == stored[e] > 0 \/ e \in mine[h]

Acknowledge(h, e, a) ==
    /\ ack' = [ack EXCEPT ![h][e] = a]
    /\ todo' = [todo EXCEPT ![h] = @ \ {e}]
    /\ stage' = [stage EXCEPT ![h] = "check"]

(* The printer queue of e has a row that request h sees. *)
QueueSeen(h, e) ==
    \/ Queue[e] \in Known
    \/ \E k \in Events : Queue[k] = Queue[e] /\ Exists(h, k)

(* The lookup by (endpoint_agent_id, record_id) and that of the queue,     *)
(* whose row is created if there is none.                                  *)
Check(h, e) ==
    /\ stage[h] = "check" /\ IsCurrent(h, e)
    /\ \/ Exists(h, e) /\ Acknowledge(h, e, "duplicate")
       \/ /\ ~Exists(h, e)
          /\ stage' = [stage EXCEPT ![h] = IF QueueSeen(h, e) THEN "insert" ELSE "create"]
          /\ UNCHANGED <<todo, ack>>
    /\ UNCHANGED <<printed, pcVars, agentVars, mine, stored, enabled, faults>>

(* The event that request h is about to flush. *)
Flushes(h, e) == stage[h] \in {"create", "insert"} /\ IsCurrent(h, e)

(* Transaction g has an uncommitted row of event e, or has inserted or     *)
(* updated (last_seen_at) the row of e's queue: other writers wait for it. *)
Holds(g, e) == \E k \in mine[g] : k = e \/ Queue[k] = Queue[e]

(* Slip: print_jobs has no UNIQUE constraint for endpoint agents. *)
Insert_NoConstraint(h, e) ==
    /\ Flushes(h, e)
    /\ Acknowledge(h, e, "inserted")
    /\ mine' = [mine EXCEPT ![h] = @ \cup {e}]
    /\ UNCHANGED <<printed, pcVars, agentVars, stored, enabled, faults>>

(* The UNIQUE constraints of jobs and queues see what was committed since  *)
(* the lookups; a violation is an exception, so "rejected".                *)
Collides(h, e) == stored[e] > 0 \/ (stage[h] = "create" /\ QueueSeen(h, e))

(* The flush of the queue and the job. *)
Insert(h, e) ==
    /\ Flushes(h, e)
    /\ \A g \in Handlers \ {h} : ~Holds(g, e)
    /\ IF Collides(h, e)
       THEN Acknowledge(h, e, "rejected") /\ UNCHANGED mine
       ELSE Acknowledge(h, e, "inserted") /\ mine' = [mine EXCEPT ![h] = @ \cup {e}]
    /\ UNCHANGED <<printed, pcVars, agentVars, stored, enabled, faults>>

(* Request h is among transactions that wait for each other. *)
WaitsFor(h, g) == g # h /\ \E e \in Events : Flushes(h, e) /\ Holds(g, e)
Deadlocked(h) ==
    \E S \in SUBSET Handlers : h \in S /\ \A g \in S : \E f \in S : WaitsFor(g, f)

(* The database ends a deadlock by failing one of the statements.          *)
EndDeadlock(h, e) ==
    /\ Flushes(h, e) /\ Deadlocked(h)
    /\ Acknowledge(h, e, "rejected")
    /\ UNCHANGED <<printed, pcVars, agentVars, mine, stored, enabled, faults>>

(* Any other error while the event is processed, such as a locked database. *)
InsertFails(h, e) ==
    /\ Flushes(h, e) /\ DbErrors /\ Fault
    /\ Acknowledge(h, e, "rejected")
    /\ UNCHANGED <<printed, pcVars, agentVars, mine, stored, enabled>>

(* What request h has inserted is committed. *)
StoreMine(h) ==
    /\ stored' = [e \in Events |-> IF e \in mine[h] THEN stored[e] + 1 ELSE stored[e]]
    /\ mine' = [mine EXCEPT ![h] = {}]

(* SQLite: the end of an event's outermost SAVEPOINT is a commit. *)
Release(h) ==
    /\ stage[h] = "check" /\ mine[h] # {}
    /\ StoreMine(h)
    /\ UNCHANGED <<printed, pcVars, agentVars, stage, todo, ack, enabled, faults>>

Commit(h) ==
    /\ stage[h] = "check" /\ todo[h] = {}
    /\ StoreMine(h)
    /\ stage' = [stage EXCEPT ![h] = "respond"]
    /\ UNCHANGED <<printed, pcVars, agentVars, todo, ack, enabled, faults>>

Respond(h) ==
    /\ stage[h] = "respond"
    /\ answer' = [a \in Agents |-> IF at[a] = h THEN ack[h] ELSE answer[a]]
    /\ EndRequest(h) /\ Notify(h, "apply")
    /\ UNCHANGED <<printed, pcVars, rows, stored, enabled, faults>>

(* The server answers 500 ("retry") or dies without an answer ("raised"). *)
CrashHandler(h) ==
    /\ stage[h] # "idle" /\ Fault
    /\ EndRequest(h)
    /\ \E p \in {"retry", "raised"} :
        /\ Notify(h, p)
        /\ rows' = [a \in Agents |-> IF at[a] = h /\ p = "raised" THEN {} ELSE rows[a]]
    /\ UNCHANGED <<printed, pcVars, answer, stored, enabled>>

(* An administrator disables the agent or rotates its token. *)
Disable ==
    /\ enabled /\ Fault
    /\ enabled' = FALSE
    /\ UNCHANGED <<printed, pcVars, agentVars, reqVars, stored>>

Enable ==
    /\ ~enabled
    /\ enabled' = TRUE
    /\ UNCHANGED <<printed, pcVars, agentVars, reqVars, stored, faults>>

-----------------------------------------------------------------------------
Cycle(a) ==
    \/ Begin(a) \/ Capture(a) \/ SetCursor(a) \/ FetchDue(a) \/ Rest(a) \/ Finish(a)
    \/ \E e \in Events : ApplyRow(a, e) \/ RetryRow(a, e)

Disturb(a) == CaptureFails(a) \/ LoseRequest(a) \/ Timeout(a) \/ CrashAgent(a)

Serve(h) ==
    \/ Refuse(h) \/ Accept(h) \/ Commit(h) \/ Respond(h)
    \/ \E e \in Events : Check(h, e) \/ Insert(h, e)

Next ==
    \/ LogEvent \/ \E e \in Events : BackoffElapses(e)
    \/ \E a \in Agents : Cycle(a) \/ Disturb(a) \/ \E h \in Handlers : Send(a, h)
    \/ \E h \in Handlers : \/ Serve(h) \/ Release(h) \/ CrashHandler(h)
                           \/ \E e \in Events : EndDeadlock(h, e) \/ InsertFails(h, e)
    \/ Disable \/ Enable

Spec == Init /\ [][Next]_vars

(* A malformed event comes due again and again, and a batch with one is    *)
(* refused as a whole.  The backoff grows to half an hour and up to nine   *)
(* minutes drawn at random for each row, while cycles start every five: if *)
(* a well-formed row stays pending, then again and again a cycle finds one *)
(* due, and no malformed one.                                              *)
Apart == DueRows \cap Malformed = {}

JitterSeparates ==
    (\E e \in Events \ Malformed : <>[](status[e] = "pending")) =>
        []<><<FetchDue(Service) /\ Apart /\ DueRows # {}>>_vars

(* The service repeats its cycle, time passes, and the server's threads    *)
(* run, its database ends deadlocks, and a posted request is served even   *)
(* if others keep arriving.                                                *)
Fairness ==
    /\ \A e \in Events : WF_vars(BackoffElapses(e))
    /\ WF_vars(Cycle(Service))
    /\ SF_vars(\E h \in Handlers : Send(Service, h))
    /\ \A h \in Handlers : WF_vars(Serve(h)) /\ WF_vars(\E e \in Events : EndDeadlock(h, e))
    /\ JitterSeparates

FairSpec == Spec /\ Fairness

-----------------------------------------------------------------------------
(* Properties *)

(* The cursor never leaves an event behind that should have been captured: *)
(* the rows are committed before it, and a cycle that dies in between, or  *)
(* another process with an older cursor, only reads events again.          *)
CursorCovers ==
    \A e \in Events : e <= cursor => status[e] # "absent" \/ e \in Skipped

(* No event becomes two jobs of the site, however often it is sent and     *)
(* whatever requests that carry it run at the same time.                   *)
StoredOnce == \A e \in Events : stored[e] <= 1

(* An event marked sent is never sent again, so it must be committed at    *)
(* the site: no answer outruns the transaction it speaks of.               *)
SentIsStored == \A e \in Events : status[e] = "sent" => stored[e] = 1

(* "failed" is terminal, so no event gets there with a batch that was      *)
(* refused as a whole (a disabled agent, a malformed neighbour): a row     *)
(* becomes failed only by a cycle that received a refusal of that very     *)
(* row, and an answer for every row it still has to write back, none of    *)
(* them malformed.                                                         *)
FailedWasJudged ==
    [][\A e \in Events :
          status[e] # "failed" /\ status'[e] = "failed" =>
              \E a \in Agents :
                  /\ e \in rows[a] /\ answer[a][e] = "rejected"
                  /\ \A k \in rows[a] : k \notin Malformed /\ answer[a][k] # "none"]_vars

(* Every well-formed event becomes a job of the site once requests stop    *)
(* failing, in spite of malformed neighbours, if the agent is not left     *)
(* disabled, no Poison event is printed, which ends every later cycle, the *)
(* site knows the event's queue and no database error or deadlock rejects  *)
(* the event: a rejected event is given up.                                *)
EveryEventStored ==
    []<>enabled =>
        \A e \in Events \ (Skipped \cup Malformed \cup Poison) :
            e <= printed ~> stored[e] = 1 \/ \E p \in Poison : p <= printed

(* The agent, its outbox and the site server deliver events as JobDelivery *)
(* promises.                                                               *)
Delivery == INSTANCE JobDelivery WITH
    Jobs      <- Events,
    recorded  <- {e \in Events : status[e] # "absent"},
    stored    <- {e \in Events : stored[e] > 0},
    confirmed <- {e \in Events : status[e] = "sent"}

DeliverySpec == Delivery!Spec
=============================================================================
