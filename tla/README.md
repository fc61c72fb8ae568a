# Printer audit: verification project

The repository counts printed pages. A Windows Print Server or a user's PC
reports print events; a site turns them into `print_jobs`; a central server
collects the jobs, and the monitoring data of the printers, of all sites. This
directory holds TLA+ models of the parts of that system in which several
processes, crashes or lost requests can spoil the data, the TLC configurations
that check them, and proofs of the properties that matter most.

Paths below are relative to the repository root.

## 1. Inventory of the system

| Component | State | Operations | Talks to |
|---|---|---|---|
| Collector, `collector/collect_print_events.py` | `collector_state.last_record_id`, `print_jobs`, `outbox_events` | one run: read the event log after the cursor, insert jobs (and outbox rows in agent mode), move the cursor, one commit | event log (PowerShell), site database |
| Endpoint agent, `endpoint_agent/` | SQLite file of the PC: `outbox_events`, the cursor in `agent_state` | capture cycle, synchronisation cycle, heartbeat | event log, endpoint API |
| Endpoint API, `webapp/endpoint_api.py` | `print_jobs`, `outbox_events`, `endpoint_agents` | receive a batch, heartbeat | endpoint agents; the site's outbox |
| Site agent, `collector/agent_sync.py` | `outbox_events.status`, `next_attempt_at`; `monitoring_sync_state` | send due rows, apply answers, `--retry-failed`, send monitoring data, heartbeat | central API |
| Central API, `webapp/agent_api.py` | `print_jobs`, queues, departments, `print_servers`, devices, samples, alerts | events batch, monitoring batch, heartbeat | site agents |
| Polling, `collector/monitor_printers.py`, `printaudit/monitoring/` | `printer_devices`, three sample tables, `printer_alerts`, `monitoring_runs` | poll every device, ingest a reading, open / resolve / reopen alerts | Zabbix, SNMP, site database |
| Retention, `printaudit/monitoring/retention.py` | samples, alerts, `printer_supply_daily_agg` | aggregate, purge | site or central database |
| Print server status, `printaudit/sites.py` | three time stamps of `print_servers` | compute the status, create sites and servers on first use | pages, collector |
| Administrators and sessions, `printaudit/admin_users.py`, `printaudit/security/` | `app_users`, `web_sessions` | assign, disable, delete, log in, lock out, change password | pages |
| Queues and tariffs, `printaudit/printers/`, `printaudit/pricing.py` | `printer_queues`, `price_rules` | discovery, choice of the tariff | collector, APIs |
| Departments, `printaudit/department_resolver.py`, `printaudit/ad/` | cached AD users, groups, rules | plan and apply group rules, look a user up | LDAP, collector |
| Forecasting, `printaudit/forecasting/` | `forecast_runs` | series, models, toner exhaustion, downtime risk | database |
| Pages and forms, `webapp/main.py`, `webapp/admin_routes.py` | none of their own | reports, single-row forms | database |

What is hard about it, and hardly reached by the tests of the repository:

* **Requests outlive their sender.** A run of the site agent gives up after its
  HTTP timeout; the centre goes on and commits. The next run sends the same rows
  while the first transaction may still be open.
* **Check, then insert.** Duplicates, queues, departments, sites are looked up
  and then inserted; the UNIQUE constraint decides between two requests, and
  its violation is an exception that becomes an answer.
* **Cursors.** The collector, the endpoint agent and the monitoring
  synchronisation each forget everything at or below a cursor, so a cursor that
  moves too far loses data silently.
* **Two processes on one database.** Scheduled runs never overlap themselves
  (`MultipleInstances IgnoreNew`), but a manual run, `--retry-failed` or
  `--once` may overlap the scheduled one.
* **Partial failure.** One event or item of a batch is refused, the rest accepted.
* **Terminal states.** `failed` is never retried without an operator.

`PROJECT.json` lists every component and every hazard with the line where it
bites and the properties that watch it.

For each component the properties that make it correct:

* Collector: no event becomes two jobs; the cursor passes nothing that is not
  accounted for; every event is handled.
* Endpoint agent and its API: the same for the PC's cursor, and the delivery
  promise below between PC and site.
* Site agent and central API, jobs: *delivered* means committed at the centre,
  nothing is stored twice, nothing valid is left behind, every row settles.
* Monitoring: the cursors pass no sample and no news of an alert that has not
  arrived; every sample and every resolution arrives.
* Polling: a committed reading shows exactly the problems it told of; the alerts
  end up following the device.
* Retention and exhaustion: no sample is deleted that the daily trend does not
  know; a date is given exactly for a level that falls.
* Administrators: one active superadmin remains; no session outlives its user; the
  audit log agrees with the rows; a temporary password opens nothing.
* Tariffs: the choice is the documented one for the time of printing; settings of
  the administrator are kept; every job is charged in the end.
* Departments: a deleted department takes nothing with it; locked cards are left
  alone; the applied rule is one that no other outranks.

## 2. Modules

| Module | Contents |
|---|---|
| `Batches` | `IsFirst`: the first n rows in the order of their ids |
| `JobDelivery` | abstract: what delivering jobs promises (recorded, stored, confirmed) |
| `AgentSync` | site outbox → central API, jobs; implements `JobDelivery` |
| `Collector` | event log → `print_jobs` |
| `EndpointAgent` | event log of a PC → its outbox → endpoint API; implements `JobDelivery` |
| `MonitoringSync` | polls → samples and alerts → cursors → central API |
| `Polling` | forms of devices and profiles, polls, alerts, the purge of alerts |
| `Trends` | samples of a supply → daily rows → date of exhaustion |
| `PrintJobs` | what the next two share: jobs, NULL, a row that is not there |
| `Tariffs` | queues, discovery, tariffs → the charge of a job |
| `Departments` | departments, cards, groups, rules, CSV → the department of a job |
| `Administrators` | accounts, sessions, logins, audit log |
| `MC…` | values for TLC: keys, queues, devices, symmetry |
| `Charging_proofs` | theorems and proofs about `Departments` and `Tariffs` |
| `…_proofs` | theorems and proofs about the module of the same name |

A component's state is a group of variables, one per column or local variable
that the control depends on; an operation is an action, or several where another
process can act in between (before each `await`ed answer, between two commits,
between the lookup and the flush of one event). The `map` of `PROJECT.json`
gives the lines of every definition. Definitions named `X_…` under a comment
that starts with *Slip* are plausible mistakes in `X`; they are used only to
see that the properties notice them.

### AgentSync

A run has the program counter `pc`, the `rows` it fetched, the request `at` it
waits for and the `answer` it received; a request thread of the centre has its
`stage`, the events `todo`, the uncommitted rows `mine` and the answers `ack` it
has built. The tables are `status`/`due` (site) and `stored` (centre).

| Action | Code |
|---|---|
| `Record` | commit of a job with its outbox row |
| `RetryFailed`, `Fetch` | `retry_failed_rows`, `_fetch_due_outbox_rows` |
| `Send`, `LoseRequest`, `Timeout` | `send_batch` and its exceptions |
| `ApplyAnswers`, `ApplyError` | the two branches of `run_once` |
| `Refuse`, `Accept` | schema, token, identity |
| `Check`, `Insert`, `InsertFails` | the loop body of `agent_events_batch`; `Blocked` and `Deadlocked` are the row and unique-key locks |
| `EndDeadlock` | the statement the database fails to end a deadlock |
| `Commit`, `Respond`, `CrashHandler` | the end of the handler |
| `Disable`, `Enable` | the administrator's forms |

The centre is PostgreSQL with READ COMMITTED: a lookup sees committed rows and
its own, an insert waits for an uncommitted row with the same unique key. With
SQLite at the centre writers are serial and there are fewer interleavings. The
department of a job is created exactly like its queue (`agent_api.py:265-274`)
and shares its race; it is not a variable of its own.

### Collector

A run reads the cursor and a batch of the log (`Start`, `Export`), examines the
events in order (`Examine`), and commits jobs and cursor together (`Commit`) or
loses both (`CommitFails`, crashes). The log is a ring of `LogSize` events;
queues are switched off and on by the administrator. Overlapping runs may write
an old cursor over a new one: harmless, because jobs are looked up before they
are inserted.

### EndpointAgent

The PC's cycle: capture (rows committed first, the cursor second), fetch,
send, apply. `raised` is an exception that leaves the cycle: `urllib` wraps only
errors of sending the request, a time-out of reading the answer escapes. The
server releases a savepoint per event and commits at the end. With SQLite the
release itself commits while no earlier savepoint has been rolled back; the
model lets the release commit or not, which covers both databases. The queue of an
event is looked up and inserted like at the centre (`QueueSeen`, `Collides`,
`Deadlocked`, `EndDeadlock`): `webapp/endpoint_api.py:208` calls the same
get-or-create, and the loser's event is rejected. A second process (`--once`) may
share the PC's database with the service.

### MonitoringSync

A poll visits the devices one transaction at a time: it gives a sample an id
(before the commit, as a PostgreSQL sequence does), opens, resolves and reopens
alerts with one `updated_at` for all changes of the poll, and commits. A
synchronising run reads the devices, then rows beyond its cursor in batches,
waits, and moves the cursor only if nothing was refused. `Written` is the ORM's
column-wise UPDATE: only columns whose value differs from the loaded one are
written. `stray` holds requests whose sender no longer waits. Retention deletes
rows at any moment. The three sample tables are one, since their cursors are of
the same kind and move together. The central handler is one step: it has one
commit, its effects on different rows are independent, and a concurrent insert
of the same row fails the later request as a whole. `TypeOK` includes `HeldRows`: a
row with an id that is not committed belongs to a poll at work.

### Polling

A device row is its source with the profile and the Zabbix host the source needs
(`SaveDevice`, `Accepted`). A poll (`StartPoll`) lists the devices of both sources
once and commits after each of them, so every later step reads the device again:
`SkipDevice` if it cannot be asked any more, `ReadDevice` (the adapter answers and
the alerts of the source are loaded) and `Ingest`, the commit, between which forms
and retention run. `Told` keeps what the adapters do with missing answers: Zabbix
without `problem.get` tells of no problems, SNMP without the status of none. A
Zabbix answer that is not JSON raises out of the adapter (`Breaks`), and the poll
skips the device.
Incidents of Zabbix have an eventid of their own and never come back; SNMP alert
types do, and reuse their row, which retention may have deleted meanwhile.

### Trends

`level` is the history of a supply, `raw` the rows that retention has left of it,
`daily[d]` the samples the row of day d was computed from. Retention reads
(`SelectOld`) and then writes the daily rows and deletes in one commit (`Purge`).
The estimate works on averages multiplied by a common unit (`Unit`, a multiple of
every number of samples a day can have) and on the numerator of the least-squares
slope, so that it is exact in integers; the date itself, a division of two of these
numbers, is left out. The property does not repeat the least squares: it compares
every two days (`Drops`) and finds the replacement by looking at neighbouring days
(`SinceRise`), while the code keeps the index of the last one.

### Tariffs

The discovery reads (`Discover`) and commits (`CommitDiscovery`). A run of the
collector looks up the site and print server (`LookUpServer`), commits them on its
first run with its cursor and fetches the events (`StartRun`), looks up the queue and
the tariff of one event after the other (`ReadEvent`), and records all of them in one
commit (`CommitRun`), so that one lost race for a queue costs the run all its events.
`RowOf` is the row the session holds: the second event of a queue sees it as the first
one did. Site and print server are one flag, `server`, because the code inserts them
together. A charge names what decided it, not the amount. The pattern match of the old
price list is the constant `Listed`. The clock is the local one, and `Ahead` its offset:
events are converted to UTC (`NaiveUtc`), the dates of the form are not. `Tariffs` and
`Departments` say of the same job what it costs and who bears it; they have no row in
common, and their names are distinct so that one module can extend both.

### Departments

Forms that read and write one row are one step; deleting a department
(`CountReferring`, `CommitDelete`) and applying the rules (`PlanRules`,
`ApplyRules`) are two, and jobs and the CSV script commit between them. `late` are
the rows that appear after the UPDATEs that move rows and before the DELETE: a
foreign key keeps the department for those that have one. `Exact` and `Qualified`
are the two forms of a name that the lookup tries. Requests of several threads
overlap. `LocksSpec` leaves out one kind of step, the locking of a card that a waiting
application will write; `CalmSpec` those in which a form changes a card, a group or a
rule while a plan waits. `Deleters` bounds the threads that delete.

### Administrators

A request reads, decides (`Check…`) and commits; `Written` is again the column-wise
UPDATE. Foreign keys keep a user that sessions or audit entries refer to. The login
commits the failed attempt, the cleared counters and the session separately. The
two console scripts insert a first superadmin beside all this. Requests of several
threads overlap. Two kinds of steps are known to spoil the promises and are named:
`TakenMeanwhile`, a superadmin taken away between the count and the commit of another
request that takes one away, and `Overtaken`, a commit that changes a column another
request has loaded. `TakeSpec` leaves out the first, `LoadSpec` the second, `CalmSpec`
both. `Mistyped` bounds the rows whose password is tried wrong.

## 3. Runs

Every passing run finishes within four minutes with two workers.

| Run | Instance | What it shows |
|---|---|---|
| `agent_sync_overlap` | 3 jobs of 2 queues, one of them new; a scheduled and a manual run, 2 request threads, batches of 2, deadlocks, 1 fault, database errors | no job twice; the refinement of `JobDelivery` |
| `agent_sync_live` | the scheduled run alone; a malformed job and an invalid one among 3 of a known queue, batches of 2, 2 request threads, 2 faults | a row fails only by a refusal of its own; every valid job arrives, every well-formed row settles |
| `collector_overlap` | 4 events in a log of 3, an unreadable one, batches of 2, two runs, a failure | no job twice, nothing left behind, every event handled |
| `endpoint_overlap` | 3 events of 2 queues, one of them new; service and `--once`, 2 request threads, 1 fault, database errors | cursor, no event twice, refinement |
| `endpoint_live` | the service alone; a malformed, an excluded and a poisoned event among 4 of a known queue, 2 request threads, 2 faults: time-outs, crashes, a disabled agent | a row fails only by a refusal of its own; every well-formed event becomes a job unless the poisoned one ends the cycles |
| `monitoring_sync` | 1 sample and 2 alerts of a device, batches of 1, 2 polls, 1 fault | the sample cursor and the composite cursor, with partial refusals, retention and stray requests; samples and resolutions arrive |
| `polling_alerts` | 1 device, 1 profile, 2 Zabbix incidents and an SNMP alert, every source, answers that are complete, partial, missing or no JSON, 1 fault | a commit shows what the reading told; alerts end up following the device |
| `trends_retention` | 3 days of 2 samples, 3 levels, retention after 1 tick | the daily trend knows the last sample of every day it has lost samples of; a date exactly for a falling level |
| `tariffs_race` | 1 queue, 2 jobs, 2 rules of 3 kinds (general, until a day, from that day), a clock ahead of UTC, collector and discovery | the documented tariff; kept settings; every job is charged |
| `departments_forms` | 2 departments, 1 card, 2 groups with rules of equal or different priority, 1 job, CSV, 2 threads of which one deletes (`CalmSpec`) | deletion moves everything; locked cards; the rule nothing outranks |
| `administrators_calm` | 3 rows of 2 logins, 2 sessions, 2 overlapping requests, 1 login and 1 console at a time (`CalmSpec`) | the last superadmin, sessions, audit log, temporary passwords |

One run checks a statement that the code does not keep; the finding in
`PROJECT.json` quotes it.

| Run | Counterexample |
|---|---|
| `monitoring_reopened` | the centre never reopens an alert |

Further disagreements, which the modules contain and a change of constants or a
property of one line exhibits, without a run of their own:

* *Two superadmins remove each other* (`printaudit/admin_users.py:184` against
  `README.md:49`). Under `Spec`, with two threads in `Requests`, `SuperadminRemains`
  fails: each request counts the other as the one who stays.
* *An audit entry of a row that has changed* (`printaudit/admin_users.py:66` against
  `printaudit/audit.py:56`). A re-assignment has loaded `is_active = TRUE`, another
  request disables the user and commits, the re-assignment commits: the ORM does not
  write the column, which did not change for it, and its entry says *active* of a row
  that is disabled. Under `Spec`, with two threads, `AuditTellsState` fails.
* *A valid job fails for a new queue* (`webapp/agent_api.py:323` against
  `printaudit/models.py:569-571`). Two requests look the queue up and insert it; the
  loser's job is answered *rejected*, becomes `failed` and is stored nowhere.
* *A valid event fails for a new printer* (`webapp/endpoint_api.py:208` with
  `printaudit/printers/resolver.py:73-92`, against `endpoint_agent/outbox.py:5-8`): the
  same race between an abandoned request and a later batch, and *rejected* is terminal.
* *The victim of a deadlock fails* (`webapp/agent_api.py:352` and
  `webapp/endpoint_api.py:233`). Two batches that update the same queues in different
  order wait for each other; the statement the database fails (`EndDeadlock`) is
  answered *rejected*, and the job becomes `failed` although it is valid.
* *A malformed job is sent for ever* (`webapp/agent_api.py:124` and
  `collector/agent_sync.py:514` against `collector/agent_sync.py:46-48`). A batch with
  it is answered 422 as a whole, all of its rows stay `pending`, and there is no limit
  of attempts. The neighbours arrive once the jitter of the backoff separates them,
  but manual runs that overlap without end could keep them together. The same holds of
  a PC's events.
* *One record_id for two jobs* (`collector/agent_sync.py:162` against
  `webapp/endpoint_api.py:7-11`). A Print Server event and an endpoint event of one
  site may share it: the second is a *duplicate*, so delivered, and not stored. The
  runs and theorems assume `KeysDistinct`.
* *A device that was never announced* (`collector/agent_sync.py:256` against
  `254-255`). A sample of a device switched off before its first synchronisation is
  refused in every batch, and the refusal holds back every cursor of the site:
  `EverySampleStored` fails without its hypothesis.
* *Rejected although stored* (`webapp/agent_api.py:352`). An abandoned request
  and its retry are served together; the retry loses on the UNIQUE constraint,
  is answered *rejected* and becomes `failed`, although the job is stored and
  `webapp/agent_api.py:12-15` promises *duplicate*. Two actions of `AgentSync`
  do it: `Insert` with a collision, then `ApplyAnswers`.
* *Delivered is not final when runs overlap* (`collector/agent_sync.py:514`
  against `46-48`). `DeliveredIsFinal` fails with two runs and `DbErrors`: the
  answers are written to the rows a run fetched, whatever their status is by now.
* *A page count that is not a number* (`endpoint_agent/capture.py:104` against
  `85-86`) raises out of `Capture` in every cycle, so nothing behind such an
  event is captured; nor is anything sent that had been captured before, as the
  exception leaves the cycle ahead of `sync_cycle`. The collector catches the same error.
* *A passing database error is terminal* (`webapp/endpoint_api.py:233` against
  `endpoint_agent/outbox.py:5-8`): `InsertFails` answers *rejected*.
* *A late answer does not back off* (`endpoint_agent/sync_client.py:39-41`):
  `Timeout` leaves its rows due.
* *Ids that come again* (`printaudit/monitoring/retention.py:83` against
  `collector/agent_sync.py:242-243`). SQLite gives the greatest present id plus
  one; with `ReuseIds = TRUE` retention may empty a table, ids start again below
  the cursor and `CursorCovers` fails.
* *Ids that commit out of order* (`collector/agent_sync.py:270`). With two
  pollers the smaller id may become visible after the cursor has passed it, and
  `CursorCovers` fails.
* *A mixed cursor* (`collector/agent_sync.py:445` against
  `printaudit/models.py:177-184`). With two runs the column-wise UPDATE may leave
  the time of one and the id of the other, and `AlertsCovered` fails.
* *A reading without problems* (`printaudit/monitoring/zabbix_adapter.py:143-146`
  against `printaudit/models.py:750-751`, never "healthy by default"). If
  `problem.get` fails, the reading has no problems and every open alert is resolved.
* *Alerts of a former source* (`printaudit/monitoring/ingest.py:107`) stay open after
  a device has been switched to another source; `AlertsFollow` speaks of the
  source the device ends up with.
* *A Zabbix answer that is not JSON* (`printaudit/monitoring/zabbix_adapter.py:65-67`)
  is no HTTP error: it ends the poll of the device as a failure (`Breaks`) instead of
  an unreachable reading.
* *An inactive profile* is refused by the form (`webapp/admin_routes.py:810`) but goes
  on being used by polls of devices that have it.
* *The second part of a day* (`printaudit/monitoring/retention.py:68-71` against `39`,
  "Строит/дополняет", and `docs/PRINTER_MONITORING_FORECASTING.md:152-153`). The row of
  a day that was purged in two parts has the minimum, average, maximum and count of
  the second part alone. `TrendKept` states what remains true.
* *An old "current level"* (`printaudit/forecasting/supply.py:82-87`). The date counts
  from today, but daily rows exist only of days that retention has reached.
* *The CSV script recomputes all jobs* (`scripts/sync_users_departments.py:71-82`
  against `11-14`): also those whose department came from AD.
* *A card without a department* hides the CSV row (`printaudit/department_resolver.py:139`
  against `printaudit/models.py:59-61`).
* *A tie that is not reported* (`printaudit/department_resolver.py:56-65` against `9-13`),
  if the winner is the department the user has.
* *A department with a rule* cannot be deleted (`webapp/admin_routes.py:331-335`): the
  rules are not counted, and their foreign key fails the request, although the form
  offers to move everything.
* *A card locked after the plan* (`printaudit/department_resolver.py:104-120` against
  `4-5`) is overwritten by the application of the rules: under `Spec`, with two threads,
  `LockedUntouched` fails, and with a group or a rule changed in between
  `AppliedOutranks`.
* *A tariff begins at midnight UTC* (`webapp/admin_routes.py:81-82` with
  `printaudit/printers/resolver.py:98-118`). The day of the form is stored as typed and
  compared with the time of the event in UTC, so a period begins and ends as many hours
  later than the local midnight as the site is ahead of UTC. `ChargedAsDocumented`
  counts in UTC.
* *The row of a scope* (`printaudit/forecasting/pipeline.py:52` against `10-11`): two
  computations that overlap both insert it for the organisation, whose id is NULL.

**Bounds.** `MaxFaults` bounds lost requests, time-outs, crashes, disablings and
(with `DbErrors`) database errors together. One fault abandons a request, which with
the second run, the second request thread and the new queue is what every race needs
(`agent_sync_overlap`, `endpoint_overlap`); two suffice for an abandoned request plus a
crash of either side during its retry (`agent_sync_live`, `endpoint_live`). The proofs
cover both at once. Two runs and two request threads are the smallest number in which
each kind of race occurs; a third request could only be another abandoned one.
Batches are smaller than the number of rows so that a batch ends between rows.
`MaxPolls` bounds the times an alert changes. In `trends_retention` three days are
what a replacement between two falling days needs, and a day of two samples is cut
in its middle; `MaxTime` ends the clock before the lookback drops a day. In
`departments_forms` and `administrators_calm` two threads serve the requests of
several steps, the smallest number that overlaps; one of them deletes departments
(`Deleters`), the rule of one group is switched on and off and that of the other has
an equal or a higher priority (`OfferedForms`), and only one row has its password tried
wrong (`Mistyped`), since the counters of different rows are independent. `tariffs_race` has two ids for three forms
of a rule, so that every pair of them is compared, a day that begins in UTC one tick
after it begins locally, and two jobs of one queue, so that a run holds a row it read
for the first when it gets to the second; `polling_alerts` needs two incidents so that
one can be resolved
while the other is opened.

`CHECK_DEADLOCK FALSE` appears only in the monitoring runs: after `MaxPolls`
polls nothing is left to do once every row is sent.

**Fairness.** Scheduled runs start every few minutes and, once started, go on
(`deploy/register_*_task.ps1`): weak fairness of their steps. Time passes: weak
fairness of the end of a backoff. A posted request is served although others
keep arriving (the thread pool serves in order): strong fairness of `Send`. A
request thread that can go on does, and the database ends a deadlock. Nothing is
assumed of operators, administrators, polling, retention, abandoned requests or
faults, except that the latter are finitely many.

`JitterSeparates` is needed where a malformed row makes the centre or the site refuse
whole batches. The backoff of a row grows to 1800 s and has up to 540 s of its own
drawn at random at every failure (`collector/agent_sync.py:85-123`,
`endpoint_agent/runner.py:21-28`), while runs start every one or two minutes and cycles every 300 s: again and again a
valid row is due, and a run finds it so, while no malformed row is due. It is assumed
of a scheduled run that no manual run overlaps, so the live runs have none; a manual
run that is repeated for ever may spoil it.

The liveness properties state as hypotheses what they need besides: the server is
enabled again and again (`[]<>enabled`), no poisoned event is printed, or the devices
end up monitored (`<>[]polled[d]`). In `agent_sync_live` and `endpoint_live` the queue
is known, and no database error occurs: the race for a new queue, a deadlock and an
error fail a valid job for good, as the disagreements above say.

`Tariffs` assumes weak fairness of the collector, a scheduled task; nothing of the
discovery, which may win every race it takes part in, and the job still settles,
because rows once inserted stay. `Polling` assumes weak fairness of the poll's own
steps: it starts every five minutes and all its requests have time-outs; its faults
are finitely many. `Trends`, `Departments` and `Administrators` state safety only:
what they would owe depends on people.

## 4. Proofs

TLAPS checks the following for every value of the constants that satisfies the
named assumptions of the module (sets of any size, any number of runs, request
threads, batches, faults).

| Module | Theorem | States |
|---|---|---|
| `AgentSync_proofs` | `TypeCorrect`, `InvariantHolds` | `TypeOK`, the invariant `IInv` |
| | `NeverStoredTwice`, `DeliveredStored` | `StoredOnce`, `DeliveredIsStored` |
| | `FailuresWereJudged` | `FailedWasJudged` |
| | `SerialRunsDeliverForGood` | `DeliveredIsFinal`, if there is only one run |
| | `Implements` | `Spec => DeliverySpec` |
| `Collector_proofs` | `TypeCorrect`, `NothingLeftBehind`, `NoEventTwice` | `TypeOK`, `CursorCovers`, `JobsOnce` |
| `EndpointAgent_proofs` | `TypeCorrect`, `NothingLeftBehind`, `NeverStoredTwice`, `SentStored`, `FailuresWereJudged`, `Implements` | `TypeOK`, `CursorCovers`, `StoredOnce`, `SentIsStored`, `FailedWasJudged`, `Spec => DeliverySpec` |
| `MonitoringSync_proofs` | `TypeCorrect` | `TypeOK` |
| | `SamplesNotSkipped` | `CursorCovers`, with one poller and ids never given twice, any number of runs |
| | `AlertsNotSkipped` | `AlertsCovered`, with one poller and one run |
| `Polling_proofs` | `TypeCorrect`, `ReadingIsShown` | `TypeOK`, `IngestedIsShown` |
| `Trends_proofs` | `TypeCorrect`, `TrendIsKept`, `DatesMeanFalling` | `TypeOK`, `TrendKept`, `DateMeansFalling` |
| `Charging_proofs` | `TypeCorrect`, `NoneLost` | `TypeOK`, `DeletionMovesAll` of `Departments` |
| | `LockedStays` | `LockedUntouched`, under `LocksSpec` |
| | `AppliedRuleOutranks` | `AppliedOutranks`, under `CalmSpec` |
| | `TariffsTypeCorrect`, `ChargesAreDocumented`, `SettingsStay` | `TariffsTypeOK`, `ChargedAsDocumented`, `SettingsKept` |
| `Administrators_proofs` | `TypeCorrect`, `SessionsKeepUsers`, `TemporaryPasswordsUnused` | `TypeOK`, `SessionsHaveUser`, `TemporaryPasswordUnused` |
| | `SuperadminStays` | `SuperadminRemains`, under `TakeSpec` |
| | `AuditAgrees` | `AuditTellsState`, under `LoadSpec` |

The extra hypotheses are exactly the circumstances section 3 shows to matter:
`KeysDistinct` (one record_id for two jobs), one run (delivered is not final, the
mixed cursor), one poller (ids that commit out of order), no reused ids (ids that
come again), and four specifications that leave out a kind of step and nothing else:
`TakeSpec` (superadmins who remove each other), `LoadSpec` (a loaded column that
another request changes), `LocksSpec` (a planned card that is locked) and `CalmSpec` of
`Departments` (a form that changes what a waiting plan was made from). Every theorem is
of any number of threads, runs and logins that overlap, if it does not say one run or
one poller.

*Job delivery.* `DeliveredIsStored` is not inductive: it must be known of the
answers a run holds, and before that of the answers a transaction is building
when the row is not committed yet. `AckInv` says that a positive answer inside a
request is backed by a committed row or by an uncommitted row of that very
request (never of another one, which might be rolled back), and a positive
answer in a run by a committed row. For that, transactions must own disjoint
rows that are not stored (`UncommittedInv`), `stored` must be at most one
(`StoredInv`), and everything in flight must have been recorded (`RecordedInv`,
needed for the refinement). The endpoint agent's invariant has the same parts.

*Cursors.* `CursorCovers` is not inductive because a run that started with an
older cursor may still write it, or its own next one: the invariants state the
same of every cursor value a run holds. For monitoring, `Passed(c, B)` says that
rows up to c are stored or among the batch B of a request under way, and
`RowsOrdered` that ids are given in the order of commits, which is where one
poller and fresh ids are needed. The alert cursor additionally needs that the
value a run loaded is still the stored one (one run), so that a column-wise write
yields the pair the run computed.

*Alerts.* `IngestedIsShown` compares what a commit writes with what the reading
told, but the commit decides by the rows it had loaded. `LoadedInv` says how far
those may be out of date: a loaded row is as it was, or it was "old" and
retention has deleted it; that an open row is never deleted is what makes the two
agree. That no alert is without its device needs that a poll is only ever about
devices there are (`TodoInv`).

*Departments.* `DeletionMovesAll` follows from the step alone once the rows a
deletion holds are known to be of the type they had (`MovedIs`): a job or a card
that comes too late is caught by its foreign key, and whatever else there is goes
to a target that is present, which the commit checks again. `LockedUntouched` and
`AppliedOutranks` are about a plan that is applied later. `PlannedUnlocked` says that
no card of a waiting plan is locked, which every step keeps but the one `LocksSpec`
leaves out. `PlansRight` says that a waiting plan is still the one that would be made
now, of every card, with its change or without: other applications write what this one
would, a department with a rule cannot be deleted, and a new card is in no group.

*Tariffs.* `DiscoveryShape` says how far the rows a discovery loaded may be out of
date: a loaded queue is still there. The discovery writes one field of such a row,
and inserts a row only where there is none, which its commit verifies, so no
setting is lost (`SettingsKept`). A charge is decided in one step, from the rules as
they are in it; rules are created one at a time, so they are finitely many
(`RulesShape`), and a first one can be chosen. The rows a run holds may be older, but
they decide nothing about rules (`CollectorShape` gives their type).

*The first rule.* Both `Departments` and `Tariffs` take the first element of a
finite set in an order by priority. That there is one is `FirstExists`: the sets
of what comes before an element are well-founded under strict inclusion, so one of
them is minimal, and it is empty. `ChargedAsDocumented` and `AppliedOutranks`
follow from the order (`FirstOutranks`, `WinnerOutranks`).

*Accounts.* A request carries an actor from its entry to its commit, so
`TemporaryPasswordUnused` needs that nobody who has a row gets a temporary
password (`ActorInv`, `Kept`) and that nothing is known of a row before it is
inserted (`UnusedInv`). `TakeInv` says that a request that may take a superadmin away
always finds another one, which under `TakeSpec` no other commit removes; logins do not
touch roles and the scripts only add rows. `LoadedInv` says that what an update or a
disabling has loaded is still in the row when it commits, or the row is gone, so that
the columns the ORM leaves out are as the audit entry says.

*Trends.* A run of retention selects everything older than its cutoff and polls
only add what is newer (`SelectedInv`), so whatever is purged is older than
whatever is left (`PurgedInv`). The part of a day that is purged last therefore
holds the latest sample the day has lost, and replacing the row of the earlier
part does no harm to the trend.

*The exhaustion.* The least-squares slope is negative exactly if n·Σxy < Σx·Σy, and
the drops over all two days of the trend, each weighed by its distance, add up to
2(Σx·Σy − n·Σxy) (`SlopeSign`). This needs sums of linear combinations over a set of
any size (`SumOfCombination`). The sum of the library is a recursive function on
subsets: `SumExists` shows that there is such a function, `SumsAgree` that its value
does not depend on the set around, and `SubsetsByInduction` is the induction
over the subsets of a finite set, stated for a set of subsets instead of a
predicate, so that it can be instantiated. `AverageType` relates a positive average
to a sample above 0: a day has at most `DayLength` samples, so the unit is not too
small. `TrendDaysAre` identifies the days since the last reset.

*Model-checked only:* the liveness properties (fairness and ENABLED are outside
the prover's reach) and the violation run. Every invariant and every action
property of a passing run is a theorem, in some cases with the hypotheses above.

## 5. Not modelled, and why

* LDAP, SNMP, Zabbix, PowerShell and HTTP themselves: input and output.
* Values that no property distinguishes: document names, amounts, page counts,
  severities, the length of a backoff, log texts.
* Read-only pages and reports; the forms of sites, print servers and endpoint agents
  except the switches other components depend on; the links between devices and
  queues, which only pages read.
* The status of a print server: a comparison of three stamps with the clock. Each
  stamp has one endpoint that overwrites it, so no order of events is wrong.
* The forecasts of load and the risk of downtime: floating-point models of series,
  computed in one pass over committed rows.
* Migrations and installation scripts: run once, by hand.
* Losses the code accepts by design: events overwritten in a full log before a
  run reads them, events skipped because the field map does not fit, samples
  older than the retention window that were never sent.

## 6. Plan

1. *(done)* `JobDelivery`, `AgentSync`, `Collector`, `EndpointAgent`, `MonitoringSync` with proofs.
2. *(done)* `Polling`, `Trends`, `Tariffs`, `Departments`, `Administrators` with their runs.
3. *(done)* proofs about `Polling`, `Trends`, `Departments`, `Tariffs` and
   `Administrators`.
4. *(open)* `Pipeline`: PC → site → centre as one composition, the two `JobDelivery`
   refinements chained: an event a PC marks sent has an outbox row at the site. Each
   half is proved above; what the composition adds is the outbox row that the endpoint
   API writes in the transaction of the job.
