---------------------------- MODULE MonitoringSync ----------------------------
(***************************************************************************)
(* Printer monitoring data on its way from a site to the central server:   *)
(* collector/monitor_printers.py writes samples and alerts of the polled   *)
(* devices (printaudit/monitoring/ingest.py), sync_monitoring_data of      *)
(* collector/agent_sync.py sends what lies beyond a cursor, and the POST   *)
(* /api/v1/agent/monitoring/batch handler of webapp/agent_api.py stores    *)
(* it.  Retention deletes old rows of the site (monitoring/retention.py).  *)
(*                                                                         *)
(* Unlike print jobs, samples have no status of their own: a row whose id  *)
(* is not greater than the cursor is never sent again.                     *)
(*                                                                         *)
(* Abstracted: the three sample tables (health, counter, supply) are one,  *)
(* since each has a cursor of the same kind and all cursors advance        *)
(* together; measured values; severity and message of an alert; the time   *)
(* an alert was opened.  The handler is one step: it commits once, its     *)
(* effects on different rows are independent, and of two requests that     *)
(* insert the same row the later fails as a whole (Refuse).                *)
(***************************************************************************)
EXTENDS Naturals, FiniteSets, Batches

CONSTANTS
    Devices,     \* physical printers of the site
    Samples,     \* readings that polls produce, each stored in one row
    Alerts,      \* alert rows of the site, named by printer_alerts.id
    DeviceOf,    \* DeviceOf[x] is the device of sample or alert x
    Pollers,     \* processes running monitor_printers.run_once
    Runs,        \* processes running agent_sync.run_once
    NoDevice,    \* a poller between two devices
    NoSample,    \* a poll repeated within the minute adds no row
    MaxBatch,    \* MAX_MONITORING_ITEMS_PER_BATCH
    ReuseIds,    \* SQLite: the next id is the greatest present id plus one
    MaxPolls,    \* bound: how many polls take place
    MaxFaults    \* bound: how often the environment fails

ASSUME DeviceAssumption ==
    /\ DeviceOf \in [Samples \cup Alerts -> Devices]
    /\ NoDevice \notin Devices /\ NoSample \notin Samples
ASSUME AlertAssumption == Alerts \subseteq Nat
ASSUME IdsAssumption == ReuseIds \in BOOLEAN
ASSUME BoundAssumption == MaxBatch \in Nat \ {0} /\ MaxPolls \in Nat /\ MaxFaults \in Nat

Cursors == [sample : Nat, time : Nat, alert : Nat]
Requests == [devices : SUBSET Devices, samples : SUBSET Samples,
             open : SUBSET Alerts, closed : SUBSET Alerts, upto : Cursors]
Start == [sample |-> 0, time |-> 0, alert |-> 0]
NoRequest == [devices |-> {}, samples |-> {}, open |-> {}, closed |-> {}, upto |-> Start]

VARIABLES
    \* the site's tables
    polled,    \* the device is active and its source is Zabbix or SNMP
    row,       \* the row of a sample
    id,        \* its id, 0 without a row
    lastId,    \* the id the sequence gave last
    alert,     \* the row of an alert: resolved_at is NULL ("open") or not
    stamp,     \* PrinterAlert.updated_at
    cursor,    \* monitoring_sync_state of the site
    clock,     \* utcnow(): the time of the latest poll
    \* the polling processes
    list,      \* devices the poller still has to visit
    busy,      \* the device whose transaction it has open
    held,      \* the sample that transaction inserts
    at,        \* the updated_at it gives to the alerts it changes
    \* the synchronising processes
    pc,        \* what each run does next
    loaded,    \* the cursor as the run read it
    request,   \* what the run sends
    \* the centre
    stray,     \* requests still under way that no run waits for
    known,     \* devices registered at the centre
    stored,    \* samples in its tables
    shown,     \* its row of each alert
    faults     \* environment failures so far

siteVars == <<polled, row, id, lastId, alert, stamp, clock>>
pollVars == <<list, busy, held, at>>
runVars  == <<pc, loaded, request>>
centreVars == <<stray, known, stored, shown>>
vars == <<siteVars, cursor, pollVars, runVars, centreVars, faults>>

AlertStates == {"absent", "open", "closed"}

Types ==
    /\ polled \in [Devices -> BOOLEAN]
    /\ row    \in [Samples -> {"absent", "held", "here", "purged"}]
    /\ id     \in [Samples -> Nat]
    /\ lastId \in Nat
    /\ alert  \in [Alerts -> AlertStates]
    /\ stamp  \in [Alerts -> Nat]
    /\ cursor \in Cursors
    /\ clock  \in Nat
    /\ list   \in [Pollers -> SUBSET Devices]
    /\ busy   \in [Pollers -> Devices \cup {NoDevice}]
    /\ held   \in [Pollers -> Samples \cup {NoSample}]
    /\ at     \in [Pollers -> Nat]
    /\ pc     \in [Runs -> {"idle", "devices", "wait", "accepted", "partly", "error"}]
    /\ loaded \in [Runs -> Cursors]
    /\ request \in [Runs -> Requests]
    /\ stray  \subseteq Requests
    /\ known  \subseteq Devices
    /\ stored \subseteq Samples
    /\ shown  \in [Alerts -> AlertStates]
    /\ faults \in 0 .. MaxFaults

(* A flushed row belongs to the transaction that a poller has open. *)
HeldRows ==
    /\ \A s \in Samples : row[s] = "held" => \E p \in Pollers : held[p] = s
    /\ \A p \in Pollers : busy[p] = NoDevice => held[p] = NoSample

(* Types, and no row is left flushed after its transaction (a poll that     *)
(* fails is rolled back before the next device).                           *)
TypeOK == Types /\ HeldRows

Init ==
    /\ polled \in [Devices -> BOOLEAN]
    /\ row = [s \in Samples |-> "absent"]
    /\ id = [s \in Samples |-> 0]
    /\ lastId = 0
    /\ alert = [a \in Alerts |-> "absent"]
    /\ stamp = [a \in Alerts |-> 0]
    /\ cursor = Start
    /\ clock = 0
    /\ list = [p \in Pollers |-> {}]
    /\ busy = [p \in Pollers |-> NoDevice]
    /\ held = [p \in Pollers |-> NoSample]
    /\ at = [p \in Pollers |-> 0]
    /\ pc = [r \in Runs |-> "idle"]
    /\ loaded = [r \in Runs |-> Start]
    /\ request = [r \in Runs |-> NoRequest]
    /\ stray = {}
    /\ known = {}
    /\ stored = {}
    /\ shown = [a \in Alerts |-> "absent"]
    /\ faults = 0

Fault == faults < MaxFaults /\ faults' = faults + 1

-----------------------------------------------------------------------------
(* Polling *)

(* An administrator changes a device's monitoring source. *)
SetSource(d) ==
    /\ polled' = [polled EXCEPT ![d] = ~polled[d]]
    /\ UNCHANGED <<row, id, lastId, alert, stamp, clock, cursor, pollVars, runVars, centreVars, faults>>

(* The devices of both sources are listed once, when a run begins. *)
StartPoll(p) ==
    /\ list[p] = {} /\ busy[p] = NoDevice
    /\ list' = [list EXCEPT ![p] = {d \in Devices : polled[d]}]
    /\ UNCHANGED <<siteVars, cursor, busy, held, at, runVars, centreVars, faults>>

(* A device that is not configured for its source, or whose reading fails,  *)
(* is passed over; so are those left when the run dies.                    *)
Skip(p, d) ==
    /\ busy[p] = NoDevice /\ d \in list[p]
    /\ list' = [list EXCEPT ![p] = @ \ {d}]
    /\ UNCHANGED <<siteVars, cursor, busy, held, at, runVars, centreVars, faults>>

(* n is the id that the next inserted sample gets. *)
IsNextId(n) ==
    IF ReuseIds
    THEN /\ \A s \in Samples : row[s] = "here" => id[s] < n
         /\ n = 1 \/ \E s \in Samples : row[s] = "here" /\ id[s] + 1 = n
    ELSE n = lastId + 1

(* The reading of one device is flushed; other connections do not see it    *)
(* yet.  SQLite lets one transaction write at a time; two runs that poll    *)
(* one device within a minute collide on the UNIQUE key.                   *)
Ingest(p, d) ==
    /\ busy[p] = NoDevice /\ d \in list[p] /\ clock < MaxPolls
    /\ \A o \in Pollers : busy[o] # d /\ (ReuseIds => busy[o] = NoDevice)
    /\ busy' = [busy EXCEPT ![p] = d]
    /\ clock' = clock + 1
    /\ at' = [at EXCEPT ![p] = clock + 1]
    /\ \/ UNCHANGED <<row, id, lastId, held>>
       \/ \E s \in Samples, n \in 1 .. MaxPolls :
            /\ row[s] = "absent" /\ DeviceOf[s] = d /\ IsNextId(n)
            /\ row' = [row EXCEPT ![s] = "held"]
            /\ id' = [id EXCEPT ![s] = n]
            /\ lastId' = n
            /\ held' = [held EXCEPT ![p] = s]
    /\ UNCHANGED <<polled, alert, stamp, cursor, list, runVars, centreVars, faults>>

(* The poller is done with its current device. *)
Leave(p) ==
    /\ list' = [list EXCEPT ![p] = @ \ {busy[p]}]
    /\ busy' = [busy EXCEPT ![p] = NoDevice]
    /\ held' = [held EXCEPT ![p] = NoSample]
    /\ at' = [at EXCEPT ![p] = 0]

(* The row of alert a after a poll of device d that reported the problems C. *)
Reconciled(a, d, C) ==
    IF a \in C THEN "open"
    ELSE IF DeviceOf[a] = d /\ alert[a] = "open" THEN "closed"
    ELSE alert[a]

(* Slip: closing or reopening an alert does not touch updated_at. *)
CommitPoll_KeepsStamp(p) ==
    /\ busy[p] # NoDevice
    /\ row' = [s \in Samples |-> IF s = held[p] THEN "here" ELSE row[s]]
    /\ \E C \in SUBSET {a \in Alerts : DeviceOf[a] = busy[p]} :
        /\ alert' = [a \in Alerts |-> Reconciled(a, busy[p], C)]
        /\ stamp' = [a \in Alerts |-> IF alert[a] = "absent" /\ a \in C THEN at[p] ELSE stamp[a]]
    /\ Leave(p)
    /\ UNCHANGED <<polled, id, lastId, clock, cursor, runVars, centreVars, faults>>

CommitPoll(p) ==
    /\ busy[p] # NoDevice
    /\ row' = [s \in Samples |-> IF s = held[p] THEN "here" ELSE row[s]]
    /\ \E C \in SUBSET {a \in Alerts : DeviceOf[a] = busy[p]} :
        /\ alert' = [a \in Alerts |-> Reconciled(a, busy[p], C)]
        /\ stamp' = [a \in Alerts |->
                        IF Reconciled(a, busy[p], C) # alert[a] THEN at[p] ELSE stamp[a]]
    /\ Leave(p)
    /\ UNCHANGED <<polled, id, lastId, clock, cursor, runVars, centreVars, faults>>

(* Slip: nothing is rolled back before the run goes on with the next one. *)
RollbackPoll_KeepsRow(p) ==
    /\ busy[p] # NoDevice /\ Fault
    /\ Leave(p)
    /\ UNCHANGED <<polled, row, id, lastId, alert, stamp, clock, cursor, runVars, centreVars>>

(* The device's transaction is rolled back; the run goes on with the next. *)
RollbackPoll(p) ==
    /\ busy[p] # NoDevice /\ Fault
    /\ row' = [s \in Samples |-> IF s = held[p] THEN "absent" ELSE row[s]]
    /\ id' = [s \in Samples |-> IF s = held[p] THEN 0 ELSE id[s]]
    /\ Leave(p)
    /\ UNCHANGED <<polled, lastId, alert, stamp, clock, cursor, runVars, centreVars>>

(* The daily clean-up deletes the oldest samples (sent or not: up to id n)  *)
(* and alerts resolved long ago.                                           *)
Old(s, n) == row[s] = "here" /\ id[s] <= n

Retention ==
    /\ \E n \in 0 .. MaxPolls, A \in SUBSET {a \in Alerts : alert[a] = "closed"} :
        /\ row' = [s \in Samples |-> IF Old(s, n) THEN "purged" ELSE row[s]]
        /\ id' = [s \in Samples |-> IF Old(s, n) THEN 0 ELSE id[s]]
        /\ alert' = [a \in Alerts |-> IF a \in A THEN "absent" ELSE alert[a]]
        /\ stamp' = [a \in Alerts |-> IF a \in A THEN 0 ELSE stamp[a]]
    /\ UNCHANGED <<polled, lastId, clock, cursor, pollVars, runVars, centreVars, faults>>

-----------------------------------------------------------------------------
(* Synchronisation *)

(* The run reads the cursor, then the devices it will send. *)
ReadDevices(r) ==
    /\ pc[r] = "idle"
    /\ pc' = [pc EXCEPT ![r] = "devices"]
    /\ loaded' = [loaded EXCEPT ![r] = cursor]
    /\ request' = [request EXCEPT ![r].devices = {d \in Devices : polled[d]}]
    /\ UNCHANGED <<siteVars, cursor, pollVars, centreVars, faults>>

UnsentIds(c) == {id[s] : s \in {s \in Samples : row[s] = "here" /\ id[s] > c.sample}}

(* Alert a lies beyond the composite cursor c. *)
Beyond(a, c) == stamp[a] > c.time \/ (stamp[a] = c.time /\ a > c.alert)

(* Slip: alerts are selected by time alone. *)
UnsentAlerts_TimeOnly(c) == {a \in Alerts : alert[a] # "absent" /\ stamp[a] > c.time}

UnsentAlerts(c) == {a \in Alerts : alert[a] # "absent" /\ Beyond(a, c)}

Before(a, b) == stamp[a] < stamp[b] \/ (stamp[a] = stamp[b] /\ a < b)

(* A is the batch of the first MaxBatch alerts of U, z the last one of it. *)
IsFirstAlerts(A, U) ==
    /\ A \subseteq U
    /\ \/ Cardinality(A) = MaxBatch
       \/ A = U /\ Cardinality(U) < MaxBatch
    /\ \A a \in A, b \in U \ A : Before(a, b)

(* The samples with the ids I and the alerts A, up to the cursor c. *)
Body(r, I, A, c) ==
    [request[r] EXCEPT !.samples = {s \in Samples : row[s] = "here" /\ id[s] \in I},
                       !.open = {a \in A : alert[a] = "open"},
                       !.closed = {a \in A : alert[a] = "closed"},
                       !.upto = c]

(* The run is over. *)
EndRun(r) ==
    /\ pc' = [pc EXCEPT ![r] = "idle"]
    /\ loaded' = [loaded EXCEPT ![r] = Start]
    /\ request' = [request EXCEPT ![r] = NoRequest]

(* The rows beyond the cursor and the cursor that follows them; a run that  *)
(* finds nothing sends nothing, not even the devices.                      *)
ReadRows(r) ==
    /\ pc[r] = "devices"
    /\ \E I \in SUBSET UnsentIds(loaded[r]), A \in SUBSET UnsentAlerts(loaded[r]) :
        /\ IsFirst(I, UnsentIds(loaded[r]), MaxBatch)
        /\ IsFirstAlerts(A, UnsentAlerts(loaded[r]))
        /\ \/ /\ I = {} /\ A = {}
              /\ EndRun(r)
           \/ \E i \in I \cup {loaded[r].sample} :
                /\ I \cup A # {} /\ \A k \in I : k <= i
                /\ pc' = [pc EXCEPT ![r] = "wait"]
                /\ UNCHANGED loaded
                /\ \/ /\ A = {}
                      /\ request' = [request EXCEPT ![r] =
                            Body(r, I, A, [loaded[r] EXCEPT !.sample = i])]
                   \/ \E z \in A :
                        /\ \A a \in A : a = z \/ Before(a, z)
                        /\ request' = [request EXCEPT ![r] =
                              Body(r, I, A, [sample |-> i, time |-> stamp[z], alert |-> z])]
    /\ UNCHANGED <<siteVars, cursor, pollVars, centreVars, faults>>

(* Slip: an answer with refused items advances the cursor all the same. *)
Finish_Partly(r) ==
    /\ pc[r] \in {"accepted", "partly"}
    /\ cursor' = request[r].upto
    /\ EndRun(r)
    /\ UNCHANGED <<siteVars, pollVars, centreVars, faults>>

(* v as the ORM writes it: a column equal to the value that was loaded is   *)
(* left out of the UPDATE.                                                 *)
Written(v, was, now) == IF v = was THEN now ELSE v

(* Everything was accepted: the cursor advances. *)
Finish(r) ==
    /\ pc[r] = "accepted"
    /\ cursor' = [sample |-> Written(request[r].upto.sample, loaded[r].sample, cursor.sample),
                  time   |-> Written(request[r].upto.time, loaded[r].time, cursor.time),
                  alert  |-> Written(request[r].upto.alert, loaded[r].alert, cursor.alert)]
    /\ EndRun(r)
    /\ UNCHANGED <<siteVars, pollVars, centreVars, faults>>

(* The request failed or the centre refused some items: only last_error is  *)
(* written, and the next run starts from the same cursor.                  *)
GiveUp(r) ==
    /\ pc[r] \in {"partly", "error"}
    /\ EndRun(r)
    /\ UNCHANGED <<siteVars, cursor, pollVars, centreVars, faults>>

(* No answer arrives: the request was lost, is still under way, or was     *)
(* served.  A run that dies leaves the same behind.                        *)
Timeout(r) ==
    /\ pc[r] \in {"wait", "accepted", "partly"} /\ Fault
    /\ \/ pc[r] = "wait" /\ stray' = stray \cup {request[r]}
       \/ UNCHANGED stray
    /\ pc' = [pc EXCEPT ![r] = "error"]
    /\ UNCHANGED <<siteVars, cursor, pollVars, loaded, request, known, stored, shown>>

-----------------------------------------------------------------------------
(* The centre *)

(* Slip: the devices of the request are not registered. *)
Registered_NoUpsert(q) == known

(* Devices registered once the devices of request q are. *)
Registered(q) == known \cup q.devices

(* The centre's row of alert a after request q: resolved_at is set when the *)
(* item has one and is never cleared.                                      *)
Shown(a, q) ==
    IF DeviceOf[a] \notin Registered(q) THEN shown[a]
    ELSE IF a \in q.closed THEN "closed"
    ELSE IF a \in q.open /\ shown[a] = "absent" THEN "open"
    ELSE shown[a]

Apply(q) ==
    /\ known' = Registered(q)
    /\ stored' = stored \cup {s \in q.samples : DeviceOf[s] \in Registered(q)}
    /\ shown' = [a \in Alerts |-> Shown(a, q)]

(* Some item names a device the centre does not know. *)
Rejects(q) ==
    \E x \in q.samples \cup q.open \cup q.closed : DeviceOf[x] \notin Registered(q)

Serve(r) ==
    /\ pc[r] = "wait"
    /\ Apply(request[r])
    /\ pc' = [pc EXCEPT ![r] = IF Rejects(request[r]) THEN "partly" ELSE "accepted"]
    /\ UNCHANGED <<siteVars, cursor, pollVars, loaded, request, stray, faults>>

(* Token refused, server error or a lost race with another request. *)
Refuse(r) ==
    /\ pc[r] = "wait" /\ Fault
    /\ pc' = [pc EXCEPT ![r] = "error"]
    /\ UNCHANGED <<siteVars, cursor, pollVars, loaded, request, centreVars>>

ServeStray(q) ==
    /\ q \in stray
    /\ Apply(q)
    /\ stray' = stray \ {q}
    /\ UNCHANGED <<siteVars, cursor, pollVars, runVars, faults>>

-----------------------------------------------------------------------------
Poll(p) ==
    \/ StartPoll(p) \/ CommitPoll(p) \/ RollbackPoll(p)
    \/ \E d \in Devices : Skip(p, d) \/ Ingest(p, d)

Sync(r) == ReadDevices(r) \/ ReadRows(r) \/ Finish(r) \/ GiveUp(r) \/ Timeout(r)

Next ==
    \/ \E d \in Devices : SetSource(d)
    \/ \E p \in Pollers : Poll(p)
    \/ \E r \in Runs : Sync(r) \/ Serve(r) \/ Refuse(r)
    \/ \E q \in stray : ServeStray(q)
    \/ Retention

Spec == Init /\ [][Next]_vars

(* The Task Scheduler starts a synchronisation every minute or two and a   *)
(* started one goes on; the centre answers what it does not fail.  Nothing *)
(* is assumed of polling, of retention or of abandoned requests.           *)
Fairness ==
    \A r \in Runs : WF_vars(ReadDevices(r) \/ ReadRows(r) \/ Finish(r) \/ GiveUp(r) \/ Serve(r))

FairSpec == Spec /\ Fairness

-----------------------------------------------------------------------------
(* Properties *)

(* The cursor never passes a sample that the centre does not hold: a row   *)
(* of the site that will never be sent again has arrived, whatever was     *)
(* lost, repeated, partly refused or purged (agent_sync.py, the docstring  *)
(* of sync_monitoring_data).                                               *)
CursorCovers ==
    \A s \in Samples : row[s] = "here" /\ id[s] <= cursor.sample => s \in stored

(* Neither does the composite cursor pass an alert the centre has not      *)
(* heard of, nor the end of a problem: one resolved at the site and no     *)
(* longer waiting to be sent is resolved at the centre, although requests  *)
(* with its older state may still be under way.                            *)
AlertsCovered ==
    \A a \in Alerts : alert[a] # "absent" /\ ~Beyond(a, cursor) =>
        /\ shown[a] # "absent"
        /\ alert[a] = "closed" => shown[a] = "closed"

(* A problem open at the site and no longer waiting to be sent is open at  *)
(* the centre.                                                             *)
OpenIsShown ==
    \A a \in Alerts : alert[a] = "open" /\ ~Beyond(a, cursor) => shown[a] = "open"

(* Every sample that retention spares reaches the centre, if the devices   *)
(* end up monitored for good.                                              *)
EverySampleStored ==
    (\A d \in Devices : <>[]polled[d]) =>
        \A s \in Samples : row[s] = "here" ~> (s \in stored \/ row[s] = "purged")

(* Under the same condition the centre learns of every resolution that is  *)
(* neither reversed nor purged first.                                      *)
EveryResolutionShown ==
    (\A d \in Devices : <>[]polled[d]) =>
        \A a \in Alerts : alert[a] = "closed" ~> (shown[a] = "closed" \/ alert[a] # "closed")
=============================================================================
