------------------------ MODULE MonitoringSync_proofs ------------------------
(***************************************************************************)
(* Safety of the monitoring cursors for every set of devices, samples,     *)
(* alerts and runs, every batch size and every number of failures.         *)
(***************************************************************************)
EXTENDS MonitoringSync, TLAPS

LEMMA StartIsCursor == Start \in Cursors
  BY DEF Start, Cursors

LEMMA NoRequestIsRequest == NoRequest \in Requests
  BY StartIsCursor DEF NoRequest, Requests

LEMMA InitTypes == Init => Types
  BY StartIsCursor, NoRequestIsRequest, BoundAssumption DEF Init, Types, AlertStates

(* What ends a run keeps the types of the run's variables. *)
LEMMA EndRunKeepsTypes ==
    ASSUME Types, NEW r \in Runs, EndRun(r)
    PROVE  /\ pc' \in [Runs -> {"idle", "devices", "wait", "accepted", "partly", "error"}]
           /\ loaded' \in [Runs -> Cursors]
           /\ request' \in [Runs -> Requests]
  BY StartIsCursor, NoRequestIsRequest DEF Types, EndRun

LEMMA LeaveKeepsTypes ==
    ASSUME Types, NEW p \in Pollers, Leave(p)
    PROVE  /\ list' \in [Pollers -> SUBSET Devices]
           /\ busy' \in [Pollers -> Devices \cup {NoDevice}]
           /\ held' \in [Pollers -> Samples \cup {NoSample}]
           /\ at' \in [Pollers -> Nat]
  BY DEF Types, Leave

LEMMA PollTypes ==
    ASSUME Types, NEW p \in Pollers, Poll(p)
    PROVE  Types'
  <1> USE DEF siteVars, runVars, centreVars
  <1>1. CASE StartPoll(p)
    BY <1>1 DEF StartPoll, Types
  <1>2. ASSUME NEW d \in Devices, Skip(p, d) PROVE Types'
    BY <1>2 DEF Skip, Types
  <1>3. ASSUME NEW d \in Devices, Ingest(p, d) PROVE Types'
    <2>1. /\ busy' \in [Pollers -> Devices \cup {NoDevice}]
          /\ clock' \in Nat
          /\ at' \in [Pollers -> Nat]
      BY <1>3 DEF Ingest, Types
    <2>2. /\ row' \in [Samples -> {"absent", "held", "here", "purged"}]
          /\ id' \in [Samples -> Nat]
          /\ lastId' \in Nat
          /\ held' \in [Pollers -> Samples \cup {NoSample}]
      BY <1>3, BoundAssumption DEF Ingest, Types
    <2> QED
      BY <1>3, <2>1, <2>2 DEF Ingest, Types
  <1>4. CASE CommitPoll(p)
    <2>1. row' \in [Samples -> {"absent", "held", "here", "purged"}]
      BY <1>4 DEF CommitPoll, Types
    <2>2. PICK C \in SUBSET {a \in Alerts : DeviceOf[a] = busy[p]} :
            /\ alert' = [a \in Alerts |-> Reconciled(a, busy[p], C)]
            /\ stamp' = [a \in Alerts |->
                            IF Reconciled(a, busy[p], C) # alert[a] THEN at[p] ELSE stamp[a]]
      BY <1>4 DEF CommitPoll
    <2>3. alert' \in [Alerts -> AlertStates] /\ stamp' \in [Alerts -> Nat]
      BY <2>2 DEF Types, Reconciled, AlertStates
    <2> QED
      BY <1>4, <2>1, <2>3, LeaveKeepsTypes DEF CommitPoll, Types
  <1>5. CASE RollbackPoll(p)
    <2>1. faults' \in 0 .. MaxFaults
      BY <1>5, BoundAssumption DEF RollbackPoll, Fault, Types
    <2> QED
      BY <1>5, <2>1, LeaveKeepsTypes DEF RollbackPoll, Types
  <1> QED
    BY <1>1, <1>2, <1>3, <1>4, <1>5 DEF Poll

(* What a run reads is a request. *)
LEMMA BodyIsRequest ==
    ASSUME Types, NEW r \in Runs, NEW I, NEW A \in SUBSET Alerts, NEW c \in Cursors
    PROVE  Body(r, I, A, c) \in Requests
  <1>1. request[r] \in Requests
    BY DEF Types
  <1>2. /\ {s \in Samples : row[s] = "here" /\ id[s] \in I} \in SUBSET Samples
        /\ {a \in A : alert[a] = "open"} \in SUBSET Alerts
        /\ {a \in A : alert[a] = "closed"} \in SUBSET Alerts
    OBVIOUS
  <1>3. \A S \in SUBSET Samples, O, C \in SUBSET Alerts :
          [request[r] EXCEPT !.samples = S, !.open = O, !.closed = C, !.upto = c] \in Requests
    BY <1>1 DEF Requests
  <1> QED
    BY <1>2, <1>3 DEF Body

LEMMA ReadRowsTypes ==
    ASSUME Types, NEW r \in Runs, ReadRows(r)
    PROVE  Types'
  <1>1. /\ pc' \in [Runs -> {"idle", "devices", "wait", "accepted", "partly", "error"}]
        /\ loaded' \in [Runs -> Cursors]
        /\ request' \in [Runs -> Requests]
    <2>1. PICK I \in SUBSET UnsentIds(loaded[r]), A \in SUBSET UnsentAlerts(loaded[r]) :
            /\ IsFirst(I, UnsentIds(loaded[r]), MaxBatch)
            /\ IsFirstAlerts(A, UnsentAlerts(loaded[r]))
            /\ \/ /\ I = {} /\ A = {}
                  /\ EndRun(r)
               \/ \E i \in I \cup {loaded[r].sample} :
                    /\ I \cup A # {} /\ \A k \in I : k <= i
                    /\ pc' = [pc EXCEPT ![r] = "wait"]
                    /\ UNCHANGED loaded
                    /\ \/ /\ A = {}
                          /\ request' = [request EXCEPT ![r] =
                                Body(r, I, A, [loaded[r] EXCEPT !.sample = i])]
                       \/ \E z \in A :
                            /\ \A a \in A : a = z \/ Before(a, z)
                            /\ request' = [request EXCEPT ![r] =
                                  Body(r, I, A, [sample |-> i, time |-> stamp[z], alert |-> z])]
      BY DEF ReadRows
    <2>2. CASE EndRun(r)
      BY <2>2, EndRunKeepsTypes
    <2>3. ASSUME NEW i \in I \cup {loaded[r].sample},
                 pc' = [pc EXCEPT ![r] = "wait"], UNCHANGED loaded,
                 \/ request' = [request EXCEPT ![r] =
                            Body(r, I, A, [loaded[r] EXCEPT !.sample = i])]
                 \/ \E z \in A : request' = [request EXCEPT ![r] =
                            Body(r, I, A, [sample |-> i, time |-> stamp[z], alert |-> z])]
          PROVE  request' \in [Runs -> Requests]
      <3>1. i \in Nat
        <4>1. UnsentIds(loaded[r]) \subseteq Nat
          BY DEF Types, UnsentIds
        <4>2. loaded[r].sample \in Nat
          BY DEF Types, Cursors
        <4> QED
          BY <4>1, <4>2
      <3>2. A \in SUBSET Alerts
        BY DEF UnsentAlerts
      <3>3. [loaded[r] EXCEPT !.sample = i] \in Cursors
        BY <3>1 DEF Types, Cursors
      <3>4. \A z \in A : [sample |-> i, time |-> stamp[z], alert |-> z] \in Cursors
        BY <3>1, <3>2, AlertAssumption DEF Types, Cursors
      <3>5. \A c \in Cursors : Body(r, I, A, c) \in Requests
        BY <3>2, BodyIsRequest
      <3>6. \E q \in Requests : request' = [request EXCEPT ![r] = q]
        BY <2>3, <3>3, <3>4, <3>5
      <3> QED
        BY <3>6 DEF Types
    <2> QED
      BY <2>1, <2>2, <2>3 DEF Types
  <1> QED
    BY <1>1 DEF ReadRows, Types, siteVars, pollVars, centreVars

LEMMA SyncTypes ==
    ASSUME Types, NEW r \in Runs, Sync(r)
    PROVE  Types'
  <1> USE DEF siteVars, pollVars, centreVars
  <1>1. CASE ReadDevices(r)
    <2>1. request' \in [Runs -> Requests]
      <3>1. \A S \in SUBSET Devices : [request[r] EXCEPT !.devices = S] \in Requests
        BY DEF Types, Requests
      <3>2. {d \in Devices : polled[d]} \in SUBSET Devices
        OBVIOUS
      <3> QED
        BY <1>1, <3>1, <3>2 DEF ReadDevices, Types
    <2> QED
      BY <1>1, <2>1 DEF ReadDevices, Types
  <1>2. CASE ReadRows(r)
    BY <1>2, ReadRowsTypes
  <1>3. CASE Finish(r)
    <2>1. request[r].upto \in Cursors /\ loaded[r] \in Cursors
      BY DEF Types, Requests
    <2>2. cursor' \in Cursors
      BY <1>3, <2>1 DEF Finish, Written, Types, Cursors
    <2> QED
      BY <1>3, <2>2, EndRunKeepsTypes DEF Finish, Types
  <1>4. CASE GiveUp(r)
    BY <1>4, EndRunKeepsTypes DEF GiveUp, Types
  <1>5. CASE Timeout(r)
    <2>1. faults' \in 0 .. MaxFaults
      BY <1>5, BoundAssumption DEF Timeout, Fault, Types
    <2>2. stray' \subseteq Requests
      BY <1>5 DEF Timeout, Types
    <2> QED
      BY <1>5, <2>1, <2>2 DEF Timeout, Types
  <1> QED
    BY <1>1, <1>2, <1>3, <1>4, <1>5 DEF Sync

LEMMA ApplyTypes ==
    ASSUME Types, NEW q \in Requests, Apply(q)
    PROVE  known' \subseteq Devices /\ stored' \subseteq Samples /\ shown' \in [Alerts -> AlertStates]
  <1>1. known' \subseteq Devices /\ stored' \subseteq Samples
    BY DEF Types, Requests, Apply, Registered
  <1>2. \A a \in Alerts : Shown(a, q) \in AlertStates
    BY DEF Types, Shown, AlertStates
  <1> QED
    BY <1>1, <1>2 DEF Apply

LEMMA NextTypes == Types /\ [Next]_vars => Types'
  <1> SUFFICES ASSUME Types, [Next]_vars PROVE Types'
    OBVIOUS
  <1> USE DEF siteVars, pollVars, runVars, centreVars
  <1>1. ASSUME NEW d \in Devices, SetSource(d) PROVE Types'
    BY <1>1 DEF SetSource, Types
  <1>2. ASSUME NEW p \in Pollers, Poll(p) PROVE Types'
    BY <1>2, PollTypes
  <1>3. ASSUME NEW r \in Runs, Sync(r) PROVE Types'
    BY <1>3, SyncTypes
  <1>4. ASSUME NEW r \in Runs, Serve(r) PROVE Types'
    <2>1. request[r] \in Requests
      BY DEF Types
    <2> QED
      BY <1>4, <2>1, ApplyTypes DEF Serve, Types
  <1>5. ASSUME NEW r \in Runs, Refuse(r) PROVE Types'
    <2>1. faults' \in 0 .. MaxFaults
      BY <1>5, BoundAssumption DEF Refuse, Fault, Types
    <2> QED
      BY <1>5, <2>1 DEF Refuse, Types
  <1>6. ASSUME NEW q \in stray, ServeStray(q) PROVE Types'
    <2>1. q \in Requests
      BY DEF Types
    <2> QED
      BY <1>6, <2>1, ApplyTypes DEF ServeStray, Types
  <1>7. CASE Retention
    <2>1. /\ row' \in [Samples -> {"absent", "held", "here", "purged"}]
          /\ id' \in [Samples -> Nat]
          /\ alert' \in [Alerts -> AlertStates]
          /\ stamp' \in [Alerts -> Nat]
      BY <1>7 DEF Retention, Types, AlertStates
    <2> QED
      BY <1>7, <2>1 DEF Retention, Types
  <1>8. CASE UNCHANGED vars
    BY <1>8 DEF vars, Types
  <1> QED
    BY <1>1, <1>2, <1>3, <1>4, <1>5, <1>6, <1>7, <1>8 DEF Next

(* A row leaves the state "held" when its poller leaves the device. *)
LEMMA NextHeldRows == TypeOK /\ [Next]_vars => HeldRows'
  <1> SUFFICES ASSUME Types, HeldRows, [Next]_vars PROVE HeldRows'
    BY DEF TypeOK
  <1>1. ASSUME NEW p \in Pollers, NEW d \in Devices, Ingest(p, d) PROVE HeldRows'
    <2>1. /\ busy[p] = NoDevice /\ busy'[p] # NoDevice
          /\ \A o \in Pollers \ {p} : busy'[o] = busy[o]
      BY <1>1, DeviceAssumption DEF Ingest, Types
    <2>2. CASE UNCHANGED <<row, held>>
      BY <2>1, <2>2 DEF HeldRows
    <2>3. ASSUME NEW s \in Samples, row' = [row EXCEPT ![s] = "held"], held' = [held EXCEPT ![p] = s]
          PROVE  HeldRows'
      <3>1. /\ \A t \in Samples \ {s} : row'[t] = row[t]
            /\ held'[p] = s /\ \A o \in Pollers \ {p} : held'[o] = held[o]
        BY <2>3 DEF Types
      <3>2. held[p] \notin Samples
        BY <2>1, DeviceAssumption DEF HeldRows
      <3> QED
        BY <2>1, <3>1, <3>2 DEF HeldRows
    <2> QED
      BY <1>1, <2>2, <2>3 DEF Ingest
  <1>2. ASSUME NEW p \in Pollers, CommitPoll(p) \/ RollbackPoll(p) PROVE HeldRows'
    <2>1. /\ busy'[p] = NoDevice /\ held'[p] = NoSample
          /\ \A o \in Pollers \ {p} : busy'[o] = busy[o] /\ held'[o] = held[o]
      BY <1>2 DEF CommitPoll, RollbackPoll, Leave, Types
    <2>2. \A s \in Samples : row'[s] = "held" => row[s] = "held" /\ s # held[p]
      BY <1>2 DEF CommitPoll, RollbackPoll
    <2> QED
      BY <2>1, <2>2 DEF HeldRows
  <1>3. CASE Retention
    <2>1. \A s \in Samples : row'[s] = "held" => row[s] = "held"
      BY <1>3 DEF Retention
    <2> QED
      BY <1>3, <2>1 DEF HeldRows, Retention, pollVars
  <1>4. CASE UNCHANGED <<row, busy, held>>
    BY <1>4 DEF HeldRows
  <1> QED
    BY <1>1, <1>2, <1>3, <1>4
    DEF Next, vars, siteVars, pollVars, Poll, StartPoll, Skip, SetSource, Sync, ReadDevices, ReadRows,
        Finish, GiveUp, Timeout, Serve, Refuse, ServeStray

LEMMA InitTypeOK == Init => TypeOK
  BY InitTypes, DeviceAssumption DEF TypeOK, HeldRows, Init

LEMMA NextTypeOK == TypeOK /\ [Next]_vars => TypeOK'
  BY NextTypes, NextHeldRows DEF TypeOK

(* Cursors stay cursors and requests stay requests, whatever is lost,      *)
(* repeated or refused.                                                    *)
THEOREM TypeCorrect == Spec => []TypeOK
  BY InitTypeOK, NextTypeOK, PTL DEF Spec

-----------------------------------------------------------------------------
(* The sample cursor, with one polling process and a database that never   *)
(* gives an id twice.  Any number of synchronising runs may overlap.       *)

OnePoller == \A p, o \in Pollers : p = o

(* Ids grow with the inserts, and a row not yet committed has the greatest. *)
RowsOrdered ==
    /\ \A s \in Samples : row[s] \in {"held", "here"} => id[s] \in 1 .. lastId
    /\ \A s, t \in Samples : row[s] = "held" /\ row[t] = "here" => id[t] < id[s]
    /\ \A s \in Samples : row[s] = "held" => \E p \in Pollers : held[p] = s
    /\ \A p \in Pollers : held[p] \in Samples => busy[p] # NoDevice /\ row[held[p]] = "held"

(* Of the rows up to c every one is visible, and has arrived unless it is   *)
(* in S.                                                                   *)
Passed(c, S) ==
    /\ c <= lastId
    /\ \A s \in Samples : /\ row[s] = "held" => c < id[s]
                          /\ row[s] = "here" /\ id[s] <= c => s \in stored \cup S

(* A run's cursor is good, and so is the one it will write once the request *)
(* it waits for has been accepted.                                         *)
RunPassed(r) ==
    /\ Passed(loaded[r].sample, {})
    /\ pc[r] = "wait" => Passed(request[r].upto.sample, request[r].samples)
    /\ pc[r] = "accepted" => Passed(request[r].upto.sample, {})

SampleInv ==
    /\ TypeOK
    /\ RowsOrdered
    /\ Passed(cursor.sample, {})
    /\ \A r \in Runs : RunPassed(r)

LEMMA CursorFields ==
    ASSUME TypeOK
    PROVE  /\ cursor.sample \in Nat /\ cursor.time \in Nat /\ cursor.alert \in Nat
           /\ \A r \in Runs :
                /\ loaded[r].sample \in Nat /\ loaded[r].time \in Nat /\ loaded[r].alert \in Nat
                /\ request[r].upto \in Cursors
                /\ request[r].upto.sample \in Nat
                /\ request[r].upto.time \in Nat
                /\ request[r].upto.alert \in Nat
  <1>1. \A c \in Cursors : c.sample \in Nat /\ c.time \in Nat /\ c.alert \in Nat
    BY DEF Cursors
  <1>2. \A q \in Requests : q.upto \in Cursors
    BY DEF Requests
  <1> QED
    BY <1>1, <1>2 DEF TypeOK, Types

(* What a step may do to the rows without disturbing a passed cursor: rows  *)
(* appear above every id, become visible, or go; what is stored stays.     *)
RowsStep ==
    /\ lastId <= lastId'
    /\ stored \subseteq stored'
    /\ \A s \in Samples :
        /\ row'[s] = "here" => row[s] \in {"held", "here"} /\ id'[s] = id[s]
        /\ row'[s] = "held" => \/ row[s] = "held" /\ id'[s] = id[s]
                               \/ id'[s] > lastId

LEMMA PassedStable ==
    ASSUME TypeOK, TypeOK', RowsStep
    PROVE  \A c \in Nat : \A S : Passed(c, S) => Passed(c, S)'
  BY DEF TypeOK, Types, RowsStep, Passed

(* A cursor outlives a change of the rows. *)
LEMMA CursorStable ==
    ASSUME SampleInv, TypeOK', RowsStep, UNCHANGED cursor
    PROVE  Passed(cursor.sample, {})'
  <1>1. Passed(cursor.sample, {}) /\ cursor.sample \in Nat /\ cursor' = cursor
    BY CursorFields DEF SampleInv
  <1>2. PICK c \in Nat : c = cursor.sample
    BY <1>1
  <1>3. Passed(c, {})'
    BY <1>1, <1>2, PassedStable DEF SampleInv
  <1> QED
    BY <1>1, <1>2, <1>3 DEF Passed

(* So do the cursors of a run that does not move or loses its answer. *)
LEMMA RunStable ==
    ASSUME SampleInv, TypeOK', RowsStep, NEW r \in Runs,
           pc'[r] = pc[r] \/ pc'[r] \notin {"wait", "accepted"},
           loaded'[r] = loaded[r], request'[r] = request[r]
    PROVE  RunPassed(r)'
  <1>1. loaded[r].sample \in Nat /\ request[r].upto.sample \in Nat
    BY CursorFields DEF SampleInv
  <1>2. RunPassed(r)
    BY DEF SampleInv
  <1>3. PICK c \in Nat : c = loaded[r].sample
    BY <1>1
  <1>4. PICK u \in Nat : u = request[r].upto.sample
    BY <1>1
  <1>5. PICK S : S = request[r].samples
    OBVIOUS
  <1>6. /\ Passed(c, {})'
        /\ pc[r] = "wait" => Passed(u, S)'
        /\ pc[r] = "accepted" => Passed(u, {})'
    BY <1>2, <1>3, <1>4, <1>5, PassedStable DEF RunPassed, SampleInv
  <1> QED
    BY <1>3, <1>4, <1>5, <1>6 DEF RunPassed, Passed

LEMMA RunsStable ==
    ASSUME SampleInv, TypeOK', RowsStep, UNCHANGED <<cursor, runVars>>
    PROVE  Passed(cursor.sample, {})' /\ \A r \in Runs : RunPassed(r)'
  BY CursorStable, RunStable DEF runVars

LEMMA PollSampleInv ==
    ASSUME OnePoller, ~ReuseIds, SampleInv, TypeOK', NEW p \in Pollers, Poll(p)
    PROVE  SampleInv'
  <1> USE DEF runVars, centreVars, siteVars
  <1> SUFFICES RowsStep /\ RowsOrdered' /\ UNCHANGED <<cursor, runVars>>
    BY RunsStable DEF SampleInv
  <1> USE DEF SampleInv
  <1>1. CASE StartPoll(p)
    BY <1>1 DEF StartPoll, RowsStep, RowsOrdered, TypeOK, Types
  <1>2. ASSUME NEW d \in Devices, Skip(p, d)
        PROVE  RowsStep /\ RowsOrdered' /\ UNCHANGED <<cursor, runVars>>
    BY <1>2 DEF Skip, RowsStep, RowsOrdered, TypeOK, Types
  <1>3. ASSUME NEW d \in Devices, Ingest(p, d)
        PROVE  RowsStep /\ RowsOrdered' /\ UNCHANGED <<cursor, runVars>>
    <2>1. UNCHANGED <<cursor, runVars, stored>>
      BY <1>3 DEF Ingest
    <2>2. busy' = [busy EXCEPT ![p] = d] /\ d # NoDevice
      BY <1>3, DeviceAssumption DEF Ingest
    <2>3. \A s \in Samples : row[s] # "held"
      BY <1>3 DEF Ingest, OnePoller, RowsOrdered, TypeOK, Types
    <2>4. CASE UNCHANGED <<row, id, lastId, held>>
      BY <2>1, <2>2, <2>4 DEF RowsStep, RowsOrdered, TypeOK, Types
    <2>5. CASE \E s \in Samples, n \in 1 .. MaxPolls :
                  /\ row[s] = "absent" /\ DeviceOf[s] = d /\ IsNextId(n)
                  /\ row' = [row EXCEPT ![s] = "held"]
                  /\ id' = [id EXCEPT ![s] = n]
                  /\ lastId' = n
                  /\ held' = [held EXCEPT ![p] = s]
      <3>1. PICK s \in Samples, n \in 1 .. MaxPolls :
                  /\ row[s] = "absent" /\ DeviceOf[s] = d /\ IsNextId(n)
                  /\ row' = [row EXCEPT ![s] = "held"]
                  /\ id' = [id EXCEPT ![s] = n]
                  /\ lastId' = n
                  /\ held' = [held EXCEPT ![p] = s]
        BY <2>5
      <3>2. n = lastId + 1 /\ lastId \in Nat
        BY <3>1 DEF IsNextId, TypeOK, Types
      <3>3. \A t \in Samples : row'[t] = (IF t = s THEN "held" ELSE row[t])
                            /\ id'[t] = (IF t = s THEN n ELSE id[t])
        BY <3>1 DEF TypeOK, Types
      <3>4. held'[p] = s /\ busy'[p] # NoDevice
        BY <2>2, <3>1 DEF TypeOK, Types
      <3>5. RowsStep
        BY <2>1, <2>3, <3>1, <3>2, <3>3 DEF RowsStep, TypeOK, Types
      <3>6. RowsOrdered'
        BY <2>2, <2>3, <3>1, <3>2, <3>3, <3>4 DEF RowsOrdered, OnePoller, TypeOK, Types
      <3> QED
        BY <2>1, <3>5, <3>6
    <2> QED
      BY <1>3, <2>4, <2>5 DEF Ingest
  <1>4. CASE CommitPoll(p)
    <2>1. /\ UNCHANGED <<cursor, runVars, stored, id, lastId>>
          /\ \A s \in Samples : row'[s] = IF s = held[p] THEN "here" ELSE row[s]
      BY <1>4 DEF CommitPoll
    <2>2. \A s \in Samples : row[s] = "held" => s = held[p]
      BY DEF RowsOrdered, OnePoller
    <2>3. held'[p] = NoSample
      BY <1>4 DEF CommitPoll, Leave, TypeOK, Types
    <2>4. held[p] \in Samples => row[held[p]] = "held"
      BY DEF RowsOrdered
    <2>5. \A s \in Samples : row'[s] # "held"
      BY <2>1, <2>2
    <2>6. \A s \in Samples : row'[s] = "here" => row[s] \in {"held", "here"}
      BY <2>1, <2>4
    <2>7. RowsStep
      BY <2>1, <2>5, <2>6 DEF RowsStep, TypeOK, Types
    <2>8. \A o \in Pollers : held'[o] \notin Samples
      BY <2>3, DeviceAssumption DEF OnePoller
    <2>9. RowsOrdered'
      BY <2>1, <2>5, <2>6, <2>8 DEF RowsOrdered
    <2> QED
      BY <2>1, <2>7, <2>9
  <1>5. CASE RollbackPoll(p)
    <2>1. /\ UNCHANGED <<cursor, runVars, stored, lastId>>
          /\ \A s \in Samples : /\ row'[s] = IF s = held[p] THEN "absent" ELSE row[s]
                                /\ id'[s] = IF s = held[p] THEN 0 ELSE id[s]
      BY <1>5 DEF RollbackPoll
    <2>2. \A s \in Samples : row[s] = "held" => s = held[p]
      BY DEF RowsOrdered, OnePoller
    <2>3. held'[p] = NoSample
      BY <1>5 DEF RollbackPoll, Leave, TypeOK, Types
    <2>5. \A s \in Samples : row'[s] # "held"
      BY <2>1, <2>2
    <2>6. \A s \in Samples : row'[s] = "here" => row[s] = "here" /\ id'[s] = id[s]
      BY <2>1
    <2>7. RowsStep
      BY <2>1, <2>5, <2>6 DEF RowsStep, TypeOK, Types
    <2>8. \A o \in Pollers : held'[o] \notin Samples
      BY <2>3, DeviceAssumption DEF OnePoller
    <2>9. RowsOrdered'
      BY <2>1, <2>5, <2>6, <2>8 DEF RowsOrdered
    <2> QED
      BY <2>1, <2>7, <2>9
  <1> QED
    BY <1>1, <1>2, <1>3, <1>4, <1>5 DEF Poll

LEMMA ZeroPassed == TypeOK /\ RowsOrdered => Passed(0, {})
  BY DEF TypeOK, Types, RowsOrdered, Passed

(* A run that is over has no cursor but the initial one. *)
LEMMA EndRunPassed ==
    ASSUME SampleInv, TypeOK', RowsStep, RowsOrdered', NEW r \in Runs, EndRun(r)
    PROVE  \A o \in Runs : RunPassed(o)'
  <1>1. ASSUME NEW o \in Runs, o # r PROVE RunPassed(o)'
    <2>1. pc'[o] = pc[o] /\ loaded'[o] = loaded[o] /\ request'[o] = request[o]
      BY <1>1 DEF EndRun, SampleInv, TypeOK, Types
    <2> QED
      BY <2>1, RunStable
  <1>2. RunPassed(r)'
    <2>1. pc'[r] = "idle" /\ loaded'[r] = Start
      BY DEF EndRun, SampleInv, TypeOK, Types
    <2>2. Passed(0, {})'
      BY ZeroPassed, PTL
    <2>3. Start.sample = 0
      BY DEF Start
    <2> QED
      BY <2>1, <2>2, <2>3 DEF RunPassed, Passed
  <1> QED
    BY <1>1, <1>2

(* The rows read beyond a good cursor c make the cursor after them good,    *)
(* once they have arrived.                                                 *)
LEMMA ReadPasses ==
    ASSUME TypeOK, RowsOrdered, NEW c \in Cursors, Passed(c.sample, {}),
           NEW I \in SUBSET UnsentIds(c), IsFirst(I, UnsentIds(c), MaxBatch),
           NEW i \in I \cup {c.sample}, \A k \in I : k <= i
    PROVE  Passed(i, {s \in Samples : row[s] = "here" /\ id[s] \in I})
  <1>1. c.sample \in Nat
    BY DEF Cursors
  <1>2. \A k \in I : \E s \in Samples : row[s] = "here" /\ id[s] = k
    BY DEF UnsentIds
  <1>3. i \in Nat /\ i <= lastId
    BY <1>1, <1>2 DEF TypeOK, Types, RowsOrdered, Passed
  <1>4. ASSUME NEW s \in Samples, row[s] = "held" PROVE i < id[s]
    BY <1>1, <1>2, <1>4 DEF TypeOK, Types, RowsOrdered, Passed
  <1>5. ASSUME NEW s \in Samples, row[s] = "here", id[s] <= i
        PROVE  s \in stored \cup {t \in Samples : row[t] = "here" /\ id[t] \in I}
    <2>1. CASE id[s] <= c.sample
      BY <1>5, <2>1 DEF Passed
    <2>2. CASE id[s] \in I
      BY <1>5, <2>2
    <2>3. CASE id[s] > c.sample /\ id[s] \notin I
      <3>1. id[s] \in UnsentIds(c) \ I
        BY <1>5, <2>3 DEF UnsentIds
      <3>2. \A k \in I : k < id[s]
        BY <3>1 DEF IsFirst
      <3>3. id[s] \in Nat
        BY DEF TypeOK, Types
      <3> QED
        BY <1>1, <1>3, <1>5, <2>3, <3>2, <3>3
    <2>4. id[s] \in Nat
      BY DEF TypeOK, Types
    <2> QED
      BY <1>1, <2>1, <2>2, <2>3, <2>4
  <1> QED
    BY <1>3, <1>4, <1>5 DEF Passed

LEMMA ReadRowsSampleInv ==
    ASSUME SampleInv, TypeOK', NEW r \in Runs, ReadRows(r)
    PROVE  SampleInv'
  <1> USE DEF SampleInv
  <1>1. UNCHANGED <<siteVars, cursor, pollVars, centreVars, faults>>
    BY DEF ReadRows
  <1>2. RowsStep /\ RowsOrdered'
    BY <1>1 DEF RowsStep, RowsOrdered, siteVars, pollVars, centreVars, TypeOK, Types
  <1>3. Passed(cursor.sample, {})'
    BY <1>1, <1>2, CursorStable
  <1>4. \A o \in Runs : RunPassed(o)'
    <2>1. PICK I \in SUBSET UnsentIds(loaded[r]), A \in SUBSET UnsentAlerts(loaded[r]) :
            /\ IsFirst(I, UnsentIds(loaded[r]), MaxBatch)
            /\ IsFirstAlerts(A, UnsentAlerts(loaded[r]))
            /\ \/ /\ I = {} /\ A = {}
                  /\ EndRun(r)
               \/ \E i \in I \cup {loaded[r].sample} :
                    /\ I \cup A # {} /\ \A k \in I : k <= i
                    /\ pc' = [pc EXCEPT ![r] = "wait"]
                    /\ UNCHANGED loaded
                    /\ \/ /\ A = {}
                          /\ request' = [request EXCEPT ![r] =
                                Body(r, I, A, [loaded[r] EXCEPT !.sample = i])]
                       \/ \E z \in A :
                            /\ \A a \in A : a = z \/ Before(a, z)
                            /\ request' = [request EXCEPT ![r] =
                                  Body(r, I, A, [sample |-> i, time |-> stamp[z], alert |-> z])]
      BY DEF ReadRows
    <2>2. CASE EndRun(r)
      BY <1>2, <2>2, EndRunPassed
    <2>3. ASSUME NEW i \in I \cup {loaded[r].sample}, \A k \in I : k <= i,
                 pc' = [pc EXCEPT ![r] = "wait"], UNCHANGED loaded,
                 \/ request' = [request EXCEPT ![r] =
                            Body(r, I, A, [loaded[r] EXCEPT !.sample = i])]
                 \/ \E z \in A : request' = [request EXCEPT ![r] =
                            Body(r, I, A, [sample |-> i, time |-> stamp[z], alert |-> z])]
          PROVE  \A o \in Runs : RunPassed(o)'
      <3>1. Passed(i, {s \in Samples : row[s] = "here" /\ id[s] \in I})
        <4>1. loaded[r] \in Cursors /\ Passed(loaded[r].sample, {})
          BY DEF TypeOK, Types, RunPassed
        <4> QED
          BY <2>1, <2>3, <4>1, ReadPasses
      <3>2. /\ request'[r].samples = {s \in Samples : row[s] = "here" /\ id[s] \in I}
            /\ request'[r].upto.sample = i
        <4>1. request[r] \in Requests /\ loaded[r] \in Cursors
          BY DEF TypeOK, Types
        <4>2. \A c : /\ Body(r, I, A, c).samples = {s \in Samples : row[s] = "here" /\ id[s] \in I}
                     /\ Body(r, I, A, c).upto = c
          BY <4>1 DEF Body, Requests
        <4>3. [loaded[r] EXCEPT !.sample = i].sample = i
          BY <4>1 DEF Cursors
        <4>4. \E c : c.sample = i /\ request' = [request EXCEPT ![r] = Body(r, I, A, c)]
          <5>1. \A z : [sample |-> i, time |-> stamp[z], alert |-> z].sample = i
            OBVIOUS
          <5> QED
            BY <2>3, <4>3, <5>1
        <4>5. \E c : c.sample = i /\ request'[r] = Body(r, I, A, c)
          BY <4>4 DEF TypeOK, Types
        <4> QED
          BY <4>2, <4>5
      <3>3. ASSUME NEW o \in Runs, o # r PROVE RunPassed(o)'
        <4>1. pc'[o] = pc[o] /\ loaded'[o] = loaded[o] /\ request'[o] = request[o]
          BY <2>1, <2>3, <3>3 DEF TypeOK, Types
        <4> QED
          BY <1>2, <4>1, RunStable
      <3>4. RunPassed(r)'
        <4>1. pc'[r] = "wait" /\ loaded'[r] = loaded[r] /\ Passed(loaded[r].sample, {})
          BY <2>3 DEF TypeOK, Types, RunPassed
        <4>2. UNCHANGED <<row, id, lastId, stored>>
          BY <1>1 DEF siteVars, centreVars
        <4> QED
          BY <3>1, <3>2, <4>1, <4>2 DEF RunPassed, Passed
      <3> QED
        BY <3>3, <3>4
    <2> QED
      BY <2>1, <2>2, <2>3
  <1> QED
    BY <1>2, <1>3, <1>4

LEMMA SyncSampleInv ==
    ASSUME SampleInv, TypeOK', NEW r \in Runs, Sync(r)
    PROVE  SampleInv'
  <1> USE DEF SampleInv
  <1>1. CASE ReadRows(r)
    BY <1>1, ReadRowsSampleInv
  <1>2. CASE ReadDevices(r)
    <2>1. UNCHANGED <<row, id, lastId, stored, cursor, held, busy>>
      BY <1>2 DEF ReadDevices, siteVars, pollVars, centreVars
    <2>2. RowsStep /\ RowsOrdered'
      BY <2>1 DEF RowsStep, RowsOrdered, TypeOK, Types
    <2>3. Passed(cursor.sample, {})'
      BY <2>1, <2>2, CursorStable
    <2>4. ASSUME NEW o \in Runs, o # r PROVE RunPassed(o)'
      <3>1. pc'[o] = pc[o] /\ loaded'[o] = loaded[o] /\ request'[o] = request[o]
        BY <1>2, <2>4 DEF ReadDevices, TypeOK, Types
      <3> QED
        BY <2>2, <3>1, RunStable
    <2>5. RunPassed(r)'
      <3>1. pc'[r] = "devices" /\ loaded'[r] = cursor'
        BY <1>2, <2>1 DEF ReadDevices, TypeOK, Types
      <3> QED
        BY <2>3, <3>1 DEF RunPassed
    <2> QED
      BY <2>2, <2>3, <2>4, <2>5
  <1>3. CASE Finish(r)
    <2>1. UNCHANGED <<row, id, lastId, stored, held, busy>> /\ EndRun(r)
      BY <1>3 DEF Finish, siteVars, pollVars, centreVars
    <2>2. RowsStep /\ RowsOrdered'
      BY <2>1 DEF RowsStep, RowsOrdered, TypeOK, Types
    <2>3. \/ cursor'.sample = request[r].upto.sample
          \/ cursor'.sample = cursor.sample
      BY <1>3 DEF Finish, Written
    <2>4. Passed(request[r].upto.sample, {}) /\ Passed(cursor.sample, {})
      BY <1>3 DEF Finish, RunPassed
    <2>5. Passed(cursor.sample, {})'
      BY <2>1, <2>3, <2>4 DEF Passed
    <2> QED
      BY <2>1, <2>2, <2>5, EndRunPassed
  <1>4. CASE GiveUp(r)
    <2>1. UNCHANGED <<row, id, lastId, stored, held, busy, cursor>> /\ EndRun(r)
      BY <1>4 DEF GiveUp, siteVars, pollVars, centreVars
    <2>2. RowsStep /\ RowsOrdered'
      BY <2>1 DEF RowsStep, RowsOrdered, TypeOK, Types
    <2> QED
      BY <2>1, <2>2, EndRunPassed, CursorStable
  <1>5. CASE Timeout(r)
    <2>1. UNCHANGED <<row, id, lastId, stored, held, busy, cursor, loaded, request>>
      BY <1>5 DEF Timeout, siteVars, pollVars
    <2>2. RowsStep /\ RowsOrdered'
      BY <2>1 DEF RowsStep, RowsOrdered, TypeOK, Types
    <2>3. \A o \in Runs : pc'[o] = pc[o] \/ pc'[o] \notin {"wait", "accepted"}
      BY <1>5 DEF Timeout, TypeOK, Types
    <2> QED
      BY <2>1, <2>2, <2>3, RunStable, CursorStable
  <1> QED
    BY <1>1, <1>2, <1>3, <1>4, <1>5 DEF Sync

LEMMA NextSampleInv ==
    ASSUME OnePoller, ~ReuseIds, SampleInv, [Next]_vars
    PROVE  SampleInv'
  <1>1. TypeOK'
    BY NextTypeOK DEF SampleInv
  <1> USE DEF SampleInv
  <1>2. ASSUME NEW d \in Devices, SetSource(d) PROVE SampleInv'
    <2>1. UNCHANGED <<row, id, lastId, stored, cursor, pollVars, runVars>>
      BY <1>2 DEF SetSource, centreVars
    <2>2. RowsStep /\ RowsOrdered'
      BY <2>1 DEF RowsStep, RowsOrdered, TypeOK, Types, pollVars
    <2> QED
      BY <1>1, <2>1, <2>2, RunsStable
  <1>3. ASSUME NEW p \in Pollers, Poll(p) PROVE SampleInv'
    BY <1>1, <1>3, PollSampleInv
  <1>4. ASSUME NEW r \in Runs, Sync(r) PROVE SampleInv'
    BY <1>1, <1>4, SyncSampleInv
  <1>5. ASSUME NEW r \in Runs, Serve(r) PROVE SampleInv'
    <2>1. /\ UNCHANGED <<siteVars, pollVars, cursor, loaded, request>>
          /\ stored' = stored \cup {s \in request[r].samples :
                                        DeviceOf[s] \in Registered(request[r])}
      BY <1>5 DEF Serve, Apply
    <2>2. RowsStep /\ RowsOrdered'
      BY <2>1 DEF RowsStep, RowsOrdered, TypeOK, Types, siteVars, pollVars
    <2>3. ASSUME NEW o \in Runs, o # r PROVE RunPassed(o)'
      <3>1. pc'[o] = pc[o]
        BY <1>5, <2>3 DEF Serve, TypeOK, Types
      <3> QED
        BY <1>1, <2>1, <2>2, <3>1, RunStable
    <2>4. RunPassed(r)'
      <3>1. CASE Rejects(request[r])
        <4>1. pc'[r] = "partly"
          BY <1>5, <3>1 DEF Serve, TypeOK, Types
        <4> QED
          BY <1>1, <2>1, <2>2, <4>1, RunStable
      <3>2. CASE ~Rejects(request[r])
        <4>1. pc'[r] = "accepted"
          BY <1>5, <3>2 DEF Serve, TypeOK, Types
        <4>2. request[r].samples \subseteq stored'
          BY <2>1, <3>2 DEF Rejects
        <4>3. Passed(request[r].upto.sample, request[r].samples) /\ Passed(loaded[r].sample, {})
          BY <1>5 DEF Serve, RunPassed
        <4> QED
          BY <2>1, <4>1, <4>2, <4>3 DEF RunPassed, Passed, siteVars
      <3> QED
        BY <3>1, <3>2
    <2> QED
      BY <1>1, <2>1, <2>2, <2>3, <2>4, CursorStable
  <1>6. ASSUME NEW r \in Runs, Refuse(r) PROVE SampleInv'
    <2>1. UNCHANGED <<siteVars, pollVars, centreVars, cursor, loaded, request>>
      BY <1>6 DEF Refuse
    <2>2. RowsStep /\ RowsOrdered'
      BY <2>1 DEF RowsStep, RowsOrdered, TypeOK, Types, siteVars, pollVars, centreVars
    <2>3. \A o \in Runs : pc'[o] = pc[o] \/ pc'[o] \notin {"wait", "accepted"}
      BY <1>6 DEF Refuse, TypeOK, Types
    <2> QED
      BY <1>1, <2>1, <2>2, <2>3, RunStable, CursorStable
  <1>7. ASSUME NEW q \in stray, ServeStray(q) PROVE SampleInv'
    <2>1. UNCHANGED <<siteVars, pollVars, runVars, cursor>> /\ stored \subseteq stored'
      BY <1>7 DEF ServeStray, Apply
    <2>2. RowsStep /\ RowsOrdered'
      BY <2>1 DEF RowsStep, RowsOrdered, TypeOK, Types, siteVars, pollVars
    <2> QED
      BY <1>1, <2>1, <2>2, RunsStable
  <1>8. CASE Retention
    <2>1. UNCHANGED <<lastId, pollVars, runVars, centreVars, cursor>>
      BY <1>8 DEF Retention
    <2>2. PICK n \in 0 .. MaxPolls :
            /\ row' = [s \in Samples |-> IF Old(s, n) THEN "purged" ELSE row[s]]
            /\ id' = [s \in Samples |-> IF Old(s, n) THEN 0 ELSE id[s]]
      BY <1>8 DEF Retention
    <2>3. \A s \in Samples : row'[s] \in {"held", "here"} => row'[s] = row[s] /\ id'[s] = id[s]
      BY <2>2
    <2>4. \A s \in Samples : row[s] = "held" => row'[s] = "held"
      BY <2>2 DEF Old
    <2>5. RowsStep
      BY <2>1, <2>3 DEF RowsStep, TypeOK, Types, centreVars
    <2>6. RowsOrdered'
      BY <2>1, <2>3, <2>4 DEF RowsOrdered, pollVars
    <2> QED
      BY <1>1, <2>1, <2>5, <2>6, RunsStable
  <1>9. CASE UNCHANGED vars
    <2>1. UNCHANGED <<siteVars, pollVars, runVars, centreVars, cursor>>
      BY <1>9 DEF vars
    <2>2. RowsStep /\ RowsOrdered'
      BY <2>1 DEF RowsStep, RowsOrdered, TypeOK, Types, siteVars, pollVars, centreVars
    <2> QED
      BY <1>1, <2>1, <2>2, RunsStable
  <1> QED
    BY <1>2, <1>3, <1>4, <1>5, <1>6, <1>7, <1>8, <1>9 DEF Next

LEMMA InitSampleInv == Init => SampleInv
  <1> SUFFICES ASSUME Init PROVE SampleInv
    OBVIOUS
  <1>1. TypeOK
    BY InitTypeOK
  <1>2. RowsOrdered
    BY DeviceAssumption DEF Init, RowsOrdered
  <1>3. Start.sample = 0
    BY DEF Start
  <1>4. Passed(cursor.sample, {}) /\ \A r \in Runs : Passed(loaded[r].sample, {}) /\ pc[r] = "idle"
    BY <1>1, <1>2, <1>3, ZeroPassed DEF Init
  <1> QED
    BY <1>1, <1>2, <1>4 DEF SampleInv, RunPassed

(* With one polling process and ids that are never given twice, the sample *)
(* cursor passes no row that has not arrived, however many runs overlap    *)
(* and whatever requests are lost, repeated, late or partly refused.       *)
THEOREM SamplesNotSkipped ==
    ASSUME OnePoller, ~ReuseIds
    PROVE  Spec => []CursorCovers
  <1>1. Init => SampleInv
    BY InitSampleInv
  <1>2. SampleInv /\ [Next]_vars => SampleInv'
    BY NextSampleInv
  <1>3. SampleInv => CursorCovers
    BY DEF SampleInv, Passed, CursorCovers
  <1> QED
    BY <1>1, <1>2, <1>3, PTL DEF Spec

-----------------------------------------------------------------------------
(* The composite cursor, with one polling process and one synchronising    *)
(* run (two of them may mix the columns of the cursor).                    *)

OneRun == \A r, o \in Runs : r = o

(* A poll stamps the alerts it changes later than every other stamp. *)
Stamped ==
    /\ \A a \in Alerts : /\ stamp[a] <= clock
                         /\ alert[a] # "absent" => stamp[a] >= 1
    /\ \A p \in Pollers : busy[p] # NoDevice =>
           at[p] = clock /\ \A a \in Alerts : stamp[a] < clock

(* The centre knows the news of every alert up to c, or it is in the open   *)
(* alerts O and the resolved ones C of a request.                          *)
Told(c, O, C) ==
    /\ c.time <= clock
    /\ \A p \in Pollers : busy[p] # NoDevice => c.time < clock
    /\ \A a \in Alerts : alert[a] # "absent" /\ ~Beyond(a, c) =>
           /\ shown[a] # "absent" \/ a \in O \cup C
           /\ alert[a] = "closed" => shown[a] = "closed" \/ a \in C

RunTold(r) ==
    /\ pc[r] # "idle" => loaded[r] = cursor
    /\ pc[r] = "wait" => Told(request[r].upto, request[r].open, request[r].closed)
    /\ pc[r] = "accepted" => Told(request[r].upto, {}, {})

AlertInv ==
    /\ TypeOK
    /\ Stamped
    /\ Told(cursor, {}, {})
    /\ \A r \in Runs : RunTold(r)

(* What a step may do to the alerts without disturbing what was told. *)
AlertsStep ==
    /\ clock <= clock'
    /\ \A p \in Pollers : busy'[p] # NoDevice => busy[p] # NoDevice \/ clock < clock'
    /\ \A a \in Alerts :
        /\ \/ alert'[a] = alert[a] /\ stamp'[a] = stamp[a]
           \/ alert'[a] = "absent"
           \/ stamp'[a] = clock /\ \E p \in Pollers : busy[p] # NoDevice
        /\ shown[a] # "absent" => shown'[a] # "absent"
        /\ shown[a] = "closed" => shown'[a] = "closed"

LEMMA ToldStable ==
    ASSUME TypeOK, TypeOK', AlertsStep
    PROVE  \A c \in Cursors : \A O, C : Told(c, O, C) => Told(c, O, C)'
  <1> SUFFICES ASSUME NEW c \in Cursors, NEW O, NEW C, Told(c, O, C)
               PROVE  Told(c, O, C)'
    OBVIOUS
  <1>1. c.time \in Nat /\ c.alert \in Nat
    BY DEF Cursors
  <1>2. clock \in Nat /\ clock' \in Nat
    BY DEF TypeOK, Types
  <1>3. c.time <= clock'
    BY <1>1, <1>2 DEF AlertsStep, Told
  <1>4. ASSUME NEW p \in Pollers, busy'[p] # NoDevice PROVE c.time < clock'
    BY <1>1, <1>2, <1>4 DEF AlertsStep, Told
  <1>5. ASSUME NEW a \in Alerts, alert'[a] # "absent", ~Beyond(a, c)'
        PROVE  /\ shown'[a] # "absent" \/ a \in O \cup C
               /\ alert'[a] = "closed" => shown'[a] = "closed" \/ a \in C
    <2>1. CASE alert'[a] = alert[a] /\ stamp'[a] = stamp[a]
      BY <1>5, <2>1 DEF AlertsStep, Told, Beyond
    <2>2. CASE stamp'[a] = clock /\ \E p \in Pollers : busy[p] # NoDevice
      BY <1>1, <1>2, <1>5, <2>2 DEF Told, Beyond
    <2> QED
      BY <1>5, <2>1, <2>2 DEF AlertsStep
  <1> QED
    BY <1>3, <1>4, <1>5 DEF Told

LEMMA CursorTold ==
    ASSUME AlertInv, TypeOK', AlertsStep, UNCHANGED cursor
    PROVE  Told(cursor, {}, {})'
  <1>1. PICK c \in Cursors : c = cursor
    BY DEF AlertInv, TypeOK, Types
  <1>2. Told(c, {}, {})'
    BY <1>1, ToldStable DEF AlertInv
  <1> QED
    BY <1>1, <1>2 DEF Told, Beyond

(* A run that does not move, or loses its answer, keeps what it was told. *)
LEMMA RunToldStable ==
    ASSUME AlertInv, TypeOK', AlertsStep, UNCHANGED cursor, NEW r \in Runs,
           pc'[r] = pc[r] \/ (pc[r] # "idle" /\ pc'[r] \notin {"wait", "accepted"}),
           loaded'[r] = loaded[r], request'[r] = request[r]
    PROVE  RunTold(r)'
  <1>1. PICK c \in Cursors : c = request[r].upto
    BY CursorFields DEF AlertInv
  <1>2. PICK O : O = request[r].open
    OBVIOUS
  <1>3. PICK C : C = request[r].closed
    OBVIOUS
  <1>4. /\ pc[r] = "wait" => Told(c, O, C)'
        /\ pc[r] = "accepted" => Told(c, {}, {})'
    BY <1>1, <1>2, <1>3, ToldStable DEF AlertInv, RunTold
  <1>5. pc[r] # "idle" => loaded[r] = cursor
    BY DEF AlertInv, RunTold
  <1> QED
    BY <1>1, <1>2, <1>3, <1>4, <1>5 DEF RunTold, Told, Beyond

LEMMA RunsToldStable ==
    ASSUME AlertInv, TypeOK', AlertsStep, UNCHANGED <<cursor, runVars>>
    PROVE  Told(cursor, {}, {})' /\ \A r \in Runs : RunTold(r)'
  BY CursorTold, RunToldStable DEF runVars

LEMMA PollAlertInv ==
    ASSUME OnePoller, AlertInv, TypeOK', NEW p \in Pollers, Poll(p)
    PROVE  AlertInv'
  <1> USE DEF AlertInv
  <1> SUFFICES AlertsStep /\ Stamped' /\ UNCHANGED <<cursor, runVars>>
    BY RunsToldStable
  <1>1. CASE StartPoll(p)
    <2>1. UNCHANGED <<alert, stamp, clock, busy, at, shown, cursor, runVars>>
      BY <1>1 DEF StartPoll, siteVars, centreVars
    <2> QED
      BY <2>1 DEF AlertsStep, Stamped, TypeOK, Types
  <1>2. ASSUME NEW d \in Devices, Skip(p, d)
        PROVE  AlertsStep /\ Stamped' /\ UNCHANGED <<cursor, runVars>>
    <2>1. UNCHANGED <<alert, stamp, clock, busy, at, shown, cursor, runVars>>
      BY <1>2 DEF Skip, siteVars, centreVars
    <2> QED
      BY <2>1 DEF AlertsStep, Stamped, TypeOK, Types
  <1>3. ASSUME NEW d \in Devices, Ingest(p, d)
        PROVE  AlertsStep /\ Stamped' /\ UNCHANGED <<cursor, runVars>>
    <2>1. /\ UNCHANGED <<alert, stamp, shown, cursor, runVars>>
          /\ clock' = clock + 1
          /\ at'[p] = clock + 1
      BY <1>3 DEF Ingest, centreVars, TypeOK, Types
    <2>2. \A o \in Pollers : o = p
      BY DEF OnePoller
    <2> QED
      BY <2>1, <2>2 DEF AlertsStep, Stamped, TypeOK, Types
  <1>4. CASE CommitPoll(p)
    <2>1. /\ UNCHANGED <<clock, shown, cursor, runVars>>
          /\ busy'[p] = NoDevice /\ busy[p] # NoDevice
      BY <1>4 DEF CommitPoll, Leave, centreVars, TypeOK, Types
    <2>2. \A o \in Pollers : o = p
      BY DEF OnePoller
    <2>3. \A a \in Alerts : \/ alert'[a] = alert[a] /\ stamp'[a] = stamp[a]
                            \/ stamp'[a] = clock
      <3>1. PICK C \in SUBSET {a \in Alerts : DeviceOf[a] = busy[p]} :
              /\ alert' = [a \in Alerts |-> Reconciled(a, busy[p], C)]
              /\ stamp' = [a \in Alerts |->
                              IF Reconciled(a, busy[p], C) # alert[a] THEN at[p] ELSE stamp[a]]
        BY <1>4 DEF CommitPoll
      <3>2. at[p] = clock
        BY <2>1 DEF Stamped
      <3> QED
        BY <3>1, <3>2
    <2>4. AlertsStep
      BY <2>1, <2>2, <2>3 DEF AlertsStep, TypeOK, Types
    <2>5. clock \in Nat /\ \A a \in Alerts : stamp[a] \in Nat /\ stamp[a] < clock
      BY <2>1 DEF Stamped, TypeOK, Types
    <2>6. ASSUME NEW a \in Alerts
          PROVE  stamp'[a] <= clock /\ (alert'[a] # "absent" => stamp'[a] >= 1)
      BY <2>3, <2>5 DEF Stamped
    <2> QED
      BY <2>1, <2>2, <2>4, <2>6 DEF Stamped
  <1>5. CASE RollbackPoll(p)
    <2>1. /\ UNCHANGED <<alert, stamp, clock, shown, cursor, runVars>>
          /\ busy'[p] = NoDevice
      BY <1>5 DEF RollbackPoll, Leave, centreVars, TypeOK, Types
    <2>2. \A o \in Pollers : o = p
      BY DEF OnePoller
    <2> QED
      BY <2>1, <2>2 DEF AlertsStep, Stamped, TypeOK, Types
  <1> QED
    BY <1>1, <1>2, <1>3, <1>4, <1>5 DEF Poll

(* The alerts read beyond a good cursor make the cursor after them good,    *)
(* once they have arrived.                                                 *)
LEMMA ReadTells ==
    ASSUME TypeOK, Stamped, NEW c \in Cursors, Told(c, {}, {}),
           NEW A \in SUBSET UnsentAlerts(c), IsFirstAlerts(A, UnsentAlerts(c)),
           NEW z \in A, \A a \in A : a = z \/ Before(a, z), NEW i
    PROVE  Told([sample |-> i, time |-> stamp[z], alert |-> z],
                {a \in A : alert[a] = "open"}, {a \in A : alert[a] = "closed"})
  <1> DEFINE u == [sample |-> i, time |-> stamp[z], alert |-> z]
  <1>1. z \in Alerts /\ z \in Nat /\ stamp[z] \in Nat /\ clock \in Nat
    BY AlertAssumption DEF UnsentAlerts, TypeOK, Types
  <1>2. u.time <= clock /\ \A p \in Pollers : busy[p] # NoDevice => u.time < clock
    BY <1>1 DEF Stamped
  <1>3. ASSUME NEW a \in Alerts, alert[a] # "absent", ~Beyond(a, u)
        PROVE  /\ shown[a] # "absent" \/ a \in {b \in A : alert[b] = "open"} \cup {b \in A : alert[b] = "closed"}
               /\ alert[a] = "closed" => shown[a] = "closed" \/ a \in {b \in A : alert[b] = "closed"}
    <2>1. CASE ~Beyond(a, c)
      BY <1>3, <2>1 DEF Told
    <2>2. CASE Beyond(a, c)
      <3>1. a \in UnsentAlerts(c)
        BY <1>3, <2>2 DEF UnsentAlerts
      <3>2. a \in A
        <4>1. a \notin A => Before(z, a)
          BY <3>1 DEF IsFirstAlerts
        <4>2. Before(z, a) => Beyond(a, u)
          BY <1>1, AlertAssumption DEF Before, Beyond, TypeOK, Types
        <4> QED
          BY <1>3, <4>1, <4>2
      <3>3. alert[a] \in {"open", "closed"}
        BY <1>3 DEF TypeOK, Types, AlertStates
      <3> QED
        BY <3>2, <3>3
    <2> QED
      BY <2>1, <2>2
  <1> QED
    BY <1>2, <1>3 DEF Told

LEMMA ReadRowsAlertInv ==
    ASSUME OneRun, AlertInv, TypeOK', NEW r \in Runs, ReadRows(r)
    PROVE  AlertInv'
  <1> USE DEF AlertInv
  <1>1. UNCHANGED <<alert, stamp, clock, busy, at, shown, cursor>> /\ pc[r] = "devices"
    BY DEF ReadRows, siteVars, pollVars, centreVars
  <1>2. AlertsStep /\ Stamped'
    BY <1>1 DEF AlertsStep, Stamped, TypeOK, Types
  <1>3. Told(cursor, {}, {})'
    BY <1>1, <1>2, CursorTold
  <1>4. RunTold(r)'
    <2>1. PICK I \in SUBSET UnsentIds(loaded[r]), A \in SUBSET UnsentAlerts(loaded[r]) :
            /\ IsFirst(I, UnsentIds(loaded[r]), MaxBatch)
            /\ IsFirstAlerts(A, UnsentAlerts(loaded[r]))
            /\ \/ /\ I = {} /\ A = {}
                  /\ EndRun(r)
               \/ \E i \in I \cup {loaded[r].sample} :
                    /\ I \cup A # {} /\ \A k \in I : k <= i
                    /\ pc' = [pc EXCEPT ![r] = "wait"]
                    /\ UNCHANGED loaded
                    /\ \/ /\ A = {}
                          /\ request' = [request EXCEPT ![r] =
                                Body(r, I, A, [loaded[r] EXCEPT !.sample = i])]
                       \/ \E z \in A :
                            /\ \A a \in A : a = z \/ Before(a, z)
                            /\ request' = [request EXCEPT ![r] =
                                  Body(r, I, A, [sample |-> i, time |-> stamp[z], alert |-> z])]
      BY DEF ReadRows
    <2>2. CASE EndRun(r)
      BY <2>2 DEF EndRun, RunTold, TypeOK, Types
    <2>3. loaded[r] = cursor /\ loaded[r] \in Cursors
      BY <1>1 DEF RunTold, TypeOK, Types
    <2>4. \A c : /\ Body(r, I, A, c).open = {a \in A : alert[a] = "open"}
                 /\ Body(r, I, A, c).closed = {a \in A : alert[a] = "closed"}
                 /\ Body(r, I, A, c).upto = c
      <3>1. request[r] \in Requests
        BY DEF TypeOK, Types
      <3> QED
        BY <3>1 DEF Body, Requests
    <2>5. ASSUME NEW c, Told(c, {a \in A : alert[a] = "open"}, {a \in A : alert[a] = "closed"}),
                 pc' = [pc EXCEPT ![r] = "wait"], UNCHANGED loaded,
                 request' = [request EXCEPT ![r] = Body(r, I, A, c)]
          PROVE  RunTold(r)'
      <3>1. /\ pc'[r] = "wait" /\ loaded'[r] = cursor'
            /\ request'[r].open = {a \in A : alert[a] = "open"}
            /\ request'[r].closed = {a \in A : alert[a] = "closed"}
            /\ request'[r].upto = c
        BY <1>1, <2>3, <2>4, <2>5 DEF TypeOK, Types
      <3>2. Told(request'[r].upto, request'[r].open, request'[r].closed)
        BY <2>5, <3>1
      <3> QED
        BY <1>1, <3>1, <3>2 DEF RunTold, Told, Beyond
    <2>6. ASSUME NEW i, A = {}
          PROVE  Told([loaded[r] EXCEPT !.sample = i],
                      {a \in A : alert[a] = "open"}, {a \in A : alert[a] = "closed"})
      <3>1. /\ [loaded[r] EXCEPT !.sample = i].time = cursor.time
            /\ [loaded[r] EXCEPT !.sample = i].alert = cursor.alert
        BY <2>3 DEF Cursors
      <3>2. Told([loaded[r] EXCEPT !.sample = i], {}, {})
        BY <3>1 DEF Told, Beyond
      <3> QED
        BY <2>6, <3>2
    <2>7. ASSUME NEW i, NEW z \in A, \A a \in A : a = z \/ Before(a, z)
          PROVE  Told([sample |-> i, time |-> stamp[z], alert |-> z],
                      {a \in A : alert[a] = "open"}, {a \in A : alert[a] = "closed"})
      BY <2>1, <2>3, <2>7, ReadTells
    <2> QED
      BY <2>1, <2>2, <2>5, <2>6, <2>7
  <1> QED
    BY <1>2, <1>3, <1>4 DEF OneRun

LEMMA SyncAlertInv ==
    ASSUME OneRun, AlertInv, TypeOK', NEW r \in Runs, Sync(r)
    PROVE  AlertInv'
  <1> USE DEF AlertInv
  <1>1. CASE ReadRows(r)
    BY <1>1, ReadRowsAlertInv
  <1>2. CASE ReadDevices(r)
    <2>1. UNCHANGED <<alert, stamp, clock, busy, at, shown, cursor>>
      BY <1>2 DEF ReadDevices, siteVars, pollVars, centreVars
    <2>2. AlertsStep /\ Stamped'
      BY <2>1 DEF AlertsStep, Stamped, TypeOK, Types
    <2>3. pc'[r] = "devices" /\ loaded'[r] = cursor
      BY <1>2 DEF ReadDevices, TypeOK, Types
    <2>4. RunTold(r)'
      BY <2>1, <2>3 DEF RunTold
    <2> QED
      BY <2>1, <2>2, <2>4, CursorTold DEF OneRun
  <1>3. CASE Finish(r)
    <2>1. UNCHANGED <<alert, stamp, clock, busy, at, shown>> /\ EndRun(r)
      BY <1>3 DEF Finish, siteVars, pollVars, centreVars
    <2>2. AlertsStep /\ Stamped'
      BY <2>1 DEF AlertsStep, Stamped, TypeOK, Types
    <2>3. loaded[r] = cursor /\ Told(request[r].upto, {}, {})
      BY <1>3 DEF Finish, RunTold
    <2>4. cursor'.time = request[r].upto.time /\ cursor'.alert = request[r].upto.alert
      BY <1>3, <2>3 DEF Finish, Written
    <2>5. Told(cursor, {}, {})'
      BY <2>1, <2>3, <2>4 DEF Told, Beyond
    <2>6. RunTold(r)'
      BY <2>1 DEF EndRun, RunTold, TypeOK, Types
    <2> QED
      BY <2>2, <2>5, <2>6 DEF OneRun
  <1>4. CASE GiveUp(r)
    <2>1. UNCHANGED <<alert, stamp, clock, busy, at, shown, cursor>> /\ EndRun(r)
      BY <1>4 DEF GiveUp, siteVars, pollVars, centreVars
    <2>2. AlertsStep /\ Stamped'
      BY <2>1 DEF AlertsStep, Stamped, TypeOK, Types
    <2>3. RunTold(r)'
      BY <2>1 DEF EndRun, RunTold, TypeOK, Types
    <2> QED
      BY <2>1, <2>2, <2>3, CursorTold DEF OneRun
  <1>5. CASE Timeout(r)
    <2>1. UNCHANGED <<alert, stamp, clock, busy, at, shown, cursor, loaded, request>>
      BY <1>5 DEF Timeout, siteVars, pollVars
    <2>2. AlertsStep /\ Stamped'
      BY <2>1 DEF AlertsStep, Stamped, TypeOK, Types
    <2>3. pc[r] # "idle" /\ pc'[r] = "error"
      BY <1>5 DEF Timeout, TypeOK, Types
    <2> QED
      BY <2>1, <2>2, <2>3, CursorTold, RunToldStable DEF OneRun
  <1> QED
    BY <1>1, <1>2, <1>3, <1>4, <1>5 DEF Sync

(* A request only adds to what the centre shows, and shows all it carries   *)
(* of the devices it knows.                                                *)
LEMMA ApplyShows ==
    ASSUME TypeOK, NEW q \in Requests, Apply(q)
    PROVE  \A a \in Alerts :
             /\ shown[a] # "absent" => shown'[a] # "absent"
             /\ shown[a] = "closed" => shown'[a] = "closed"
             /\ ~Rejects(q) /\ a \in q.open \cup q.closed => shown'[a] # "absent"
             /\ ~Rejects(q) /\ a \in q.closed => shown'[a] = "closed"
  <1> TAKE a \in Alerts
  <1>1. shown'[a] = Shown(a, q)
    BY DEF Apply
  <1>2. ~Rejects(q) /\ a \in q.open \cup q.closed => DeviceOf[a] \in Registered(q)
    BY DEF Rejects
  <1> QED
    BY <1>1, <1>2 DEF Shown

LEMMA ServeAlertInv ==
    ASSUME OneRun, AlertInv, TypeOK', NEW r \in Runs, Serve(r)
    PROVE  AlertInv'
  <1> USE DEF AlertInv
  <1>1. /\ UNCHANGED <<alert, stamp, clock, busy, at, cursor, loaded, request>>
        /\ request[r] \in Requests /\ Apply(request[r])
        /\ pc[r] = "wait"
    BY DEF Serve, siteVars, pollVars, TypeOK, Types
  <1>2. \A a \in Alerts :
             /\ shown[a] # "absent" => shown'[a] # "absent"
             /\ shown[a] = "closed" => shown'[a] = "closed"
             /\ ~Rejects(request[r]) /\ a \in request[r].open \cup request[r].closed
                    => shown'[a] # "absent"
             /\ ~Rejects(request[r]) /\ a \in request[r].closed => shown'[a] = "closed"
    BY <1>1, ApplyShows
  <1>3. AlertsStep /\ Stamped'
    BY <1>1, <1>2 DEF AlertsStep, Stamped, TypeOK, Types
  <1>4. CASE Rejects(request[r])
    <2>1. pc'[r] = "partly"
      BY <1>4 DEF Serve, TypeOK, Types
    <2> QED
      BY <1>1, <1>3, <2>1, CursorTold, RunToldStable DEF OneRun
  <1>5. CASE ~Rejects(request[r])
    <2>1. pc'[r] = "accepted"
      BY <1>5 DEF Serve, TypeOK, Types
    <2>2. Told(request[r].upto, request[r].open, request[r].closed) /\ loaded[r] = cursor
      BY <1>1 DEF RunTold
    <2>3. RunTold(r)'
      BY <1>1, <1>2, <1>5, <2>1, <2>2 DEF RunTold, Told, Beyond
    <2> QED
      BY <1>1, <1>3, <2>3, CursorTold DEF OneRun
  <1> QED
    BY <1>4, <1>5

LEMMA NextAlertInv ==
    ASSUME OnePoller, OneRun, AlertInv, [Next]_vars
    PROVE  AlertInv'
  <1>1. TypeOK'
    BY NextTypeOK DEF AlertInv
  <1> USE DEF AlertInv
  <1>2. ASSUME NEW d \in Devices, SetSource(d) PROVE AlertInv'
    <2>1. UNCHANGED <<alert, stamp, clock, busy, at, shown, cursor, runVars>>
      BY <1>2 DEF SetSource, pollVars, centreVars
    <2>2. AlertsStep /\ Stamped'
      BY <2>1 DEF AlertsStep, Stamped, TypeOK, Types
    <2> QED
      BY <1>1, <2>1, <2>2, RunsToldStable
  <1>3. ASSUME NEW p \in Pollers, Poll(p) PROVE AlertInv'
    BY <1>1, <1>3, PollAlertInv
  <1>4. ASSUME NEW r \in Runs, Sync(r) PROVE AlertInv'
    BY <1>1, <1>4, SyncAlertInv
  <1>5. ASSUME NEW r \in Runs, Serve(r) PROVE AlertInv'
    BY <1>1, <1>5, ServeAlertInv
  <1>6. ASSUME NEW r \in Runs, Refuse(r) PROVE AlertInv'
    <2>1. UNCHANGED <<alert, stamp, clock, busy, at, shown, cursor, loaded, request>>
      BY <1>6 DEF Refuse, siteVars, pollVars, centreVars
    <2>2. AlertsStep /\ Stamped'
      BY <2>1 DEF AlertsStep, Stamped, TypeOK, Types
    <2>3. pc[r] # "idle" /\ pc'[r] = "error"
      BY <1>6 DEF Refuse, TypeOK, Types
    <2> QED
      BY <1>1, <2>1, <2>2, <2>3, CursorTold, RunToldStable DEF OneRun
  <1>7. ASSUME NEW q \in stray, ServeStray(q) PROVE AlertInv'
    <2>1. UNCHANGED <<alert, stamp, clock, busy, at, cursor, runVars>> /\ Apply(q)
      BY <1>7 DEF ServeStray, siteVars, pollVars
    <2>2. \A a \in Alerts : /\ shown[a] # "absent" => shown'[a] # "absent"
                            /\ shown[a] = "closed" => shown'[a] = "closed"
      <3>1. q \in Requests
        BY DEF TypeOK, Types
      <3> QED
        BY <2>1, <3>1, ApplyShows
    <2>3. AlertsStep /\ Stamped'
      BY <2>1, <2>2 DEF AlertsStep, Stamped, TypeOK, Types
    <2> QED
      BY <1>1, <2>1, <2>3, RunsToldStable
  <1>8. CASE Retention
    <2>1. UNCHANGED <<clock, busy, at, shown, cursor, runVars>>
      BY <1>8 DEF Retention, pollVars, centreVars
    <2>2. PICK A \in SUBSET {a \in Alerts : alert[a] = "closed"} :
            /\ alert' = [a \in Alerts |-> IF a \in A THEN "absent" ELSE alert[a]]
            /\ stamp' = [a \in Alerts |-> IF a \in A THEN 0 ELSE stamp[a]]
      BY <1>8 DEF Retention
    <2>3. AlertsStep
      BY <2>1, <2>2 DEF AlertsStep, TypeOK, Types
    <2>4. \A a \in Alerts : stamp'[a] <= stamp[a] /\ (alert'[a] # "absent" => alert[a] # "absent" /\ stamp'[a] = stamp[a])
      BY <2>2 DEF TypeOK, Types
    <2>5. Stamped'
      BY <1>1, <2>1, <2>4 DEF Stamped, TypeOK, Types
    <2> QED
      BY <1>1, <2>1, <2>3, <2>5, RunsToldStable
  <1>9. CASE UNCHANGED vars
    <2>1. UNCHANGED <<alert, stamp, clock, busy, at, shown, cursor, runVars>>
      BY <1>9 DEF vars, siteVars, pollVars, centreVars
    <2>2. AlertsStep /\ Stamped'
      BY <2>1 DEF AlertsStep, Stamped, TypeOK, Types
    <2> QED
      BY <1>1, <2>1, <2>2, RunsToldStable
  <1> QED
    BY <1>2, <1>3, <1>4, <1>5, <1>6, <1>7, <1>8, <1>9 DEF Next

LEMMA InitAlertInv == Init => AlertInv
  <1> SUFFICES ASSUME Init PROVE AlertInv
    OBVIOUS
  <1>1. TypeOK
    BY InitTypeOK
  <1>2. Stamped
    BY DEF Init, Stamped
  <1>3. Told(cursor, {}, {})
    BY DEF Init, Told, Start
  <1>4. \A r \in Runs : RunTold(r)
    BY DEF Init, RunTold
  <1> QED
    BY <1>1, <1>2, <1>3, <1>4 DEF AlertInv

(* With one polling process and one synchronising run at a time, the       *)
(* composite cursor passes no alert the centre has not heard of and no     *)
(* resolution it has not applied, whichever requests are lost, repeated,   *)
(* late or partly refused.                                                 *)
THEOREM AlertsNotSkipped ==
    ASSUME OnePoller, OneRun
    PROVE  Spec => []AlertsCovered
  <1>1. Init => AlertInv
    BY InitAlertInv
  <1>2. AlertInv /\ [Next]_vars => AlertInv'
    BY NextAlertInv
  <1>3. AlertInv => AlertsCovered
    BY DEF AlertInv, Told, AlertsCovered
  <1> QED
    BY <1>1, <1>2, <1>3, PTL DEF Spec
=============================================================================
