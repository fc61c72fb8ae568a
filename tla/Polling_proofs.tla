--------------------------- MODULE Polling_proofs ---------------------------
(***************************************************************************)
(* The settings of devices and the alerts a poll opens and closes, for any *)
(* number of devices, profiles, problems and faults.                       *)
(***************************************************************************)
EXTENDS Polling, TLAPS

(***************************************************************************)
(* A poll under way is about devices there are, and the alerts it loaded   *)
(* are as it loaded them, but for those retention has deleted.             *)
(***************************************************************************)
RunPolls == [step : {"run"}, todo : [Sources -> SUBSET Devices], ok : SUBSET Devices]
IngestPolls ==
    [step : {"ingest"}, todo : [Sources -> SUBSET Devices], ok : SUBSET Devices,
     source : Sources, dev : Devices, told : SUBSET Problems,
     loaded : [Problems -> AlertStates \cup {Missing}]]

TodoInv ==
    /\ poll # Idle => \A s \in Sources : \A d \in poll.todo[s] : device[d] # Missing
    /\ poll.step = "ingest" => device[poll.dev] # Missing

LoadedInv ==
    poll.step = "ingest" =>
        \A k \in Problems :
            IF k \in Of(poll.source)
            THEN \/ alert[poll.dev][k] = poll.loaded[k]
                 \/ poll.loaded[k] = "old" /\ alert[poll.dev][k] = Missing
            ELSE poll.loaded[k] = Missing

IInv == TypeOK /\ TodoInv /\ LoadedInv

ShownStep ==
    poll.step = "ingest" /\ poll'.step = "run" /\ poll'.ok # poll.ok =>
        LET d == poll.dev IN
        \A k \in Problems :
           alert'[d][k] = "open" <=>
              IF k \in Of(poll.source) THEN k \in poll.told ELSE alert[d][k] = "open"

LEMMA PollIs ==
    ASSUME TypeOK
    PROVE  /\ poll = Idle \/ poll \in RunPolls \/ poll \in IngestPolls
           /\ poll.step = "run" => poll \in RunPolls
           /\ poll.step = "ingest" => poll \in IngestPolls
           /\ poll # Idle => poll.todo \in [Sources -> SUBSET Devices] /\ poll.ok \in SUBSET Devices
  BY DEF TypeOK, Polls, Idle, RunPolls, IngestPolls

LEMMA InitIInv == Init => IInv
  <1> SUFFICES ASSUME Init PROVE IInv
    OBVIOUS
  <1>1. poll = Idle /\ poll.step = "idle"
    BY DEF Init, Idle
  <1>2. TypeOK
    BY <1>1, FaultAssumption DEF Init, TypeOK, Polls, Answers
  <1> QED
    BY <1>1, <1>2 DEF IInv, TodoInv, LoadedInv

-----------------------------------------------------------------------------
(***************************************************************************)
(* The forms                                                               *)
(***************************************************************************)
LEMMA ProfileIInv ==
    ASSUME IInv, NEW p \in Profiles, NEW complete \in BOOLEAN,
           SaveProfile(p, complete) \/ SetProfileActive(p)
    PROVE  IInv'
  <1> USE DEF IInv
  <1>1. UNCHANGED <<zabbix, device, problem, answers, alert, poll, faults>>
    BY DEF SaveProfile, SetProfileActive
  <1>2. /\ profile' \in [Profiles -> ProfileRows \cup {Missing}]
        /\ \A q \in Profiles : profile[q] # Missing => profile'[q] # Missing
    <2>1. PICK new \in ProfileRows : profile' = [profile EXCEPT ![p] = new]
      <3>1. CASE SaveProfile(p, complete)
        <4> DEFINE new == [active |-> IF profile[p] = Missing THEN TRUE ELSE profile[p].active,
                           complete |-> complete]
        <4>1. profile[p] # Missing => profile[p].active \in BOOLEAN
          BY DEF TypeOK, ProfileRows
        <4>2. new \in ProfileRows
          BY <4>1 DEF ProfileRows
        <4>3. profile' = [profile EXCEPT ![p] = new]
          BY <3>1 DEF SaveProfile
        <4> QED
          BY <4>2, <4>3
      <3>2. CASE SetProfileActive(p)
        <4> DEFINE new == [profile[p] EXCEPT !.active = ~@]
        <4> profile[p] \in ProfileRows
          BY <3>2 DEF SetProfileActive, TypeOK
        <4>1. new \in ProfileRows
          BY DEF ProfileRows
        <4>2. profile' = [profile EXCEPT ![p] = new]
          BY <3>2 DEF SetProfileActive
        <4> QED
          BY <4>1, <4>2
      <3> QED
        BY <3>1, <3>2
    <2>2. new # Missing
      BY <2>1, MissingAssumption DEF ProfileRows
    <2> QED
      BY <2>1, <2>2 DEF TypeOK
  <1>3. TypeOK'
    <2>1. ASSUME NEW d \in Devices, device[d] # Missing, device[d].source = "direct_snmp"
          PROVE  HasAddress[d] /\ profile'[device[d].profile] # Missing
      <3>1. device[d].profile \in Profiles
        BY <2>1 DEF TypeOK, DeviceRows, Settings
      <3> QED
        BY <1>2, <2>1, <3>1 DEF TypeOK
    <2> QED
      BY <1>1, <1>2, <2>1 DEF TypeOK
  <1>4. TodoInv' /\ LoadedInv'
    BY <1>1 DEF TodoInv, LoadedInv
  <1> QED
    BY <1>3, <1>4

LEMMA SaveDeviceIInv ==
    ASSUME IInv, NEW d \in Devices, NEW form \in OfferedSettings, SaveDevice(d, form)
    PROVE  IInv'
  <1> USE DEF IInv
  <1> DEFINE new == [form EXCEPT !.profile = IF form.source = "direct_snmp" THEN @ ELSE None]
  <1>1. /\ device' = [device EXCEPT ![d] = new]
        /\ UNCHANGED <<zabbix, profile, problem, answers, alert, poll, faults>>
        /\ Accepted(d, form)
    BY DEF SaveDevice
  <1>2. /\ form \in Settings /\ new \in Settings
        /\ new.source = form.source /\ new.host = form.host
        /\ new.profile = IF form.source = "direct_snmp" THEN form.profile ELSE None
    BY FormAssumption DEF Settings
  <1>3. new \in DeviceRows /\ new # Missing
    BY <1>1, <1>2, MissingAssumption DEF Accepted, DeviceRows
  <1>4. /\ device' \in [Devices -> DeviceRows \cup {Missing}]
        /\ device'[d] = new /\ \A e \in Devices \ {d} : device'[e] = device[e]
    BY <1>1, <1>3 DEF TypeOK
  <1>5. TypeOK'
    <2>1. ASSUME NEW e \in Devices, device'[e] # Missing
          PROVE  /\ device'[e].source = "direct_snmp" => HasAddress[e] /\ profile[device'[e].profile] # Missing
                 /\ device'[e].source = "zabbix_api" => device'[e].host
      <3>1. CASE e = d
        BY <1>1, <1>2, <1>4, <3>1 DEF Accepted
      <3>2. CASE e # d
        BY <1>4, <2>1, <3>2 DEF TypeOK
      <3> QED
        BY <3>1, <3>2
    <2>2. \A e \in Devices : device'[e] = Missing => \A k \in Problems : alert[e][k] = Missing
      BY <1>3, <1>4 DEF TypeOK
    <2> QED
      BY <1>1, <1>4, <2>1, <2>2 DEF TypeOK
  <1>6. TodoInv' /\ LoadedInv'
    BY <1>1, <1>3, <1>4, PollIs DEF TodoInv, LoadedInv, IngestPolls
  <1> QED
    BY <1>5, <1>6

-----------------------------------------------------------------------------
(***************************************************************************)
(* The devices, the poll and retention                                     *)
(***************************************************************************)
LEMMA WorldIInv ==
    ASSUME IInv,
           \/ \E d \in Devices, k \in Problems : ProblemsChange(d, k)
           \/ \E d \in Devices, how \in Answers : AnswersChange(d, how)
    PROVE  IInv'
  <1>1. UNCHANGED <<zabbix, profile, device, alert, poll, faults>>
    BY DEF ProblemsChange, AnswersChange
  <1>2. problem' \in [Devices -> SUBSET Problems]
    BY DEF ProblemsChange, AnswersChange, IInv, TypeOK
  <1>3. answers' \in [Devices -> Answers]
    BY DEF ProblemsChange, AnswersChange, IInv, TypeOK
  <1>4. TypeOK'
    BY <1>1, <1>2, <1>3 DEF IInv, TypeOK
  <1> QED
    BY <1>1, <1>4 DEF IInv, TodoInv, LoadedInv

LEMMA GrowOldIInv ==
    ASSUME IInv, NEW d \in Devices, NEW k \in Problems, GrowOld(d, k)
    PROVE  IInv'
  <1> USE DEF IInv
  <1>1. /\ poll = Idle /\ alert[d][k] = "resolved"
        /\ alert' = [alert EXCEPT ![d] = [alert[d] EXCEPT ![k] = "old"]]
        /\ UNCHANGED <<zabbix, profile, device, problem, answers, poll, faults>>
    BY DEF GrowOld
  <1>2. alert' \in [Devices -> [Problems -> AlertStates \cup {Missing}]]
    BY <1>1 DEF TypeOK, AlertStates
  <1>3. \A e \in Devices : device[e] = Missing => \A j \in Problems : alert'[e][j] = Missing
    <2>1. device[d] # Missing
      BY <1>1, MissingAssumption DEF TypeOK
    <2> QED
      BY <1>1, <2>1 DEF TypeOK
  <1>4. TypeOK'
    BY <1>1, <1>2, <1>3 DEF TypeOK
  <1> QED
    BY <1>1, <1>4 DEF TodoInv, LoadedInv, Idle

LEMMA PurgeIInv == ASSUME IInv, PurgeAlerts PROVE IInv'
  <1> USE DEF IInv
  <1>1. /\ alert' = [d \in Devices |-> [k \in Problems |-> IF alert[d][k] = "old" THEN Missing ELSE alert[d][k]]]
        /\ UNCHANGED <<zabbix, profile, device, problem, answers, poll, faults>>
    BY DEF PurgeAlerts
  <1>2. /\ alert' \in [Devices -> [Problems -> AlertStates \cup {Missing}]]
        /\ \A d \in Devices, k \in Problems :
              alert'[d][k] = IF alert[d][k] = "old" THEN Missing ELSE alert[d][k]
    BY <1>1 DEF TypeOK
  <1>3. TypeOK'
    BY <1>1, <1>2 DEF TypeOK
  <1>4. TodoInv'
    BY <1>1 DEF TodoInv
  <1>5. LoadedInv'
    <2>1. ASSUME poll.step = "ingest", NEW k \in Problems
          PROVE  IF k \in Of(poll.source)
                 THEN \/ alert'[poll.dev][k] = poll.loaded[k]
                      \/ poll.loaded[k] = "old" /\ alert'[poll.dev][k] = Missing
                 ELSE poll.loaded[k] = Missing
      <3>1. poll.dev \in Devices
        BY <2>1, PollIs DEF IngestPolls
      <3> QED
        BY <1>2, <2>1, <3>1 DEF LoadedInv
    <2> QED
      BY <1>1, <2>1 DEF LoadedInv
  <1> QED
    BY <1>3, <1>4, <1>5

(* Steps that change nothing but the poll and the faults.                  *)
LEMMA PollIInv ==
    ASSUME IInv, UNCHANGED <<zabbix, profile, device, problem, answers, alert>>,
           poll' = Idle \/ poll' \in RunPolls, faults' \in 0 .. MaxFaults,
           poll' # Idle => \A s \in Sources : \A d \in poll'.todo[s] : device[d] # Missing
    PROVE  IInv'
  <1>1. poll' \in Polls /\ poll'.step # "ingest"
    BY DEF Polls, RunPolls, Idle
  <1>2. TypeOK'
    BY <1>1 DEF IInv, TypeOK
  <1> QED
    BY <1>1, <1>2 DEF IInv, TodoInv, LoadedInv

LEMMA RunIInv ==
    ASSUME IInv, StartPoll \/ FinishPoll \/ FailIngest \/ Die \/ UNCHANGED vars
    PROVE  IInv'
  <1> USE DEF IInv
  <1>1. CASE StartPoll
    <2> DEFINE lists == [s \in Sources |-> IF s = "zabbix_api" /\ ~zabbix THEN {} ELSE Listed(s)]
    <2>1. /\ poll' = [step |-> "run", ok |-> {}, todo |-> lists]
          /\ UNCHANGED <<zabbix, profile, device, problem, answers, alert, faults>>
      BY <1>1 DEF StartPoll
    <2>2. lists \in [Sources -> SUBSET Devices]
      BY DEF Listed
    <2>3. poll' \in RunPolls
      BY <2>1, <2>2 DEF RunPolls
    <2>4. \A s \in Sources : \A d \in poll'.todo[s] : device[d] # Missing
      BY <2>1 DEF Listed
    <2> QED
      BY <2>1, <2>3, <2>4, PollIInv DEF TypeOK
  <1>2. CASE FinishPoll
    BY <1>2, PollIInv DEF FinishPoll, TypeOK
  <1>3. CASE FailIngest
    <2>1. /\ poll' = [step |-> "run", todo |-> poll.todo, ok |-> poll.ok] /\ faults' = faults + 1
          /\ poll.step = "ingest" /\ faults < MaxFaults
          /\ UNCHANGED <<zabbix, profile, device, problem, answers, alert>>
      BY <1>3 DEF FailIngest, NextDevice
    <2>2. poll \in IngestPolls /\ poll # Idle
      BY <2>1, PollIs DEF Idle
    <2>3. poll' \in RunPolls /\ \A s \in Sources : \A d \in poll'.todo[s] : device[d] # Missing
      BY <2>1, <2>2 DEF IngestPolls, RunPolls, TodoInv
    <2>4. faults' \in 0 .. MaxFaults
      BY <2>1, FaultAssumption DEF TypeOK
    <2> QED
      BY <2>1, <2>3, <2>4, PollIInv
  <1>4. CASE Die
    <2>1. faults' \in 0 .. MaxFaults
      BY <1>4, FaultAssumption DEF Die, TypeOK
    <2> QED
      BY <1>4, <2>1, PollIInv DEF Die
  <1>5. CASE UNCHANGED vars
    BY <1>5 DEF vars, TypeOK, TodoInv, LoadedInv
  <1> QED
    BY <1>1, <1>2, <1>3, <1>4, <1>5

LEMMA VisitedLess ==
    ASSUME IInv, NEW s \in Sources, NEW d \in Devices, Turn(s, d)
    PROVE  /\ poll \in RunPolls /\ poll # Idle /\ device[d] # Missing
           /\ Visited(s, d) \in [Sources -> SUBSET Devices]
           /\ \A t \in Sources : \A e \in Visited(s, d)[t] : device[e] # Missing
  <1>1. poll \in RunPolls /\ poll # Idle /\ d \in poll.todo[s]
    BY PollIs DEF IInv, Turn, Idle
  <1>2. /\ Visited(s, d) \in [Sources -> SUBSET Devices]
        /\ \A t \in Sources : Visited(s, d)[t] \subseteq poll.todo[t]
    BY <1>1 DEF RunPolls, Visited
  <1> QED
    BY <1>1, <1>2 DEF IInv, TodoInv

LEMMA SkipIInv ==
    ASSUME IInv, NEW s \in Sources, NEW d \in Devices, SkipDevice(s, d)
    PROVE  IInv'
  <1>1. /\ poll' = [poll EXCEPT !.todo = Visited(s, d)]
        /\ UNCHANGED <<zabbix, profile, device, problem, answers, alert, faults>>
        /\ Turn(s, d)
    BY DEF SkipDevice
  <1>2. poll' \in RunPolls /\ poll'.todo = Visited(s, d)
    BY <1>1, VisitedLess DEF RunPolls
  <1> QED
    BY <1>1, <1>2, VisitedLess, PollIInv DEF IInv, TypeOK

LEMMA ReadIInv ==
    ASSUME IInv, NEW s \in Sources, NEW d \in Devices, ReadDevice(s, d)
    PROVE  IInv'
  <1> USE DEF IInv
  <1> DEFINE rows == [k \in Problems |-> IF k \in Of(s) THEN alert[d][k] ELSE Missing]
  <1>1. /\ poll' = [step |-> "ingest", todo |-> Visited(s, d), ok |-> poll.ok, source |-> s,
                    dev |-> d, told |-> Told(s, d), loaded |-> rows]
        /\ UNCHANGED <<zabbix, profile, device, problem, answers, alert, faults>>
        /\ Turn(s, d)
    BY DEF ReadDevice
  <1>2. rows \in [Problems -> AlertStates \cup {Missing}]
    BY DEF TypeOK
  <1>3. Told(s, d) \subseteq Of(s) /\ Told(s, d) \in SUBSET Problems
    BY DEF Told, Of, Problems
  <1>4. poll' \in IngestPolls
    BY <1>1, <1>2, <1>3, VisitedLess DEF IngestPolls, RunPolls
  <1>5. TypeOK'
    <2>1. poll' \in Polls
      BY <1>4 DEF IngestPolls, Polls
    <2> QED
      BY <1>1, <1>3, <2>1 DEF TypeOK
  <1>6. TodoInv' /\ LoadedInv'
    BY <1>1, VisitedLess DEF TodoInv, LoadedInv
  <1> QED
    BY <1>5, <1>6

(* The commit of a device.                                                 *)
LEMMA IngestIInv ==
    ASSUME IInv, Ingest
    PROVE  IInv' /\ ShownStep
  <1> USE DEF IInv
  <1>1. /\ poll.step = "ingest" /\ poll \in IngestPolls /\ poll # Idle
        /\ UNCHANGED <<zabbix, profile, device, problem, answers, faults>>
    BY PollIs DEF Ingest, Idle
  <1>2. \A ok \in SUBSET Devices :
           /\ NextDevice(ok) \in RunPolls /\ NextDevice(ok).ok = ok
           /\ \A s \in Sources : \A d \in NextDevice(ok).todo[s] : device[d] # Missing
    BY <1>1 DEF NextDevice, RunPolls, IngestPolls, TodoInv
  <1>3. CASE \E k \in Updated : alert[poll.dev][k] = Missing
    <2>1. poll' = NextDevice(poll.ok) /\ alert' = alert
      BY <1>3 DEF Ingest
    <2>2. poll.ok \in SUBSET Devices
      BY <1>1 DEF IngestPolls
    <2>3. poll' \in RunPolls /\ poll'.ok = poll.ok
          /\ \A s \in Sources : \A d \in poll'.todo[s] : device[d] # Missing
      BY <1>2, <2>1, <2>2
    <2> QED
      BY <1>1, <2>1, <2>3, PollIInv DEF TypeOK, ShownStep
  <1>4. CASE ~\E k \in Updated : alert[poll.dev][k] = Missing
    <2> DEFINE new == [k \in Problems |-> Reconciled(k)]
    <2>1. /\ alert' = [alert EXCEPT ![poll.dev] = new]
          /\ poll' = NextDevice(poll.ok \cup {poll.dev})
      BY <1>4 DEF Ingest
    <2>2. poll.dev \in Devices /\ poll.ok \in SUBSET Devices
      BY <1>1 DEF IngestPolls
    <2>3. poll' \in RunPolls
          /\ \A s \in Sources : \A d \in poll'.todo[s] : device[d] # Missing
      BY <1>2, <2>1, <2>2
    <2>4. poll' \in Polls /\ poll'.step = "run"
      BY <2>3 DEF RunPolls, Polls
    <2>5. new \in [Problems -> AlertStates \cup {Missing}]
      <3>1. \A k \in Problems : Reconciled(k) \in AlertStates \cup {Missing}
        BY <2>2 DEF Reconciled, AlertStates, TypeOK
      <3> QED
        BY <3>1
    <2>6. /\ alert' \in [Devices -> [Problems -> AlertStates \cup {Missing}]]
          /\ alert'[poll.dev] = new /\ \A d \in Devices \ {poll.dev} : alert'[d] = alert[d]
      BY <2>1, <2>2, <2>5 DEF TypeOK
    <2>7. TypeOK'
      <3>1. device[poll.dev] # Missing
        BY <1>1 DEF TodoInv
      <3>2. \A d \in Devices : device[d] = Missing => \A k \in Problems : alert'[d][k] = Missing
        BY <2>6, <3>1 DEF TypeOK
      <3> QED
        BY <1>1, <2>4, <2>6, <3>2 DEF TypeOK
    <2>8. TodoInv' /\ LoadedInv'
      BY <1>1, <2>3, <2>4 DEF TodoInv, LoadedInv
    <2>9. ShownStep
      <3>1. ASSUME NEW k \in Problems
            PROVE  Reconciled(k) = "open" <=>
                      IF k \in Of(poll.source) THEN k \in poll.told ELSE alert[poll.dev][k] = "open"
        <4>1. poll.told \subseteq Of(poll.source)
          BY <1>1 DEF TypeOK
        <4>2. CASE k \in Of(poll.source)
          BY <1>1, <4>2, MissingAssumption DEF LoadedInv, Reconciled
        <4>3. CASE k \notin Of(poll.source)
          BY <1>1, <4>1, <4>3, MissingAssumption DEF LoadedInv, Reconciled
        <4> QED
          BY <4>2, <4>3
      <3> QED
        BY <2>6, <3>1 DEF ShownStep
    <2> QED
      BY <2>7, <2>8, <2>9
  <1> QED
    BY <1>3, <1>4

-----------------------------------------------------------------------------
LEMMA NextIInv == ASSUME IInv, [Next]_vars PROVE IInv'
  <1>1. CASE Form
    BY <1>1, ProfileIInv, SaveDeviceIInv DEF Form
  <1>2. CASE World
    BY <1>2, WorldIInv, GrowOldIInv DEF World
  <1>3. CASE PollStep
    BY <1>3, RunIInv, IngestIInv, SkipIInv, ReadIInv DEF PollStep
  <1> QED
    BY <1>1, <1>2, <1>3, RunIInv, PurgeIInv DEF Next

LEMMA NextShown == ASSUME IInv, [Next]_vars PROVE [ShownStep]_vars
  <1> USE DEF IInv
  <1>1. CASE Ingest
    BY <1>1, IngestIInv
  <1>2. CASE FailIngest
    BY <1>2 DEF FailIngest, NextDevice, ShownStep
  <1>3. ASSUME poll' = poll \/ poll.step # "ingest" \/ poll' = Idle PROVE ShownStep
    BY <1>3 DEF ShownStep, Idle
  <1>4. CASE StartPoll \/ FinishPoll \/ Die \/ \E s \in Sources, d \in Devices : SkipDevice(s, d) \/ ReadDevice(s, d)
    BY <1>3, <1>4 DEF StartPoll, FinishPoll, Die, SkipDevice, ReadDevice, Turn, Idle
  <1>5. CASE Form \/ World \/ PurgeAlerts \/ UNCHANGED vars
    BY <1>3, <1>5 DEF Form, World, PurgeAlerts, vars, SaveProfile, SetProfileActive, SaveDevice,
                      ProblemsChange, GrowOld, AnswersChange
  <1> QED
    BY <1>1, <1>2, <1>4, <1>5 DEF Next, PollStep

(* The inductive invariant holds of every behaviour.                       *)
THEOREM InvariantHolds == Spec => []IInv
  <1>1. IInv /\ [Next]_vars => IInv'
    BY NextIInv
  <1> QED
    BY <1>1, InitIInv, PTL DEF Spec

(* Every variable keeps its type; in particular a device with a source has *)
(* what the source needs, whatever the forms do while a poll runs, and no  *)
(* alert is without its device.                                            *)
THEOREM TypeCorrect == Spec => []TypeOK
  <1>1. IInv => TypeOK
    BY DEF IInv
  <1> QED
    BY <1>1, InvariantHolds, PTL

(* When the poll of a device commits, the open alerts of its source are    *)
(* those the reading told of, for any number of devices and problems.      *)
THEOREM ReadingIsShown == Spec => IngestedIsShown
  <1>1. IInv /\ [Next]_vars
           => [poll.step = "ingest" /\ poll'.step = "run" /\ poll'.ok # poll.ok =>
                  LET d == poll.dev IN
                  \A k \in Problems :
                     alert'[d][k] = "open" <=>
                        IF k \in Of(poll.source) THEN k \in poll.told ELSE alert[d][k] = "open"]_vars
    BY NextShown DEF ShownStep
  <1>2. IInv /\ [Next]_vars => IInv'
    BY NextIInv
  <1> QED
    BY <1>1, <1>2, InitIInv, PTL DEF Spec, IngestedIsShown
=============================================================================
