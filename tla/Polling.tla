------------------------------ MODULE Polling ------------------------------
(***************************************************************************)
(* The physical printers of a site, the forms that say how each is         *)
(* monitored (printaudit/monitoring/devices.py, snmp_profiles.py), the     *)
(* scheduled poll of Zabbix and of the printers themselves                 *)
(* (collector/monitor_printers.py with the two adapters), and the alerts   *)
(* it opens, closes and reopens (ingest.py), which the daily retention     *)
(* deletes once they have been resolved for long (retention.py).           *)
(*                                                                         *)
(* The Task Scheduler never runs two polls at once, but a poll goes on for *)
(* as long as its devices take to answer, and forms and retention commit   *)
(* meanwhile: it lists the devices once, reads each device again when its  *)
(* turn comes, and writes the alerts it loaded then.                       *)
(*                                                                         *)
(* Readings are reduced to the problems they report and whether they tell  *)
(* of any; samples are the matter of Trends.                               *)
(***************************************************************************)
EXTENDS Integers, FiniteSets

CONSTANTS
    Devices,
    Profiles,         \* rows of snmp_profiles
    ZabbixProblems,   \* incidents of Zabbix, named by their eventid
    SnmpProblems,     \* alert types the SNMP adapter reports
    OfferedSettings,  \* what the form of the source is filled with
    HasAddress,       \* HasAddress[d]: the device is created with an IP address
    MaxFaults,        \* bound: how often a poll fails to commit or dies
    None,             \* NULL
    Missing           \* no row

Sources == {"zabbix_api", "direct_snmp"}
Problems == ZabbixProblems \cup SnmpProblems

\* The problems that a source knows.
Of(source) == IF source = "zabbix_api" THEN ZabbixProblems ELSE SnmpProblems

Settings == [source : Sources \cup {"manual", "disabled"}, profile : Profiles \cup {None},
             host : BOOLEAN]

ASSUME NullAssumption == None # Missing /\ {None, Missing} \cap Profiles = {}
ASSUME MissingAssumption ==
    Missing \notin Settings \cup {"open", "resolved", "old"} \cup [active : BOOLEAN, complete : BOOLEAN]
ASSUME ProblemsAssumption == ZabbixProblems \cap SnmpProblems = {}
ASSUME FormAssumption ==
    /\ OfferedSettings \subseteq Settings
    /\ HasAddress \in [Devices -> BOOLEAN]
ASSUME FaultAssumption == MaxFaults \in Nat

VARIABLES
    zabbix,    \* ZABBIX_API_URL and ZABBIX_API_TOKEN are set
    profile,   \* profile[p]: the row, or Missing
    device,    \* device[d]: how the device is monitored, or Missing
    problem,   \* problem[d]: what is wrong with the device
    answers,   \* answers[d]: how much of what a poll asks about it gets an answer
    alert,     \* alert[d][k]: the row of printer_alerts for problem k, or Missing
    poll,      \* the run of monitor_printers.run_once
    faults     \* faults so far

vars == <<zabbix, profile, device, problem, answers, alert, poll, faults>>

Answers == {"all", "partly", "nothing", "garbled"}
AlertStates == {"open", "resolved", "old"}
ProfileRows == [active : BOOLEAN, complete : BOOLEAN]
DeviceRows == {s \in Settings : s.source = "direct_snmp" <=> s.profile # None}

Idle == [step |-> "idle"]
NoLists == [s \in Sources |-> {}]
Polls ==
    {Idle} \cup
    [step : {"run"}, todo : [Sources -> SUBSET Devices], ok : SUBSET Devices]
    \cup [step : {"ingest"}, todo : [Sources -> SUBSET Devices], ok : SUBSET Devices,
          source : Sources, dev : Devices, told : SUBSET Problems,
          loaded : [Problems -> AlertStates \cup {Missing}]]

TypeOK ==
    /\ zabbix \in BOOLEAN
    /\ profile \in [Profiles -> ProfileRows \cup {Missing}]
    /\ device \in [Devices -> DeviceRows \cup {Missing}]
    \* A monitored device is configured for its source.
    /\ \A d \in Devices : device[d] # Missing =>
          /\ device[d].source = "direct_snmp" => HasAddress[d] /\ profile[device[d].profile] # Missing
          /\ device[d].source = "zabbix_api" => device[d].host
    /\ problem \in [Devices -> SUBSET Problems]
    /\ answers \in [Devices -> Answers]
    /\ alert \in [Devices -> [Problems -> AlertStates \cup {Missing}]]
    /\ poll \in Polls
    \* No alert without a device, none told by the wrong source.
    /\ \A d \in Devices : device[d] = Missing => \A k \in Problems : alert[d][k] = Missing
    /\ poll.step = "ingest" => poll.told \subseteq Of(poll.source)
    /\ faults \in 0 .. MaxFaults

Init ==
    /\ zabbix \in BOOLEAN
    /\ profile = [p \in Profiles |-> Missing]
    /\ device = [d \in Devices |-> Missing]
    /\ problem = [d \in Devices |-> {}]
    /\ answers = [d \in Devices |-> "all"]
    /\ alert = [d \in Devices |-> [k \in Problems |-> Missing]]
    /\ poll = Idle
    /\ faults = 0

-----------------------------------------------------------------------------
(* The forms                                                               *)

\* The form checks that the secrets are named; whether the variables of the
\* environment it names are set shows at the first poll.
SaveProfile(p, complete) ==
    /\ profile' = [profile EXCEPT ![p] =
          [active |-> IF @ = Missing THEN TRUE ELSE @.active, complete |-> complete]]
    /\ UNCHANGED <<zabbix, device, problem, answers, alert, poll, faults>>

SetProfileActive(p) ==
    /\ profile[p] # Missing
    /\ profile' = [profile EXCEPT ![p].active = ~@]
    /\ UNCHANGED <<zabbix, device, problem, answers, alert, poll, faults>>

\* What the forms require of the settings of device d.
Accepted(d, form) ==
    /\ form.source = "direct_snmp" =>
          /\ form.profile # None /\ profile[form.profile] # Missing
          /\ profile[form.profile].active
          /\ HasAddress[d]
    /\ form.source = "zabbix_api" => form.host

\* Slip: the Zabbix host is required for Zabbix only when the device is created.
SaveDevice_NoHostCheck(d, form) ==
    /\ IF device[d] = Missing THEN Accepted(d, form) ELSE Accepted(d, [form EXCEPT !.host = TRUE])
    /\ device' = [device EXCEPT ![d] =
          [form EXCEPT !.profile = IF form.source = "direct_snmp" THEN @ ELSE None]]
    /\ UNCHANGED <<zabbix, profile, problem, answers, alert, poll, faults>>

\* A device is created with its source, or its source is changed: the profile is
\* kept only with SNMP, the Zabbix host with every source.
SaveDevice(d, form) ==
    /\ Accepted(d, form)
    /\ device' = [device EXCEPT ![d] =
          [form EXCEPT !.profile = IF form.source = "direct_snmp" THEN @ ELSE None]]
    /\ UNCHANGED <<zabbix, profile, problem, answers, alert, poll, faults>>

-----------------------------------------------------------------------------
(* The devices                                                             *)

\* Something breaks or is mended; an incident of Zabbix that is over has gone for good.
ProblemsChange(d, k) ==
    /\ k \in problem[d] \/ k \in SnmpProblems \/ alert[d][k] = Missing
    /\ problem' = [problem EXCEPT ![d] = IF k \in @ THEN @ \ {k} ELSE @ \cup {k}]
    /\ UNCHANGED <<zabbix, profile, device, answers, alert, poll, faults>>

\* Partly: item.get is answered and problem.get is not; over SNMP only the status is.
\* Garbled: Zabbix, or a proxy before it, answers 200 with a body that is not JSON; over
\* SNMP that is no answer.
AnswersChange(d, how) ==
    /\ answers[d] # how
    /\ answers' = [answers EXCEPT ![d] = how]
    /\ UNCHANGED <<zabbix, profile, device, problem, alert, poll, faults>>

-----------------------------------------------------------------------------
(* The poll                                                                *)

Listed(source) == {d \in Devices : device[d] # Missing /\ device[d].source = source}

\* Both lists are read when the run begins; without its settings Zabbix is left out.
StartPoll ==
    /\ poll = Idle
    /\ \E s \in Sources : Listed(s) # {}
    /\ poll' = [step |-> "run", ok |-> {},
                todo |-> [s \in Sources |-> IF s = "zabbix_api" /\ ~zabbix THEN {} ELSE Listed(s)]]
    /\ UNCHANGED <<zabbix, profile, device, problem, answers, alert, faults>>

\* Zabbix is polled before SNMP.
Turn(s, d) ==
    /\ poll.step = "run" /\ d \in poll.todo[s]
    /\ s = "direct_snmp" => poll.todo["zabbix_api"] = {}

\* The device, as it is now, can be asked through the source it was listed for.
Configured(s, d) ==
    IF s = "zabbix_api" THEN device[d].host
    ELSE device[d].profile # None /\ profile[device[d].profile].complete

\* resp.json() raises what only httpx.HTTPError is caught for (zabbix_adapter.py:65-67).
Breaks(s, d) == s = "zabbix_api" /\ answers[d] = "garbled"

Visited(s, d) == [poll.todo EXCEPT ![s] = @ \ {d}]

\* The device has no host, its profile is incomplete, or its answer breaks the reading:
\* the poll goes on with the next.
SkipDevice(s, d) ==
    /\ Turn(s, d) /\ (~Configured(s, d) \/ Breaks(s, d))
    /\ poll' = [poll EXCEPT !.todo = Visited(s, d)]
    /\ UNCHANGED <<zabbix, profile, device, problem, answers, alert, faults>>

\* The problems a reading tells of: those of the source, none if it did not answer.
Told(s, d) ==
    IF answers[d] = "all" \/ (s = "direct_snmp" /\ answers[d] = "partly")
    THEN problem[d] \cap Of(s) ELSE {}

\* The reading is taken and the alerts of the source are loaded.
ReadDevice(s, d) ==
    /\ Turn(s, d) /\ Configured(s, d) /\ ~Breaks(s, d)
    /\ poll' = [step |-> "ingest", todo |-> Visited(s, d), ok |-> poll.ok, source |-> s,
                dev |-> d, told |-> Told(s, d),
                loaded |-> [k \in Problems |-> IF k \in Of(s) THEN alert[d][k] ELSE Missing]]
    /\ UNCHANGED <<zabbix, profile, device, problem, answers, alert, faults>>

\* Slip: an alert that has a row is not opened again.
Reconciled_NoReopen(k) ==
    IF k \in poll.told
    THEN IF poll.loaded[k] # Missing THEN alert[poll.dev][k] ELSE "open"
    ELSE IF poll.loaded[k] = "open" THEN "resolved" ELSE alert[poll.dev][k]

\* _reconcile_alerts: open or reopen what is told, resolve what is not.
Reconciled(k) ==
    IF k \in poll.told
    THEN IF poll.loaded[k] = "open" THEN alert[poll.dev][k] ELSE "open"
    ELSE IF poll.loaded[k] = "open" THEN "resolved" ELSE alert[poll.dev][k]

\* The rows it updates; one deleted since it was loaded makes the commit fail.
Updated == {k \in Problems : poll.loaded[k] # Missing /\ (k \in poll.told <=> poll.loaded[k] # "open")}

NextDevice(ok) == [step |-> "run", todo |-> poll.todo, ok |-> ok]

\* Slip: a resolved alert that is told again is inserted, against the UNIQUE key.
Ingest_Inserts ==
    /\ poll.step = "ingest"
    /\ IF \E k \in poll.told : poll.loaded[k] \in {"resolved", "old"}
       THEN poll' = NextDevice(poll.ok) /\ UNCHANGED alert
       ELSE /\ alert' = [alert EXCEPT ![poll.dev] = [k \in Problems |-> Reconciled(k)]]
            /\ poll' = NextDevice(poll.ok \cup {poll.dev})
    /\ UNCHANGED <<zabbix, profile, device, problem, answers, faults>>

\* The commit of the device.
Ingest ==
    /\ poll.step = "ingest"
    /\ IF \E k \in Updated : alert[poll.dev][k] = Missing
       THEN poll' = NextDevice(poll.ok) /\ UNCHANGED alert
       ELSE /\ alert' = [alert EXCEPT ![poll.dev] = [k \in Problems |-> Reconciled(k)]]
            /\ poll' = NextDevice(poll.ok \cup {poll.dev})
    /\ UNCHANGED <<zabbix, profile, device, problem, answers, faults>>

\* The commit fails for another reason and the device is given up.
FailIngest ==
    /\ poll.step = "ingest" /\ faults < MaxFaults
    /\ poll' = NextDevice(poll.ok)
    /\ faults' = faults + 1
    /\ UNCHANGED <<zabbix, profile, device, problem, answers, alert>>

FinishPoll ==
    /\ poll.step = "run" /\ poll.todo = NoLists
    /\ poll' = Idle
    /\ UNCHANGED <<zabbix, profile, device, problem, answers, alert, faults>>

\* The process ends; what it committed stays.
Die ==
    /\ poll # Idle /\ faults < MaxFaults
    /\ poll' = Idle
    /\ faults' = faults + 1
    /\ UNCHANGED <<zabbix, profile, device, problem, answers, alert>>

-----------------------------------------------------------------------------
(* Retention                                                               *)

\* An alert has been resolved for 180 days.
GrowOld(d, k) ==
    /\ poll = Idle /\ alert[d][k] = "resolved"
    /\ alert' = [alert EXCEPT ![d][k] = "old"]
    /\ UNCHANGED <<zabbix, profile, device, problem, answers, poll, faults>>

\* purge_resolved_alerts.
PurgeAlerts ==
    /\ \E d \in Devices, k \in Problems : alert[d][k] = "old"
    /\ alert' = [d \in Devices |-> [k \in Problems |-> IF alert[d][k] = "old" THEN Missing ELSE alert[d][k]]]
    /\ UNCHANGED <<zabbix, profile, device, problem, answers, poll, faults>>

-----------------------------------------------------------------------------
Form ==
    \/ \E p \in Profiles : SetProfileActive(p) \/ \E complete \in BOOLEAN : SaveProfile(p, complete)
    \/ \E d \in Devices, form \in OfferedSettings : SaveDevice(d, form)

PollStep ==
    \/ StartPoll \/ Ingest \/ FinishPoll
    \/ \E s \in Sources, d \in Devices : SkipDevice(s, d) \/ ReadDevice(s, d)

World ==
    \/ \E d \in Devices, k \in Problems : ProblemsChange(d, k) \/ GrowOld(d, k)
    \/ \E d \in Devices, how \in Answers : AnswersChange(d, how)

Next == Form \/ PollStep \/ FailIngest \/ Die \/ World \/ PurgeAlerts

Spec == Init /\ [][Next]_vars

\* The poll is a scheduled task that starts every five minutes and bounds every request.
FairSpec == Spec /\ WF_vars(PollStep)
-----------------------------------------------------------------------------
(* Properties                                                              *)

\* When a poll of a device commits, the open alerts of its source are those the reading
\* told of, whether a row was new, open, resolved, or deleted by retention while the
\* reading was under way, and the alerts of the other source are as they were
\* (_reconcile_alerts).
IngestedIsShown ==
    [][poll.step = "ingest" /\ poll'.step = "run" /\ poll'.ok # poll.ok =>
          LET d == poll.dev IN
          \A k \in Problems :
             alert'[d][k] = "open" <=>
                IF k \in Of(poll.source) THEN k \in poll.told ELSE alert[d][k] = "open"]_vars

\* Device d stays with source s, which can be asked about it.
Asked(d, s) ==
    /\ device[d] # Missing /\ device[d].source = s /\ Configured(s, d)
    /\ s = "zabbix_api" => zabbix

\* The alerts follow the device: a problem that lasts ends up with an open alert if its
\* source goes on answering, and one that is gone without one, answers or not (but for
\* answers that break the reading, on which nothing is written), as long as the device
\* stays with that source; whatever was failed, skipped, resolved by mistake or deleted
\* before (docs/PRINTER_MONITORING_FORECASTING.md:43).
AlertsFollow ==
    \A d \in Devices, s \in Sources : \A k \in Of(s) :
       /\ <>[](Asked(d, s) /\ answers[d] = "all" /\ k \in problem[d]) => <>[](alert[d][k] = "open")
       /\ <>[](Asked(d, s) /\ ~Breaks(s, d) /\ k \notin problem[d]) => <>[](alert[d][k] # "open")
=============================================================================
