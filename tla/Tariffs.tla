------------------------------ MODULE Tariffs ------------------------------
(***************************************************************************)
(* The printer queues of a site's Print Server and what a printed page     *)
(* costs: the rows the collector and the discovery of queues create        *)
(* (printaudit/sites.py, printaudit/printers/discovery.py, resolver.py),   *)
(* the tariffs, and the charge a job gets when it is recorded.             *)
(*                                                                         *)
(* The collector and the discovery each read first and write in a commit   *)
(* of what they read.  Either may be the first to need the site and its    *)
(* print server, or a queue: both insert what they did not find, and the   *)
(* UNIQUE constraint lets one of them commit.  A run of the collector      *)
(* commits twice: the site, the server and its cursor before it fetches,   *)
(* and then all of its events at once.  A job is named by the record id of *)
(* its event; the cursor is in Collector.                                  *)
(*                                                                         *)
(* A price is named by what decided it.  Rules are never edited, only      *)
(* created and switched off; their ids are numbers, compared to settle a   *)
(* tie.  Names that Departments has as well are told apart, so that a      *)
(* module may extend both.                                                 *)
(***************************************************************************)
EXTENDS PrintJobs, Integers, FiniteSets

CONSTANTS
    Queues,       \* printer names of the Print Server
    Listed,       \* Listed[q]: colour of the first row of price_list that matches q, or None
    RuleIds,
    OfferedRules, \* tariffs the form is filled with: queue, from, to, priority
    OfferedSettings, \* settings the form of a queue is filled with: mode, collected, priced
    QueueOf,      \* QueueOf[j]: the printer of job j
    Ahead,        \* how far the clock of the Print Server is ahead of UTC
    MaxTime       \* bound of the clock

Times == 0 .. MaxTime
Modes == {"unknown", "bw", "color"}
Rows == [active : BOOLEAN, mode : Modes, collected : BOOLEAN, priced : BOOLEAN]

ASSUME TariffNullAssumption ==
    {None, Missing} \cap (Queues \cup RuleIds \cup Times) = {} /\ Missing \notin Rows
ASSUME RulesAssumption ==
    /\ RuleIds \subseteq Nat
    /\ OfferedRules \subseteq [queue : Queues \cup {None}, from : Times \cup {None},
                               to : Times \cup {None}, priority : Int]
ASSUME QueuesAssumption ==
    /\ Listed \in [Queues -> {"bw", "color", None}] /\ QueueOf \in [Jobs -> Queues]
    /\ OfferedSettings \subseteq [mode : Modes, collected : BOOLEAN, priced : BOOLEAN]
ASSUME RecordsAssumption == Jobs \subseteq Nat
ASSUME TimeAssumption == MaxTime \in Nat /\ Ahead \in Int

VARIABLES
    server,     \* the rows of the local site and print server exist
    queue,      \* queue[q]: the row of printer_queues, or Missing
    priceRule,  \* priceRule[r]: the row of price_rules, or Missing
    now,        \* the clock of the Print Server, in local time
    printed,    \* printed[j]: when the event was logged, by that clock, or None
    charge,     \* charge[j]: what decided the price of the job and its colour;
                \* Skipped if the queue is not collected, Missing while unrecorded
    collector,  \* what a run of the collector has read
    discovery   \* what a discovery of queues has read

tariffsVars == <<server, queue, priceRule, now, printed, charge, collector, discovery>>

KnownQueues == {q \in Queues : queue[q] # Missing}
KnownRules == {r \in RuleIds : priceRule[r] # Missing}
Charges == [by : {"rule", "queue", "list", "default", "skipped"}, rule : RuleIds \cup {None},
            colour : {"rule", "bw", "color", "unknown"}]

\* The row get_or_create_printer_queue and sync_printer_queues insert.
NewQueue == [active |-> TRUE, mode |-> "unknown", collected |-> TRUE, priced |-> FALSE]

TariffsTypeOK ==
    /\ server \in BOOLEAN
    /\ queue \in [Queues -> Rows \cup {Missing}]
    /\ KnownQueues # {} => server
    /\ \A r \in KnownRules :
          /\ [f \in DOMAIN priceRule[r] \ {"active"} |-> priceRule[r][f]] \in OfferedRules
          /\ priceRule[r].queue \in KnownQueues \cup {None}
    /\ now \in Times
    /\ printed \in [Jobs -> Times \cup {None}]
    /\ charge \in [Jobs -> Charges \cup {Missing}]

TariffsInit ==
    /\ server = FALSE
    /\ queue = [q \in Queues |-> Missing]
    /\ priceRule = [r \in RuleIds |-> Missing]
    /\ now = 0
    /\ printed = [j \in Jobs |-> None]
    /\ charge = [j \in Jobs |-> Missing]
    /\ collector = Idle
    /\ discovery = Idle

-----------------------------------------------------------------------------
(* The tariff of a queue at a time                                         *)

\* The event of a queue whose collection is switched off is passed over.
Skipped == [by |-> "skipped", rule |-> None, colour |-> "unknown"]

\* Export-PrintEvents.ps1 converts the time of an event to UTC, _naive_utc drops the
\* offset.  The dates of the form have none and are left as they are: the day the
\* administrator typed is compared as a day of UTC.
NaiveUtc(at) == at - Ahead

\* _rule_applies_at: from valid_from on, before valid_to.
InPeriod(r, at) ==
    /\ priceRule[r].from = None \/ NaiveUtc(at) >= priceRule[r].from
    /\ priceRule[r].to = None \/ NaiveUtc(at) < priceRule[r].to

Applicable(q, at) ==
    {r \in KnownRules : priceRule[r].active /\ priceRule[r].queue \in {q, None} /\ InPeriod(r, at)}

\* Slip: rules of the queue and general ones are ordered by priority alone.
SortedBefore_Priority(r, s) ==
    \/ priceRule[r].priority > priceRule[s].priority
    \/ priceRule[r].priority = priceRule[s].priority /\ r < s

\* The sort key of resolve_price_rule: (no queue, -priority, id).
SortedBefore(r, s) ==
    LET general(x) == priceRule[x].queue = None IN
    \/ ~general(r) /\ general(s)
    \/ /\ general(r) = general(s)
       /\ \/ priceRule[r].priority > priceRule[s].priority
          \/ priceRule[r].priority = priceRule[s].priority /\ r < s

First(rules) == CHOOSE r \in rules : \A s \in rules \ {r} : SortedBefore(r, s)

\* match_price: the old price list, or the default price with no colour claimed.
Match(q) ==
    IF Listed[q] # None THEN [by |-> "list", rule |-> None, colour |-> Listed[q]]
    ELSE [by |-> "default", rule |-> None, colour |-> "unknown"]

\* resolve_price, for a queue whose row may be the new one.
ChargeFor(q, row, at) ==
    IF Applicable(q, at) # {}
    THEN [by |-> "rule", rule |-> First(Applicable(q, at)), colour |-> "rule"]
    ELSE IF row.priced THEN [by |-> "queue", rule |-> None, colour |-> row.mode]
    ELSE Match(q)

-----------------------------------------------------------------------------
(* The forms                                                               *)

UpdateQueue(q, form) ==
    /\ q \in KnownQueues
    /\ queue' = [queue EXCEPT ![q] = [f \in DOMAIN form \cup {"active"} |->
                                       IF f = "active" THEN queue[q].active ELSE form[f]]]
    /\ UNCHANGED <<server, priceRule, now, printed, charge, collector, discovery>>

\* Ids grow; a rule of a queue needs its row.
CreateRule(r, form) ==
    /\ \A s \in RuleIds : priceRule[s] = Missing <=> s >= r
    /\ form.queue \in KnownQueues \cup {None}
    /\ priceRule' = [priceRule EXCEPT ![r] = [f \in DOMAIN form \cup {"active"} |->
                                       IF f = "active" THEN TRUE ELSE form[f]]]
    /\ UNCHANGED <<server, queue, now, printed, charge, collector, discovery>>

DeactivateRule(r) ==
    /\ r \in KnownRules /\ priceRule[r].active
    /\ priceRule' = [priceRule EXCEPT ![r].active = FALSE]
    /\ UNCHANGED <<server, queue, now, printed, charge, collector, discovery>>

-----------------------------------------------------------------------------
(* The collector                                                           *)

\* Record ids grow.
PrintJob(j) ==
    /\ \A k \in Jobs : printed[k] = None <=> k >= j
    /\ printed' = [printed EXCEPT ![j] = now]
    /\ UNCHANGED <<server, queue, priceRule, now, charge, collector, discovery>>

Tick ==
    /\ now < MaxTime
    /\ now' = now + 1
    /\ UNCHANGED <<server, queue, priceRule, printed, charge, collector, discovery>>

\* Slip: the site and the print server are inserted without being looked up.
LookUpServer_Inserts ==
    /\ collector = Idle
    /\ collector' = [op |-> "start", newServer |-> TRUE]
    /\ UNCHANGED <<server, queue, priceRule, now, printed, charge, discovery>>

\* A run begins: get_or_create_local_print_server.
LookUpServer ==
    /\ collector = Idle
    /\ collector' = [op |-> "start", newServer |-> ~server]
    /\ UNCHANGED <<server, queue, priceRule, now, printed, charge, discovery>>

\* The run has fetched what was printed and is not recorded.
Fetched == [op |-> "run", rows |-> [q \in Queues |-> Missing], inserted |-> {},
            todo |-> {j \in Jobs : printed[j] # None /\ charge[j] = Missing},
            charges |-> [j \in Jobs |-> Missing]]

\* Slip: the site and the print server are left to a commit that never comes.
StartRun_NoServer ==
    /\ collector.op = "start"
    /\ collector' = IF collector.newServer /\ server THEN Idle ELSE Fetched
    /\ UNCHANGED <<server, queue, priceRule, now, printed, charge, discovery>>

\* A first run commits the server with its cursor (get_or_create_state), and fails if a
\* discovery did so meanwhile; later runs find both.
StartRun ==
    /\ collector.op = "start"
    /\ server' = TRUE
    /\ collector' = IF collector.newServer /\ server THEN Idle ELSE Fetched
    /\ UNCHANGED <<queue, priceRule, now, printed, charge, discovery>>

\* The row of a queue the session holds: as it was first read in this run, else as it
\* is, else the new one.
RowOf(q) ==
    IF collector.rows[q] # Missing THEN collector.rows[q]
    ELSE IF queue[q] # Missing THEN queue[q] ELSE NewQueue

\* The run gets to its next event, in the order of the log: the queue and the
\* tariff are looked up.
ReadEvent(j) ==
    /\ collector.op = "run" /\ j \in collector.todo /\ \A k \in collector.todo : j <= k
    /\ LET c == collector  q == QueueOf[j]
           cost == IF RowOf(q).collected THEN ChargeFor(q, RowOf(q), printed[j]) ELSE Skipped IN
       collector' = [op |-> "run", todo |-> c.todo \ {j},
                     rows |-> [c.rows EXCEPT ![q] = RowOf(q)],
                     inserted |-> IF c.rows[q] = Missing /\ queue[q] = Missing
                                  THEN c.inserted \cup {q} ELSE c.inserted,
                     charges |-> [c.charges EXCEPT ![j] = cost]]
    /\ UNCHANGED <<server, queue, priceRule, now, printed, charge, discovery>>

\* One commit for all events of the run; a queue inserted by the discovery meanwhile
\* makes all of it fail, and the next run reads the events again.  Of the rows that
\* were there only last_seen_at and last_job_at are written.
CommitRun ==
    /\ collector.op = "run" /\ collector.todo = {}
    /\ IF collector.inserted \cap KnownQueues # {}
       THEN UNCHANGED <<queue, charge>>
       ELSE /\ queue' = [q \in Queues |-> IF q \in collector.inserted THEN NewQueue ELSE queue[q]]
            /\ charge' = [j \in Jobs |-> IF collector.charges[j] # Missing
                                          THEN collector.charges[j] ELSE charge[j]]
    /\ collector' = Idle
    /\ UNCHANGED <<server, priceRule, now, printed, discovery>>

-----------------------------------------------------------------------------
(* The discovery                                                           *)

\* Get-Printer has listed `seen`, and the queues there are were loaded.
Discover(seen) ==
    /\ discovery = Idle
    /\ discovery' = [op |-> "sync", seen |-> seen, newServer |-> ~server,
                     loaded |-> [q \in KnownQueues |-> queue[q].active]]
    /\ UNCHANGED <<server, queue, priceRule, now, printed, charge, collector>>

\* Slip: the fields of the administrator are reset with the technical ones.
Synchronised_Resets(q) == IF q \in DOMAIN discovery.loaded
                           THEN [NewQueue EXCEPT !.active = q \in discovery.seen] ELSE NewQueue

\* A row after the synchronisation: a new one for a queue not loaded; of a loaded one
\* only is_active, and only where it differs from what was loaded.
Synchronised(q) ==
    IF q \notin DOMAIN discovery.loaded THEN NewQueue
    ELSE IF discovery.loaded[q] = (q \in discovery.seen) THEN queue[q]
    ELSE [queue[q] EXCEPT !.active = q \in discovery.seen]

CommitDiscovery ==
    /\ discovery.op = "sync"
    /\ LET d == discovery  inserted == d.seen \ DOMAIN d.loaded IN
       IF (d.newServer /\ server) \/ inserted \cap KnownQueues # {}
       THEN UNCHANGED <<server, queue>>
       ELSE /\ server' = TRUE
            /\ queue' = [q \in Queues |-> IF q \in d.seen \cup DOMAIN d.loaded
                                          THEN Synchronised(q) ELSE queue[q]]
    /\ discovery' = Idle
    /\ UNCHANGED <<priceRule, now, printed, charge, collector>>

-----------------------------------------------------------------------------
TariffForm ==
    \/ \E q \in Queues, form \in OfferedSettings : UpdateQueue(q, form)
    \/ \E r \in RuleIds, form \in OfferedRules : CreateRule(r, form)
    \/ \E r \in RuleIds : DeactivateRule(r)

Collect == LookUpServer \/ StartRun \/ (\E j \in Jobs : ReadEvent(j)) \/ CommitRun

TariffsNext ==
    \/ TariffForm
    \/ Tick
    \/ \E j \in Jobs : PrintJob(j)
    \/ Collect
    \/ \E seen \in SUBSET Queues : Discover(seen)
    \/ CommitDiscovery

TariffsSpec == TariffsInit /\ [][TariffsNext]_tariffsVars

\* The collector is a scheduled task: it runs again and again.
FairTariffsSpec == TariffsSpec /\ WF_tariffsVars(Collect)

-----------------------------------------------------------------------------
(* Properties                                                              *)

\* However late a job is recorded, and whatever was switched on or off meanwhile, the
\* rule it is charged by is of its queue or general, was valid when it was printed,
\* from valid_from on and before valid_to, and no rule of the queue valid then and
\* still active when the tariff was looked up came before a general one
\* (resolver.py:3-9, the order the documentation promises).  The days of the form
\* count as days of UTC.
ChargedAsDocumented ==
    [][\A j \in Jobs : collector.op = "run" /\ collector'.op = "run"
          /\ collector'.charges[j] \notin {collector.charges[j], Skipped} =>
          LET q == QueueOf[j]  at == printed[j] - Ahead  by == collector'.charges[j].rule
              valid(r) == /\ priceRule[r] # Missing /\ priceRule[r].active
                          /\ priceRule[r].from # None => priceRule[r].from <= at
                          /\ priceRule[r].to # None => at < priceRule[r].to
              own == {r \in RuleIds : valid(r) /\ priceRule[r].queue = q}
              general == {r \in RuleIds : valid(r) /\ priceRule[r].queue = None}
              highest(rules) == {r \in rules : \A s \in rules : priceRule[s].priority <= priceRule[r].priority}
          IN  IF own # {} THEN by \in highest(own)
              ELSE IF general # {} THEN by \in highest(general)
              ELSE by = None]_tariffsVars

\* What the administrator set on a queue is never overwritten by a discovery or a job,
\* also not by one that had read the row before the form was saved
\* (discovery.py:88-93).
SettingsKept ==
    [][\A q \in KnownQueues :
          [f \in {"mode", "collected", "priced"} |-> queue'[q][f]]
             # [f \in {"mode", "collected", "priced"} |-> queue[q][f]]
          => UNCHANGED <<collector, discovery>>]_tariffsVars

\* Every printed job is recorded or skipped in the end: the collector may lose the race
\* for the first rows of its site and server, and a run all its events to the race for
\* one queue, but not for ever.
EveryJobSettles == \A j \in Jobs : printed[j] # None ~> charge[j] # Missing
=============================================================================
