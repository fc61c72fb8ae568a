---------------------------- MODULE Departments ----------------------------
(***************************************************************************)
(* Which department a print job is charged to: the departments, the CSV    *)
(* table users, the cache of AD users with their manual departments, the   *)
(* rules "AD group -> department", and the writers of all of them          *)
(* (printaudit/department_resolver.py, the forms of webapp/admin_routes.py *)
(* and scripts/sync_users_departments.py).                                 *)
(*                                                                         *)
(* The forms that read and write one row are one step each.  Deleting a    *)
(* department and applying the rules read many rows before they write, so  *)
(* they are two steps, and jobs and the CSV script run between them.       *)
(*                                                                         *)
(* A group is imported once and never removed, so it is there from the     *)
(* start; its number orders the ids of the rules, which the code compares  *)
(* to settle a tie.  That a department is archived, and whose card is      *)
(* refreshed from AD, no department depends on.                            *)
(***************************************************************************)
EXTENDS PrintJobs, Integers, FiniteSets

CONSTANTS
    Depts,        \* ids departments can get, never used twice
    Names,        \* user_name as event 307 gives it
    Logins,       \* login_normalized of the users AD knows
    Exact,        \* Exact[n]: the login normalize_login makes of n, or None
    Qualified,    \* Qualified[n]: the one with AD_DOMAIN added, or None
    Groups,       \* AD groups, each with at most one rule (UNIQUE)
    Priorities,
    OfferedForms, \* bound: OfferedForms[g]: priority and activity the form gives a rule of g
    UserOf,       \* UserOf[j]: the name job j was printed under
    Threads,      \* threads that serve the forms
    Deleters      \* bound: those among them that may serve a deletion

ASSUME GroupsAssumption == Groups \subseteq Nat /\ IsFiniteSet(Groups)
ASSUME PrioritiesAssumption == Priorities \subseteq Int
ASSUME UsersAssumption ==
    /\ Exact \in [Names -> Logins \cup {None}] /\ Qualified \in [Names -> Logins \cup {None}]
    /\ UserOf \in [Jobs -> Names]
ASSUME NullAssumption == {None, Missing} \cap (Depts \cup Logins) = {}

VARIABLES
    dept,      \* dept[d]: "unused", "present" or "deleted"
    csv,       \* csv[n]: department_id in the table users, or Missing
    ad,        \* ad[l]: AdUser.department_id, or Missing
    locked,    \* AdUser.department_locked
    disabled,  \* AdUser.local_disabled
    member,    \* ad_group_memberships
    rule,      \* rule[g]: the row of ad_department_rules for group g, or Missing
    job,       \* job[j]: PrintJob.department_id, or Missing
    request,   \* what each thread has read
    script     \* sync_users_departments.py: "idle", or "imported" before the recount

users == <<csv, ad, locked, disabled, member>>
vars == <<dept, users, rule, job, request, script>>

Present == {d \in Depts : dept[d] = "present"}
Rules == [dept : Depts, priority : Priorities, active : BOOLEAN]

TypeOK ==
    /\ dept \in [Depts -> {"unused", "present", "deleted"}]
    /\ csv \in [Names -> Present \cup {None, Missing}]
    /\ ad \in [Logins -> Present \cup {None, Missing}]
    /\ locked \in [Logins -> BOOLEAN]
    /\ disabled \in [Logins -> BOOLEAN]
    /\ member \subseteq Groups \X Logins
    /\ \A g \in Groups : rule[g] = Missing \/ (rule[g] \in Rules /\ rule[g].dept \in Present)
    /\ job \in [Jobs -> Present \cup {None, Missing}]
    /\ script \in {"idle", "imported"}

Init ==
    /\ dept = [d \in Depts |-> "unused"]
    /\ csv = [n \in Names |-> Missing]
    /\ ad = [l \in Logins |-> Missing]
    /\ locked = [l \in Logins |-> FALSE]
    /\ disabled = [l \in Logins |-> FALSE]
    /\ member = {}
    /\ rule = [g \in Groups |-> Missing]
    /\ job = [j \in Jobs |-> Missing]
    /\ request = [t \in Threads |-> Idle]
    /\ script = "idle"

-----------------------------------------------------------------------------
(* The resolver                                                            *)

\* The active rules of the groups user l is in.
RulesFor(l) == {g \in Groups : <<g, l>> \in member /\ rule[g] # Missing /\ rule[g].active}

\* ORDER BY priority DESC, id ASC: g comes before h.
Before(g, h) ==
    \/ rule[g].priority > rule[h].priority
    \/ rule[g].priority = rule[h].priority /\ g < h

\* Slip: the rule with the smallest id wins.
Winner_First(l) == CHOOSE g \in RulesFor(l) : \A h \in RulesFor(l) \ {g} : g < h

Winner(l) == CHOOSE g \in RulesFor(l) : \A h \in RulesFor(l) \ {g} : Before(g, h)

\* resolve_department_for_ad_user, for a user whose department is not locked.
Resolved(l) == IF RulesFor(l) = {} THEN None ELSE rule[Winner(l)].dept

\* Slip: department_locked is not looked at.
Changing_Locked == {l \in Logins : ad[l] # Missing /\ ~disabled[l] /\ Resolved(l) # ad[l]}

\* plan_ad_department_sync: the users whose department would change, not the locked
\* and not the disabled ones.
Changing == {l \in Logins : ad[l] # Missing /\ ~disabled[l] /\ ~locked[l] /\ Resolved(l) # ad[l]}

\* lookup_department_for_print_job_user: the AD user, under the exact login before the
\* qualified one, decides unless disabled, also with no department; then the CSV table.
Found(l) == l # None /\ ad[l] # Missing
Card(n) == IF Found(Exact[n]) \/ Qualified[n] = Exact[n] THEN Exact[n] ELSE Qualified[n]
Lookup(n) ==
    IF Found(Card(n)) /\ ~disabled[Card(n)] THEN ad[Card(n)]
    ELSE IF csv[n] # Missing THEN csv[n] ELSE None

\* A job is recorded, by the collector or one of the APIs.
RecordJob(j) ==
    /\ job[j] = Missing
    /\ job' = [job EXCEPT ![j] = Lookup(UserOf[j])]
    /\ UNCHANGED <<dept, users, rule, request, script>>

-----------------------------------------------------------------------------
(* Forms of one row                                                        *)

CreateDepartment(d) ==
    /\ dept[d] = "unused"
    /\ dept' = [dept EXCEPT ![d] = "present"]
    /\ UNCHANGED <<users, rule, job, request, script>>

\* An AD card is cached, with no department.
ImportUser(l) ==
    /\ ad[l] = Missing
    /\ ad' = [ad EXCEPT ![l] = None]
    /\ UNCHANGED <<dept, csv, locked, disabled, member, rule, job, request, script>>

\* The manual department of a card; the foreign key refuses one that is gone.
SetDepartment(l, d, lock) ==
    /\ ad[l] # Missing
    /\ d \in Present \cup {None}
    /\ ad' = [ad EXCEPT ![l] = d]
    /\ locked' = [locked EXCEPT ![l] = lock]
    /\ UNCHANGED <<dept, csv, disabled, member, rule, job, request, script>>

SetDisabled(l) ==
    /\ ad[l] # Missing
    /\ disabled' = [disabled EXCEPT ![l] = ~disabled[l]]
    /\ UNCHANGED <<dept, csv, ad, locked, member, rule, job, request, script>>

\* The members AD reports now: unknown ones are cached, the others leave the group.
SyncMembers(g, reported) ==
    /\ ad' = [l \in Logins |-> IF ad[l] = Missing /\ l \in reported THEN None ELSE ad[l]]
    /\ member' = {m \in member : m[1] # g} \cup ({g} \X reported)
    /\ UNCHANGED <<dept, csv, locked, disabled, rule, job, request, script>>

SetRule(g, r) ==
    /\ r.dept \in Present
    /\ rule' = [rule EXCEPT ![g] = r]
    /\ UNCHANGED <<dept, users, job, request, script>>

-----------------------------------------------------------------------------
(* Applying the rules                                                      *)

\* apply_ad_department_sync has planned; the cards stay as they were loaded.
PlanRules(t) ==
    /\ request[t] = Idle
    /\ request' = [request EXCEPT ![t] =
          [op |-> "apply", change |-> [l \in Changing |-> Resolved(l)]]]
    /\ UNCHANGED <<dept, users, rule, job, script>>

\* The planned departments are written; one deleted meanwhile fails the foreign key.
ApplyRules(t) ==
    /\ request[t].op = "apply"
    /\ LET change == request[t].change IN
       ad' = IF \A l \in DOMAIN change : change[l] \in Present \cup {None}
             THEN [l \in Logins |-> IF l \in DOMAIN change THEN change[l] ELSE ad[l]]
             ELSE ad
    /\ request' = [request EXCEPT ![t] = Idle]
    /\ UNCHANGED <<dept, csv, locked, disabled, member, rule, job, script>>

-----------------------------------------------------------------------------
(* Deleting a department                                                   *)

\* The rows of users, ad_users and print_jobs that refer to d.
Referring(d) ==
    {<<"csv", n>> : n \in {m \in Names : csv[m] = d}}
        \cup {<<"ad", l>> : l \in {k \in Logins : ad[k] = d}}
        \cup {<<"job", j>> : j \in {i \in Jobs : job[i] = d}}

\* admin_departments_delete counts them; without a department to move them to
\* the request ends here.
CountReferring(t, d, target) ==
    /\ t \in Deleters /\ request[t] = Idle
    /\ d \in Present
    /\ target \in (Depts \ {d}) \cup {None}
    /\ Referring(d) # {} => target \in Present
    /\ request' = [request EXCEPT ![t] =
          [op |-> "delete", dept |-> d, target |-> target, seen |-> Referring(d)]]
    /\ UNCHANGED <<dept, users, rule, job, script>>

\* Slip: ad_department_rules.department_id has no foreign key.
Kept_NotRules(d, late) == \E x \in late : x[1] # "csv"

\* Slip: print_jobs.department_id has no foreign key.
Kept_NotJobs(d, late) ==
    \/ \E x \in late : x[1] = "ad"
    \/ \E g \in Groups : rule[g] # Missing /\ rule[g].dept = d

\* What a foreign key keeps: AD users and jobs that came after the rows were moved,
\* and any rule.  Rows of users are not kept: the ORM sets them to NULL first.
Kept(d, late) ==
    \/ \E x \in late : x[1] # "csv"
    \/ \E g \in Groups : rule[g] # Missing /\ rule[g].dept = d

\* The rows of a table after those that refer to d were moved.
Moved(table, rows, kind, d, target, late) ==
    [x \in rows |->
        IF table[x] # d THEN table[x] ELSE IF <<kind, x>> \in late THEN None ELSE target]

\* If rows were counted, those there are now are moved, less the ones (late) that come
\* after the three UPDATEs; if none were counted, nothing is moved at all.
CommitDelete(t) ==
    /\ request[t].op = "delete"
    /\ LET q == request[t]  d == q.dept IN
       \E late \in SUBSET (Referring(d) \ q.seen) :
          /\ q.seen = {} => late = Referring(d)
          /\ IF dept[d] # "present" \/ Kept(d, late) \/ (late # Referring(d) /\ q.target \notin Present)
             THEN UNCHANGED <<dept, csv, ad, job>>
             ELSE /\ dept' = [dept EXCEPT ![d] = "deleted"]
                  /\ csv' = Moved(csv, Names, "csv", d, q.target, late)
                  /\ ad' = Moved(ad, Logins, "ad", d, q.target, late)
                  /\ job' = Moved(job, Jobs, "job", d, q.target, late)
    /\ request' = [request EXCEPT ![t] = Idle]
    /\ UNCHANGED <<locked, disabled, member, rule, script>>

-----------------------------------------------------------------------------
(* sync_users_departments.py                                               *)

\* The rows of the file become rows of users; a department it names is found by name
\* or created.
ImportCsv ==
    /\ script = "idle"
    /\ \E n \in Names, d \in Depts \cup {None} :
          /\ d # None => dept[d] # "deleted"
          /\ csv' = [csv EXCEPT ![n] = d]
          /\ dept' = [e \in Depts |-> IF e = d THEN "present" ELSE dept[e]]
    /\ script' = "imported"
    /\ UNCHANGED <<ad, locked, disabled, member, rule, job, request>>

\* The department of every job there is becomes that of users, or NULL.
RecountJobs ==
    /\ script = "imported"
    /\ job' = [j \in Jobs |->
          IF job[j] = Missing THEN Missing
          ELSE IF csv[UserOf[j]] = Missing THEN None ELSE csv[UserOf[j]]]
    /\ script' = "idle"
    /\ UNCHANGED <<dept, users, rule, request>>

-----------------------------------------------------------------------------
FormStep ==
    \/ \E d \in Depts : CreateDepartment(d)
    \/ \E l \in Logins : ImportUser(l) \/ SetDisabled(l)
    \/ \E l \in Logins, d \in Depts \cup {None}, lock \in BOOLEAN : SetDepartment(l, d, lock)
    \/ \E g \in Groups, reported \in SUBSET Logins : SyncMembers(g, reported)
    \/ \E g \in Groups, r \in Rules : <<r.priority, r.active>> \in OfferedForms[g] /\ SetRule(g, r)

\* A form of one row is served between two requests of the same thread.
Form == (\E t \in Threads : request[t] = Idle) /\ FormStep

LongRequest(t) ==
    \/ PlanRules(t)
    \/ ApplyRules(t)
    \/ \E d \in Depts, target \in Depts \cup {None} : CountReferring(t, d, target)
    \/ CommitDelete(t)

Next ==
    \/ Form
    \/ \E t \in Threads : LongRequest(t)
    \/ \E j \in Jobs : RecordJob(j)
    \/ ImportCsv
    \/ RecountJobs

Spec == Init /\ [][Next]_vars

\* The application of the rules, once planned, looks at nothing again: what forms change
\* before it is applied it overwrites or misses.  A card it will write gets locked:
Waits(t, l) == request[t].op = "apply" /\ l \in DOMAIN request[t].change
LocksPlanned == \E t \in Threads, l \in Logins : Waits(t, l) /\ ~locked[l] /\ locked'[l]

\* A card there is, or what decides its department, is changed by a form while any plan
\* waits:
ChangesPlanned ==
    /\ \E t \in Threads : request[t].op = "apply"
    /\ \/ <<locked, disabled, member, rule>>' # <<locked, disabled, member, rule>>
       \/ request' = request /\ \E l \in Logins : ad[l] \notin {Missing, ad'[l]}

\* Everything else may overlap: deletions, other applications, jobs, the script.
LocksSpec == Init /\ [][Next /\ ~LocksPlanned]_vars
CalmSpec == Init /\ [][Next /\ ~ChangesPlanned]_vars

-----------------------------------------------------------------------------
(* Properties                                                              *)

\* A department that is deleted takes no job and no AD user with it: each is in
\* another department afterwards, also one that appeared while the rows were being
\* counted (admin_routes.py:327-360 and the foreign keys).
DeletionMovesAll ==
    [][\A d \in Present : dept'[d] = "deleted" =>
          /\ \A j \in Jobs : job[j] = d => job'[j] \in Present'
          /\ \A l \in Logins : ad[l] = d => ad'[l] \in Present']_vars

\* The department of a locked card changes only when it is set by hand or is deleted:
\* department_resolver.py:4-5 promises that the rules never touch it.  It holds unless a
\* card is locked between the plan that has it and its application (LocksSpec), whatever
\* applications, deletions and other forms overlap.
LockedUntouched ==
    [][\A l \in Logins :
          locked[l] /\ ad'[l] # ad[l]
              => \/ ad[l] \in Depts /\ dept'[ad[l]] = "deleted"
                 \/ \E d \in Depts \cup {None} : SetDepartment(l, d, locked'[l])]_vars

\* After the rules were applied every card they may touch has the department of a rule
\* no other rule of its groups outranks, or none if there is no rule, whatever deletions,
\* other applications, jobs and the CSV script did since the plan, if no form changed a
\* card, a group or a rule meanwhile (CalmSpec).
AppliedOutranks ==
    [][\A t \in Threads : request[t].op = "apply" /\ request'[t] = Idle =>
          \A l \in Logins : ad[l] # Missing /\ ~locked[l] /\ ~disabled[l] =>
              IF RulesFor(l) = {} THEN ad'[l] = None
              ELSE \E g \in RulesFor(l) :
                      /\ ad'[l] = rule[g].dept
                      /\ \A h \in RulesFor(l) : rule[h].priority <= rule[g].priority]_vars
=============================================================================
