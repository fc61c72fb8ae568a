--------------------------- MODULE Charging_proofs ---------------------------
(***************************************************************************)
(* What a print job is charged to: Departments and what refers to them,    *)
(* for any number of departments, cards, rules, jobs and threads, and      *)
(* Tariffs, for any number of queues, tariffs and jobs.  In both the first *)
(* rule of a set decides, in an order by priority.                         *)
(***************************************************************************)
EXTENDS Departments, Tariffs, FiniteSetTheorems, WellFoundedInduction, TLAPS

(***************************************************************************)
(* A finite set that is not empty has a first element in a strict total    *)
(* order: the sets of what comes before an element are well-founded, and   *)
(* nothing comes before the element of a smallest one.                     *)
(***************************************************************************)
LEMMA FirstExists ==
    ASSUME NEW S, IsFiniteSet(S), S # {}, NEW R,
           \A r \in S : <<r, r>> \notin R,
           \A r, s, t \in S : <<r, s>> \in R /\ <<s, t>> \in R => <<r, t>> \in R,
           \A r, s \in S : r = s \/ <<r, s>> \in R \/ <<s, r>> \in R
    PROVE  \E r \in S : \A s \in S \ {r} : <<r, s>> \in R
  <1> DEFINE before(r) == {s \in S : <<s, r>> \in R}
             befores == {before(r) : r \in S}
  <1>1. IsWellFoundedOn(StrictSubsetOrdering(S), SUBSET S)
    BY FS_StrictSubsetOrderingWellFounded, FS_FiniteSubsetsOfFinite
  <1>2. befores # {}
    <2>1. PICK r : r \in S
      OBVIOUS
    <2>2. before(r) \in befores
      BY <2>1
    <2> QED
      BY <2>2
  <1>3. befores \subseteq SUBSET S
    <2>1. \A r \in S : before(r) \in SUBSET S
      OBVIOUS
    <2> QED
      BY <2>1
  <1> HIDE DEF befores
  <1>4. PICK x \in befores : \A y \in befores : <<y, x>> \notin StrictSubsetOrdering(S)
    BY <1>1, <1>2, <1>3, WFMin
  <1>5. PICK r \in S : x = before(r)
    BY <1>4 DEF befores
  <1>6. ASSUME NEW s \in before(r) PROVE FALSE
    <2>1. before(s) \in SUBSET S /\ before(r) \in SUBSET S
      OBVIOUS
    <2>2. before(s) \subseteq before(r) /\ before(s) # before(r)
      BY <1>6
    <2>3. <<before(s), before(r)>> \in StrictSubsetOrdering(S)
      BY <2>1, <2>2 DEF StrictSubsetOrdering
    <2>4. before(s) \in befores
      BY <1>6 DEF befores
    <2> QED
      BY <1>4, <1>5, <2>3, <2>4
  <1> QED
    BY <1>6

-----------------------------------------------------------------------------
(***************************************************************************)
(* What a request holds between its two steps; a card has a row before it  *)
(* is locked.                                                              *)
(***************************************************************************)
RequestShape(q) ==
    /\ q.op \in {"idle", "apply", "delete"}
    /\ q.op = "apply" => DOMAIN q.change \subseteq Logins
    /\ q.op = "delete" => q.dept \in Depts /\ q.target \in (Depts \ {q.dept}) \cup {None}

Shapes ==
    /\ rule = [g \in Groups |-> rule[g]]
    /\ request = [t \in Threads |-> request[t]]
    /\ \A t \in Threads : RequestShape(request[t])

LockedCards == \A l \in Logins : locked[l] => ad[l] # Missing

IInv == TypeOK /\ Shapes /\ LockedCards

LEMMA InitIInv == Init => IInv
  <1> SUFFICES ASSUME Init PROVE IInv
    OBVIOUS
  <1>1. TypeOK
    BY DEF Init, TypeOK
  <1>2. Shapes /\ LockedCards
    BY DEF Init, Shapes, RequestShape, Idle, LockedCards
  <1> QED
    BY <1>1, <1>2 DEF IInv

(* A step of a request changes its memory alone.                           *)
LEMMA RequestShapes ==
    ASSUME Shapes, NEW t \in Threads, NEW q, request' = [request EXCEPT ![t] = q], RequestShape(q),
           UNCHANGED rule
    PROVE  Shapes'
  <1>1. /\ request' = [s \in Threads |-> request'[s]]
        /\ request'[t] = q /\ \A s \in Threads \ {t} : request'[s] = request[s]
    BY DEF Shapes
  <1> QED
    BY <1>1 DEF Shapes, RequestShape

-----------------------------------------------------------------------------
(***************************************************************************)
(* Forms of one row, jobs and the script                                   *)
(***************************************************************************)
LEMMA CreateDepartmentIInv ==
    ASSUME IInv, NEW d \in Depts, CreateDepartment(d) PROVE IInv'
  <1> USE DEF IInv
  <1>1. /\ dept' = [dept EXCEPT ![d] = "present"]
        /\ UNCHANGED <<csv, ad, locked, disabled, member, rule, job, request, script>>
    BY DEF CreateDepartment, users
  <1>2. dept' \in [Depts -> {"unused", "present", "deleted"}] /\ Present \subseteq Present'
    BY <1>1 DEF TypeOK, Present
  <1>3. TypeOK'
    BY <1>1, <1>2 DEF TypeOK
  <1> QED
    BY <1>1, <1>3 DEF Shapes, RequestShape, LockedCards

LEMMA ImportUserIInv == ASSUME IInv, NEW l \in Logins, ImportUser(l) PROVE IInv'
  <1>1. /\ ad' = [ad EXCEPT ![l] = None]
        /\ UNCHANGED <<dept, csv, locked, disabled, member, rule, job, request, script>>
    BY DEF ImportUser
  <1>2. Present' = Present
    BY <1>1 DEF Present
  <1>3. TypeOK'
    BY <1>1, <1>2 DEF IInv, TypeOK
  <1> QED
    BY <1>1, <1>3, NullAssumption, NoRowAssumption DEF IInv, TypeOK, Shapes, RequestShape, LockedCards

LEMMA SetDepartmentIInv ==
    ASSUME IInv, NEW l \in Logins, NEW d \in Depts \cup {None}, NEW lock \in BOOLEAN,
           SetDepartment(l, d, lock)
    PROVE  IInv'
  <1>1. /\ ad' = [ad EXCEPT ![l] = d] /\ d \in Present \cup {None}
        /\ locked' = [locked EXCEPT ![l] = lock]
        /\ UNCHANGED <<dept, csv, disabled, member, rule, job, request, script>>
    BY DEF SetDepartment
  <1>2. Present' = Present
    BY <1>1 DEF Present
  <1>3. TypeOK'
    BY <1>1, <1>2 DEF IInv, TypeOK
  <1>4. LockedCards'
    BY <1>1, NullAssumption, NoRowAssumption DEF IInv, TypeOK, LockedCards
  <1> QED
    BY <1>1, <1>3, <1>4 DEF IInv, Shapes, RequestShape

LEMMA SetDisabledIInv == ASSUME IInv, NEW l \in Logins, SetDisabled(l) PROVE IInv'
  <1>1. /\ disabled' = [disabled EXCEPT ![l] = ~disabled[l]]
        /\ UNCHANGED <<dept, csv, ad, locked, member, rule, job, request, script>>
    BY DEF SetDisabled
  <1>2. Present' = Present
    BY <1>1 DEF Present
  <1>3. TypeOK'
    BY <1>1, <1>2 DEF IInv, TypeOK
  <1> QED
    BY <1>1, <1>3 DEF IInv, Shapes, RequestShape, LockedCards

LEMMA SyncMembersIInv ==
    ASSUME IInv, NEW g \in Groups, NEW reported \in SUBSET Logins, SyncMembers(g, reported)
    PROVE  IInv'
  <1>1. /\ ad' = [l \in Logins |-> IF ad[l] = Missing /\ l \in reported THEN None ELSE ad[l]]
        /\ member' = {m \in member : m[1] # g} \cup ({g} \X reported)
        /\ UNCHANGED <<dept, csv, locked, disabled, rule, job, request, script>>
    BY DEF SyncMembers
  <1>2. Present' = Present
    BY <1>1 DEF Present
  <1>3. ad' \in [Logins -> Present \cup {None, Missing}]
    BY <1>1 DEF IInv, TypeOK
  <1>4. member' \subseteq Groups \X Logins
    BY <1>1 DEF IInv, TypeOK
  <1>5. TypeOK'
    BY <1>1, <1>2, <1>3, <1>4 DEF IInv, TypeOK
  <1>6. LockedCards'
    BY <1>1, NullAssumption, NoRowAssumption DEF IInv, LockedCards
  <1> QED
    BY <1>1, <1>5, <1>6 DEF IInv, Shapes, RequestShape

LEMMA SetRuleIInv ==
    ASSUME IInv, NEW g \in Groups, NEW r \in Rules, SetRule(g, r) PROVE IInv'
  <1>1. /\ rule' = [rule EXCEPT ![g] = r] /\ r.dept \in Present
        /\ UNCHANGED <<dept, csv, ad, locked, disabled, member, job, request, script>>
    BY DEF SetRule, users
  <1>2. Present' = Present
    BY <1>1 DEF Present
  <1>3. /\ rule' = [h \in Groups |-> rule'[h]]
        /\ rule'[g] = r /\ \A h \in Groups \ {g} : rule'[h] = rule[h]
    BY <1>1 DEF IInv, Shapes
  <1>4. \A h \in Groups : rule'[h] = Missing \/ (rule'[h] \in Rules /\ rule'[h].dept \in Present)
    BY <1>1, <1>3 DEF IInv, TypeOK
  <1>5. TypeOK'
    BY <1>1, <1>2, <1>4 DEF IInv, TypeOK
  <1> QED
    BY <1>1, <1>3, <1>5 DEF IInv, Shapes, RequestShape, LockedCards

(* What the resolver finds for a job is a department there is, or none.    *)
LEMMA LookupFinds == ASSUME IInv, NEW n \in Names PROVE Lookup(n) \in Present \cup {None, Missing}
  <1>1. Card(n) \in Logins \cup {None}
    BY UsersAssumption DEF Card
  <1> QED
    BY <1>1 DEF Lookup, Found, IInv, TypeOK

LEMMA RecordJobIInv == ASSUME IInv, NEW j \in Jobs, RecordJob(j) PROVE IInv'
  <1>1. /\ job' = [job EXCEPT ![j] = Lookup(UserOf[j])]
        /\ UNCHANGED <<dept, csv, ad, locked, disabled, member, rule, request, script>>
    BY DEF RecordJob, users
  <1>2. Present' = Present
    BY <1>1 DEF Present
  <1>3. job' \in [Jobs -> Present \cup {None, Missing}]
    BY <1>1, LookupFinds, UsersAssumption DEF IInv, TypeOK
  <1>4. TypeOK'
    BY <1>1, <1>2, <1>3 DEF IInv, TypeOK
  <1> QED
    BY <1>1, <1>4 DEF IInv, Shapes, RequestShape, LockedCards

LEMMA ImportCsvIInv == ASSUME IInv, ImportCsv PROVE IInv'
  <1> USE DEF IInv
  <1>1. PICK n \in Names, d \in Depts \cup {None} :
          /\ d # None => dept[d] # "deleted"
          /\ csv' = [csv EXCEPT ![n] = d]
          /\ dept' = [e \in Depts |-> IF e = d THEN "present" ELSE dept[e]]
    BY DEF ImportCsv
  <1>2. /\ script' = "imported"
        /\ UNCHANGED <<ad, locked, disabled, member, rule, job, request>>
    BY DEF ImportCsv
  <1>3. /\ dept' \in [Depts -> {"unused", "present", "deleted"}]
        /\ Present \subseteq Present' /\ d \in Present' \cup {None}
    BY <1>1 DEF TypeOK, Present
  <1>4. csv' \in [Names -> Present' \cup {None, Missing}]
    BY <1>1, <1>3 DEF TypeOK
  <1>5. TypeOK'
    BY <1>2, <1>3, <1>4 DEF TypeOK
  <1> QED
    BY <1>2, <1>5 DEF Shapes, RequestShape, LockedCards

LEMMA RecountJobsIInv == ASSUME IInv, RecountJobs PROVE IInv'
  <1>1. /\ job' = [j \in Jobs |->
              IF job[j] = Missing THEN Missing
              ELSE IF csv[UserOf[j]] = Missing THEN None ELSE csv[UserOf[j]]]
        /\ script' = "idle"
        /\ UNCHANGED <<dept, csv, ad, locked, disabled, member, rule, request>>
    BY DEF RecountJobs, users
  <1>2. Present' = Present
    BY <1>1 DEF Present
  <1>3. job' \in [Jobs -> Present \cup {None, Missing}]
    BY <1>1, UsersAssumption DEF IInv, TypeOK
  <1>4. TypeOK'
    BY <1>1, <1>2, <1>3 DEF IInv, TypeOK
  <1> QED
    BY <1>1, <1>4 DEF IInv, Shapes, RequestShape, LockedCards

-----------------------------------------------------------------------------
(***************************************************************************)
(* Long requests                                                           *)
(***************************************************************************)
LEMMA ReadsIInv ==
    ASSUME IInv, NEW t \in Threads, NEW q, request' = [request EXCEPT ![t] = q], RequestShape(q),
           UNCHANGED <<dept, users, rule, job, script>>
    PROVE  IInv'
  <1>1. UNCHANGED <<dept, csv, ad, locked, disabled, member, rule, job, script>>
    BY DEF users
  <1>2. Present' = Present
    BY <1>1 DEF Present
  <1>3. TypeOK'
    BY <1>1, <1>2 DEF IInv, TypeOK
  <1> QED
    BY <1>1, <1>3, RequestShapes DEF IInv, LockedCards

LEMMA PlanRulesIInv == ASSUME IInv, NEW t \in Threads, PlanRules(t) PROVE IInv'
  <1> DEFINE q == [op |-> "apply", change |-> [l \in Changing |-> Resolved(l)]]
  <1>1. RequestShape(q)
    BY DEF RequestShape, Changing
  <1> QED
    BY <1>1, ReadsIInv DEF PlanRules

LEMMA CountReferringIInv ==
    ASSUME IInv, NEW t \in Threads, NEW d \in Depts, NEW target \in Depts \cup {None},
           CountReferring(t, d, target)
    PROVE  IInv'
  <1> DEFINE q == [op |-> "delete", dept |-> d, target |-> target, seen |-> Referring(d)]
  <1>1. RequestShape(q)
    BY DEF CountReferring, RequestShape
  <1> QED
    BY <1>1, ReadsIInv DEF CountReferring

LEMMA ApplyRulesIInv == ASSUME IInv, NEW t \in Threads, ApplyRules(t) PROVE IInv'
  <1> DEFINE change == request[t].change
  <1>1. /\ ad' = IF \A l \in DOMAIN change : change[l] \in Present \cup {None}
                 THEN [l \in Logins |-> IF l \in DOMAIN change THEN change[l] ELSE ad[l]]
                 ELSE ad
        /\ request' = [request EXCEPT ![t] = Idle]
        /\ UNCHANGED <<dept, csv, locked, disabled, member, rule, job, script>>
    BY DEF ApplyRules
  <1>2. Present' = Present
    BY <1>1 DEF Present
  <1>3. /\ ad' \in [Logins -> Present \cup {None, Missing}]
        /\ \A l \in Logins : ad[l] # Missing => ad'[l] # Missing
    BY <1>1, NullAssumption, NoRowAssumption DEF IInv, TypeOK, Present
  <1>4. TypeOK'
    BY <1>1, <1>2, <1>3 DEF IInv, TypeOK
  <1>5. RequestShape(Idle)
    BY DEF RequestShape, Idle
  <1>6. Shapes'
    BY <1>1, <1>5, RequestShapes DEF IInv
  <1> QED
    BY <1>1, <1>3, <1>4, <1>6 DEF IInv, LockedCards

MovesAll ==
    \A d \in Present : dept'[d] = "deleted" =>
        /\ \A j \in Jobs : job[j] = d => job'[j] \in Present'
        /\ \A l \in Logins : ad[l] = d => ad'[l] \in Present'

(* What a deletion leaves in a table: nothing refers to d any more, and    *)
(* what was moved is in a department that stays.                           *)
LEMMA MovedIs ==
    ASSUME IInv, NEW rows, NEW kind, NEW d \in Present, NEW target \in (Depts \ {d}) \cup {None},
           NEW late \in SUBSET Referring(d), late # Referring(d) => target \in Present,
           NEW table \in [rows -> Present \cup {None, Missing}],
           \A x \in rows : table[x] = d => <<kind, x>> \in Referring(d)
    PROVE  /\ Moved(table, rows, kind, d, target, late)
                \in [rows -> (Present \ {d}) \cup {None, Missing}]
           /\ \A x \in rows :
                 table[x] = d /\ <<kind, x>> \notin late
                       => Moved(table, rows, kind, d, target, late)[x] \in Present \ {d}
  <1> DEFINE new(x) == IF table[x] # d THEN table[x] ELSE IF <<kind, x>> \in late THEN None ELSE target
  <1>1. ASSUME NEW x \in rows
        PROVE  /\ new(x) \in (Present \ {d}) \cup {None, Missing}
               /\ table[x] = d /\ <<kind, x>> \notin late => new(x) \in Present \ {d}
    <2>1. table[x] = d /\ <<kind, x>> \notin late => target \in Present \ {d}
      BY NullAssumption, NoRowAssumption DEF Present
    <2> QED
      BY <2>1
  <1>2. Moved(table, rows, kind, d, target, late) = [x \in rows |-> new(x)]
    BY DEF Moved
  <1> HIDE DEF new
  <1> QED
    BY <1>1, <1>2

LEMMA CommitDeleteIInv ==
    ASSUME IInv, NEW t \in Threads, CommitDelete(t)
    PROVE  /\ IInv' /\ MovesAll
           /\ \A l \in Logins : ad'[l] # ad[l] => ad[l] \in Depts /\ dept'[ad[l]] = "deleted"
  <1> USE DEF IInv
  <1> DEFINE q == request[t]
             d == request[t].dept
  <1>1. PICK late \in SUBSET (Referring(d) \ q.seen) :
          /\ q.seen = {} => late = Referring(d)
          /\ IF dept[d] # "present" \/ Kept(d, late) \/ (late # Referring(d) /\ q.target \notin Present)
             THEN UNCHANGED <<dept, csv, ad, job>>
             ELSE /\ dept' = [dept EXCEPT ![d] = "deleted"]
                  /\ csv' = Moved(csv, Names, "csv", d, q.target, late)
                  /\ ad' = Moved(ad, Logins, "ad", d, q.target, late)
                  /\ job' = Moved(job, Jobs, "job", d, q.target, late)
    BY DEF CommitDelete
  <1>2. /\ request' = [request EXCEPT ![t] = Idle]
        /\ UNCHANGED <<locked, disabled, member, rule, script>>
        /\ q.op = "delete"
    BY DEF CommitDelete
  <1>3. d \in Depts /\ q.target \in (Depts \ {d}) \cup {None}
    BY <1>2 DEF Shapes, RequestShape
  <1>4. Shapes'
    <2>1. RequestShape(Idle)
      BY DEF RequestShape, Idle
    <2> QED
      BY <1>2, <2>1, RequestShapes
  <1>5. CASE dept[d] # "present" \/ Kept(d, late) \/ (late # Referring(d) /\ q.target \notin Present)
    <2>1. UNCHANGED <<dept, csv, ad, job>> /\ Present' = Present
      BY <1>1, <1>5 DEF Present
    <2>2. TypeOK'
      BY <1>2, <2>1 DEF TypeOK
    <2>3. MovesAll /\ LockedCards'
      BY <1>2, <2>1 DEF MovesAll, Present, LockedCards
    <2> QED
      BY <1>4, <2>1, <2>2, <2>3
  <1>6. CASE ~(dept[d] # "present" \/ Kept(d, late) \/ (late # Referring(d) /\ q.target \notin Present))
    <2>1. /\ dept' = [dept EXCEPT ![d] = "deleted"]
          /\ csv' = Moved(csv, Names, "csv", d, q.target, late)
          /\ ad' = Moved(ad, Logins, "ad", d, q.target, late)
          /\ job' = Moved(job, Jobs, "job", d, q.target, late)
      BY <1>1, <1>6
    <2>2. d \in Present /\ late \in SUBSET Referring(d) /\ (late # Referring(d) => q.target \in Present)
      BY <1>3, <1>6 DEF Present
    <2>3. dept' \in [Depts -> {"unused", "present", "deleted"}] /\ Present' = Present \ {d}
      BY <1>3, <2>1 DEF TypeOK, Present
    <2>4. csv' \in [Names -> (Present \ {d}) \cup {None, Missing}]
      <3>1. csv \in [Names -> Present \cup {None, Missing}]
            /\ \A n \in Names : csv[n] = d => <<"csv", n>> \in Referring(d)
        BY DEF TypeOK, Referring
      <3> QED
        BY <1>3, <2>1, <2>2, <3>1, MovedIs
    <2>5. /\ ad' \in [Logins -> (Present \ {d}) \cup {None, Missing}]
          /\ \A l \in Logins :
                /\ ad[l] = d /\ <<"ad", l>> \notin late => ad'[l] \in Present \ {d}
                /\ ad[l] # d => ad'[l] = ad[l]
                /\ ad[l] # Missing => ad'[l] # Missing
      <3>1. ad \in [Logins -> Present \cup {None, Missing}]
            /\ \A l \in Logins : ad[l] = d => <<"ad", l>> \in Referring(d)
        BY DEF TypeOK, Referring
      <3> DEFINE new == Moved(ad, Logins, "ad", d, q.target, late)
      <3>2. /\ new \in [Logins -> (Present \ {d}) \cup {None, Missing}]
            /\ \A l \in Logins :
                  /\ ad[l] = d /\ <<"ad", l>> \notin late => new[l] \in Present \ {d}
                  /\ ad[l] # d => new[l] = ad[l]
                  /\ ad[l] # Missing => new[l] # Missing
        <4>1. new \in [Logins -> (Present \ {d}) \cup {None, Missing}]
          BY <1>3, <2>2, <3>1, MovedIs
        <4>2. \A l \in Logins : ad[l] = d /\ <<"ad", l>> \notin late => new[l] \in Present \ {d}
          BY <1>3, <2>2, <3>1, MovedIs
        <4>3. \A l \in Logins : ad[l] # d => new[l] = ad[l]
          BY DEF Moved
        <4>4. \A l \in Logins : ad[l] # Missing => new[l] # Missing
          BY <1>3, NullAssumption, NoRowAssumption DEF Moved
        <4> QED
          BY <4>1, <4>2, <4>3, <4>4
      <3> QED
        BY <2>1, <3>2
    <2>6. /\ job' \in [Jobs -> (Present \ {d}) \cup {None, Missing}]
          /\ \A j \in Jobs : job[j] = d /\ <<"job", j>> \notin late => job'[j] \in Present \ {d}
      <3>1. job \in [Jobs -> Present \cup {None, Missing}]
            /\ \A j \in Jobs : job[j] = d => <<"job", j>> \in Referring(d)
        BY DEF TypeOK, Referring
      <3> QED
        BY <1>3, <2>1, <2>2, <3>1, MovedIs
    <2>7. /\ \A x \in late : x[1] = "csv"
          /\ \A g \in Groups : rule[g] = Missing \/ rule[g].dept # d
      BY <1>6 DEF Kept
    <2>8. TypeOK'
      <3>1. \A g \in Groups : rule[g] = Missing \/ (rule[g] \in Rules /\ rule[g].dept \in Present \ {d})
        BY <2>7 DEF TypeOK
      <3> QED
        BY <1>2, <2>3, <2>4, <2>5, <2>6, <3>1 DEF TypeOK
    <2>9. MovesAll
      <3>1. \A e \in Present : dept'[e] = "deleted" => e = d
        BY <2>3 DEF Present
      <3>2. \A j : <<"job", j>> \notin late /\ <<"ad", j>> \notin late
        BY <2>7
      <3>3. /\ \A j \in Jobs : job[j] = d => job'[j] \in Present'
            /\ \A l \in Logins : ad[l] = d => ad'[l] \in Present'
        BY <2>3, <2>5, <2>6, <3>2
      <3> QED
        BY <3>1, <3>3 DEF MovesAll
    <2>10. LockedCards'
      BY <1>2, <2>5 DEF LockedCards
    <2>11. \A l \in Logins : ad'[l] # ad[l] => ad[l] \in Depts /\ dept'[ad[l]] = "deleted"
      <3>1. dept'[d] = "deleted"
        BY <1>3, <2>1 DEF TypeOK
      <3> QED
        BY <1>3, <2>5, <3>1
    <2> QED
      BY <1>4, <2>8, <2>9, <2>10, <2>11
  <1> QED
    BY <1>5, <1>6

-----------------------------------------------------------------------------
LEMMA StutterIInv == ASSUME IInv, UNCHANGED vars PROVE IInv'
  <1>1. UNCHANGED <<dept, csv, ad, locked, disabled, member, rule, job, request, script>>
    BY DEF vars, users
  <1>2. Present' = Present
    BY <1>1 DEF Present
  <1>3. TypeOK'
    BY <1>1, <1>2 DEF IInv, TypeOK
  <1> QED
    BY <1>1, <1>3 DEF IInv, Shapes, RequestShape, LockedCards

LEMMA NextIInv == ASSUME IInv, [Next]_vars PROVE IInv'
  <1>1. CASE Form
    BY <1>1, CreateDepartmentIInv, ImportUserIInv, SetDisabledIInv, SetDepartmentIInv,
       SyncMembersIInv, SetRuleIInv DEF Form, FormStep
  <1>2. ASSUME NEW t \in Threads, LongRequest(t) PROVE IInv'
    BY <1>2, PlanRulesIInv, ApplyRulesIInv, CountReferringIInv, CommitDeleteIInv DEF LongRequest
  <1> QED
    BY <1>1, <1>2, RecordJobIInv, ImportCsvIInv, RecountJobsIInv, StutterIInv DEF Next

(* Only the deletion of a department deletes one.                          *)
LEMMA NextMoves == ASSUME IInv, [Next]_vars PROVE MovesAll
  <1>1. ASSUME NEW t \in Threads, CommitDelete(t) PROVE MovesAll
    BY <1>1, CommitDeleteIInv
  <1>2. ASSUME \A d \in Present : dept'[d] = "present" PROVE MovesAll
    BY <1>2 DEF MovesAll
  <1>3. CASE UNCHANGED dept
    BY <1>2, <1>3 DEF Present
  <1>4. ASSUME NEW d \in Depts, CreateDepartment(d) PROVE MovesAll
    BY <1>2, <1>4 DEF CreateDepartment, IInv, TypeOK, Present
  <1>5. CASE ImportCsv
    BY <1>2, <1>5 DEF ImportCsv, Present
  <1>6. CASE Form
    BY <1>3, <1>4, <1>6 DEF Form, FormStep, ImportUser, SetDisabled, SetDepartment, SyncMembers, SetRule
  <1>7. ASSUME NEW t \in Threads, LongRequest(t) PROVE MovesAll
    BY <1>1, <1>3, <1>7 DEF LongRequest, PlanRules, ApplyRules, CountReferring
  <1> QED
    BY <1>3, <1>5, <1>6, <1>7 DEF Next, RecordJob, RecountJobs, vars

(* The inductive invariant holds of every behaviour.                       *)
THEOREM InvariantHolds == Spec => []IInv
  <1>1. IInv /\ [Next]_vars => IInv'
    BY NextIInv
  <1> QED
    BY <1>1, InitIInv, PTL DEF Spec

(* Every variable keeps its type: no card, job, row of users or rule is    *)
(* ever of a department that is not there.                                 *)
THEOREM TypeCorrect == Spec => []TypeOK
  <1>1. IInv => TypeOK
    BY DEF IInv
  <1> QED
    BY <1>1, InvariantHolds, PTL

(* A deleted department takes no job and no AD user with it, for any       *)
(* number of threads and whatever appears while the rows are counted.      *)
THEOREM NoneLost == Spec => DeletionMovesAll
  <1>1. IInv /\ [Next]_vars => IInv'
    BY NextIInv
  <1>2. IInv /\ [Next]_vars
           => [\A d \in Present : dept'[d] = "deleted" =>
                  /\ \A j \in Jobs : job[j] = d => job'[j] \in Present'
                  /\ \A l \in Logins : ad[l] = d => ad'[l] \in Present']_vars
    BY NextMoves DEF MovesAll
  <1> QED
    BY <1>1, <1>2, InitIInv, PTL DEF Spec, DeletionMovesAll

-----------------------------------------------------------------------------
(***************************************************************************)
(* The rule that decides the department of a card                          *)
(***************************************************************************)
LEMMA WinnerOutranks ==
    ASSUME IInv, NEW l \in Logins, RulesFor(l) # {}
    PROVE  /\ Winner(l) \in RulesFor(l)
           /\ \A h \in RulesFor(l) : rule[h].priority <= rule[Winner(l)].priority
  <1> DEFINE S == RulesFor(l)
             R == {x \in S \X S : Before(x[1], x[2])}
  <1>1. S \subseteq Nat /\ \A g \in S : rule[g].priority \in Int
    BY GroupsAssumption, PrioritiesAssumption DEF IInv, TypeOK, RulesFor, Rules
  <1>2. IsFiniteSet(S)
    BY GroupsAssumption, FS_Subset DEF RulesFor
  <1>3. \A g, h \in S : <<g, h>> \in R <=> Before(g, h)
    OBVIOUS
  <1> HIDE DEF S, R
  <1>4. \A g \in S : <<g, g>> \notin R
    BY <1>1, <1>3 DEF Before
  <1>5. \A g, h, k \in S : <<g, h>> \in R /\ <<h, k>> \in R => <<g, k>> \in R
    BY <1>1, <1>3 DEF Before
  <1>6. ASSUME NEW g \in S, NEW h \in S, g # h PROVE <<g, h>> \in R \/ <<h, g>> \in R
    <2>1. /\ g \in Nat /\ h \in Nat
          /\ rule[g].priority \in Int /\ rule[h].priority \in Int
      BY <1>1
    <2>2. Before(g, h) \/ Before(h, g)
      BY <1>6, <2>1 DEF Before
    <2> QED
      BY <1>3, <2>2
  <1>7. \E g \in S : \A h \in S \ {g} : <<g, h>> \in R
    BY <1>2, <1>4, <1>5, <1>6, FirstExists DEF S
  <1>8. \E g \in RulesFor(l) : \A h \in RulesFor(l) \ {g} : Before(g, h)
    BY <1>3, <1>7 DEF S
  <1>9. /\ Winner(l) \in RulesFor(l)
        /\ \A h \in RulesFor(l) \ {Winner(l)} : Before(Winner(l), h)
    BY <1>8 DEF Winner
  <1> QED
    BY <1>1, <1>9 DEF S, Before

LEMMA ResolvedPresent == ASSUME IInv, NEW l \in Logins PROVE Resolved(l) \in Present \cup {None}
  <1>1. RulesFor(l) # {} => rule[Winner(l)].dept \in Present
    BY WinnerOutranks DEF IInv, TypeOK, RulesFor
  <1> QED
    BY <1>1 DEF Resolved

(***************************************************************************)
(* A locked card.  A plan has no locked card, and none in a plan that      *)
(* waits gets locked.                                                      *)
(***************************************************************************)
PlannedUnlocked ==
    \A t \in Threads : request[t].op = "apply" => \A l \in DOMAIN request[t].change : ~locked[l]

LockedStep ==
    \A l \in Logins :
        locked[l] /\ ad'[l] # ad[l]
            => \/ ad[l] \in Depts /\ dept'[ad[l]] = "deleted"
               \/ \E d \in Depts \cup {None} : SetDepartment(l, d, locked'[l])

(* What thread t does to the requests: the others keep theirs.             *)
LEMMA LongRequests ==
    ASSUME IInv, NEW t \in Threads, LongRequest(t)
    PROVE  /\ \A s \in Threads \ {t} : request'[s] = request[s]
           /\ \/ PlanRules(t) /\ request'[t] = [op |-> "apply", change |-> [l \in Changing |-> Resolved(l)]]
              \/ ApplyRules(t) /\ request'[t] = Idle
              \/ CommitDelete(t) /\ request'[t] = Idle
              \/ UNCHANGED ad /\ request'[t].op = "delete"
           /\ UNCHANGED <<locked, disabled, member, rule>>
  <1>1. CASE PlanRules(t)
    BY <1>1 DEF PlanRules, IInv, Shapes, users
  <1>2. CASE ApplyRules(t)
    BY <1>2 DEF ApplyRules, IInv, Shapes
  <1>3. CASE CommitDelete(t)
    BY <1>3 DEF CommitDelete, IInv, Shapes
  <1>4. ASSUME NEW d \in Depts, NEW target \in Depts \cup {None}, CountReferring(t, d, target)
        PROVE  /\ \A s \in Threads \ {t} : request'[s] = request[s]
               /\ request'[t].op = "delete" /\ UNCHANGED <<ad, locked, disabled, member, rule>>
    BY <1>4 DEF CountReferring, IInv, Shapes, users
  <1> QED
    BY <1>1, <1>2, <1>3, <1>4 DEF LongRequest

(* What a form of one row does to the cards.                               *)
LEMMA FormCards ==
    ASSUME IInv, FormStep
    PROVE  LockedStep /\ request' = request
  <1>1. request' = request
    BY DEF FormStep, CreateDepartment, ImportUser, SetDisabled, SetDepartment, SyncMembers, SetRule
  <1>2. ASSUME UNCHANGED ad PROVE LockedStep
    BY <1>2 DEF LockedStep
  <1>3. ASSUME NEW l \in Logins, ImportUser(l) PROVE LockedStep
    BY <1>3 DEF ImportUser, LockedStep, IInv, LockedCards, TypeOK
  <1>4. ASSUME NEW g \in Groups, NEW reported \in SUBSET Logins, SyncMembers(g, reported) PROVE LockedStep
    BY <1>4 DEF SyncMembers, LockedStep, IInv, LockedCards, TypeOK
  <1>5. ASSUME NEW l \in Logins, NEW d \in Depts \cup {None}, NEW lock \in BOOLEAN, SetDepartment(l, d, lock)
        PROVE  LockedStep
    <2>1. /\ \A k \in Logins \ {l} : ad'[k] = ad[k]
          /\ locked'[l] = lock
      BY <1>5 DEF SetDepartment, IInv, TypeOK
    <2> QED
      BY <1>5, <2>1 DEF LockedStep
  <1> QED
    BY <1>1, <1>2, <1>3, <1>4, <1>5 DEF FormStep, CreateDepartment, SetDisabled, SetRule, users

(* What the application of a plan does to the cards.                       *)
LEMMA ApplyCards ==
    ASSUME IInv, NEW t \in Threads, ApplyRules(t), NEW l \in Logins
    PROVE  /\ request[t].op = "apply"
           /\ ad'[l] = ad[l] \/ (l \in DOMAIN request[t].change /\ ad'[l] = request[t].change[l])
  BY DEF ApplyRules, IInv, TypeOK

LEMMA NextLocked ==
    ASSUME IInv, PlannedUnlocked, [Next /\ ~LocksPlanned]_vars
    PROVE  PlannedUnlocked' /\ LockedStep
  <1>1. CASE UNCHANGED <<request, ad, locked>>
    BY <1>1 DEF PlannedUnlocked, LockedStep
  <1>2. CASE FormStep /\ ~LocksPlanned
    <2>1. LockedStep /\ request' = request
      BY <1>2, FormCards
    <2>2. ASSUME NEW t \in Threads, request[t].op = "apply", NEW l \in DOMAIN request[t].change
          PROVE  ~locked'[l]
      <3>1. l \in Logins /\ ~locked[l]
        BY <2>2 DEF PlannedUnlocked, IInv, Shapes, RequestShape
      <3> QED
        BY <1>2, <2>2, <3>1 DEF LocksPlanned, Waits
    <2> QED
      BY <2>1, <2>2 DEF PlannedUnlocked
  <1>3. ASSUME NEW t \in Threads, LongRequest(t) PROVE PlannedUnlocked' /\ LockedStep
    <2>1. \A l \in Changing : ~locked[l]
      BY DEF Changing
    <2>2. PlannedUnlocked'
      <3>1. UNCHANGED locked /\ \A s \in Threads \ {t} : request'[s] = request[s]
        BY <1>3, LongRequests
      <3>2. CASE PlanRules(t)
        <4>1. request'[t].change = [l \in Changing |-> Resolved(l)]
          BY <3>2 DEF PlanRules, IInv, Shapes
        <4>2. DOMAIN request'[t].change = Changing
          BY <4>1
        <4> QED
          BY <2>1, <3>1, <4>2 DEF PlannedUnlocked
      <3>3. CASE ~PlanRules(t)
        <4>1. request'[t] = Idle \/ request'[t].op = "delete"
          BY <1>3, <3>3, LongRequests
        <4> QED
          BY <3>1, <4>1 DEF PlannedUnlocked, Idle
      <3> QED
        BY <3>2, <3>3
    <2>3. CASE UNCHANGED ad
      BY <2>2, <2>3 DEF LockedStep
    <2>4. CASE ApplyRules(t)
      BY <2>2, <2>4, ApplyCards DEF PlannedUnlocked, LockedStep
    <2>5. CASE CommitDelete(t)
      BY <2>2, <2>5, CommitDeleteIInv DEF LockedStep
    <2> QED
      BY <1>3, <2>2, <2>3, <2>4, <2>5, LongRequests DEF PlanRules, users
  <1> QED
    BY <1>1, <1>2, <1>3 DEF Next, Form, RecordJob, ImportCsv, RecountJobs, vars, users

(* The department of a locked card changes only by hand or with the        *)
(* deletion of the department, for any number of threads and any overlap,  *)
(* but where a card is locked between a plan that has it and the           *)
(* application of that plan.                                               *)
THEOREM LockedStays == LocksSpec => LockedUntouched
  <1>1. IInv /\ PlannedUnlocked /\ [Next /\ ~LocksPlanned]_vars => IInv' /\ PlannedUnlocked'
    BY NextIInv, NextLocked
  <1>2. IInv /\ PlannedUnlocked /\ [Next /\ ~LocksPlanned]_vars
           => [\A l \in Logins :
                  locked[l] /\ ad'[l] # ad[l]
                      => \/ ad[l] \in Depts /\ dept'[ad[l]] = "deleted"
                         \/ \E d \in Depts \cup {None} : SetDepartment(l, d, locked'[l])]_vars
    BY NextLocked DEF LockedStep
  <1>3. Init => PlannedUnlocked
    BY DEF Init, PlannedUnlocked, Idle
  <1> QED
    BY <1>1, <1>2, <1>3, InitIInv, PTL DEF LocksSpec, LockedUntouched

(***************************************************************************)
(* The outranking rule.  A plan stays right for every card it may touch:   *)
(* deletions take no department that has a rule, another application       *)
(* writes what this one will, and a new card is in no group.               *)
(***************************************************************************)
Free(l) == ad[l] # Missing /\ ~locked[l] /\ ~disabled[l]

PlanRight(change) ==
    /\ \A l \in DOMAIN change : Free(l)
    /\ \A l \in Logins : Free(l) =>
           IF l \in DOMAIN change THEN change[l] = Resolved(l) ELSE ad[l] = Resolved(l)

PlansRight ==
    /\ \A g \in Groups, l \in Logins : <<g, l>> \in member => ad[l] # Missing
    /\ \A t \in Threads : request[t].op = "apply" => PlanRight(request[t].change)

OutrankStep ==
    \A t \in Threads : request[t].op = "apply" /\ request'[t] = Idle =>
        \A l \in Logins : ad[l] # Missing /\ ~locked[l] /\ ~disabled[l] =>
            IF RulesFor(l) = {} THEN ad'[l] = None
            ELSE \E g \in RulesFor(l) :
                    /\ ad'[l] = rule[g].dept
                    /\ \A h \in RulesFor(l) : rule[h].priority <= rule[g].priority

LEMMA ResolvedSame ==
    ASSUME UNCHANGED <<member, rule>>, NEW l PROVE Resolved(l)' = Resolved(l)
  BY DEF Resolved, Winner, RulesFor, Before

(* Steps that write the right department or none to a card keep a plan     *)
(* right.                                                                  *)
LEMMA PlanKept ==
    ASSUME IInv, UNCHANGED <<locked, disabled, member, rule>>, NEW change, PlanRight(change),
           DOMAIN change \subseteq Logins,
           \A l \in Logins : \/ ad'[l] = ad[l]
                             \/ ad'[l] # Missing /\ ad'[l] = Resolved(l)
                             \/ ad'[l] # Missing /\ ad[l] # Missing /\ ad[l] # Resolved(l)
    PROVE  PlanRight(change)'
  <1>1. ASSUME NEW l \in DOMAIN change PROVE Free(l)'
    BY <1>1 DEF PlanRight, Free
  <1>2. ASSUME NEW l \in Logins, Free(l)'
        PROVE  IF l \in DOMAIN change THEN change[l] = Resolved(l)' ELSE ad'[l] = Resolved(l)'
    <2>1. Resolved(l)' = Resolved(l)
      BY ResolvedSame
    <2>2. CASE Free(l)
      BY <2>1, <2>2 DEF PlanRight
    <2>3. CASE ~Free(l)
      <3>1. ad[l] = Missing /\ ad'[l] # Missing
        BY <1>2, <2>3 DEF Free
      <3> QED
        BY <2>1, <2>3, <3>1 DEF PlanRight
    <2> QED
      BY <2>2, <2>3
  <1> QED
    BY <1>1, <1>2 DEF PlanRight

(* A card without a row is in no group, so no rule resolves it.            *)
LEMMA NewCardUnruled ==
    ASSUME PlansRight, NEW l \in Logins, ad[l] = Missing PROVE Resolved(l) = None
  <1>1. RulesFor(l) = {}
    BY DEF PlansRight, RulesFor
  <1> QED
    BY <1>1 DEF Resolved

LEMMA FormPlans ==
    ASSUME IInv, PlansRight, FormStep, ~ChangesPlanned
    PROVE  PlansRight'
  <1>1. request' = request
    BY FormCards
  <1>2. \A g \in Groups, l \in Logins : (<<g, l>> \in member => ad[l] # Missing)'
    <2>1. ASSUME NEW k \in Logins, ImportUser(k) \/ SetDisabled(k)
          PROVE  \A g \in Groups, l \in Logins : (<<g, l>> \in member => ad[l] # Missing)'
      BY <2>1, NoRowAssumption DEF ImportUser, SetDisabled, PlansRight, IInv, TypeOK
    <2>2. ASSUME NEW k \in Logins, NEW d \in Depts \cup {None}, NEW lock \in BOOLEAN, SetDepartment(k, d, lock)
          PROVE  \A g \in Groups, l \in Logins : (<<g, l>> \in member => ad[l] # Missing)'
      BY <2>2, NoRowAssumption, NullAssumption DEF SetDepartment, PlansRight, IInv, TypeOK
    <2>3. ASSUME NEW h \in Groups, NEW reported \in SUBSET Logins, SyncMembers(h, reported)
          PROVE  \A g \in Groups, l \in Logins : (<<g, l>> \in member => ad[l] # Missing)'
      <3>1. \A g \in Groups, l \in Logins :
                <<g, l>> \in member' => <<g, l>> \in member \/ l \in reported
        BY <2>3 DEF SyncMembers
      <3>2. \A l \in Logins : /\ ad[l] # Missing => ad'[l] # Missing
                              /\ l \in reported => ad'[l] # Missing
        BY <2>3, NoRowAssumption DEF SyncMembers
      <3> QED
        BY <3>1, <3>2 DEF PlansRight
    <2>4. CASE UNCHANGED <<ad, member>>
      BY <2>4 DEF PlansRight
    <2> QED
      BY <2>1, <2>2, <2>3, <2>4 DEF FormStep, CreateDepartment, SetRule, users
  <1>3. ASSUME NEW t \in Threads, request[t].op = "apply"
        PROVE  PlanRight(request[t].change)'
    <2>1. /\ UNCHANGED <<locked, disabled, member, rule>>
          /\ \A l \in Logins : ad[l] # Missing => ad'[l] = ad[l]
      BY <1>1, <1>3 DEF ChangesPlanned
    <2>2. \A l \in Logins : ad[l] = Missing => ad'[l] \in {None, Missing}
      <3>1. CASE UNCHANGED ad
        BY <3>1
      <3>2. ASSUME NEW k \in Logins, ImportUser(k) PROVE \A l \in Logins : ad[l] = Missing => ad'[l] \in {None, Missing}
        BY <3>2 DEF ImportUser, IInv, TypeOK
      <3>3. ASSUME NEW k \in Logins, NEW d \in Depts \cup {None}, NEW lock \in BOOLEAN, SetDepartment(k, d, lock)
            PROVE  \A l \in Logins : ad[l] = Missing => ad'[l] \in {None, Missing}
        BY <3>3 DEF SetDepartment, IInv, TypeOK
      <3>4. ASSUME NEW h \in Groups, NEW reported \in SUBSET Logins, SyncMembers(h, reported)
            PROVE  \A l \in Logins : ad[l] = Missing => ad'[l] \in {None, Missing}
        BY <3>4 DEF SyncMembers
      <3> QED
        BY <3>1, <3>2, <3>3, <3>4 DEF FormStep, CreateDepartment, SetRule, SetDisabled, users
    <2>3. \A l \in Logins : \/ ad'[l] = ad[l]
                            \/ ad'[l] # Missing /\ ad'[l] = Resolved(l)
      BY <2>1, <2>2, NewCardUnruled, NoRowAssumption
    <2>4. PlanRight(request[t].change) /\ DOMAIN request[t].change \subseteq Logins
      BY <1>3 DEF PlansRight, IInv, Shapes, RequestShape
    <2>5. \A c : PlanRight(c) /\ DOMAIN c \subseteq Logins => PlanRight(c)'
      BY <2>1, <2>3, PlanKept
    <2> QED
      BY <1>1, <2>4, <2>5
  <1> QED
    BY <1>1, <1>2, <1>3 DEF PlansRight

(* A deletion moves no card from the department a rule gives it.           *)
LEMMA DeletedCards ==
    ASSUME IInv, NEW t \in Threads, CommitDelete(t), NEW l \in Logins, ad'[l] # ad[l]
    PROVE  ad'[l] # Missing /\ ad[l] # Missing /\ ad[l] # Resolved(l)
  <1>1. IInv' /\ ad[l] \in Depts /\ dept'[ad[l]] = "deleted" /\ UNCHANGED rule
    BY CommitDeleteIInv DEF CommitDelete
  <1>2. ad[l] # Missing
    BY <1>1, NullAssumption
  <1>3. ad[l] # Resolved(l)
    <2>1. CASE RulesFor(l) = {}
      BY <1>1, <2>1, NullAssumption DEF Resolved
    <2>2. CASE RulesFor(l) # {}
      <3>1. rule[Winner(l)].dept \in Present'
        BY <1>1, <2>2, WinnerOutranks DEF IInv, TypeOK, RulesFor
      <3>2. ad[l] \notin Present'
        BY <1>1 DEF Present
      <3> QED
        BY <2>2, <3>1, <3>2 DEF Resolved
    <2> QED
      BY <2>1, <2>2
  <1>4. ad'[l] # Missing
    <2>1. request[t].target # Missing
      BY NullAssumption, NoRowAssumption DEF CommitDelete, IInv, Shapes, RequestShape
    <2>2. PICK d, late : ad' = ad \/ ad' = Moved(ad, Logins, "ad", d, request[t].target, late)
      BY DEF CommitDelete
    <2> QED
      BY <1>2, <2>1, <2>2, NoRowAssumption DEF Moved
  <1> QED
    BY <1>2, <1>3, <1>4

(* A plan is right when it is made.                                        *)
LEMMA NewPlanRight == ASSUME IInv PROVE PlanRight([l \in Changing |-> Resolved(l)])
  <1> DEFINE change == [l \in Changing |-> Resolved(l)]
  <1>1. DOMAIN change = Changing /\ \A l \in Changing : change[l] = Resolved(l)
    OBVIOUS
  <1> HIDE DEF change
  <1>2. \A l \in Logins : Free(l) /\ l \notin Changing => ad[l] = Resolved(l)
    BY DEF Free, Changing
  <1>3. \A l \in Changing : Free(l)
    BY DEF Free, Changing
  <1>4. PlanRight(change)
    BY <1>1, <1>2, <1>3 DEF PlanRight
  <1> QED
    BY <1>4 DEF change

(* A right plan is written whole: no department of it is gone.             *)
LEMMA RightPlanApplied ==
    ASSUME IInv, PlansRight, NEW t \in Threads, ApplyRules(t)
    PROVE  \A l \in Logins : /\ Free(l) => ad'[l] = Resolved(l)
                             /\ ad'[l] # ad[l] => ad'[l] = Resolved(l) /\ ad'[l] # Missing
  <1> DEFINE change == request[t].change
  <1>1. PlanRight(change) /\ DOMAIN change \subseteq Logins
    BY DEF ApplyRules, PlansRight, IInv, Shapes, RequestShape
  <1>2. \A l \in DOMAIN change : Free(l) /\ change[l] = Resolved(l)
    BY <1>1 DEF PlanRight
  <1>3. \A l \in DOMAIN change : change[l] \in Present \cup {None}
    BY <1>1, <1>2, ResolvedPresent
  <1>4. ad' = [l \in Logins |-> IF l \in DOMAIN change THEN change[l] ELSE ad[l]]
    BY <1>3 DEF ApplyRules
  <1>5. \A l \in Logins : Free(l) /\ l \notin DOMAIN change => ad[l] = Resolved(l)
    BY <1>1 DEF PlanRight
  <1> HIDE DEF change
  <1>6. \A l \in Logins : ad'[l] = IF l \in DOMAIN change THEN Resolved(l) ELSE ad[l]
    BY <1>2, <1>4
  <1>7. \A l \in Logins : Resolved(l) # Missing
    BY ResolvedPresent, NullAssumption, NoRowAssumption DEF Present
  <1> QED
    BY <1>5, <1>6, <1>7

LEMMA LongRequestPlans ==
    ASSUME IInv, PlansRight, NEW t \in Threads, LongRequest(t)
    PROVE  PlansRight' /\ OutrankStep
  <1>1. /\ \A s \in Threads \ {t} : request'[s] = request[s]
        /\ UNCHANGED <<locked, disabled, member, rule>>
    BY LongRequests
  <1>2. \A l \in Logins : \/ ad'[l] = ad[l]
                          \/ ad'[l] # Missing /\ ad'[l] = Resolved(l)
                          \/ ad'[l] # Missing /\ ad[l] # Missing /\ ad[l] # Resolved(l)
    <2>1. CASE ApplyRules(t)
      BY <2>1, RightPlanApplied
    <2>2. CASE CommitDelete(t)
      BY <2>2, DeletedCards
    <2>3. CASE PlanRules(t)
      BY <2>3 DEF PlanRules, users
    <2> QED
      BY <2>1, <2>2, <2>3, LongRequests
  <1>3. \A c : PlanRight(c) /\ DOMAIN c \subseteq Logins => PlanRight(c)'
    BY <1>1, <1>2, PlanKept
  <1>4. \A s \in Threads \ {t} : request'[s].op = "apply" => PlanRight(request[s].change)'
    BY <1>1, <1>3 DEF PlansRight, IInv, Shapes, RequestShape
  <1>5. request'[t].op = "apply" => PlanRight(request[t].change)'
    <2>1. CASE PlanRules(t)
      <3>1. PICK c : c = [l \in Changing |-> Resolved(l)]
        OBVIOUS
      <3>2. PlanRight(c) /\ DOMAIN c \subseteq Logins
        BY <3>1, NewPlanRight DEF Changing
      <3>3. PlanRight(c)'
        BY <1>3, <3>2
      <3>4. request'[t].change = c
        BY <2>1, <3>1 DEF PlanRules, IInv, Shapes
      <3> QED
        BY <3>3, <3>4
    <2>2. CASE ~PlanRules(t)
      <3>1. request'[t] = Idle \/ request'[t].op = "delete"
        BY <2>2, LongRequests
      <3> QED
        BY <3>1 DEF Idle
    <2> QED
      BY <2>1, <2>2
  <1>6. \A g \in Groups, l \in Logins : (<<g, l>> \in member => ad[l] # Missing)'
    BY <1>1, <1>2 DEF PlansRight
  <1>7. PlansRight'
    <2>1. ASSUME NEW s \in Threads, request'[s].op = "apply"
          PROVE  PlanRight(request[s].change)'
      <3>1. CASE s = t
        BY <1>5, <2>1, <3>1
      <3>2. CASE s # t
        BY <1>4, <2>1, <3>2
      <3> QED
        BY <3>1, <3>2
    <2> QED
      BY <1>6, <2>1 DEF PlansRight
  <1>8. OutrankStep
    <2>1. CASE ApplyRules(t)
      <3>1. ASSUME NEW l \in Logins, Free(l)
            PROVE  IF RulesFor(l) = {} THEN ad'[l] = None
                   ELSE \E g \in RulesFor(l) :
                           /\ ad'[l] = rule[g].dept
                           /\ \A h \in RulesFor(l) : rule[h].priority <= rule[g].priority
        <4>1. ad'[l] = Resolved(l)
          BY <2>1, <3>1, RightPlanApplied
        <4>2. CASE RulesFor(l) = {}
          BY <4>1, <4>2 DEF Resolved
        <4>3. CASE RulesFor(l) # {}
          BY <4>1, <4>3, WinnerOutranks DEF Resolved
        <4> QED
          BY <4>2, <4>3
      <3> QED
        BY <3>1 DEF OutrankStep, Free
    <2>2. CASE ~ApplyRules(t)
      <3>1. ~(request[t].op = "apply" /\ request'[t] = Idle)
        <4>1. CASE PlanRules(t)
          BY <4>1 DEF PlanRules, Idle
        <4>2. CASE CommitDelete(t)
          BY <4>2 DEF CommitDelete
        <4>3. request'[t].op = "delete" => request'[t] # Idle
          BY DEF Idle
        <4> QED
          BY <2>2, <4>1, <4>2, <4>3, LongRequests
      <3>2. \A s \in Threads \ {t} : ~(request[s].op = "apply" /\ request'[s] = Idle)
        BY <1>1 DEF Idle
      <3> QED
        BY <3>1, <3>2 DEF OutrankStep
    <2> QED
      BY <2>1, <2>2
  <1> QED
    BY <1>7, <1>8

LEMMA NextPlans ==
    ASSUME IInv, PlansRight, [Next /\ ~ChangesPlanned]_vars
    PROVE  PlansRight' /\ OutrankStep
  <1>1. ASSUME request' = request PROVE OutrankStep
    BY <1>1 DEF OutrankStep, Idle
  <1>2. CASE UNCHANGED <<request, ad, locked, disabled, member, rule>>
    <2>1. \A c : PlanRight(c) /\ DOMAIN c \subseteq Logins => PlanRight(c)'
      BY <1>2, PlanKept
    <2>2. ASSUME NEW t \in Threads, request[t].op = "apply"
          PROVE  PlanRight(request[t].change)'
      <3>1. PlanRight(request[t].change) /\ DOMAIN request[t].change \subseteq Logins
        BY <2>2 DEF PlansRight, IInv, Shapes, RequestShape
      <3> QED
        BY <1>2, <2>1, <3>1
    <2> QED
      BY <1>1, <1>2, <2>2 DEF PlansRight
  <1>3. CASE FormStep /\ ~ChangesPlanned
    BY <1>1, <1>3, FormPlans, FormCards
  <1>4. ASSUME NEW t \in Threads, LongRequest(t) PROVE PlansRight' /\ OutrankStep
    BY <1>4, LongRequestPlans
  <1> QED
    BY <1>2, <1>3, <1>4 DEF Next, Form, RecordJob, ImportCsv, RecountJobs, vars, users

(* Applying the rules gives every card it may touch the department of a    *)
(* rule that no other outranks, for any number of threads, whatever        *)
(* deletions, other applications, jobs and the CSV script commit between   *)
(* the plan and its application, where no form changes a card, a group or  *)
(* a rule meanwhile.                                                       *)
THEOREM AppliedRuleOutranks == CalmSpec => AppliedOutranks
  <1>1. IInv /\ PlansRight /\ [Next /\ ~ChangesPlanned]_vars => IInv' /\ PlansRight'
    BY NextIInv, NextPlans
  <1>2. IInv /\ PlansRight /\ [Next /\ ~ChangesPlanned]_vars
           => [\A t \in Threads : request[t].op = "apply" /\ request'[t] = Idle =>
                  \A l \in Logins : ad[l] # Missing /\ ~locked[l] /\ ~disabled[l] =>
                      IF RulesFor(l) = {} THEN ad'[l] = None
                      ELSE \E g \in RulesFor(l) :
                              /\ ad'[l] = rule[g].dept
                              /\ \A h \in RulesFor(l) : rule[h].priority <= rule[g].priority]_vars
    BY NextPlans DEF OutrankStep
  <1>3. Init => PlansRight
    BY DEF Init, PlansRight, Idle
  <1> QED
    BY <1>1, <1>2, <1>3, InitIInv, PTL DEF CalmSpec, AppliedOutranks
-----------------------------------------------------------------------------
(***************************************************************************)
(* Tariffs: what the collector and a discovery hold between reading and    *)
(* committing.  What was loaded is still there, as queues are never        *)
(* deleted; and rules are created one at a time, so they are finitely many.*)
(***************************************************************************)
CollectorShape ==
    /\ collector.op \in {"idle", "start", "run"}
    /\ collector.op = "run" =>
          /\ server
          /\ collector.todo \subseteq {j \in Jobs : printed[j] # None}
          /\ collector.rows \in [Queues -> Rows \cup {Missing}]
          /\ collector.inserted \subseteq Queues
          /\ collector.charges \in [Jobs -> Charges \cup {Missing}]

DiscoveryShape ==
    /\ discovery.op \in {"idle", "sync"}
    /\ discovery.op = "sync" => discovery.seen \subseteq Queues /\ DOMAIN discovery.loaded \subseteq KnownQueues

RulesShape == priceRule = [r \in RuleIds |-> priceRule[r]] /\ IsFiniteSet(KnownRules)

TariffInv == TariffsTypeOK /\ CollectorShape /\ DiscoveryShape /\ RulesShape

LEMMA InitTariffInv == TariffsInit => TariffInv
  <1> SUFFICES ASSUME TariffsInit PROVE TariffInv
    OBVIOUS
  <1>1. KnownRules = {} /\ KnownQueues = {}
    BY DEF TariffsInit, KnownRules, KnownQueues
  <1>2. TariffsTypeOK
    <2>1. /\ server = FALSE /\ now = 0 /\ printed \in [Jobs -> Times \cup {None}]
          /\ queue \in [Queues -> Rows \cup {Missing}] /\ charge \in [Jobs -> Charges \cup {Missing}]
      BY DEF TariffsInit
    <2>2. 0 \in Times
      BY TimeAssumption DEF Times
    <2> QED
      BY <1>1, <2>1, <2>2 DEF TariffsTypeOK
  <1>3. CollectorShape /\ DiscoveryShape
    BY DEF TariffsInit, CollectorShape, DiscoveryShape, Idle
  <1>4. RulesShape
    BY <1>1, FS_EmptySet DEF TariffsInit, RulesShape
  <1> QED
    BY <1>2, <1>3, <1>4 DEF TariffInv

(* The columns of a rule that the form has filled in.                      *)
LEMMA RuleColumns ==
    ASSUME TariffsTypeOK, NEW r \in KnownRules
    PROVE  /\ priceRule[r].queue \in Queues \cup {None}
           /\ priceRule[r].from \in Times \cup {None} /\ priceRule[r].to \in Times \cup {None}
           /\ priceRule[r].priority \in Int
  <1> DEFINE filled == [f \in DOMAIN priceRule[r] \ {"active"} |-> priceRule[r][f]]
  <1>1. filled \in [queue : Queues \cup {None}, from : Times \cup {None},
                    to : Times \cup {None}, priority : Int]
    BY RulesAssumption DEF TariffsTypeOK
  <1>2. DOMAIN filled = {"queue", "from", "to", "priority"}
    BY <1>1
  <1>3. \A f \in DOMAIN filled : filled[f] = priceRule[r][f]
    OBVIOUS
  <1> HIDE DEF filled
  <1>4. /\ filled.queue = priceRule[r].queue /\ filled.from = priceRule[r].from
        /\ filled.to = priceRule[r].to /\ filled.priority = priceRule[r].priority
    BY <1>2, <1>3
  <1> QED
    BY <1>1, <1>4

(* The rule that decides the price comes before every other one.           *)
LEMMA FirstOutranks ==
    ASSUME TariffInv, NEW q \in Queues, NEW at, Applicable(q, at) # {}
    PROVE  /\ First(Applicable(q, at)) \in Applicable(q, at)
           /\ \A s \in Applicable(q, at) \ {First(Applicable(q, at))} :
                 SortedBefore(First(Applicable(q, at)), s)
  <1> DEFINE S == Applicable(q, at)
             R == {x \in S \X S : SortedBefore(x[1], x[2])}
  <1>1. S \subseteq KnownRules
    BY DEF Applicable
  <1>2. IsFiniteSet(S)
    BY <1>1, FS_Subset DEF TariffInv, RulesShape
  <1>3. \A r \in S : r \in Nat /\ priceRule[r].priority \in Int
    BY <1>1, RuleColumns, RulesAssumption DEF TariffInv, KnownRules
  <1>4. \A r, s \in S : <<r, s>> \in R <=> SortedBefore(r, s)
    OBVIOUS
  <1> HIDE DEF S, R
  <1>5. \A r \in S : <<r, r>> \notin R
    BY <1>3, <1>4 DEF SortedBefore
  <1>6. ASSUME NEW r \in S, NEW s \in S, NEW t \in S, <<r, s>> \in R, <<s, t>> \in R
        PROVE  <<r, t>> \in R
    <2>1. /\ r \in Nat /\ s \in Nat /\ t \in Nat /\ priceRule[r].priority \in Int
          /\ priceRule[s].priority \in Int /\ priceRule[t].priority \in Int
      BY <1>3
    <2>2. SortedBefore(r, s) /\ SortedBefore(s, t)
      BY <1>4, <1>6
    <2>3. SortedBefore(r, t)
      BY <2>1, <2>2 DEF SortedBefore
    <2> QED
      BY <1>4, <2>3
  <1>7. ASSUME NEW r \in S, NEW s \in S, r # s PROVE <<r, s>> \in R \/ <<s, r>> \in R
    <2>1. /\ r \in Nat /\ s \in Nat
          /\ priceRule[r].priority \in Int /\ priceRule[s].priority \in Int
      BY <1>3
    <2>2. SortedBefore(r, s) \/ SortedBefore(s, r)
      BY <1>7, <2>1 DEF SortedBefore
    <2> QED
      BY <1>4, <2>2
  <1>8. \E r \in S : \A s \in S \ {r} : <<r, s>> \in R
    BY <1>2, <1>5, <1>6, <1>7, FirstExists DEF S
  <1>9. \E r \in S : \A s \in S \ {r} : SortedBefore(r, s)
    BY <1>4, <1>8
  <1> QED
    BY <1>9 DEF First, S

(* What decides the price is a rule, a setting of the queue or a list.     *)
LEMMA ChargeIs ==
    ASSUME TariffInv, NEW q \in Queues, NEW row \in Rows, NEW at
    PROVE  ChargeFor(q, row, at) \in Charges
  <1>1. CASE Applicable(q, at) # {}
    <2>1. First(Applicable(q, at)) \in RuleIds
      BY <1>1, FirstOutranks DEF Applicable, KnownRules
    <2> QED
      BY <1>1, <2>1 DEF ChargeFor, Charges
  <1>2. CASE Applicable(q, at) = {}
    <2>1. row.mode \in {"unknown", "bw", "color"}
      BY DEF Rows, Modes
    <2>2. Match(q) \in Charges
      BY QueuesAssumption DEF Match, Charges
    <2> QED
      BY <1>2, <2>1, <2>2 DEF ChargeFor, Charges
  <1> QED
    BY <1>1, <1>2

(* Queues are never deleted, and what a discovery holds stays loaded.      *)
LEMMA DiscoveryKept ==
    ASSUME TariffInv, KnownQueues \subseteq KnownQueues', UNCHANGED discovery
    PROVE  DiscoveryShape'
  BY DEF TariffInv, DiscoveryShape

LEMMA UpdateQueueTariffInv ==
    ASSUME TariffInv, NEW q \in Queues, NEW form \in OfferedSettings, UpdateQueue(q, form)
    PROVE  TariffInv'
  <1> DEFINE row == [f \in DOMAIN form \cup {"active"} |->
                       IF f = "active" THEN queue[q].active ELSE form[f]]
  <1>1. /\ q \in KnownQueues /\ queue' = [queue EXCEPT ![q] = row]
        /\ UNCHANGED <<server, priceRule, now, printed, charge, collector, discovery>>
    BY DEF UpdateQueue
  <1>2. row \in Rows
    <2>1. queue[q].active \in BOOLEAN
      BY <1>1 DEF TariffInv, TariffsTypeOK, KnownQueues, Rows
    <2>2. form \in [mode : Modes, collected : BOOLEAN, priced : BOOLEAN]
      BY QueuesAssumption
    <2>3. DOMAIN form \cup {"active"} = {"active", "mode", "collected", "priced"}
      BY <2>2
    <2> QED
      BY <2>1, <2>2, <2>3 DEF Rows
  <1> HIDE DEF row
  <1>3. queue' \in [Queues -> Rows \cup {Missing}] /\ queue'[q] \in Rows
        /\ \A p \in Queues \ {q} : queue'[p] = queue[p]
    BY <1>1, <1>2 DEF TariffInv, TariffsTypeOK
  <1>4. KnownQueues' = KnownQueues
    BY <1>1, <1>3, TariffNullAssumption DEF KnownQueues
  <1>5. KnownRules' = KnownRules
    BY <1>1 DEF KnownRules
  <1>6. TariffsTypeOK'
    BY <1>1, <1>3, <1>4, <1>5 DEF TariffInv, TariffsTypeOK
  <1> QED
    BY <1>1, <1>4, <1>5, <1>6, DiscoveryKept DEF TariffInv, CollectorShape, RulesShape

LEMMA CreateRuleTariffInv ==
    ASSUME TariffInv, NEW r \in RuleIds, NEW form \in OfferedRules, CreateRule(r, form)
    PROVE  TariffInv'
  <1> DEFINE row == [f \in DOMAIN form \cup {"active"} |-> IF f = "active" THEN TRUE ELSE form[f]]
  <1>1. /\ form.queue \in KnownQueues \cup {None}
        /\ priceRule' = [priceRule EXCEPT ![r] = row]
        /\ UNCHANGED <<server, queue, now, printed, charge, collector, discovery>>
    BY DEF CreateRule
  <1>2. KnownQueues' = KnownQueues
    BY <1>1 DEF KnownQueues
  <1>3. /\ [f \in DOMAIN row \ {"active"} |-> row[f]] \in OfferedRules
        /\ row.queue = form.queue
    <2>1. form \in [queue : Queues \cup {None}, from : Times \cup {None},
                    to : Times \cup {None}, priority : Int]
      BY RulesAssumption
    <2>2. DOMAIN form = {"queue", "from", "to", "priority"} /\ form = [f \in DOMAIN form |-> form[f]]
      BY <2>1
    <2>3. DOMAIN row \ {"active"} = DOMAIN form
      BY <2>2
    <2>4. \A f \in DOMAIN form : row[f] = form[f]
      BY <2>2
    <2> HIDE DEF row
    <2>5. [f \in DOMAIN row \ {"active"} |-> row[f]] = [f \in DOMAIN form |-> form[f]]
      BY <2>3, <2>4
    <2> QED
      BY <2>2, <2>4, <2>5
  <1> HIDE DEF row
  <1>4. /\ priceRule' = [s \in RuleIds |-> priceRule'[s]]
        /\ priceRule'[r] = row /\ \A s \in RuleIds \ {r} : priceRule'[s] = priceRule[s]
    BY <1>1 DEF TariffInv, RulesShape
  <1>5. KnownRules' \subseteq KnownRules \cup {r}
    BY <1>4 DEF KnownRules
  <1>6. IsFiniteSet(KnownRules')
    BY <1>5, FS_AddElement, FS_Subset DEF TariffInv, RulesShape
  <1>7. \A s \in KnownRules' :
          /\ [f \in DOMAIN priceRule'[s] \ {"active"} |-> priceRule'[s][f]] \in OfferedRules
          /\ priceRule'[s].queue \in KnownQueues' \cup {None}
    <2>1. ASSUME NEW s \in KnownRules', s # r
          PROVE  /\ [f \in DOMAIN priceRule'[s] \ {"active"} |-> priceRule'[s][f]] \in OfferedRules
                 /\ priceRule'[s].queue \in KnownQueues' \cup {None}
      BY <1>2, <1>4, <2>1 DEF TariffInv, TariffsTypeOK, KnownRules
    <2> QED
      BY <1>1, <1>2, <1>3, <1>4, <2>1
  <1>8. TariffsTypeOK'
    BY <1>1, <1>2, <1>7 DEF TariffInv, TariffsTypeOK
  <1> QED
    BY <1>1, <1>2, <1>4, <1>6, <1>8, DiscoveryKept DEF TariffInv, CollectorShape, RulesShape

LEMMA DeactivateRuleTariffInv == ASSUME TariffInv, NEW r \in RuleIds, DeactivateRule(r) PROVE TariffInv'
  <1> DEFINE row == [priceRule[r] EXCEPT !.active = FALSE]
  <1>1. /\ r \in KnownRules /\ priceRule' = [priceRule EXCEPT ![r] = row]
        /\ UNCHANGED <<server, queue, now, printed, charge, collector, discovery>>
    BY DEF DeactivateRule
  <1>2. KnownQueues' = KnownQueues
    BY <1>1 DEF KnownQueues
  <1>3. DOMAIN row = DOMAIN priceRule[r] /\ \A f \in DOMAIN row \ {"active"} : row[f] = priceRule[r][f]
    OBVIOUS
  <1> HIDE DEF row
  <1>4. [f \in DOMAIN row \ {"active"} |-> row[f]]
          = [f \in DOMAIN priceRule[r] \ {"active"} |-> priceRule[r][f]]
    BY <1>3
  <1>5. row.queue = priceRule[r].queue
    <2> DEFINE filled == [f \in DOMAIN priceRule[r] \ {"active"} |-> priceRule[r][f]]
    <2>1. filled \in [queue : Queues \cup {None}, from : Times \cup {None},
                      to : Times \cup {None}, priority : Int]
      BY <1>1, RulesAssumption DEF TariffInv, TariffsTypeOK
    <2>2. "queue" \in DOMAIN filled
      BY <2>1
    <2> QED
      BY <1>3, <2>2
  <1>6. /\ priceRule' = [s \in RuleIds |-> priceRule'[s]]
        /\ priceRule'[r] = row /\ \A s \in RuleIds \ {r} : priceRule'[s] = priceRule[s]
    BY <1>1 DEF TariffInv, RulesShape
  <1>7. KnownRules' \subseteq KnownRules
    BY <1>1, <1>6 DEF KnownRules
  <1>8. IsFiniteSet(KnownRules')
    BY <1>7, FS_Subset DEF TariffInv, RulesShape
  <1>9. \A s \in KnownRules' :
          /\ [f \in DOMAIN priceRule'[s] \ {"active"} |-> priceRule'[s][f]] \in OfferedRules
          /\ priceRule'[s].queue \in KnownQueues' \cup {None}
    <2>1. ASSUME NEW s \in KnownRules', s # r
          PROVE  /\ [f \in DOMAIN priceRule'[s] \ {"active"} |-> priceRule'[s][f]] \in OfferedRules
                 /\ priceRule'[s].queue \in KnownQueues' \cup {None}
      BY <1>2, <1>6, <1>7, <2>1 DEF TariffInv, TariffsTypeOK, KnownRules
    <2>2. /\ [f \in DOMAIN priceRule'[r] \ {"active"} |-> priceRule'[r][f]] \in OfferedRules
          /\ priceRule'[r].queue \in KnownQueues' \cup {None}
      BY <1>1, <1>2, <1>4, <1>5, <1>6 DEF TariffInv, TariffsTypeOK
    <2> QED
      BY <2>1, <2>2
  <1>10. TariffsTypeOK'
    BY <1>1, <1>2, <1>9 DEF TariffInv, TariffsTypeOK
  <1> QED
    BY <1>1, <1>2, <1>6, <1>8, <1>10, DiscoveryKept DEF TariffInv, CollectorShape, RulesShape

LEMMA TickTariffInv == ASSUME TariffInv, Tick PROVE TariffInv'
  <1>1. now' \in Times /\ UNCHANGED <<server, queue, priceRule, printed, charge, collector, discovery>>
    BY TimeAssumption DEF Tick, TariffInv, TariffsTypeOK, Times
  <1>2. KnownQueues' = KnownQueues /\ KnownRules' = KnownRules
    BY <1>1 DEF KnownQueues, KnownRules
  <1> QED
    BY <1>1, <1>2 DEF TariffInv, TariffsTypeOK, CollectorShape, DiscoveryShape, RulesShape

LEMMA PrintJobTariffInv == ASSUME TariffInv, NEW j \in Jobs, PrintJob(j) PROVE TariffInv'
  <1>1. /\ printed' = [printed EXCEPT ![j] = now]
        /\ UNCHANGED <<server, queue, priceRule, now, charge, collector, discovery>>
    BY DEF PrintJob
  <1>2. KnownQueues' = KnownQueues /\ KnownRules' = KnownRules
    BY <1>1 DEF KnownQueues, KnownRules
  <1>3. /\ printed' \in [Jobs -> Times \cup {None}]
        /\ \A k \in Jobs : printed[k] # None => printed'[k] # None
    BY <1>1, TariffNullAssumption DEF TariffInv, TariffsTypeOK
  <1>4. CollectorShape'
    BY <1>1, <1>3 DEF TariffInv, CollectorShape
  <1> QED
    BY <1>1, <1>2, <1>3, <1>4 DEF TariffInv, TariffsTypeOK, DiscoveryShape, RulesShape

LEMMA ReadsTariffInv ==
    ASSUME TariffInv, UNCHANGED <<server, queue, priceRule, now, printed, charge>>,
           CollectorShape', DiscoveryShape'
    PROVE  TariffInv'
  <1>1. KnownQueues' = KnownQueues /\ KnownRules' = KnownRules
    BY DEF KnownQueues, KnownRules
  <1> QED
    BY <1>1 DEF TariffInv, TariffsTypeOK, RulesShape

LEMMA LookUpServerTariffInv == ASSUME TariffInv, LookUpServer PROVE TariffInv'
  <1>1. /\ collector' = [op |-> "start", newServer |-> ~server]
        /\ UNCHANGED <<server, queue, priceRule, now, printed, charge, discovery>>
    BY DEF LookUpServer
  <1>2. CollectorShape'
    BY <1>1 DEF CollectorShape
  <1>3. KnownQueues' = KnownQueues
    BY <1>1 DEF KnownQueues
  <1> QED
    BY <1>1, <1>2, <1>3, DiscoveryKept, ReadsTariffInv

LEMMA StartRunTariffInv == ASSUME TariffInv, StartRun PROVE TariffInv'
  <1>1. /\ server' = TRUE /\ collector' \in {Idle, Fetched}
        /\ UNCHANGED <<queue, priceRule, now, printed, charge, discovery>>
    BY DEF StartRun
  <1>2. KnownQueues' = KnownQueues /\ KnownRules' = KnownRules
    BY <1>1 DEF KnownQueues, KnownRules
  <1>3. CollectorShape'
    BY <1>1 DEF CollectorShape, Fetched, Idle
  <1> QED
    BY <1>1, <1>2, <1>3, DiscoveryKept DEF TariffInv, TariffsTypeOK, RulesShape

(* The row a run holds of a queue is one.                                  *)
LEMMA RowOfIs ==
    ASSUME TariffInv, NEW q \in Queues, collector.op = "run"
    PROVE  RowOf(q) \in Rows
  <1>1. /\ collector.rows[q] \in Rows \cup {Missing} /\ queue[q] \in Rows \cup {Missing}
        /\ NewQueue \in Rows
    BY DEF TariffInv, TariffsTypeOK, CollectorShape, NewQueue, Rows, Modes
  <1> QED
    BY <1>1 DEF RowOf

LEMMA ReadEventTariffInv == ASSUME TariffInv, NEW j \in Jobs, ReadEvent(j) PROVE TariffInv'
  <1> DEFINE c == collector
             q == QueueOf[j]
             row == RowOf(q)
             cost == IF row.collected THEN ChargeFor(q, row, printed[j]) ELSE Skipped
             rows == [c.rows EXCEPT ![q] = row]
             inserted == IF c.rows[q] = Missing /\ queue[q] = Missing THEN c.inserted \cup {q} ELSE c.inserted
             charges == [c.charges EXCEPT ![j] = cost]
  <1>1. /\ c.op = "run" /\ j \in c.todo
        /\ collector' = [op |-> "run", todo |-> c.todo \ {j}, rows |-> rows,
                         inserted |-> inserted, charges |-> charges]
        /\ UNCHANGED <<server, queue, priceRule, now, printed, charge, discovery>>
    BY DEF ReadEvent
  <1>2. q \in Queues
    BY QueuesAssumption
  <1>3. row \in Rows
    BY <1>1, <1>2, RowOfIs
  <1>4. Skipped \in Charges
    BY DEF Skipped, Charges
  <1>5. printed[j] # None
    BY <1>1 DEF TariffInv, CollectorShape
  <1>6. cost \in Charges
    BY <1>2, <1>3, <1>4, ChargeIs
  <1> HIDE DEF row, cost
  <1>7. /\ rows \in [Queues -> Rows \cup {Missing}] /\ inserted \subseteq Queues
        /\ charges \in [Jobs -> Charges \cup {Missing}]
    BY <1>1, <1>2, <1>3, <1>6 DEF TariffInv, CollectorShape
  <1> HIDE DEF rows, inserted, charges
  <1>8. CollectorShape'
    BY <1>1, <1>7 DEF TariffInv, CollectorShape
  <1>9. KnownQueues' = KnownQueues
    BY <1>1 DEF KnownQueues
  <1> QED
    BY <1>1, <1>8, <1>9, DiscoveryKept, ReadsTariffInv

LEMMA DiscoverTariffInv == ASSUME TariffInv, NEW seen \in SUBSET Queues, Discover(seen) PROVE TariffInv'
  <1>1. /\ discovery' = [op |-> "sync", seen |-> seen, newServer |-> ~server,
                         loaded |-> [q \in KnownQueues |-> queue[q].active]]
        /\ UNCHANGED <<server, queue, priceRule, now, printed, charge, collector>>
    BY DEF Discover
  <1>2. KnownQueues' = KnownQueues
    BY <1>1 DEF KnownQueues
  <1>3. DiscoveryShape'
    BY <1>1, <1>2 DEF DiscoveryShape
  <1>4. CollectorShape'
    BY <1>1 DEF TariffInv, CollectorShape
  <1> QED
    BY <1>1, <1>3, <1>4, ReadsTariffInv

SettingsStep ==
    \A q \in KnownQueues :
        [f \in {"mode", "collected", "priced"} |-> queue'[q][f]]
           # [f \in {"mode", "collected", "priced"} |-> queue[q][f]]
        => UNCHANGED <<collector, discovery>>

(* A run inserts the queues it did not find, or nothing at all if one of   *)
(* them is there by now.                                                   *)
LEMMA CommitRunTariffInv == ASSUME TariffInv, CommitRun PROVE TariffInv' /\ SettingsStep
  <1> DEFINE c == collector
  <1>1. /\ c.op = "run" /\ collector' = Idle
        /\ UNCHANGED <<server, priceRule, now, printed, discovery>>
    BY DEF CommitRun
  <1>2. server /\ c.inserted \subseteq Queues /\ c.charges \in [Jobs -> Charges \cup {Missing}]
    BY <1>1 DEF TariffInv, CollectorShape
  <1>3. KnownRules' = KnownRules /\ CollectorShape'
    BY <1>1 DEF KnownRules, CollectorShape, Idle
  <1>4. CASE c.inserted \cap KnownQueues # {}
    <2>1. UNCHANGED <<queue, charge>>
      BY <1>4 DEF CommitRun
    <2>2. KnownQueues' = KnownQueues
      BY <2>1 DEF KnownQueues
    <2>3. TariffsTypeOK' /\ RulesShape'
      BY <1>1, <1>3, <2>1, <2>2 DEF TariffInv, TariffsTypeOK, RulesShape
    <2> QED
      BY <1>1, <1>3, <2>1, <2>2, <2>3, DiscoveryKept DEF TariffInv, SettingsStep
  <1>5. CASE ~(c.inserted \cap KnownQueues # {})
    <2>1. /\ queue' = [q \in Queues |-> IF q \in c.inserted THEN NewQueue ELSE queue[q]]
          /\ charge' = [j \in Jobs |-> IF c.charges[j] # Missing THEN c.charges[j] ELSE charge[j]]
      BY <1>5 DEF CommitRun
    <2>2. NewQueue \in Rows
      BY DEF NewQueue, Rows, Modes
    <2>3. /\ queue' \in [Queues -> Rows \cup {Missing}]
          /\ \A p \in KnownQueues : queue'[p] = queue[p]
      BY <1>5, <2>1, <2>2 DEF TariffInv, TariffsTypeOK, KnownQueues
    <2>4. KnownQueues \subseteq KnownQueues'
      BY <2>3 DEF KnownQueues
    <2>5. charge' \in [Jobs -> Charges \cup {Missing}]
      BY <1>2, <2>1 DEF TariffInv, TariffsTypeOK
    <2>6. TariffsTypeOK' /\ RulesShape'
      BY <1>1, <1>2, <1>3, <2>3, <2>4, <2>5 DEF TariffInv, TariffsTypeOK, RulesShape
    <2>7. SettingsStep
      BY <2>3 DEF SettingsStep
    <2> QED
      BY <1>1, <1>3, <2>4, <2>6, <2>7, DiscoveryKept DEF TariffInv
  <1> QED
    BY <1>4, <1>5

(* A discovery changes of a queue it had loaded is_active alone, and fails *)
(* if a queue it inserts is there by now.                                  *)
LEMMA CommitDiscoveryTariffInv == ASSUME TariffInv, CommitDiscovery PROVE TariffInv' /\ SettingsStep
  <1> DEFINE d == discovery
             inserted == d.seen \ DOMAIN d.loaded
  <1>1. /\ d.op = "sync" /\ discovery' = Idle
        /\ UNCHANGED <<priceRule, now, printed, charge, collector>>
    BY DEF CommitDiscovery
  <1>2. d.seen \subseteq Queues /\ DOMAIN d.loaded \subseteq KnownQueues
    BY <1>1 DEF TariffInv, DiscoveryShape
  <1>3. KnownRules' = KnownRules /\ CollectorShape' /\ DiscoveryShape'
    <2>1. server => server'
      BY DEF CommitDiscovery
    <2> QED
      BY <1>1, <2>1 DEF TariffInv, KnownRules, CollectorShape, DiscoveryShape, Idle
  <1>4. CASE (d.newServer /\ server) \/ inserted \cap KnownQueues # {}
    <2>1. UNCHANGED <<server, queue>>
      BY <1>4 DEF CommitDiscovery
    <2>2. KnownQueues' = KnownQueues
      BY <2>1 DEF KnownQueues
    <2>3. TariffsTypeOK' /\ RulesShape'
      BY <1>1, <1>3, <2>1, <2>2 DEF TariffInv, TariffsTypeOK, RulesShape
    <2> QED
      BY <1>3, <2>1, <2>3 DEF TariffInv, SettingsStep
  <1>5. CASE ~((d.newServer /\ server) \/ inserted \cap KnownQueues # {})
    <2>1. /\ server' = TRUE
          /\ queue' = [q \in Queues |-> IF q \in d.seen \cup DOMAIN d.loaded
                                        THEN Synchronised(q) ELSE queue[q]]
      BY <1>5 DEF CommitDiscovery
    <2>2. NewQueue \in Rows
      BY DEF NewQueue, Rows, Modes
    <2>3. ASSUME NEW q \in KnownQueues
          PROVE  /\ queue'[q] \in Rows
                 /\ \A f \in {"mode", "collected", "priced"} : queue'[q][f] = queue[q][f]
      <3>1. queue[q] \in Rows /\ q \in Queues
        BY DEF TariffInv, TariffsTypeOK, KnownQueues
      <3>2. q \in d.seen => q \in DOMAIN d.loaded
        BY <1>5
      <3>3. queue'[q] = queue[q] \/ queue'[q] = [queue[q] EXCEPT !.active = q \in d.seen]
        BY <2>1, <3>1, <3>2 DEF Synchronised
      <3>4. ASSUME NEW row \in Rows, NEW b \in BOOLEAN
            PROVE  /\ [row EXCEPT !.active = b] \in Rows
                   /\ \A f \in {"mode", "collected", "priced"} : [row EXCEPT !.active = b][f] = row[f]
        BY DEF Rows
      <3>5. (q \in d.seen) \in BOOLEAN
        OBVIOUS
      <3>6. PICK b \in BOOLEAN : queue'[q] = queue[q] \/ queue'[q] = [queue[q] EXCEPT !.active = b]
        BY <3>3, <3>5, Zenon
      <3>7. CASE queue'[q] = [queue[q] EXCEPT !.active = b]
        <4>1. /\ [queue[q] EXCEPT !.active = b] \in Rows
              /\ \A f \in {"mode", "collected", "priced"} : [queue[q] EXCEPT !.active = b][f] = queue[q][f]
          BY <3>1, <3>4
        <4> QED
          BY <3>7, <4>1, Zenon
      <3> QED
        BY <3>1, <3>6, <3>7
    <2>4. \A q \in Queues \ KnownQueues : queue'[q] \in Rows \cup {Missing}
      BY <1>2, <2>1, <2>2 DEF Synchronised, KnownQueues
    <2>5. queue' \in [Queues -> Rows \cup {Missing}]
      BY <2>1, <2>3, <2>4 DEF KnownQueues
    <2>6. KnownQueues \subseteq KnownQueues'
      BY <2>3, TariffNullAssumption DEF KnownQueues
    <2>7. TariffsTypeOK' /\ RulesShape'
      BY <1>1, <1>3, <2>1, <2>5, <2>6 DEF TariffInv, TariffsTypeOK, RulesShape
    <2>8. SettingsStep
      BY <2>3 DEF SettingsStep
    <2> QED
      BY <1>3, <2>7, <2>8 DEF TariffInv
  <1> QED
    BY <1>4, <1>5

(***************************************************************************)
(* The tariff a job is charged by                                          *)
(***************************************************************************)
ValidRule(r, at) ==
    /\ priceRule[r] # Missing /\ priceRule[r].active
    /\ priceRule[r].from # None => priceRule[r].from <= at
    /\ priceRule[r].to # None => at < priceRule[r].to
OwnRules(q, at) == {r \in RuleIds : ValidRule(r, at) /\ priceRule[r].queue = q}
GeneralRules(at) == {r \in RuleIds : ValidRule(r, at) /\ priceRule[r].queue = None}
Highest(rules) == {r \in rules : \A s \in rules : priceRule[s].priority <= priceRule[r].priority}

ChargeStep ==
    \A j \in Jobs : collector.op = "run" /\ collector'.op = "run"
        /\ collector'.charges[j] \notin {collector.charges[j], Skipped} =>
        LET q == QueueOf[j]  at == printed[j] - Ahead  by == collector'.charges[j].rule
        IN  IF OwnRules(q, at) # {} THEN by \in Highest(OwnRules(q, at))
            ELSE IF GeneralRules(at) # {} THEN by \in Highest(GeneralRules(at))
            ELSE by = None

(* The documentation says from, the code not before: the same for numbers. *)
LEMMA ApplicableAre ==
    ASSUME TariffInv, NEW q \in Queues, NEW at \in Times
    PROVE  Applicable(q, at) = OwnRules(q, at - Ahead) \cup GeneralRules(at - Ahead)
  <1>1. ASSUME NEW r \in KnownRules
        PROVE  InPeriod(r, at) /\ priceRule[r].active <=> ValidRule(r, at - Ahead)
    <2>1. /\ priceRule[r].from \in Times \cup {None} /\ priceRule[r].to \in Times \cup {None}
          /\ priceRule[r] # Missing
      BY RuleColumns DEF TariffInv, KnownRules
    <2> QED
      BY <2>1, TimeAssumption DEF InPeriod, NaiveUtc, ValidRule, Times
  <1> QED
    BY <1>1 DEF Applicable, OwnRules, GeneralRules, KnownRules, ValidRule

LEMMA ReadEventCharge == ASSUME TariffInv, NEW k \in Jobs, ReadEvent(k) PROVE ChargeStep
  <1> DEFINE q == QueueOf[k]
             at == printed[k] - Ahead
             row == RowOf(q)
             A == Applicable(q, printed[k])
             cost == collector'.charges[k]
  <1>1. /\ cost = IF row.collected THEN ChargeFor(q, row, printed[k]) ELSE Skipped
        /\ \A j \in Jobs \ {k} : collector'.charges[j] = collector.charges[j]
        /\ printed[k] # None
    BY DEF ReadEvent, TariffInv, CollectorShape
  <1>2. q \in Queues /\ printed[k] \in Times
    BY <1>1, QueuesAssumption DEF TariffInv, TariffsTypeOK
  <1>3. A = OwnRules(q, at) \cup GeneralRules(at)
    BY <1>2, ApplicableAre
  <1>4. \A r \in A : priceRule[r].priority \in Int
    BY RuleColumns DEF Applicable, TariffInv
  <1>5. q # None
    BY <1>2, TariffNullAssumption
  <1>6. OwnRules(q, at) \cap GeneralRules(at) = {}
    BY <1>5 DEF OwnRules, GeneralRules
  <1> DEFINE by == cost.rule
  <1>7. ASSUME cost # Skipped
        PROVE  IF OwnRules(q, at) # {} THEN by \in Highest(OwnRules(q, at))
               ELSE IF GeneralRules(at) # {} THEN by \in Highest(GeneralRules(at))
               ELSE by = None
    <2>1. cost = ChargeFor(q, row, printed[k])
      BY <1>1, <1>7
    <2> HIDE DEF cost
    <2>2. CASE A = {}
      <3>1. by = None
        BY <2>1, <2>2 DEF ChargeFor, Match
      <3> QED
        BY <1>3, <2>2, <3>1
    <2>3. CASE A # {}
      <3>1. by = First(A)
        BY <2>1, <2>3 DEF ChargeFor
      <3>2. by \in A /\ \A s \in A \ {by} : SortedBefore(by, s)
        BY <1>2, <2>3, <3>1, FirstOutranks
      <3> HIDE DEF A, by
      <3>3. ASSUME NEW s \in A, (priceRule[by].queue = None) = (priceRule[s].queue = None)
            PROVE  priceRule[s].priority <= priceRule[by].priority
        <4>1. priceRule[by].priority \in Int /\ priceRule[s].priority \in Int
          BY <1>4, <3>2
        <4> QED
          BY <3>2, <3>3, <4>1 DEF SortedBefore
      <3>4. CASE OwnRules(q, at) # {}
        <4>1. PICK s \in OwnRules(q, at) : TRUE
          BY <3>4
        <4>2. s \in A /\ priceRule[s].queue # None
          BY <1>3, <1>5, <4>1 DEF OwnRules
        <4>3. priceRule[by].queue # None
          BY <3>2, <4>2 DEF SortedBefore
        <4>4. by \in OwnRules(q, at)
          BY <1>3, <3>2, <4>3 DEF GeneralRules
        <4>5. \A r \in OwnRules(q, at) : r \in A /\ priceRule[r].queue # None
          BY <1>3, <1>5 DEF OwnRules
        <4>6. \A r \in OwnRules(q, at) : priceRule[r].priority <= priceRule[by].priority
          BY <3>3, <4>3, <4>5
        <4> QED
          BY <3>4, <4>4, <4>6 DEF Highest
      <3>5. CASE OwnRules(q, at) = {}
        <4>1. by \in GeneralRules(at) /\ GeneralRules(at) = A
          BY <1>3, <3>2, <3>5
        <4>2. \A r \in A : priceRule[r].queue = None
          BY <4>1 DEF GeneralRules
        <4>3. \A r \in A : priceRule[r].priority <= priceRule[by].priority
          BY <3>2, <3>3, <4>2
        <4> QED
          BY <3>5, <4>1, <4>3 DEF Highest
      <3> QED
        BY <3>4, <3>5
    <2> QED
      BY <2>2, <2>3
  <1> HIDE DEF by, cost, at
  <1> QED
    BY <1>1, <1>7 DEF ChargeStep, by, cost, at

-----------------------------------------------------------------------------
LEMMA NextTariffInv ==
    ASSUME TariffInv, [TariffsNext]_tariffsVars
    PROVE  TariffInv' /\ SettingsStep /\ ChargeStep
  <1>1. ASSUME UNCHANGED <<collector, discovery>> PROVE SettingsStep /\ ChargeStep
    BY <1>1 DEF SettingsStep, ChargeStep
  <1>2. ASSUME UNCHANGED queue PROVE SettingsStep
    BY <1>2 DEF SettingsStep
  <1>3. ASSUME UNCHANGED collector \/ collector.op # "run" \/ collector'.op # "run" PROVE ChargeStep
    BY <1>3 DEF ChargeStep
  <1>4. CASE TariffForm
    <2>1. TariffInv'
      BY <1>4, UpdateQueueTariffInv, CreateRuleTariffInv, DeactivateRuleTariffInv DEF TariffForm
    <2>2. UNCHANGED <<collector, discovery>>
      BY <1>4 DEF TariffForm, UpdateQueue, CreateRule, DeactivateRule
    <2> QED
      BY <1>1, <2>1, <2>2
  <1>5. CASE Tick
    BY <1>1, <1>5, TickTariffInv DEF Tick
  <1>6. ASSUME NEW j \in Jobs, PrintJob(j) PROVE TariffInv' /\ SettingsStep /\ ChargeStep
    BY <1>1, <1>6, PrintJobTariffInv DEF PrintJob
  <1>7. ASSUME NEW j \in Jobs, ReadEvent(j) PROVE TariffInv' /\ SettingsStep /\ ChargeStep
    BY <1>2, <1>7, ReadEventTariffInv, ReadEventCharge DEF ReadEvent
  <1>8. CASE LookUpServer
    BY <1>2, <1>3, <1>8, LookUpServerTariffInv DEF LookUpServer
  <1>9. CASE StartRun
    BY <1>2, <1>3, <1>9, StartRunTariffInv DEF StartRun
  <1>10. CASE CommitRun
    BY <1>3, <1>10, CommitRunTariffInv DEF CommitRun, Idle
  <1>11. ASSUME NEW seen \in SUBSET Queues, Discover(seen) PROVE TariffInv' /\ SettingsStep /\ ChargeStep
    BY <1>2, <1>3, <1>11, DiscoverTariffInv DEF Discover
  <1>12. CASE CommitDiscovery
    BY <1>3, <1>12, CommitDiscoveryTariffInv DEF CommitDiscovery
  <1>13. CASE UNCHANGED tariffsVars
    <2>1. UNCHANGED <<server, queue, priceRule, now, printed, charge, collector, discovery>>
      BY <1>13 DEF tariffsVars
    <2>2. KnownQueues' = KnownQueues
      BY <2>1 DEF KnownQueues
    <2>3. CollectorShape' /\ DiscoveryShape'
      BY <2>1, <2>2 DEF TariffInv, CollectorShape, DiscoveryShape
    <2> QED
      BY <1>1, <2>1, <2>3, ReadsTariffInv
  <1> QED
    BY <1>4, <1>5, <1>6, <1>7, <1>8, <1>9, <1>10, <1>11, <1>12, <1>13
    DEF TariffsNext, Collect

(* The inductive invariant holds of every behaviour.                       *)
THEOREM TariffInvariantHolds == TariffsSpec => []TariffInv
  <1>1. TariffInv /\ [TariffsNext]_tariffsVars => TariffInv'
    BY NextTariffInv
  <1> QED
    BY <1>1, InitTariffInv, PTL DEF TariffsSpec

(* Every variable keeps its type: no queue is without its print server, no *)
(* rule of a queue without the queue.                                      *)
THEOREM TariffsTypeCorrect == TariffsSpec => []TariffsTypeOK
  <1>1. TariffInv => TariffsTypeOK
    BY DEF TariffInv
  <1> QED
    BY <1>1, TariffInvariantHolds, PTL

(* What the administrator set on a queue is overwritten by no discovery    *)
(* and no job, however old the rows are that they have read.               *)
THEOREM SettingsStay == TariffsSpec => SettingsKept
  <1>1. TariffInv /\ [TariffsNext]_tariffsVars => TariffInv'
    BY NextTariffInv
  <1>2. TariffInv /\ [TariffsNext]_tariffsVars
           => [\A q \in KnownQueues :
                  [f \in {"mode", "collected", "priced"} |-> queue'[q][f]]
                     # [f \in {"mode", "collected", "priced"} |-> queue[q][f]]
                  => UNCHANGED <<collector, discovery>>]_tariffsVars
    BY NextTariffInv DEF SettingsStep
  <1> QED
    BY <1>1, <1>2, InitTariffInv, PTL DEF TariffsSpec, SettingsKept

(* A job is charged by the rule the documentation promises: of its queue   *)
(* before general ones, valid when it was printed, of highest priority.    *)
THEOREM ChargesAreDocumented == TariffsSpec => ChargedAsDocumented
  <1>1. TariffInv /\ [TariffsNext]_tariffsVars => TariffInv'
    BY NextTariffInv
  <1>2. TariffInv /\ [TariffsNext]_tariffsVars => [ChargeStep]_tariffsVars
    BY NextTariffInv
  <1>3. [ChargeStep]_tariffsVars
           => [\A j \in Jobs : collector.op = "run" /\ collector'.op = "run"
                  /\ collector'.charges[j] \notin {collector.charges[j], Skipped} =>
                  LET q == QueueOf[j]  at == printed[j] - Ahead  by == collector'.charges[j].rule
                      valid(r) == /\ priceRule[r] # Missing /\ priceRule[r].active
                                  /\ priceRule[r].from # None => priceRule[r].from <= at
                                  /\ priceRule[r].to # None => at < priceRule[r].to
                      own == {r \in RuleIds : valid(r) /\ priceRule[r].queue = q}
                      general == {r \in RuleIds : valid(r) /\ priceRule[r].queue = None}
                      highest(rules) == {r \in rules : \A s \in rules :
                                            priceRule[s].priority <= priceRule[r].priority}
                  IN  IF own # {} THEN by \in highest(own)
                      ELSE IF general # {} THEN by \in highest(general)
                      ELSE by = None]_tariffsVars
    BY DEF ChargeStep, ValidRule, OwnRules, GeneralRules, Highest
  <1> QED
    BY <1>1, <1>2, <1>3, InitTariffInv, PTL DEF TariffsSpec, ChargedAsDocumented
=============================================================================
