------------------------ MODULE Administrators_proofs ------------------------
(***************************************************************************)
(* Accounts, sessions and the audit log, for any number of users, sessions,*)
(* request threads, logins and consoles.                                   *)
(***************************************************************************)
EXTENDS Administrators, TLAPS

(***************************************************************************)
(* What a request, a login and a script hold between their read and their  *)
(* commit.                                                                 *)
(***************************************************************************)
Counts == 0 .. LockoutThreshold - 1
LockStates == {"never", "ahead", "past"}

RequestShape(q) ==
    /\ q.op \in {"idle", "entered", "create", "update", "disable", "delete", "password"}
    /\ q.op # "idle" => q.actor \in Users
    /\ q.op \notin {"idle", "entered"} => q.user \in Users
    /\ q.op \in {"create", "update"} => q.role \in Roles
    /\ q.op = "create" => q.provider \in Providers

AttemptShape(q) ==
    /\ q.op \in {"idle", "wrong", "right", "open"}
    /\ q.op # "idle" => q.user \in Users
    /\ q.op = "wrong" => q.seenFails \in Counts
    /\ q.op = "right" => q \in [op : {"right"}, user : Users, seenFails : Counts, seenLock : LockStates]

ConsoleShape(q) ==
    /\ q.op \in {"idle", "insert"}
    /\ q.op = "insert" => q.user \in Users /\ q.provider \in Providers

Shapes ==
    /\ request = [r \in Requests |-> request[r]] /\ \A r \in Requests : RequestShape(request[r])
    /\ attempt = [a \in Attempts |-> attempt[a]] /\ \A a \in Attempts : AttemptShape(attempt[a])
    /\ console = [c \in Consoles |-> console[c]] /\ \A c \in Consoles : ConsoleShape(console[c])

(* Whoever stands behind a request has had a row, and with the exception of*)
(* /change-password no temporary password.                                 *)
ActorOK(q) ==
    /\ q.op \notin {"idle", "password"} => row[q.actor] # "unused" /\ ~temporary[q.actor]
    /\ q.op = "password" => row[q.actor] # "unused" /\ q.user = q.actor

ActorInv == \A r \in Requests : ActorOK(request[r])

LiveOwned == \A t \in Tokens : live[t] => owner[t] \in Users

(* Nothing is known of a user before the row is inserted.                  *)
UnusedInv ==
    \A u \in Users : row[u] = "unused" => ~acted[u] /\ toldRole[u] = "none" /\ toldActive[u] = "none"

IInv ==
    /\ TypeOK
    /\ Shapes
    /\ ActorInv
    /\ LiveOwned
    /\ UnusedInv
    /\ SessionsHaveUser
    /\ TemporaryPasswordUnused

LEMMA InitIInv == Init => IInv
  <1> SUFFICES ASSUME Init PROVE IInv
    OBVIOUS
  <1> USE DEF Init
  <1>1. TypeOK
    BY ThresholdAssumption DEF TypeOK, Roles, Providers
  <1>2. Shapes
    BY DEF Shapes, RequestShape, AttemptShape, ConsoleShape, Idle
  <1>3. ActorInv /\ LiveOwned /\ UnusedInv /\ SessionsHaveUser /\ TemporaryPasswordUnused
    BY UsersAssumption DEF ActorInv, ActorOK, Idle, LiveOwned, UnusedInv, SessionsHaveUser,
                           TemporaryPasswordUnused, Present
  <1> QED
    BY <1>1, <1>2, <1>3 DEF IInv

-----------------------------------------------------------------------------
(***************************************************************************)
(* Reads: only the request's own memory changes.                           *)
(***************************************************************************)
LEMMA DecideIInv ==
    ASSUME IInv, NEW r \in Requests, NEW q, Decide(r, q), RequestShape(q), ActorOK(q)
    PROVE  IInv'
  <1> USE DEF IInv
  <1>1. UNCHANGED <<accounts, counters, auditLog, sessions, attempt, console>>
    BY DEF Decide
  <1>2. /\ request' = [s \in Requests |-> request'[s]]
        /\ request'[r] = q /\ \A s \in Requests \ {r} : request'[s] = request[s]
    BY DEF Decide, Shapes
  <1>3. TypeOK' /\ LiveOwned' /\ UnusedInv' /\ SessionsHaveUser' /\ TemporaryPasswordUnused'
    BY <1>1 DEF TypeOK, LiveOwned, UnusedInv, SessionsHaveUser, TemporaryPasswordUnused, Present,
                accounts, counters, auditLog, sessions
  <1>4. Shapes'
    <2>1. \A s \in Requests : RequestShape(request'[s])
      BY <1>2 DEF Shapes
    <2> QED
      BY <1>1, <1>2, <2>1 DEF Shapes, RequestShape, AttemptShape, ConsoleShape
  <1>5. ActorInv'
    <2>1. \A s \in Requests : ActorOK(request'[s])
      BY <1>2 DEF ActorInv
    <2> QED
      BY <1>1, <2>1 DEF ActorInv, ActorOK, accounts
  <1> QED
    BY <1>3, <1>4, <1>5

LEMMA RefuseIInv == ASSUME IInv, NEW r \in Requests, Refuse(r) PROVE IInv'
  <1>1. Decide(r, Idle)
    BY DEF Refuse, Decide
  <1>2. RequestShape(Idle) /\ ActorOK(Idle)
    BY DEF RequestShape, ActorOK, Idle
  <1> QED
    BY <1>1, <1>2, DecideIInv

LEMMA EnterIInv == ASSUME IInv, NEW r \in Requests, Enter(r) PROVE IInv'
  <1>1. PICK t \in Tokens :
           /\ Admitted(t) /\ role[owner[t]] = "superadmin"
           /\ request' = [request EXCEPT ![r] = [op |-> "entered", actor |-> owner[t]]]
    BY DEF Enter
  <1> DEFINE q == [op |-> "entered", actor |-> owner[t]]
  <1>2. owner[t] \in Users /\ row[owner[t]] = "present" /\ ~temporary[owner[t]]
    BY <1>1 DEF Admitted, LoggedIn, IInv, LiveOwned
  <1>3. RequestShape(q) /\ ActorOK(q)
    BY <1>2 DEF RequestShape, ActorOK
  <1>4. Decide(r, q)
    BY <1>1 DEF Enter, Decide
  <1> QED
    BY <1>3, <1>4, DecideIInv

(* An admin request's actor is still the one that entered.                 *)
LEMMA ActorOfEntered ==
    ASSUME IInv, NEW r \in Requests, Entered(r)
    PROVE  /\ request[r].actor \in Users
           /\ row[request[r].actor] # "unused" /\ ~temporary[request[r].actor]
  BY DEF IInv, Shapes, RequestShape, ActorInv, ActorOK, Entered

LEMMA CheckCreateIInv == ASSUME IInv, NEW r \in Requests, CheckCreate(r) PROVE IInv'
  <1>1. PICK u \in Users, newRole \in OfferedRoles, by \in Providers :
           /\ row[u] = "unused" /\ LoginFree(u)
           /\ Decide(r, [op |-> "create", actor |-> request[r].actor, user |-> u,
                         role |-> newRole, provider |-> by])
    BY DEF CheckCreate
  <1> DEFINE q == [op |-> "create", actor |-> request[r].actor, user |-> u,
                   role |-> newRole, provider |-> by]
  <1>2. RequestShape(q) /\ ActorOK(q)
    BY ActorOfEntered, RolesAssumption DEF CheckCreate, RequestShape, ActorOK, Roles
  <1> QED
    BY <1>1, <1>2, DecideIInv

LEMMA CheckUpdateIInv == ASSUME IInv, NEW r \in Requests, CheckUpdate(r) PROVE IInv'
  <1>1. PICK u \in Present, newRole \in OfferedRoles :
          IF UpdateForbidden(request[r].actor, u, newRole)
          THEN Refuse(r)
          ELSE Decide(r, [op |-> "update", actor |-> request[r].actor, user |-> u,
                          role |-> newRole, seenRole |-> role[u], seenActive |-> active[u]])
    BY DEF CheckUpdate
  <1> DEFINE q == [op |-> "update", actor |-> request[r].actor, user |-> u,
                   role |-> newRole, seenRole |-> role[u], seenActive |-> active[u]]
  <1>2. RequestShape(q) /\ ActorOK(q)
    BY ActorOfEntered, RolesAssumption DEF CheckUpdate, RequestShape, ActorOK, Roles, Present
  <1> QED
    BY <1>1, <1>2, DecideIInv, RefuseIInv

LEMMA CheckRemovalIInv ==
    ASSUME IInv, NEW r \in Requests, NEW removal \in {"disable", "delete"}, CheckRemoval(r, removal)
    PROVE  IInv'
  <1>1. PICK u \in Present :
          IF RemovalForbidden(request[r].actor, u)
          THEN Refuse(r)
          ELSE Decide(r, [op |-> removal, actor |-> request[r].actor, user |-> u,
                          seenActive |-> active[u]])
    BY DEF CheckRemoval
  <1> DEFINE q == [op |-> removal, actor |-> request[r].actor, user |-> u,
                   seenActive |-> active[u]]
  <1>2. RequestShape(q) /\ ActorOK(q)
    BY ActorOfEntered DEF CheckRemoval, RequestShape, ActorOK, Present
  <1> QED
    BY <1>1, <1>2, DecideIInv, RefuseIInv

LEMMA ReadPasswordIInv == ASSUME IInv, NEW r \in Requests, ReadPassword(r) PROVE IInv'
  <1>1. PICK t \in Tokens :
          /\ LoggedIn(t) /\ provider[owner[t]] = "local"
          /\ Decide(r, [op |-> "password", actor |-> owner[t], user |-> owner[t],
                        seenFails |-> fails[owner[t]], seenLock |-> locked[owner[t]],
                        rows |-> {s \in Tokens : live[s] /\ owner[s] = owner[t]}])
    BY DEF ReadPassword
  <1> DEFINE q == [op |-> "password", actor |-> owner[t], user |-> owner[t],
                   seenFails |-> fails[owner[t]], seenLock |-> locked[owner[t]],
                   rows |-> {s \in Tokens : live[s] /\ owner[s] = owner[t]}]
  <1>2. RequestShape(q) /\ ActorOK(q)
    BY <1>1 DEF LoggedIn, IInv, LiveOwned, RequestShape, ActorOK
  <1> QED
    BY <1>1, <1>2, DecideIInv

-----------------------------------------------------------------------------
(***************************************************************************)
(* Commits of requests.  A row once there stays known, and nobody who has  *)
(* one gets a temporary password.                                          *)
(***************************************************************************)
Kept == \A u \in Users : row[u] # "unused" => row'[u] # "unused" /\ (temporary'[u] => temporary[u])

LEMMA EndedRequest ==
    ASSUME IInv, NEW r \in Requests, request' = [request EXCEPT ![r] = Idle],
           UNCHANGED <<attempt, console>>, Kept
    PROVE  Shapes' /\ ActorInv'
  <1> USE DEF IInv
  <1>1. /\ request' = [s \in Requests |-> request'[s]]
        /\ request'[r] = Idle /\ \A s \in Requests \ {r} : request'[s] = request[s]
    BY DEF Shapes
  <1>2. RequestShape(Idle) /\ Idle.op = "idle"
    BY DEF RequestShape, Idle
  <1>3. Shapes'
    BY <1>1, <1>2 DEF Shapes, RequestShape, AttemptShape, ConsoleShape
  <1>4. ASSUME NEW s \in Requests PROVE ActorOK(request[s])'
    <2>1. CASE s = r
      BY <2>1, <1>1, <1>2 DEF ActorOK
    <2>2. CASE s # r
      <3>1. request'[s] = request[s] /\ ActorOK(request[s]) /\ RequestShape(request[s])
        BY <2>2, <1>1 DEF ActorInv, Shapes
      <3> QED
        BY <3>1 DEF ActorOK, RequestShape, Kept
    <2> QED
      BY <2>1, <2>2
  <1> QED
    BY <1>3, <1>4 DEF ActorInv

LEMMA InsertEffect ==
    ASSUME TypeOK, NEW u \in Users, row[u] = "unused", NEW newRole \in Roles, NEW by \in Providers,
           NEW mustChange \in BOOLEAN, Insert(u, newRole, by, mustChange)
    PROVE  /\ row' \in [Users -> {"unused", "present", "deleted"}]
           /\ role' \in [Users -> Roles]
           /\ active' \in [Users -> BOOLEAN]
           /\ provider' \in [Users -> Providers]
           /\ temporary' \in [Users -> BOOLEAN]
           /\ row'[u] = "present" /\ role'[u] = newRole /\ active'[u]
           /\ \A v \in Users \ {u} : /\ row'[v] = row[v] /\ role'[v] = role[v]
                                     /\ active'[v] = active[v] /\ temporary'[v] = temporary[v]
           /\ Kept
  BY DEF TypeOK, Insert, Kept

LEMMA RecordEffect ==
    ASSUME TypeOK, NEW actor \in Users, NEW u \in Users, NEW newRole \in Roles \cup {"none"},
           NEW newActive \in {"yes", "no"}, Record(actor, u, newRole, newActive)
    PROVE  /\ acted' \in [Users -> BOOLEAN]
           /\ toldRole' \in [Users -> Roles \cup {"none"}]
           /\ toldActive' \in [Users -> {"none", "yes", "no"}]
           /\ acted'[actor] /\ \A v \in Users \ {actor} : acted'[v] = acted[v]
           /\ toldRole'[u] = newRole /\ toldActive'[u] = newActive
           /\ \A v \in Users \ {u} : toldRole'[v] = toldRole[v] /\ toldActive'[v] = toldActive[v]
  BY DEF TypeOK, Record

LEMMA CommitCreateIInv == ASSUME IInv, NEW r \in Requests, CommitCreate(r) PROVE IInv'
  <1> USE DEF IInv
  <1> DEFINE q == request[r]
             u == request[r].user
  <1>1. CASE ~(row[u] = "unused" /\ LoginFree(u))
    BY <1>1, RefuseIInv DEF CommitCreate
  <1>2. CASE row[u] = "unused" /\ LoginFree(u)
    <2>1. /\ Insert(u, q.role, q.provider, q.provider = "local")
          /\ Record(q.actor, u, q.role, "yes")
          /\ request' = [request EXCEPT ![r] = Idle]
          /\ UNCHANGED <<fails, locked, owner, live, attempt, console>>
      BY <1>2 DEF CommitCreate, counters, sessions
    <2>2. /\ u \in Users /\ q.actor \in Users /\ q.role \in Roles /\ q.provider \in Providers
          /\ row[q.actor] # "unused" /\ ~temporary[q.actor]
      BY DEF CommitCreate, Shapes, RequestShape, ActorInv, ActorOK
    <2>3. /\ row' \in [Users -> {"unused", "present", "deleted"}]
          /\ role' \in [Users -> Roles]
          /\ active' \in [Users -> BOOLEAN]
          /\ provider' \in [Users -> Providers]
          /\ temporary' \in [Users -> BOOLEAN]
          /\ row'[u] = "present"
          /\ \A v \in Users \ {u} : row'[v] = row[v] /\ temporary'[v] = temporary[v]
          /\ Kept
      BY <1>2, <2>1, <2>2, InsertEffect
    <2>4. /\ acted' \in [Users -> BOOLEAN]
          /\ toldRole' \in [Users -> Roles \cup {"none"}]
          /\ toldActive' \in [Users -> {"none", "yes", "no"}]
          /\ \A v \in Users \ {q.actor} : acted'[v] = acted[v]
          /\ \A v \in Users \ {u} : toldRole'[v] = toldRole[v] /\ toldActive'[v] = toldActive[v]
      BY <2>1, <2>2, RecordEffect
    <2>5. TypeOK'
      BY <2>1, <2>3, <2>4 DEF TypeOK
    <2>6. Shapes' /\ ActorInv'
      BY <2>1, <2>3, EndedRequest
    <2>7. LiveOwned' /\ SessionsHaveUser'
      BY <1>2, <2>1, <2>2, <2>3, UsersAssumption DEF LiveOwned, SessionsHaveUser, TypeOK
    <2>8. UnusedInv'
      BY <2>2, <2>3, <2>4 DEF UnusedInv
    <2>9. TemporaryPasswordUnused'
      <3>1. ~acted[u] /\ u # q.actor
        BY <1>2, <2>2 DEF UnusedInv
      <3> QED
        BY <2>2, <2>3, <2>4, <3>1 DEF TemporaryPasswordUnused, Present
    <2> QED
      BY <2>5, <2>6, <2>7, <2>8, <2>9
  <1> QED
    BY <1>1, <1>2

LEMMA CommitUpdateIInv == ASSUME IInv, NEW r \in Requests, CommitUpdate(r) PROVE IInv'
  <1> USE DEF IInv
  <1> DEFINE q == request[r]
             u == request[r].user
  <1>1. CASE row[u] # "present"
    BY <1>1, RefuseIInv DEF CommitUpdate
  <1>2. CASE row[u] = "present"
    <2>1. /\ role' = [role EXCEPT ![u] = Written(q.seenRole, q.role, role[u])]
          /\ active' = [active EXCEPT ![u] = Written(q.seenActive, TRUE, active[u])]
          /\ Record(q.actor, u, q.role, "yes")
          /\ request' = [request EXCEPT ![r] = Idle]
          /\ UNCHANGED <<row, provider, temporary, fails, locked, owner, live, attempt, console>>
      BY <1>2 DEF CommitUpdate, counters, sessions
    <2>2. /\ u \in Users /\ q.actor \in Users /\ q.role \in Roles
          /\ row[q.actor] # "unused" /\ ~temporary[q.actor]
      BY DEF CommitUpdate, Shapes, RequestShape, ActorInv, ActorOK
    <2>3. /\ acted' \in [Users -> BOOLEAN]
          /\ toldRole' \in [Users -> Roles \cup {"none"}]
          /\ toldActive' \in [Users -> {"none", "yes", "no"}]
          /\ \A v \in Users \ {q.actor} : acted'[v] = acted[v]
          /\ \A v \in Users \ {u} : toldRole'[v] = toldRole[v] /\ toldActive'[v] = toldActive[v]
      BY <2>1, <2>2, RecordEffect
    <2>4. role' \in [Users -> Roles]
      BY <2>1, <2>2 DEF TypeOK, Written
    <2>5. active' \in [Users -> BOOLEAN]
      BY <2>1, <2>2 DEF TypeOK, Written
    <2>6. TypeOK'
      BY <2>1, <2>3, <2>4, <2>5 DEF TypeOK
    <2>7. Shapes' /\ ActorInv'
      BY <2>1, EndedRequest DEF Kept
    <2>8. LiveOwned' /\ SessionsHaveUser'
      BY <2>1 DEF LiveOwned, SessionsHaveUser
    <2>9. UnusedInv' /\ TemporaryPasswordUnused'
      BY <1>2, <2>1, <2>2, <2>3 DEF UnusedInv, TemporaryPasswordUnused, Present
    <2> QED
      BY <2>6, <2>7, <2>8, <2>9
  <1> QED
    BY <1>1, <1>2

LEMMA CommitDisableIInv == ASSUME IInv, NEW r \in Requests, CommitDisable(r) PROVE IInv'
  <1> USE DEF IInv
  <1> DEFINE q == request[r]
             u == request[r].user
  <1>1. CASE row[u] # "present"
    BY <1>1, RefuseIInv DEF CommitDisable
  <1>2. CASE row[u] = "present"
    <2>1. /\ active' = [active EXCEPT ![u] = Written(q.seenActive, FALSE, active[u])]
          /\ Record(q.actor, u, toldRole[u], "no")
          /\ request' = [request EXCEPT ![r] = Idle]
          /\ UNCHANGED <<row, role, provider, temporary, fails, locked, owner, live, attempt, console>>
      BY <1>2 DEF CommitDisable, counters, sessions
    <2>2. /\ u \in Users /\ q.actor \in Users /\ toldRole[u] \in Roles \cup {"none"}
          /\ row[q.actor] # "unused" /\ ~temporary[q.actor]
      BY DEF CommitDisable, Shapes, RequestShape, ActorInv, ActorOK, TypeOK
    <2>3. /\ acted' \in [Users -> BOOLEAN]
          /\ toldRole' \in [Users -> Roles \cup {"none"}]
          /\ toldActive' \in [Users -> {"none", "yes", "no"}]
          /\ \A v \in Users \ {q.actor} : acted'[v] = acted[v]
          /\ \A v \in Users \ {u} : toldRole'[v] = toldRole[v] /\ toldActive'[v] = toldActive[v]
      BY <2>1, <2>2, RecordEffect
    <2>4. active' \in [Users -> BOOLEAN]
      BY <2>1, <2>2 DEF TypeOK, Written
    <2>5. TypeOK'
      BY <2>1, <2>3, <2>4 DEF TypeOK
    <2>6. Shapes' /\ ActorInv'
      BY <2>1, EndedRequest DEF Kept
    <2>7. LiveOwned' /\ SessionsHaveUser'
      BY <2>1 DEF LiveOwned, SessionsHaveUser
    <2>8. UnusedInv' /\ TemporaryPasswordUnused'
      BY <1>2, <2>1, <2>2, <2>3 DEF UnusedInv, TemporaryPasswordUnused, Present
    <2> QED
      BY <2>5, <2>6, <2>7, <2>8
  <1> QED
    BY <1>1, <1>2

LEMMA CommitDeleteIInv == ASSUME IInv, NEW r \in Requests, CommitDelete(r) PROVE IInv'
  <1> USE DEF IInv
  <1> DEFINE q == request[r]
             u == request[r].user
  <1>1. CASE ~Unreferenced(u)
    BY <1>1, RefuseIInv DEF CommitDelete
  <1>2. CASE Unreferenced(u)
    <2>1. /\ row' = [row EXCEPT ![u] = "deleted"]
          /\ role' = [role EXCEPT ![u] = "viewer"]
          /\ active' = [active EXCEPT ![u] = FALSE]
          /\ provider' = [provider EXCEPT ![u] = "ad"]
          /\ temporary' = [temporary EXCEPT ![u] = FALSE]
          /\ fails' = [fails EXCEPT ![u] = 0]
          /\ locked' = [locked EXCEPT ![u] = "never"]
          /\ toldRole' = [toldRole EXCEPT ![u] = "none"]
          /\ toldActive' = [toldActive EXCEPT ![u] = "none"]
          /\ acted' = [acted EXCEPT ![q.actor] = TRUE]
          /\ request' = [request EXCEPT ![r] = Idle]
          /\ UNCHANGED <<owner, live, attempt, console>>
      BY <1>2 DEF CommitDelete, Erase, sessions
    <2>2. /\ u \in Users /\ q.actor \in Users
          /\ row[q.actor] # "unused" /\ ~temporary[q.actor]
      BY DEF CommitDelete, Shapes, RequestShape, ActorInv, ActorOK
    <2>3. TypeOK'
      BY <2>1, <2>2, ThresholdAssumption DEF TypeOK, Roles, Providers
    <2>4. Kept
      BY <2>1, <2>2 DEF TypeOK, Kept
    <2>5. Shapes' /\ ActorInv'
      BY <2>1, <2>4, EndedRequest
    <2>6. LiveOwned' /\ SessionsHaveUser'
      BY <1>2, <2>1, <2>2 DEF LiveOwned, SessionsHaveUser, Unreferenced, TypeOK
    <2>7. UnusedInv'
      BY <2>1, <2>2 DEF UnusedInv, TypeOK
    <2>8. TemporaryPasswordUnused'
      BY <2>1, <2>2 DEF TemporaryPasswordUnused, Present, TypeOK
    <2> QED
      BY <2>3, <2>5, <2>6, <2>7, <2>8
  <1> QED
    BY <1>1, <1>2

LEMMA CommitPasswordIInv == ASSUME IInv, NEW r \in Requests, CommitPassword(r) PROVE IInv'
  <1> USE DEF IInv
  <1> DEFINE q == request[r]
             u == request[r].user
  <1>1. /\ temporary' = [temporary EXCEPT ![u] = FALSE]
        /\ fails' = [fails EXCEPT ![u] = Written(q.seenFails, 0, @)]
        /\ locked' = [locked EXCEPT ![u] = Written(q.seenLock, "never", @)]
        /\ live' = [t \in Tokens |-> live[t] /\ t \notin q.rows]
        /\ acted' = [acted EXCEPT ![u] = TRUE]
        /\ request' = [request EXCEPT ![r] = Idle]
        /\ UNCHANGED <<row, role, active, provider, toldRole, toldActive, owner, attempt, console>>
    BY DEF CommitPassword, ClearCount
  <1>2. u \in Users /\ row[u] # "unused"
    BY DEF CommitPassword, Shapes, RequestShape, ActorInv, ActorOK
  <1>3. TypeOK'
    <2>1. fails' \in [Users -> Counts] /\ locked' \in [Users -> LockStates]
      BY <1>1, <1>2, ThresholdAssumption DEF TypeOK, Written, Counts, LockStates
    <2>2. live' \in [Tokens -> BOOLEAN]
      BY <1>1, Zenon DEF TypeOK
    <2> QED
      BY <1>1, <1>2, <2>1, <2>2 DEF TypeOK, Counts, LockStates
  <1>4. Kept
    BY <1>1, <1>2 DEF TypeOK, Kept
  <1>5. Shapes' /\ ActorInv'
    BY <1>1, <1>4, EndedRequest
  <1>6. LiveOwned' /\ SessionsHaveUser'
    BY <1>1 DEF LiveOwned, SessionsHaveUser
  <1>7. UnusedInv'
    BY <1>1, <1>2 DEF UnusedInv, TypeOK
  <1>8. TemporaryPasswordUnused'
    BY <1>1, <1>2 DEF TemporaryPasswordUnused, Present, TypeOK
  <1> QED
    BY <1>3, <1>5, <1>6, <1>7, <1>8

-----------------------------------------------------------------------------
(***************************************************************************)
(* Logins, the passing of time and the scripts leave roles, requests and   *)
(* the audit log alone.                                                    *)
(***************************************************************************)
LEMMA AttemptShapes ==
    ASSUME Shapes, NEW a \in Attempts, NEW q, attempt' = [attempt EXCEPT ![a] = q], AttemptShape(q),
           UNCHANGED <<request, console>>
    PROVE  Shapes'
  <1>1. /\ attempt' = [b \in Attempts |-> attempt'[b]]
        /\ attempt'[a] = q /\ \A b \in Attempts \ {a} : attempt'[b] = attempt[b]
    BY DEF Shapes
  <1>2. \A b \in Attempts : AttemptShape(attempt'[b])
    BY <1>1 DEF Shapes
  <1> QED
    BY <1>1, <1>2 DEF Shapes, RequestShape, AttemptShape, ConsoleShape

LEMMA CountersIInv ==
    ASSUME IInv, Shapes', UNCHANGED <<accounts, auditLog, sessions, request>>,
           fails' \in [Users -> Counts], locked' \in [Users -> LockStates]
    PROVE  IInv'
  BY DEF IInv, TypeOK, Counts, LockStates, ActorInv, ActorOK, LiveOwned, UnusedInv, SessionsHaveUser,
         TemporaryPasswordUnused, Present, accounts, auditLog, sessions

LEMMA LoginWrongIInv == ASSUME IInv, NEW a \in Attempts, LoginWrong(a) PROVE IInv'
  <1>1. PICK u \in Present \cap Mistyped :
          /\ MayTryPassword(u)
          /\ attempt' = [attempt EXCEPT ![a] = [op |-> "wrong", user |-> u, seenFails |-> fails[u]]]
    BY DEF LoginWrong
  <1> DEFINE q == [op |-> "wrong", user |-> u, seenFails |-> fails[u]]
  <1>2. AttemptShape(q)
    BY DEF IInv, TypeOK, AttemptShape, Counts, Present
  <1>3. Shapes'
    BY <1>1, <1>2, AttemptShapes DEF IInv, LoginWrong
  <1> QED
    BY <1>3, CountersIInv DEF LoginWrong, IInv, TypeOK, counters, Counts, LockStates

LEMMA LoginFailsIInv == ASSUME IInv, NEW a \in Attempts, LoginFails(a) PROVE IInv'
  <1> DEFINE u == attempt[a].user
             n == attempt[a].seenFails + 1
  <1>1. u \in Users /\ attempt[a].seenFails \in Counts
    BY DEF LoginFails, IInv, Shapes, AttemptShape
  <1>2. AttemptShape(Idle)
    BY DEF AttemptShape, Idle
  <1>3. Shapes'
    BY <1>2, AttemptShapes DEF IInv, LoginFails
  <1>4. fails' \in [Users -> Counts] /\ locked' \in [Users -> LockStates]
    <2>1. fails \in [Users -> Counts] /\ locked \in [Users -> LockStates]
      BY DEF IInv, TypeOK, Counts, LockStates
    <2>2. 0 \in Counts /\ (~(n >= LockoutThreshold) => n \in Counts)
      BY <1>1, ThresholdAssumption DEF Counts
    <2>3. \/ UNCHANGED <<fails, locked>>
          \/ locked' = [locked EXCEPT ![u] = "ahead"] /\ fails' = [fails EXCEPT ![u] = 0]
          \/ ~(n >= LockoutThreshold) /\ fails' = [fails EXCEPT ![u] = n] /\ UNCHANGED locked
      BY DEF LoginFails, counters
    <2> QED
      BY <2>1, <2>2, <2>3 DEF LockStates
  <1> QED
    BY <1>3, <1>4, CountersIInv DEF LoginFails

LEMMA LoginRightIInv == ASSUME IInv, NEW a \in Attempts, LoginRight(a) PROVE IInv'
  <1>1. PICK u \in Present :
          \/ /\ MayTryPassword(u)
             /\ attempt' = [attempt EXCEPT ![a] =
                   [op |-> IF fails[u] > 0 \/ locked[u] # "never" THEN "right" ELSE "open",
                    user |-> u, seenFails |-> fails[u], seenLock |-> locked[u]]]
          \/ /\ active[u]
             /\ attempt' = [attempt EXCEPT ![a] = [op |-> "open", user |-> u]]
    BY DEF LoginRight
  <1> DEFINE q == [op |-> IF fails[u] > 0 \/ locked[u] # "never" THEN "right" ELSE "open",
                   user |-> u, seenFails |-> fails[u], seenLock |-> locked[u]]
             o == [op |-> "open", user |-> u]
  <1>2. u \in Users /\ fails[u] \in Counts /\ locked[u] \in LockStates
    BY DEF IInv, TypeOK, Counts, LockStates, Present
  <1>3. AttemptShape(q) /\ AttemptShape(o)
    BY <1>2 DEF AttemptShape
  <1>4. Shapes'
    BY <1>1, <1>3, AttemptShapes DEF IInv, LoginRight
  <1> QED
    BY <1>4, CountersIInv DEF LoginRight, IInv, TypeOK, counters, Counts, LockStates

LEMMA LoginClearsIInv == ASSUME IInv, NEW a \in Attempts, LoginClears(a) PROVE IInv'
  <1> DEFINE u == attempt[a].user
  <1>1. /\ u \in Users
        /\ attempt[a] \in [op : {"right"}, user : Users, seenFails : Counts, seenLock : LockStates]
    BY DEF LoginClears, IInv, Shapes, AttemptShape
  <1>2. fails \in [Users -> Counts] /\ locked \in [Users -> LockStates] /\ 0 \in Counts
    BY ThresholdAssumption DEF IInv, TypeOK, Counts, LockStates
  <1>3. CASE row[u] = "present"
    <2>1. /\ fails' = [fails EXCEPT ![u] = Written(attempt[a].seenFails, 0, @)]
          /\ locked' = [locked EXCEPT ![u] = Written(attempt[a].seenLock, "never", @)]
          /\ attempt' = [attempt EXCEPT ![a].op = "open"]
          /\ UNCHANGED <<accounts, auditLog, sessions, request, console>>
      BY <1>3 DEF LoginClears, ClearCount
    <2> DEFINE o == [attempt[a] EXCEPT !.op = "open"]
    <2>2. AttemptShape(o)
      BY <1>1 DEF AttemptShape
    <2>3. attempt' = [attempt EXCEPT ![a] = o]
      BY <2>1
    <2>4. Shapes'
      BY <2>1, <2>2, <2>3, AttemptShapes DEF IInv
    <2>5. fails' \in [Users -> Counts] /\ locked' \in [Users -> LockStates]
      BY <2>1, <1>1, <1>2 DEF Written, LockStates
    <2> QED
      BY <2>1, <2>4, <2>5, CountersIInv
  <1>4. CASE row[u] # "present"
    <2>1. AttemptShape(Idle)
      BY DEF AttemptShape, Idle
    <2>2. Shapes'
      BY <1>4, <2>1, AttemptShapes DEF IInv, LoginClears
    <2> QED
      BY <1>2, <1>4, <2>2, CountersIInv DEF LoginClears, counters
  <1> QED
    BY <1>3, <1>4

LEMMA LoginOpensIInv == ASSUME IInv, NEW a \in Attempts, LoginOpens(a) PROVE IInv'
  <1> DEFINE u == attempt[a].user
  <1>1. u \in Users
    BY DEF LoginOpens, IInv, Shapes, AttemptShape
  <1>2. AttemptShape(Idle)
    BY DEF AttemptShape, Idle
  <1>3. Shapes'
    BY <1>2, AttemptShapes DEF IInv, LoginOpens
  <1>4. CASE row[u] = "present"
    <2>1. PICK t \in Tokens \ Opened :
               /\ owner' = [owner EXCEPT ![t] = attempt[a].user]
               /\ live' = [live EXCEPT ![t] = TRUE]
      BY <1>4 DEF LoginOpens
    <2>2. UNCHANGED <<row, role, active, provider, temporary, fails, locked,
                      acted, toldRole, toldActive, request>>
      BY DEF LoginOpens, accounts, counters, auditLog
    <2>3. TypeOK'
      BY <1>1, <2>1, <2>2 DEF IInv, TypeOK
    <2>4. LiveOwned' /\ SessionsHaveUser'
      BY <1>1, <1>4, <2>1, <2>2 DEF IInv, TypeOK, LiveOwned, SessionsHaveUser
    <2>5. ActorInv' /\ UnusedInv' /\ TemporaryPasswordUnused'
      BY <2>2 DEF IInv, ActorInv, ActorOK, UnusedInv, TemporaryPasswordUnused, Present
    <2> QED
      BY <1>3, <2>3, <2>4, <2>5 DEF IInv
  <1>5. CASE row[u] # "present"
    BY <1>3, <1>5, CountersIInv DEF LoginOpens, IInv, TypeOK, counters, Counts, LockStates
  <1> QED
    BY <1>4, <1>5

LEMMA EndSessionIInv == ASSUME IInv, NEW t \in Tokens, EndSession(t) PROVE IInv'
  <1>1. /\ live' = [live EXCEPT ![t] = FALSE]
        /\ UNCHANGED <<row, role, active, provider, temporary, fails, locked, acted, toldRole,
                       toldActive, owner, request, attempt, console>>
    BY DEF EndSession, accounts, counters, auditLog
  <1>2. TypeOK'
    BY <1>1 DEF IInv, TypeOK
  <1>3. Shapes' /\ ActorInv' /\ UnusedInv' /\ TemporaryPasswordUnused' /\ SessionsHaveUser'
    BY <1>1 DEF IInv, Shapes, RequestShape, AttemptShape, ConsoleShape, ActorInv, ActorOK, UnusedInv,
                TemporaryPasswordUnused, SessionsHaveUser, Present
  <1>4. LiveOwned'
    BY <1>1 DEF IInv, TypeOK, LiveOwned
  <1> QED
    BY <1>2, <1>3, <1>4 DEF IInv

LEMMA LockPassesIInv == ASSUME IInv, NEW u \in Users, LockPasses(u) PROVE IInv'
  <1>1. /\ locked' = [locked EXCEPT ![u] = "past"]
        /\ UNCHANGED <<accounts, fails, auditLog, sessions, request, attempt, console>>
    BY DEF LockPasses
  <1>2. Shapes'
    BY <1>1 DEF IInv, Shapes, RequestShape, AttemptShape, ConsoleShape
  <1>3. fails' \in [Users -> Counts] /\ locked' \in [Users -> LockStates]
    BY <1>1 DEF IInv, TypeOK, Counts, LockStates
  <1> QED
    BY <1>1, <1>2, <1>3, CountersIInv

LEMMA ConsoleShapes ==
    ASSUME Shapes, NEW c \in Consoles, NEW q, console' = [console EXCEPT ![c] = q], ConsoleShape(q),
           UNCHANGED <<request, attempt>>
    PROVE  Shapes'
  <1>1. /\ console' = [b \in Consoles |-> console'[b]]
        /\ console'[c] = q /\ \A b \in Consoles \ {c} : console'[b] = console[b]
    BY DEF Shapes
  <1>2. \A b \in Consoles : ConsoleShape(console'[b])
    BY <1>1 DEF Shapes
  <1> QED
    BY <1>1, <1>2 DEF Shapes, RequestShape, AttemptShape, ConsoleShape

LEMMA BootstrapChecksIInv == ASSUME IInv, NEW c \in Consoles, BootstrapChecks(c) PROVE IInv'
  <1>1. PICK u \in Users, by \in Providers :
          /\ row[u] = "unused"
          /\ by = "local" => LoginFree(u)
          /\ console' = [console EXCEPT ![c] = [op |-> "insert", user |-> u, provider |-> by]]
    BY DEF BootstrapChecks
  <1> DEFINE q == [op |-> "insert", user |-> u, provider |-> by]
  <1>2. ConsoleShape(q)
    BY DEF ConsoleShape
  <1>3. Shapes'
    BY <1>1, <1>2, ConsoleShapes DEF IInv, BootstrapChecks
  <1> QED
    BY <1>3, CountersIInv DEF BootstrapChecks, IInv, TypeOK, counters, Counts, LockStates

LEMMA BootstrapInsertsIInv == ASSUME IInv, NEW c \in Consoles, BootstrapInserts(c) PROVE IInv'
  <1> DEFINE u == console[c].user
             by == console[c].provider
  <1>1. u \in Users /\ by \in Providers
    BY DEF BootstrapInserts, IInv, Shapes, ConsoleShape
  <1>2. ConsoleShape(Idle)
    BY DEF ConsoleShape, Idle
  <1>3. Shapes'
    BY <1>2, ConsoleShapes DEF IInv, BootstrapInserts
  <1>4. CASE row[u] = "unused" /\ LoginFree(u)
    <2>1. /\ Insert(u, "superadmin", by, FALSE)
          /\ UNCHANGED <<fails, locked, acted, toldRole, toldActive, owner, live, request>>
      BY <1>4 DEF BootstrapInserts, counters, auditLog, sessions
    <2>2. TypeOK /\ "superadmin" \in Roles /\ FALSE \in BOOLEAN
      BY DEF IInv, Roles
    <2>3. /\ row' \in [Users -> {"unused", "present", "deleted"}]
          /\ role' \in [Users -> Roles]
          /\ active' \in [Users -> BOOLEAN]
          /\ provider' \in [Users -> Providers]
          /\ temporary' \in [Users -> BOOLEAN]
          /\ row'[u] = "present"
          /\ \A v \in Users \ {u} : row'[v] = row[v] /\ temporary'[v] = temporary[v]
          /\ Kept
      BY <1>1, <1>4, <2>1, <2>2, InsertEffect
    <2>4. TypeOK'
      BY <2>1, <2>2, <2>3 DEF TypeOK
    <2>5. ActorInv'
      BY <2>1, <2>3 DEF IInv, ActorInv, ActorOK, Kept, Shapes, RequestShape
    <2>6. LiveOwned' /\ SessionsHaveUser'
      BY <1>1, <1>4, <2>1, <2>3, UsersAssumption DEF IInv, LiveOwned, SessionsHaveUser, TypeOK
    <2>7. UnusedInv' /\ TemporaryPasswordUnused'
      BY <1>1, <1>4, <2>1, <2>3 DEF IInv, UnusedInv, TemporaryPasswordUnused, Present
    <2> QED
      BY <1>3, <2>4, <2>5, <2>6, <2>7 DEF IInv
  <1>5. CASE ~(row[u] = "unused" /\ LoginFree(u))
    BY <1>3, <1>5, CountersIInv DEF BootstrapInserts, IInv, TypeOK, counters, Counts, LockStates
  <1> QED
    BY <1>4, <1>5

-----------------------------------------------------------------------------
LEMMA StutterIInv == ASSUME IInv, UNCHANGED vars PROVE IInv'
  <1>1. UNCHANGED <<accounts, counters, auditLog, sessions, request, attempt, console>>
    BY DEF vars
  <1>2. Shapes'
    BY <1>1 DEF IInv, Shapes, RequestShape, AttemptShape, ConsoleShape
  <1> QED
    BY <1>1, <1>2, CountersIInv DEF IInv, TypeOK, counters, Counts, LockStates

LEMMA NextIInv == IInv /\ [Next]_vars => IInv'
  <1> SUFFICES ASSUME IInv, [Next]_vars PROVE IInv'
    OBVIOUS
  <1>1. ASSUME NEW r \in Requests, AdminStep(r) PROVE IInv'
    BY <1>1, EnterIInv, CheckCreateIInv, CheckUpdateIInv, CheckRemovalIInv, CommitCreateIInv,
       CommitUpdateIInv, CommitDisableIInv, CommitDeleteIInv, ReadPasswordIInv, CommitPasswordIInv
    DEF AdminStep
  <1>2. ASSUME NEW a \in Attempts, LoginStep(a) PROVE IInv'
    BY <1>2, LoginWrongIInv, LoginFailsIInv, LoginRightIInv, LoginClearsIInv, LoginOpensIInv,
       StutterIInv DEF LoginStep, LoginRefused
  <1>3. CASE UNCHANGED vars
    BY <1>3, StutterIInv
  <1> QED
    BY <1>1, <1>2, <1>3, EndSessionIInv, LockPassesIInv, BootstrapChecksIInv, BootstrapInsertsIInv
    DEF Next

(* The inductive invariant holds of every behaviour.                       *)
THEOREM InvariantHolds == Spec => []IInv
  BY InitIInv, NextIInv, PTL DEF Spec

(* Every variable keeps its type; in particular the count of failed logins *)
(* stays below the threshold however many attempts race.                   *)
THEOREM TypeCorrect == Spec => []TypeOK
  <1>1. IInv => TypeOK
    BY DEF IInv
  <1> QED
    BY <1>1, InvariantHolds, PTL

(* No session outlives the row of its user, for any number of requests and *)
(* logins that overlap.                                                    *)
THEOREM SessionsKeepUsers == Spec => []SessionsHaveUser
  <1>1. IInv => SessionsHaveUser
    BY DEF IInv
  <1> QED
    BY <1>1, InvariantHolds, PTL

(* Whoever is named as the actor of an audit entry has no temporary        *)
(* password left.                                                          *)
THEOREM TemporaryPasswordsUnused == Spec => []TemporaryPasswordUnused
  <1>1. IInv => TemporaryPasswordUnused
    BY DEF IInv
  <1> QED
    BY <1>1, InvariantHolds, PTL

-----------------------------------------------------------------------------
(***************************************************************************)
(* The last active superadmin.  A request that has checked it may take one *)
(* away still finds another when it commits: only such a commit of another *)
(* request could take that one away.                                       *)
(***************************************************************************)
TakeInv ==
    \A r \in Requests :
        /\ request[r].op \notin {"idle", "password"} => Superadmins # {}
        /\ Takes(r) => Superadmins \ {request[r].user} # {}

SuperadminStep == Superadmins # {} => Superadmins' # {}

(* A step that changes no account takes no superadmin away.                *)
LEMMA SameAccounts ==
    ASSUME UNCHANGED <<row, role, active>>
    PROVE  Superadmins' = Superadmins /\ Present' = Present
  BY DEF Superadmins, Present

(* A row inserted for an id that was unused is nobody's but its own.       *)
LEMMA InsertAdds ==
    ASSUME IInv, NEW u \in Users, row[u] = "unused", NEW newRole \in Roles, NEW by \in Providers,
           NEW mustChange \in BOOLEAN, Insert(u, newRole, by, mustChange)
    PROVE  /\ Superadmins \subseteq Superadmins'
           /\ Present' = Present \cup {u}
           /\ row'[u] = "present" /\ role'[u] = newRole /\ active'[u]
           /\ \A v \in Users \ {u} : row'[v] = row[v] /\ role'[v] = role[v] /\ active'[v] = active[v]
  <1>1. /\ row'[u] = "present" /\ role'[u] = newRole /\ active'[u]
        /\ \A v \in Users \ {u} : row'[v] = row[v] /\ role'[v] = role[v] /\ active'[v] = active[v]
    BY InsertEffect DEF IInv
  <1> QED
    BY <1>1 DEF Superadmins, Present

(* What a request does next: it ends, or decides what it may do now.       *)
LEMMA RequestSteps ==
    ASSUME IInv, NEW r \in Requests, AdminStep(r)
    PROVE  /\ \A s \in Requests \ {r} : request'[s] = request[s]
           /\ request'[r] # Idle => UNCHANGED <<row, role, active, toldRole, toldActive>>
  BY DEF AdminStep, Enter, CheckCreate, CheckUpdate, CheckRemoval, CommitCreate, CommitUpdate,
         CommitDisable, CommitDelete, ReadPassword, CommitPassword, Decide, Refuse, accounts, auditLog,
         IInv, Shapes

(* Its own decision leaves another superadmin.                             *)
LEMMA DecisionLeaves ==
    ASSUME IInv, TakeInv, NEW r \in Requests, AdminStep(r), request'[r] # Idle
    PROVE  /\ request'[r].op # "password" => Superadmins # {}
           /\ Takes(r)' => Superadmins \ {request'[r].user} # {}
  <1>1. CASE Enter(r)
    <2>1. PICK t \in Tokens : /\ Admitted(t) /\ role[owner[t]] = "superadmin"
                              /\ request'[r] = [op |-> "entered", actor |-> owner[t]]
      BY <1>1 DEF Enter, IInv, Shapes
    <2>2. owner[t] \in Superadmins
      BY <2>1 DEF Admitted, LoggedIn, Superadmins, Present, IInv, LiveOwned
    <2> QED
      BY <2>1, <2>2 DEF Takes
  <1>2. ASSUME Entered(r) PROVE Superadmins # {}
    BY <1>2 DEF TakeInv, Entered
  <1>3. CASE CheckCreate(r)
    <2>1. request'[r].op = "create" /\ Superadmins # {}
      BY <1>2, <1>3 DEF CheckCreate, Decide, IInv, Shapes
    <2> QED
      BY <2>1 DEF Takes
  <1>4. CASE CheckUpdate(r)
    <2>1. PICK u \in Present, newRole \in OfferedRoles :
             /\ ~UpdateForbidden(request[r].actor, u, newRole)
             /\ request'[r] = [op |-> "update", actor |-> request[r].actor, user |-> u,
                               role |-> newRole, seenRole |-> role[u], seenActive |-> active[u]]
      BY <1>4 DEF CheckUpdate, Decide, Refuse, IInv, Shapes
    <2>2. Superadmins # {}
      BY <1>2, <1>4 DEF CheckUpdate
    <2>3. newRole # "superadmin" => Superadmins \ {u} # {}
      BY <2>1, <2>2 DEF UpdateForbidden, OnlySuperadmin
    <2> QED
      BY <2>1, <2>2, <2>3 DEF Takes
  <1>5. ASSUME NEW removal \in {"disable", "delete"}, CheckRemoval(r, removal)
        PROVE  /\ request'[r].op # "password" => Superadmins # {}
               /\ Takes(r)' => Superadmins \ {request'[r].user} # {}
    <2>1. PICK u \in Present :
             /\ ~RemovalForbidden(request[r].actor, u)
             /\ request'[r] = [op |-> removal, actor |-> request[r].actor, user |-> u,
                               seenActive |-> active[u]]
      BY <1>5 DEF CheckRemoval, Decide, Refuse, IInv, Shapes
    <2>2. Superadmins # {}
      BY <1>2, <1>5 DEF CheckRemoval
    <2>3. Superadmins \ {u} # {}
      BY <2>1, <2>2 DEF RemovalForbidden, OnlySuperadmin
    <2> QED
      BY <2>1, <2>2, <2>3
  <1>6. CASE ReadPassword(r)
    <2>1. request'[r].op = "password"
      BY <1>6 DEF ReadPassword, Decide, IInv, Shapes
    <2> QED
      BY <2>1 DEF Takes
  <1>7. request'[r] = Idle => FALSE
    OBVIOUS
  <1>8. ~(CommitCreate(r) \/ CommitUpdate(r) \/ CommitDisable(r) \/ CommitDelete(r) \/ CommitPassword(r))
    BY <1>7 DEF CommitCreate, CommitUpdate, CommitDisable, CommitDelete, CommitPassword, Refuse, IInv, Shapes
  <1> QED
    BY <1>1, <1>3, <1>4, <1>5, <1>6, <1>8 DEF AdminStep

(* A commit takes away the superadmin it is about, if any.                 *)
LEMMA CommitTakesOne ==
    ASSUME IInv, NEW r \in Requests, AdminStep(r)
    PROVE  \/ Superadmins \subseteq Superadmins'
           \/ Takes(r) /\ Superadmins \ {request[r].user} \subseteq Superadmins'
  <1> DEFINE q == request[r]
             u == request[r].user
  <1>1. ASSUME UNCHANGED <<row, role, active>> PROVE Superadmins \subseteq Superadmins'
    BY <1>1, SameAccounts
  <1>2. CASE CommitCreate(r)
    <2>1. CASE row[u] = "unused" /\ LoginFree(u)
      <3>1. u \in Users /\ q.role \in Roles /\ q.provider \in Providers
        BY <1>2 DEF CommitCreate, IInv, Shapes, RequestShape
      <3> QED
        BY <1>2, <2>1, <3>1, InsertAdds DEF CommitCreate
    <2>2. CASE ~(row[u] = "unused" /\ LoginFree(u))
      BY <1>1, <1>2, <2>2 DEF CommitCreate, Refuse, accounts
    <2> QED
      BY <2>1, <2>2
  <1>3. CASE CommitUpdate(r)
    <2>1. CASE row[u] = "present"
      <3>1. /\ role' = [role EXCEPT ![u] = Written(q.seenRole, q.role, role[u])]
            /\ active' = [active EXCEPT ![u] = Written(q.seenActive, TRUE, active[u])]
            /\ row' = row
        BY <1>3, <2>1 DEF CommitUpdate
      <3>2. Superadmins \ {u} \subseteq Superadmins'
        BY <3>1 DEF Superadmins, Present, IInv, TypeOK
      <3>3. ASSUME q.role = "superadmin", u \in Superadmins PROVE u \in Superadmins'
        <4>1. role[u] = "superadmin" /\ active[u] = TRUE /\ u \in Users
          BY <3>3 DEF Superadmins, Present, IInv, TypeOK
        <4>2. role'[u] = "superadmin" /\ active'[u] = TRUE
          BY <3>1, <3>3, <4>1 DEF Written, IInv, TypeOK
        <4> QED
          BY <2>1, <3>1, <4>1, <4>2 DEF Superadmins, Present
      <3> QED
        BY <1>3, <3>2, <3>3 DEF Takes, CommitUpdate
    <2>2. CASE row[u] # "present"
      BY <1>1, <1>3, <2>2 DEF CommitUpdate, Refuse, accounts
    <2> QED
      BY <2>1, <2>2
  <1>4. CASE CommitDisable(r)
    <2>1. CASE row[u] = "present"
      <3>1. /\ active' = [active EXCEPT ![u] = Written(q.seenActive, FALSE, active[u])]
            /\ row' = row /\ role' = role
        BY <1>4, <2>1 DEF CommitDisable
      <3>2. Superadmins \ {u} \subseteq Superadmins'
        BY <3>1 DEF Superadmins, Present, IInv, TypeOK
      <3> QED
        BY <1>4, <3>2 DEF Takes, CommitDisable
    <2>2. CASE row[u] # "present"
      BY <1>1, <1>4, <2>2 DEF CommitDisable, Refuse, accounts
    <2> QED
      BY <2>1, <2>2
  <1>5. CASE CommitDelete(r)
    <2>1. CASE Unreferenced(u)
      <3>1. /\ row' = [row EXCEPT ![u] = "deleted"]
            /\ role' = [role EXCEPT ![u] = "viewer"]
            /\ active' = [active EXCEPT ![u] = FALSE]
        BY <1>5, <2>1 DEF CommitDelete, Erase
      <3>2. Superadmins \ {u} \subseteq Superadmins'
        BY <3>1 DEF Superadmins, Present, IInv, TypeOK
      <3> QED
        BY <1>5, <3>2 DEF Takes, CommitDelete
    <2>2. CASE ~Unreferenced(u)
      BY <1>1, <1>5, <2>2 DEF CommitDelete, Refuse, accounts
    <2> QED
      BY <2>1, <2>2
  <1>6. CASE CommitPassword(r)
    BY <1>1, <1>6 DEF CommitPassword
  <1>7. ASSUME \/ Enter(r) \/ CheckCreate(r) \/ CheckUpdate(r) \/ CheckRemoval(r, "disable")
               \/ CheckRemoval(r, "delete") \/ ReadPassword(r)
        PROVE  UNCHANGED <<row, role, active>>
    BY <1>7 DEF Enter, CheckCreate, CheckUpdate, CheckRemoval, ReadPassword, Decide, Refuse, accounts
  <1> QED
    BY <1>1, <1>2, <1>3, <1>4, <1>5, <1>6, <1>7 DEF AdminStep

(* Only requests and the scripts change accounts, and a script adds one.   *)
LEMMA BootstrapAdds ==
    ASSUME IInv, NEW c \in Consoles, BootstrapInserts(c)
    PROVE  /\ Superadmins \subseteq Superadmins' /\ request' = request
           /\ \A v \in Users : row[v] # "unused" =>
                 row'[v] = row[v] /\ role'[v] = role[v] /\ active'[v] = active[v]
  <1> DEFINE u == console[c].user
             by == console[c].provider
  <1>1. CASE ~(row[u] = "unused" /\ LoginFree(u))
    BY <1>1, SameAccounts DEF BootstrapInserts, accounts
  <1>2. CASE row[u] = "unused" /\ LoginFree(u)
    <2>1. Insert(u, "superadmin", by, FALSE) /\ request' = request
      BY <1>2 DEF BootstrapInserts
    <2>2. u \in Users /\ by \in Providers /\ "superadmin" \in Roles /\ FALSE \in BOOLEAN
      BY DEF BootstrapInserts, IInv, Shapes, ConsoleShape, Roles
    <2> QED
      BY <1>2, <2>1, <2>2, InsertAdds
  <1> QED
    BY <1>1, <1>2

LEMMA OthersKeepAccounts ==
    ASSUME \/ UNCHANGED vars
           \/ \E a \in Attempts : LoginStep(a)
           \/ \E t \in Tokens : EndSession(t)
           \/ \E u \in Users : LockPasses(u)
           \/ \E c \in Consoles : BootstrapChecks(c)
    PROVE  UNCHANGED <<row, role, active, toldRole, toldActive, request>>
  BY DEF vars, accounts, auditLog, LoginStep, LoginWrong, LoginFails, LoginRight, LoginClears,
         LoginOpens, LoginRefused, EndSession, LockPasses, BootstrapChecks

LEMMA NextTakes ==
    ASSUME IInv, TakeInv, [Next /\ ~TakenMeanwhile]_vars
    PROVE  TakeInv' /\ SuperadminStep
  <1>1. ASSUME request' = request, Superadmins \subseteq Superadmins' PROVE TakeInv' /\ SuperadminStep
    BY <1>1 DEF TakeInv, Takes, SuperadminStep
  <1>2. ASSUME NEW c \in Consoles, BootstrapInserts(c) PROVE TakeInv' /\ SuperadminStep
    BY <1>1, <1>2, BootstrapAdds
  <1>3. ASSUME NEW r \in Requests, AdminStep(r), ~TakenMeanwhile PROVE TakeInv' /\ SuperadminStep
    <2>1. SuperadminStep
      BY <1>3, CommitTakesOne DEF SuperadminStep, TakeInv
    <2>2. /\ \A s \in Requests \ {r} : request'[s] = request[s]
          /\ request'[r] # Idle => UNCHANGED <<row, role, active>>
      BY <1>3, RequestSteps
    <2>3. ASSUME NEW s \in Requests, s # r
          PROVE  /\ request'[s].op \notin {"idle", "password"} => Superadmins' # {}
                 /\ Takes(s)' => Superadmins' \ {request'[s].user} # {}
      <3>1. request'[s] = request[s]
        BY <2>2, <2>3
      <3>2. Takes(s)' = Takes(s)
        BY <3>1 DEF Takes
      <3>3. Takes(s) => Superadmins \subseteq Superadmins'
        BY <1>3, <3>1 DEF TakenMeanwhile
      <3> QED
        BY <2>1, <3>1, <3>2, <3>3 DEF TakeInv, SuperadminStep
    <2>4. /\ request'[r].op \notin {"idle", "password"} => Superadmins' # {}
          /\ Takes(r)' => Superadmins' \ {request'[r].user} # {}
      <3>1. CASE request'[r] = Idle
        BY <3>1 DEF Idle, Takes
      <3>2. CASE request'[r] # Idle
        BY <1>3, <2>2, <3>2, SameAccounts, DecisionLeaves
      <3> QED
        BY <3>1, <3>2
    <2>5. TakeInv'
      BY <2>3, <2>4 DEF TakeInv
    <2> QED
      BY <2>1, <2>5
  <1>4. ASSUME UNCHANGED <<row, role, active, request>> PROVE TakeInv' /\ SuperadminStep
    BY <1>1, <1>4, SameAccounts
  <1> QED
    BY <1>2, <1>3, <1>4, OthersKeepAccounts DEF Next

(* The last active superadmin stays, for any number of request threads, if *)
(* none is taken away between the count and the commit of another request  *)
(* that may take one away: creations, promotions, reactivations, logins    *)
(* and scripts may overtake the count.                                     *)
THEOREM SuperadminStays == TakeSpec => SuperadminRemains
  <1>1. IInv /\ TakeInv /\ [Next /\ ~TakenMeanwhile]_vars => IInv' /\ TakeInv'
    BY NextIInv, NextTakes
  <1>2. IInv /\ TakeInv /\ [Next /\ ~TakenMeanwhile]_vars
           => [Superadmins # {} => Superadmins' # {}]_vars
    BY NextTakes DEF SuperadminStep
  <1>3. Init => TakeInv
    BY DEF Init, TakeInv, Takes, Idle
  <1> QED
    BY <1>1, <1>2, <1>3, InitIInv, PTL DEF TakeSpec, SuperadminRemains

-----------------------------------------------------------------------------
(***************************************************************************)
(* The audit log.  What an update or a disabling has loaded of a row is    *)
(* still in it when it commits, or the row is gone.                        *)
(***************************************************************************)
LoadedOK(q) ==
    q.op \in {"update", "disable"} =>
        /\ row[q.user] # "unused"
        /\ row[q.user] = "present" =>
              /\ active[q.user] = q.seenActive
              /\ q.op = "update" => role[q.user] = q.seenRole

LoadedInv == \A r \in Requests : LoadedOK(request[r])

LEMMA SameAudit ==
    ASSUME AuditTellsState, UNCHANGED <<row, role, active, toldRole, toldActive>>
    PROVE  AuditTellsState'
  BY SameAccounts DEF AuditTellsState

(* A row is inserted once.                                                 *)
RowsOnce ==
    \A v \in Users : row[v] # "unused" =>
        row'[v] # "unused" /\ (row'[v] = "present" => row[v] = "present")

LEMMA AdminRowsOnce == ASSUME IInv, NEW r \in Requests, AdminStep(r) PROVE RowsOnce
  <1>1. CASE CommitCreate(r)
    <2>1. row' = row \/ (row[request[r].user] = "unused" /\ row' = [row EXCEPT ![request[r].user] = "present"])
      BY <1>1 DEF CommitCreate, Insert, Refuse, accounts
    <2> QED
      BY <2>1 DEF RowsOnce, IInv, TypeOK
  <1>2. CASE CommitDelete(r)
    <2>1. row' = row \/ row' = [row EXCEPT ![request[r].user] = "deleted"]
      BY <1>2 DEF CommitDelete, Erase, Refuse, accounts
    <2> QED
      BY <2>1 DEF RowsOnce, IInv, TypeOK
  <1>3. CASE UNCHANGED row
    BY <1>3 DEF RowsOnce
  <1> QED
    BY <1>1, <1>2, <1>3 DEF AdminStep, Enter, CheckCreate, CheckUpdate, CheckRemoval, CommitUpdate,
       CommitDisable, ReadPassword, CommitPassword, Decide, Refuse, accounts

(* What a request decides is of what it has loaded.                        *)
LEMMA DecisionLoaded ==
    ASSUME IInv, NEW r \in Requests, AdminStep(r), request'[r] # Idle
    PROVE  LoadedOK(request'[r])
  <1>1. CASE CheckUpdate(r)
    <2>1. PICK u \in Present, newRole \in OfferedRoles :
             request'[r] = [op |-> "update", actor |-> request[r].actor, user |-> u,
                            role |-> newRole, seenRole |-> role[u], seenActive |-> active[u]]
      BY <1>1 DEF CheckUpdate, Decide, Refuse, IInv, Shapes
    <2> QED
      BY <2>1 DEF LoadedOK, Present
  <1>2. ASSUME NEW removal \in {"disable", "delete"}, CheckRemoval(r, removal)
        PROVE  LoadedOK(request'[r])
    <2>1. PICK u \in Present :
             request'[r] = [op |-> removal, actor |-> request[r].actor, user |-> u,
                            seenActive |-> active[u]]
      BY <1>2 DEF CheckRemoval, Decide, Refuse, IInv, Shapes
    <2> QED
      BY <2>1 DEF LoadedOK, Present
  <1>3. ASSUME Enter(r) \/ CheckCreate(r) \/ ReadPassword(r)
        PROVE  request'[r].op \in {"entered", "create", "password"}
    BY <1>3 DEF Enter, CheckCreate, ReadPassword, Decide, IInv, Shapes
  <1>4. ~(CommitCreate(r) \/ CommitUpdate(r) \/ CommitDisable(r) \/ CommitDelete(r) \/ CommitPassword(r))
    BY DEF CommitCreate, CommitUpdate, CommitDisable, CommitDelete, CommitPassword, Refuse, IInv, Shapes
  <1> QED
    BY <1>1, <1>2, <1>3, <1>4 DEF AdminStep, LoadedOK

LEMMA AdminLoaded ==
    ASSUME IInv, LoadedInv, NEW r \in Requests, AdminStep(r), ~Overtaken
    PROVE  LoadedInv'
  <1>1. /\ \A s \in Requests \ {r} : request'[s] = request[s]
        /\ request'[r] # Idle => UNCHANGED <<row, role, active>>
    BY RequestSteps
  <1>2. ASSUME NEW s \in Requests, s # r PROVE LoadedOK(request[s])'
    <2>1. request'[s] = request[s]
      BY <1>1, <1>2
    <2>2. CASE request[s].op \in {"update", "disable"}
      <3>1. LET u == request[s].user IN role'[u] = role[u] /\ active'[u] = active[u]
        BY <2>1, <2>2 DEF Overtaken
      <3>2. request[s].user \in Users
        BY <2>2 DEF IInv, Shapes, RequestShape
      <3> QED
        BY <2>1, <2>2, <3>1, <3>2, AdminRowsOnce DEF LoadedInv, LoadedOK, RowsOnce
    <2>3. CASE request[s].op \notin {"update", "disable"}
      BY <2>1, <2>3 DEF LoadedOK
    <2> QED
      BY <2>2, <2>3
  <1>3. LoadedOK(request[r])'
    <2>1. CASE request'[r] = Idle
      BY <2>1 DEF LoadedOK, Idle
    <2>2. CASE request'[r] # Idle
      BY <1>1, <2>2, DecisionLoaded DEF LoadedOK
    <2> QED
      BY <2>1, <2>2
  <1> QED
    BY <1>2, <1>3 DEF LoadedInv

(***************************************************************************)
(* Commits                                                                 *)
(***************************************************************************)
LEMMA RefuseAudit ==
    ASSUME AuditTellsState, NEW r \in Requests, Refuse(r) PROVE AuditTellsState'
  BY SameAudit DEF Refuse, accounts, auditLog

LEMMA CommitCreateAudit ==
    ASSUME IInv, AuditTellsState, NEW r \in Requests, CommitCreate(r)
    PROVE  AuditTellsState'
  <1> DEFINE q == request[r]
             u == request[r].user
  <1>1. CASE ~(row[u] = "unused" /\ LoginFree(u))
    BY <1>1, RefuseAudit DEF CommitCreate
  <1>2. CASE row[u] = "unused" /\ LoginFree(u)
    <2>1. /\ Insert(u, q.role, q.provider, q.provider = "local")
          /\ Record(q.actor, u, q.role, "yes")
      BY <1>2 DEF CommitCreate
    <2>2. u \in Users /\ q.actor \in Users /\ q.role \in Roles /\ q.provider \in Providers
      BY DEF CommitCreate, IInv, Shapes, RequestShape
    <2>3. /\ Present' = Present \cup {u}
          /\ row'[u] = "present" /\ role'[u] = q.role /\ active'[u]
          /\ \A v \in Users \ {u} : row'[v] = row[v] /\ role'[v] = role[v] /\ active'[v] = active[v]
      BY <1>2, <2>1, <2>2, InsertAdds
    <2>4. /\ toldRole'[u] = q.role /\ toldActive'[u] = "yes"
          /\ \A v \in Users \ {u} : toldRole'[v] = toldRole[v] /\ toldActive'[v] = toldActive[v]
      BY <2>1, <2>2, RecordEffect DEF IInv
    <2> QED
      BY <2>3, <2>4 DEF AuditTellsState, Present
  <1> QED
    BY <1>1, <1>2

LEMMA CommitUpdateAudit ==
    ASSUME IInv, LoadedInv, AuditTellsState, NEW r \in Requests, CommitUpdate(r)
    PROVE  AuditTellsState'
  <1> DEFINE q == request[r]
             u == request[r].user
  <1>1. CASE row[u] # "present"
    BY <1>1, RefuseAudit DEF CommitUpdate
  <1>2. CASE row[u] = "present"
    <2>1. role[u] = q.seenRole /\ active[u] = q.seenActive
      BY <1>2 DEF CommitUpdate, LoadedInv, LoadedOK
    <2>2. /\ role' = [role EXCEPT ![u] = Written(q.seenRole, q.role, role[u])]
          /\ active' = [active EXCEPT ![u] = Written(q.seenActive, TRUE, active[u])]
          /\ Record(q.actor, u, q.role, "yes")
          /\ row' = row
      BY <1>2 DEF CommitUpdate
    <2>3. u \in Users /\ q.actor \in Users /\ q.role \in Roles
      BY DEF CommitUpdate, IInv, Shapes, RequestShape
    <2>4. /\ role'[u] = q.role
          /\ \A v \in Users \ {u} : role'[v] = role[v]
      BY <2>1, <2>2, <2>3 DEF Written, IInv, TypeOK
    <2>5. /\ active'[u] = TRUE
          /\ \A v \in Users \ {u} : active'[v] = active[v]
      BY <2>1, <2>2, <2>3 DEF Written, IInv, TypeOK
    <2>6. /\ toldRole'[u] = q.role /\ toldActive'[u] = "yes"
          /\ \A v \in Users \ {u} : toldRole'[v] = toldRole[v] /\ toldActive'[v] = toldActive[v]
      BY <2>2, <2>3, RecordEffect DEF IInv
    <2>7. ASSUME NEW v \in Present
          PROVE  /\ toldRole'[v] # "none" => toldRole'[v] = role'[v]
                 /\ toldActive'[v] # "none" => (toldActive'[v] = "yes") = active'[v]
      <3>1. CASE v = u
        BY <3>1, <2>4, <2>5, <2>6
      <3>2. CASE v # u
        BY <3>2, <2>4, <2>5, <2>6 DEF AuditTellsState, Present
      <3> QED
        BY <3>1, <3>2
    <2> QED
      BY <2>2, <2>7 DEF AuditTellsState, Present
  <1> QED
    BY <1>1, <1>2

LEMMA CommitDisableAudit ==
    ASSUME IInv, LoadedInv, AuditTellsState, NEW r \in Requests, CommitDisable(r)
    PROVE  AuditTellsState'
  <1> DEFINE q == request[r]
             u == request[r].user
  <1>1. CASE row[u] # "present"
    BY <1>1, RefuseAudit DEF CommitDisable
  <1>2. CASE row[u] = "present"
    <2>1. active[u] = q.seenActive
      BY <1>2 DEF CommitDisable, LoadedInv, LoadedOK
    <2>2. /\ active' = [active EXCEPT ![u] = Written(q.seenActive, FALSE, active[u])]
          /\ Record(q.actor, u, toldRole[u], "no")
          /\ row' = row /\ role' = role
      BY <1>2 DEF CommitDisable
    <2>3. u \in Users /\ q.actor \in Users /\ toldRole[u] \in Roles \cup {"none"}
      BY DEF CommitDisable, IInv, Shapes, RequestShape, TypeOK
    <2>4. /\ active'[u] = FALSE
          /\ \A v \in Users \ {u} : active'[v] = active[v]
      BY <2>1, <2>2, <2>3 DEF Written, IInv, TypeOK
    <2>5. /\ toldRole'[u] = toldRole[u] /\ toldActive'[u] = "no"
          /\ \A v \in Users \ {u} : toldRole'[v] = toldRole[v] /\ toldActive'[v] = toldActive[v]
      BY <2>2, <2>3, RecordEffect DEF IInv
    <2>6. ASSUME NEW v \in Present
          PROVE  /\ toldRole'[v] # "none" => toldRole'[v] = role'[v]
                 /\ toldActive'[v] # "none" => (toldActive'[v] = "yes") = active'[v]
      <3>1. CASE v = u
        BY <3>1, <2>2, <2>4, <2>5 DEF AuditTellsState, Present
      <3>2. CASE v # u
        BY <3>2, <2>2, <2>4, <2>5 DEF AuditTellsState, Present
      <3> QED
        BY <3>1, <3>2
    <2> QED
      BY <2>2, <2>6 DEF AuditTellsState, Present
  <1> QED
    BY <1>1, <1>2

LEMMA CommitDeleteAudit ==
    ASSUME IInv, AuditTellsState, NEW r \in Requests, CommitDelete(r)
    PROVE  AuditTellsState'
  <1> DEFINE u == request[r].user
  <1>1. CASE ~Unreferenced(u)
    BY <1>1, RefuseAudit DEF CommitDelete
  <1>2. CASE Unreferenced(u)
    <2>1. /\ row' = [row EXCEPT ![u] = "deleted"]
          /\ role' = [role EXCEPT ![u] = "viewer"]
          /\ active' = [active EXCEPT ![u] = FALSE]
          /\ toldRole' = [toldRole EXCEPT ![u] = "none"]
          /\ toldActive' = [toldActive EXCEPT ![u] = "none"]
      BY <1>2 DEF CommitDelete, Erase
    <2>2. u \in Users
      BY DEF CommitDelete, IInv, Shapes, RequestShape
    <2>3. /\ row'[u] = "deleted"
          /\ \A v \in Users \ {u} : /\ row'[v] = row[v] /\ role'[v] = role[v] /\ active'[v] = active[v]
                                    /\ toldRole'[v] = toldRole[v] /\ toldActive'[v] = toldActive[v]
      BY <2>1, <2>2 DEF IInv, TypeOK
    <2> QED
      BY <2>3 DEF AuditTellsState, Present
  <1> QED
    BY <1>1, <1>2

(* Nothing is told of the user a script inserts.                           *)
LEMMA BootstrapAudit ==
    ASSUME IInv, AuditTellsState, NEW c \in Consoles, BootstrapInserts(c)
    PROVE  AuditTellsState'
  <1> DEFINE u == console[c].user
             by == console[c].provider
  <1>1. UNCHANGED <<toldRole, toldActive>>
    BY DEF BootstrapInserts, auditLog
  <1>2. CASE ~(row[u] = "unused" /\ LoginFree(u))
    BY <1>1, <1>2, SameAudit DEF BootstrapInserts, accounts
  <1>3. CASE row[u] = "unused" /\ LoginFree(u)
    <2>1. Insert(u, "superadmin", by, FALSE)
      BY <1>3 DEF BootstrapInserts
    <2>2. u \in Users /\ by \in Providers /\ "superadmin" \in Roles /\ FALSE \in BOOLEAN
      BY DEF BootstrapInserts, IInv, Shapes, ConsoleShape, Roles
    <2>3. /\ Present' = Present \cup {u}
          /\ \A v \in Users \ {u} : row'[v] = row[v] /\ role'[v] = role[v] /\ active'[v] = active[v]
      BY <1>3, <2>1, <2>2, InsertAdds
    <2> QED
      BY <1>1, <1>3, <2>2, <2>3 DEF IInv, UnusedInv, AuditTellsState, Present
  <1> QED
    BY <1>2, <1>3

LEMMA AdminAudit ==
    ASSUME IInv, LoadedInv, AuditTellsState, NEW r \in Requests, AdminStep(r)
    PROVE  AuditTellsState'
  <1>1. CASE CommitPassword(r)
    BY <1>1, SameAudit DEF CommitPassword
  <1>2. ASSUME \/ Enter(r) \/ CheckCreate(r) \/ CheckUpdate(r) \/ CheckRemoval(r, "disable")
               \/ CheckRemoval(r, "delete") \/ ReadPassword(r)
        PROVE  UNCHANGED <<row, role, active, toldRole, toldActive>>
    BY <1>2 DEF Enter, CheckCreate, CheckUpdate, CheckRemoval, ReadPassword, Decide, Refuse, accounts,
                auditLog
  <1> QED
    BY <1>1, <1>2, SameAudit, CommitCreateAudit, CommitUpdateAudit, CommitDisableAudit,
       CommitDeleteAudit DEF AdminStep

LEMMA NextLoaded ==
    ASSUME IInv, LoadedInv, AuditTellsState, [Next /\ ~Overtaken]_vars
    PROVE  LoadedInv' /\ AuditTellsState'
  <1>1. ASSUME NEW c \in Consoles, BootstrapInserts(c) PROVE LoadedInv' /\ AuditTellsState'
    <2>1. ASSUME NEW r \in Requests PROVE LoadedOK(request[r])'
      <3>1. LoadedOK(request[r]) /\ RequestShape(request[r])
        BY DEF LoadedInv, IInv, Shapes
      <3> QED
        BY <1>1, <3>1, BootstrapAdds DEF LoadedOK, RequestShape
    <2> QED
      BY <1>1, <2>1, BootstrapAudit DEF LoadedInv
  <1>2. ASSUME NEW r \in Requests, AdminStep(r), ~Overtaken PROVE LoadedInv' /\ AuditTellsState'
    BY <1>2, AdminLoaded, AdminAudit
  <1>3. ASSUME UNCHANGED <<row, role, active, toldRole, toldActive, request>>
        PROVE  LoadedInv' /\ AuditTellsState'
    BY <1>3, SameAudit DEF LoadedInv, LoadedOK
  <1> QED
    BY <1>1, <1>2, <1>3, OthersKeepAccounts DEF Next

(* The last audit entry about a user tells the role and the activity the   *)
(* user has, for any number of request threads, if no commit changes a     *)
(* role or an activity that another request has loaded and will write.     *)
THEOREM AuditAgrees == LoadSpec => []AuditTellsState
  <1>1. IInv /\ LoadedInv /\ AuditTellsState /\ [Next /\ ~Overtaken]_vars
           => IInv' /\ LoadedInv' /\ AuditTellsState'
    BY NextIInv, NextLoaded
  <1>2. Init => LoadedInv /\ AuditTellsState
    BY DEF Init, LoadedInv, LoadedOK, Idle, AuditTellsState, Present
  <1> QED
    BY <1>1, <1>2, InitIInv, PTL DEF LoadSpec
=============================================================================
