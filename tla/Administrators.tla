--------------------------- MODULE Administrators ---------------------------
(***************************************************************************)
(* The accounts of the web application: app_users with their roles, the    *)
(* web_sessions they log in with, and the requests that change them        *)
(* (printaudit/admin_users.py, printaudit/security, webapp/deps.py,        *)
(* webapp/auth_routes.py, /admin/administrators) and the two console       *)
(* scripts that create the first superadmin.                               *)
(*                                                                         *)
(* A request runs in its own database session.  It reads rows, decides,    *)
(* and writes in one commit at the end, so what it read may be stale when  *)
(* it writes; the ORM writes only the columns whose value differs from the *)
(* one it loaded (Written).  Nothing is locked between the two.            *)
(*                                                                         *)
(* Users are row ids: an id is never used again after its row is deleted,  *)
(* and the login of a row is UNIQUE among the rows there are.              *)
(***************************************************************************)
EXTENDS Naturals, FiniteSets

CONSTANTS
    Users,             \* ids app_users rows can get
    Login,             \* Login[u]: the login_normalized of row u
    Tokens,            \* the sessions that can be opened (rows are never purged)
    Requests,          \* threads that serve /admin/administrators and /change-password
    Attempts,          \* threads that serve POST /login
    Mistyped,          \* bound: the rows whose password may be tried wrong
    Consoles,          \* consoles where a bootstrap script may run
    OfferedRoles,      \* the roles chosen in the form
    LockoutThreshold,  \* LOCKOUT_THRESHOLD of local_auth.py
    NoUser

ASSUME UsersAssumption == NoUser \notin Users /\ IsFiniteSet(Users)
ASSUME ThresholdAssumption == LockoutThreshold \in Nat /\ LockoutThreshold > 1
ASSUME RolesAssumption == OfferedRoles \subseteq {"superadmin", "admin", "viewer"}

VARIABLES
    row,         \* row[u]: "unused", "present" or "deleted"
    role,        \* AppUser.role
    active,      \* AppUser.is_active
    provider,    \* AppUser.auth_provider
    temporary,   \* AppUser.must_change_password
    fails,       \* AppUser.failed_login_count
    locked,      \* AppUser.locked_until: "never" (NULL), "ahead" of the clock or "past"
    acted,       \* other rows refer to u: audit_log.actor_app_user_id, assigned_by_id, ...
    toldRole,    \* the role the last audit_log entry about u gives, or "none"
    toldActive,  \* the is_active it gives: "none", "yes" or "no"
    owner,       \* owner[t]: WebSession.app_user_id, NoUser while there is no row
    live,        \* the session is neither revoked nor expired
    request,     \* what each admin request has read so far
    attempt,     \* what each login attempt has read so far
    console      \* what each bootstrap script has read so far

accounts == <<row, role, active, provider, temporary>>
counters == <<fails, locked>>
auditLog == <<acted, toldRole, toldActive>>
sessions == <<owner, live>>
vars == <<accounts, counters, auditLog, sessions, request, attempt, console>>

Roles == {"superadmin", "admin", "viewer"}
Providers == {"local", "ad"}
Present == {u \in Users : row[u] = "present"}
Superadmins == {u \in Present : role[u] = "superadmin" /\ active[u]}
Idle == [op |-> "idle"]

\* Slip: superadmins that are disabled count.
OnlySuperadmin_Disabled(u) == \A v \in Present \ {u} : role[v] # "superadmin"

\* count_active_superadmins(exclude_id) is zero.
OnlySuperadmin(u) == Superadmins \ {u} = {}

\* What an ORM column holds after the commit of an object that loaded `seen` and
\* was assigned `new`, when the row holds `now`: an unchanged attribute is not written.
Written(seen, new, now) == IF new # seen THEN new ELSE now

TypeOK ==
    /\ row \in [Users -> {"unused", "present", "deleted"}]
    /\ role \in [Users -> Roles]
    /\ active \in [Users -> BOOLEAN]
    /\ provider \in [Users -> Providers]
    /\ temporary \in [Users -> BOOLEAN]
    /\ fails \in [Users -> 0 .. LockoutThreshold - 1]
    /\ locked \in [Users -> {"never", "ahead", "past"}]
    /\ acted \in [Users -> BOOLEAN]
    /\ toldRole \in [Users -> Roles \cup {"none"}]
    /\ toldActive \in [Users -> {"none", "yes", "no"}]
    /\ owner \in [Tokens -> Users \cup {NoUser}]
    /\ live \in [Tokens -> BOOLEAN]

Init ==
    /\ row = [u \in Users |-> "unused"]
    /\ role = [u \in Users |-> "viewer"]
    /\ active = [u \in Users |-> FALSE]
    /\ provider = [u \in Users |-> "ad"]
    /\ temporary = [u \in Users |-> FALSE]
    /\ fails = [u \in Users |-> 0]
    /\ locked = [u \in Users |-> "never"]
    /\ acted = [u \in Users |-> FALSE]
    /\ toldRole = [u \in Users |-> "none"]
    /\ toldActive = [u \in Users |-> "none"]
    /\ owner = [t \in Tokens |-> NoUser]
    /\ live = [t \in Tokens |-> FALSE]
    /\ request = [r \in Requests |-> Idle]
    /\ attempt = [a \in Attempts |-> Idle]
    /\ console = [c \in Consoles |-> Idle]

-----------------------------------------------------------------------------
(* Rows                                                                    *)

\* The row inserted for u; it succeeds only while no row has its login (UNIQUE).
LoginFree(u) == \A v \in Present : Login[v] # Login[u]

Insert(u, newRole, by, mustChange) ==
    /\ row' = [row EXCEPT ![u] = "present"]
    /\ role' = [role EXCEPT ![u] = newRole]
    /\ active' = [active EXCEPT ![u] = TRUE]
    /\ provider' = [provider EXCEPT ![u] = by]
    /\ temporary' = [temporary EXCEPT ![u] = mustChange]

\* audit.record in the transaction of the change it tells of: the actor is
\* referred to from now on, and the entry gives the role and the activity.
Record(actor, u, newRole, newActive) ==
    /\ acted' = [acted EXCEPT ![actor] = TRUE]
    /\ toldRole' = [toldRole EXCEPT ![u] = newRole]
    /\ toldActive' = [toldActive EXCEPT ![u] = newActive]

\* Slip: web_sessions has no foreign key.
Unreferenced_SessionsApart(u) == ~acted[u]

\* No web session, audit entry or assignment refers to u: the foreign keys let it go.
Unreferenced(u) == ~acted[u] /\ \A t \in Tokens : owner[t] # u

-----------------------------------------------------------------------------
(* /admin/administrators                                                   *)

\* require_login: the session's user, if the session is live and the user active;
\* a temporary password admits only to /change-password.
LoggedIn(t) == live[t] /\ row[owner[t]] = "present" /\ active[owner[t]]

\* Slip: the temporary password is not asked about.
Admitted_Temporary(t) == LoggedIn(t)

Admitted(t) == LoggedIn(t) /\ ~temporary[owner[t]]

\* require_role(SUPERADMIN) has let the request through.
Enter(r) ==
    /\ request[r] = Idle
    /\ \E t \in Tokens :
          /\ Admitted(t) /\ role[owner[t]] = "superadmin"
          /\ request' = [request EXCEPT ![r] = [op |-> "entered", actor |-> owner[t]]]
    /\ UNCHANGED <<accounts, counters, auditLog, sessions, attempt, console>>

Entered(r) == request[r].op = "entered"
Refuse(r) ==
    /\ request' = [request EXCEPT ![r] = Idle]
    /\ UNCHANGED <<accounts, counters, auditLog, sessions, attempt, console>>
Decide(r, decision) ==
    /\ request' = [request EXCEPT ![r] = decision]
    /\ UNCHANGED <<accounts, counters, auditLog, sessions, attempt, console>>

\* upsert_admin_assignment and create_local_user for a login no row has.
CheckCreate(r) ==
    /\ Entered(r)
    /\ \E u \in Users, newRole \in OfferedRoles, by \in Providers :
          /\ row[u] = "unused" /\ LoginFree(u)
          /\ Decide(r, [op |-> "create", actor |-> request[r].actor, user |-> u,
                        role |-> newRole, provider |-> by])

\* upsert_admin_assignment for a row there is: nobody changes his own role, and
\* the last active superadmin is not demoted.
UpdateForbidden(actor, u, newRole) ==
    \/ u = actor /\ role[u] # newRole
    \/ u \in Superadmins /\ newRole # "superadmin" /\ OnlySuperadmin(u)

CheckUpdate(r) ==
    /\ Entered(r)
    /\ \E u \in Present, newRole \in OfferedRoles :
          IF UpdateForbidden(request[r].actor, u, newRole)
          THEN Refuse(r)
          ELSE Decide(r, [op |-> "update", actor |-> request[r].actor, user |-> u,
                          role |-> newRole, seenRole |-> role[u], seenActive |-> active[u]])

\* disable_admin and delete_admin_assignment: not oneself, not the last one.
RemovalForbidden(actor, u) == u = actor \/ (u \in Superadmins /\ OnlySuperadmin(u))

CheckRemoval(r, removal) ==
    /\ Entered(r)
    /\ \E u \in Present :
          IF RemovalForbidden(request[r].actor, u)
          THEN Refuse(r)
          ELSE Decide(r, [op |-> removal, actor |-> request[r].actor, user |-> u,
                          seenActive |-> active[u]])

\* The commit of a creation; a login taken meanwhile violates UNIQUE and nothing stays.
CommitCreate(r) ==
    /\ request[r].op = "create"
    /\ LET u == request[r].user  q == request[r] IN
       IF row[u] = "unused" /\ LoginFree(u)
       THEN /\ Insert(u, q.role, q.provider, q.provider = "local")
            /\ Record(q.actor, u, q.role, "yes")
            /\ request' = [request EXCEPT ![r] = Idle]
            /\ UNCHANGED <<counters, sessions, attempt, console>>
       ELSE Refuse(r)

\* Slip: the row is not reactivated, while its audit entry says it is.
CommitUpdate_NotReactivated(r) ==
    /\ request[r].op = "update"
    /\ LET u == request[r].user  q == request[r] IN
       IF row[u] = "present"
       THEN /\ role' = [role EXCEPT ![u] = Written(q.seenRole, q.role, role[u])]
            /\ Record(q.actor, u, q.role, "yes")
            /\ request' = [request EXCEPT ![r] = Idle]
            /\ UNCHANGED <<row, active, provider, temporary, counters, sessions, attempt, console>>
       ELSE Refuse(r)

\* The commit of a new assignment of an existing row; it is reactivated.  The UPDATE
\* of a row deleted meanwhile matches nothing and the transaction fails.
CommitUpdate(r) ==
    /\ request[r].op = "update"
    /\ LET u == request[r].user  q == request[r] IN
       IF row[u] = "present"
       THEN /\ role' = [role EXCEPT ![u] = Written(q.seenRole, q.role, role[u])]
            /\ active' = [active EXCEPT ![u] = Written(q.seenActive, TRUE, active[u])]
            /\ Record(q.actor, u, q.role, "yes")
            /\ request' = [request EXCEPT ![r] = Idle]
            /\ UNCHANGED <<row, provider, temporary, counters, sessions, attempt, console>>
       ELSE Refuse(r)

CommitDisable(r) ==
    /\ request[r].op = "disable"
    /\ LET u == request[r].user  q == request[r] IN
       IF row[u] = "present"
       THEN /\ active' = [active EXCEPT ![u] = Written(q.seenActive, FALSE, active[u])]
            /\ Record(q.actor, u, toldRole[u], "no")
            /\ request' = [request EXCEPT ![r] = Idle]
            /\ UNCHANGED <<row, role, provider, temporary, counters, sessions, attempt, console>>
       ELSE Refuse(r)

\* The columns of a row that is gone are as they were before it was inserted.
Erase(u) ==
    /\ row' = [row EXCEPT ![u] = "deleted"]
    /\ role' = [role EXCEPT ![u] = "viewer"]
    /\ active' = [active EXCEPT ![u] = FALSE]
    /\ provider' = [provider EXCEPT ![u] = "ad"]
    /\ temporary' = [temporary EXCEPT ![u] = FALSE]
    /\ fails' = [fails EXCEPT ![u] = 0]
    /\ locked' = [locked EXCEPT ![u] = "never"]
    /\ toldRole' = [toldRole EXCEPT ![u] = "none"]
    /\ toldActive' = [toldActive EXCEPT ![u] = "none"]

\* The DELETE fails on a foreign key while anything refers to the row; deleting a
\* row that is gone is only a warning.
CommitDelete(r) ==
    /\ request[r].op = "delete"
    /\ LET u == request[r].user  q == request[r] IN
       IF Unreferenced(u)
       THEN /\ Erase(u)
            /\ acted' = [acted EXCEPT ![q.actor] = TRUE]
            /\ request' = [request EXCEPT ![r] = Idle]
            /\ UNCHANGED <<sessions, attempt, console>>
       ELSE Refuse(r)

-----------------------------------------------------------------------------
(* Sessions and passwords                                                  *)

\* POST /change-password: require_login, the current password verified, and the
\* user's live sessions read.
ReadPassword(r) ==
    /\ request[r] = Idle
    /\ \E t \in Tokens :
          /\ LoggedIn(t) /\ provider[owner[t]] = "local"
          /\ Decide(r, [op |-> "password", actor |-> owner[t], user |-> owner[t],
                        seenFails |-> fails[owner[t]], seenLock |-> locked[owner[t]],
                        rows |-> {s \in Tokens : live[s] /\ owner[s] = owner[t]}])

\* The count and the lock are cleared, each only if it was seen set.
ClearCount(u, seenFails, seenLock) ==
    /\ fails' = [fails EXCEPT ![u] = Written(seenFails, 0, @)]
    /\ locked' = [locked EXCEPT ![u] = Written(seenLock, "never", @)]

\* change_password commits: the sessions read before are revoked, all of them.
CommitPassword(r) ==
    /\ request[r].op = "password"
    /\ LET u == request[r].user  q == request[r] IN
       /\ temporary' = [temporary EXCEPT ![u] = FALSE]
       /\ ClearCount(u, q.seenFails, q.seenLock)
       /\ live' = [t \in Tokens |-> live[t] /\ t \notin q.rows]
       /\ acted' = [acted EXCEPT ![u] = TRUE]
    /\ request' = [request EXCEPT ![r] = Idle]
    /\ UNCHANGED <<row, role, active, provider, toldRole, toldActive, owner, attempt, console>>

\* authenticate_local finds the row and it is not locked now.
MayTryPassword(u) == provider[u] = "local" /\ locked[u] # "ahead"

\* A wrong password: the count is read here and written by LoginFails.
LoginWrong(a) ==
    /\ attempt[a] = Idle
    /\ \E u \in Present \cap Mistyped :
          /\ MayTryPassword(u)
          /\ attempt' = [attempt EXCEPT ![a] = [op |-> "wrong", user |-> u, seenFails |-> fails[u]]]
    /\ UNCHANGED <<accounts, counters, auditLog, sessions, request, console>>

\* Slip: the row is locked one attempt too late.
LoginFails_OneLate(a) ==
    /\ attempt[a].op = "wrong"
    /\ LET u == attempt[a].user  n == attempt[a].seenFails + 1 IN
       IF row[u] # "present" THEN UNCHANGED counters
       ELSE IF n > LockoutThreshold
       THEN /\ locked' = [locked EXCEPT ![u] = "ahead"]
            /\ fails' = [fails EXCEPT ![u] = 0]
       ELSE fails' = [fails EXCEPT ![u] = n] /\ UNCHANGED locked
    /\ attempt' = [attempt EXCEPT ![a] = Idle]
    /\ UNCHANGED <<accounts, auditLog, sessions, request, console>>

\* The increment is written as a value, not added; at the threshold the row is locked
\* and the count starts again.
LoginFails(a) ==
    /\ attempt[a].op = "wrong"
    /\ LET u == attempt[a].user  n == attempt[a].seenFails + 1 IN
       IF row[u] # "present" THEN UNCHANGED counters
       ELSE IF n >= LockoutThreshold
       THEN /\ locked' = [locked EXCEPT ![u] = "ahead"]
            /\ fails' = [fails EXCEPT ![u] = 0]
       ELSE fails' = [fails EXCEPT ![u] = n] /\ UNCHANGED locked
    /\ attempt' = [attempt EXCEPT ![a] = Idle]
    /\ UNCHANGED <<accounts, auditLog, sessions, request, console>>

\* Rows of web_sessions there are and that logins under way will add.
Opened == {t \in Tokens : owner[t] # NoUser}
Opening == {a \in Attempts : attempt[a].op \in {"right", "open"}}

\* The right password of a local row (active or not), or AD accepted the login and the
\* row it belongs to is active.  Bound: no more sessions than Tokens.
LoginRight(a) ==
    /\ attempt[a] = Idle
    /\ Cardinality(Opened) + Cardinality(Opening) < Cardinality(Tokens)
    /\ \E u \in Present :
          \/ /\ MayTryPassword(u)
             /\ attempt' = [attempt EXCEPT ![a] =
                   [op |-> IF fails[u] > 0 \/ locked[u] # "never" THEN "right" ELSE "open",
                    user |-> u, seenFails |-> fails[u], seenLock |-> locked[u]]]
          \/ /\ active[u]
             /\ attempt' = [attempt EXCEPT ![a] = [op |-> "open", user |-> u]]
    /\ UNCHANGED <<accounts, counters, auditLog, sessions, request, console>>

\* A success after failures or an old lock clears both in a commit of its own.
LoginClears(a) ==
    /\ attempt[a].op = "right"
    /\ IF row[attempt[a].user] = "present"
       THEN /\ ClearCount(attempt[a].user, attempt[a].seenFails, attempt[a].seenLock)
            /\ attempt' = [attempt EXCEPT ![a].op = "open"]
       ELSE /\ attempt' = [attempt EXCEPT ![a] = Idle]
            /\ UNCHANGED counters
    /\ UNCHANGED <<accounts, auditLog, sessions, request, console>>

\* create_session; a row deleted meanwhile fails the foreign key.
LoginOpens(a) ==
    /\ attempt[a].op = "open"
    /\ IF row[attempt[a].user] = "present"
       THEN \E t \in Tokens \ Opened :
               /\ owner' = [owner EXCEPT ![t] = attempt[a].user]
               /\ live' = [live EXCEPT ![t] = TRUE]
       ELSE UNCHANGED sessions
    /\ attempt' = [attempt EXCEPT ![a] = Idle]
    /\ UNCHANGED <<accounts, counters, auditLog, request, console>>

\* An unknown login, a locked row, an account AD refuses or that is disabled.
LoginRefused(a) == attempt[a] = Idle /\ UNCHANGED vars

\* POST /logout revokes the session; expires_at passes.
EndSession(t) ==
    /\ live[t]
    /\ live' = [live EXCEPT ![t] = FALSE]
    /\ UNCHANGED <<accounts, counters, auditLog, owner, request, attempt, console>>

\* LOCKOUT_DURATION_MINUTES pass; the stamp stays until it is cleared.
LockPasses(u) ==
    /\ locked[u] = "ahead"
    /\ locked' = [locked EXCEPT ![u] = "past"]
    /\ UNCHANGED <<accounts, fails, auditLog, sessions, request, attempt, console>>

-----------------------------------------------------------------------------
(* The bootstrap scripts                                                   *)

\* Both refuse while there is an active superadmin; the local one also when the
\* login is taken.  The password is then asked for, or AD is.
BootstrapChecks(c) ==
    /\ console[c] = Idle
    /\ Superadmins = {}
    /\ \E u \in Users, by \in Providers :
          /\ row[u] = "unused"
          /\ by = "local" => LoginFree(u)
          /\ console' = [console EXCEPT ![c] = [op |-> "insert", user |-> u, provider |-> by]]
    /\ UNCHANGED <<accounts, counters, auditLog, sessions, request, attempt>>

BootstrapInserts(c) ==
    /\ console[c].op = "insert"
    /\ LET u == console[c].user IN
       IF row[u] = "unused" /\ LoginFree(u)
       THEN Insert(u, "superadmin", console[c].provider, FALSE)
       ELSE UNCHANGED accounts
    /\ console' = [console EXCEPT ![c] = Idle]
    /\ UNCHANGED <<counters, auditLog, sessions, request, attempt>>

-----------------------------------------------------------------------------
AdminStep(r) ==
    \/ Enter(r)
    \/ CheckCreate(r)
    \/ CheckUpdate(r)
    \/ CheckRemoval(r, "disable")
    \/ CheckRemoval(r, "delete")
    \/ CommitCreate(r)
    \/ CommitUpdate(r)
    \/ CommitDisable(r)
    \/ CommitDelete(r)
    \/ ReadPassword(r)
    \/ CommitPassword(r)

LoginStep(a) ==
    \/ LoginWrong(a)
    \/ LoginFails(a)
    \/ LoginRight(a)
    \/ LoginClears(a)
    \/ LoginOpens(a)
    \/ LoginRefused(a)

Next ==
    \/ \E r \in Requests : AdminStep(r)
    \/ \E a \in Attempts : LoginStep(a)
    \/ \E t \in Tokens : EndSession(t)
    \/ \E u \in Users : LockPasses(u)
    \/ \E c \in Consoles : BootstrapChecks(c) \/ BootstrapInserts(c)

Spec == Init /\ [][Next]_vars

\* Nothing is locked between the check of a request and its commit.  An active superadmin
\* is taken away while another request has checked that it may take one away:
Takes(r) ==
    \/ request[r].op \in {"disable", "delete"}
    \/ request[r].op = "update" /\ request[r].role # "superadmin"
TakenMeanwhile ==
    /\ ~(Superadmins \subseteq Superadmins')
    /\ \E r \in Requests : Takes(r) /\ request'[r] = request[r]

\* The role or the activity of a row changes that another request has loaded and will write:
Overtaken ==
    \E r \in Requests :
        /\ request[r].op \in {"update", "disable"} /\ request'[r] = request[r]
        /\ LET u == request[r].user IN role'[u] # role[u] \/ active'[u] # active[u]

\* Everything else may overlap.
TakeSpec == Init /\ [][Next /\ ~TakenMeanwhile]_vars
LoadSpec == Init /\ [][Next /\ ~Overtaken]_vars
CalmSpec == Init /\ [][Next /\ ~TakenMeanwhile /\ ~Overtaken]_vars

-----------------------------------------------------------------------------
(* Properties                                                              *)

\* Once there is an active superadmin there always is one: the guards of the update,
\* the disabling and the deletion (admin_users.py:61, :183, :206) keep the last one
\* together, each by a count of its own, which creations, promotions and reactivations
\* may overtake.  Only a superadmin taken away between the count and the commit of
\* another request (TakenMeanwhile) can leave none.
SuperadminRemains == [][Superadmins # {} => Superadmins' # {}]_vars

\* No session outlives the row of its user: a login that verified the password of a
\* row deleted before create_session leaves no session behind.
SessionsHaveUser == \A t \in Tokens : owner[t] # NoUser => row[owner[t]] = "present"

\* The last audit entry about a user gives the role and the activity the user has: a
\* change and its entry are one commit (audit.py:56), in the order of the commits, however
\* requests about different users and deletions overlap.  The entry is made of what the
\* request assigned, the row of the columns that differ from what it loaded: where another
\* commit changes a loaded column (Overtaken) the two part.
AuditTellsState ==
    \A u \in Present :
        /\ toldRole[u] # "none" => toldRole[u] = role[u]
        /\ toldActive[u] # "none" => (toldActive[u] = "yes") = active[u]

\* Whoever has changed anything had replaced the temporary password first.
TemporaryPasswordUnused == \A u \in Present : acted[u] => ~temporary[u]
=============================================================================
