------------------------------- MODULE Accounts -------------------------------
(***************************************************************************)
(* User accounts: the users table, the requests that change it             *)
(* (cmd/users.go, cmd/roles.go, internal/core/users.go, roles.go,          *)
(* queries/users.sql), the cache of API users in memory                    *)
(* (internal/auth/auth.go, cacheUsers), and the first-time setup of a super *)
(* admin (cmd/auth.go).                                                    *)
(*                                                                         *)
(* Two statements on different rows do not wait for each other: one that   *)
(* counts the other super admins counts the rows as they were when it      *)
(* began, so beginning and writing are two steps. A row of the table is an  *)
(* element of Users; the id of a deleted row is not used again. Of the     *)
(* roles, 1 is the Super Admin role; the others differ in nothing that     *)
(* matters here. Whatever else a row holds, its name, its token, what its  *)
(* role permits, is its version, which every change to it raises.          *)
(***************************************************************************)
EXTENDS Integers, FiniteSets

CONSTANTS
    Users,              \* rows
    UserRequests,       \* requests that can be under way at once
    EnvAdmin,           \* a super admin is configured in the environment
    LegacyAdmin,        \* app.admin_username is set in the TOML file
    NewUsers, Edits,    \* what requests ask for: Account, Edit
    MaxChanges,         \* bound on requests
    MaxUserFaults       \* bound on failing statements and restarts

Account == [type : {"user", "api"}, super : BOOLEAN, enabled : BOOLEAN, listRole : BOOLEAN]
Edit == [type : {"", "user", "api"}, role : {"", "super", "other"},
         status : {"", "enabled", "disabled"}, listRole : {"", "none", "given"}]

ASSUME AccountsAssumption ==
    /\ IsFiniteSet(Users)
    /\ {EnvAdmin, LegacyAdmin} \subseteq BOOLEAN
    /\ NewUsers \subseteq Account /\ Edits \subseteq Edit
    /\ {MaxChanges, MaxUserFaults} \subseteq Nat

VARIABLES
    users,              \* rows: Account with a version, Unused or Deleted
    apiCache,           \* auth.apiUsers: the version held, 0 if none
    legacyCached,       \* ... and the TOML admin's entry
    needsUserSetup,     \* app.needsUserSetup
    userRequest,        \* requests under way
    \* --- history, read by properties and by bounds only ---
    overtaken,          \* requests whose reading of the table is not the last word
    unrefreshed,        \* why the cache may be behind: "failed", "profile", "overtaken"
    setupUsers,         \* super admins made by first-time setup, no API users since
    setupBroken,        \* a setup ended between making its user and clearing the flag
    changes, userFaults

accountsVars == <<users, apiCache, legacyCached, needsUserSetup, userRequest, overtaken,
                  unrefreshed, setupUsers, setupBroken, changes, userFaults>>

Unused == [type |-> "unused", version |-> 0]
Deleted == [type |-> "deleted", version |-> 0]
Free(u) == users[u] = Unused
Exists(u) == users[u] \notin {Unused, Deleted}
IsSuper(u) == Exists(u) /\ users[u].type = "user" /\ users[u].super /\ users[u].enabled
Supers == {u \in Users : IsSuper(u)}

NoRequest == [at |-> "idle"]
NoVersions == [u \in Users |-> 0]

AccountsInit ==
    /\ users = [u \in Users |-> Unused]
    /\ apiCache = NoVersions /\ legacyCached = LegacyAdmin /\ needsUserSetup = ~EnvAdmin
    /\ userRequest = [r \in UserRequests |-> NoRequest]
    /\ overtaken = {} /\ unrefreshed = {} /\ setupUsers = {} /\ setupBroken = FALSE
    /\ changes = 0 /\ userFaults = 0

-----------------------------------------------------------------------------
(* Requests: their first statement, and the refresh of the cache.          *)

Idle(r) == userRequest[r].at = "idle"
Enter(r, rec) == userRequest' = [userRequest EXCEPT ![r] = rec]
Leave(r) == Enter(r, NoRequest)
Change == changes < MaxChanges /\ changes' = changes + 1
UserFault == userFaults < MaxUserFaults /\ userFaults' = userFaults + 1

\* An administrator who is logged in, or an API user.
Somebody == EnvAdmin \/ legacyCached \/ \E u \in Users : Exists(u)

Setups == <<needsUserSetup, setupUsers, setupBroken>>
Caches == <<apiCache, legacyCached, unrefreshed>>
Versioned(a) == [type |-> a.type, super |-> a.super, enabled |-> a.enabled,
                 listRole |-> a.listRole, version |-> 1]

\* CreateUser
CreateUser(r, u, a) ==
    /\ Idle(r) /\ Free(u) /\ Somebody /\ Change
    /\ users' = [users EXCEPT ![u] = Versioned(a)]
    /\ Enter(r, [at |-> "refresh"])
    /\ UNCHANGED <<Caches, Setups, userFaults>>

\* createOIDCUser; the cache is not refreshed, and holds no users of this type.
CreateOIDCUser(u, super) ==
    /\ Free(u) /\ Change
    /\ users' = [users EXCEPT ![u] =
          Versioned([type |-> "user", super |-> super, enabled |-> TRUE, listRole |-> FALSE])]
    /\ UNCHANGED <<Caches, Setups, userRequest, userFaults>>

\* Variant: the status is left out.
CanEditRole(u, e) == Supers \ {u} # {} \/ e.role = "super"

\* update-user's check: there are other super admins, or this one is to be one and enabled.
CanEdit(u, e) == Supers \ {u} # {} \/ (e.role = "super" /\ e.status = "enabled")

\* delete-users' check
CanDelete(S) == Supers \ S # {}

\* UpdateUser: its statement begins ...
UpdateBegin(r, u, e) ==
    /\ Idle(r) /\ Exists(u) /\ Change
    /\ Enter(r, [at |-> "update", user |-> u, edit |-> e, can |-> CanEdit(u, e)])
    /\ UNCHANGED <<users, Caches, Setups, userFaults>>

\* ... and writes the row, if it may and the row is still there.
Edited(a, e) ==
    [type |-> IF e.type # "" THEN e.type ELSE a.type,
     super |-> IF e.role # "" THEN e.role = "super" ELSE a.super,
     enabled |-> IF e.status # "" THEN e.status = "enabled" ELSE a.enabled,
     listRole |-> IF e.listRole # "" THEN e.listRole = "given" ELSE a.listRole,
     version |-> a.version + 1]

UpdateWrite(r) ==
    LET q == userRequest[r] IN
    /\ q.at = "update"
    /\ IF q.can /\ Exists(q.user)
       THEN /\ users' = [users EXCEPT ![q.user] = Edited(@, q.edit)] /\ Enter(r, [at |-> "refresh"])
            /\ setupUsers' = IF q.edit.type = "api" THEN setupUsers \ {q.user} ELSE setupUsers
       ELSE Leave(r) /\ UNCHANGED <<users, setupUsers>>
    /\ UNCHANGED <<Caches, needsUserSetup, setupBroken, changes, userFaults>>

\* DeleteUser, DeleteUsers: id = ALL(S) holds of no row when S has two ids.
DeleteBegin(r, S) ==
    /\ Idle(r) /\ Somebody /\ Change
    /\ Enter(r, [at |-> "delete", rows |-> {u \in S : S = {u}}, can |-> CanDelete(S)])
    /\ UNCHANGED <<users, Caches, Setups, userFaults>>

DeleteWrite(r) ==
    LET q == userRequest[r]
        rows == IF q.at = "delete" /\ q.can THEN {u \in q.rows : Exists(u)} ELSE {}
    IN  /\ q.at = "delete"
        /\ users' = [u \in Users |-> IF u \in rows THEN Deleted ELSE users[u]]
        /\ IF rows # {} THEN Enter(r, [at |-> "refresh"]) ELSE Leave(r)
        /\ UNCHANGED <<Caches, Setups, changes, userFaults>>

Raised(U) == [u \in Users |-> IF u \in U THEN [users[u] EXCEPT !.version = @ + 1] ELSE users[u]]

\* UpdateUserProfile, by the user: the cache is not refreshed.
UpdateUserProfile(u) ==
    /\ Exists(u) /\ (users[u].type = "api" => apiCache[u] > 0) /\ Change
    /\ users' = Raised({u})
    /\ unrefreshed' = IF users[u].type = "api" /\ users[u].enabled THEN unrefreshed \cup {"profile"} ELSE unrefreshed
    /\ UNCHANGED <<apiCache, legacyCached, Setups, userRequest, userFaults>>

\* UpdateUserRole, UpdateListRole: what the users of the role may do changes with it.
UpdateRole(r, ofList) ==
    /\ Idle(r) /\ Somebody /\ Change
    /\ users' = Raised({u \in Users : Exists(u) /\ IF ofList THEN users[u].listRole ELSE ~users[u].super})
    /\ Enter(r, [at |-> "refresh"])
    /\ UNCHANGED <<Caches, Setups, userFaults>>

\* DeleteRole: a user role only while nobody has it; with a list role its users are deleted
\* (schema.sql:381-382).
DeleteRole(r, ofList) ==
    LET holders == {u \in Users : Exists(u) /\ IF ofList THEN users[u].listRole ELSE ~users[u].super} IN
    /\ Idle(r) /\ Somebody /\ Change
    /\ ofList \/ holders = {}
    /\ users' = [u \in Users |-> IF u \in holders THEN Deleted ELSE users[u]]
    /\ Enter(r, [at |-> "refresh"])
    /\ UNCHANGED <<Caches, Setups, userFaults>>

\* Variant: disabled users stay in the cache.
CachedAll(u) == IF Exists(u) /\ users[u].type = "api" THEN users[u].version ELSE 0

\* What cacheUsers caches of a row.
Cached(u) == IF Exists(u) /\ users[u].type = "api" /\ users[u].enabled THEN users[u].version ELSE 0

\* cacheUsers, after every request above: reads the table ...
ReadUsers(r) ==
    /\ userRequest[r].at = "refresh"
    /\ Enter(r, [at |-> "store", read |-> [u \in Users |-> Cached(u)]])
    /\ UNCHANGED <<users, Caches, Setups, changes, userFaults>>

\* ... and replaces the cache, with it the entry that is not from the table (CacheAPIUsers).
StoreUsers(r) ==
    /\ userRequest[r].at = "store"
    /\ apiCache' = userRequest[r].read /\ legacyCached' = FALSE
    /\ unrefreshed' = IF r \in overtaken THEN unrefreshed \cup {"overtaken"} ELSE {}
    /\ Leave(r)
    /\ UNCHANGED <<users, Setups, changes, userFaults>>

\* A statement after the write fails: the request ends without the refresh.
RefreshFails(r) ==
    /\ userRequest[r].at = "refresh" /\ UserFault
    /\ unrefreshed' = unrefreshed \cup {"failed"}
    /\ Leave(r)
    /\ UNCHANGED <<users, apiCache, legacyCached, Setups, changes>>

-----------------------------------------------------------------------------
(* First-time setup.                                                       *)

\* LoginPage: reads the flag ...
SetupOpen(r) ==
    /\ Idle(r) /\ needsUserSetup /\ Change
    /\ Enter(r, [at |-> "setup"])
    /\ UNCHANGED <<users, Caches, Setups, userFaults>>

\* ... doFirstTimeSetup: makes the super admin, and the role if there is none ...
SetupCreate(r, u) ==
    /\ userRequest[r].at = "setup" /\ Free(u)
    /\ users' = [users EXCEPT ![u] =
          Versioned([type |-> "user", super |-> TRUE, enabled |-> TRUE, listRole |-> FALSE])]
    /\ setupUsers' = setupUsers \cup {u}
    /\ Enter(r, [at |-> "setupLogin", user |-> u])
    /\ UNCHANGED <<Caches, needsUserSetup, setupBroken, changes, userFaults>>

\* ... or fails to, as for a name that is taken ...
SetupRefused(r) ==
    /\ userRequest[r].at = "setup"
    /\ Leave(r) /\ UNCHANGED <<users, Caches, Setups, changes, userFaults>>

\* ... logs the user in ...
SetupLogin(r) ==
    LET u == userRequest[r].user IN
    /\ userRequest[r].at = "setupLogin"
    /\ \/ /\ Exists(u) /\ users[u].enabled
          /\ Enter(r, [at |-> "setupClear"]) /\ UNCHANGED <<setupBroken, userFaults>>
       \/ /\ IF Exists(u) /\ users[u].version = 1 THEN UserFault ELSE UNCHANGED userFaults
          /\ Leave(r) /\ setupBroken' = TRUE
    /\ UNCHANGED <<users, Caches, needsUserSetup, setupUsers, changes>>

\* Variant: the flag stays.
SetupDoneKeeps == needsUserSetup

\* The flag after a setup.
SetupDone == FALSE

\* ... and clears the flag (LoginSetupPage).
SetupClear(r) ==
    /\ userRequest[r].at = "setupClear"
    /\ needsUserSetup' = SetupDone
    /\ Leave(r)
    /\ UNCHANGED <<users, Caches, setupUsers, setupBroken, changes, userFaults>>

-----------------------------------------------------------------------------

\* The process ends and starts again: initAuth fills the cache, and asks for a setup if
\* there is no user.
RestartAccounts ==
    /\ UserFault
    /\ userRequest' = [r \in UserRequests |-> NoRequest]
    /\ apiCache' = [u \in Users |-> Cached(u)] /\ legacyCached' = LegacyAdmin /\ unrefreshed' = {}
    /\ needsUserSetup' = (~EnvAdmin /\ \A u \in Users : users[u].type # "user")
    /\ UNCHANGED <<users, setupUsers, setupBroken, changes>>

AccountRequest(r) ==
    \/ \E u \in Users, a \in NewUsers : CreateUser(r, u, a)
    \/ \E u \in Users, e \in Edits : UpdateBegin(r, u, e)
    \/ \E S \in SUBSET Users : DeleteBegin(r, S)
    \/ \E b \in BOOLEAN : UpdateRole(r, b) \/ DeleteRole(r, b)
    \/ UpdateWrite(r) \/ DeleteWrite(r)
    \/ ReadUsers(r) \/ StoreUsers(r) \/ RefreshFails(r)
    \/ SetupOpen(r) \/ SetupRefused(r) \/ SetupLogin(r) \/ SetupClear(r)
    \/ \E u \in Users : SetupCreate(r, u)

Reading == {r \in UserRequests : userRequest[r].at = "store"}
AccountsNext ==
    /\ \/ \E r \in UserRequests : AccountRequest(r)
       \/ \E u \in Users : UpdateUserProfile(u) \/ \E b \in BOOLEAN : CreateOIDCUser(u, b)
       \/ RestartAccounts
    /\ overtaken' = (IF users' # users THEN overtaken \cup Reading ELSE overtaken) \cap Reading'

-----------------------------------------------------------------------------
(* What is checked.                                                        *)

AccountsTypeOK ==
    /\ \A u \in Users : Exists(u) =>
         /\ users[u].type \in {"user", "api"} /\ users[u].version \in Nat
         /\ {users[u].super, users[u].enabled, users[u].listRole} \subseteq BOOLEAN
    /\ apiCache \in [Users -> Nat]
    /\ needsUserSetup => ~EnvAdmin
    /\ legacyCached => LegacyAdmin
    /\ overtaken \subseteq UserRequests

\* The last enabled super admin is lost only in three ways: an update makes an API user of
\* it, the list role it has is deleted, or its statement overlapped another and would be
\* refused by now (queries/users.sql:16-25, 50-54, schema.sql:382).
SuperAdminKept ==
    [][Supers # {} /\ Supers' = {} =>
         \/ \E r \in UserRequests : LET q == userRequest[r] IN
               UpdateWrite(r) /\ (q.edit.type = "api" \/ ~CanEdit(q.user, q.edit))
         \/ \E r \in UserRequests : DeleteWrite(r) /\ ~CanDelete(userRequest[r].rows)
         \/ \E r \in UserRequests : DeleteRole(r, TRUE)]_accountsVars

\* When no request has its refresh before it, the cache holds the enabled API users as they
\* are in the table; unless a refresh failed, an API user changed its own profile, or the
\* refresh that came last had read the table before another request changed it
\* (cmd/users.go:98-101, 235-280, 348-371, internal/auth/auth.go:117-128).
CacheFresh ==
    unrefreshed = {} /\ (\A r \in UserRequests : userRequest[r].at \notin {"refresh", "store"})
        => \A u \in Users :
             apiCache[u] = IF Exists(u) /\ users[u].type = "api" /\ users[u].enabled
                           THEN users[u].version ELSE 0

\* Once a setup has made its user the setup page is not shown again, also after a restart;
\* except while that setup is still logging its user in, or if it failed to. Left out are
\* users that an edit made API users of: a restart asks for a setup when those are all there
\* are, and a later edit may make a user of one again
\* (cmd/auth.go:70-105, 528-593, init.go:1188-1199).
SetupEnds ==
    needsUserSetup /\ (\E u \in setupUsers : users[u].type = "user") =>
        setupBroken \/ \E r \in UserRequests : userRequest[r].at \in {"setupLogin", "setupClear"}
=============================================================================
