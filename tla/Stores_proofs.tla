----------------------------- MODULE Stores_proofs -----------------------------
(***************************************************************************)
(* The inductive invariants of the services that keep rows and copies of   *)
(* them: Accounts, Templates, Media, Upgrade; for any number of requests   *)
(* and processes. Services_proofs makes theorems of Services of them.      *)
(*                                                                         *)
(* Accounts: the cache of API users is current, or a request is to read or *)
(* to store the table, or a flag says why not. Templates: the last request *)
(* to change a row holds what it wrote, so that the copy it makes is the   *)
(* row. Media: the names that requests are at are not those of rows, but   *)
(* for names that crossed. Upgrade: what is recorded was applied, and a    *)
(* database that nobody disturbed is what its statements make of it, each  *)
(* run once.                                                               *)
(***************************************************************************)
EXTENDS Accounts, Templates, Media, Upgrade, FiniteSetTheorems, TLAPS


-----------------------------------------------------------------------------
(* Accounts.                                                               *)

RowType ==
    {Unused, Deleted}
      \cup [type : {"user", "api"}, super : BOOLEAN, enabled : BOOLEAN, listRole : BOOLEAN, version : Nat]
UserRequestType ==
    [at : {"idle", "refresh", "setup", "setupClear"}]
      \cup [at : {"update"}, user : Users, edit : Edits, can : BOOLEAN]
      \cup [at : {"delete"}, rows : SUBSET Users, can : BOOLEAN]
      \cup [at : {"store"}, read : [Users -> Nat]] \cup [at : {"setupLogin"}, user : Users]

AccountsTyped ==
    /\ users \in [Users -> RowType] /\ apiCache \in [Users -> Nat]
    /\ userRequest \in [UserRequests -> UserRequestType]
    /\ needsUserSetup \in BOOLEAN /\ (needsUserSetup => ~EnvAdmin)
    /\ legacyCached \in BOOLEAN /\ (legacyCached => LegacyAdmin)
    /\ overtaken \subseteq Reading

CachedRows == [u \in Users |-> Cached(u)]

\* Who read the table and was not overtaken read it as it is.
ReadInv == \A r \in Reading \ overtaken : userRequest[r].read = CachedRows

CacheInv ==
    unrefreshed = {} /\ (\A r \in UserRequests : userRequest[r].at \notin {"refresh", "store"})
        => apiCache = CachedRows

\* The users of a setup stay users until they are deleted.
SetupInv ==
    /\ setupUsers \subseteq Users
    /\ \A u \in setupUsers : users[u].type \in {"user", "deleted"}

AccountsInv == AccountsTyped /\ ReadInv /\ CacheInv /\ SetupInv /\ SetupEnds

\* What a row is.
LEMMA RowFacts ==
    ASSUME AccountsTyped, NEW u \in Users
    PROVE  /\ users[u] \in RowType
           /\ Exists(u) <=> users[u].type \in {"user", "api"}
           /\ Free(u) <=> users[u].type = "unused"
           /\ users[u] = Deleted <=> users[u].type = "deleted"
           /\ Exists(u) => /\ {users[u].super, users[u].enabled, users[u].listRole} \subseteq BOOLEAN
                           /\ users[u].version \in Nat
           /\ Cached(u) \in Nat
           /\ users[u].type = "user" => Cached(u) = 0
           /\ ~Exists(u) => Cached(u) = 0
<1>1. users[u] \in RowType
    BY DEF AccountsTyped
<1>2. Unused.type = "unused" /\ Deleted.type = "deleted"
    BY DEF Unused, Deleted
<1>3. /\ Exists(u) <=> users[u].type \in {"user", "api"}
      /\ Free(u) <=> users[u].type = "unused"
      /\ users[u] = Deleted <=> users[u].type = "deleted"
    BY <1>1, <1>2 DEF RowType, Exists, Free
<1>4. Exists(u) => users[u] \in [type : {"user", "api"}, super : BOOLEAN, enabled : BOOLEAN,
                                 listRole : BOOLEAN, version : Nat]
    BY <1>1 DEF Exists, RowType
<1>5. Exists(u) => /\ {users[u].super, users[u].enabled, users[u].listRole} \subseteq BOOLEAN
                   /\ users[u].version \in Nat
    BY <1>4
<1> QED
    BY <1>1, <1>3, <1>5 DEF Cached

\* A request goes on.
LEMMA RequestEnters ==
    ASSUME AccountsTyped, NEW r \in UserRequests, NEW rec \in UserRequestType, Enter(r, rec)
    PROVE  /\ userRequest' \in [UserRequests -> UserRequestType] /\ userRequest'[r] = rec
           /\ \A o \in UserRequests \ {r} : userRequest'[o] = userRequest[o]
           /\ Reading' = (IF rec.at = "store" THEN Reading \cup {r} ELSE Reading \ {r})
<1>1. /\ userRequest' \in [UserRequests -> UserRequestType] /\ userRequest'[r] = rec
      /\ \A o \in UserRequests \ {r} : userRequest'[o] = userRequest[o]
    BY DEF AccountsTyped, Enter
<1> QED
    BY <1>1 DEF Reading

\* The places of a request.
LEMMA PlainRequests ==
    ASSUME NEW pc \in {"idle", "refresh", "setup", "setupClear"}
    PROVE  [at |-> pc] \in UserRequestType /\ [at |-> pc].at = pc
BY DEF UserRequestType

\* What a request holds.
LEMMA UserRequestFacts ==
    ASSUME AccountsTyped, NEW r \in UserRequests
    PROVE  /\ userRequest[r] \in UserRequestType
           /\ userRequest[r].at = "update" => userRequest[r].user \in Users /\ userRequest[r].edit \in Edits
                                              /\ userRequest[r].can \in BOOLEAN
           /\ userRequest[r].at = "delete" => userRequest[r].rows \subseteq Users
           /\ userRequest[r].at = "store" => userRequest[r].read \in [Users -> Nat]
           /\ userRequest[r].at = "setupLogin" => userRequest[r].user \in Users
<1>1. userRequest[r] \in UserRequestType
    BY DEF AccountsTyped
<1> QED
    BY <1>1 DEF UserRequestType

Overtakes == overtaken' = (IF users' # users THEN overtaken \cup Reading ELSE overtaken) \cap Reading'

\* A step that changes rows, or none, in a way that the invariants of the setup allow: who
\* read before is overtaken, or nothing changed; the cache stays as it is, and is behind
\* only when a refresh is to come, or it is said why.
LEMMA RowsGo ==
    ASSUME AccountsInv, Overtakes, users' \in [Users -> RowType],
           UNCHANGED <<apiCache, legacyCached, needsUserSetup>>,
           userRequest' \in [UserRequests -> UserRequestType],
           \A r \in Reading' : r \in Reading /\ userRequest'[r] = userRequest[r],
           \/ \E r \in UserRequests : userRequest'[r].at = "refresh"
           \/ unrefreshed' # {}
           \/ /\ unrefreshed' = unrefreshed /\ CachedRows' = CachedRows
              /\ \A r \in UserRequests : userRequest[r].at \in {"refresh", "store"} => userRequest'[r] = userRequest[r],
           setupUsers' \subseteq Users,
           \A u \in setupUsers' : users'[u].type \in {"user", "deleted"},
           \/ /\ setupBroken => setupBroken'
              /\ \A u \in setupUsers' : users'[u].type = "user" => u \in setupUsers /\ users[u].type = "user"
              /\ \A r \in UserRequests : userRequest[r].at \in {"setupLogin", "setupClear"} =>
                    setupBroken' \/ userRequest'[r].at \in {"setupLogin", "setupClear"}
           \/ \E r \in UserRequests : userRequest'[r].at \in {"setupLogin", "setupClear"}
    PROVE  AccountsInv'
<1>1. AccountsTyped'
    BY DEF AccountsInv, AccountsTyped, Overtakes
<1>2. ReadInv'
    <2>1. CASE users' = users
        <3>1. CachedRows' = CachedRows /\ overtaken' = overtaken \cap Reading'
            BY <2>1 DEF CachedRows, Cached, Exists, Overtakes
        <3>2. \A r \in Reading' \ overtaken' : r \in Reading \ overtaken
            BY <3>1
        <3> QED
            BY <3>1, <3>2 DEF AccountsInv, ReadInv
    <2>2. CASE users' # users
        <3>1. Reading' \ overtaken' = {}
            BY <2>2 DEF Overtakes
        <3> QED
            BY <3>1 DEF ReadInv
    <2> QED
        BY <2>1, <2>2
<1>3. CacheInv'
    BY DEF AccountsInv, CacheInv
<1>4. SetupInv'
    BY DEF SetupInv
<1>5. SetupEnds'
    BY DEF AccountsInv, SetupEnds
<1> QED
    BY <1>1, <1>2, <1>3, <1>4, <1>5 DEF AccountsInv

\* The rows that a request makes.
LEMMA VersionedRow ==
    ASSUME NEW a \in Account
    PROVE  Versioned(a) \in RowType /\ Versioned(a).type = a.type
BY DEF Account, Versioned, RowType

\* Requests that write rows in one statement: the refresh comes next.
LEMMA WriteKeeps ==
    ASSUME AccountsInv, Overtakes, NEW r \in UserRequests, userRequest[r].at \notin {"setupLogin", "setupClear"},
           Enter(r, [at |-> "refresh"]), users' \in [Users -> RowType],
           UNCHANGED <<apiCache, legacyCached, needsUserSetup, setupBroken>>,
           setupUsers' \subseteq setupUsers,
           \A u \in setupUsers' : users'[u].type \in {users[u].type, "deleted"} \/ (users[u].type = "user" /\ users'[u].type = "user")
    PROVE  AccountsInv'
<1>1. [at |-> "refresh"] \in UserRequestType
    BY PlainRequests
<1>2. /\ userRequest' \in [UserRequests -> UserRequestType] /\ userRequest'[r] = [at |-> "refresh"]
      /\ \A o \in UserRequests \ {r} : userRequest'[o] = userRequest[o]
    BY <1>1, RequestEnters DEF AccountsInv
<1>3. Reading' \subseteq Reading /\ r \notin Reading'
    BY <1>2 DEF Reading
<1>4. \E o \in UserRequests : userRequest'[o].at = "refresh"
    BY <1>2
<1>5. setupUsers' \subseteq Users /\ \A u \in setupUsers' : users'[u].type \in {"user", "deleted"}
    BY DEF AccountsInv, SetupInv
<1>6. \A u \in setupUsers' : users'[u].type = "user" => u \in setupUsers /\ users[u].type = "user"
    BY DEF AccountsInv, SetupInv
<1>7. \A o \in UserRequests : userRequest[o].at \in {"setupLogin", "setupClear"} =>
          userRequest'[o].at \in {"setupLogin", "setupClear"}
    BY <1>2
<1>8. \A o \in Reading' : o \in Reading /\ userRequest'[o] = userRequest[o]
    BY <1>2, <1>3 DEF Reading
<1> QED
    BY <1>2, <1>4, <1>5, <1>6, <1>7, <1>8, RowsGo

\* A request goes from one place to another, and nothing else changes.
LEMMA PlaceKeeps ==
    ASSUME AccountsInv, Overtakes, NEW r \in UserRequests, NEW rec \in UserRequestType, Enter(r, rec),
           rec.at # "store", userRequest[r].at \notin {"refresh", "store"},
           UNCHANGED <<users, apiCache, legacyCached, unrefreshed, needsUserSetup, setupUsers>>,
           setupBroken => setupBroken',
           userRequest[r].at \in {"setupLogin", "setupClear"} =>
               setupBroken' \/ rec.at \in {"setupLogin", "setupClear"}
    PROVE  AccountsInv'
<1>1. /\ userRequest' \in [UserRequests -> UserRequestType] /\ userRequest'[r] = rec
      /\ \A o \in UserRequests \ {r} : userRequest'[o] = userRequest[o]
    BY RequestEnters DEF AccountsInv
<1>2. \A o \in Reading' : o \in Reading /\ userRequest'[o] = userRequest[o]
    BY <1>1 DEF Reading
<1>3. CachedRows' = CachedRows
    BY DEF CachedRows, Cached, Exists
<1>4. \A o \in UserRequests : userRequest[o].at \in {"refresh", "store"} => userRequest'[o] = userRequest[o]
    BY <1>1
<1>5. \A o \in UserRequests : userRequest[o].at \in {"setupLogin", "setupClear"} =>
          setupBroken' \/ userRequest'[o].at \in {"setupLogin", "setupClear"}
    BY <1>1
<1>6. /\ setupUsers' \subseteq Users /\ users' \in [Users -> RowType]
      /\ \A u \in setupUsers' : users'[u].type \in {"user", "deleted"}
      /\ \A u \in setupUsers' : users'[u].type = "user" => u \in setupUsers /\ users[u].type = "user"
    BY DEF AccountsInv, SetupInv, AccountsTyped
<1> QED
    BY <1>1, <1>2, <1>3, <1>4, <1>5, <1>6, RowsGo

\* A row's version counts up.
LEMMA RaisedRows ==
    ASSUME AccountsTyped, NEW U \in SUBSET Users, \A u \in U : Exists(u)
    PROVE  Raised(U) \in [Users -> RowType] /\ \A u \in Users : Raised(U)[u].type = users[u].type
                /\ (u \notin U => Raised(U)[u] = users[u])
                /\ (u \in U => Raised(U)[u] = [users[u] EXCEPT !.version = @ + 1])
<1>1. ASSUME NEW u \in U
      PROVE  /\ [users[u] EXCEPT !.version = @ + 1] \in RowType
             /\ [users[u] EXCEPT !.version = @ + 1].type = users[u].type
    <2>1. users[u] \in [type : {"user", "api"}, super : BOOLEAN, enabled : BOOLEAN, listRole : BOOLEAN,
                        version : Nat]
        BY <1>1 DEF AccountsTyped, RowType, Exists
    <2>2. PICK row : row = users[u] /\ row \in [type : {"user", "api"}, super : BOOLEAN, enabled : BOOLEAN,
                        listRole : BOOLEAN, version : Nat]
        BY <2>1
    <2>3. row.version + 1 \in Nat
        BY <2>2
    <2> QED
        BY <2>2, <2>3 DEF RowType
<1>2. \A u \in Users : users[u] \in RowType
    BY DEF AccountsTyped
<1> QED
    BY <1>1, <1>2 DEF Raised

\* The edited row, whatever the form leaves out.
LEMMA EditedRow ==
    ASSUME NEW a \in RowType, a \notin {Unused, Deleted}, NEW e \in Edit
    PROVE  /\ Edited(a, e) \in RowType /\ Edited(a, e) \notin {Unused, Deleted}
           /\ e.type \in {"user", "api"} => Edited(a, e).type = e.type
           /\ e.type \notin {"user", "api"} => Edited(a, e).type = a.type
           /\ e.role = "super" => Edited(a, e).super
           /\ e.status = "enabled" => Edited(a, e).enabled
           /\ Edited(a, e).version # 0
<1>1. a \in [type : {"user", "api"}, super : BOOLEAN, enabled : BOOLEAN, listRole : BOOLEAN, version : Nat]
    BY DEF RowType
<1>2. e.type \in {"", "user", "api"} /\ e.role \in {"", "super", "other"} /\ e.status \in {"", "enabled", "disabled"}
      /\ e.listRole \in {"", "none", "given"}
    BY Zenon DEF Edit
<1>3. a.version + 1 \in Nat /\ a.version + 1 # 0
    BY <1>1
<1>4. PICK type, super, enabled, listRole :
        /\ type = (IF e.type # "" THEN e.type ELSE a.type)
        /\ super = (IF e.role # "" THEN e.role = "super" ELSE a.super)
        /\ enabled = (IF e.status # "" THEN e.status = "enabled" ELSE a.enabled)
        /\ listRole = (IF e.listRole # "" THEN e.listRole = "given" ELSE a.listRole)
    BY Zenon
<1>5. a.type \in {"user", "api"} /\ {a.super, a.enabled, a.listRole} \subseteq BOOLEAN
    BY <1>1
<1>6. type \in {"user", "api"} /\ super \in BOOLEAN /\ enabled \in BOOLEAN /\ listRole \in BOOLEAN
    BY <1>2, <1>4, <1>5, Zenon
<1>7. /\ e.type \in {"user", "api"} => type = e.type
      /\ e.type \notin {"user", "api"} => type = a.type
      /\ e.role = "super" => super
      /\ e.status = "enabled" => enabled
    BY <1>2, <1>4, Zenon
<1>8. Edited(a, e) = [type |-> type, super |-> super, enabled |-> enabled, listRole |-> listRole,
                      version |-> a.version + 1]
    BY <1>4, Zenon DEF Edited
<1>9. /\ [type |-> type, super |-> super, enabled |-> enabled, listRole |-> listRole, version |-> a.version + 1] \in RowType
      /\ Unused.version = 0 /\ Deleted.version = 0
    BY <1>3, <1>6 DEF RowType, Unused, Deleted
<1>10. /\ Edited(a, e).type = type /\ Edited(a, e).super = super /\ Edited(a, e).enabled = enabled
       /\ Edited(a, e).version = a.version + 1
    BY <1>8
<1> QED
    BY <1>3, <1>7, <1>8, <1>9, <1>10

\* The statements of requests that write at once.
LEMMA StatementsKeep ==
    ASSUME AccountsInv, Overtakes, NEW r \in UserRequests,
           \/ \E u \in Users, a \in NewUsers : CreateUser(r, u, a)
           \/ \E b \in BOOLEAN : UpdateRole(r, b) \/ DeleteRole(r, b)
    PROVE  AccountsInv'
<1>0. AccountsTyped /\ SetupInv
    BY DEF AccountsInv
<1>1. ASSUME NEW u \in Users, NEW a \in NewUsers, CreateUser(r, u, a)
      PROVE  AccountsInv'
    <2>1. Versioned(a) \in RowType
        BY VersionedRow, AccountsAssumption
    <2>2. users' = [users EXCEPT ![u] = Versioned(a)] /\ users[u].type = "unused"
        BY <1>0, <1>1, RowFacts DEF CreateUser
    <2>3. users' \in [Users -> RowType]
        BY <1>0, <2>1, <2>2 DEF AccountsTyped
    <2>4. u \notin setupUsers
        BY <1>0, <2>2 DEF SetupInv
    <2>5. \A w \in setupUsers : users'[w] = users[w]
        BY <1>0, <2>2, <2>4 DEF AccountsTyped, SetupInv
    <2>6. /\ userRequest[r].at \notin {"setupLogin", "setupClear"} /\ Enter(r, [at |-> "refresh"])
          /\ UNCHANGED <<apiCache, legacyCached, needsUserSetup, setupBroken>> /\ setupUsers' = setupUsers
        BY <1>1 DEF CreateUser, Idle, Caches, Setups
    <2> QED
        BY <2>3, <2>5, <2>6, WriteKeeps
<1>2. ASSUME NEW b \in BOOLEAN, UpdateRole(r, b)
      PROVE  AccountsInv'
    <2>1. PICK U \in SUBSET Users : users' = Raised(U) /\ \A u \in U : Exists(u)
        BY <1>2 DEF UpdateRole
    <2>2. users' \in [Users -> RowType] /\ \A u \in Users : users'[u].type = users[u].type
        BY <1>0, <2>1, RaisedRows
    <2>3. /\ userRequest[r].at \notin {"setupLogin", "setupClear"} /\ Enter(r, [at |-> "refresh"])
          /\ UNCHANGED <<apiCache, legacyCached, needsUserSetup, setupBroken>> /\ setupUsers' = setupUsers
        BY <1>2 DEF UpdateRole, Idle, Caches, Setups
    <2> QED
        BY <1>0, <2>2, <2>3, WriteKeeps DEF SetupInv
<1>3. ASSUME NEW b \in BOOLEAN, DeleteRole(r, b)
      PROVE  AccountsInv'
    <2>1. PICK U \in SUBSET Users : users' = [u \in Users |-> IF u \in U THEN Deleted ELSE users[u]]
        BY <1>3 DEF DeleteRole
    <2>2. Deleted \in RowType /\ Deleted.type = "deleted"
        BY DEF RowType, Deleted
    <2>3. users' \in [Users -> RowType] /\ \A u \in Users : users'[u].type \in {users[u].type, "deleted"}
        BY <1>0, <2>1, <2>2 DEF AccountsTyped
    <2>4. /\ userRequest[r].at \notin {"setupLogin", "setupClear"} /\ Enter(r, [at |-> "refresh"])
          /\ UNCHANGED <<apiCache, legacyCached, needsUserSetup, setupBroken>> /\ setupUsers' = setupUsers
        BY <1>3 DEF DeleteRole, Idle, Caches, Setups
    <2> QED
        BY <1>0, <2>3, <2>4, WriteKeeps DEF SetupInv
<1> QED
    BY <1>1, <1>2, <1>3

\* The writes of requests that began before.
LEMMA UpdateKeeps ==
    ASSUME AccountsInv, Overtakes, NEW r \in UserRequests, UpdateWrite(r)
    PROVE  AccountsInv'
<1> DEFINE q == userRequest[r]
<1>0. AccountsTyped /\ SetupInv
    BY DEF AccountsInv
<1>1. q.at = "update" /\ q.user \in Users /\ q.edit \in Edit /\ users[q.user] \in RowType
    BY <1>0, UserRequestFacts, AccountsAssumption, RowFacts DEF UpdateWrite
<1>2. CASE q.can /\ Exists(q.user)
    <2>1. /\ users' = [users EXCEPT ![q.user] = Edited(users[q.user], q.edit)] /\ Enter(r, [at |-> "refresh"])
          /\ q.edit.type = "api" => setupUsers' = setupUsers \ {q.user}
          /\ q.edit.type # "api" => setupUsers' = setupUsers
          /\ UNCHANGED <<apiCache, legacyCached, needsUserSetup, setupBroken>>
        BY <1>2, Zenon DEF UpdateWrite, Caches
    <2>2. PICK row \in RowType :
            /\ row = Edited(users[q.user], q.edit)
            /\ q.edit.type \in {"user", "api"} => row.type = q.edit.type
            /\ q.edit.type \notin {"user", "api"} => row.type = users[q.user].type
        BY <1>1, <1>2, EditedRow DEF Exists
    <2>3. users' \in [Users -> RowType] /\ users'[q.user] = row /\ \A u \in Users \ {q.user} : users'[u] = users[u]
        BY <1>0, <1>1, <2>1, <2>2 DEF AccountsTyped
    <2>4. users[q.user].type \in {"user", "api"}
        BY <1>0, <1>1, <1>2, RowFacts
    <2>5. q.user \in setupUsers' => users[q.user].type = "user" /\ row.type = "user"
        BY <1>0, <2>1, <2>2, <2>4 DEF SetupInv
    <2>6. \A u \in setupUsers' : users'[u].type \in {users[u].type, "deleted"} \/ (users[u].type = "user" /\ users'[u].type = "user")
        BY <1>0, <2>1, <2>3, <2>5 DEF SetupInv
    <2>7. setupUsers' \subseteq setupUsers
        BY <2>1
    <2> QED
        BY <1>1, <2>1, <2>3, <2>6, <2>7, WriteKeeps
<1>3. CASE ~(q.can /\ Exists(q.user))
    <2>1. Enter(r, NoRequest)
          /\ UNCHANGED <<users, apiCache, legacyCached, unrefreshed, needsUserSetup, setupUsers, setupBroken>>
        BY <1>3 DEF UpdateWrite, Leave, Caches
    <2>2. NoRequest \in UserRequestType /\ NoRequest.at = "idle"
        BY PlainRequests DEF NoRequest
    <2> QED
        BY <1>1, <2>1, <2>2, PlaceKeeps
<1> QED
    BY <1>2, <1>3

\* A deletion, of a row or of none.
LEMMA DeleteWriteKeeps ==
    ASSUME AccountsInv, Overtakes, NEW r \in UserRequests, DeleteWrite(r)
    PROVE  AccountsInv'
<1>0. AccountsTyped /\ SetupInv
    BY DEF AccountsInv
<1>1. PICK U \in SUBSET Users :
        /\ userRequest[r].at = "delete"
        /\ users' = [u \in Users |-> IF u \in U THEN Deleted ELSE users[u]]
        /\ IF U # {} THEN Enter(r, [at |-> "refresh"]) ELSE Leave(r)
        /\ UNCHANGED <<Caches, Setups>>
    <2> DEFINE q == userRequest[r]
               U == IF q.at = "delete" /\ q.can THEN {u \in q.rows : Exists(u)} ELSE {}
    <2>1. q.at = "delete" /\ q.rows \subseteq Users
        BY <1>0, UserRequestFacts DEF DeleteWrite
    <2>2. U \in SUBSET Users
        BY <2>1
    <2> QED
        BY <2>1, <2>2, Zenon DEF DeleteWrite
<1>2. Deleted \in RowType /\ Deleted.type = "deleted"
    BY DEF RowType, Deleted
<1>3. users' \in [Users -> RowType] /\ \A u \in Users : users'[u].type \in {users[u].type, "deleted"}
    BY <1>0, <1>1, <1>2 DEF AccountsTyped
<1>4. UNCHANGED <<apiCache, legacyCached, unrefreshed, needsUserSetup, setupUsers, setupBroken>>
    BY <1>1 DEF Caches, Setups
<1>5. CASE U # {}
    BY <1>0, <1>1, <1>3, <1>4, <1>5, WriteKeeps DEF SetupInv
<1>6. CASE U = {}
    <2>1. users' = users
        BY <1>0, <1>1, <1>6 DEF AccountsTyped
    <2>2. NoRequest \in UserRequestType /\ NoRequest.at = "idle"
        BY PlainRequests DEF NoRequest
    <2> QED
        BY <1>1, <1>4, <1>6, <2>1, <2>2, PlaceKeeps DEF Leave
<1> QED
    BY <1>5, <1>6

\* A request begins, a setup is opened, refused, goes on or breaks.
LEMMA PlacesKeep ==
    ASSUME AccountsInv, Overtakes, NEW r \in UserRequests,
           \/ \E u \in Users, e \in Edits : UpdateBegin(r, u, e)
           \/ \E S \in SUBSET Users : DeleteBegin(r, S)
           \/ SetupOpen(r) \/ SetupRefused(r) \/ SetupLogin(r)
    PROVE  AccountsInv'
<1>0. NoRequest \in UserRequestType /\ NoRequest.at = "idle"
    BY PlainRequests DEF NoRequest
<1>1. ASSUME NEW u \in Users, NEW e \in Edits, UpdateBegin(r, u, e)
      PROVE  AccountsInv'
    <2>1. PICK can \in BOOLEAN : can = CanEdit(u, e)
        BY Zenon DEF CanEdit
    <2>2. [at |-> "update", user |-> u, edit |-> e, can |-> can] \in UserRequestType
        BY DEF UserRequestType
    <2>3. PICK rec \in UserRequestType : rec = [at |-> "update", user |-> u, edit |-> e, can |-> can]
        BY <2>2
    <2>4. rec.at = "update"
        BY <2>3
    <2>5. /\ Enter(r, rec) /\ userRequest[r].at = "idle"
          /\ UNCHANGED <<users, apiCache, legacyCached, unrefreshed, needsUserSetup, setupUsers, setupBroken>>
        BY <1>1, <2>1, <2>3 DEF UpdateBegin, Idle, Caches, Setups
    <2> QED
        BY <2>4, <2>5, PlaceKeeps
<1>2. ASSUME NEW S \in SUBSET Users, DeleteBegin(r, S)
      PROVE  AccountsInv'
    <2>1. PICK can \in BOOLEAN : can = CanDelete(S)
        BY Zenon DEF CanDelete
    <2>2. [at |-> "delete", rows |-> {u \in S : S = {u}}, can |-> can] \in UserRequestType
        BY DEF UserRequestType
    <2>3. PICK rec \in UserRequestType : rec = [at |-> "delete", rows |-> {u \in S : S = {u}}, can |-> can]
        BY <2>2
    <2>4. rec.at = "delete"
        BY <2>3
    <2>5. /\ Enter(r, rec) /\ userRequest[r].at = "idle"
          /\ UNCHANGED <<users, apiCache, legacyCached, unrefreshed, needsUserSetup, setupUsers, setupBroken>>
        BY <1>2, <2>1, <2>3 DEF DeleteBegin, Idle, Caches, Setups
    <2> QED
        BY <2>4, <2>5, PlaceKeeps
<1>3. CASE SetupOpen(r)
    <2>1. /\ Enter(r, [at |-> "setup"]) /\ userRequest[r].at = "idle"
          /\ UNCHANGED <<users, apiCache, legacyCached, unrefreshed, needsUserSetup, setupUsers, setupBroken>>
        BY <1>3 DEF SetupOpen, Idle, Caches, Setups
    <2>2. [at |-> "setup"] \in UserRequestType /\ [at |-> "setup"].at = "setup"
        BY PlainRequests
    <2> QED
        BY <2>1, <2>2, PlaceKeeps
<1>4. CASE SetupRefused(r)
    <2>1. /\ Enter(r, NoRequest) /\ userRequest[r].at = "setup"
          /\ UNCHANGED <<users, apiCache, legacyCached, unrefreshed, needsUserSetup, setupUsers, setupBroken>>
        BY <1>4 DEF SetupRefused, Leave, Caches, Setups
    <2> QED
        BY <1>0, <2>1, PlaceKeeps
<1>5. CASE SetupLogin(r)
    <2>1. /\ userRequest[r].at = "setupLogin"
          /\ UNCHANGED <<users, apiCache, legacyCached, unrefreshed, needsUserSetup, setupUsers>>
          /\ \/ Enter(r, [at |-> "setupClear"]) /\ UNCHANGED setupBroken
             \/ Enter(r, NoRequest) /\ setupBroken' = TRUE
        BY <1>5 DEF SetupLogin, Leave, Caches
    <2>2. [at |-> "setupClear"] \in UserRequestType /\ [at |-> "setupClear"].at = "setupClear"
        BY PlainRequests
    <2> QED
        BY <1>0, <2>1, <2>2, PlaceKeeps
<1> QED
    BY <1>1, <1>2, <1>3, <1>4, <1>5

\* The setup's user, on its way to a login.
LEMMA SetupKeeps ==
    ASSUME AccountsInv, Overtakes, NEW r \in UserRequests, NEW u \in Users, SetupCreate(r, u)
    PROVE  AccountsInv'
<1>0. AccountsTyped /\ SetupInv /\ users[u].type = "unused"
    BY RowFacts DEF AccountsInv, SetupCreate
<1>1. PICK row \in RowType : users' = [users EXCEPT ![u] = row] /\ row.type = "user"
    <2>1. [type |-> "user", super |-> TRUE, enabled |-> TRUE, listRole |-> FALSE] \in Account
        BY DEF Account
    <2> QED
        BY <2>1, VersionedRow DEF SetupCreate
<1>2. users' \in [Users -> RowType] /\ users'[u] = row /\ \A w \in Users \ {u} : users'[w] = users[w]
    BY <1>0, <1>1 DEF AccountsTyped
<1>3. [at |-> "setupLogin", user |-> u] \in UserRequestType
    BY DEF UserRequestType
<1>4. PICK rec \in UserRequestType : rec = [at |-> "setupLogin", user |-> u]
    BY <1>3
<1>5. /\ Enter(r, rec) /\ rec.at = "setupLogin" /\ userRequest[r].at = "setup" /\ setupUsers' = setupUsers \cup {u}
      /\ UNCHANGED <<apiCache, legacyCached, unrefreshed, needsUserSetup, setupBroken>>
    BY <1>4 DEF SetupCreate, Caches
<1>6. /\ userRequest' \in [UserRequests -> UserRequestType] /\ userRequest'[r] = rec
      /\ \A o \in UserRequests \ {r} : userRequest'[o] = userRequest[o]
    BY <1>0, <1>5, RequestEnters
<1>7. \A o \in Reading' : o \in Reading /\ userRequest'[o] = userRequest[o]
    BY <1>5, <1>6 DEF Reading
<1>8. CachedRows' = CachedRows
    <2>1. Cached(u) = 0 /\ Cached(u)' = 0
        BY <1>0, <1>1, <1>2, RowFacts DEF Cached
    <2>2. \A w \in Users \ {u} : Cached(w)' = Cached(w)
        BY <1>2 DEF Cached, Exists
    <2> QED
        BY <2>1, <2>2 DEF CachedRows
<1>9. \A o \in UserRequests : userRequest[o].at \in {"refresh", "store"} => userRequest'[o] = userRequest[o]
    BY <1>5, <1>6
<1>10. setupUsers' \subseteq Users /\ \A w \in setupUsers' : users'[w].type \in {"user", "deleted"}
    BY <1>0, <1>1, <1>2, <1>5 DEF SetupInv
<1>11. \E o \in UserRequests : userRequest'[o].at \in {"setupLogin", "setupClear"}
    BY <1>5, <1>6
<1> QED
    BY <1>2, <1>5, <1>6, <1>7, <1>8, <1>9, <1>10, <1>11, RowsGo

\* What changes rows without a refresh: a login with OIDC, a user's own profile.
LEMMA AloneKeeps ==
    ASSUME AccountsInv, Overtakes, NEW u \in Users,
           UpdateUserProfile(u) \/ \E b \in BOOLEAN : CreateOIDCUser(u, b)
    PROVE  AccountsInv'
<1>0. AccountsTyped /\ SetupInv
    BY DEF AccountsInv
<1>1. UNCHANGED <<apiCache, legacyCached, needsUserSetup, setupBroken, setupUsers, userRequest>>
    BY DEF UpdateUserProfile, CreateOIDCUser, Caches, Setups
<1>2. /\ userRequest' \in [UserRequests -> UserRequestType]
      /\ \A o \in Reading' : o \in Reading /\ userRequest'[o] = userRequest[o]
    BY <1>0, <1>1 DEF AccountsTyped, Reading
<1>3. CASE UpdateUserProfile(u)
    <2>1. users' = Raised({u}) /\ Exists(u)
        BY <1>3 DEF UpdateUserProfile
    <2>2. users' \in [Users -> RowType] /\ \A w \in Users : users'[w].type = users[w].type
          /\ (w # u => users'[w] = users[w])
        BY <1>0, <2>1, RaisedRows
    <2>3. \/ unrefreshed' # {}
          \/ unrefreshed' = unrefreshed /\ ~(users[u].type = "api" /\ users[u].enabled)
        BY <1>3 DEF UpdateUserProfile
    <2>4. ~(users[u].type = "api" /\ users[u].enabled) => CachedRows' = CachedRows
        <3> SUFFICES ASSUME ~(users[u].type = "api" /\ users[u].enabled) PROVE CachedRows' = CachedRows
            OBVIOUS
        <3>1. users[u] \in [type : {"user", "api"}, super : BOOLEAN, enabled : BOOLEAN, listRole : BOOLEAN,
                            version : Nat]
            BY <1>0, <2>1 DEF AccountsTyped, RowType, Exists
        <3>2. users'[u] = [users[u] EXCEPT !.version = @ + 1]
            BY <1>0, <2>1, RaisedRows
        <3>3. users'[u].type = users[u].type /\ users'[u].enabled = users[u].enabled
            BY <3>1, <3>2
        <3>4. Cached(u) = 0 /\ Cached(u)' = 0
            BY <3>3 DEF Cached
        <3>5. \A w \in Users \ {u} : Cached(w)' = Cached(w)
            BY <2>2 DEF Cached, Exists
        <3> QED
            BY <3>4, <3>5 DEF CachedRows
    <2>5. /\ setupUsers' \subseteq Users /\ \A w \in setupUsers' : users'[w].type \in {"user", "deleted"}
          /\ \A w \in setupUsers' : users'[w].type = "user" => w \in setupUsers /\ users[w].type = "user"
        BY <1>0, <1>1, <2>2 DEF SetupInv
    <2> QED
        BY <1>1, <1>2, <2>2, <2>3, <2>4, <2>5, RowsGo
<1>4. ASSUME NEW b \in BOOLEAN, CreateOIDCUser(u, b)
      PROVE  AccountsInv'
    <2>1. PICK row \in RowType : users' = [users EXCEPT ![u] = row] /\ row.type = "user"
        <3>1. [type |-> "user", super |-> b, enabled |-> TRUE, listRole |-> FALSE] \in Account
            BY DEF Account
        <3> QED
            BY <1>4, <3>1, VersionedRow DEF CreateOIDCUser
    <2>2. users' \in [Users -> RowType] /\ users'[u] = row /\ \A w \in Users \ {u} : users'[w] = users[w]
        BY <1>0, <2>1 DEF AccountsTyped
    <2>3. users[u].type = "unused" /\ u \notin setupUsers /\ unrefreshed' = unrefreshed
        BY <1>0, <1>4, RowFacts DEF CreateOIDCUser, SetupInv, Caches
    <2>4. CachedRows' = CachedRows
        <3>1. Cached(u) = 0 /\ Cached(u)' = 0
            BY <1>0, <2>1, <2>2, <2>3, RowFacts DEF Cached
        <3>2. \A w \in Users \ {u} : Cached(w)' = Cached(w)
            BY <2>2 DEF Cached, Exists
        <3> QED
            BY <3>1, <3>2 DEF CachedRows
    <2>5. /\ setupUsers' \subseteq Users /\ \A w \in setupUsers' : users'[w].type \in {"user", "deleted"}
          /\ \A w \in setupUsers' : users'[w].type = "user" => w \in setupUsers /\ users[w].type = "user"
        BY <1>0, <1>1, <2>2, <2>3 DEF SetupInv
    <2> QED
        BY <1>1, <1>2, <2>2, <2>3, <2>4, <2>5, RowsGo
<1> QED
    BY <1>3, <1>4

\* The cache of API users is refreshed, or the refresh fails.
LEMMA RefreshKeeps ==
    ASSUME AccountsInv, Overtakes, NEW r \in UserRequests,
           ReadUsers(r) \/ StoreUsers(r) \/ RefreshFails(r)
    PROVE  AccountsInv'
<1>0. AccountsTyped /\ ReadInv /\ CacheInv /\ SetupInv /\ SetupEnds
    BY DEF AccountsInv
<1>1. /\ UNCHANGED <<users, needsUserSetup, setupUsers, setupBroken>> /\ CachedRows' = CachedRows
      /\ userRequest[r].at \in {"refresh", "store"} /\ overtaken' = overtaken \cap Reading'
    BY DEF ReadUsers, StoreUsers, RefreshFails, Setups, CachedRows, Cached, Exists, Overtakes
<1>2. PICK rec \in UserRequestType :
        /\ Enter(r, rec) /\ rec.at \in {"idle", "store"}
        /\ rec.at = "store" => rec.read = CachedRows /\ userRequest[r].at = "refresh"
                               /\ UNCHANGED <<apiCache, legacyCached, unrefreshed>>
        /\ rec.at = "idle" => \/ UNCHANGED <<apiCache, legacyCached>> /\ unrefreshed' # {}
                              \/ /\ apiCache' = userRequest[r].read /\ legacyCached' = FALSE
                                 /\ userRequest[r].at = "store"
                                 /\ r \in overtaken => unrefreshed' # {}
    <2>1. CASE ReadUsers(r)
        <3>1. CachedRows \in [Users -> Nat]
            BY <1>0, RowFacts DEF CachedRows
        <3>2. [at |-> "store", read |-> CachedRows] \in UserRequestType
            BY <3>1 DEF UserRequestType
        <3>3. PICK rec \in UserRequestType : rec = [at |-> "store", read |-> CachedRows]
            BY <3>2
        <3>4. rec.at = "store" /\ rec.read = CachedRows
            BY <3>3
        <3>5. Enter(r, rec) /\ userRequest[r].at = "refresh" /\ UNCHANGED <<apiCache, legacyCached, unrefreshed>>
            BY <2>1, <3>3 DEF ReadUsers, CachedRows, Caches
        <3> QED
            BY <3>4, <3>5
    <2>2. NoRequest \in UserRequestType /\ NoRequest.at = "idle"
        BY PlainRequests DEF NoRequest
    <2>3. CASE StoreUsers(r)
        <3>1. /\ apiCache' = userRequest[r].read /\ legacyCached' = FALSE /\ userRequest[r].at = "store"
              /\ Enter(r, NoRequest) /\ (r \in overtaken => unrefreshed' # {})
            BY <2>3 DEF StoreUsers, Leave
        <3> QED
            BY <2>2, <3>1
    <2>4. CASE RefreshFails(r)
        <3>1. UNCHANGED <<apiCache, legacyCached>> /\ unrefreshed' # {} /\ Enter(r, NoRequest)
            BY <2>4 DEF RefreshFails, Leave
        <3> QED
            BY <2>2, <3>1
    <2> QED
        BY <2>1, <2>3, <2>4
<1>3. /\ userRequest' \in [UserRequests -> UserRequestType] /\ userRequest'[r] = rec
      /\ \A o \in UserRequests \ {r} : userRequest'[o] = userRequest[o]
    BY <1>0, <1>2, RequestEnters
<1>4. AccountsTyped'
    <2>1. apiCache' \in [Users -> Nat] /\ legacyCached' \in BOOLEAN /\ (legacyCached' => LegacyAdmin)
        <3>1. userRequest[r].at = "store" => userRequest[r].read \in [Users -> Nat]
            BY <1>0, UserRequestFacts
        <3>2. \/ UNCHANGED <<apiCache, legacyCached>>
              \/ apiCache' \in [Users -> Nat] /\ legacyCached' = FALSE
            BY <1>2, <3>1
        <3>3. apiCache \in [Users -> Nat] /\ legacyCached \in BOOLEAN /\ (legacyCached => LegacyAdmin)
            BY <1>0 DEF AccountsTyped
        <3>4. CASE UNCHANGED <<apiCache, legacyCached>>
            <4>1. apiCache' = apiCache /\ legacyCached' = legacyCached
                BY <3>4
            <4> QED
                BY <3>3, <4>1, Zenon
        <3>5. CASE apiCache' \in [Users -> Nat] /\ legacyCached' = FALSE
            BY <3>5, Zenon
        <3> QED
            BY <3>2, <3>4, <3>5
    <2> QED
        BY <1>0, <1>1, <1>3, <2>1 DEF AccountsTyped
<1>5. ReadInv'
    <2> SUFFICES ASSUME NEW o \in Reading' \ overtaken' PROVE userRequest'[o].read = CachedRows
        BY <1>1 DEF ReadInv
    <2>1. o \in UserRequests /\ userRequest'[o].at = "store"
        BY DEF Reading
    <2>2. CASE o = r
        BY <1>2, <1>3, <2>1, <2>2
    <2>3. CASE o # r
        <3>1. o \in Reading \ overtaken /\ userRequest'[o] = userRequest[o]
            BY <1>1, <1>3, <2>1, <2>3 DEF Reading
        <3> QED
            BY <1>0, <3>1 DEF ReadInv
    <2> QED
        BY <2>2, <2>3
<1>6. CacheInv'
    <2>1. CASE rec.at = "store"
        BY <1>3, <2>1 DEF CacheInv
    <2>2. CASE rec.at = "idle"
        <3>1. CASE r \in Reading \ overtaken /\ apiCache' = userRequest[r].read
            BY <1>0, <1>1, <3>1 DEF ReadInv, CacheInv
        <3>2. CASE unrefreshed' # {}
            BY <3>2 DEF CacheInv
        <3>3. \/ r \in Reading \ overtaken /\ apiCache' = userRequest[r].read
              \/ unrefreshed' # {}
            BY <1>2, <2>2 DEF Reading
        <3> QED
            BY <3>1, <3>2, <3>3
    <2> QED
        BY <1>2, <2>1, <2>2
<1>7. SetupInv'
    BY <1>0, <1>1 DEF SetupInv
<1>8. SetupEnds'
    BY <1>0, <1>1, <1>3 DEF SetupEnds
<1> QED
    BY <1>4, <1>5, <1>6, <1>7, <1>8 DEF AccountsInv

\* The setup is over, or the process starts again: from then on the flag says what the table does.
LEMMA FlagKeeps ==
    ASSUME AccountsInv, Overtakes, RestartAccounts \/ \E r \in UserRequests : SetupClear(r)
    PROVE  AccountsInv'
<1>0. /\ AccountsTyped /\ ReadInv /\ CacheInv /\ SetupInv
      /\ NoRequest \in UserRequestType /\ NoRequest.at = "idle"
    BY PlainRequests DEF AccountsInv, NoRequest
<1>1. UNCHANGED <<users, setupUsers>> /\ CachedRows' = CachedRows /\ overtaken' = overtaken \cap Reading'
    BY DEF RestartAccounts, SetupClear, CachedRows, Cached, Exists, Overtakes
<1>2. SetupInv'
    BY <1>0, <1>1 DEF SetupInv
<1>3. CASE RestartAccounts
    <2>1. \A r \in UserRequests : userRequest'[r] = NoRequest
        BY <1>3 DEF RestartAccounts
    <2>2. Reading' = {}
        BY <1>0, <2>1 DEF Reading
    <2>3. AccountsTyped'
        <3>1. apiCache' \in [Users -> Nat] /\ userRequest' \in [UserRequests -> UserRequestType]
            BY <1>0, <1>3, RowFacts DEF RestartAccounts
        <3>2. needsUserSetup' \in BOOLEAN /\ (needsUserSetup' => ~EnvAdmin)
            BY <1>3, Zenon DEF RestartAccounts
        <3>3. legacyCached' \in BOOLEAN /\ (legacyCached' => LegacyAdmin)
            BY <1>3, AccountsAssumption DEF RestartAccounts
        <3> QED
            BY <1>0, <1>1, <2>2, <3>1, <3>2, <3>3 DEF AccountsTyped
    <2>4. ReadInv'
        BY <2>2 DEF ReadInv
    <2>5. CacheInv'
        BY <1>1, <1>3 DEF RestartAccounts, CachedRows, CacheInv
    <2>6. SetupEnds'
        <3>1. needsUserSetup' => \A u \in Users : users'[u].type # "user"
            BY <1>1, <1>3 DEF RestartAccounts
        <3> QED
            BY <1>2, <3>1 DEF SetupEnds, SetupInv
    <2> QED
        BY <1>2, <2>3, <2>4, <2>5, <2>6 DEF AccountsInv
<1>4. ASSUME NEW r \in UserRequests, SetupClear(r)
      PROVE  AccountsInv'
    <2>1. /\ Enter(r, NoRequest) /\ needsUserSetup' = FALSE /\ userRequest[r].at = "setupClear"
          /\ UNCHANGED <<apiCache, legacyCached, unrefreshed>>
        BY <1>4 DEF SetupClear, Leave, SetupDone, Caches
    <2>2. /\ userRequest' \in [UserRequests -> UserRequestType] /\ userRequest'[r] = NoRequest
          /\ \A o \in UserRequests \ {r} : userRequest'[o] = userRequest[o]
        BY <1>0, <2>1, RequestEnters
    <2>3. AccountsTyped'
        BY <1>0, <1>1, <2>1, <2>2 DEF AccountsTyped
    <2>4. ReadInv'
        <3>1. \A o \in Reading' \ overtaken' : o \in Reading \ overtaken /\ userRequest'[o] = userRequest[o]
            BY <1>0, <1>1, <2>2 DEF Reading
        <3> QED
            BY <1>0, <1>1, <3>1 DEF ReadInv
    <2>5. CacheInv'
        <3>1. \A o \in UserRequests : userRequest[o].at \in {"refresh", "store"} => userRequest'[o] = userRequest[o]
            BY <2>1, <2>2
        <3> QED
            BY <1>0, <1>1, <2>1, <3>1 DEF CacheInv
    <2>6. SetupEnds'
        BY <2>1 DEF SetupEnds
    <2> QED
        BY <1>2, <2>3, <2>4, <2>5, <2>6 DEF AccountsInv
<1> QED
    BY <1>3, <1>4

\* No row, no request, the flag as the environment has it.
LEMMA AccountsInitInv == AccountsInit => AccountsInv
<1> SUFFICES ASSUME AccountsInit PROVE AccountsInv
    OBVIOUS
<1>1. Unused \in RowType /\ NoRequest \in UserRequestType /\ NoRequest.at = "idle" /\ EnvAdmin \in BOOLEAN
      /\ LegacyAdmin \in BOOLEAN
    BY PlainRequests, AccountsAssumption DEF RowType, NoRequest
<1>2. AccountsTyped
    BY <1>1 DEF AccountsInit, AccountsTyped, NoVersions
<1>3. Reading = {}
    BY <1>1 DEF AccountsInit, Reading
<1>4. \A u \in Users : Cached(u) = 0
    BY DEF AccountsInit, Cached, Exists
<1>5. apiCache = CachedRows
    BY <1>4 DEF AccountsInit, CachedRows, NoVersions
<1>6. setupUsers = {}
    BY DEF AccountsInit
<1> QED
    BY <1>2, <1>3, <1>5, <1>6 DEF AccountsInv, ReadInv, CacheInv, SetupInv, SetupEnds

\* What a step of the accounts does to rows, cache and setup.
LEMMA AccountsNextInv ==
    ASSUME AccountsInv, AccountsNext \/ UNCHANGED accountsVars
    PROVE  AccountsInv'
<1>1. CASE AccountsNext
    <2>1. Overtakes
        BY <1>1 DEF AccountsNext, Overtakes
    <2>2. ASSUME NEW r \in UserRequests, AccountRequest(r) PROVE AccountsInv'
        BY <2>1, <2>2, StatementsKeep, UpdateKeeps, DeleteWriteKeeps, PlacesKeep, SetupKeeps, RefreshKeeps,
           FlagKeeps DEF AccountRequest
    <2> QED
        BY <1>1, <2>1, <2>2, AloneKeeps, FlagKeeps DEF AccountsNext
<1>2. CASE UNCHANGED accountsVars
    <2>1. UNCHANGED <<users, apiCache, legacyCached, needsUserSetup, userRequest, overtaken, unrefreshed, setupUsers,
                      setupBroken>>
        BY <1>2 DEF accountsVars
    <2> QED
        BY <2>1 DEF AccountsInv, AccountsTyped, ReadInv, CacheInv, SetupInv, SetupEnds, Reading, CachedRows, Cached, Exists
<1> QED
    BY <1>1, <1>2

\* The invariant states what is checked of the accounts in a state.
LEMMA AccountsMean == AccountsInv => CacheFresh /\ SetupEnds /\ AccountsTypeOK
<1> SUFFICES ASSUME AccountsInv PROVE CacheFresh /\ SetupEnds /\ AccountsTypeOK
    OBVIOUS
<1>1. CacheFresh
    BY DEF AccountsInv, CacheInv, CacheFresh, CachedRows, Cached
<1>2. AccountsTypeOK
    BY RowFacts DEF AccountsInv, AccountsTyped, AccountsTypeOK, Reading
<1> QED
    BY <1>1, <1>2 DEF AccountsInv

\* A super admin whose row is as it was in what counts is still one.
LEMMA SuperStays ==
    ASSUME NEW w \in Supers, users'[w].type = "user", users'[w].super, users'[w].enabled,
           users'[w] \notin {Unused, Deleted}
    PROVE  Supers' # {}
BY DEF Supers, IsSuper, Exists

\* Only an update, a deletion or the end of a role can take the last super admin.
LEMMA SuperLost ==
    ASSUME AccountsInv, AccountsNext, Supers # {}, Supers' = {}
    PROVE  \/ \E r \in UserRequests : LET q == userRequest[r] IN
                UpdateWrite(r) /\ (q.edit.type = "api" \/ ~CanEdit(q.user, q.edit))
           \/ \E r \in UserRequests : DeleteWrite(r) /\ ~CanDelete(userRequest[r].rows)
           \/ \E r \in UserRequests : DeleteRole(r, TRUE)
<1>0. AccountsTyped /\ SetupInv
    BY DEF AccountsInv
<1>1. \A w \in Supers : /\ w \in Users /\ users[w].type = "user" /\ users[w].super /\ users[w].enabled
                        /\ users[w] \notin {Unused, Deleted}
    BY DEF Supers, IsSuper, Exists
<1>2. \A w \in Supers : users'[w] # users[w]
    BY <1>1, SuperStays
<1>3. PICK w : w \in Supers
    OBVIOUS
<1>4. \A u \in Users : Free(u) => u \notin Supers
    BY <1>1 DEF Free
<1>5. ASSUME NEW u \in Users, NEW row, Free(u), users' = [users EXCEPT ![u] = row] PROVE FALSE
    BY <1>0, <1>1, <1>2, <1>3, <1>4, <1>5 DEF AccountsTyped
<1>6. ASSUME NEW U \in SUBSET Users, users' = Raised(U), \A u \in U : Exists(u) PROVE FALSE
    <2>1. w \in U
        BY <1>0, <1>1, <1>2, <1>3, <1>6, RaisedRows
    <2>2. users'[w] = [users[w] EXCEPT !.version = @ + 1] /\ users'[w] \in RowType
        BY <1>0, <1>1, <1>3, <1>6, <2>1, RaisedRows
    <2>3. users[w] \in [type : {"user", "api"}, super : BOOLEAN, enabled : BOOLEAN, listRole : BOOLEAN, version : Nat]
        BY <1>0, <1>1, <1>3 DEF AccountsTyped, RowType
    <2>4. users'[w].type = users[w].type /\ users'[w].super = users[w].super /\ users'[w].enabled = users[w].enabled
        BY <2>2, <2>3
    <2>5. Unused.type = "unused" /\ Deleted.type = "deleted"
        BY DEF Unused, Deleted
    <2> QED
        BY <1>1, <1>3, <2>4, <2>5, SuperStays
<1>7. ASSUME NEW r \in UserRequests, AccountRequest(r)
      PROVE  \/ UpdateWrite(r) \/ DeleteWrite(r) \/ DeleteRole(r, TRUE)
    <2>1. users' # users
        BY <1>2, <1>3
    <2>2. ASSUME NEW u \in Users, NEW a \in NewUsers, CreateUser(r, u, a) PROVE FALSE
        BY <1>5, <2>2 DEF CreateUser
    <2>3. ASSUME NEW u \in Users, SetupCreate(r, u) PROVE FALSE
        BY <1>5, <2>3 DEF SetupCreate
    <2>4. ASSUME NEW b \in BOOLEAN, UpdateRole(r, b) PROVE FALSE
        BY <1>6, <2>4 DEF UpdateRole
    <2>5. ~DeleteRole(r, FALSE)
        BY <1>0, <2>1 DEF DeleteRole, AccountsTyped
    <2>6. \A u \in Users, e \in Edits : ~UpdateBegin(r, u, e)
        BY <2>1 DEF UpdateBegin
    <2>7. \A S \in SUBSET Users : ~DeleteBegin(r, S)
        BY <2>1 DEF DeleteBegin
    <2>8. ~(ReadUsers(r) \/ StoreUsers(r) \/ RefreshFails(r) \/ SetupOpen(r) \/ SetupRefused(r) \/ SetupLogin(r)
            \/ SetupClear(r))
        BY <2>1 DEF ReadUsers, StoreUsers, RefreshFails, SetupOpen, SetupRefused, SetupLogin, SetupClear
    <2>9. \A b \in BOOLEAN : b = TRUE \/ b = FALSE
        OBVIOUS
    <2> QED
        BY <1>7, <2>2, <2>3, <2>4, <2>5, <2>6, <2>7, <2>8, <2>9, Zenon DEF AccountRequest
<1>8. ~RestartAccounts
    BY <1>2, <1>3 DEF RestartAccounts
<1>9. ASSUME NEW u \in Users, UpdateUserProfile(u) PROVE FALSE
    BY <1>6, <1>9 DEF UpdateUserProfile
<1>10. ASSUME NEW u \in Users, NEW b \in BOOLEAN, CreateOIDCUser(u, b) PROVE FALSE
    BY <1>5, <1>10 DEF CreateOIDCUser
<1>11. PICK r \in UserRequests : UpdateWrite(r) \/ DeleteWrite(r) \/ DeleteRole(r, TRUE)
    BY <1>7, <1>8, <1>9, <1>10 DEF AccountsNext
<1>12. ASSUME UpdateWrite(r)
       PROVE  userRequest[r].edit.type = "api" \/ ~CanEdit(userRequest[r].user, userRequest[r].edit)
    <2> DEFINE q == userRequest[r]
    <2>1. q.user \in Users /\ q.edit \in Edit
        BY <1>0, <1>12, UserRequestFacts, AccountsAssumption DEF UpdateWrite
    <2>2. users' = [users EXCEPT ![q.user] = Edited(users[q.user], q.edit)] /\ Exists(q.user)
        BY <1>2, <1>3, <1>12, Zenon DEF UpdateWrite
    <2>3. users'[q.user] = Edited(users[q.user], q.edit) /\ \A u \in Users \ {q.user} : users'[u] = users[u]
        BY <1>0, <2>1, <2>2 DEF AccountsTyped
    <2>4. Supers = {q.user}
        BY <1>1, <1>2, <1>3, <2>1, <2>3
    <2>5. users[q.user].type = "user" /\ users[q.user] \in RowType /\ users[q.user] \notin {Unused, Deleted}
        BY <1>0, <1>1, <2>1, <2>4, RowFacts
    <2>6. SUFFICES ASSUME CanEdit(q.user, q.edit) PROVE q.edit.type = "api"
        BY Zenon
    <2>7. q.edit.role = "super" /\ q.edit.status = "enabled"
        BY <2>4, <2>6 DEF CanEdit
    <2>8. ASSUME q.edit.type # "api" PROVE FALSE
        <3>1. users'[q.user].type = "user" /\ users'[q.user].super /\ users'[q.user].enabled
              /\ users'[q.user] \notin {Unused, Deleted}
            BY <2>1, <2>3, <2>5, <2>7, <2>8, EditedRow
        <3> QED
            BY <2>4, <3>1, SuperStays
    <2> QED
        BY <2>8
<1>13. ASSUME DeleteWrite(r)
       PROVE  ~CanDelete(userRequest[r].rows)
    <2> DEFINE q == userRequest[r]
               U == IF q.at = "delete" /\ q.can THEN {u \in q.rows : Exists(u)} ELSE {}
    <2>1. users' = [u \in Users |-> IF u \in U THEN Deleted ELSE users[u]] /\ U \subseteq q.rows
        BY <1>13, Zenon DEF DeleteWrite
    <2> HIDE DEF U
    <2>2. \A u \in Supers : u \in U
        BY <1>1, <1>2, <2>1
    <2> QED
        BY <2>1, <2>2 DEF CanDelete
<1> QED
    BY <1>11, <1>12, <1>13

-----------------------------------------------------------------------------
(* Templates.                                                              *)

ContentType == [body : Int, subject : Int]
FormType == {o \in ContentType : o.subject # Blank => o.body >= 0}
TplType == [type : TemplateTypes, body : Int, subject : Int, default : BOOLEAN]
Ids == 1..(nextTpl - 1)

TplReqType(ids) ==
    {NoTplReq} \cup [at : {"read", "cache"}, id : ids, o : FormType] \cup [at : {"delete"}, id : ids]

TplTyped ==
    /\ nextTpl \in 1..(MaxTemplates + 1) /\ tplWrites \in Nat
    /\ tpl \in [TplIds -> TplType] /\ cachedTpl \in [DOMAIN cachedTpl -> ContentType]
    /\ TplIds \cup DOMAIN cachedTpl \cup loose \subseteq Ids /\ superseded \subseteq TplRequests
    /\ tplReq \in [TplRequests -> TplReqType(Ids)]

\* The last request to change a row holds what it wrote, if the form was whole, and knows its
\* type; the last to delete it finds it gone.
ReqRight(r) ==
    r \notin superseded =>
        /\ tplReq[r].at \in {"read", "cache"} =>
             tplReq[r].id \in TplIds /\ (Whole(tplReq[r].o) => Content(tpl[tplReq[r].id]) = tplReq[r].o)
        /\ tplReq[r].at = "cache" => tplReq[r].id \in TxIds
        /\ tplReq[r].at = "delete" => tplReq[r].id \notin TplIds

\* Unless it is loose, a copy is its row.
CopyRight(id) ==
    id \notin loose =>
        /\ id \in DOMAIN cachedTpl <=> id \in TxIds /\ Compiles(id)
        /\ id \in DOMAIN cachedTpl => cachedTpl[id] = Content(tpl[id])

DefaultInv ==
    /\ \A s, t \in Default : s = t
    /\ ~unset => Default # {}
    /\ campaign \in TplIds \cup {0}
    /\ campaign = 0 => unset \/ bare

TemplatesInv ==
    TplTyped /\ DefaultInv /\ (\A r \in TplRequests : ReqRight(r)) /\ \A id \in Nat \ {0} : CopyRight(id)

\* What a step leaves of the copy of an id it has nothing to do with.
LEMMA OtherCopy ==
    ASSUME NEW id, CopyRight(id), id \in loose => id \in loose',
           id \in TplIds' <=> id \in TplIds,
           id \in TplIds => tpl'[id].type = tpl[id].type /\ tpl'[id].body = tpl[id].body
                            /\ tpl'[id].subject = tpl[id].subject,
           id \in DOMAIN cachedTpl' <=> id \in DOMAIN cachedTpl,
           id \in DOMAIN cachedTpl => cachedTpl'[id] = cachedTpl[id]
    PROVE  CopyRight(id)'
<1>1. id \in TxIds' <=> id \in TxIds
    BY DEF TxIds
<1>2. id \in TxIds => id \in TplIds
    BY DEF TxIds
<1>3. id \in TplIds => Content(tpl[id])' = Content(tpl[id]) /\ (Compiles(id)' <=> Compiles(id))
    BY DEF Content, Compiles
<1> QED
    BY <1>1, <1>2, <1>3 DEF CopyRight

\* ... and of a request it has nothing to do with.
LEMMA OtherReq ==
    ASSUME NEW r \in TplRequests, ReqRight(r), r \in superseded => r \in superseded', tplReq'[r] = tplReq[r],
           NEW i, i = tplReq[r].id,
           r \notin superseded' => (i \in TplIds' <=> i \in TplIds),
           r \notin superseded' /\ i \in TplIds => tpl'[i].type = tpl[i].type /\ tpl'[i].body = tpl[i].body
                                                  /\ tpl'[i].subject = tpl[i].subject
    PROVE  ReqRight(r)'
<1>1. CASE r \in superseded'
    BY <1>1 DEF ReqRight
<1>2. CASE r \notin superseded'
    <2>1. i \in TxIds' <=> i \in TxIds
        BY <1>2 DEF TxIds
    <2>2. i \in TplIds => Content(tpl[i])' = Content(tpl[i])
        BY <1>2 DEF Content
    <2>3. Whole(tplReq[r].o)' <=> Whole(tplReq[r].o)
        BY DEF Whole
    <2>4. (tpl[tplReq[r].id])' = tpl'[i] /\ Content(tpl[tplReq[r].id])' = Content(tpl[i])'
        BY DEF Content
    <2> QED
        BY <1>2, <2>1, <2>2, <2>3, <2>4 DEF ReqRight
<1> QED
    BY <1>1, <1>2

\* One request goes on.
LEMMA TplGoes ==
    ASSUME TplTyped, NEW r \in TplRequests, NEW rec, TplGoto(r, rec)
    PROVE  tplReq'[r] = rec /\ \A o \in TplRequests \ {r} : tplReq'[o] = tplReq[o]
BY DEF TplTyped, TplGoto

\* What a request holds.
LEMMA TplReqFacts ==
    ASSUME TplTyped, NEW r \in TplRequests
    PROVE  /\ tplReq[r] \in TplReqType(Ids)
           /\ tplReq[r].at \in {"idle", "read", "cache", "delete"}
           /\ tplReq[r].at = "idle" => tplReq[r].id = 0
           /\ tplReq[r].at # "idle" => tplReq[r].id \in Ids
           /\ tplReq[r].at \in {"read", "cache"} => tplReq[r].o \in FormType
<1>1. tplReq[r] \in TplReqType(Ids)
    BY DEF TplTyped
<1> QED
    BY <1>1 DEF TplReqType, NoTplReq

\* There may be more ids.
LEMMA MoreIds ==
    ASSUME NEW S, NEW T, S \subseteq T
    PROVE  TplReqType(S) \subseteq TplReqType(T)
BY DEF TplReqType

\* A template's ids are numbers from one on.
LEMMA IdFacts == TplTyped => Ids \subseteq Nat \ {0} /\ nextTpl \in Nat \ {0} /\ nextTpl \notin Ids
BY TemplatesAssumption DEF TplTyped, Ids

\* What the form says.
LEMMA FormFacts ==
    ASSUME TplTyped, NEW type \in TemplateTypes, NEW body \in Bodies, Allowed(type, body), tplWrites' = tplWrites + 1
    PROVE  Form(type, body) \in FormType
<1>1. tplWrites' \in Nat \ {0} /\ -tplWrites' \in Int /\ Blank = 0 /\ tplWrites' \in Int
    BY DEF TplTyped, Blank
<1>2. /\ body = "blank" \/ body = "plain" \/ body = "for_campaigns"
      /\ "blank" # "plain" /\ "blank" # "for_campaigns" /\ "plain" # "for_campaigns"
    BY DEF Bodies
<1>3. PICK b \in Int :
        (b = CASE body = "blank" -> Blank [] body = "plain" -> tplWrites' [] body = "for_campaigns" -> -tplWrites')
        /\ (body # "for_campaigns" => b >= 0)
    <2>1. CASE body = "blank"
        BY <1>1, <2>1
    <2>2. CASE body = "plain"
        BY <1>1, <2>2
    <2>3. CASE body = "for_campaigns"
        BY <1>1, <2>3
    <2> QED
        BY <1>2, <2>1, <2>2, <2>3
<1>4. PICK s \in Int : s = (IF type \in CampaignTypes THEN Blank ELSE tplWrites')
    BY <1>1
<1>5. Form(type, body) = [body |-> b, subject |-> s]
    BY <1>3, <1>4, Zenon DEF Form
<1>6. s # Blank => b >= 0
    BY <1>3, <1>4 DEF Allowed
<1> QED
    BY <1>5, <1>6 DEF FormType, ContentType

\* What becomes of the copies and the requests when r changes the row of i.
LEMMA RowStep ==
    ASSUME TemplatesInv, NEW r \in TplRequests, NEW i, NEW t, NEW rec, TplGoto(r, rec), RowChanged(r, i, t),
           i \in Ids', rec \in TplReqType(Ids'), tplWrites' \in Nat, nextTpl' \in 1..(MaxTemplates + 1), Ids \subseteq Ids',
           tpl' \in [TplIds' -> TplType], TplIds' \subseteq Ids', cachedTpl' = cachedTpl,
           \A id \in (Nat \ {0}) \ {i} : id \in TplIds' <=> id \in TplIds,
           \A id \in TplIds \ {i} : tpl'[id] = tpl[id],
           ReqRight(r)', CopyRight(i)', DefaultInv'
    PROVE  TemplatesInv'
<1>0. TplTyped /\ Ids \subseteq Nat \ {0}
    BY IdFacts DEF TemplatesInv
<1>1. tplReq'[r] = rec /\ \A q \in TplRequests \ {r} : tplReq'[q] = tplReq[q]
    BY <1>0, TplGoes
<1>2. loose \subseteq loose' /\ loose' \subseteq loose \cup {i} /\ superseded' \subseteq TplRequests
      /\ \A q \in TplRequests \ {r} : q \in superseded' <=> q \in superseded \/ tplReq[q].id = i
    BY DEF RowChanged
<1>3. TplTyped'
    <2>1. tplReq' \in [TplRequests -> TplReqType(Ids')]
        BY <1>0, MoreIds DEF TplTyped, TplGoto
    <2>2. (tplReq \in [TplRequests -> TplReqType(Ids)])'
        BY <2>1 DEF TplReqType, Ids
    <2>3. TplIds' \cup DOMAIN cachedTpl' \cup loose' \subseteq Ids'
        BY <1>0, <1>2 DEF TplTyped
    <2> QED
        BY <1>0, <1>2, <2>2, <2>3 DEF TplTyped
<1>4. ASSUME NEW q \in TplRequests PROVE ReqRight(q)'
    <2>1. CASE q # r
        <3>1. ReqRight(q) /\ tplReq'[q] = tplReq[q] /\ (q \in superseded => q \in superseded')
            BY <1>1, <1>2, <2>1 DEF TemplatesInv
        <3>2. PICK j : j = tplReq[q].id
            OBVIOUS
        <3>3. CASE q \in superseded'
            BY <3>1, <3>3, OtherReq
        <3>4. CASE q \notin superseded' /\ j \in Nat \ {0}
            <4>1. j # i
                BY <1>2, <2>1, <3>2, <3>4
            <4>2. /\ j \in TplIds' <=> j \in TplIds
                  /\ j \in TplIds => tpl'[j] = tpl[j]
                BY <3>4, <4>1
            <4> QED
                BY <3>1, <3>2, <4>2, OtherReq
        <3>5. CASE j \notin Nat \ {0}
            <4>1. tplReq[q].at = "idle"
                BY <1>0, <3>2, <3>5, TplReqFacts
            <4> QED
                BY <3>1, <4>1 DEF ReqRight
        <3> QED
            BY <3>3, <3>4, <3>5
    <2> QED
        BY <2>1
<1>5. ASSUME NEW id \in Nat \ {0}, id # i PROVE CopyRight(id)'
    <2>1. CopyRight(id) /\ (id \in loose => id \in loose')
        BY <1>2 DEF TemplatesInv
    <2> QED
        BY <1>5, <2>1, OtherCopy
<1> QED
    BY <1>3, <1>4, <1>5 DEF TemplatesInv

\* A template is made.
LEMMA CreateKeeps ==
    ASSUME TemplatesInv, NEW r \in TplRequests, NEW type \in TemplateTypes, NEW body \in Bodies,
           CreateTemplate(r, type, body)
    PROVE  TemplatesInv'
<1>0. TplTyped /\ DefaultInv /\ Ids \subseteq Nat \ {0} /\ nextTpl \in Nat \ {0} /\ nextTpl \notin Ids
      /\ TplIds \subseteq Ids
    BY IdFacts DEF TemplatesInv, TplTyped
<1>1. PICK o \in FormType : o = Form(type, body)
    BY <1>0, FormFacts DEF CreateTemplate, NewForm
<1>2. PICK n \in Nat \ {0} : n = nextTpl
    BY <1>0
<1>3. PICK row \in TplType : row = [type |-> type, body |-> o.body, subject |-> o.subject, default |-> FALSE]
    BY DEF TplType, FormType, ContentType
<1>4. row.type = type /\ ~row.default /\ Content(row) = o
    BY <1>3 DEF Content, FormType, ContentType
<1>5. tpl' = [id \in TplIds \cup {n} |-> IF id = n THEN row ELSE tpl[id]] /\ n \notin TplIds
    BY <1>0, <1>1, <1>2, <1>3 DEF CreateTemplate
<1>6. PICK rec : rec = [at |-> "read", id |-> n, o |-> o]
    OBVIOUS
<1>7. /\ TplGoto(r, rec) /\ nextTpl' = n + 1 /\ n <= MaxTemplates /\ RowChanged(r, n, type)
      /\ UNCHANGED <<cachedTpl, campaign, unset, bare>> /\ tplWrites' = tplWrites + 1
    BY <1>1, <1>2, <1>6 DEF CreateTemplate, NewForm
<1>8. Ids \subseteq Ids' /\ n \in Ids' /\ nextTpl' \in 1..(MaxTemplates + 1)
    BY <1>2, <1>7, TemplatesAssumption DEF Ids
<1>9. TplIds' = TplIds \cup {n} /\ tpl'[n] = row /\ \A id \in TplIds : tpl'[id] = tpl[id]
    BY <1>5 DEF TplIds
<1>10. rec \in TplReqType(Ids') /\ tplWrites' \in Nat
    BY <1>0, <1>6, <1>7, <1>8 DEF TplReqType, TplTyped
<1>11. tpl' \in [TplIds' -> TplType]
    BY <1>0, <1>5, <1>9 DEF TplTyped
<1>12. DefaultInv'
    <2>1. Default' = Default
        BY <1>4, <1>5, <1>9 DEF Default
    <2> QED
        BY <1>0, <1>7, <1>9, <2>1 DEF DefaultInv
<1>13. ReqRight(r)'
    <2>1. tplReq'[r] = rec
        BY <1>0, <1>7, TplGoes
    <2>2. n \in TplIds' /\ Content(tpl[n])' = o
        BY <1>4, <1>9 DEF Content
    <2>3. tplReq'[r].at = "read" /\ tplReq'[r].id = n /\ tplReq'[r].o = o /\ (tpl[tplReq[r].id])' = tpl'[n]
          /\ Content(tpl[tplReq[r].id])' = Content(tpl[n])'
        BY <1>6, <2>1 DEF Content
    <2> QED
        BY <2>2, <2>3 DEF ReqRight
<1>14. CopyRight(n)'
    <2>1. type = "tx" => n \in loose'
        BY <1>7 DEF RowChanged
    <2>2. type # "tx" => n \notin TxIds'
        BY <1>4, <1>9 DEF TxIds
    <2>3. n \notin DOMAIN cachedTpl'
        BY <1>0, <1>2, <1>7 DEF TplTyped
    <2> QED
        BY <2>1, <2>2, <2>3 DEF CopyRight
<1> QED
    BY <1>0, <1>7, <1>8, <1>9, <1>10, <1>11, <1>12, <1>13, <1>14, RowStep

\* The row after an update with everything in the form is the form.
LEMMA StoredRow ==
    ASSUME NEW t \in TplType, NEW o \in ContentType
    PROVE  /\ Stored(t, o) \in TplType /\ Stored(t, o).type = t.type /\ Stored(t, o).default = t.default
           /\ Whole(o) => Content(Stored(t, o)) = o
<1>1. o.body \in Int /\ o.subject \in Int /\ o = [body |-> o.body, subject |-> o.subject] /\ NameAsSubject \in Int
    BY DEF ContentType, NameAsSubject
<1>2. PICK b, s \in Int : /\ b = (IF o.body = Blank THEN t.body ELSE o.body)
                          /\ s = (IF o.subject = Blank THEN NameAsSubject ELSE o.subject)
    BY <1>1 DEF TplType
<1>3. Stored(t, o) = [t EXCEPT !.body = b, !.subject = s]
    BY <1>2, Zenon DEF Stored
<1>4. PICK row : row = [t EXCEPT !.body = b, !.subject = s]
    OBVIOUS
<1>5. row \in TplType /\ row.type = t.type /\ row.default = t.default /\ row.body = b /\ row.subject = s
    BY <1>4 DEF TplType
<1>6. Whole(o) => Content(row) = o
    BY <1>1, <1>2, <1>5 DEF Content, Whole
<1> QED
    BY <1>3, <1>4, <1>5, <1>6

\* A template is updated.
LEMMA UpdateTplKeeps ==
    ASSUME TemplatesInv, NEW r \in TplRequests, NEW type \in TemplateTypes,
           NEW i \in TplIds, NEW body \in Bodies, UpdateTemplate(r, i, type, body)
    PROVE  TemplatesInv'
<1>0. TplTyped /\ DefaultInv /\ Ids \subseteq Nat \ {0} /\ TplIds \subseteq Ids
    BY IdFacts DEF TemplatesInv, TplTyped
<1>1. PICK o \in FormType : o = Form(type, body)
    BY <1>0, FormFacts DEF UpdateTemplate, NewForm
<1>2. PICK row \in TplType :
        /\ row = Stored(tpl[i], o) /\ row.type = tpl[i].type /\ row.default = tpl[i].default
        /\ Whole(o) => Content(row) = o
    BY <1>0, StoredRow DEF TplTyped, FormType
<1>3. tpl' = [tpl EXCEPT ![i] = row]
    BY <1>1, <1>2, Zenon DEF UpdateTemplate
<1>4. TplIds' = TplIds /\ tpl' \in [TplIds -> TplType] /\ tpl'[i] = row
      /\ \A id \in TplIds \ {i} : tpl'[id] = tpl[id]
    BY <1>0, <1>3 DEF TplTyped, TplIds
<1>5. PICK rec : rec = [at |-> "read", id |-> i, o |-> o]
    OBVIOUS
<1>6. /\ TplGoto(r, rec) /\ RowChanged(r, i, tpl[i].type)
      /\ UNCHANGED <<cachedTpl, campaign, nextTpl, unset, bare>> /\ tplWrites' = tplWrites + 1
    BY <1>1, <1>5, Zenon DEF UpdateTemplate, NewForm
<1>7. Ids' = Ids /\ nextTpl' \in 1..(MaxTemplates + 1) /\ tplWrites' \in Nat
    BY <1>0, <1>6 DEF Ids, TplTyped
<1>8. rec \in TplReqType(Ids)
    BY <1>0, <1>5 DEF TplReqType
<1>9. \A id \in TplIds : tpl'[id].type = tpl[id].type /\ tpl'[id].default = tpl[id].default
    BY <1>2, <1>4
<1>10. TxIds' = TxIds /\ Default' = Default
    BY <1>4, <1>9 DEF TxIds, Default
<1>11. DefaultInv'
    BY <1>0, <1>4, <1>6, <1>10 DEF DefaultInv
<1>12. ReqRight(r)'
    <2>1. tplReq'[r] = rec
        BY <1>0, <1>6, TplGoes
    <2>2. i \in TplIds' /\ (Whole(o) => Content(tpl[i])' = o)
        BY <1>2, <1>4 DEF Content
    <2>3. tplReq'[r].at = "read" /\ tplReq'[r].id = i /\ tplReq'[r].o = o /\ (tpl[tplReq[r].id])' = tpl'[i]
          /\ Content(tpl[tplReq[r].id])' = Content(tpl[i])' /\ (Whole(tplReq[r].o)' <=> Whole(o))
        BY <1>5, <2>1 DEF Content, Whole
    <2> QED
        BY <2>2, <2>3 DEF ReqRight
<1>13. CopyRight(i)'
    <2>1. CASE i \in TxIds
        <3>1. i \in loose'
            BY <1>6, <2>1 DEF RowChanged, TxIds
        <3> QED
            BY <3>1 DEF CopyRight
    <2>2. CASE i \notin TxIds
        <3>1. CopyRight(i) /\ (i \in loose => i \in loose')
            BY <1>0, <1>6 DEF TemplatesInv, RowChanged
        <3> QED
            BY <1>6, <1>10, <2>2, <3>1 DEF CopyRight
    <2> QED
        BY <2>1, <2>2
<1> QED
    BY <1>0, <1>4, <1>6, <1>7, <1>8, <1>11, <1>12, <1>13, RowStep

\* A request goes on that changes no row: to its copy, or to its end.
LEMMA CopyStep ==
    ASSUME TemplatesInv, NEW r \in TplRequests, NEW rec \in TplReqType(Ids), TplGoto(r, rec),
           UNCHANGED <<tpl, campaign, nextTpl, tplWrites, unset, bare>>,
           cachedTpl' \in [DOMAIN cachedTpl' -> ContentType], DOMAIN cachedTpl' \subseteq Ids, loose' \subseteq Ids,
           NEW i,
           \A id \in DOMAIN cachedTpl \ {i} : id \in DOMAIN cachedTpl' /\ cachedTpl'[id] = cachedTpl[id],
           DOMAIN cachedTpl' \subseteq DOMAIN cachedTpl \cup {i},
           \A id \in loose \ {i} : id \in loose',
           superseded' \in {superseded, superseded \ {r}}, ReqRight(r)', CopyRight(i)'
    PROVE  TemplatesInv'
<1>0. TplTyped /\ DefaultInv
    BY DEF TemplatesInv
<1>1. tplReq'[r] = rec /\ \A q \in TplRequests \ {r} : tplReq'[q] = tplReq[q]
    BY <1>0, TplGoes
<1>2. Ids' = Ids /\ TplIds' = TplIds /\ Default' = Default
    BY DEF Ids, TplIds, Default
<1>3. TplTyped'
    <2>1. tplReq' \in [TplRequests -> TplReqType(Ids)]
        BY <1>0 DEF TplTyped, TplGoto
    <2>2. (tplReq \in [TplRequests -> TplReqType(Ids)])'
        BY <1>2, <2>1 DEF TplReqType
    <2> QED
        BY <1>0, <1>2, <2>2 DEF TplTyped
<1>4. DefaultInv'
    BY <1>0, <1>2 DEF DefaultInv
<1>5. ASSUME NEW q \in TplRequests PROVE ReqRight(q)'
    <2>1. CASE q # r
        <3>1. ReqRight(q) /\ tplReq'[q] = tplReq[q] /\ (q \in superseded => q \in superseded')
            BY <1>1, <2>1 DEF TemplatesInv
        <3> QED
            BY <1>2, <3>1, OtherReq
    <2> QED
        BY <2>1
<1>6. ASSUME NEW id \in Nat \ {0} PROVE CopyRight(id)'
    <2>1. CASE id # i
        <3>1. CopyRight(id) /\ (id \in loose => id \in loose') /\ (id \in DOMAIN cachedTpl' <=> id \in DOMAIN cachedTpl)
            BY <2>1 DEF TemplatesInv
        <3> QED
            BY <1>2, <2>1, <3>1, OtherCopy
    <2> QED
        BY <2>1
<1> QED
    BY <1>3, <1>4, <1>5, <1>6 DEF TemplatesInv

\* A request that is over has nothing to be right about.
LEMMA IdleRight ==
    ASSUME TplTyped, NEW r \in TplRequests, TplGoto(r, NoTplReq)
    PROVE  ReqRight(r)' /\ NoTplReq \in TplReqType(Ids)
<1>1. tplReq'[r] = NoTplReq
    BY TplGoes
<1>2. tplReq'[r].at = "idle"
    BY <1>1 DEF NoTplReq
<1> QED
    BY <1>2 DEF ReqRight, TplReqType

\* The row is read again.
LEMMA ReadBackKeeps ==
    ASSUME TemplatesInv, NEW r \in TplRequests, ReadBack(r) \/ ReadBackFails(r)
    PROVE  TemplatesInv'
<1> DEFINE q == tplReq[r]
<1>0. TplTyped /\ Ids \subseteq Nat \ {0}
    BY IdFacts DEF TemplatesInv
<1>1. q \in TplReqType(Ids) /\ q.at = "read" /\ q.id \in Ids /\ q.o \in FormType
    BY <1>0, TplReqFacts DEF ReadBack, ReadBackFails, TplAt
<1>2. UNCHANGED <<tpl, cachedTpl, campaign, nextTpl, tplWrites, loose, unset, bare>>
    BY DEF ReadBack, ReadBackFails
<1>3. cachedTpl' \in [DOMAIN cachedTpl' -> ContentType] /\ DOMAIN cachedTpl' \subseteq Ids /\ loose' \subseteq Ids
    BY <1>0, <1>2 DEF TplTyped
<1>4. PICK i \in Nat \ {0} : i = q.id
    BY <1>0, <1>1
<1>5. TplIds' = TplIds /\ TxIds' = TxIds /\ (i \in TplIds => Content(tpl[i])' = Content(tpl[i]))
    BY <1>2 DEF TplIds, TxIds, Content
<1>6. CopyRight(i)'
    <2>1. CopyRight(i)
        BY DEF TemplatesInv
    <2> QED
        BY <1>2, <1>5, <2>1, OtherCopy
<1>7. CASE TplGoto(r, NoTplReq) /\ superseded' = superseded \ {r}
    <2>1. ReqRight(r)' /\ NoTplReq \in TplReqType(Ids)
        BY <1>0, <1>7, IdleRight
    <2> QED
        BY <1>2, <1>3, <1>6, <1>7, <2>1, CopyStep
<1>8. CASE ReadBack(r) /\ i \in TxIds
    <2>1. PICK rec : rec = [q EXCEPT !.at = "cache"]
        OBVIOUS
    <2>2. TplGoto(r, rec) /\ superseded' = superseded
        BY <1>4, <1>8, <2>1 DEF ReadBack
    <2>3. q \in [at : {"read", "cache"}, id : Ids, o : FormType]
        BY <1>1 DEF TplReqType, NoTplReq
    <2>4. rec \in TplReqType(Ids) /\ rec.at = "cache" /\ rec.id = i /\ rec.o = q.o
        BY <1>4, <2>1, <2>3 DEF TplReqType
    <2>5. tplReq'[r] = rec
        BY <1>0, <2>2, TplGoes
    <2>6. ReqRight(r)'
        <3>1. i \in TplIds
            BY <1>8 DEF TxIds
        <3>2. r \notin superseded => (Whole(q.o) => Content(tpl[i]) = q.o)
            BY <1>1, <1>4 DEF TemplatesInv, ReqRight
        <3>3. tplReq'[r].at = "cache" /\ tplReq'[r].id = i /\ tplReq'[r].o = q.o /\ (tpl[tplReq[r].id])' = tpl'[i]
              /\ Content(tpl[tplReq[r].id])' = Content(tpl[i])' /\ (Whole(tplReq[r].o)' <=> Whole(q.o))
            BY <2>4, <2>5 DEF Content, Whole
        <3> QED
            BY <1>5, <1>8, <2>2, <3>1, <3>2, <3>3 DEF ReqRight
    <2> QED
        BY <1>2, <1>3, <1>6, <2>2, <2>4, <2>6, CopyStep
<1>9. (TplGoto(r, NoTplReq) /\ superseded' = superseded \ {r}) \/ (ReadBack(r) /\ i \in TxIds)
    BY <1>4 DEF ReadBack, ReadBackFails
<1> QED
    BY <1>7, <1>8, <1>9

\* A copy is made, or taken away.
LEMMA CopyKeeps ==
    ASSUME TemplatesInv, NEW r \in TplRequests, CacheTpl(r) \/ DeleteTpl(r)
    PROVE  TemplatesInv'
<1> DEFINE q == tplReq[r]
<1>0. TplTyped /\ Ids \subseteq Nat \ {0} /\ cachedTpl \in [DOMAIN cachedTpl -> ContentType]
      /\ DOMAIN cachedTpl \subseteq Ids /\ loose \subseteq Ids
    BY IdFacts DEF TemplatesInv, TplTyped
<1>1. q.at \in {"cache", "delete"} /\ q.id \in Ids /\ (q.at = "cache" => q.o \in FormType)
    BY <1>0, TplReqFacts DEF CacheTpl, DeleteTpl, TplAt
<1>2. UNCHANGED <<tpl, campaign, nextTpl, tplWrites, unset, bare>> /\ TplGoto(r, NoTplReq)
    BY DEF CacheTpl, DeleteTpl
<1>3. PICK i \in Nat \ {0} : i = q.id
    BY <1>0, <1>1
<1>4. ReqRight(r)' /\ NoTplReq \in TplReqType(Ids) /\ ReqRight(r)
    BY <1>0, <1>2, IdleRight DEF TemplatesInv
<1>5. TplIds' = TplIds /\ TxIds' = TxIds
      /\ (i \in TplIds => Content(tpl[i])' = Content(tpl[i]) /\ (Compiles(i)' <=> Compiles(i)))
    BY <1>2 DEF TplIds, TxIds, Content, Compiles
<1>6. CASE CacheTpl(r)
    <2>1. PICK o \in FormType : o = q.o
        BY <1>1, <1>6 DEF CacheTpl, TplAt
    <2>2. cachedTpl' = [id \in DOMAIN cachedTpl \cup {i} |-> IF id = i THEN o ELSE cachedTpl[id]]
          /\ CopyChanged(r, i, Whole(o))
        BY <1>3, <1>6, <2>1 DEF CacheTpl
    <2>3. DOMAIN cachedTpl' = DOMAIN cachedTpl \cup {i} /\ cachedTpl'[i] = o
          /\ (\A id \in DOMAIN cachedTpl \ {i} : cachedTpl'[id] = cachedTpl[id])
        BY <2>2
    <2>4. cachedTpl' \in [DOMAIN cachedTpl' -> ContentType]
        BY <1>0, <2>2, <2>3 DEF FormType
    <2>5. superseded' = superseded \ {r} /\ loose' \subseteq Ids /\ \A id \in loose \ {i} : id \in loose'
        BY <1>0, <1>1, <1>3, <2>2 DEF CopyChanged
    <2>6. CopyRight(i)'
        <3> SUFFICES ASSUME i \notin loose' PROVE CopyRight(i)'
            BY DEF CopyRight
        <3>1. Whole(o) /\ r \notin superseded
            BY <2>2 DEF CopyChanged
        <3>2. i \in TxIds /\ i \in TplIds /\ Content(tpl[i]) = o
            BY <1>3, <1>4, <1>6, <2>1, <3>1 DEF ReqRight, CacheTpl, TplAt
        <3>3. Compiles(i)
            <4>1. o.body >= 0
                BY <3>1 DEF Whole, FormType
            <4>2. tpl[i].body = o.body
                BY <3>2 DEF Content
            <4> QED
                BY <4>1, <4>2 DEF Compiles
        <3> QED
            BY <1>5, <2>3, <3>2, <3>3 DEF CopyRight
    <2> QED
        BY <1>0, <1>1, <1>2, <1>3, <1>4, <2>3, <2>4, <2>5, <2>6, CopyStep
<1>7. CASE DeleteTpl(r)
    <2>1. cachedTpl' = [id \in DOMAIN cachedTpl \ {i} |-> cachedTpl[id]] /\ CopyChanged(r, i, TRUE)
        BY <1>3, <1>7 DEF DeleteTpl, Evicted, Restrict
    <2>2. DOMAIN cachedTpl' = DOMAIN cachedTpl \ {i} /\ \A id \in DOMAIN cachedTpl \ {i} : cachedTpl'[id] = cachedTpl[id]
        BY <2>1
    <2>3. cachedTpl' \in [DOMAIN cachedTpl' -> ContentType]
        BY <1>0, <2>1, <2>2
    <2>4. superseded' = superseded \ {r} /\ loose' \subseteq Ids /\ \A id \in loose \ {i} : id \in loose'
        BY <1>0, <1>1, <1>3, <2>1 DEF CopyChanged
    <2>5. CopyRight(i)'
        <3> SUFFICES ASSUME i \notin loose' PROVE CopyRight(i)'
            BY DEF CopyRight
        <3>1. r \notin superseded
            BY <2>1 DEF CopyChanged
        <3>2. i \notin TplIds
            BY <1>3, <1>4, <1>7, <3>1 DEF ReqRight, DeleteTpl, TplAt
        <3>3. i \notin TxIds
            BY <3>2 DEF TxIds
        <3> QED
            BY <1>5, <2>2, <3>3 DEF CopyRight
    <2> QED
        BY <1>0, <1>2, <1>4, <2>2, <2>3, <2>4, <2>5, CopyStep
<1> QED
    BY <1>6, <1>7

\* A template is deleted; the default one stays.
LEMMA DeleteTemplateKeeps ==
    ASSUME TemplatesInv, NEW r \in TplRequests, NEW i \in TplIds, DeleteTemplate(r, i)
    PROVE  TemplatesInv'
<1>0. TplTyped /\ DefaultInv /\ Ids \subseteq Nat \ {0} /\ TplIds \subseteq Ids
    BY IdFacts DEF TemplatesInv, TplTyped
<1>1. tpl' = [id \in TplIds \ {i} |-> tpl[id]] /\ ~tpl[i].default
    BY DEF DeleteTemplate, Restrict
<1>2. TplIds' = TplIds \ {i} /\ \A id \in TplIds \ {i} : tpl'[id] = tpl[id]
    BY <1>1 DEF TplIds
<1>3. PICK rec : rec = [at |-> "delete", id |-> i]
    OBVIOUS
<1>4. TplGoto(r, rec) /\ RowChanged(r, i, tpl[i].type) /\ UNCHANGED <<cachedTpl, nextTpl, tplWrites, unset, bare>>
    BY <1>3 DEF DeleteTemplate
<1>5. Ids' = Ids /\ nextTpl' \in 1..(MaxTemplates + 1) /\ tplWrites' \in Nat
    BY <1>0, <1>4 DEF Ids, TplTyped
<1>6. TxIds' = TxIds \ {i} /\ Default' = Default
    BY <1>1, <1>2 DEF TxIds, Default
<1>7. rec \in TplReqType(Ids)
    BY <1>0, <1>3 DEF TplReqType
<1>8. tpl' \in [TplIds' -> TplType]
    BY <1>0, <1>1, <1>2 DEF TplTyped
<1>9. DefaultInv'
    <2>1. i \notin Default
        BY <1>1 DEF Default
    <2>2. Default \subseteq TplIds
        BY DEF Default
    <2>3. campaign' \in (TplIds \ {i}) \cup {0} /\ (campaign' = 0 => campaign = 0 \/ Default = {})
        <3>1. CASE campaign = i
            <4>1. campaign' \in DefaultOrNone
                BY <3>1 DEF DeleteTemplate
            <4> QED
                BY <1>0, <2>1, <2>2, <4>1 DEF DefaultOrNone
        <3>2. CASE campaign # i
            <4>1. campaign' = campaign
                BY <3>2 DEF DeleteTemplate
            <4> QED
                BY <1>0, <3>2, <4>1 DEF DefaultInv
        <3> QED
            BY <3>1, <3>2
    <2> QED
        BY <1>0, <1>2, <1>4, <1>6, <2>3 DEF DefaultInv
<1>10. ReqRight(r)'
    <2>1. tplReq'[r] = rec
        BY <1>0, <1>4, TplGoes
    <2>2. tplReq'[r].at = "delete" /\ tplReq'[r].id = i /\ i \notin TplIds'
        BY <1>2, <1>3, <2>1
    <2> QED
        BY <2>2 DEF ReqRight
<1>11. CopyRight(i)'
    <2>1. CASE i \in TxIds
        <3>1. i \in loose'
            BY <1>4, <2>1 DEF RowChanged, TxIds
        <3> QED
            BY <3>1 DEF CopyRight
    <2>2. CASE i \notin TxIds
        <3>1. CopyRight(i) /\ (i \in loose => i \in loose')
            BY <1>0, <1>4 DEF TemplatesInv, RowChanged
        <3> QED
            BY <1>4, <1>6, <2>2, <3>1 DEF CopyRight
    <2> QED
        BY <2>1, <2>2
<1> QED
    BY <1>0, <1>2, <1>4, <1>5, <1>7, <1>8, <1>9, <1>10, <1>11, RowStep

\* Another template is made the default, if it can be.
LEMMA SetDefaultKeeps ==
    ASSUME TemplatesInv, NEW i \in 1..MaxTemplates, SetDefault(i)
    PROVE  TemplatesInv'
<1>0. TplTyped /\ DefaultInv
    BY DEF TemplatesInv
<1>1. /\ tpl' = [t \in TplIds |-> [tpl[t] EXCEPT !.default = IF t = i THEN @ \/ tpl[t].type = "campaign" ELSE FALSE]]
      /\ unset' = (unset \/ i \notin TplIds \/ tpl[i].type # "campaign")
      /\ UNCHANGED <<cachedTpl, campaign, tplReq, nextTpl, tplWrites, superseded, loose, bare>>
    BY DEF SetDefault
<1>2. TplIds' = TplIds
    BY <1>1 DEF TplIds
<1>3. ASSUME NEW t \in TplIds
      PROVE  /\ tpl'[t] \in TplType /\ tpl'[t].type = tpl[t].type /\ tpl'[t].body = tpl[t].body
             /\ tpl'[t].subject = tpl[t].subject
             /\ tpl'[t].default => t = i
             /\ t = i /\ tpl[t].type = "campaign" => tpl'[t].default
    <2>1. PICK row \in TplType : row = tpl[t]
        BY <1>0 DEF TplTyped
    <2>2. PICK d \in BOOLEAN : d = (IF t = i THEN row.default \/ row.type = "campaign" ELSE FALSE)
        <3>1. row.default \in BOOLEAN
            BY DEF TplType
        <3> QED
            BY <3>1, Zenon
    <2>3. tpl'[t] = [row EXCEPT !.default = d]
        BY <1>1, <2>1, <2>2, Zenon
    <2>4. PICK new : new = [row EXCEPT !.default = d]
        OBVIOUS
    <2>5. new \in TplType /\ new.type = row.type /\ new.default = d /\ new.body = row.body /\ new.subject = row.subject
        BY <2>4 DEF TplType
    <2>6. d => t = i
        BY <2>2, Zenon
    <2>7. t = i /\ row.type = "campaign" => d
        BY <2>2, Zenon
    <2> QED
        BY <2>1, <2>3, <2>4, <2>5, <2>6, <2>7
<1>4. tpl' \in [TplIds -> TplType]
    BY <1>1, <1>3
<1>5. Ids' = Ids /\ TxIds' = TxIds
    BY <1>1, <1>2, <1>3 DEF Ids, TxIds
<1>6. TplTyped'
    <2>1. (tplReq \in [TplRequests -> TplReqType(Ids)])'
        BY <1>0, <1>1, <1>5 DEF TplTyped, TplReqType
    <2> QED
        BY <1>0, <1>1, <1>2, <1>4, <1>5, <2>1 DEF TplTyped
<1>7. ASSUME NEW r \in TplRequests PROVE ReqRight(r)'
    <2>1. ReqRight(r)
        BY DEF TemplatesInv
    <2> QED
        BY <1>1, <1>2, <1>3, <2>1, OtherReq
<1>8. DefaultInv'
    <2>1. \A s \in Default' : s = i
        BY <1>2, <1>3 DEF Default
    <2>2. ~unset' => i \in TplIds /\ tpl[i].type = "campaign" /\ ~unset
        BY <1>1, Zenon
    <2>3. ~unset' => i \in Default'
        BY <1>2, <1>3, <2>2 DEF Default
    <2>4. unset => unset'
        BY <1>1, Zenon
    <2> QED
        BY <1>0, <1>1, <1>2, <2>1, <2>3, <2>4 DEF DefaultInv
<1>9. ASSUME NEW id \in Nat \ {0} PROVE CopyRight(id)'
    <2>1. CopyRight(id)
        BY DEF TemplatesInv
    <2> QED
        BY <1>1, <1>2, <1>3, <2>1, OtherCopy
<1> QED
    BY <1>6, <1>7, <1>8, <1>9 DEF TemplatesInv

\* A campaign is saved, with a template or with none.
LEMMA UseKeeps ==
    ASSUME TemplatesInv, UseDefault \/ \E i \in TplIds \cup {0} : UseTemplate(i)
    PROVE  TemplatesInv'
<1>1. UNCHANGED <<tpl, cachedTpl, tplReq, nextTpl, tplWrites, superseded, loose, unset>>
    BY DEF UseDefault, UseTemplate
<1>2. TplIds' = TplIds /\ TxIds' = TxIds /\ Default' = Default /\ Ids' = Ids
    BY <1>1 DEF TplIds, TxIds, Default, Ids
<1>3. TplTyped'
    BY <1>1, <1>2 DEF TemplatesInv, TplTyped, TplReqType
<1>4. Default \subseteq TplIds /\ TplIds \subseteq Ids /\ 0 \notin Ids
    BY IdFacts DEF Default, TemplatesInv, TplTyped
<1>5. campaign' \in TplIds \cup {0} /\ (campaign' = 0 => bare' \/ Default = {})
    BY <1>4 DEF UseDefault, UseTemplate, DefaultOrNone
<1>6. DefaultInv'
    BY <1>1, <1>2, <1>5 DEF TemplatesInv, DefaultInv
<1>7. (\A id \in Nat \ {0} : CopyRight(id)') /\ \A r \in TplRequests : ReqRight(r)'
    BY <1>1, <1>2 DEF TemplatesInv, CopyRight, ReqRight, Content, Compiles, Whole
<1> QED
    BY <1>3, <1>6, <1>7 DEF TemplatesInv

\* The copies that a start of the process makes are the rows.
LEMMA FreshCopies ==
    ASSUME cachedTpl = InitTxTemplates, \A r \in TplRequests : tplReq[r] = NoTplReq
    PROVE  (\A id \in Nat \ {0} : CopyRight(id)) /\ \A r \in TplRequests : ReqRight(r)
<1>1. /\ \A id : id \in DOMAIN cachedTpl <=> id \in TxIds /\ Compiles(id)
      /\ \A id \in DOMAIN cachedTpl : cachedTpl[id] = Content(tpl[id])
    BY DEF InitTxTemplates
<1>2. \A r \in TplRequests : tplReq[r].at = "idle"
    BY DEF NoTplReq
<1> QED
    BY <1>1, <1>2 DEF CopyRight, ReqRight

\* The process starts again.
LEMMA RestartTplKeeps ==
    ASSUME TemplatesInv, RestartTemplates
    PROVE  TemplatesInv'
<1>0. TplTyped /\ DefaultInv
    BY DEF TemplatesInv
<1>1. /\ UNCHANGED <<tpl, campaign, nextTpl, tplWrites, unset, bare>> /\ loose' = {} /\ superseded' = {}
      /\ cachedTpl' = InitTxTemplates /\ tplReq' = [r \in TplRequests |-> NoTplReq]
    BY DEF RestartTemplates
<1>2. TplIds' = TplIds /\ TxIds' = TxIds /\ Default' = Default /\ Ids' = Ids /\ InitTxTemplates' = InitTxTemplates
    BY <1>1 DEF TplIds, TxIds, Default, Ids, InitTxTemplates, Content, Compiles
<1>3. NoTplReq \in TplReqType(Ids)
    BY DEF TplReqType
<1>4. DOMAIN cachedTpl' \subseteq TplIds /\ \A i \in DOMAIN cachedTpl' : i \in TplIds /\ cachedTpl'[i] = Content(tpl[i])
    BY <1>1 DEF InitTxTemplates, TxIds
<1>5. \A i \in TplIds : Content(tpl[i]) \in ContentType
    BY <1>0 DEF TplTyped, TplType, Content, ContentType
<1>6. cachedTpl' \in [DOMAIN cachedTpl' -> ContentType]
    BY <1>1, <1>4, <1>5 DEF InitTxTemplates
<1>7. TplTyped'
    <2>1. (tplReq \in [TplRequests -> TplReqType(Ids)])'
        BY <1>1, <1>2, <1>3 DEF TplReqType
    <2> QED
        BY <1>0, <1>1, <1>2, <1>4, <1>6, <2>1 DEF TplTyped
<1>8. DefaultInv'
    BY <1>0, <1>1, <1>2 DEF DefaultInv
<1>9. (\A id \in Nat \ {0} : CopyRight(id))' /\ (\A r \in TplRequests : ReqRight(r))'
    <2>1. (cachedTpl = InitTxTemplates)' /\ (\A r \in TplRequests : tplReq[r] = NoTplReq)'
        BY <1>1, <1>2
    <2> QED
        BY <2>1, FreshCopies, PTL
<1> QED
    BY <1>7, <1>8, <1>9 DEF TemplatesInv

\* What an install leaves.
LEMMA TemplatesInitInv == TemplatesInit => TemplatesInv
<1> SUFFICES ASSUME TemplatesInit PROVE TemplatesInv
    OBVIOUS
<1>1. TplIds = 1..2 /\ nextTpl = 3 /\ Ids = 1..2
    BY DEF TemplatesInit, TplIds, Ids
<1>2. \A i \in 1..2 : i = 1 \/ i = 2
    OBVIOUS
<1>3. /\ tpl[1] = [type |-> "campaign", body |-> 1, subject |-> 0, default |-> TRUE]
      /\ tpl[2] = [type |-> "tx", body |-> 1, subject |-> 1, default |-> FALSE]
    <2>1. 1 - 1 = 0 /\ 2 - 1 = 1 /\ 2 # 1 /\ (1 = 1) = TRUE /\ (2 = 1) = FALSE /\ 1 \in 1..2 /\ 2 \in 1..2
        OBVIOUS
    <2>2. /\ tpl[1] = [type |-> IF 1 = 1 THEN "campaign" ELSE "tx", body |-> 1, subject |-> 1 - 1, default |-> 1 = 1]
          /\ tpl[2] = [type |-> IF 2 = 1 THEN "campaign" ELSE "tx", body |-> 1, subject |-> 2 - 1, default |-> 2 = 1]
        BY <2>1, Zenon DEF TemplatesInit
    <2> QED
        BY <2>1, <2>2, Zenon
<1>4. tpl[1] \in TplType /\ tpl[2] \in TplType
    BY <1>3 DEF TplType, TemplateTypes, CampaignTypes
<1>5. TxIds = {2} /\ Default = {1}
    BY <1>1, <1>2, <1>3 DEF TxIds, Default
<1>6. tpl \in [TplIds -> TplType]
    BY <1>1, <1>2, <1>4 DEF TemplatesInit
<1>7. cachedTpl = InitTxTemplates /\ \A r \in TplRequests : tplReq[r] = NoTplReq
    BY DEF TemplatesInit
<1>8. Content(tpl[2]) \in ContentType
    BY <1>4 DEF TplType, Content, ContentType
<1>9. DOMAIN cachedTpl \subseteq {2} /\ cachedTpl \in [DOMAIN cachedTpl -> ContentType]
    BY <1>5, <1>7, <1>8 DEF InitTxTemplates
<1>10. NoTplReq \in TplReqType(Ids)
    BY DEF TplReqType
<1>11. tplReq \in [TplRequests -> TplReqType(Ids)]
    BY <1>10 DEF TemplatesInit
<1>12. TplTyped
    BY <1>1, <1>6, <1>9, <1>11, TemplatesAssumption DEF TplTyped, TemplatesInit
<1>13. DefaultInv
    BY <1>1, <1>5 DEF DefaultInv, TemplatesInit
<1> QED
    BY <1>7, <1>12, <1>13, FreshCopies DEF TemplatesInv

\* What a step of the templates does to rows, copies and requests.
LEMMA TemplatesNextInv ==
    ASSUME TemplatesInv, TemplatesNext \/ UNCHANGED templatesVars
    PROVE  TemplatesInv'
<1>1. CASE UNCHANGED templatesVars
    <2>1. UNCHANGED <<tpl, cachedTpl, campaign, tplReq, nextTpl, tplWrites, superseded, loose, unset, bare>>
        BY <1>1 DEF templatesVars
    <2>2. TplIds' = TplIds /\ TxIds' = TxIds /\ Default' = Default /\ Ids' = Ids
        BY <2>1 DEF TplIds, TxIds, Default, Ids
    <2> QED
        BY <2>1, <2>2 DEF TemplatesInv, TplTyped, DefaultInv, CopyRight, ReqRight, Compiles, Whole, Content, TplReqType
<1> QED
    BY <1>1, CreateKeeps, UpdateTplKeeps, ReadBackKeeps, CopyKeeps, DeleteTemplateKeeps, SetDefaultKeeps, UseKeeps,
       RestartTplKeeps DEF TemplatesNext

\* The invariant states what is checked of the templates.
LEMMA TemplatesMean == TemplatesInv => TemplatesCurrent /\ TemplatesTypeOK
<1> SUFFICES ASSUME TemplatesInv PROVE TemplatesCurrent /\ TemplatesTypeOK
    OBVIOUS
<1>1. TemplatesCurrent
    <2>1. \A id \in 1..MaxTemplates : id \in Nat \ {0}
        BY TemplatesAssumption
    <2> QED
        BY <2>1 DEF TemplatesInv, CopyRight, DefaultInv, TemplatesCurrent
<1>2. TemplatesTypeOK
    <2>1. Ids \subseteq 1..MaxTemplates
        BY TemplatesAssumption DEF TemplatesInv, TplTyped, Ids
    <2>2. CASE Default = {}
        BY <2>1, <2>2, FS_EmptySet DEF TemplatesInv, TplTyped, DefaultInv, TemplatesTypeOK
    <2>3. ASSUME NEW d \in Default PROVE Cardinality(Default) = 1
        <3>1. Default = {d}
            BY DEF TemplatesInv, DefaultInv
        <3> QED
            BY <3>1, FS_Singleton
    <2> QED
        BY <2>1, <2>2, <2>3 DEF TemplatesInv, TplTyped, DefaultInv, TemplatesTypeOK
<1> QED
    BY <1>1, <1>2

-----------------------------------------------------------------------------
(* Media.                                                                  *)

MediaName == [kind : {"image", "vector", "other"}, thumbs : Nat, suffix : Nat]
Uploading == {"put", "thumb", "insert", "read", "clean"}
UploadType ==
    [at : Uploading, name : MediaName, thumb : MediaName \cup {NoThumb}, names : SUBSET MediaName,
     upload : Nat \ {0}]
UnlinkType == [at : {"unlink", "unlinkThumb"}, name : MediaName, names : SUBSET MediaName]
RowOfMedia == [name : MediaName, thumb : MediaName \cup {NoThumb}, upload : Nat \ {0}]

\* What a request may hold when n files were uploaded.
RequestMay(q, n) ==
    /\ q.at # "idle" => q.name \in q.names /\ q.name.suffix <= n
    /\ q.at \in Uploading => /\ q.names = Upload(q.name) /\ q.upload <= n
                             /\ q.thumb \in {NoThumb} \cup q.names
    /\ q.at = "thumb" => q.name.kind = "image"
    /\ q.at \in {"unlink", "unlinkThumb"} => q.names = Deletion(q.name)

MediaTyped ==
    /\ uploads \in Nat /\ files \in [DOMAIN files -> 0..uploads]
    /\ media \subseteq RowOfMedia
    /\ \A m \in media : m.name.suffix <= uploads /\ m.upload <= uploads
    /\ mediaReq \in [MediaRequests -> {NoMediaReq} \cup UploadType \cup UnlinkType]
    /\ \A r \in MediaRequests : RequestMay(mediaReq[r], uploads)

Holds(n, upload) == n \notin crossed => n \in DOMAIN files /\ files[n] = upload

\* A name is worked on by one request at a time, and by none while a row has it, but for the
\* request that made the row.
OneAtWork ==
    \A r, o \in MediaRequests : r # o /\ ~MediaAt(r, "idle") /\ ~MediaAt(o, "idle") =>
        mediaReq[r].names \cap mediaReq[o].names \subseteq crossed
NoRowAtWork ==
    \A r \in MediaRequests : mediaReq[r].at \notin {"idle", "read"} =>
        \A m \in media : mediaReq[r].names \cap {m.name, m.thumb} \subseteq crossed

\* What was written is there when the row is to be made.
Written(q) ==
    /\ q.at = "thumb" => Holds(q.name, q.upload)
    /\ q.at = "insert" => \A n \in {q.name, q.thumb} \ {NoThumb} : Holds(n, q.upload)

MediaInv ==
    MediaTyped /\ OneAtWork /\ NoRowAtWork /\ MediaIntact /\ \A r \in MediaRequests : Written(mediaReq[r])

\* What a request holds.
LEMMA MediaReqFacts ==
    ASSUME MediaTyped, NEW r \in MediaRequests
    PROVE  /\ RequestMay(mediaReq[r], uploads)
           /\ mediaReq[r].at \in {"idle", "unlink", "unlinkThumb"} \cup Uploading
           /\ mediaReq[r].at = "idle" => mediaReq[r] = NoMediaReq
           /\ mediaReq[r].at \in Uploading => mediaReq[r] \in UploadType
           /\ mediaReq[r].at \in {"unlink", "unlinkThumb"} => mediaReq[r] \in UnlinkType
<1>1. mediaReq[r] \in {NoMediaReq} \cup UploadType \cup UnlinkType /\ RequestMay(mediaReq[r], uploads)
    BY DEF MediaTyped
<1>2. NoMediaReq.at = "idle"
    BY DEF NoMediaReq
<1>3. \A q \in UploadType : q.at \in Uploading
    BY DEF UploadType
<1>4. \A q \in UnlinkType : q.at \in {"unlink", "unlinkThumb"}
    BY DEF UnlinkType
<1> QED
    BY <1>1, <1>2, <1>3, <1>4 DEF Uploading

\* No file, no row, no request.
LEMMA MediaInitInv == MediaInit => MediaInv
<1> SUFFICES ASSUME MediaInit PROVE MediaInv
    OBVIOUS
<1>1. NoMediaReq.at = "idle" /\ \A r \in MediaRequests : mediaReq[r] = NoMediaReq
    BY DEF NoMediaReq, MediaInit
<1>2. files \in [DOMAIN files -> 0..uploads]
    BY DEF MediaInit
<1>3. \A r \in MediaRequests : RequestMay(mediaReq[r], uploads)
    BY <1>1 DEF RequestMay, Uploading
<1>4. MediaTyped
    BY <1>2, <1>3 DEF MediaInit, MediaTyped
<1> QED
    BY <1>1, <1>4 DEF MediaInit, MediaInv, OneAtWork, NoRowAtWork, MediaIntact, Written, MediaAt

\* A request goes on with the names it has: it writes or removes files of theirs, while no
\* row has them.
LEMMA FilesGo ==
    ASSUME MediaInv, NEW r \in MediaRequests, NEW rec \in {NoMediaReq} \cup UploadType \cup UnlinkType,
           MediaGoto(r, rec), UNCHANGED <<media, uploads, crossed>>,
           mediaReq[r].at \notin {"idle", "read"},
           rec.at # "idle" => rec.names = mediaReq[r].names /\ rec.at # "read",
           RequestMay(rec, uploads),
           files' \in [DOMAIN files' -> 0..uploads],
           \A n \in MediaName \ mediaReq[r].names :
               /\ n \in DOMAIN files => n \in DOMAIN files' /\ files'[n] = files[n],
           Written(rec)'
    PROVE  MediaInv'
<1> DEFINE q == mediaReq[r]
<1>0. MediaTyped /\ OneAtWork /\ NoRowAtWork /\ MediaIntact
    BY DEF MediaInv
<1>1. /\ mediaReq' \in [MediaRequests -> {NoMediaReq} \cup UploadType \cup UnlinkType] /\ mediaReq'[r] = rec
      /\ \A o \in MediaRequests \ {r} : mediaReq'[o] = mediaReq[o]
    BY <1>0 DEF MediaTyped, MediaGoto
<1>2. MediaTyped'
    <2>1. \A o \in MediaRequests : RequestMay(mediaReq'[o], uploads)
        BY <1>0, <1>1 DEF MediaTyped
    <2>2. (\A o \in MediaRequests : RequestMay(mediaReq[o], uploads))'
        BY <2>1 DEF RequestMay
    <2> QED
        BY <1>0, <1>1, <2>2 DEF MediaTyped
<1>3. OneAtWork'
    BY <1>0, <1>1 DEF OneAtWork, MediaAt
<1>4. NoRowAtWork'
    BY <1>0, <1>1 DEF NoRowAtWork
<1>5. MediaIntact'
    <2> SUFFICES ASSUME NEW m \in media, NEW n \in {m.name, m.thumb} \ ({NoThumb} \cup crossed)
                 PROVE  n \in DOMAIN files' /\ files'[n] = m.upload
        BY DEF MediaIntact
    <2>1. n \in DOMAIN files /\ files[n] = m.upload
        BY <1>0 DEF MediaIntact
    <2>2. n \notin q.names
        BY <1>0 DEF NoRowAtWork
    <2>3. n \in MediaName
        BY <1>0 DEF MediaTyped, RowOfMedia
    <2> QED
        BY <2>1, <2>2, <2>3
<1>6. ASSUME NEW o \in MediaRequests PROVE Written(mediaReq[o])'
    <2>1. CASE o = r
        BY <1>1, <2>1 DEF Written, Holds
    <2>2. CASE o # r
        <3>1. mediaReq'[o] = mediaReq[o] /\ Written(mediaReq[o])
            BY <1>1, <2>2 DEF MediaInv
        <3>2. mediaReq[o].at \in {"thumb", "insert"} =>
                 /\ mediaReq[o] \in UploadType /\ mediaReq[o].name \in mediaReq[o].names
                 /\ mediaReq[o].thumb \in {NoThumb} \cup mediaReq[o].names
                 /\ mediaReq[o].names \subseteq MediaName
                 /\ mediaReq[o].names \cap q.names \subseteq crossed
            BY <1>0, <2>2, MediaReqFacts DEF RequestMay, Uploading, OneAtWork, MediaAt, UploadType
        <3>3. ASSUME NEW n \in mediaReq[o].names, NEW u, Holds(n, u), mediaReq[o].at \in {"thumb", "insert"}
              PROVE  Holds(n, u)'
            <4>1. n \in MediaName /\ (n \in q.names => n \in crossed)
                BY <3>2, <3>3
            <4> QED
                BY <3>3, <4>1 DEF Holds
        <3>4. mediaReq[o].at = "thumb" => Holds(mediaReq[o].name, mediaReq[o].upload)'
            BY <3>1, <3>2, <3>3 DEF Written
        <3>5. mediaReq[o].at = "insert" =>
                \A n \in {mediaReq[o].name, mediaReq[o].thumb} \ {NoThumb} : Holds(n, mediaReq[o].upload)'
            BY <3>1, <3>2, <3>3 DEF Written
        <3> QED
            BY <3>1, <3>4, <3>5 DEF Written, Holds
    <2> QED
        BY <2>1, <2>2
<1> QED
    BY <1>2, <1>3, <1>4, <1>5, <1>6 DEF MediaInv

\* NoThumb is no file's name, and a name's own thumbnail is another name.
LEMMA MediaNames ==
    /\ NoThumb \notin MediaName
    /\ \A n \in MediaName : ThumbOf(n) \in MediaName /\ ThumbOf(n).suffix = n.suffix /\ ThumbOf(n) # n
    /\ \A n \in MediaName : Upload(n) \subseteq MediaName /\ Deletion(n) \subseteq MediaName
<1>1. NoThumb \notin MediaName
    <2>1. \A n \in MediaName : n.kind # "none"
        BY DEF MediaName
    <2> QED
        BY <2>1 DEF NoThumb
<1>2. ASSUME NEW n \in MediaName
      PROVE  ThumbOf(n) \in MediaName /\ ThumbOf(n).suffix = n.suffix /\ ThumbOf(n) # n
    <2>1. n.thumbs \in Nat /\ ThumbOf(n).thumbs = n.thumbs + 1
        BY DEF ThumbOf, MediaName
    <2>2. ThumbOf(n) \in MediaName /\ ThumbOf(n).suffix = n.suffix
        BY DEF ThumbOf, MediaName
    <2> QED
        BY <2>1, <2>2
<1> QED
    BY <1>1, <1>2 DEF Upload, Deletion

\* What a working request is about to touch is among its names.
LEMMA WorkFacts ==
    ASSUME MediaTyped, NEW r \in MediaRequests
    PROVE  /\ mediaReq[r].at \in Uploading =>
                /\ mediaReq[r] \in UploadType /\ mediaReq[r].name \in mediaReq[r].names
                /\ mediaReq[r].name \in MediaName /\ mediaReq[r].name.suffix <= uploads
                /\ mediaReq[r].names \subseteq MediaName /\ mediaReq[r].names = Upload(mediaReq[r].name)
                /\ mediaReq[r].upload \in 1..uploads
                /\ mediaReq[r].thumb \in {NoThumb} \cup mediaReq[r].names
           /\ mediaReq[r].at = "thumb" =>
                mediaReq[r].name.kind = "image" /\ ThumbOf(mediaReq[r].name) \in mediaReq[r].names
           /\ mediaReq[r].at \in {"unlink", "unlinkThumb"} =>
                /\ mediaReq[r] \in UnlinkType /\ mediaReq[r].name \in MediaName
                /\ mediaReq[r].name.suffix <= uploads
                /\ mediaReq[r].names = Deletion(mediaReq[r].name)
<1> USE MediaReqFacts, MediaNames
<1>1. uploads \in Nat
    BY DEF MediaTyped
<1>2. ASSUME mediaReq[r].at \in Uploading
      PROVE  /\ mediaReq[r] \in UploadType /\ mediaReq[r].name \in mediaReq[r].names
             /\ mediaReq[r].name \in MediaName /\ mediaReq[r].name.suffix <= uploads
             /\ mediaReq[r].names \subseteq MediaName /\ mediaReq[r].names = Upload(mediaReq[r].name)
             /\ mediaReq[r].upload \in 1..uploads
             /\ mediaReq[r].thumb \in {NoThumb} \cup mediaReq[r].names
    BY <1>1, <1>2 DEF RequestMay, UploadType, Uploading
<1>3. ASSUME mediaReq[r].at = "thumb"
      PROVE  mediaReq[r].name.kind = "image" /\ ThumbOf(mediaReq[r].name) \in mediaReq[r].names
    BY <1>2, <1>3 DEF RequestMay, Uploading, Upload
<1>4. ASSUME mediaReq[r].at \in {"unlink", "unlinkThumb"}
      PROVE  /\ mediaReq[r] \in UnlinkType /\ mediaReq[r].name \in MediaName
             /\ mediaReq[r].name.suffix <= uploads
             /\ mediaReq[r].names = Deletion(mediaReq[r].name)
    BY <1>4 DEF RequestMay, UnlinkType
<1> QED
    BY <1>2, <1>3, <1>4

\* A file is written under one of the names of the request.
LEMMA FilePut ==
    ASSUME MediaTyped, NEW n, NEW u \in 0..uploads, Put(n, u), uploads' = uploads
    PROVE  /\ files' \in [DOMAIN files' -> 0..uploads]
           /\ n \in DOMAIN files' /\ files'[n] = u
           /\ \A f \in DOMAIN files : f # n => f \in DOMAIN files' /\ files'[f] = files[f]
<1> QED
    BY DEF Put, MediaTyped

\* Files are removed.
LEMMA FilesRemoved ==
    ASSUME MediaTyped, NEW names, Remove(names)
    PROVE  /\ files' \in [DOMAIN files' -> 0..uploads]
           /\ \A f \in DOMAIN files : f \notin names => f \in DOMAIN files' /\ files'[f] = files[f]
<1>1. files' = [f \in DOMAIN files \ names |-> files[f]]
    BY DEF Remove, Restrict
<1> QED
    BY <1>1 DEF MediaTyped

\* A request that is over holds nothing.
LEMMA OverFacts ==
    /\ NoMediaReq.at = "idle" /\ RequestMay(NoMediaReq, uploads) /\ Written(NoMediaReq)
<1> QED
    BY DEF NoMediaReq, RequestMay, Written, Uploading

\* A file is written.
LEMMA PutFileInv == ASSUME MediaInv, NEW r \in MediaRequests, PutFile(r) PROVE MediaInv'
<1>0. MediaTyped
    BY DEF MediaInv
<1> PICK q : q = mediaReq[r]
    OBVIOUS
<1>1. /\ q.at = "put" /\ q \in UploadType /\ q.name \in q.names /\ q.upload \in 1..uploads /\ uploads \in Nat
      /\ q.names = Upload(q.name) /\ q.name \in MediaName /\ q.name.suffix <= uploads
    BY <1>0, WorkFacts DEF PutFile, MediaAt, Uploading, MediaTyped
<1> PICK rec : rec = IF q.name.kind = "image" THEN [q EXCEPT !.at = "thumb"]
                     ELSE [q EXCEPT !.at = "insert", !.thumb = IF q.name.kind = "vector" THEN q.name ELSE NoThumb]
    OBVIOUS
<1>2. /\ rec \in UploadType /\ rec.names = q.names /\ rec.at \in {"thumb", "insert"} /\ rec.name = q.name
      /\ rec.upload = q.upload
    BY <1>1 DEF UploadType, Uploading
<1>3. rec.at = "thumb" => rec.name.kind = "image" /\ rec.thumb = q.thumb
    BY <1>1 DEF UploadType, Uploading
<1>4. rec.at = "insert" => rec.thumb \in {NoThumb, q.name}
    BY <1>1 DEF UploadType, Uploading
<1>5. RequestMay(rec, uploads)
    <2>1. q.thumb \in {NoThumb} \cup q.names
        BY <1>0, <1>1, WorkFacts DEF Uploading
    <2> QED
        BY <1>1, <1>2, <1>3, <1>4, <2>1 DEF RequestMay, Uploading
<1>6. Put(q.name, q.upload) /\ MediaGoto(r, rec) /\ UNCHANGED <<media, uploads, crossed>>
    BY DEF PutFile
<1>7. /\ files' \in [DOMAIN files' -> 0..uploads]
      /\ q.name \in DOMAIN files' /\ files'[q.name] = q.upload
      /\ \A f \in DOMAIN files : f # q.name => f \in DOMAIN files' /\ files'[f] = files[f]
    BY <1>0, <1>1, <1>6, FilePut
<1>8. Written(rec)'
    BY <1>2, <1>4, <1>7 DEF Written, Holds
<1>9. rec # NoMediaReq /\ (rec.at # "idle" => rec.names = mediaReq[r].names /\ rec.at # "read")
    BY <1>2, OverFacts
<1> QED
    BY <1>1, <1>2, <1>5, <1>6, <1>7, <1>8, <1>9, FilesGo

\* A file is written in part.
LEMMA PutFileFailsInv == ASSUME MediaInv, NEW r \in MediaRequests, PutFileFails(r) PROVE MediaInv'
<1>0. MediaTyped
    BY DEF MediaInv
<1> PICK q : q = mediaReq[r]
    OBVIOUS
<1>1. q.at = "put" /\ q.name \in q.names /\ uploads \in Nat
    BY <1>0, WorkFacts DEF PutFileFails, MediaAt, Uploading, MediaTyped
<1>2. MediaGoto(r, NoMediaReq) /\ UNCHANGED <<media, uploads, crossed>>
    BY DEF PutFileFails
<1>3. /\ files' \in [DOMAIN files' -> 0..uploads]
      /\ \A f \in DOMAIN files : f # q.name => f \in DOMAIN files' /\ files'[f] = files[f]
    <2>1. CASE files' = files
        BY <2>1, <1>0 DEF MediaTyped
    <2>2. CASE Put(q.name, Torn)
        BY <1>0, <1>1, <1>2, <2>2, FilePut DEF Torn
    <2> QED
        BY <2>1, <2>2 DEF PutFileFails
<1>4. Written(NoMediaReq)'
    BY OverFacts DEF Written
<1> QED
    BY <1>1, <1>2, <1>3, <1>4, OverFacts, FilesGo

\* A thumbnail is written.
LEMMA PutThumbInv == ASSUME MediaInv, NEW r \in MediaRequests, PutThumb(r) PROVE MediaInv'
<1>0. MediaTyped
    BY DEF MediaInv
<1> PICK q : q = mediaReq[r]
    OBVIOUS
<1> PICK t : t = ThumbOf(q.name)
    OBVIOUS
<1>1. /\ q.at = "thumb" /\ q \in UploadType /\ q.name \in q.names /\ q.upload \in 1..uploads /\ uploads \in Nat
      /\ q.names = Upload(q.name) /\ q.name \in MediaName /\ q.name.suffix <= uploads
      /\ t \in q.names /\ t \in MediaName /\ t # q.name
    BY <1>0, WorkFacts, MediaNames DEF PutThumb, MediaAt, Uploading, MediaTyped
<1> PICK rec : rec = [q EXCEPT !.at = "insert", !.thumb = t]
    OBVIOUS
<1>2. /\ rec \in UploadType /\ rec.names = q.names /\ rec.at = "insert" /\ rec.name = q.name
      /\ rec.upload = q.upload /\ rec.thumb = t
    BY <1>1 DEF UploadType, Uploading
<1>3. RequestMay(rec, uploads)
    BY <1>1, <1>2 DEF RequestMay, Uploading
<1>4. Put(t, q.upload) /\ MediaGoto(r, rec) /\ UNCHANGED <<media, uploads, crossed>>
    BY DEF PutThumb
<1>5. /\ files' \in [DOMAIN files' -> 0..uploads]
      /\ t \in DOMAIN files' /\ files'[t] = q.upload
      /\ \A f \in DOMAIN files : f # t => f \in DOMAIN files' /\ files'[f] = files[f]
    BY <1>0, <1>1, <1>4, FilePut
<1>6. Holds(q.name, q.upload)
    BY <1>1 DEF MediaInv, Written
<1>7. Written(rec)'
    BY <1>1, <1>2, <1>4, <1>5, <1>6 DEF Written, Holds
<1> QED
    BY <1>1, <1>2, <1>3, <1>4, <1>5, <1>7, FilesGo

\* A request goes to its clean-up.
LEMMA ToCleanUp ==
    ASSUME MediaInv, NEW r \in MediaRequests, mediaReq[r].at \in Uploading
    PROVE  LET rec == [mediaReq[r] EXCEPT !.at = "clean"] IN
           /\ rec \in UploadType /\ rec.names = mediaReq[r].names /\ rec.at = "clean"
           /\ RequestMay(rec, uploads) /\ Written(rec)
<1> PICK q : q = mediaReq[r]
    OBVIOUS
<1> PICK rec : rec = [q EXCEPT !.at = "clean"]
    OBVIOUS
<1>1. MediaTyped
    BY DEF MediaInv
<1>2. /\ q \in UploadType /\ q.name \in q.names /\ q.upload \in 1..uploads /\ uploads \in Nat
      /\ q.names = Upload(q.name) /\ q.name.suffix <= uploads /\ q.thumb \in {NoThumb} \cup q.names
    BY <1>1, WorkFacts DEF MediaTyped
<1>3. /\ rec \in UploadType /\ rec.names = q.names /\ rec.at = "clean" /\ rec.name = q.name
      /\ rec.upload = q.upload /\ rec.thumb = q.thumb
    BY <1>2 DEF UploadType, Uploading
<1>4. RequestMay(rec, uploads) /\ Written(rec)
    BY <1>2, <1>3 DEF RequestMay, Uploading, Written
<1> QED
    BY <1>3, <1>4

\* A thumbnail is not made.
LEMMA PutThumbFailsInv ==
    ASSUME MediaInv, NEW r \in MediaRequests, NEW torn \in BOOLEAN, PutThumbFails(r, torn)
    PROVE  MediaInv'
<1>0. MediaTyped
    BY DEF MediaInv
<1> PICK q : q = mediaReq[r]
    OBVIOUS
<1> PICK rec : rec = [q EXCEPT !.at = "clean"]
    OBVIOUS
<1> PICK t : t = ThumbOf(q.name)
    OBVIOUS
<1>1. q.at = "thumb" /\ t \in q.names /\ uploads \in Nat
    BY <1>0, WorkFacts DEF PutThumbFails, MediaAt, MediaTyped
<1>2. rec \in UploadType /\ rec.names = q.names /\ rec.at = "clean" /\ RequestMay(rec, uploads)
    BY <1>1, ToCleanUp DEF Uploading
<1>3. MediaGoto(r, rec) /\ UNCHANGED <<media, uploads, crossed>>
    BY DEF PutThumbFails
<1>4. /\ files' \in [DOMAIN files' -> 0..uploads]
      /\ \A f \in DOMAIN files : f # t => f \in DOMAIN files' /\ files'[f] = files[f]
    <2>1. CASE files' = files
        BY <2>1, <1>0 DEF MediaTyped
    <2>2. CASE Put(t, Torn)
        BY <1>0, <1>1, <1>3, <2>2, FilePut DEF Torn
    <2> QED
        BY <2>1, <2>2 DEF PutThumbFails
<1>5. Written(rec)'
    BY <1>2 DEF Written
<1> QED
    BY <1>1, <1>2, <1>3, <1>4, <1>5, FilesGo

\* A row is not made.
LEMMA InsertMediaFailsInv ==
    ASSUME MediaInv, NEW r \in MediaRequests, InsertMediaFails(r) PROVE MediaInv'
<1>0. MediaTyped
    BY DEF MediaInv
<1> PICK q : q = mediaReq[r]
    OBVIOUS
<1> PICK rec : rec = [q EXCEPT !.at = "clean"]
    OBVIOUS
<1>1. q.at = "insert"
    BY DEF InsertMediaFails, MediaAt
<1>2. rec \in UploadType /\ rec.names = q.names /\ rec.at = "clean" /\ RequestMay(rec, uploads)
    BY <1>1, ToCleanUp DEF Uploading
<1>3. MediaGoto(r, rec) /\ UNCHANGED <<media, uploads, crossed>> /\ files' = files
    BY DEF InsertMediaFails
<1>4. files' \in [DOMAIN files' -> 0..uploads]
    BY <1>0, <1>3 DEF MediaTyped
<1>5. Written(rec)'
    BY <1>2 DEF Written
<1> QED
    BY <1>1, <1>2, <1>3, <1>4, <1>5, FilesGo

\* A request ends with the removal of files of its names, or goes on to the next.
LEMMA FilesUnlinked ==
    ASSUME MediaInv, NEW r \in MediaRequests, mediaReq[r].at \in {"clean", "unlink", "unlinkThumb"},
           NEW names, Remove(names), names \cap MediaName \subseteq mediaReq[r].names,
           NEW rec \in {NoMediaReq, [mediaReq[r] EXCEPT !.at = "unlinkThumb"]}, MediaGoto(r, rec),
           rec = NoMediaReq \/ mediaReq[r].at = "unlink",
           UNCHANGED <<media, uploads, crossed>>
    PROVE  MediaInv'
<1> PICK q : q = mediaReq[r]
    OBVIOUS
<1>0. MediaTyped
    BY DEF MediaInv
<1>1. /\ files' \in [DOMAIN files' -> 0..uploads]
      /\ \A f \in DOMAIN files : f \notin names => f \in DOMAIN files' /\ files'[f] = files[f]
    BY <1>0, FilesRemoved
<1>2. /\ rec \in {NoMediaReq} \cup UploadType \cup UnlinkType /\ RequestMay(rec, uploads)
      /\ rec.at # "idle" => rec.names = q.names /\ rec.at = "unlinkThumb"
    <2>1. CASE rec = NoMediaReq
        BY <2>1, OverFacts
    <2>2. CASE rec # NoMediaReq
        <3>1. q.at = "unlink" /\ q \in UnlinkType /\ q.names = Deletion(q.name) /\ q.name.suffix <= uploads
            BY <2>2, <1>0, WorkFacts
        <3>2. rec \in UnlinkType /\ rec.names = q.names /\ rec.at = "unlinkThumb" /\ rec.name = q.name
            BY <2>2, <3>1 DEF UnlinkType
        <3> QED
            BY <3>1, <3>2 DEF RequestMay, Deletion, Uploading
    <2> QED
        BY <2>1, <2>2
<1>3. Written(rec)'
    BY <1>2, OverFacts DEF Written, NoMediaReq
<1> QED
    BY <1>1, <1>2, <1>3, FilesGo

\* The clean-up.
LEMMA CleanUpInv == ASSUME MediaInv, NEW r \in MediaRequests, CleanUp(r) PROVE MediaInv'
<1>1. MediaTyped /\ mediaReq[r].at = "clean"
    BY DEF MediaInv, CleanUp, MediaAt
<1>2. {mediaReq[r].name, mediaReq[r].thumb} \cap MediaName \subseteq mediaReq[r].names
    BY <1>1, WorkFacts, MediaNames DEF Uploading
<1>3. /\ Remove({mediaReq[r].name, mediaReq[r].thumb}) /\ MediaGoto(r, NoMediaReq)
      /\ UNCHANGED <<media, uploads, crossed>>
    BY DEF CleanUp
<1> QED
    BY <1>1, <1>2, <1>3, FilesUnlinked

\* The files of a deleted row are removed.
LEMMA UnlinkInv == ASSUME MediaInv, NEW r \in MediaRequests, Unlink(r) \/ UnlinkThumb(r) PROVE MediaInv'
<1>1. MediaTyped /\ mediaReq[r].at \in {"unlink", "unlinkThumb"}
    BY DEF MediaInv, Unlink, UnlinkThumb, MediaAt
<1>2. mediaReq[r].names = {mediaReq[r].name, ThumbOf(mediaReq[r].name)}
    BY <1>1, WorkFacts DEF Deletion
<1>3. CASE Unlink(r)
    <2>1. /\ Remove({mediaReq[r].name}) /\ mediaReq[r].at = "unlink"
          /\ MediaGoto(r, [mediaReq[r] EXCEPT !.at = "unlinkThumb"]) /\ UNCHANGED <<media, uploads, crossed>>
        BY <1>3 DEF Unlink, MediaAt
    <2>2. {mediaReq[r].name} \cap MediaName \subseteq mediaReq[r].names
        BY <1>2
    <2> QED
        BY <1>1, <2>1, <2>2, FilesUnlinked
<1>4. CASE UnlinkThumb(r)
    <2>1. /\ Remove({ThumbOf(mediaReq[r].name)}) /\ MediaGoto(r, NoMediaReq)
          /\ UNCHANGED <<media, uploads, crossed>>
        BY <1>4 DEF UnlinkThumb
    <2>2. {ThumbOf(mediaReq[r].name)} \cap MediaName \subseteq mediaReq[r].names
        BY <1>2
    <2> QED
        BY <1>1, <2>1, <2>2, FilesUnlinked
<1> QED
    BY <1>3, <1>4

\* What a request may hold, it may hold when more was uploaded.
LEMMA MayHoldLater ==
    ASSUME MediaTyped, NEW n \in Nat, uploads <= n, NEW r \in MediaRequests
    PROVE  RequestMay(mediaReq[r], n)
<1> PICK q : q = mediaReq[r]
    OBVIOUS
<1>1. RequestMay(q, uploads) /\ uploads \in Nat
    BY DEF MediaTyped
<1>2. q.at # "idle" => q.name.suffix \in Nat
    <2>1. q.at \in Uploading => q.name \in MediaName
        BY WorkFacts
    <2>2. q.at \in {"unlink", "unlinkThumb"} => q.name \in MediaName
        BY WorkFacts
    <2>3. q.at \in {"idle", "unlink", "unlinkThumb"} \cup Uploading
        BY MediaReqFacts
    <2> QED
        BY <2>1, <2>2, <2>3 DEF MediaName
<1>3. q.at \in Uploading => q.upload \in Nat
    BY WorkFacts, <1>1
<1> QED
    BY <1>1, <1>2, <1>3 DEF RequestMay

\* A step that leaves the files alone: a request takes up names that it crosses with the
\* others' and with the rows that stay, or goes on with those it has.
LEMMA FilesKept ==
    ASSUME MediaInv, NEW r \in MediaRequests, NEW rec \in {NoMediaReq} \cup UploadType \cup UnlinkType,
           MediaGoto(r, rec), files' = files, uploads' \in Nat, uploads <= uploads',
           crossed \subseteq crossed', media' \subseteq media,
           RequestMay(rec, uploads'), Written(rec),
           rec.at # "idle" =>
               /\ rec.at # "read"
               /\ \A o \in MediaRequests \ {r} :
                      ~MediaAt(o, "idle") => rec.names \cap mediaReq[o].names \subseteq crossed'
               /\ \A m \in media' : rec.names \cap {m.name, m.thumb} \subseteq crossed'
    PROVE  MediaInv'
<1>0. MediaTyped /\ OneAtWork /\ NoRowAtWork /\ MediaIntact
    BY DEF MediaInv
<1>1. /\ mediaReq' \in [MediaRequests -> {NoMediaReq} \cup UploadType \cup UnlinkType] /\ mediaReq'[r] = rec
      /\ \A o \in MediaRequests \ {r} : mediaReq'[o] = mediaReq[o]
    BY <1>0 DEF MediaTyped, MediaGoto
<1>2. MediaTyped'
    <2>1. \A o \in MediaRequests : RequestMay(mediaReq'[o], uploads')
        BY <1>0, <1>1, MayHoldLater
    <2>2. (\A o \in MediaRequests : RequestMay(mediaReq[o], uploads))'
        BY <2>1 DEF RequestMay
    <2>3. files' \in [DOMAIN files' -> 0..uploads']
        BY <1>0 DEF MediaTyped
    <2>4. media' \subseteq RowOfMedia /\ \A m \in media' : m.name.suffix <= uploads' /\ m.upload <= uploads'
        <3> SUFFICES ASSUME NEW m \in media'
                     PROVE  m \in RowOfMedia /\ m.name.suffix <= uploads' /\ m.upload <= uploads'
            OBVIOUS
        <3>1. /\ m \in RowOfMedia /\ m.name.suffix <= uploads /\ m.upload <= uploads
              /\ m.name.suffix \in Nat /\ m.upload \in Nat /\ uploads \in Nat
            BY <1>0 DEF MediaTyped, RowOfMedia, MediaName
        <3> QED
            BY <3>1
    <2> QED
        BY <1>1, <2>2, <2>3, <2>4 DEF MediaTyped
<1>3. OneAtWork'
    <2> SUFFICES ASSUME NEW a \in MediaRequests, NEW b \in MediaRequests, a # b,
                        mediaReq'[a].at # "idle", mediaReq'[b].at # "idle"
                 PROVE  mediaReq'[a].names \cap mediaReq'[b].names \subseteq crossed'
        BY DEF OneAtWork, MediaAt
    <2>1. CASE a = r
        BY <1>1, <2>1 DEF MediaAt
    <2>2. CASE b = r
        BY <1>1, <2>2 DEF MediaAt
    <2>3. CASE a # r /\ b # r
        BY <1>0, <1>1, <2>3 DEF OneAtWork, MediaAt
    <2> QED
        BY <2>1, <2>2, <2>3
<1>4. NoRowAtWork'
    <2> SUFFICES ASSUME NEW o \in MediaRequests, mediaReq'[o].at \notin {"idle", "read"}, NEW m \in media'
                 PROVE  mediaReq'[o].names \cap {m.name, m.thumb} \subseteq crossed'
        BY DEF NoRowAtWork
    <2>1. CASE o = r
        BY <1>1, <2>1
    <2>2. CASE o # r
        BY <1>0, <1>1, <2>2 DEF NoRowAtWork
    <2> QED
        BY <2>1, <2>2
<1>5. MediaIntact'
    BY <1>0 DEF MediaIntact
<1>6. ASSUME NEW o \in MediaRequests PROVE Written(mediaReq[o])'
    <2>1. Written(mediaReq'[o])
        BY <1>1 DEF MediaInv
    <2> QED
        BY <2>1 DEF Written, Holds
<1> QED
    BY <1>2, <1>3, <1>4, <1>5, <1>6 DEF MediaInv

\* A request for names is crossed with the others and with the rows given.
LEMMA CrossFacts ==
    ASSUME NEW r \in MediaRequests, NEW names, NEW rows, Cross(r, names, rows)
    PROVE  /\ crossed \subseteq crossed'
           /\ \A o \in MediaRequests \ {r} : ~MediaAt(o, "idle") => names \cap mediaReq[o].names \subseteq crossed'
           /\ \A m \in rows : names \cap {m.name, m.thumb} \subseteq crossed'
<1> DEFINE busy == UNION {mediaReq[o].names : o \in {o \in MediaRequests \ {r} : ~MediaAt(o, "idle")}}
           kept == UNION {{m.name, m.thumb} : m \in rows}
<1>1. crossed' = crossed \cup (names \cap (busy \cup kept))
    BY DEF Cross
<1>2. \A o \in MediaRequests \ {r} : ~MediaAt(o, "idle") => mediaReq[o].names \subseteq busy
    OBVIOUS
<1>3. \A m \in rows : {m.name, m.thumb} \subseteq kept
    OBVIOUS
<1> HIDE DEF busy, kept
<1> QED
    BY <1>1, <1>2, <1>3

\* An upload begins: no row has the name it is given, unless the question failed.
LEMMA UploadMediaInv ==
    ASSUME MediaInv, NEW r \in MediaRequests, NEW kind \in MediaKinds, NEW thumbs \in 0..1,
           NEW fails \in BOOLEAN, UploadMedia(r, kind, thumbs, fails)
    PROVE  MediaInv'
<1>0. MediaTyped
    BY DEF MediaInv
<1> PICK given : given = [kind |-> kind, thumbs |-> thumbs, suffix |-> 0]
    OBVIOUS
<1> PICK n : n = UniqueName(given, Named(given) # {} /\ ~fails)
    OBVIOUS
<1> PICK u : u = uploads'
    OBVIOUS
<1>1. u = uploads + 1 /\ uploads \in Nat /\ u \in Nat \ {0}
    BY <1>0 DEF UploadMedia, MediaTyped
<1>2. given \in MediaName
    BY MediaAssumption DEF MediaName
<1>3. n = given \/ n = [given EXCEPT !.suffix = u]
    BY DEF UniqueName
<1>4. n \in MediaName /\ n.suffix <= u
    BY <1>1, <1>2, <1>3 DEF MediaName
<1>5. ~fails => Named(n) = {}
    <2>1. CASE Named(given) = {}
        BY <2>1 DEF UniqueName
    <2>2. CASE Named(given) # {} /\ ~fails
        <3>1. n.suffix = u
            BY <1>2, <2>2 DEF UniqueName, MediaName
        <3>2. \A m \in media : m.name.suffix <= uploads /\ m.name.suffix \in Nat
            BY <1>0 DEF MediaTyped, RowOfMedia, MediaName
        <3> QED
            BY <1>1, <3>1, <3>2 DEF Named
    <2> QED
        BY <2>1, <2>2
<1> PICK rec : rec = [at |-> "put", name |-> n, thumb |-> NoThumb, names |-> Upload(n), upload |-> u]
    OBVIOUS
<1>6. rec \in UploadType /\ rec.at = "put" /\ rec.names = Upload(n) /\ rec.name = n /\ rec.upload = u
      /\ rec.thumb = NoThumb
    BY <1>1, <1>4, MediaNames DEF UploadType, Uploading
<1>7. RequestMay(rec, u) /\ Written(rec)
    BY <1>1, <1>4, <1>6 DEF RequestMay, Written, Upload, Uploading
<1>8. MediaGoto(r, rec) /\ files' = files /\ media' = media
    BY DEF UploadMedia
<1>9. Cross(r, Upload(n), IF fails THEN media ELSE media \ Named(n))
    BY DEF UploadMedia
<1>10. (IF fails THEN media ELSE media \ Named(n)) = media
    BY <1>5
<1>11. Cross(r, Upload(n), media)
    BY <1>9, <1>10
<1>12. /\ crossed \subseteq crossed'
       /\ \A o \in MediaRequests \ {r} : ~MediaAt(o, "idle") => rec.names \cap mediaReq[o].names \subseteq crossed'
       /\ \A m \in media : rec.names \cap {m.name, m.thumb} \subseteq crossed'
    BY <1>6, <1>11, CrossFacts
<1>13. uploads <= uploads' /\ uploads' \in Nat
    BY <1>1
<1> QED
    BY <1>6, <1>7, <1>8, <1>12, <1>13, FilesKept

\* A row is deleted, whose files are now the request's.
LEMMA DeleteMediaInv ==
    ASSUME MediaInv, NEW r \in MediaRequests, NEW m \in media, DeleteMedia(r, m)
    PROVE  MediaInv'
<1>0. MediaTyped
    BY DEF MediaInv
<1> PICK n : n = m.name
    OBVIOUS
<1> PICK rec : rec = [at |-> "unlink", name |-> n, names |-> Deletion(n)]
    OBVIOUS
<1>1. n \in MediaName /\ n.suffix <= uploads /\ uploads \in Nat
    BY <1>0 DEF MediaTyped, RowOfMedia
<1>2. rec \in UnlinkType /\ rec.at = "unlink" /\ rec.names = Deletion(n) /\ rec.name = n
    BY <1>1, MediaNames DEF UnlinkType
<1>3. RequestMay(rec, uploads) /\ Written(rec)
    BY <1>1, <1>2 DEF RequestMay, Written, Deletion, Uploading
<1>4. MediaGoto(r, rec) /\ files' = files /\ media' \subseteq media /\ uploads' = uploads
    BY DEF DeleteMedia
<1>5. Cross(r, rec.names, media')
    BY <1>2 DEF DeleteMedia
<1>6. /\ crossed \subseteq crossed'
      /\ \A o \in MediaRequests \ {r} : ~MediaAt(o, "idle") => rec.names \cap mediaReq[o].names \subseteq crossed'
      /\ \A x \in media' : rec.names \cap {x.name, x.thumb} \subseteq crossed'
    BY <1>5, CrossFacts
<1> QED
    BY <1>1, <1>2, <1>3, <1>4, <1>6, FilesKept

\* The row that was made is read, or it is gone, and what it was made of is to go.
LEMMA ReadMediaInv ==
    ASSUME MediaInv, NEW r \in MediaRequests, ReadMedia(r) \/ ReadMediaFails(r)
    PROVE  MediaInv'
<1>0. MediaTyped /\ OneAtWork /\ uploads \in Nat
    BY DEF MediaInv, MediaTyped
<1>1. CASE ReadMedia(r)
    <2>1. /\ MediaGoto(r, NoMediaReq) /\ files' = files /\ media' = media /\ uploads' = uploads
          /\ crossed' = crossed
        BY <1>1 DEF ReadMedia
    <2>2. RequestMay(NoMediaReq, uploads') /\ Written(NoMediaReq) /\ NoMediaReq.at = "idle"
        BY OverFacts, <2>1
    <2> QED
        BY <1>0, <2>1, <2>2, FilesKept
<1>2. CASE ReadMediaFails(r)
    <2> PICK q : q = mediaReq[r]
        OBVIOUS
    <2> PICK rec : rec = [q EXCEPT !.at = "clean"]
        OBVIOUS
    <2>1. q.at = "read"
        BY <1>2 DEF ReadMediaFails, MediaAt
    <2>2. rec \in UploadType /\ rec.names = q.names /\ rec.at = "clean" /\ RequestMay(rec, uploads) /\ Written(rec)
        BY <2>1, ToCleanUp DEF Uploading
    <2>3. /\ MediaGoto(r, rec) /\ files' = files /\ media' = media /\ uploads' = uploads
          /\ crossed' = crossed \cup rec.names
        BY <1>2, <2>2 DEF ReadMediaFails
    <2>4. RequestMay(rec, uploads')
        BY <2>2, <2>3
    <2>5. rec.names \subseteq crossed' /\ crossed \subseteq crossed'
        BY <2>3
    <2>6. uploads <= uploads' /\ uploads' \in Nat /\ media' \subseteq media
        BY <1>0, <2>3
    <2>7. rec \in {NoMediaReq} \cup UploadType \cup UnlinkType
        BY <2>2
    <2> QED
        BY <2>2, <2>3, <2>4, <2>5, <2>6, <2>7, FilesKept
<1> QED
    BY <1>1, <1>2

\* The row of an upload is made: its files are there, and nobody is about to touch them.
LEMMA InsertMediaInv == ASSUME MediaInv, NEW r \in MediaRequests, InsertMedia(r) PROVE MediaInv'
<1>0. MediaTyped /\ OneAtWork /\ NoRowAtWork /\ MediaIntact
    BY DEF MediaInv
<1> PICK q : q = mediaReq[r]
    OBVIOUS
<1> PICK row : row = [name |-> q.name, thumb |-> q.thumb, upload |-> q.upload]
    OBVIOUS
<1> PICK rec : rec = [q EXCEPT !.at = "read"]
    OBVIOUS
<1>1. /\ q.at = "insert" /\ q \in UploadType /\ q.name \in q.names /\ q.upload \in 1..uploads /\ uploads \in Nat
      /\ q.names = Upload(q.name) /\ q.name \in MediaName /\ q.name.suffix <= uploads
      /\ q.thumb \in {NoThumb} \cup q.names /\ q.names \subseteq MediaName
    BY <1>0, WorkFacts DEF InsertMedia, MediaAt, Uploading, MediaTyped
<1>2. /\ rec \in UploadType /\ rec.names = q.names /\ rec.at = "read" /\ rec.name = q.name
      /\ rec.upload = q.upload /\ rec.thumb = q.thumb
    BY <1>1 DEF UploadType, Uploading
<1>3. RequestMay(rec, uploads) /\ Written(rec)
    BY <1>1, <1>2 DEF RequestMay, Uploading, Written
<1>4. row \in RowOfMedia /\ row.name = q.name /\ row.thumb = q.thumb /\ row.upload = q.upload
    BY <1>1 DEF RowOfMedia
<1>5. media' = media \cup {row} /\ MediaGoto(r, rec) /\ UNCHANGED <<files, uploads, crossed>>
    BY DEF InsertMedia
<1>6. /\ mediaReq' \in [MediaRequests -> {NoMediaReq} \cup UploadType \cup UnlinkType] /\ mediaReq'[r] = rec
      /\ \A o \in MediaRequests \ {r} : mediaReq'[o] = mediaReq[o]
    BY <1>0, <1>2, <1>5 DEF MediaTyped, MediaGoto
<1>7. MediaTyped'
    <2>1. \A o \in MediaRequests : RequestMay(mediaReq'[o], uploads)
        BY <1>0, <1>3, <1>6 DEF MediaTyped
    <2>2. (\A o \in MediaRequests : RequestMay(mediaReq[o], uploads))'
        BY <2>1, <1>5 DEF RequestMay
    <2>3. media' \subseteq RowOfMedia /\ \A m \in media' : m.name.suffix <= uploads /\ m.upload <= uploads
        BY <1>0, <1>1, <1>4, <1>5 DEF MediaTyped
    <2> QED
        BY <1>0, <1>5, <1>6, <2>2, <2>3 DEF MediaTyped
<1>8. OneAtWork'
    <2> SUFFICES ASSUME NEW a \in MediaRequests, NEW b \in MediaRequests, a # b,
                        mediaReq'[a].at # "idle", mediaReq'[b].at # "idle"
                 PROVE  mediaReq'[a].names \cap mediaReq'[b].names \subseteq crossed
        BY <1>5 DEF OneAtWork, MediaAt
    <2>1. ASSUME NEW o \in MediaRequests, mediaReq'[o].at # "idle"
          PROVE  mediaReq'[o].names = mediaReq[o].names /\ mediaReq[o].at # "idle"
        BY <1>1, <1>2, <1>6, <2>1
    <2>2. mediaReq[a].at # "idle" /\ mediaReq[b].at # "idle"
        BY <2>1
    <2>3. mediaReq[a].names \cap mediaReq[b].names \subseteq crossed
        BY <1>0, <2>2 DEF OneAtWork, MediaAt
    <2> QED
        BY <2>1, <2>3
<1>9. NoRowAtWork'
    <2> SUFFICES ASSUME NEW o \in MediaRequests, mediaReq'[o].at \notin {"idle", "read"}, NEW m \in media'
                 PROVE  mediaReq'[o].names \cap {m.name, m.thumb} \subseteq crossed
        BY <1>5 DEF NoRowAtWork
    <2>1. o # r /\ mediaReq'[o] = mediaReq[o]
        BY <1>2, <1>6
    <2>2. CASE m \in media
        BY <1>0, <2>1, <2>2 DEF NoRowAtWork
    <2>3. CASE m = row
        <3>1. mediaReq[o].names \cap q.names \subseteq crossed
            BY <1>0, <1>1, <2>1 DEF OneAtWork, MediaAt
        <3>2. mediaReq[o].names \subseteq MediaName
            <4>1. mediaReq[o] \in UploadType \cup UnlinkType
                BY <1>0, <2>1, MediaReqFacts
            <4> QED
                BY <4>1 DEF UploadType, UnlinkType
        <3> QED
            BY <1>1, <1>4, <2>1, <2>3, <3>1, <3>2, MediaNames
    <2> QED
        BY <1>5, <2>2, <2>3
<1>10. MediaIntact'
    <2>1. Written(q)
        BY DEF MediaInv
    <2>2. \A n \in {row.name, row.thumb} \ ({NoThumb} \cup crossed) : n \in DOMAIN files /\ files[n] = row.upload
        BY <1>1, <1>4, <2>1 DEF Written, Holds
    <2> QED
        BY <1>0, <1>5, <2>2 DEF MediaIntact
<1>11. ASSUME NEW o \in MediaRequests PROVE Written(mediaReq[o])'
    <2>1. Written(mediaReq'[o])
        BY <1>3, <1>6 DEF MediaInv
    <2> QED
        BY <1>5, <2>1 DEF Written, Holds
<1> QED
    BY <1>7, <1>8, <1>9, <1>10, <1>11 DEF MediaInv

\* The process starts again, and no request is left.
LEMMA RestartMediaInv == MediaInv /\ RestartMedia => MediaInv'
<1> SUFFICES ASSUME MediaInv, RestartMedia PROVE MediaInv'
    OBVIOUS
<1>0. MediaTyped /\ MediaIntact
    BY DEF MediaInv
<1>1. /\ \A r \in MediaRequests : mediaReq'[r] = NoMediaReq
      /\ mediaReq' \in [MediaRequests -> {NoMediaReq} \cup UploadType \cup UnlinkType]
      /\ UNCHANGED <<files, media, uploads, crossed>>
    BY DEF RestartMedia
<1>2. MediaTyped'
    <2>1. (\A r \in MediaRequests : RequestMay(mediaReq[r], uploads))'
        BY <1>1, OverFacts DEF RequestMay
    <2> QED
        BY <1>0, <1>1, <2>1 DEF MediaTyped
<1>3. OneAtWork' /\ NoRowAtWork'
    BY <1>1, OverFacts DEF OneAtWork, NoRowAtWork, MediaAt
<1>4. MediaIntact'
    BY <1>0, <1>1 DEF MediaIntact
<1>5. ASSUME NEW o \in MediaRequests PROVE Written(mediaReq[o])'
    BY <1>1, OverFacts DEF Written
<1> QED
    BY <1>2, <1>3, <1>4, <1>5 DEF MediaInv

\* A step of the other components.
LEMMA MediaStays == MediaInv /\ UNCHANGED mediaVars => MediaInv'
<1> SUFFICES ASSUME MediaInv, UNCHANGED mediaVars PROVE MediaInv'
    OBVIOUS
<1>1. files' = files /\ media' = media /\ mediaReq' = mediaReq /\ uploads' = uploads /\ crossed' = crossed
    BY DEF mediaVars
<1> QED
    BY <1>1 DEF MediaInv, MediaTyped, OneAtWork, NoRowAtWork, MediaIntact, Written, Holds, RequestMay, MediaAt

\* Every step preserves the invariant.
LEMMA MediaNextInv == MediaInv /\ (MediaNext \/ UNCHANGED mediaVars) => MediaInv'
<1> SUFFICES ASSUME MediaInv, MediaNext \/ UNCHANGED mediaVars PROVE MediaInv'
    OBVIOUS
<1>1. CASE \E r \in MediaRequests : \E kind \in MediaKinds, thumbs \in 0..1, fails \in BOOLEAN :
                UploadMedia(r, kind, thumbs, fails)
    BY <1>1, UploadMediaInv
<1>2. CASE \E r \in MediaRequests : PutFile(r) \/ PutFileFails(r) \/ PutThumb(r)
    BY <1>2, PutFileInv, PutFileFailsInv, PutThumbInv
<1>3. CASE \E r \in MediaRequests : \E torn \in BOOLEAN : PutThumbFails(r, torn)
    BY <1>3, PutThumbFailsInv
<1>4. CASE \E r \in MediaRequests : InsertMedia(r) \/ InsertMediaFails(r)
    BY <1>4, InsertMediaInv, InsertMediaFailsInv
<1>5. CASE \E r \in MediaRequests : ReadMedia(r) \/ ReadMediaFails(r) \/ CleanUp(r)
    BY <1>5, ReadMediaInv, CleanUpInv
<1>6. CASE \E r \in MediaRequests : \E m \in media : DeleteMedia(r, m)
    BY <1>6, DeleteMediaInv
<1>7. CASE \E r \in MediaRequests : Unlink(r) \/ UnlinkThumb(r)
    BY <1>7, UnlinkInv
<1>8. CASE RestartMedia
    BY <1>8, RestartMediaInv
<1>9. CASE UNCHANGED mediaVars
    BY <1>9, MediaStays
<1> QED
    BY <1>1, <1>2, <1>3, <1>4, <1>5, <1>6, <1>7, <1>8, <1>9 DEF MediaNext

\* What the invariant says of the properties.
LEMMA MediaMeans == MediaInv => MediaIntact /\ MediaTypeOK
<1> SUFFICES ASSUME MediaInv PROVE MediaIntact /\ MediaTypeOK
    OBVIOUS
<1>1. \A f \in DOMAIN files : files[f] \in 0..uploads
    BY DEF MediaInv, MediaTyped
<1>2. \A m \in media : m.upload \in 1..uploads
    BY DEF MediaInv, MediaTyped, RowOfMedia
<1> QED
    BY <1>1, <1>2 DEF MediaInv, MediaTypeOK

-----------------------------------------------------------------------------
(* Upgrade.                                                                *)

\* How many statements a migration has.
Size(m) == Len(migList[m])

\* The list, one by one.
LEMMA ListFacts ==
    /\ Last = 24
    /\ migList[1] = V0_4_0 /\ migList[2] = V0_7_0 /\ migList[3] = V0_8_0 /\ migList[4] = V0_9_0
    /\ migList[5] = V1_0_0 /\ migList[6] = V2_0_0 /\ migList[7] = V2_1_0 /\ migList[8] = V2_2_0
    /\ migList[9] = V2_3_0 /\ migList[10] = V2_4_0 /\ migList[11] = V2_5_0 /\ migList[12] = V3_0_0
    /\ migList[13] = V4_0_0 /\ migList[14] = V4_1_0 /\ migList[15] = V5_0_0 /\ migList[16] = V5_1_0
    /\ migList[17] = V6_0_0 /\ migList[18] = V6_1_0 /\ migList[19] = V6_2_0 /\ migList[20] = V6_3_0
    /\ migList[21] = V6_4_0 /\ migList[22] = V6_5_0 /\ migList[23] = V6_6_0 /\ migList[24] = V6_7_0
<1> QED
    BY DEF Last, migList

\* The migrations have 1 to 7 statements.
LEMMA Lengths == Last = 24 /\ \A m \in 1..Last : Size(m) \in 1..7
<1>1. /\ Size(1) = 1 /\ Size(2) = 3 /\ Size(3) = 1 /\ Size(4) = 2 /\ Size(5) = 2 /\ Size(6) = 6
      /\ Size(7) = 3 /\ Size(8) = 5
    BY ListFacts DEF Size, V0_4_0, V0_7_0, V0_8_0, V0_9_0, V1_0_0, V2_0_0, V2_1_0, V2_2_0
<1>2. /\ Size(9) = 4 /\ Size(10) = 1 /\ Size(11) = 3 /\ Size(12) = 5 /\ Size(13) = 5 /\ Size(14) = 1
      /\ Size(15) = 7 /\ Size(16) = 4
    BY ListFacts DEF Size, V2_3_0, V2_4_0, V2_5_0, V3_0_0, V4_0_0, V4_1_0, V5_0_0, V5_1_0
<1>3. /\ Size(17) = 4 /\ Size(18) = 4 /\ Size(19) = 6 /\ Size(20) = 2 /\ Size(21) = 1 /\ Size(22) = 1
      /\ Size(23) = 2 /\ Size(24) = 2
    BY ListFacts DEF Size, V6_0_0, V6_1_0, V6_2_0, V6_3_0, V6_4_0, V6_5_0, V6_6_0, V6_7_0
<1>4. \A m \in 1..24 : Size(m) \in 1..7
    BY <1>1, <1>2, <1>3
<1> QED
    BY <1>4, ListFacts

\* A statement of the first n migrations is one of one of them.
LEMMA StatementPair ==
    ASSUME NEW n \in 0..Last, NEW s
    PROVE  s \in Statements(n) <=> \E m \in 1..n : \E i \in 1..Size(m) : s = <<m, i>>
<1>1. ASSUME NEW m \in 1..n, NEW i \in 1..Size(m) PROVE i \in 1..7
    <2>1. m \in 1..Last
        BY Lengths
    <2>2. Size(m) \in 1..7
        BY <2>1, Lengths
    <2> QED
        BY <2>2
<1>2. Statements(n) = {<<m, i>> : m \in 1..n, i \in 1..7} \cap UNION {{m} \X (1..Size(m)) : m \in 1..n}
    BY DEF Statements, Size
<1> QED
    BY <1>1, <1>2

\* The same, of a pair.
LEMMA StatementAt ==
    ASSUME NEW n \in 0..Last, NEW m, NEW i
    PROVE  <<m, i>> \in Statements(n) <=> m \in 1..n /\ i \in 1..Size(m)
<1> QED
    BY StatementPair

\* The same, of a statement.
LEMMA StatementIs ==
    ASSUME NEW n \in 0..Last, NEW s \in Statements(n)
    PROVE  s = <<s[1], s[2]>> /\ s[1] \in 1..n /\ s[2] \in 1..Size(s[1])
<1>1. PICK m \in 1..n : \E i \in 1..Size(m) : s = <<m, i>>
    BY StatementPair
<1> QED
    BY <1>1

\* The statements that do more than be there: two add a sample, three a setting that three
\* others take away.
Special(s, d) ==
    \/ s = <<6, 3>> /\ d = AddSetting("bounce.count")
    \/ s = <<8, 5>> /\ d = Sample
    \/ s = <<10, 1>> /\ d = AddSetting("security.enable_captcha")
    \/ s = <<11, 2>> /\ d = DropSetting("bounce.count")
    \/ s = <<15, 7>> /\ d = Sample
    \/ s = <<16, 3>> /\ d = DropSetting("security.enable_captcha")
    \/ s = <<17, 1>> /\ d = AddSetting("security.cors_origins")
    \/ s = <<19, 5>> /\ d = [does |-> "rename", key |-> "security.cors_origins"]
SpecialOnes == {<<6, 3>>, <<8, 5>>, <<10, 1>>, <<11, 2>>, <<15, 7>>, <<16, 3>>, <<17, 1>>, <<19, 5>>}

\* The statements that do more than be there, in migList.
LEMMA WhatStatementsDo ==
    ASSUME NEW m \in 1..Last, NEW i \in 1..Size(m)
    PROVE  (Does(<<m, i>>) = Once /\ <<m, i>> \notin SpecialOnes) \/ Special(<<m, i>>, Does(<<m, i>>))
<1>0. Does(<<m, i>>) = migList[m][i]
    BY DEF Does
<1>1. CASE m \in {1, 2, 3, 4, 5, 7}
    <2>1. migList[m] \in {V0_4_0, V0_7_0, V0_8_0, V0_9_0, V1_0_0, V2_1_0}
        BY <1>1, ListFacts
    <2>2. migList[m][i] = Once
        BY <2>1 DEF Size, V0_4_0, V0_7_0, V0_8_0, V0_9_0, V1_0_0, V2_1_0
    <2> QED
        BY <1>0, <1>1, <2>2 DEF SpecialOnes
<1>2. CASE m \in {9, 12, 13, 14, 18}
    <2>1. migList[m] \in {V2_3_0, V3_0_0, V4_0_0, V4_1_0, V6_1_0}
        BY <1>2, ListFacts
    <2>2. migList[m][i] = Once
        BY <2>1 DEF Size, V2_3_0, V3_0_0, V4_0_0, V4_1_0, V6_1_0
    <2> QED
        BY <1>0, <1>2, <2>2 DEF SpecialOnes
<1>3. CASE m \in {20, 21, 22, 23, 24}
    <2>1. migList[m] \in {V6_3_0, V6_4_0, V6_5_0, V6_6_0, V6_7_0}
        BY <1>3, ListFacts
    <2>2. migList[m][i] = Once
        BY <2>1 DEF Size, V6_3_0, V6_4_0, V6_5_0, V6_6_0, V6_7_0
    <2> QED
        BY <1>0, <1>3, <2>2 DEF SpecialOnes
<1>4. CASE m = 6
    <2>1. migList[m] = V2_0_0
        BY <1>4, ListFacts
    <2>2. migList[m][i] = IF i = 3 THEN AddSetting("bounce.count") ELSE Once
        BY <2>1 DEF Size, V2_0_0
    <2> QED
        BY <1>0, <1>4, <2>2 DEF Special, SpecialOnes
<1>5. CASE m = 8
    <2>1. migList[m] = V2_2_0
        BY <1>5, ListFacts
    <2>2. migList[m][i] = IF i = 5 THEN Sample ELSE Once
        BY <2>1 DEF Size, V2_2_0
    <2> QED
        BY <1>0, <1>5, <2>2 DEF Special, SpecialOnes
<1>6. CASE m = 10
    <2>1. migList[m] = V2_4_0
        BY <1>6, ListFacts
    <2>2. migList[m][i] = IF i = 1 THEN AddSetting("security.enable_captcha") ELSE Once
        BY <2>1 DEF Size, V2_4_0
    <2> QED
        BY <1>0, <1>6, <2>2 DEF Special, SpecialOnes
<1>7. CASE m = 11
    <2>1. migList[m] = V2_5_0
        BY <1>7, ListFacts
    <2>2. migList[m][i] = IF i = 2 THEN DropSetting("bounce.count") ELSE Once
        BY <2>1 DEF Size, V2_5_0
    <2> QED
        BY <1>0, <1>7, <2>2 DEF Special, SpecialOnes
<1>8. CASE m = 15
    <2>1. migList[m] = V5_0_0
        BY <1>8, ListFacts
    <2>2. migList[m][i] = IF i = 7 THEN Sample ELSE Once
        BY <2>1 DEF Size, V5_0_0
    <2> QED
        BY <1>0, <1>8, <2>2 DEF Special, SpecialOnes
<1>9. CASE m = 16
    <2>1. migList[m] = V5_1_0
        BY <1>9, ListFacts
    <2>2. migList[m][i] = IF i = 3 THEN DropSetting("security.enable_captcha") ELSE Once
        BY <2>1 DEF Size, V5_1_0
    <2> QED
        BY <1>0, <1>9, <2>2 DEF Special, SpecialOnes
<1>10. CASE m = 17
    <2>1. migList[m] = V6_0_0
        BY <1>10, ListFacts
    <2>2. migList[m][i] = IF i = 1 THEN AddSetting("security.cors_origins") ELSE Once
        BY <2>1 DEF Size, V6_0_0
    <2> QED
        BY <1>0, <1>10, <2>2 DEF Special, SpecialOnes
<1>11. CASE m = 19
    <2>1. migList[m] = V6_2_0
        BY <1>11, ListFacts
    <2>2. migList[m][i] = IF i = 5 THEN [does |-> "rename", key |-> "security.cors_origins"] ELSE Once
        BY <2>1 DEF Size, V6_2_0
    <2> QED
        BY <1>0, <1>11, <2>2 DEF Special, SpecialOnes
<1> QED
    BY <1>1, <1>2, <1>3, <1>4, <1>5, <1>6, <1>7, <1>8, <1>9, <1>10, <1>11, Lengths


\* What each of them does, and the samples.
LEMMA DoesFacts ==
    /\ Once.does = "once" /\ Once.key = "none" /\ Sample.does = "sample" /\ Sample.key = "none"
    /\ \A k : /\ AddSetting(k).does = "add" /\ AddSetting(k).key = k
              /\ DropSetting(k).does = "drop" /\ DropSetting(k).key = k
<1> QED
    BY DEF Once, Sample, AddSetting, DropSetting

\* Two statements add a sample.
LEMMA SampleFacts ==
    /\ Samples = {<<8, 5>>, <<15, 7>>}
    /\ \A s \in Everything : Does(s).does = "sample" <=> s \in Samples
<1>1. ASSUME NEW s \in Everything PROVE s = <<s[1], s[2]>> /\ s[1] \in 1..Last /\ s[2] \in 1..Size(s[1])
    BY StatementIs, Lengths DEF Everything
<1>2. ASSUME NEW s \in Everything
      PROVE  /\ Does(s) = Sample <=> s \in {<<8, 5>>, <<15, 7>>}
             /\ Does(s).does = "sample" <=> s \in {<<8, 5>>, <<15, 7>>}
    <2>1. (Does(s) = Once /\ s \notin SpecialOnes) \/ Special(s, Does(s))
        BY <1>1, WhatStatementsDo
    <2>2. CASE Does(s) = Once /\ s \notin SpecialOnes
        BY <2>2, DoesFacts DEF SpecialOnes
    <2>3. CASE Special(s, Does(s))
        BY <2>3, DoesFacts DEF Special
    <2> QED
        BY <2>1, <2>2, <2>3
<1>3. <<8, 5>> \in Everything /\ <<15, 7>> \in Everything
    <2>1. Size(8) = 5 /\ Size(15) = 7
        BY ListFacts DEF V2_2_0, V5_0_0, Size
    <2>2. Last \in 0..Last /\ 8 \in 1..Last /\ 5 \in 1..Size(8) /\ 15 \in 1..Last /\ 7 \in 1..Size(15)
        BY <2>1, Lengths
    <2> QED
        BY <2>1, <2>2, StatementAt DEF Everything
<1> QED
    BY <1>2, <1>3 DEF Samples

\* The processes: what they may hold, and what is applied for it.
ProcessType ==
    {NoProcess} \cup [at : {"serving", "installed", "samples"}] \cup
    [at : {"run", "record"}, mig : 1..Last, stmt : 1..7, record : BOOLEAN]

\* The statements a process has run or found recorded.
Upto(m, i) == Statements(m - 1) \cup {<<m, j>> : j \in 1..(i - 1)}

\* What must be applied for what a process is at.
ProcessMay(q, A) ==
    /\ q.at = "run" => q.stmt \in 1..Size(q.mig) /\ Upto(q.mig, q.stmt) \subseteq A
    /\ q.at = "record" => q.stmt \in 1..Size(q.mig) /\ q.record /\ Statements(q.mig) \subseteq A
    /\ q.at \in {"installed", "samples", "serving"} => A = Everything

SchemaInv ==
    /\ applied \subseteq Everything /\ recorded \in 0..Last
    /\ Statements(recorded) \subseteq applied
    /\ tables \in BOOLEAN
    /\ hasSettings \in BOOLEAN /\ (hasSettings <=> <<WithSettings, 2>> \in applied)
    /\ process \in [Processes -> ProcessType]
    /\ \A p \in Processes : ProcessMay(process[p], applied)

\* What a process holds.
LEMMA ProcessFacts ==
    ASSUME SchemaInv, NEW p \in Processes
    PROVE  /\ process[p] \in ProcessType /\ ProcessMay(process[p], applied)
           /\ process[p].at \in {"none", "serving", "installed", "samples", "run", "record"}
           /\ process[p].at = "none" => process[p] = NoProcess
           /\ process[p].at \in {"run", "record"} =>
                process[p] \in [at : {"run", "record"}, mig : 1..Last, stmt : 1..7, record : BOOLEAN]
<1>1. process[p] \in ProcessType /\ ProcessMay(process[p], applied)
    BY DEF SchemaInv
<1> QED
    BY <1>1 DEF ProcessType, NoProcess

\* The statements up to one, and the next.
LEMMA UptoNext ==
    ASSUME NEW m \in 1..Last, NEW i \in 1..Size(m)
    PROVE  /\ Upto(m, i + 1) = Upto(m, i) \cup {<<m, i>>}
           /\ <<m, i>> \notin Upto(m, i) /\ <<m, i>> \in Everything
           /\ i = Size(m) => Upto(m, i + 1) = Statements(m)
           /\ Upto(m, 1) = Statements(m - 1)
<1>1. /\ Size(m) \in 1..7 /\ Last = 24 /\ m \in Nat /\ i \in Nat /\ m - 1 \in 0..Last /\ m \in 0..Last
      /\ Last \in 0..Last
    BY Lengths
<1>2. \A j : j \in 1..(i + 1 - 1) <=> j \in 1..(i - 1) \/ j = i
    BY <1>1
<1>3. Upto(m, i + 1) = Upto(m, i) \cup {<<m, i>>}
    BY <1>2 DEF Upto
<1>a. m \in 0..Last
    BY <1>1
<1>b. m - 1 \in 0..Last /\ m \notin 1..(m - 1)
    BY <1>1
<1>4. <<m, i>> \notin Statements(m - 1)
    BY <1>b, StatementAt
<1>5. <<m, i>> \notin Upto(m, i)
    BY <1>1, <1>4 DEF Upto
<1>6. <<m, i>> \in Everything
    BY <1>1, StatementAt DEF Everything
<1>7. ASSUME i = Size(m) PROVE Upto(m, i + 1) = Statements(m)
    <2>1. ASSUME NEW s \in Statements(m) PROVE s \in Upto(m, i + 1)
        <3>1. PICK a \in 1..m : \E b \in 1..Size(a) : s = <<a, b>>
            BY <1>a, <2>1, StatementPair
        <3>2. PICK b \in 1..Size(a) : s = <<a, b>>
            BY <3>1
        <3>3. CASE a = m
            BY <1>7, <1>1, <3>2, <3>3 DEF Upto
        <3>4. CASE a # m
            <4>1. a \in 1..(m - 1)
                BY <1>1, <3>4
            <4>2. s \in Statements(m - 1)
                BY <1>1, <3>2, <4>1, StatementAt
            <4> QED
                BY <4>2 DEF Upto
        <3> QED
            BY <3>3, <3>4
    <2>2. ASSUME NEW s \in Statements(m - 1) PROVE s \in Statements(m)
        <3>1. PICK a \in 1..(m - 1) : \E b \in 1..Size(a) : s = <<a, b>>
            BY <1>b, <2>2, StatementPair
        <3>2. a \in 1..m
            BY <1>1
        <3> QED
            BY <1>a, <3>1, <3>2, StatementPair
    <2>3. ASSUME NEW j \in 1..(i + 1 - 1) PROVE <<m, j>> \in Statements(m)
        <3>1. j \in 1..Size(m) /\ m \in 1..m
            BY <1>1, <1>7
        <3> QED
            BY <1>1, <3>1, StatementAt
    <2> QED
        BY <2>1, <2>2, <2>3 DEF Upto
<1>8. Upto(m, 1) = Statements(m - 1)
    <2>1. 1..(1 - 1) = {}
        OBVIOUS
    <2> QED
        BY <2>1 DEF Upto
<1> QED
    BY <1>3, <1>5, <1>6, <1>7, <1>8

\* More migrations, more statements.
LEMMA StatementsGrow ==
    ASSUME NEW n \in 0..Last, NEW m \in 0..n
    PROVE  Statements(m) \subseteq Statements(n) /\ Statements(n) \subseteq Everything /\ Statements(0) = {}
<1>1. Last = 24 /\ m \in 0..Last /\ 0 \in 0..Last /\ Last \in 0..Last
    BY Lengths
<1>2. ASSUME NEW a \in 0..Last, NEW b \in 0..Last, a <= b, NEW s \in Statements(a) PROVE s \in Statements(b)
    <2>1. PICK x \in 1..a : \E i \in 1..Size(x) : s = <<x, i>>
        BY <1>2, StatementPair
    <2>2. x \in 1..b
        BY <1>2, <2>1
    <2> QED
        BY <2>1, <2>2, StatementPair
<1>3. Statements(0) = {}
    <2>1. 1..0 = {} /\ 0 \in 0..Last
        BY <1>1
    <2> QED
        BY <2>1, StatementPair
<1>4. Statements(m) \subseteq Statements(n)
    <2>1. m <= n
        BY <1>1
    <2> QED
        BY <1>1, <1>2, <2>1
<1>5. Statements(n) \subseteq Everything
    <2>1. n <= Last
        BY <1>1
    <2> QED
        BY <1>1, <1>2, <2>1 DEF Everything
<1> QED
    BY <1>3, <1>4, <1>5

\* No schema, no process.
LEMMA SchemaInitInv == UpgradeInit => SchemaInv
<1> SUFFICES ASSUME UpgradeInit PROVE SchemaInv
    OBVIOUS
<1>1. 0 \in 0..Last
    BY Lengths
<1>2. Statements(0) = {}
    BY <1>1, StatementsGrow
<1>3. process \in [Processes -> ProcessType]
    BY DEF UpgradeInit, ProcessType
<1>4. \A p \in Processes : process[p].at = "none"
    BY DEF UpgradeInit, NoProcess
<1>5. \A p \in Processes : ProcessMay(process[p], applied)
    BY <1>4 DEF ProcessMay
<1> QED
    BY <1>1, <1>2, <1>3, <1>5 DEF UpgradeInit, SchemaInv

\* A process goes on, and the schema with it.
LEMMA SchemaGrows ==
    ASSUME SchemaInv, NEW p \in Processes, NEW rec \in ProcessType, ProcessGoto(p, rec),
           applied \subseteq applied', applied' \subseteq Everything,
           recorded' \in 0..Last, Statements(recorded') \subseteq applied',
           tables' \in BOOLEAN, hasSettings' \in BOOLEAN, hasSettings' <=> <<WithSettings, 2>> \in applied',
           ProcessMay(rec, applied')
    PROVE  SchemaInv'
<1>1. /\ process' \in [Processes -> ProcessType] /\ process'[p] = rec
      /\ \A o \in Processes \ {p} : process'[o] = process[o]
    BY DEF SchemaInv, ProcessGoto
<1>2. ASSUME NEW o \in Processes PROVE ProcessMay(process'[o], applied')
    <2>1. CASE o = p
        BY <1>1, <2>1 DEF ProcessMay
    <2>2. CASE o # p
        <3>1. process'[o] = process[o] /\ ProcessMay(process[o], applied)
            BY <1>1, <2>2 DEF SchemaInv
        <3> QED
            BY <3>1 DEF ProcessMay
    <2> QED
        BY <2>1, <2>2
<1> QED
    BY <1>1, <1>2 DEF SchemaInv

\* The schema stays as it is.
LEMMA SchemaKept ==
    ASSUME SchemaInv, NEW p \in Processes, NEW rec \in ProcessType, ProcessGoto(p, rec), UNCHANGED Database,
           ProcessMay(rec, applied)
    PROVE  SchemaInv'
<1>1. /\ applied' = applied /\ recorded' = recorded /\ tables' = tables /\ hasSettings' = hasSettings
    BY DEF Database
<1>2. ProcessMay(rec, applied')
    BY <1>1 DEF ProcessMay
<1>3. applied \subseteq Everything /\ recorded \in 0..Last
      /\ Statements(recorded) \subseteq applied
      /\ tables \in BOOLEAN
      /\ hasSettings \in BOOLEAN /\ (hasSettings <=> <<WithSettings, 2>> \in applied)
    BY DEF SchemaInv
<1> QED
    BY <1>1, <1>2, <1>3, SchemaGrows

\* Where a process goes when a migration is through.
LEMMA NextIs ==
    ASSUME SchemaInv, NEW p \in Processes, process[p].at \in {"run", "record"}, NextMigration(p)
    PROVE  \E rec \in ProcessType :
             /\ ProcessGoto(p, rec)
             /\ \/ /\ process[p].mig + 1 \in 1..Last /\ rec.at = "run"
                   /\ rec.mig = process[p].mig + 1 /\ rec.stmt = 1 /\ rec.record = process[p].record
                \/ /\ process[p].mig = Last
                   /\ rec = IF process[p].record THEN NoProcess ELSE [at |-> "serving"]
<1> PICK q : q = process[p]
    OBVIOUS
<1>1. q \in [at : {"run", "record"}, mig : 1..Last, stmt : 1..7, record : BOOLEAN] /\ Last = 24
    BY ProcessFacts, Lengths
<1>2. CASE q.mig < Last
    <2> PICK rec : rec = [q EXCEPT !.at = "run", !.mig = @ + 1, !.stmt = 1]
        OBVIOUS
    <2>0. q.mig + 1 \in 1..Last /\ 1 \in 1..7
        BY <1>1, <1>2
    <2>1. rec \in [at : {"run", "record"}, mig : 1..Last, stmt : 1..7, record : BOOLEAN]
        BY <1>1, <2>0
    <2>2. rec.at = "run" /\ rec.mig = q.mig + 1 /\ rec.stmt = 1 /\ rec.record = q.record
        BY <1>1
    <2>3. rec \in ProcessType /\ q.mig + 1 \in 1..Last
        BY <1>1, <1>2, <2>1 DEF ProcessType
    <2>4. ProcessGoto(p, rec)
        BY <1>2 DEF NextMigration
    <2> QED
        BY <2>2, <2>3, <2>4
<1>3. CASE ~(q.mig < Last)
    <2> PICK rec : rec = IF q.record THEN NoProcess ELSE [at |-> "serving"]
        OBVIOUS
    <2>1. rec \in ProcessType
        BY DEF ProcessType
    <2>2. ProcessGoto(p, rec)
        BY <1>3 DEF NextMigration
    <2>3. q.mig = Last
        BY <1>1, <1>3
    <2> QED
        BY <2>1, <2>2, <2>3
<1> QED
    BY <1>2, <1>3

\* Once a migration is applied, the next may be run, or there is nothing left.
LEMMA NextMayBe ==
    ASSUME NEW A, NEW m \in 1..Last, Statements(m) \subseteq A, A \subseteq Everything,
           NEW b \in BOOLEAN, NEW rec,
           \/ m + 1 \in 1..Last /\ rec.at = "run" /\ rec.mig = m + 1 /\ rec.stmt = 1
           \/ m = Last /\ rec = IF b THEN NoProcess ELSE [at |-> "serving"]
    PROVE  ProcessMay(rec, A)
<1>1. CASE m + 1 \in 1..Last /\ rec.at = "run" /\ rec.mig = m + 1 /\ rec.stmt = 1
    <2> PICK k : k = m + 1
        OBVIOUS
    <2>1. k \in 1..Last /\ Size(k) \in 1..7 /\ 1 \in 1..Size(k) /\ k - 1 = m
        BY <1>1, Lengths
    <2>2. Upto(k, 1) = Statements(m)
        BY <2>1, UptoNext
    <2> QED
        BY <1>1, <2>1, <2>2 DEF ProcessMay
<1>2. CASE m = Last /\ rec = IF b THEN NoProcess ELSE [at |-> "serving"]
    <2>1. A = Everything
        BY <1>2 DEF Everything
    <2>2. rec.at \in {"none", "serving"}
        BY <1>2 DEF NoProcess
    <2> QED
        BY <2>1, <2>2 DEF ProcessMay
<1> QED
    BY <1>1, <1>2

\* A statement is run.
LEMMA RunStatementSchema == ASSUME SchemaInv, NEW p \in Processes, RunStatement(p) PROVE SchemaInv'
<1> PICK q : q = process[p]
    OBVIOUS
<1> PICK s : s = <<q.mig, q.stmt>>
    OBVIOUS
<1>1. /\ q.at = "run" /\ q \in [at : {"run", "record"}, mig : 1..Last, stmt : 1..7, record : BOOLEAN]
      /\ q.stmt \in 1..Size(q.mig) /\ Upto(q.mig, q.stmt) \subseteq applied
    BY ProcessFacts DEF RunStatement, ProcessAt, ProcessMay
<1>2. /\ applied' = applied \cup {s} /\ hasSettings' = (hasSettings \/ s = <<WithSettings, 2>>)
      /\ tables' = tables /\ recorded' = recorded
    BY DEF RunStatement
<1>3. /\ applied \subseteq Everything /\ recorded \in 0..Last /\ Statements(recorded) \subseteq applied
      /\ tables \in BOOLEAN /\ hasSettings \in BOOLEAN /\ (hasSettings <=> <<WithSettings, 2>> \in applied)
    BY DEF SchemaInv
<1>4. /\ Upto(q.mig, q.stmt + 1) = Upto(q.mig, q.stmt) \cup {s} /\ s \in Everything
      /\ q.stmt = Size(q.mig) => Upto(q.mig, q.stmt + 1) = Statements(q.mig)
    BY <1>1, UptoNext
<1>5. applied \subseteq applied' /\ applied' \subseteq Everything /\ Upto(q.mig, q.stmt + 1) \subseteq applied'
    BY <1>1, <1>2, <1>3, <1>4
<1>6. ASSUME NEW rec \in ProcessType, ProcessGoto(p, rec), ProcessMay(rec, applied') PROVE SchemaInv'
    <2>1. hasSettings' \in BOOLEAN /\ (hasSettings' <=> <<WithSettings, 2>> \in applied')
        BY <1>2, <1>3
    <2> QED
        BY <1>2, <1>3, <1>5, <1>6, <2>1, SchemaGrows
<1>7. Size(q.mig) \in 1..7 /\ Size(q.mig) = Len(migList[q.mig])
    BY <1>1, Lengths DEF Size
<1>8. CASE q.stmt < Size(q.mig)
    <2> PICK rec : rec = [q EXCEPT !.stmt = @ + 1]
        OBVIOUS
    <2>1. q.stmt + 1 \in 1..7 /\ q.stmt + 1 \in 1..Size(q.mig)
        <3> PICK z : z = Size(q.mig)
            OBVIOUS
        <3> PICK i : i = q.stmt
            OBVIOUS
        <3>1. z \in 1..7 /\ i \in 1..z /\ i < z
            BY <1>1, <1>7, <1>8
        <3>2. i + 1 \in 1..7 /\ i + 1 \in 1..z
            BY <3>1
        <3> QED
            BY <3>2
    <2>2. /\ rec \in ProcessType /\ rec.at = "run" /\ rec.mig = q.mig /\ rec.stmt = q.stmt + 1
        BY <1>1, <2>1 DEF ProcessType
    <2>3. ProcessGoto(p, rec)
        BY <1>7, <1>8 DEF RunStatement
    <2>4. ProcessMay(rec, applied')
        BY <1>5, <2>1, <2>2 DEF ProcessMay
    <2> QED
        BY <1>6, <2>2, <2>3, <2>4
<1>9. CASE q.stmt = Size(q.mig)
    <2>0. Statements(q.mig) \subseteq applied'
        BY <1>4, <1>5, <1>9
    <2>1. CASE q.record
        <3> PICK rec : rec = [q EXCEPT !.at = "record"]
            OBVIOUS
        <3>1. /\ rec \in ProcessType /\ rec.at = "record" /\ rec.mig = q.mig /\ rec.stmt = q.stmt
              /\ rec.record = q.record
            BY <1>1 DEF ProcessType
        <3>2. ProcessGoto(p, rec)
            BY <1>7, <1>9, <2>1 DEF RunStatement
        <3>3. ProcessMay(rec, applied')
            BY <1>1, <2>0, <2>1, <3>1 DEF ProcessMay
        <3> QED
            BY <1>6, <3>1, <3>2, <3>3
    <2>2. CASE ~q.record
        <3>1. NextMigration(p)
            BY <1>7, <1>9, <2>2 DEF RunStatement
        <3>2. PICK rec \in ProcessType :
                /\ ProcessGoto(p, rec)
                /\ \/ /\ q.mig + 1 \in 1..Last /\ rec.at = "run"
                      /\ rec.mig = q.mig + 1 /\ rec.stmt = 1 /\ rec.record = q.record
                   \/ /\ q.mig = Last
                      /\ rec = IF q.record THEN NoProcess ELSE [at |-> "serving"]
            BY <1>1, <3>1, NextIs
        <3>3. ProcessMay(rec, applied')
            <4>1. q.mig \in 1..Last /\ q.record \in BOOLEAN
                BY <1>1
            <4> QED
                BY <1>5, <2>0, <3>2, <4>1, NextMayBe
        <3> QED
            BY <1>6, <3>2, <3>3
    <2> QED
        BY <2>1, <2>2
<1> QED
    BY <1>1, <1>7, <1>8, <1>9

\* A migration is recorded; it is applied by then.
LEMMA RecordVersionSchema == ASSUME SchemaInv, NEW p \in Processes, RecordVersion(p) PROVE SchemaInv'
<1> PICK q : q = process[p]
    OBVIOUS
<1>1. /\ q.at = "record" /\ q \in [at : {"run", "record"}, mig : 1..Last, stmt : 1..7, record : BOOLEAN]
      /\ Statements(q.mig) \subseteq applied
    BY ProcessFacts DEF RecordVersion, ProcessAt, ProcessMay
<1>2. /\ applied' = applied /\ hasSettings' = hasSettings /\ tables' = tables
      /\ recorded' \in {recorded, q.mig}
    BY DEF RecordVersion
<1>3. /\ applied \subseteq Everything /\ recorded \in 0..Last /\ Statements(recorded) \subseteq applied
      /\ tables \in BOOLEAN /\ hasSettings \in BOOLEAN /\ (hasSettings <=> <<WithSettings, 2>> \in applied)
    BY DEF SchemaInv
<1>4. NextMigration(p)
    BY DEF RecordVersion
<1>5. PICK rec \in ProcessType :
        /\ ProcessGoto(p, rec)
        /\ \/ /\ q.mig + 1 \in 1..Last /\ rec.at = "run"
              /\ rec.mig = q.mig + 1 /\ rec.stmt = 1 /\ rec.record = q.record
           \/ /\ q.mig = Last
              /\ rec = IF q.record THEN NoProcess ELSE [at |-> "serving"]
    BY <1>1, <1>4, NextIs
<1>6. ProcessMay(rec, applied)
    <2>1. q.mig \in 1..Last /\ q.record \in BOOLEAN
        BY <1>1
    <2> QED
        BY <1>1, <1>3, <1>5, <2>1, NextMayBe
<1>7. recorded' \in 0..Last /\ Statements(recorded') \subseteq applied
    <2>1. q.mig \in 0..Last
        BY <1>1, Lengths
    <2> QED
        BY <1>1, <1>2, <1>3, <2>1
<1> QED
    BY <1>2, <1>3, <1>5, <1>6, <1>7, SchemaGrows

\* A process ends, or serves.
LEMMA SchemaEnds ==
    ASSUME SchemaInv, NEW p \in Processes, ProcessEnds(p), UNCHANGED Database
    PROVE  SchemaInv'
<1>1. NoProcess \in ProcessType /\ ProcessMay(NoProcess, applied)
    BY DEF ProcessType, ProcessMay, NoProcess
<1> QED
    BY <1>1, SchemaKept DEF ProcessEnds

\* What is recorded last is all.
LEMMA NothingPending ==
    ASSUME SchemaInv, FirstPending(recorded) > Last
    PROVE  recorded = Last /\ applied = Everything
<1>1. recorded \in 0..Last /\ Last = 24
    BY Lengths DEF SchemaInv
<1>2. recorded = Last
    BY <1>1 DEF FirstPending
<1> QED
    BY <1>2 DEF SchemaInv, Everything

\* A server starts, or stops.
LEMMA ServeSchema ==
    ASSUME SchemaInv, NEW p \in Processes, Serve(p) \/ StopServing(p) \/ UpgradeStops(p)
    PROVE  SchemaInv'
<1>1. CASE Serve(p)
    <2>1. applied = Everything
        BY <1>1, NothingPending DEF Serve
    <2> PICK rec : rec = [at |-> "serving"]
        OBVIOUS
    <2>2. rec \in ProcessType /\ ProcessMay(rec, applied)
        BY <2>1 DEF ProcessType, ProcessMay
    <2>3. ProcessGoto(p, rec) /\ UNCHANGED Database
        BY <1>1 DEF Serve
    <2> QED
        BY <2>2, <2>3, SchemaKept
<1>2. CASE StopServing(p) \/ UpgradeStops(p)
    <2>1. ProcessEnds(p) /\ UNCHANGED Database
        BY <1>2, Zenon DEF StopServing, UpgradeStops, Database
    <2> QED
        BY <2>1, SchemaEnds
<1> QED
    BY <1>1, <1>2

\* The first migration that is not recorded is about to run, or there is none.
LEMMA UpgradeBeginSchema ==
    ASSUME SchemaInv, NEW p \in Processes, NEW b \in BOOLEAN, UpgradeBegin(p, b)
    PROVE  SchemaInv'
<1>0. UNCHANGED Database
    BY DEF UpgradeBegin
<1>1. recorded \in 0..Last /\ Last = 24 /\ Statements(recorded) \subseteq applied
    BY Lengths DEF SchemaInv
<1>2. CASE FirstPending(recorded) <= Last
    <2> PICK m : m = FirstPending(recorded)
        OBVIOUS
    <2> PICK rec : rec = [at |-> "run", mig |-> m, stmt |-> 1, record |-> b]
        OBVIOUS
    <2>1. m \in 1..Last /\ m - 1 = recorded
        BY <1>1, <1>2 DEF FirstPending
    <2>2. Size(m) \in 1..7 /\ 1 \in 1..Size(m)
        BY <2>1, Lengths
    <2>3. Upto(m, 1) \subseteq applied
        <3>1. Upto(m, 1) = Statements(m - 1)
            BY <2>1, <2>2, UptoNext
        <3> QED
            BY <1>1, <2>1, <3>1
    <2>4. rec \in ProcessType /\ ProcessMay(rec, applied)
        BY <2>1, <2>2, <2>3 DEF ProcessType, ProcessMay
    <2>5. ProcessGoto(p, rec)
        BY <1>2 DEF UpgradeBegin
    <2> QED
        BY <1>0, <2>4, <2>5, SchemaKept
<1>3. CASE ~(FirstPending(recorded) <= Last)
    <2> PICK rec : rec = IF b THEN NoProcess ELSE [at |-> "serving"]
        OBVIOUS
    <2>1. FirstPending(recorded) > Last
        BY <1>1, <1>3 DEF FirstPending
    <2>2. applied = Everything
        BY <2>1, NothingPending
    <2>3. rec \in ProcessType /\ ProcessMay(rec, applied)
        BY <2>2 DEF ProcessType, ProcessMay, NoProcess
    <2>4. ProcessGoto(p, rec)
        BY <1>3 DEF UpgradeBegin
    <2> QED
        BY <1>0, <2>3, <2>4, SchemaKept
<1> QED
    BY <1>2, <1>3

\* A database is made: everything is there before it is recorded.
LEMMA InstallSchemaInv ==
    ASSUME SchemaInv, NEW p \in Processes,
           (\E b \in BOOLEAN : InstallSchema(p, b)) \/ InstallRecord(p) \/ InstallSamples(p)
    PROVE  SchemaInv'
<1>0. /\ Last = 24 /\ 0 \in 0..Last /\ Last \in 0..Last /\ Statements(0) = {}
    <2>1. Last = 24 /\ 0 \in 0..Last /\ Last \in 0..Last
        BY Lengths
    <2> QED
        BY <2>1, StatementsGrow
<1>a. /\ applied \subseteq Everything /\ recorded \in 0..Last /\ Statements(recorded) \subseteq applied
      /\ tables \in BOOLEAN /\ hasSettings \in BOOLEAN /\ (hasSettings <=> <<WithSettings, 2>> \in applied)
    BY DEF SchemaInv
<1>1. ASSUME NEW b \in BOOLEAN, InstallSchema(p, b) PROVE SchemaInv'
    <2> PICK rec : rec = [at |-> "installed"]
        OBVIOUS
    <2>1. /\ tables' = TRUE /\ applied' = Everything /\ hasSettings' = TRUE /\ recorded' = 0
          /\ ProcessGoto(p, rec)
        BY <1>1 DEF InstallSchema
    <2>2. rec \in ProcessType /\ ProcessMay(rec, applied')
        BY <2>1 DEF ProcessType, ProcessMay
    <2>3. <<WithSettings, 2>> \in Everything
        <3>1. Size(2) = 3
            BY ListFacts DEF Size, V0_7_0
        <3>2. 2 \in 1..Last /\ 2 \in 1..Size(2)
            BY <1>0, <3>1
        <3> QED
            BY <1>0, <3>2, StatementAt DEF Everything, WithSettings
    <2>4. applied \subseteq applied' /\ applied' \subseteq Everything
        BY <2>1, <1>a
    <2>5. recorded' \in 0..Last /\ Statements(recorded') \subseteq applied'
        BY <1>0, <2>1
    <2>6. tables' \in BOOLEAN /\ hasSettings' \in BOOLEAN /\ (hasSettings' <=> <<WithSettings, 2>> \in applied')
        BY <2>1, <2>3
    <2> QED
        BY <2>1, <2>2, <2>4, <2>5, <2>6, SchemaGrows
<1>2. CASE InstallRecord(p)
    <2> PICK rec : rec = [at |-> "samples"]
        OBVIOUS
    <2>1. applied = Everything
        BY <1>2, ProcessFacts DEF InstallRecord, ProcessAt, ProcessMay
    <2>2. /\ recorded' = Last /\ ProcessGoto(p, rec)
          /\ applied' = applied /\ tables' = tables /\ hasSettings' = hasSettings
        BY <1>2 DEF InstallRecord
    <2>3. rec \in ProcessType /\ ProcessMay(rec, applied')
        BY <2>1, <2>2 DEF ProcessType, ProcessMay
    <2>4. Statements(recorded') \subseteq applied' /\ recorded' \in 0..Last
        BY <1>0, <2>1, <2>2 DEF Everything
    <2> QED
        BY <1>a, <2>2, <2>3, <2>4, SchemaGrows
<1>3. CASE InstallSamples(p)
    <2>1. /\ ProcessGoto(p, NoProcess) /\ recorded' = recorded
          /\ applied' = applied /\ tables' = tables /\ hasSettings' = hasSettings
        BY <1>3 DEF InstallSamples, ProcessEnds
    <2>2. NoProcess \in ProcessType /\ ProcessMay(NoProcess, applied')
        BY DEF ProcessType, ProcessMay, NoProcess
    <2> QED
        BY <1>a, <2>1, <2>2, SchemaGrows
<1> QED
    BY <1>1, <1>2, <1>3

\* The database of an older release is taken over, before any process starts.
LEMMA OlderDatabaseSchema ==
    ASSUME SchemaInv, NEW n \in OlderReleases, OlderDatabase(n) PROVE SchemaInv'
<1>1. n \in 0..Last /\ n \in 1..Last /\ Last = 24 /\ 0 \in 0..Last
    BY UpgradeAssumption, Lengths
<1>2. /\ tables' = TRUE /\ applied' = Statements(n) /\ process' = process
      /\ hasSettings' = (n >= WithSettings) /\ recorded' = IF n >= WithSettings THEN n ELSE 0
      /\ \A p \in Processes : process[p] = NoProcess
    BY DEF OlderDatabase
<1>3. hasSettings' <=> <<WithSettings, 2>> \in applied'
    <2>1. Size(2) = 3
        BY ListFacts DEF Size, V0_7_0
    <2>2. <<2, 2>> \in Statements(n) <=> 2 \in 1..n /\ 2 \in 1..Size(2)
        BY <1>1, StatementAt
    <2>3. <<2, 2>> \in Statements(n) <=> n >= 2
        BY <1>1, <2>1, <2>2
    <2>4. (hasSettings' = (n >= 2)) /\ applied' = Statements(n) /\ WithSettings = 2
        BY <1>2 DEF WithSettings
    <2>5. hasSettings' <=> n >= 2
        BY <2>4
    <2> QED
        BY <2>3, <2>4, <2>5
<1>4. Statements(0) = {} /\ Statements(n) \subseteq Everything
    BY <1>1, StatementsGrow
<1>5. recorded' \in 0..Last /\ Statements(recorded') \subseteq applied'
    BY <1>1, <1>2, <1>4
<1>6. \A p \in Processes : ProcessMay(process'[p], applied')
    BY <1>2 DEF ProcessMay, NoProcess
<1> QED
    BY <1>2, <1>3, <1>4, <1>5, <1>6 DEF SchemaInv

\* Every step keeps the schema ahead of what is recorded and served.
LEMMA SchemaNextInv == SchemaInv /\ (UpgradeNext \/ UNCHANGED upgradeVars) => SchemaInv'
<1> SUFFICES ASSUME SchemaInv, UpgradeNext \/ UNCHANGED upgradeVars PROVE SchemaInv'
    OBVIOUS
<1>1. CASE \E n \in OlderReleases : OlderDatabase(n)
    BY <1>1, OlderDatabaseSchema
<1>2. CASE \E p \in Processes : \E b \in BOOLEAN : InstallSchema(p, b)
    BY <1>2, InstallSchemaInv
<1>3. CASE \E p \in Processes : \E b \in BOOLEAN : UpgradeBegin(p, b)
    BY <1>3, UpgradeBeginSchema
<1>4. CASE \E p \in Processes : InstallRecord(p) \/ InstallSamples(p)
    BY <1>4, InstallSchemaInv
<1>5. CASE \E p \in Processes : RunStatement(p) \/ RecordVersion(p)
    BY <1>5, RunStatementSchema, RecordVersionSchema
<1>6. CASE \E p \in Processes : UpgradeStops(p) \/ Serve(p) \/ StopServing(p)
    BY <1>6, ServeSchema
<1>7. CASE UNCHANGED upgradeVars
    <2>1. /\ applied' = applied /\ recorded' = recorded /\ tables' = tables /\ hasSettings' = hasSettings
          /\ process' = process
        BY <1>7 DEF upgradeVars
    <2> QED
        BY <2>1 DEF SchemaInv
<1> QED
    BY <1>1, <1>2, <1>3, <1>4, <1>5, <1>6, <1>7 DEF UpgradeNext

\* A server serves on the whole schema.
LEMMA SchemaMeans == SchemaInv => ServesOnFullSchema
<1> SUFFICES ASSUME SchemaInv PROVE ServesOnFullSchema
    OBVIOUS
<1>1. \A p \in Processes : process[p].at = "serving" => applied = Everything
    BY DEF SchemaInv, ProcessMay
<1> QED
    BY <1>1 DEF SchemaInv, ServesOnFullSchema

\* What a database has when the statements of D were run on it once each.
As(D) ==
    /\ trusted \in BOOLEAN /\ (trusted <=> <<19, 5>> \in D)
    /\ retired \subseteq Retired
    /\ "bounce.count" \in retired <=> <<6, 3>> \in D /\ <<11, 2>> \notin D
    /\ "security.enable_captcha" \in retired <=> <<10, 1>> \in D /\ <<16, 3>> \notin D
    /\ "security.cors_origins" \in retired <=> <<17, 1>> \in D /\ <<19, 5>> \notin D
    /\ copies \in [Samples -> Nat]
    /\ \A s \in Samples : copies[s] = IF s \in D THEN 1 ELSE 0

\* The statements before another one.
LEMMA UptoAt ==
    ASSUME NEW m \in 1..Last, NEW i \in 1..Size(m), NEW a \in 1..Last, NEW b \in 1..Size(a)
    PROVE  <<a, b>> \in Upto(m, i) <=> a < m \/ (a = m /\ b < i)
<1>1. Last = 24 /\ m - 1 \in 0..Last /\ Size(m) \in 1..7 /\ Size(a) \in 1..7
    BY Lengths
<1>2. <<a, b>> \in Statements(m - 1) <=> a \in 1..(m - 1) /\ b \in 1..Size(a)
    <2> PICK k : k = m - 1
        OBVIOUS
    <2> QED
        BY <1>1, StatementAt
<1>3. <<a, b>> \in Statements(m - 1) <=> a < m
    BY <1>1, <1>2
<1>4. <<a, b>> \in {<<m, j>> : j \in 1..(i - 1)} <=> a = m /\ b < i
    <2>1. b \in Nat /\ i \in Nat /\ b >= 1
        BY <1>1
    <2> QED
        BY <2>1
<1> QED
    BY <1>3, <1>4 DEF Upto

\* How many statements there are where one does more than be there.
LEMMA SpecialSizes ==
    /\ Last = 24
    /\ 3 \in 1..Size(6) /\ 5 \in 1..Size(8) /\ 1 \in 1..Size(10) /\ 2 \in 1..Size(11)
    /\ 7 \in 1..Size(15) /\ 3 \in 1..Size(16) /\ 1 \in 1..Size(17) /\ 5 \in 1..Size(19)
<1>1. Size(6) = 6 /\ Size(8) = 5 /\ Size(10) = 1 /\ Size(11) = 3
    BY ListFacts DEF Size, V2_0_0, V2_2_0, V2_4_0, V2_5_0
<1>2. Size(15) = 7 /\ Size(16) = 4 /\ Size(17) = 4 /\ Size(19) = 6
    BY ListFacts DEF Size, V5_0_0, V5_1_0, V6_0_0, V6_2_0
<1> QED
    BY <1>1, <1>2, ListFacts

\* Those of them that are before a statement.
LEMMA SpecialBefore ==
    ASSUME NEW m \in 1..Last, NEW i \in 1..Size(m), NEW D, D = Upto(m, i)
    PROVE  /\ <<6, 3>> \in D <=> 6 < m \/ (6 = m /\ 3 < i)
           /\ <<8, 5>> \in D <=> 8 < m \/ (8 = m /\ 5 < i)
           /\ <<10, 1>> \in D <=> 10 < m \/ (10 = m /\ 1 < i)
           /\ <<11, 2>> \in D <=> 11 < m \/ (11 = m /\ 2 < i)
           /\ <<15, 7>> \in D <=> 15 < m \/ (15 = m /\ 7 < i)
           /\ <<16, 3>> \in D <=> 16 < m \/ (16 = m /\ 3 < i)
           /\ <<17, 1>> \in D <=> 17 < m \/ (17 = m /\ 1 < i)
           /\ <<19, 5>> \in D <=> 19 < m \/ (19 = m /\ 5 < i)
<1>1. /\ 6 \in 1..Last /\ 8 \in 1..Last /\ 10 \in 1..Last /\ 11 \in 1..Last /\ 15 \in 1..Last
      /\ 16 \in 1..Last /\ 17 \in 1..Last /\ 19 \in 1..Last
    BY SpecialSizes
<1>a. \A a \in 1..Last : \A b \in 1..Size(a) : <<a, b>> \in D <=> a < m \/ (a = m /\ b < i)
    BY UptoAt
<1>2. <<6, 3>> \in D <=> 6 < m \/ (6 = m /\ 3 < i)
    BY <1>1, <1>a, SpecialSizes, Zenon
<1>3. <<8, 5>> \in D <=> 8 < m \/ (8 = m /\ 5 < i)
    BY <1>1, <1>a, SpecialSizes, Zenon
<1>4. <<10, 1>> \in D <=> 10 < m \/ (10 = m /\ 1 < i)
    BY <1>1, <1>a, SpecialSizes, Zenon
<1>5. <<11, 2>> \in D <=> 11 < m \/ (11 = m /\ 2 < i)
    BY <1>1, <1>a, SpecialSizes, Zenon
<1>6. <<15, 7>> \in D <=> 15 < m \/ (15 = m /\ 7 < i)
    BY <1>1, <1>a, SpecialSizes, Zenon
<1>7. <<16, 3>> \in D <=> 16 < m \/ (16 = m /\ 3 < i)
    BY <1>1, <1>a, SpecialSizes, Zenon
<1>8. <<17, 1>> \in D <=> 17 < m \/ (17 = m /\ 1 < i)
    BY <1>1, <1>a, SpecialSizes, Zenon
<1>9. <<19, 5>> \in D <=> 19 < m \/ (19 = m /\ 5 < i)
    BY <1>1, <1>a, SpecialSizes, Zenon
<1> QED
    BY <1>2, <1>3, <1>4, <1>5, <1>6, <1>7, <1>8, <1>9

\* What a statement does to samples and settings.
Effect(s, d) ==
    /\ copies' = IF d.does = "sample" THEN [copies EXCEPT ![s] = @ + 1] ELSE copies
    /\ retired' = CASE d.does = "add" -> retired \cup {d.key}
                    [] d.does = "drop" \/ (d.does = "rename" /\ ~trusted) -> retired \ {d.key}
                    [] OTHER -> retired
    /\ trusted' = (trusted \/ (d.does = "rename" /\ d.key \in retired))

\* A statement that is run for the first time, after all those before it, does what it is to do.
LEMMA StatementOnce ==
    ASSUME NEW m \in 1..Last, NEW i \in 1..Size(m), NEW D, D = Upto(m, i), As(D),
           Effect(<<m, i>>, Does(<<m, i>>))
    PROVE  As(D \cup {<<m, i>>})'
<1> PICK s : s = <<m, i>>
    OBVIOUS
<1> PICK d : d = Does(s)
    OBVIOUS
<1> PICK E : E = D \cup {s}
    OBVIOUS
<1>0. /\ <<6, 3>> \in D <=> 6 < m \/ (6 = m /\ 3 < i)
      /\ <<8, 5>> \in D <=> 8 < m \/ (8 = m /\ 5 < i)
      /\ <<10, 1>> \in D <=> 10 < m \/ (10 = m /\ 1 < i)
      /\ <<11, 2>> \in D <=> 11 < m \/ (11 = m /\ 2 < i)
      /\ <<15, 7>> \in D <=> 15 < m \/ (15 = m /\ 7 < i)
      /\ <<16, 3>> \in D <=> 16 < m \/ (16 = m /\ 3 < i)
      /\ <<17, 1>> \in D <=> 17 < m \/ (17 = m /\ 1 < i)
      /\ <<19, 5>> \in D <=> 19 < m \/ (19 = m /\ 5 < i)
    BY SpecialBefore
<1>1. (d = Once /\ s \notin SpecialOnes) \/ Special(s, d)
    BY WhatStatementsDo
<1>2. Effect(s, d)
    OBVIOUS
<1>3. Samples = {<<8, 5>>, <<15, 7>>}
    BY SampleFacts
<1>4. CASE d = Once /\ s \notin SpecialOnes
    <2>1. copies' = copies /\ retired' = retired /\ trusted' = (trusted \/ FALSE)
        BY <1>2, <1>4, DoesFacts DEF Effect
    <2>2. \A x \in SpecialOnes : x \in E <=> x \in D
        BY <1>4
    <2>3. /\ <<6, 3>> \in SpecialOnes /\ <<8, 5>> \in SpecialOnes /\ <<10, 1>> \in SpecialOnes
          /\ <<11, 2>> \in SpecialOnes /\ <<15, 7>> \in SpecialOnes /\ <<16, 3>> \in SpecialOnes
          /\ <<17, 1>> \in SpecialOnes /\ <<19, 5>> \in SpecialOnes
        BY DEF SpecialOnes
    <2> QED
        BY <1>3, <2>1, <2>2, <2>3 DEF As
<1>5. CASE d = Sample /\ s \in {<<8, 5>>, <<15, 7>>}
    <2>1. copies' = [copies EXCEPT ![s] = @ + 1] /\ retired' = retired /\ trusted' = (trusted \/ FALSE)
        BY <1>2, <1>5, DoesFacts DEF Effect
    <2>2. s \notin D
        BY <1>0, <1>5
    <2>3. \A x \in Samples : copies'[x] = IF x \in E THEN 1 ELSE 0
        BY <1>3, <1>5, <2>1, <2>2 DEF As
    <2>4. copies' \in [Samples -> Nat]
        <3>1. copies \in [Samples -> Nat]
            BY DEF As
        <3>2. s \in Samples /\ copies[s] + 1 \in Nat
            BY <1>3, <1>5, <3>1
        <3> QED
            BY <2>1, <3>1, <3>2
    <2>5. \A x \in {<<6, 3>>, <<10, 1>>, <<11, 2>>, <<16, 3>>, <<17, 1>>, <<19, 5>>} : x \in E <=> x \in D
        BY <1>5
    <2> QED
        BY <2>1, <2>3, <2>4, <2>5 DEF As
<1>6. ASSUME s \notin Samples, copies' = copies
      PROVE  copies' \in [Samples -> Nat] /\ \A x \in Samples : copies'[x] = IF x \in E THEN 1 ELSE 0
    BY <1>6 DEF As
<1>7. CASE Special(s, d) /\ d.does = "add"
    <2>1. /\ copies' = copies /\ retired' = retired \cup {d.key} /\ trusted' = (trusted \/ FALSE)
        BY <1>2, <1>7 DEF Effect
    <2>2. /\ s \in {<<6, 3>>, <<10, 1>>, <<17, 1>>}
          /\ s = <<6, 3>> => d.key = "bounce.count"
          /\ s = <<10, 1>> => d.key = "security.enable_captcha"
          /\ s = <<17, 1>> => d.key = "security.cors_origins"
        BY <1>7, DoesFacts DEF Special
    <2>3. s \notin Samples
        BY <1>3, <2>2
    <2>4. CASE s = <<6, 3>>
        <3>1. /\ <<6, 3>> \in E
              /\ (<<10, 1>> \in E <=> <<10, 1>> \in D) /\ (<<11, 2>> \in E <=> <<11, 2>> \in D) /\ (<<16, 3>> \in E <=> <<16, 3>> \in D)
              /\ (<<17, 1>> \in E <=> <<17, 1>> \in D) /\ (<<19, 5>> \in E <=> <<19, 5>> \in D)
            BY <2>4
        <3>2. d.key = "bounce.count" /\ d.key \in Retired
            BY <2>2, <2>4 DEF Retired
        <3>3. /\ "bounce.count" \in retired'
              /\ "security.enable_captcha" \in retired' <=> "security.enable_captcha" \in retired
              /\ "security.cors_origins" \in retired' <=> "security.cors_origins" \in retired
            BY <2>1, <3>2
        <3>4. retired' \subseteq Retired
            BY <2>1, <3>2 DEF As
        <3>5. <<11, 2>> \notin D
            BY <1>0, <2>4
        <3> QED
            BY <1>6, <2>1, <2>3, <3>1, <3>3, <3>4, <3>5 DEF As
    <2>5. CASE s = <<10, 1>>
        <3>1. /\ <<10, 1>> \in E
              /\ (<<6, 3>> \in E <=> <<6, 3>> \in D) /\ (<<11, 2>> \in E <=> <<11, 2>> \in D) /\ (<<16, 3>> \in E <=> <<16, 3>> \in D)
              /\ (<<17, 1>> \in E <=> <<17, 1>> \in D) /\ (<<19, 5>> \in E <=> <<19, 5>> \in D)
            BY <2>5
        <3>2. d.key = "security.enable_captcha" /\ d.key \in Retired
            BY <2>2, <2>5 DEF Retired
        <3>3. /\ "security.enable_captcha" \in retired'
              /\ "bounce.count" \in retired' <=> "bounce.count" \in retired
              /\ "security.cors_origins" \in retired' <=> "security.cors_origins" \in retired
            BY <2>1, <3>2
        <3>4. retired' \subseteq Retired
            BY <2>1, <3>2 DEF As
        <3>5. <<16, 3>> \notin D
            BY <1>0, <2>5
        <3> QED
            BY <1>6, <2>1, <2>3, <3>1, <3>3, <3>4, <3>5 DEF As
    <2>6. CASE s = <<17, 1>>
        <3>1. /\ <<17, 1>> \in E
              /\ (<<6, 3>> \in E <=> <<6, 3>> \in D) /\ (<<10, 1>> \in E <=> <<10, 1>> \in D) /\ (<<11, 2>> \in E <=> <<11, 2>> \in D)
              /\ (<<16, 3>> \in E <=> <<16, 3>> \in D) /\ (<<19, 5>> \in E <=> <<19, 5>> \in D)
            BY <2>6
        <3>2. d.key = "security.cors_origins" /\ d.key \in Retired
            BY <2>2, <2>6 DEF Retired
        <3>3. /\ "security.cors_origins" \in retired'
              /\ "bounce.count" \in retired' <=> "bounce.count" \in retired
              /\ "security.enable_captcha" \in retired' <=> "security.enable_captcha" \in retired
            BY <2>1, <3>2
        <3>4. retired' \subseteq Retired
            BY <2>1, <3>2 DEF As
        <3>5. <<19, 5>> \notin D
            BY <1>0, <2>6
        <3> QED
            BY <1>6, <2>1, <2>3, <3>1, <3>3, <3>4, <3>5 DEF As
    <2> QED
        BY <2>2, <2>4, <2>5, <2>6
<1>8. CASE Special(s, d) /\ d.does = "drop"
    <2>1. /\ copies' = copies /\ retired' = retired \ {d.key} /\ trusted' = (trusted \/ FALSE)
        BY <1>2, <1>8 DEF Effect
    <2>2. /\ s \in {<<11, 2>>, <<16, 3>>}
          /\ s = <<11, 2>> => d.key = "bounce.count"
          /\ s = <<16, 3>> => d.key = "security.enable_captcha"
        BY <1>8, DoesFacts DEF Special
    <2>3. s \notin Samples
        BY <1>3, <2>2
    <2>4. CASE s = <<11, 2>>
        <3>1. /\ <<11, 2>> \in E
              /\ (<<6, 3>> \in E <=> <<6, 3>> \in D) /\ (<<10, 1>> \in E <=> <<10, 1>> \in D) /\ (<<16, 3>> \in E <=> <<16, 3>> \in D)
              /\ (<<17, 1>> \in E <=> <<17, 1>> \in D) /\ (<<19, 5>> \in E <=> <<19, 5>> \in D)
            BY <2>4
        <3>2. d.key = "bounce.count" /\ d.key \in Retired
            BY <2>2, <2>4 DEF Retired
        <3>3. /\ "bounce.count" \notin retired'
              /\ "security.enable_captcha" \in retired' <=> "security.enable_captcha" \in retired
              /\ "security.cors_origins" \in retired' <=> "security.cors_origins" \in retired
            BY <2>1, <3>2
        <3>4. retired' \subseteq Retired
            BY <2>1, <3>2 DEF As
        <3>5. <<6, 3>> \in D
            BY <1>0, <2>4
        <3> QED
            BY <1>6, <2>1, <2>3, <3>1, <3>3, <3>4, <3>5 DEF As
    <2>5. CASE s = <<16, 3>>
        <3>1. /\ <<16, 3>> \in E
              /\ (<<6, 3>> \in E <=> <<6, 3>> \in D) /\ (<<10, 1>> \in E <=> <<10, 1>> \in D) /\ (<<11, 2>> \in E <=> <<11, 2>> \in D)
              /\ (<<17, 1>> \in E <=> <<17, 1>> \in D) /\ (<<19, 5>> \in E <=> <<19, 5>> \in D)
            BY <2>5
        <3>2. d.key = "security.enable_captcha" /\ d.key \in Retired
            BY <2>2, <2>5 DEF Retired
        <3>3. /\ "security.enable_captcha" \notin retired'
              /\ "bounce.count" \in retired' <=> "bounce.count" \in retired
              /\ "security.cors_origins" \in retired' <=> "security.cors_origins" \in retired
            BY <2>1, <3>2
        <3>4. retired' \subseteq Retired
            BY <2>1, <3>2 DEF As
        <3>5. <<10, 1>> \in D
            BY <1>0, <2>5
        <3> QED
            BY <1>6, <2>1, <2>3, <3>1, <3>3, <3>4, <3>5 DEF As
    <2> QED
        BY <2>2, <2>4, <2>5
<1>9. CASE s = <<19, 5>> /\ d.does = "rename" /\ d.key = "security.cors_origins"
    <2>1. <<17, 1>> \in D /\ <<19, 5>> \notin D
        BY <1>0, <1>9
    <2>2. ~trusted /\ "security.cors_origins" \in retired
        BY <2>1 DEF As
    <2>3. copies' = copies /\ retired' = retired \ {"security.cors_origins"} /\ trusted' = TRUE
        BY <1>2, <1>9, <2>2 DEF Effect
    <2>4. s \notin Samples
        BY <1>3, <1>9
    <2> QED
        BY <1>6, <1>9, <2>1, <2>3, <2>4 DEF As, Retired
<1> QED
    BY <1>1, <1>4, <1>5, <1>7, <1>8, <1>9, DoesFacts DEF Special

\* The states of a process that changes the database.
Works == {"run", "record", "installed", "samples"}

\* What the only process that changes an undisturbed database goes by.
Sole(q) ==
    /\ q.at = "run" => q.record /\ As(Upto(q.mig, q.stmt))
    /\ q.at = "record" => As(Statements(q.mig))
    /\ q.at \in {"installed", "samples"} =>
          trusted = TRUE /\ retired = {} /\ \A s \in Samples : copies[s] = 0
    /\ q.at = "samples" => recorded = Last

OnceTyped == retired \subseteq Retired /\ copies \in [Samples -> Nat]
OnceInv ==
    /\ OnceTyped
    /\ disturbed = {} =>
          /\ Changing = {} => As(Statements(recorded))
          /\ \A p \in Processes : Changing = {p} => Sole(process[p])

\* Nothing is there yet.
LEMMA OnceInitInv == UpgradeInit => OnceInv
<1> SUFFICES ASSUME UpgradeInit PROVE OnceInv
    OBVIOUS
<1>1. OnceTyped
    BY DEF UpgradeInit, OnceTyped, NoCopies
<1>2. Changing = {}
    BY DEF UpgradeInit, Changing, NoProcess
<1>3. Statements(recorded) = {}
    <2>1. recorded = 0 /\ 0 \in 0..Last
        BY Lengths DEF UpgradeInit
    <2> QED
        BY <2>1, StatementsGrow
<1>4. As({})
    BY DEF UpgradeInit, As, NoCopies
<1> QED
    BY <1>1, <1>2, <1>3, <1>4 DEF OnceInv

\* Which processes change the database after a step of one.
LEMMA ChangingThen ==
    ASSUME SchemaInv, NEW p \in Processes, NEW rec \in ProcessType, ProcessGoto(p, rec)
    PROVE  /\ process'[p] = rec /\ \A o \in Processes \ {p} : process'[o] = process[o]
           /\ rec.at \in Works => Changing' = Changing \cup {p}
           /\ rec.at \notin Works => Changing' = Changing \ {p}
<1>1. process'[p] = rec /\ \A o \in Processes \ {p} : process'[o] = process[o]
    BY DEF SchemaInv, ProcessGoto
<1>2. Changing' = {o \in Processes : process'[o].at \in Works} /\ Changing = {o \in Processes : process[o].at \in Works}
    BY DEF Changing, Works
<1> QED
    BY <1>1, <1>2

\* A step of the one process that changes the database.
LEMMA OnceStep ==
    ASSUME SchemaInv, NEW p \in Processes, NEW rec \in ProcessType, ProcessGoto(p, rec), OnceTyped',
           disturbed' = {} => /\ Changing \ {p} = {}
                              /\ rec.at \in Works => Sole(rec)'
                              /\ rec.at \notin Works => As(Statements(recorded))'
    PROVE  OnceInv'
<1>1. /\ process'[p] = rec
      /\ rec.at \in Works => Changing' = Changing \cup {p}
      /\ rec.at \notin Works => Changing' = Changing \ {p}
    BY ChangingThen
<1>2. ASSUME disturbed' = {}, Changing' = {} PROVE As(Statements(recorded))'
    BY <1>1, <1>2
<1>3. ASSUME disturbed' = {}, NEW o \in Processes, Changing' = {o} PROVE Sole(process[o])'
    <2>1. rec.at \in Works /\ o = p
        BY <1>1, <1>3
    <2>2. Sole(rec)'
        BY <1>3, <2>1
    <2> QED
        BY <1>1, <2>1, <2>2 DEF Sole
<1> QED
    BY <1>2, <1>3 DEF OnceInv

\* A process that changes the database undisturbed is the only one.
LEMMA AloneFacts ==
    ASSUME OnceInv, NEW p \in Processes, process[p].at \in Works, disturbed' = disturbed \cup Overlap(p),
           disturbed' = {}
    PROVE  disturbed = {} /\ Changing = {p} /\ Sole(process[p])
<1>1. disturbed = {} /\ Overlap(p) = {}
    OBVIOUS
<1>2. Changing \ {p} = {}
    BY <1>1 DEF Overlap
<1>3. p \in Changing
    BY DEF Changing, Works
<1>4. Changing = {p}
    BY <1>2, <1>3
<1> QED
    BY <1>1, <1>4 DEF OnceInv

\* What a statement leaves of samples and settings are samples and settings.
LEMMA EffectTyped ==
    ASSUME OnceTyped, NEW m \in 1..Last, NEW i \in 1..Size(m), Effect(<<m, i>>, Does(<<m, i>>))
    PROVE  OnceTyped'
<1> PICK s : s = <<m, i>>
    OBVIOUS
<1> PICK d : d = Does(s)
    OBVIOUS
<1>1. (d = Once /\ s \notin SpecialOnes) \/ Special(s, d)
    BY WhatStatementsDo
<1>2. /\ d.does = "sample" => s \in Samples
      /\ d.does = "add" => d.key \in Retired
    <2>1. CASE d = Once
        BY <2>1, DoesFacts
    <2>2. CASE Special(s, d)
        BY <2>2, DoesFacts, SampleFacts DEF Special, Retired
    <2> QED
        BY <1>1, <2>1, <2>2
<1>3. Effect(s, d)
    OBVIOUS
<1>4. retired' \subseteq Retired
    BY <1>2, <1>3 DEF Effect, OnceTyped
<1>5. copies' \in [Samples -> Nat]
    <2>1. CASE d.does = "sample"
        <3>1. copies[s] + 1 \in Nat /\ s \in Samples
            BY <1>2, <2>1 DEF OnceTyped
        <3>2. copies' = [copies EXCEPT ![s] = @ + 1]
            BY <1>3, <2>1 DEF Effect
        <3> QED
            BY <3>1, <3>2 DEF OnceTyped
    <2>2. CASE d.does # "sample"
        BY <1>3, <2>2 DEF Effect, OnceTyped
    <2> QED
        BY <2>1, <2>2
<1> QED
    BY <1>4, <1>5 DEF OnceTyped

\* A statement is run.
LEMMA RunStatementOnce == ASSUME SchemaInv, OnceInv, NEW p \in Processes, RunStatement(p) PROVE OnceInv'
<1> PICK q : q = process[p]
    OBVIOUS
<1> PICK s : s = <<q.mig, q.stmt>>
    OBVIOUS
<1> PICK D : D = Upto(q.mig, q.stmt)
    OBVIOUS
<1>1. /\ q.at = "run" /\ q \in [at : {"run", "record"}, mig : 1..Last, stmt : 1..7, record : BOOLEAN]
      /\ q.stmt \in 1..Size(q.mig)
    BY ProcessFacts DEF RunStatement, ProcessAt, ProcessMay
<1>2. Effect(s, Does(s)) /\ disturbed' = disturbed \cup Overlap(p) /\ recorded' = recorded
    BY DEF RunStatement, Effect
<1>3. OnceTyped'
    BY <1>1, <1>2, EffectTyped DEF OnceInv
<1>4. Upto(q.mig, q.stmt + 1) = D \cup {s} /\ (q.stmt = Size(q.mig) => Statements(q.mig) = D \cup {s})
    BY <1>1, UptoNext
<1>5. ASSUME disturbed' = {} PROVE Changing = {p} /\ q.record /\ As(D \cup {s})'
    <2>1. Changing = {p} /\ Sole(q)
        BY <1>1, <1>2, <1>5, AloneFacts DEF Works
    <2>2. q.record /\ As(D)
        BY <1>1, <2>1 DEF Sole
    <2>3. As(D \cup {s})'
        BY <1>1, <1>2, <2>2, StatementOnce
    <2> QED
        BY <2>1, <2>2, <2>3
<1>6. Size(q.mig) \in 1..7 /\ Size(q.mig) = Len(migList[q.mig])
    BY <1>1, Lengths DEF Size
<1>7. CASE q.stmt < Size(q.mig)
    <2> PICK rec : rec = [q EXCEPT !.stmt = @ + 1]
        OBVIOUS
    <2>1. q.stmt + 1 \in 1..7
        <3> PICK z : z = Size(q.mig)
            OBVIOUS
        <3> PICK i : i = q.stmt
            OBVIOUS
        <3>1. z \in 1..7 /\ i \in 1..z /\ i < z
            BY <1>1, <1>6, <1>7
        <3> QED
            BY <3>1
    <2>2. /\ rec \in ProcessType /\ rec.at = "run" /\ rec.mig = q.mig /\ rec.stmt = q.stmt + 1
          /\ rec.record = q.record
        BY <1>1, <2>1 DEF ProcessType
    <2>3. ProcessGoto(p, rec)
        BY <1>6, <1>7 DEF RunStatement
    <2>4. ASSUME disturbed' = {} PROVE Sole(rec)'
        <3>1. q.record /\ As(Upto(rec.mig, rec.stmt))'
            BY <1>4, <1>5, <2>2, <2>4
        <3> QED
            BY <2>2, <3>1 DEF Sole
    <2>5. rec.at \in Works
        BY <2>2 DEF Works
    <2> QED
        BY <1>3, <1>5, <2>2, <2>3, <2>4, <2>5, OnceStep
<1>8. CASE q.stmt = Size(q.mig) /\ q.record
    <2> PICK rec : rec = [q EXCEPT !.at = "record"]
        OBVIOUS
    <2>1. rec \in ProcessType /\ rec.at = "record" /\ rec.mig = q.mig
        BY <1>1 DEF ProcessType
    <2>2. ProcessGoto(p, rec)
        BY <1>6, <1>8 DEF RunStatement
    <2>3. ASSUME disturbed' = {} PROVE Sole(rec)'
        <3>1. As(Statements(rec.mig))'
            BY <1>4, <1>5, <1>8, <2>1, <2>3
        <3> QED
            BY <2>1, <3>1 DEF Sole
    <2>4. rec.at \in Works
        BY <2>1 DEF Works
    <2> QED
        BY <1>3, <1>5, <2>1, <2>2, <2>3, <2>4, OnceStep
<1>9. CASE q.stmt = Size(q.mig) /\ ~q.record
    <2>1. disturbed' # {}
        BY <1>5, <1>9
    <2> QED
        BY <1>3, <2>1 DEF OnceInv
<1> QED
    BY <1>1, <1>6, <1>7, <1>8, <1>9

\* A migration is recorded: the next one is to be run, or the last one is what is recorded.
LEMMA RecordVersionOnce == ASSUME SchemaInv, OnceInv, NEW p \in Processes, RecordVersion(p) PROVE OnceInv'
<1> PICK q : q = process[p]
    OBVIOUS
<1>1. /\ q.at = "record" /\ q \in [at : {"run", "record"}, mig : 1..Last, stmt : 1..7, record : BOOLEAN]
      /\ q.record /\ Statements(q.mig) \subseteq applied
    BY ProcessFacts DEF RecordVersion, ProcessAt, ProcessMay
<1>2. /\ disturbed' = disturbed \cup Overlap(p) /\ retired' = retired /\ copies' = copies /\ trusted' = trusted
      /\ recorded' = (IF hasSettings THEN q.mig ELSE recorded) /\ NextMigration(p)
    BY DEF RecordVersion
<1>3. OnceTyped'
    BY <1>2 DEF OnceInv, OnceTyped
<1>4. ASSUME disturbed' = {} PROVE Changing = {p} /\ As(Statements(q.mig))'
    <2>1. Changing = {p} /\ Sole(q)
        BY <1>1, <1>2, <1>4, AloneFacts DEF Works
    <2>2. As(Statements(q.mig))
        BY <1>1, <2>1 DEF Sole
    <2> QED
        BY <1>2, <2>1, <2>2 DEF As
<1>5. PICK rec \in ProcessType :
        /\ ProcessGoto(p, rec)
        /\ \/ /\ q.mig + 1 \in 1..Last /\ rec.at = "run"
              /\ rec.mig = q.mig + 1 /\ rec.stmt = 1 /\ rec.record = q.record
           \/ /\ q.mig = Last
              /\ rec = IF q.record THEN NoProcess ELSE [at |-> "serving"]
    BY <1>1, <1>2, NextIs
<1>6. CASE q.mig + 1 \in 1..Last /\ rec.at = "run" /\ rec.mig = q.mig + 1 /\ rec.stmt = 1 /\ rec.record = q.record
    <2> PICK k : k = q.mig + 1
        OBVIOUS
    <2>1. k \in 1..Last /\ Size(k) \in 1..7 /\ 1 \in 1..Size(k) /\ k - 1 = q.mig
        BY <1>1, <1>6, Lengths
    <2>2. Upto(k, 1) = Statements(k - 1)
        BY <2>1, UptoNext
    <2>3. Upto(rec.mig, rec.stmt) = Statements(q.mig)
        BY <1>6, <2>1, <2>2
    <2>4. ASSUME disturbed' = {} PROVE Sole(rec)'
        BY <1>1, <1>4, <1>6, <2>3, <2>4 DEF Sole
    <2>5. rec.at \in Works
        BY <1>6 DEF Works
    <2> QED
        BY <1>3, <1>4, <1>5, <2>4, <2>5, OnceStep
<1>7. CASE q.mig = Last /\ rec = IF q.record THEN NoProcess ELSE [at |-> "serving"]
    <2>1. rec = NoProcess /\ rec.at \notin Works
        BY <1>1, <1>7 DEF NoProcess, Works
    <2>2. hasSettings
        <3>1. Last = 24 /\ Last \in 0..Last /\ Size(2) = 3
            BY Lengths, ListFacts DEF Size, V0_7_0
        <3>2. 2 \in 1..Last /\ 2 \in 1..Size(2)
            BY <3>1
        <3>3. <<2, 2>> \in Statements(Last)
            BY <3>1, <3>2, StatementAt
        <3>4. <<WithSettings, 2>> \in applied
            BY <1>1, <1>7, <3>3 DEF WithSettings
        <3> QED
            BY <3>4 DEF SchemaInv
    <2>3. recorded' = q.mig
        BY <1>2, <2>2
    <2>4. ASSUME disturbed' = {} PROVE As(Statements(recorded))'
        BY <1>4, <2>3, <2>4 DEF As
    <2> QED
        BY <1>3, <1>4, <1>5, <2>1, <2>4, OnceStep
<1> QED
    BY <1>5, <1>6, <1>7

\* Everything there is to run includes the statements that do more than be there.
LEMMA AllRun ==
    /\ <<6, 3>> \in Everything /\ <<8, 5>> \in Everything /\ <<10, 1>> \in Everything
    /\ <<11, 2>> \in Everything /\ <<15, 7>> \in Everything /\ <<16, 3>> \in Everything
    /\ <<17, 1>> \in Everything /\ <<19, 5>> \in Everything
<1>1. /\ Last \in 0..Last /\ 6 \in 1..Last /\ 8 \in 1..Last /\ 10 \in 1..Last /\ 11 \in 1..Last
      /\ 15 \in 1..Last /\ 16 \in 1..Last /\ 17 \in 1..Last /\ 19 \in 1..Last
    BY SpecialSizes
<1>2. \A a \in 1..Last : \A b \in 1..Size(a) : <<a, b>> \in Everything
    BY <1>1, StatementAt DEF Everything
<1> QED
    BY <1>1, <1>2, SpecialSizes, Zenon

\* A database is made, recorded and given its samples.
LEMMA InstallOnce ==
    ASSUME SchemaInv, OnceInv, NEW p \in Processes,
           (\E b \in BOOLEAN : InstallSchema(p, b)) \/ InstallRecord(p) \/ InstallSamples(p)
    PROVE  OnceInv'
<1>1. ASSUME NEW b \in BOOLEAN, InstallSchema(p, b) PROVE OnceInv'
    <2> PICK rec : rec = [at |-> "installed"]
        OBVIOUS
    <2>1. /\ trusted' = TRUE /\ retired' = {} /\ copies' = NoCopies /\ disturbed' = Overlap(p)
          /\ ProcessGoto(p, rec)
        BY <1>1 DEF InstallSchema
    <2>2. rec \in ProcessType /\ rec.at = "installed" /\ rec.at \in Works
        BY DEF ProcessType, Works
    <2>3. OnceTyped'
        BY <2>1 DEF OnceTyped, NoCopies
    <2>4. Sole(rec)'
        BY <2>1, <2>2 DEF Sole, NoCopies
    <2>5. disturbed' = {} => Changing \ {p} = {}
        BY <2>1 DEF Overlap
    <2> QED
        BY <2>1, <2>2, <2>3, <2>4, <2>5, OnceStep
<1>2. CASE InstallRecord(p)
    <2> PICK rec : rec = [at |-> "samples"]
        OBVIOUS
    <2>1. /\ trusted' = trusted /\ retired' = retired /\ copies' = copies
          /\ disturbed' = disturbed \cup Overlap(p) /\ recorded' = Last
          /\ ProcessGoto(p, rec) /\ process[p].at = "installed"
        BY <1>2 DEF InstallRecord, ProcessAt
    <2>2. rec \in ProcessType /\ rec.at = "samples" /\ rec.at \in Works
        BY DEF ProcessType, Works
    <2>3. OnceTyped'
        BY <2>1 DEF OnceTyped, OnceInv
    <2>4. ASSUME disturbed' = {} PROVE Changing \ {p} = {} /\ Sole(rec)'
        <3>1. Changing = {p} /\ Sole(process[p])
            BY <2>1, <2>4, AloneFacts DEF Works
        <3>2. trusted = TRUE /\ retired = {} /\ \A s \in Samples : copies[s] = 0
            BY <2>1, <3>1 DEF Sole
        <3> QED
            BY <2>1, <2>2, <3>1, <3>2 DEF Sole
    <2> QED
        BY <2>1, <2>2, <2>3, <2>4, OnceStep
<1>3. CASE InstallSamples(p)
    <2>1. /\ trusted' = trusted /\ retired' = retired /\ copies' = [s \in Samples |-> copies[s] + 1]
          /\ disturbed' = disturbed \cup Overlap(p) /\ recorded' = recorded
          /\ ProcessGoto(p, NoProcess) /\ process[p].at = "samples"
        BY <1>3 DEF InstallSamples, ProcessAt, ProcessEnds
    <2>2. NoProcess \in ProcessType /\ NoProcess.at \notin Works
        BY DEF ProcessType, NoProcess, Works
    <2>3. OnceTyped'
        BY <2>1 DEF OnceTyped, OnceInv
    <2>4. ASSUME disturbed' = {} PROVE Changing \ {p} = {} /\ As(Statements(recorded))'
        <3>1. Changing = {p} /\ Sole(process[p])
            BY <2>1, <2>4, AloneFacts DEF Works
        <3>2. trusted = TRUE /\ retired = {} /\ recorded = Last /\ \A s \in Samples : copies[s] = 0
            BY <2>1, <3>1 DEF Sole
        <3>3. /\ trusted' = TRUE /\ retired' = {} /\ copies' \in [Samples -> Nat]
              /\ \A s \in Samples : copies'[s] = 1
            BY <2>1, <2>3, <3>2 DEF OnceTyped
        <3>4. As(Everything)'
            <4>1. \A s \in Samples : s \in Everything
                BY DEF Samples
            <4> QED
                BY <3>3, <4>1, AllRun DEF As
        <3> QED
            BY <2>1, <3>1, <3>2, <3>4 DEF Everything
    <2> QED
        BY <2>1, <2>2, <2>3, <2>4, OnceStep
<1> QED
    BY <1>1, <1>2, <1>3

\* An upgrade starts from what is recorded.
LEMMA UpgradeBeginOnce ==
    ASSUME SchemaInv, OnceInv, NEW p \in Processes, NEW b \in BOOLEAN, UpgradeBegin(p, b)
    PROVE  OnceInv'
<1>1. /\ process[p].at = "none" /\ trusted' = trusted /\ retired' = retired /\ copies' = copies
      /\ recorded' = recorded
    BY DEF UpgradeBegin, Startup, ProcessAt, Database
<1>2. OnceTyped'
    BY <1>1 DEF OnceInv, OnceTyped
<1>3. recorded \in 0..Last /\ Last = 24
    BY Lengths DEF SchemaInv
<1>4. p \notin Changing
    BY <1>1 DEF Changing
<1>5. CASE FirstPending(recorded) <= Last
    <2> PICK m : m = FirstPending(recorded)
        OBVIOUS
    <2> PICK rec : rec = [at |-> "run", mig |-> m, stmt |-> 1, record |-> b]
        OBVIOUS
    <2>1. m \in 1..Last /\ m - 1 = recorded
        BY <1>3, <1>5 DEF FirstPending
    <2>2. Size(m) \in 1..7 /\ 1 \in 1..Size(m)
        BY <2>1, Lengths
    <2>3. rec \in ProcessType /\ rec.at = "run" /\ rec.at \in Works /\ rec.mig = m /\ rec.stmt = 1 /\ rec.record = b
        BY <2>1 DEF ProcessType, Works
    <2>4. ProcessGoto(p, rec) /\ disturbed' = disturbed \cup (IF b THEN {} ELSE {"nightly"})
        BY <1>5 DEF UpgradeBegin
    <2>5. process'[p] = rec /\ Changing' = Changing \cup {p}
        BY <2>3, <2>4, ChangingThen
    <2>6. ASSUME disturbed' = {}, NEW o \in Processes, Changing' = {o} PROVE Sole(process[o])'
        <3>1. disturbed = {} /\ b = TRUE
            BY <2>4, <2>6
        <3>2. Changing = {} /\ o = p
            BY <1>4, <2>5, <2>6
        <3>3. As(Statements(recorded))
            BY <3>1, <3>2 DEF OnceInv
        <3>4. Upto(m, 1) = Statements(m - 1)
            BY <2>1, <2>2, UptoNext
        <3>5. As(Upto(m, 1))'
            BY <1>1, <2>1, <3>3, <3>4 DEF As
        <3>6. Sole(rec)'
            BY <2>3, <3>1, <3>5 DEF Sole
        <3> QED
            BY <2>5, <3>2, <3>6 DEF Sole
    <2>7. Changing' # {}
        BY <2>5
    <2> QED
        BY <1>2, <2>6, <2>7 DEF OnceInv
<1>6. CASE ~(FirstPending(recorded) <= Last)
    <2> PICK rec : rec = IF b THEN NoProcess ELSE [at |-> "serving"]
        OBVIOUS
    <2>1. rec \in ProcessType /\ rec.at \notin Works
        BY DEF ProcessType, Works, NoProcess
    <2>2. ProcessGoto(p, rec) /\ disturbed' = disturbed
        BY <1>6 DEF UpgradeBegin
    <2>3. Changing' = Changing /\ \A o \in Processes \ {p} : process'[o] = process[o]
        <3>1. Changing' = Changing \ {p} /\ \A o \in Processes \ {p} : process'[o] = process[o]
            BY <2>1, <2>2, ChangingThen
        <3> QED
            BY <1>4, <3>1
    <2>4. ASSUME disturbed = {}, Changing = {} PROVE As(Statements(recorded))'
        <3>1. As(Statements(recorded))
            BY <2>4 DEF OnceInv
        <3> QED
            BY <1>1, <3>1 DEF As
    <2>5. ASSUME disturbed = {}, NEW o \in Processes, Changing = {o} PROVE Sole(process[o])'
        <3>1. o # p /\ Sole(process[o]) /\ process'[o] = process[o]
            BY <1>4, <2>3, <2>5 DEF OnceInv
        <3> QED
            BY <1>1, <3>1 DEF Sole, As
    <2> QED
        BY <1>2, <2>2, <2>3, <2>4, <2>5 DEF OnceInv
<1> QED
    BY <1>5, <1>6

\* A server starts or stops, and the database stays as it is.
LEMMA ServeOnce ==
    ASSUME SchemaInv, OnceInv, NEW p \in Processes, Serve(p) \/ StopServing(p) PROVE OnceInv'
<1> PICK rec : rec = IF Serve(p) THEN [at |-> "serving"] ELSE NoProcess
    OBVIOUS
<1>1. /\ process[p].at \in {"none", "serving"} /\ trusted' = trusted /\ retired' = retired /\ copies' = copies
      /\ recorded' = recorded /\ disturbed' = disturbed
    BY DEF Serve, StopServing, ProcessAt, Database
<1>2. ProcessGoto(p, rec)
    BY DEF Serve, StopServing, ProcessEnds
<1>3. OnceTyped'
    BY <1>1 DEF OnceInv, OnceTyped
<1>4. rec \in ProcessType /\ rec.at \notin Works
    BY DEF ProcessType, Works, NoProcess
<1>5. p \notin Changing
    BY <1>1 DEF Changing
<1>6. Changing' = Changing /\ \A o \in Processes \ {p} : process'[o] = process[o]
    BY <1>2, <1>4, <1>5, ChangingThen
<1>7. ASSUME disturbed = {}, Changing = {} PROVE As(Statements(recorded))'
    <2>1. As(Statements(recorded))
        BY <1>7 DEF OnceInv
    <2> QED
        BY <1>1, <2>1 DEF As
<1>8. ASSUME disturbed = {}, NEW o \in Processes, Changing = {o} PROVE Sole(process[o])'
    <2>1. o # p /\ Sole(process[o]) /\ process'[o] = process[o]
        BY <1>5, <1>6, <1>8 DEF OnceInv
    <2> QED
        BY <1>1, <2>1 DEF Sole, As
<1> QED
    BY <1>1, <1>3, <1>6, <1>7, <1>8 DEF OnceInv

\* An upgrade is stopped: what follows is not undisturbed.
LEMMA UpgradeStopsOnce == ASSUME OnceInv, NEW p \in Processes, UpgradeStops(p) PROVE OnceInv'
<1>1. disturbed' # {} /\ retired' = retired /\ copies' = copies
    BY DEF UpgradeStops, Database
<1> QED
    BY <1>1 DEF OnceInv, OnceTyped

\* The migrations that have to do with a setting that is taken away.
LEMMA KeyFacts ==
    ASSUME NEW m \in 1..Last
    PROVE  /\ (\E i \in 1..Len(migList[m]) : migList[m][i].key = "bounce.count") <=> m \in {6, 11}
           /\ (\E i \in 1..Len(migList[m]) : migList[m][i].key = "security.enable_captcha") <=> m \in {10, 16}
           /\ (\E i \in 1..Len(migList[m]) : migList[m][i].key = "security.cors_origins") <=> m \in {17, 19}
<1>1. ASSUME NEW i \in 1..Size(m)
      PROVE  /\ migList[m][i].key = "bounce.count" <=> <<m, i>> \in {<<6, 3>>, <<11, 2>>}
             /\ migList[m][i].key = "security.enable_captcha" <=> <<m, i>> \in {<<10, 1>>, <<16, 3>>}
             /\ migList[m][i].key = "security.cors_origins" <=> <<m, i>> \in {<<17, 1>>, <<19, 5>>}
    <2> PICK s : s = <<m, i>>
        OBVIOUS
    <2> PICK d : d = Does(s)
        OBVIOUS
    <2>1. (d = Once /\ s \notin SpecialOnes) \/ Special(s, d)
        BY WhatStatementsDo
    <2>2. d = migList[m][i]
        BY DEF Does
    <2>3. /\ d.key = "bounce.count" <=> s \in {<<6, 3>>, <<11, 2>>}
          /\ d.key = "security.enable_captcha" <=> s \in {<<10, 1>>, <<16, 3>>}
          /\ d.key = "security.cors_origins" <=> s \in {<<17, 1>>, <<19, 5>>}
        <3>1. CASE d = Once /\ s \notin SpecialOnes
            BY <3>1, DoesFacts DEF SpecialOnes
        <3>2. CASE Special(s, d)
            BY <3>2, DoesFacts DEF Special
        <3> QED
            BY <2>1, <3>1, <3>2
    <2> QED
        BY <2>2, <2>3
<1>2. Size(m) = Len(migList[m])
    BY DEF Size
<1>3. (\E i \in 1..Size(m) : migList[m][i].key = "bounce.count") <=> m \in {6, 11}
    BY <1>1, SpecialSizes
<1>4. (\E i \in 1..Size(m) : migList[m][i].key = "security.enable_captcha") <=> m \in {10, 16}
    BY <1>1, SpecialSizes
<1>5. (\E i \in 1..Size(m) : migList[m][i].key = "security.cors_origins") <=> m \in {17, 19}
    BY <1>1, SpecialSizes
<1> QED
    BY <1>2, <1>3, <1>4, <1>5

\* The database of an older release has what its migrations left, once.
LEMMA OlderDatabaseOnce ==
    ASSUME SchemaInv, OnceInv, NEW n \in OlderReleases, OlderDatabase(n) PROVE OnceInv'
<1>1. n \in 0..Last /\ n \in 1..Last /\ n \in Nat /\ Last = 24 /\ 0 \in 0..Last
    BY UpgradeAssumption, Lengths
<1>2. /\ retired' = RetiredAfter(n) /\ trusted' = (<<19, 5>> \in Statements(n)) /\ process' = process
      /\ copies' = [s \in Samples |-> IF s \in Statements(n) THEN 1 ELSE 0]
      /\ recorded' = IF n >= 2 THEN n ELSE 0
      /\ \A p \in Processes : process[p] = NoProcess
    BY DEF OlderDatabase, WithSettings
<1>3. OnceTyped'
    BY <1>2 DEF OnceTyped, RetiredAfter
<1>4. Changing' = {}
    BY <1>2 DEF Changing, NoProcess
<1> PICK R : R = Statements(recorded')
    OBVIOUS
<1>5. ASSUME NEW a \in 2..Last, NEW b \in 1..Size(a)
      PROVE  (<<a, b>> \in Statements(n) <=> a <= n) /\ (<<a, b>> \in R <=> a <= n)
    <2>1. a \in Nat /\ a >= 2
        BY <1>5, <1>1
    <2>2. <<a, b>> \in Statements(n) <=> a <= n
        <3>1. <<a, b>> \in Statements(n) <=> a \in 1..n /\ b \in 1..Size(a)
            BY <1>1, StatementAt
        <3> QED
            BY <1>1, <2>1, <3>1
    <2>3. <<a, b>> \in Statements(0) <=> FALSE
        <3>1. Statements(0) = {}
            BY <1>1, StatementsGrow
        <3> QED
            BY <3>1
    <2> QED
        BY <1>1, <1>2, <2>1, <2>2, <2>3
<1>6. /\ 6 \in 2..Last /\ 8 \in 2..Last /\ 10 \in 2..Last /\ 11 \in 2..Last
      /\ 15 \in 2..Last /\ 16 \in 2..Last /\ 17 \in 2..Last /\ 19 \in 2..Last
    BY <1>1
<1>7. /\ (<<6, 3>> \in Statements(n) <=> 6 <= n) /\ (<<6, 3>> \in R <=> 6 <= n)
      /\ (<<8, 5>> \in Statements(n) <=> 8 <= n) /\ (<<8, 5>> \in R <=> 8 <= n)
      /\ (<<10, 1>> \in Statements(n) <=> 10 <= n) /\ (<<10, 1>> \in R <=> 10 <= n)
      /\ (<<11, 2>> \in Statements(n) <=> 11 <= n) /\ (<<11, 2>> \in R <=> 11 <= n)
      /\ (<<15, 7>> \in Statements(n) <=> 15 <= n) /\ (<<15, 7>> \in R <=> 15 <= n)
      /\ (<<16, 3>> \in Statements(n) <=> 16 <= n) /\ (<<16, 3>> \in R <=> 16 <= n)
      /\ (<<17, 1>> \in Statements(n) <=> 17 <= n) /\ (<<17, 1>> \in R <=> 17 <= n)
      /\ (<<19, 5>> \in Statements(n) <=> 19 <= n) /\ (<<19, 5>> \in R <=> 19 <= n)
    BY <1>5, <1>6, SpecialSizes, Zenon
<1> DEFINE touched(k) == {m \in 1..n : \E i \in 1..Len(migList[m]) : migList[m][i].key = k}
           one(k) == \E m \in touched(k) : \A l \in touched(k) : l = m
<1>8. \A k \in Retired : k \in RetiredAfter(n) <=> one(k)
    BY DEF RetiredAfter
<1>9. /\ touched("bounce.count") = {6, 11} \cap 1..n
      /\ touched("security.enable_captcha") = {10, 16} \cap 1..n
      /\ touched("security.cors_origins") = {17, 19} \cap 1..n
    <2>1. \A m \in 1..n : m \in 1..Last
        BY <1>1
    <2>2. ASSUME NEW m \in 1..n
          PROVE  /\ m \in touched("bounce.count") <=> m \in {6, 11}
                 /\ m \in touched("security.enable_captcha") <=> m \in {10, 16}
                 /\ m \in touched("security.cors_origins") <=> m \in {17, 19}
        BY <2>1, KeyFacts, Zenon
    <2>3. /\ touched("bounce.count") \subseteq 1..n /\ touched("security.enable_captcha") \subseteq 1..n
          /\ touched("security.cors_origins") \subseteq 1..n
        OBVIOUS
    <2> HIDE DEF touched
    <2> QED
        BY <2>2, <2>3
<1> HIDE DEF touched
<1>10. /\ one("bounce.count") <=> 6 <= n /\ ~(11 <= n)
       /\ one("security.enable_captcha") <=> 10 <= n /\ ~(16 <= n)
       /\ one("security.cors_origins") <=> 17 <= n /\ ~(19 <= n)
    BY <1>1, <1>9
<1> HIDE DEF one
<1>11. /\ trusted' \in BOOLEAN /\ (trusted' <=> <<19, 5>> \in R)
    <2>1. trusted' = (<<19, 5>> \in Statements(n))
        BY <1>2
    <2>2. <<19, 5>> \in Statements(n) <=> <<19, 5>> \in R
        BY <1>7
    <2>3. trusted' \in BOOLEAN
        BY <2>1
    <2>4. trusted' <=> <<19, 5>> \in Statements(n)
        BY <2>1, Zenon
    <2> QED
        BY <2>2, <2>3, <2>4, Zenon
<1>12. /\ "bounce.count" \in retired' <=> <<6, 3>> \in R /\ <<11, 2>> \notin R
       /\ "security.enable_captcha" \in retired' <=> <<10, 1>> \in R /\ <<16, 3>> \notin R
       /\ "security.cors_origins" \in retired' <=> <<17, 1>> \in R /\ <<19, 5>> \notin R
    BY <1>2, <1>7, <1>8, <1>10 DEF Retired
<1>13. \A s \in Samples : copies'[s] = IF s \in R THEN 1 ELSE 0
    BY <1>2, <1>7, SampleFacts
<1>14. As(R)'
    BY <1>3, <1>11, <1>12, <1>13 DEF As, OnceTyped
<1>15. As(Statements(recorded))'
    BY <1>14
<1> QED
    BY <1>3, <1>4, <1>15 DEF OnceInv

\* Every step of an undisturbed database does what it does once.
LEMMA OnceNextInv == SchemaInv /\ OnceInv /\ (UpgradeNext \/ UNCHANGED upgradeVars) => OnceInv'
<1> SUFFICES ASSUME SchemaInv, OnceInv, UpgradeNext \/ UNCHANGED upgradeVars PROVE OnceInv'
    OBVIOUS
<1>1. CASE \E n \in OlderReleases : OlderDatabase(n)
    BY <1>1, OlderDatabaseOnce
<1>2. CASE \E p \in Processes : \E b \in BOOLEAN : InstallSchema(p, b)
    BY <1>2, InstallOnce
<1>3. CASE \E p \in Processes : \E b \in BOOLEAN : UpgradeBegin(p, b)
    BY <1>3, UpgradeBeginOnce
<1>4. CASE \E p \in Processes : InstallRecord(p) \/ InstallSamples(p)
    BY <1>4, InstallOnce
<1>5. CASE \E p \in Processes : RunStatement(p) \/ RecordVersion(p)
    BY <1>5, RunStatementOnce, RecordVersionOnce
<1>6. CASE \E p \in Processes : UpgradeStops(p) \/ Serve(p) \/ StopServing(p)
    BY <1>6, ServeOnce, UpgradeStopsOnce
<1>7. CASE UNCHANGED upgradeVars
    <2>1. /\ trusted' = trusted /\ retired' = retired /\ copies' = copies /\ recorded' = recorded
          /\ process' = process /\ disturbed' = disturbed
        BY <1>7 DEF upgradeVars
    <2> QED
        BY <2>1 DEF OnceInv, OnceTyped, Sole, As, Changing
<1> QED
    BY <1>1, <1>2, <1>3, <1>4, <1>5, <1>6, <1>7 DEF UpgradeNext

\* Undisturbed, nothing is there twice or left over.
LEMMA UpgradeMeans == SchemaInv /\ OnceInv => UpgradesComplete /\ UpgradeTypeOK
<1> SUFFICES ASSUME SchemaInv, OnceInv PROVE UpgradesComplete /\ UpgradeTypeOK
    OBVIOUS
<1>1. ServesOnFullSchema
    BY SchemaMeans
<1>2. ASSUME recorded = Last, Changing = {}, disturbed = {}
      PROVE  retired = {} /\ \A s \in Samples : copies[s] = 1
    <2>1. As(Everything)
        BY <1>2 DEF OnceInv, Everything
    <2>2. retired \subseteq Retired /\ \A k \in Retired : k \notin retired
        BY <2>1, AllRun DEF As, Retired
    <2>3. \A s \in Samples : copies[s] = 1
        BY <2>1 DEF As, Samples
    <2> QED
        BY <2>2, <2>3
<1>3. RepeatsOnlyAfterDisturbance
    BY <1>2 DEF RepeatsOnlyAfterDisturbance
<1>4. \A p \in Changing : process[p].at = "run" => process[p].stmt \in 1..Len(migList[process[p].mig])
    <2> SUFFICES ASSUME NEW p \in Changing, process[p].at = "run"
                 PROVE  process[p].stmt \in 1..Len(migList[process[p].mig])
        OBVIOUS
    <2>1. p \in Processes
        BY DEF Changing
    <2>2. process[p].stmt \in 1..Size(process[p].mig)
        BY <2>1, ProcessFacts DEF ProcessMay
    <2> QED
        BY <2>2 DEF Size
<1> QED
    BY <1>1, <1>3, <1>4 DEF UpgradesComplete, UpgradeTypeOK, SchemaInv, OnceInv, OnceTyped
===============================================================================
