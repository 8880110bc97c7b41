----------------------------- MODULE Permissions -----------------------------
(***************************************************************************)
(* service/users.go HasPermission with its cache of role permissions, for   *)
(* one user and one permission that is neither the reading nor the admin    *)
(* permission.  A check reads the user, goes through the roles it read, and *)
(* only if none of them grants asks the database once more.  Loading a role *)
(* into the cache takes two steps: the query, and the store, which stamps   *)
(* the entry with the time of the store.                                    *)
(***************************************************************************)
EXTENDS Integers, FiniteSets

CONSTANTS
    Roles,
    Checks,         \* concurrent permission checks
    TTL,            \* how long an entry is used, in ticks
    MaxLag,         \* bound: how long a load may take
    MaxChanges      \* bound: changes of roles, permissions and account

ASSUME PermissionsAssumption == TTL \in Nat /\ MaxLag \in Nat /\ MaxChanges \in Nat

Perms == {"asked", "admin"}
\* An entry older than TTL is not used, whatever its age.
MaxAge == TTL + 1
\* Longer ago than any entry or load can be.
Long == TTL + MaxLag + 1

VARIABLES
    rolePerms,      \* what role_permissions holds
    userRoles,      \* the user's roles, in user_roles or users.role_id
    userActive,
    cache,          \* cache[r]: loaded, the permissions and the age
    check,          \* check[k]: the step of k, the roles left, a load under way
    since,          \* history: ticks since role r last granted
    changes         \* the changes made

permVars == <<rolePerms, userRoles, userActive, cache, check, since, changes>>

Entry == [loaded: BOOLEAN, perms: SUBSET Perms, age: 0..MaxAge]
NoEntry == [loaded |-> FALSE, perms |-> {}, age |-> MaxAge]

\* load: the query of role is done and its answer, lag ticks old, not yet stored.
CheckState == [step: {"idle", "roles", "load", "database", "granted", "denied"},
               todo: SUBSET Roles, role: SUBSET Roles, perms: SUBSET Perms, lag: 0..MaxLag]
Idle == [step |-> "idle", todo |-> {}, role |-> {}, perms |-> {}, lag |-> 0]

PermTypeOK ==
    /\ rolePerms \in [Roles -> SUBSET Perms]
    /\ userRoles \subseteq Roles /\ userActive \in BOOLEAN
    /\ cache \in [Roles -> Entry]
    /\ check \in [Checks -> CheckState]
    /\ \A k \in Checks : Cardinality(check[k].role) = IF check[k].step = "load" THEN 1 ELSE 0
    /\ since \in [Roles -> 0..Long]
    /\ changes \in 0..MaxChanges

Grants(p) == p # {}
GrantsRole(r) == Grants(rolePerms[r])

PermInit ==
    /\ rolePerms \in [Roles -> SUBSET Perms]
    /\ userRoles \in SUBSET Roles
    /\ userActive = TRUE
    /\ cache = [r \in Roles |-> NoEntry]
    /\ check = [k \in Checks |-> Idle]
    /\ since = [r \in Roles |-> IF GrantsRole(r) THEN 0 ELSE Long]
    /\ changes = 0

Database == <<rolePerms, userRoles, userActive, changes>>
Is(k, s) == check[k].step = s

\* GetUser with its roles; an unknown or inactive user has no permission.
StartCheck(k) ==
    /\ check[k].step \in {"idle", "granted", "denied"}
    /\ check' = [check EXCEPT ![k] =
           [Idle EXCEPT !.step = IF userActive THEN "roles" ELSE "denied",
                        !.todo = IF userActive THEN userRoles ELSE {}]]
    /\ UNCHANGED <<Database, cache, since>>

\* Mutant: entries are used for ever.
FreshForever(r) == cache[r].loaded

Fresh(r) == cache[r].loaded /\ cache[r].age <= TTL

\* What the loop does with the permissions of role r.
Decide1(k, r, p) ==
    check' = [check EXCEPT ![k] =
        [Idle EXCEPT !.step = IF Grants(p) THEN "granted" ELSE "roles",
                     !.todo = IF Grants(p) THEN {} ELSE check[k].todo \ {r}]]

UseEntry(k, r) ==
    /\ Is(k, "roles") /\ r \in check[k].todo /\ Fresh(r)
    /\ Decide1(k, r, cache[r].perms)
    /\ UNCHANGED <<Database, cache, since>>

LoadRole(k, r) ==
    /\ Is(k, "roles") /\ r \in check[k].todo /\ ~Fresh(r)
    /\ check' = [check EXCEPT ![k] =
           [@ EXCEPT !.step = "load", !.role = {r}, !.perms = rolePerms[r], !.lag = 0]]
    /\ UNCHANGED <<Database, cache, since>>

\* The query of a role's permissions fails: the database decides.
LoadFails(k) ==
    /\ Is(k, "roles") /\ \E r \in check[k].todo : ~Fresh(r)
    /\ check' = [check EXCEPT ![k] = [Idle EXCEPT !.step = "database"]]
    /\ UNCHANGED <<Database, cache, since>>

StoreRole(k, r) ==
    /\ Is(k, "load") /\ check[k].role = {r}
    /\ cache' = [cache EXCEPT ![r] =
           [loaded |-> TRUE, perms |-> check[k].perms, age |-> 0]]
    /\ Decide1(k, r, check[k].perms)
    /\ UNCHANGED <<Database, since>>

NoRoleLeft(k) == Is(k, "database") \/ (Is(k, "roles") /\ check[k].todo = {})

\* repository.HasPermission: one statement, which knows no admin permission.
Held == userActive /\ \E r \in userRoles : "asked" \in rolePerms[r]

AskDatabase(k) ==
    /\ NoRoleLeft(k)
    /\ check' = [check EXCEPT ![k] =
           [Idle EXCEPT !.step = IF Held THEN "granted" ELSE "denied"]]
    /\ UNCHANGED <<Database, cache, since>>

-----------------------------------------------------------------------------
Change == changes < MaxChanges /\ changes' = changes + 1

\* Migrations and operators change role_permissions; no code in this repository
\* does.
RolePermissionsChange(r) ==
    /\ Change
    /\ \E p \in SUBSET Perms : rolePerms' = [rolePerms EXCEPT ![r] = p]
    /\ since' = [since EXCEPT ![r] = IF GrantsRole(r) \/ Grants(rolePerms'[r]) THEN 0 ELSE @]
    /\ UNCHANGED <<userRoles, userActive, cache, check>>

\* UpdateUser adds the new role and takes none away; ActivateUser.
UpdateUser(r) ==
    /\ Change
    /\ userRoles' = userRoles \union {r}
    /\ userActive' \in BOOLEAN
    /\ UNCHANGED <<rolePerms, cache, check, since>>

InvalidatePermissionCache ==
    /\ cache' = [r \in Roles |-> NoEntry]
    /\ UNCHANGED <<Database, check, since>>

Older(n, most) == IF n < most THEN n + 1 ELSE most

PermTick ==
    /\ \A k \in Checks : Is(k, "load") => check[k].lag < MaxLag
    /\ cache' = [r \in Roles |-> [cache[r] EXCEPT !.age = Older(@, MaxAge)]]
    /\ since' = [r \in Roles |-> IF GrantsRole(r) THEN 0 ELSE Older(since[r], Long)]
    /\ check' = [k \in Checks |->
           IF Is(k, "load") THEN [check[k] EXCEPT !.lag = @ + 1] ELSE check[k]]
    /\ UNCHANGED Database

PermNext ==
    \/ \E k \in Checks :
        \/ StartCheck(k) \/ LoadFails(k) \/ AskDatabase(k)
        \/ \E r \in Roles : UseEntry(k, r) \/ LoadRole(k, r) \/ StoreRole(k, r)
    \/ \E r \in Roles : RolePermissionsChange(r) \/ UpdateUser(r)
    \/ InvalidatePermissionCache \/ PermTick

PermSpec == PermInit /\ [][PermNext]_permVars

-----------------------------------------------------------------------------
Concludes(k, s) == check'[k].step = s /\ ~Is(k, s)

\* A granted check was entitled to it: a role of the user grants now, or did so no
\* longer ago than an entry is used plus a load takes.  (The time to live alone is
\* not a bound: an entry's age starts at its store, not at its query.)
GrantsAreRecent == [][\A k \in Checks : Concludes(k, "granted") =>
    \E r \in userRoles : since[r] <= TTL + MaxLag]_permVars

=============================================================================
