------------------------------- MODULE Access -------------------------------
(***************************************************************************)
(* What one user's access tokens are worth: validate_token, which consults *)
(* the denylist (Redis or Postgres), the user's row, the membership and    *)
(* the permissions (cached in Redis), against logout and the handlers that *)
(* change roles, permissions and memberships.  Each query and each Redis   *)
(* command is a step of its own; other requests run in between.            *)
(*                                                                         *)
(* Signature and expiry of the token are checked by a library and do not   *)
(* appear, nor do the roles listed in the answer beside the permissions.   *)
(* Roles have distinct names.                                              *)
(***************************************************************************)
EXTENDS Naturals

CONSTANTS
  Tokens,         \* access tokens of the user, by jti
  TokenScope,     \* the tenant and project claimed by each
  Tenants,
  Projects,
  ProjectTenant,  \* the tenant that owns each project
  Roles,
  RoleTenant,     \* the tenant that owns each role, NULL for a built-in template
  Permissions,
  Requests,       \* slots for concurrently running handlers
  LogoutTokens,   \* bound: the tokens whose logout is explored
  PermsTTL,       \* PERMS_TTL_SECS
  MaxTime,        \* bound on the clock
  MaxFaults,      \* bound on failed queries, Redis errors and dropped requests
  NULL

Scope == Tenants \X (Projects \cup {NULL})

ASSUME AccessAssumption ==
  /\ TokenScope \in [Tokens -> Scope]
  /\ ProjectTenant \in [Projects -> Tenants]
  /\ RoleTenant \in [Roles -> Tenants \cup {NULL}]
  /\ LogoutTokens \subseteq Tokens
  /\ {PermsTTL, MaxTime, MaxFaults} \subseteq Nat
  /\ NULL \notin Tokens \cup Tenants \cup Projects

VARIABLES
  has_redis,         \* REDIS_URL is set, for all replicas alike
  status,            \* the user: "active", "deleted" or "gone"
  memberships,       \* tenants the user is an active member of
  roles,             \* the roles that exist
  role_permissions,  \* role_permissions[r]: the permissions of role r
  user_roles,        \* the user's assignments
  revoked_tokens,    \* the denylist in Postgres
  denylist,          \* the denylist in Redis
  cache,             \* cache[s]: the entry perms:<tenant>:<project>:<user>, or NULL
  req,               \* what each running handler has read, and where it is
  now,               \* the clock
  ended,             \* history: tokens whose logout has returned
  slipped,           \* history: tokens that a denylist missed or lost, and that no later
                     \* logout has put in both
  ever,              \* history: permissions ever held in each scope
  lost,              \* history: when and how each permission was last lost
  missed,            \* history: an invalidation failed, and no later one has emptied the cache
  faults             \* faults so far

database == <<status, memberships, roles, role_permissions, user_roles, revoked_tokens>>
redis == <<has_redis, denylist, cache>>
history == <<ended, slipped, ever, lost, missed>>

vars == <<database, redis, req, now, history, faults>>

Assignment == [role: Roles, tenant: Tenants, project: Projects \cup {NULL}]

\* `late` is history: the permissions were out of date when they were stored.
Entry == [perms: SUBSET Permissions, until: Nat, late: BOOLEAN]

ASSUME NullIsNoEntry == NULL \notin Entry

(***************************************************************************)
(* A validation asks whether the token is in "postgres"' denylist, the     *)
(* user "active" and a "member"; then it "get"s the cached permissions, or *)
(* "load"s and "store"s them.  A logout is about to run revoke_access_"jti" *)
(* or "deny"; an assignment or its removal, to "invalidate" the cache.     *)
(* `late` is history: the token's logout had returned when it was shown.   *)
(***************************************************************************)
Request ==
  [at: {"idle", "postgres", "active", "member", "get", "load", "store", "jti", "deny",
        "invalidate"},
   token: Tokens \cup {NULL}, perms: SUBSET Permissions, late: BOOLEAN]

Idle == [at |-> "idle", token |-> NULL, perms |-> {}, late |-> FALSE]

\* get_user_permissions_scoped: tenant-wide assignments always count, those for
\* a project only when the token names it.
Held(s) ==
  UNION {role_permissions[a.role] :
           a \in {b \in user_roles : b.tenant = s[1] /\ b.project \in {NULL, s[2]}}}

Fresh(s) == cache[s] # NULL /\ now < cache[s].until

NoEntry == [s \in Scope |-> NULL]

Init ==
  /\ has_redis \in BOOLEAN
  /\ status = "active"
  /\ memberships = Tenants
  /\ roles = Roles
  /\ role_permissions = [r \in Roles |-> IF RoleTenant[r] = NULL THEN Permissions ELSE {}]
  /\ user_roles = {}
  /\ revoked_tokens = {}
  /\ denylist = {}
  /\ cache = NoEntry
  /\ req = [r \in Requests |-> Idle]
  /\ now = 0
  /\ ended = {}
  /\ slipped = {}
  /\ ever = [s \in Scope |-> {}]
  /\ lost = [s \in Scope |-> [p \in Permissions |-> [at |-> 0, by |-> "never"]]]
  /\ missed = FALSE
  /\ faults = 0

Begin(r, request) ==
  /\ req[r] = Idle
  /\ req' = [req EXCEPT ![r] = request]

Goto(r, at) == req' = [req EXCEPT ![r].at = at]

End(r) == req' = [req EXCEPT ![r] = Idle]

Fault ==
  /\ faults < MaxFaults
  /\ faults' = faults + 1

\* A change of the permissions held, with the history of it.
Record(how) ==
  /\ ever' = [s \in Scope |-> ever[s] \cup Held(s)']
  /\ lost' = [s \in Scope |-> [p \in Permissions |->
       IF p \in Held(s) /\ p \notin Held(s)' THEN [at |-> now, by |-> how] ELSE lost[s][p]]]

-----------------------------------------------------------------------------
(***************************************************************************)
(* validate_token                                                          *)
(***************************************************************************)
\* Mutant: a Redis error counts as "not denied".
ValidateErrorIsFalse(r, t) ==
  /\ \/ /\ has_redis
        /\ t \notin denylist
        /\ UNCHANGED faults
     \/ Fault
  /\ Begin(r, [at |-> "active", token |-> t, perms |-> {}, late |-> t \in ended \ slipped])
  /\ UNCHANGED <<database, redis, now, history>>

\* Cache::is_denied: if Redis is off or fails, Postgres is asked.
Validate(r, t) ==
  LET Continue(at) ==
        Begin(r, [at |-> at, token |-> t, perms |-> {}, late |-> t \in ended \ slipped])
  IN  /\ \/ /\ has_redis
            /\ t \notin denylist
            /\ Continue("active")
            /\ UNCHANGED faults
         \/ /\ ~has_redis
            /\ Continue("postgres")
            /\ UNCHANGED faults
         \/ /\ has_redis
            /\ Fault
            /\ Continue("postgres")
      /\ UNCHANGED <<database, redis, now, history>>

is_token_revoked(r) ==
  /\ req[r].at = "postgres"
  /\ IF req[r].token \in revoked_tokens THEN End(r) ELSE Goto(r, "active")
  /\ UNCHANGED <<database, redis, now, history, faults>>

is_user_active(r) ==
  /\ req[r].at = "active"
  /\ IF status = "active" THEN Goto(r, "member") ELSE End(r)
  /\ UNCHANGED <<database, redis, now, history, faults>>

is_active_member(r) ==
  /\ req[r].at = "member"
  /\ IF TokenScope[req[r].token][1] \in memberships THEN Goto(r, "get") ELSE End(r)
  /\ UNCHANGED <<database, redis, now, history, faults>>

\* Mutant: the key is not scoped to the project.
KeyOfTenant(t) == <<TokenScope[t][1], NULL>>

\* The key of the user's entry, one for each tenant and project ("-" if none).
perms_key(t) == TokenScope[t]

\* A hit is the answer; a miss or an error leads to the database.
get_perms(r) ==
  /\ req[r].at = "get"
  /\ \/ /\ has_redis
        /\ IF Fresh(perms_key(req[r].token)) THEN End(r) ELSE Goto(r, "load")
        /\ UNCHANGED faults
     \/ /\ ~has_redis
        /\ Goto(r, "load")
        /\ UNCHANGED faults
     \/ /\ has_redis
        /\ Fault
        /\ Goto(r, "load")
  /\ UNCHANGED <<database, redis, now, history>>

get_user_permissions_scoped(r) ==
  /\ req[r].at = "load"
  /\ req' = [req EXCEPT ![r].at = "store", ![r].perms = Held(TokenScope[req[r].token])]
  /\ UNCHANGED <<database, redis, now, history, faults>>

\* Mutant: SET without an expiry.
SetForever(r) ==
  /\ req[r].at = "store"
  /\ has_redis
  /\ LET key == perms_key(req[r].token)
     IN  cache' = [cache EXCEPT ![key] =
           [perms |-> req[r].perms, until |-> MaxTime + PermsTTL + 1,
            late |-> ~(req[r].perms \subseteq Held(key))]]
  /\ End(r)
  /\ UNCHANGED <<database, has_redis, denylist, now, history, faults>>

\* The permissions read are stored, whatever has happened since, and answered;
\* an error is ignored.
set_perms(r) ==
  /\ req[r].at = "store"
  /\ \/ /\ has_redis
        /\ LET key == perms_key(req[r].token)
           IN  cache' = [cache EXCEPT ![key] =
                 [perms |-> req[r].perms, until |-> now + PermsTTL,
                  late |-> ~(req[r].perms \subseteq Held(TokenScope[req[r].token]))]]
        /\ UNCHANGED faults
     \/ /\ ~has_redis
        /\ UNCHANGED <<cache, faults>>
     \/ /\ has_redis
        /\ Fault
        /\ UNCHANGED cache
  /\ End(r)
  /\ UNCHANGED <<database, has_redis, denylist, now, history>>

-----------------------------------------------------------------------------
(***************************************************************************)
(* logout, once the refresh token is revoked                               *)
(***************************************************************************)
Logout(r, t) ==
  /\ Begin(r, [Idle EXCEPT !.at = "jti", !.token = t])
  /\ UNCHANGED <<database, redis, now, history, faults>>

\* An error is ignored.
revoke_access_jti(r) ==
  /\ req[r].at = "jti"
  /\ \/ /\ revoked_tokens' = revoked_tokens \cup {req[r].token}
        /\ UNCHANGED <<slipped, faults>>
     \/ /\ Fault
        /\ slipped' = slipped \cup {req[r].token}
        /\ UNCHANGED revoked_tokens
  /\ Goto(r, "deny")
  /\ UNCHANGED <<status, memberships, roles, role_permissions, user_roles, redis, now, ended,
                 ever, lost, missed>>

\* The denylists that are there have the token.
Healed(token) == slipped' = IF token \in revoked_tokens THEN slipped \ {token} ELSE slipped

\* An error is ignored here too, and logout reports success.
deny(r) ==
  /\ req[r].at = "deny"
  /\ \/ /\ has_redis
        /\ denylist' = denylist \cup {req[r].token}
        /\ Healed(req[r].token)
        /\ UNCHANGED faults
     \/ /\ ~has_redis
        /\ Healed(req[r].token)
        /\ UNCHANGED <<denylist, faults>>
     \/ /\ has_redis
        /\ Fault
        /\ slipped' = slipped \cup {req[r].token}
        /\ UNCHANGED denylist
  /\ ended' = ended \cup {req[r].token}
  /\ End(r)
  /\ UNCHANGED <<database, has_redis, cache, now, ever, lost, missed>>

-----------------------------------------------------------------------------
(***************************************************************************)
(* Roles and permissions, changed by an administrator of tenant t.         *)
(***************************************************************************)
Visible(role, t) == role \in roles /\ RoleTenant[role] \in {t, NULL}

ProjectOf(p, t) == p # NULL => ProjectTenant[p] = t

\* validate_assign and the INSERT; a role deleted between the two is not found.
assign_role(r, role, t, p) ==
  /\ status # "gone"
  /\ Visible(role, t) /\ ProjectOf(p, t)
  /\ Begin(r, [Idle EXCEPT !.at = "invalidate"])
  /\ user_roles' = user_roles \cup {[role |-> role, tenant |-> t, project |-> p]}
  /\ UNCHANGED <<status, memberships, roles, role_permissions, revoked_tokens, redis, now, ended,
                 slipped, missed, faults>>
  /\ Record("assignment")

\* Mutant: the cache is not invalidated.
RevokeKeepCache(r, role, t, p) ==
  /\ role \in roles
  /\ req[r] = Idle
  /\ user_roles' = user_roles \ {[role |-> role, tenant |-> t, project |-> p]}
  /\ UNCHANGED <<status, memberships, roles, role_permissions, revoked_tokens, redis, req, now,
                 ended, slipped, missed, faults>>
  /\ Record("assignment")

revoke_role(r, role, t, p) ==
  /\ role \in roles
  /\ Begin(r, [Idle EXCEPT !.at = "invalidate"])
  /\ user_roles' = user_roles \ {[role |-> role, tenant |-> t, project |-> p]}
  /\ UNCHANGED <<status, memberships, roles, role_permissions, revoked_tokens, redis, now, ended,
                 slipped, missed, faults>>
  /\ Record("assignment")

\* SCAN and DEL; after an error of either, some keys are left.
invalidate_perms(r) ==
  /\ req[r].at = "invalidate"
  /\ \/ /\ cache' = NoEntry
        /\ missed' = FALSE
        /\ UNCHANGED faults
     \/ /\ has_redis
        /\ Fault
        /\ \E S \in SUBSET Scope :
             cache' = [s \in Scope |-> IF s \in S THEN NULL ELSE cache[s]]
        /\ missed' = TRUE
  /\ End(r)
  /\ UNCHANGED <<database, has_redis, denylist, now, ended, slipped, ever, lost>>

create_role(role) ==
  /\ RoleTenant[role] # NULL
  /\ role \notin roles
  /\ roles' = roles \cup {role}
  /\ UNCHANGED <<status, memberships, role_permissions, user_roles, revoked_tokens, redis, req,
                 now, history, faults>>

\* The foreign keys cascade; the cache is left alone, here and below.
delete_role(role) ==
  /\ RoleTenant[role] # NULL
  /\ role \in roles
  /\ roles' = roles \ {role}
  /\ role_permissions' = [role_permissions EXCEPT ![role] = {}]
  /\ user_roles' = {a \in user_roles : a.role # role}
  /\ UNCHANGED <<status, memberships, revoked_tokens, redis, req, now, ended, slipped, missed,
                 faults>>
  /\ Record("role")

grant_permission(role, p) ==
  /\ RoleTenant[role] # NULL
  /\ role \in roles
  /\ role_permissions' = [role_permissions EXCEPT ![role] = @ \cup {p}]
  /\ UNCHANGED <<status, memberships, roles, user_roles, revoked_tokens, redis, req, now, ended,
                 slipped, missed, faults>>
  /\ Record("role")

revoke_permission(role, p) ==
  /\ RoleTenant[role] # NULL
  /\ role \in roles
  /\ role_permissions' = [role_permissions EXCEPT ![role] = @ \ {p}]
  /\ UNCHANGED <<status, memberships, roles, user_roles, revoked_tokens, redis, req, now, ended,
                 slipped, missed, faults>>
  /\ Record("role")

-----------------------------------------------------------------------------
(***************************************************************************)
(* The user and the memberships.                                           *)
(***************************************************************************)
add_member(t) ==
  /\ status # "gone"
  /\ memberships' = memberships \cup {t}
  /\ UNCHANGED <<status, roles, role_permissions, user_roles, revoked_tokens, redis, req, now,
                 history, faults>>

\* The assignments in the tenant stay.
remove_member(t) ==
  /\ memberships' = memberships \ {t}
  /\ UNCHANGED <<status, roles, role_permissions, user_roles, revoked_tokens, redis, req, now,
                 history, faults>>

SoftDelete ==
  /\ status = "active"
  /\ status' = "deleted"
  /\ UNCHANGED <<memberships, roles, role_permissions, user_roles, revoked_tokens, redis, req,
                 now, history, faults>>

HardDelete ==
  /\ status' = "gone"
  /\ memberships' = {}
  /\ user_roles' = {}
  /\ UNCHANGED <<roles, role_permissions, revoked_tokens, redis, req, now, ended, slipped, missed,
                 faults>>
  /\ Record("role")

RestoreUser ==
  /\ status = "deleted"
  /\ status' = "active"
  /\ UNCHANGED <<memberships, roles, role_permissions, user_roles, revoked_tokens, redis, req,
                 now, history, faults>>

-----------------------------------------------------------------------------
\* A query fails and the handler returns, or the request is dropped.
Abort(r) ==
  /\ Fault
  /\ req[r] # Idle
  /\ End(r)
  /\ missed' = (missed \/ req[r].at = "invalidate")
  /\ UNCHANGED <<database, redis, now, ended, slipped, ever, lost>>

\* Redis comes back empty.
RedisRestart ==
  /\ has_redis
  /\ Fault
  /\ denylist' = {}
  /\ slipped' = slipped \cup denylist
  /\ cache' = NoEntry
  /\ missed' = FALSE
  /\ UNCHANGED <<database, has_redis, req, now, ended, ever, lost>>

Tick ==
  /\ now < MaxTime
  /\ now' = now + 1
  /\ UNCHANGED <<database, redis, req, history, faults>>

\* The steps of a validation that may return its answer.
AnswerStep(r) == get_perms(r) \/ set_perms(r)

RequestStep(r) ==
  \/ \E t \in Tokens : Validate(r, t)
  \/ \E t \in LogoutTokens : Logout(r, t)
  \/ is_token_revoked(r) \/ is_user_active(r) \/ is_active_member(r)
  \/ get_user_permissions_scoped(r)
  \/ revoke_access_jti(r) \/ deny(r) \/ invalidate_perms(r) \/ Abort(r)
  \/ \E role \in Roles, t \in Tenants, p \in Projects \cup {NULL} :
       assign_role(r, role, t, p) \/ revoke_role(r, role, t, p)

AdminStep ==
  \/ \E role \in Roles :
       \/ create_role(role) \/ delete_role(role)
       \/ \E p \in Permissions : grant_permission(role, p) \/ revoke_permission(role, p)
  \/ \E t \in Tenants : add_member(t) \/ remove_member(t)
  \/ SoftDelete \/ HardDelete \/ RestoreUser

Next ==
  \/ \E r \in Requests : AnswerStep(r) \/ RequestStep(r)
  \/ AdminStep
  \/ RedisRestart
  \/ Tick

Spec == Init /\ [][Next]_vars

-----------------------------------------------------------------------------
(***************************************************************************)
(* Properties.                                                             *)
(***************************************************************************)
\* An assignment is of an existing role, as the foreign key has it.
TypeOK ==
  /\ has_redis \in BOOLEAN
  /\ status \in {"active", "deleted", "gone"}
  /\ memberships \subseteq Tenants
  /\ roles \subseteq Roles
  /\ role_permissions \in [Roles -> SUBSET Permissions]
  /\ user_roles \subseteq Assignment
  /\ \A a \in user_roles : Visible(a.role, a.tenant)
  /\ revoked_tokens \subseteq Tokens
  /\ denylist \subseteq Tokens
  /\ cache \in [Scope -> Entry \cup {NULL}]
  /\ req \in [Requests -> Request]
  /\ now \in 0..MaxTime
  /\ ended \subseteq Tokens /\ slipped \subseteq Tokens
  /\ ever \in [Scope -> SUBSET Permissions]
  /\ lost \in [Scope -> [Permissions ->
       [at: Nat, by: {"never", "assignment", "role"}]]]
  /\ missed \in BOOLEAN
  /\ faults \in 0..MaxFaults

\* What the answer to this request is based on has passed the denylist.
Passed(r) == req[r].at \in {"active", "member", "get", "load", "store"}

(***************************************************************************)
(* A token whose logout returned is refused from then on, whether Redis    *)
(* answers or Postgres has to, unless one of the two denylists missed or   *)
(* lost it; a later logout with the same token mends that.                 *)
(***************************************************************************)
LoggedOutRejected ==
  \A r \in Requests : Passed(r) => ~req[r].late

(***************************************************************************)
(* The permissions cached for a scope were held in that scope: "a switch   *)
(* can't read stale perms" of another tenant or project (validate_token).  *)
(***************************************************************************)
CachedWasHeld ==
  \A s \in Scope : cache[s] # NULL => cache[s].perms \subseteq ever[s]

(***************************************************************************)
(* A permission lost by any way is answered from the cache for less than   *)
(* PERMS_TTL_SECS, unless a validation that had read it before the loss    *)
(* stored it after.                                                        *)
(***************************************************************************)
StaleAtMostTTL ==
  \A s \in Scope :
    (Fresh(s) /\ ~cache[s].late) =>
      \A p \in cache[s].perms \ Held(s) : now < lost[s][p].at + PermsTTL

(***************************************************************************)
(* A permission lost because revoke_role took the assignment is answered   *)
(* from the cache no more once the handler has returned, with three        *)
(* exceptions: a validation that had read it before stored it after, Redis *)
(* failed the invalidation, or the handler was dropped before it; the      *)
(* next invalidation that succeeds mends the last two.                     *)
(***************************************************************************)
RoleRevocationEffective ==
  \A s \in Scope :
    (Fresh(s) /\ ~cache[s].late /\ ~missed /\ \A r \in Requests : req[r].at # "invalidate") =>
      \A p \in cache[s].perms \ Held(s) : lost[s][p].by # "assignment"

=============================================================================
