------------------------------ MODULE Sessions ------------------------------
(***************************************************************************)
(* The refresh-token table and every handler that reads or writes it:      *)
(* login, token refresh with rotation and its grace window, reuse          *)
(* detection, logout, tenant switch, the OIDC code exchange, the password  *)
(* handlers that revoke all sessions, and the deletion of a user.          *)
(*                                                                         *)
(* A handler is an async function: other requests run between two of its   *)
(* queries.  So a request occupies a slot of `req` and takes one step per  *)
(* query whose result or effect matters here; what it has read so far is   *)
(* kept in its slot.  Statements inside one transaction are one step.      *)
(*                                                                         *)
(* Access tokens, the password column, lockout and TOTP are not state of   *)
(* this module: a request that has passed those checks starts here.        *)
(***************************************************************************)
EXTENDS Naturals

CONSTANTS
  Users,          \* identities (users.id)
  Tenants,        \* organisations
  DefaultTenant,  \* DEFAULT_TENANT_ID
  Projects,       \* projects.id
  ProjectTenant,  \* the tenant that owns each project
  Tokens,         \* refresh-token hashes, a pool that is never reused
  Requests,       \* slots for concurrently running handlers
  Grace,          \* REFRESH_ROTATION_GRACE_SECS
  RefreshTTL,     \* refresh_ttl_secs
  MaxTime,        \* bound on the clock
  NULL            \* SQL NULL, or no row

ASSUME ConstantsAssumption ==
  /\ DefaultTenant \in Tenants
  /\ ProjectTenant \in [Projects -> Tenants]
  /\ Grace \in Nat \ {0}
  /\ RefreshTTL \in Nat
  /\ MaxTime \in Nat
  /\ NULL \notin Users \cup Tenants \cup Projects \cup Tokens \cup Nat

VARIABLES
  users,           \* users[u]: "active", "deleted" (deleted_at set) or "gone"
  memberships,     \* active rows of memberships, as <<user, tenant>> pairs
  refresh_tokens,  \* refresh_tokens[t]: the row with token_hash t, or NULL
  req,             \* what each running handler has read, and where it is
  now,             \* the clock
  minted,          \* history: where each token ever issued came from
  wiped            \* history: tokens present when all of their user's were revoked

vars == <<users, memberships, refresh_tokens, req, now, minted, wiped>>

RefreshTokenRow ==
  [user_id: Users, tenant_id: Tenants, project_id: Projects \cup {NULL},
   expires_at: Nat, revoked_at: Nat \cup {NULL}, replaced_by: Tokens \cup {NULL}]

ASSUME NullIsNoRow == NULL \notin RefreshTokenRow

(***************************************************************************)
(* A request is idle, or about to: "pick" a tenant (list_memberships),     *)
(* "lookup" its user (get_user_by_id), "mint" a pair (issue_tokens),       *)
(* "rotate" the presented token, or "wipe" all sessions of its user.       *)
(* `presented` is the refresh token it was called with, `rotates` whether  *)
(* that token was live when read, `read_at` the time of that read.         *)
(***************************************************************************)
Request ==
  [pc: {"idle", "pick", "lookup", "mint", "rotate", "wipe"},
   user: Users \cup {NULL}, tenant: Tenants \cup {NULL},
   project: Projects \cup {NULL}, presented: Tokens \cup {NULL},
   rotates: BOOLEAN, read_at: Nat, successor: Tokens \cup {NULL}]

Idle ==
  [pc |-> "idle", user |-> NULL, tenant |-> NULL, project |-> NULL,
   presented |-> NULL, rotates |-> FALSE, read_at |-> 0, successor |-> NULL]

\* The token presented to get this one, and whether its row was live, and when,
\* as the handler read it.
Origin == [parent: Tokens \cup {NULL}, live: BOOLEAN, read_at: Nat]

ASSUME NullIsNoOrigin == NULL \notin Origin

TypeOK ==
  /\ users \in [Users -> {"active", "deleted", "gone"}]
  /\ memberships \subseteq Users \X Tenants
  /\ refresh_tokens \in [Tokens -> RefreshTokenRow \cup {NULL}]
  /\ req \in [Requests -> Request]
  /\ now \in Nat
  /\ minted \in [Tokens -> Origin \cup {NULL}]
  /\ wiped \subseteq Tokens

Init ==
  /\ users = [u \in Users |-> "active"]
  /\ memberships = Users \X {DefaultTenant}
  /\ refresh_tokens = [t \in Tokens |-> NULL]
  /\ req = [r \in Requests |-> Idle]
  /\ now = 0
  /\ minted = [t \in Tokens |-> NULL]
  /\ wiped = {}

-----------------------------------------------------------------------------
(***************************************************************************)
(* The SQL statements on refresh_tokens.                                   *)
(***************************************************************************)
Exists(t) == refresh_tokens[t] # NULL

Live(t) == Exists(t) /\ refresh_tokens[t].revoked_at = NULL

create_refresh_token(t, user, tenant, project) ==
  refresh_tokens' = [refresh_tokens EXCEPT ![t] =
    [user_id |-> user, tenant_id |-> tenant, project_id |-> project,
     expires_at |-> now + RefreshTTL, revoked_at |-> NULL, replaced_by |-> NULL]]

revoke_refresh_token(t) ==
  refresh_tokens' = [refresh_tokens EXCEPT ![t] =
    IF Live(t) THEN [@ EXCEPT !.revoked_at = now] ELSE @]

\* Mutant: the UPDATE without `AND revoked_at IS NULL`.
RotateAnyRow(t, successor) ==
  refresh_tokens' = [refresh_tokens EXCEPT ![t] =
    IF Exists(t) THEN [@ EXCEPT !.revoked_at = now, !.replaced_by = successor] ELSE @]

rotate_refresh_token(t, successor) ==
  refresh_tokens' = [refresh_tokens EXCEPT ![t] =
    IF Live(t) THEN [@ EXCEPT !.revoked_at = now, !.replaced_by = successor] ELSE @]

\* Mutant: the UPDATE leaves a token out in the instant it expires.
RevokeAllUnexpired(u) ==
  /\ refresh_tokens' = [t \in Tokens |->
       IF Live(t) /\ refresh_tokens[t].user_id = u /\ refresh_tokens[t].expires_at > now
         THEN [refresh_tokens[t] EXCEPT !.revoked_at = now]
         ELSE refresh_tokens[t]]
  /\ wiped' = wiped \cup {t \in Tokens : Exists(t) /\ refresh_tokens[t].user_id = u}

revoke_all_user_refresh_tokens(u) ==
  /\ refresh_tokens' = [t \in Tokens |->
       IF Live(t) /\ refresh_tokens[t].user_id = u
         THEN [refresh_tokens[t] EXCEPT !.revoked_at = now]
         ELSE refresh_tokens[t]]
  /\ wiped' = wiped \cup {t \in Tokens : Exists(t) /\ refresh_tokens[t].user_id = u}

-----------------------------------------------------------------------------
(***************************************************************************)
(* Starting a session.                                                     *)
(***************************************************************************)
Begin(r, request) ==
  /\ req[r] = Idle
  /\ req' = [req EXCEPT ![r] = request]

\* The user row is read and every check on it passes; a deleted user's do not.
Login(r, u) ==
  /\ users[u] = "active"
  /\ Begin(r, [Idle EXCEPT !.pc = "pick", !.user = u])
  /\ UNCHANGED <<users, memberships, refresh_tokens, now, minted, wiped>>

\* The second factor goes through the same read and the same check.
LoginTotp(r, u) == Login(r, u)

\* Mutant: no fallback to the default tenant.
PickTenantOrNone(r) ==
  /\ req[r].pc = "pick"
  /\ \E t \in Tenants \cup {NULL} :
       /\ \/ <<req[r].user, t>> \in memberships
          \/ t = NULL /\ \A s \in Tenants : <<req[r].user, s>> \notin memberships
       /\ req' = [req EXCEPT ![r].pc = "mint", ![r].tenant = t]
  /\ UNCHANGED <<users, memberships, refresh_tokens, now, minted, wiped>>

\* issue_for_active_tenant: the first active membership in the order of the
\* tenants' names, which are not modelled, else the default tenant.
PickTenant(r) ==
  /\ req[r].pc = "pick"
  /\ \E t \in Tenants :
       /\ \/ <<req[r].user, t>> \in memberships
          \/ /\ t = DefaultTenant
             /\ \A s \in Tenants : <<req[r].user, s>> \notin memberships
       /\ req' = [req EXCEPT ![r].pc = "mint", ![r].tenant = t]
  /\ UNCHANGED <<users, memberships, refresh_tokens, now, minted, wiped>>

\* Mutant: is_project_in_tenant is not asked.
SwitchToAnyProject(r, u, t, p) ==
  /\ <<u, t>> \in memberships
  /\ Begin(r, [Idle EXCEPT !.pc = "lookup", !.user = u, !.tenant = t,
                           !.project = p])
  /\ UNCHANGED <<users, memberships, refresh_tokens, now, minted, wiped>>

SwitchTenant(r, u, t, p) ==
  /\ <<u, t>> \in memberships
  /\ p # NULL => ProjectTenant[p] = t
  /\ Begin(r, [Idle EXCEPT !.pc = "lookup", !.user = u, !.tenant = t,
                           !.project = p])
  /\ UNCHANGED <<users, memberships, refresh_tokens, now, minted, wiped>>

\* The session is bound to the client's tenant; deleted_at is not consulted.
ExchangeAuthorizationCode(r, u, t) ==
  /\ users[u] # "gone"
  /\ <<u, t>> \in memberships
  /\ Begin(r, [Idle EXCEPT !.pc = "mint", !.user = u, !.tenant = t])
  /\ UNCHANGED <<users, memberships, refresh_tokens, now, minted, wiped>>

-----------------------------------------------------------------------------
(***************************************************************************)
(* refresh                                                                 *)
(***************************************************************************)
\* Mutant: a token revoked by logout gets the grace too.
InGraceHoweverRevoked(row) == now - row.revoked_at < Grace

\* A re-presented rotated token still counts as the parallel-refresh race.
InGrace(row) ==
  /\ row.replaced_by # NULL
  /\ now - row.revoked_at < Grace

\* The row is read and the handler branches on that copy.
Refresh(r, t) ==
  /\ Exists(t)
  /\ LET row  == refresh_tokens[t]
         live == row.revoked_at = NULL
         next == [pc |-> IF live \/ InGrace(row) THEN "lookup" ELSE "wipe",
                  user |-> row.user_id, tenant |-> row.tenant_id,
                  project |-> row.project_id, presented |-> t, rotates |-> live,
                  read_at |-> now, successor |-> NULL]
     IN  /\ live => row.expires_at >= now
         /\ Begin(r, next)
  /\ UNCHANGED <<users, memberships, refresh_tokens, now, minted, wiped>>

\* Mutant: the refreshed session moves to the user's active tenant.
LookupUserAndRepick(r) ==
  /\ req[r].pc = "lookup"
  /\ users[req[r].user] # "gone"
  /\ req' = [req EXCEPT ![r].pc = "pick"]
  /\ UNCHANGED <<users, memberships, refresh_tokens, now, minted, wiped>>

\* get_user_by_id: only a missing row is refused, not a soft-deleted one.
LookupUser(r) ==
  /\ req[r].pc = "lookup"
  /\ users[req[r].user] # "gone"
  /\ req' = [req EXCEPT ![r].pc = "mint"]
  /\ UNCHANGED <<users, memberships, refresh_tokens, now, minted, wiped>>

\* Mutant: a failed insert is ignored, and the rotation goes ahead.
MintOrIgnoreError(r) ==
  /\ req[r].pc = "mint"
  /\ users[req[r].user] # "gone"
  /\ \E t \in Tokens :
       /\ minted[t] = NULL
       /\ \/ create_refresh_token(t, req[r].user, req[r].tenant, req[r].project)
          \/ UNCHANGED refresh_tokens
       /\ minted' = [minted EXCEPT ![t] =
            [parent |-> req[r].presented, live |-> req[r].rotates, read_at |-> req[r].read_at]]
       /\ req' = [req EXCEPT ![r] =
            IF @.rotates THEN [@ EXCEPT !.pc = "rotate", !.successor = t] ELSE Idle]
  /\ UNCHANGED <<users, memberships, now, wiped>>

\* issue_tokens: insert the new row; the foreign key needs the user to exist.
Mint(r) ==
  /\ req[r].pc = "mint"
  /\ users[req[r].user] # "gone"
  /\ \E t \in Tokens :
       /\ minted[t] = NULL
       /\ create_refresh_token(t, req[r].user, req[r].tenant, req[r].project)
       /\ minted' = [minted EXCEPT ![t] =
            [parent |-> req[r].presented, live |-> req[r].rotates, read_at |-> req[r].read_at]]
       /\ req' = [req EXCEPT ![r] =
            IF @.rotates THEN [@ EXCEPT !.pc = "rotate", !.successor = t] ELSE Idle]
  /\ UNCHANGED <<users, memberships, now, wiped>>

Rotate(r) ==
  /\ req[r].pc = "rotate"
  /\ rotate_refresh_token(req[r].presented, req[r].successor)
  /\ req' = [req EXCEPT ![r] = Idle]
  /\ UNCHANGED <<users, memberships, now, minted, wiped>>

-----------------------------------------------------------------------------
(***************************************************************************)
(* Ending sessions.                                                        *)
(***************************************************************************)
Logout(t) ==
  /\ revoke_refresh_token(t)
  /\ UNCHANGED <<users, memberships, req, now, minted, wiped>>

\* The current password is verified and the new one stored; the wipe is next.
ChangePassword(r, u) ==
  /\ users[u] # "gone"
  /\ Begin(r, [Idle EXCEPT !.pc = "wipe", !.user = u])
  /\ UNCHANGED <<users, memberships, refresh_tokens, now, minted, wiped>>

\* The same once a password-reset token has been consumed.
ResetPassword(r, u) == ChangePassword(r, u)

\* revoke_all_user_refresh_tokens, after reuse was detected or a new password set.
Wipe(r) ==
  /\ req[r].pc = "wipe"
  /\ revoke_all_user_refresh_tokens(req[r].user)
  /\ req' = [req EXCEPT ![r] = Idle]
  /\ UNCHANGED <<users, memberships, now, minted>>

\* delete_user_event_soft with hard = false.
SoftDelete(u) ==
  /\ users' = [users EXCEPT ![u] = IF @ = "active" THEN "deleted" ELSE @]
  /\ revoke_all_user_refresh_tokens(u)
  /\ UNCHANGED <<memberships, req, now, minted>>

\* hard = true: the foreign keys cascade to tokens and memberships.
HardDelete(u) ==
  /\ users' = [users EXCEPT ![u] = "gone"]
  /\ memberships' = {m \in memberships : m[1] # u}
  /\ refresh_tokens' = [t \in Tokens |->
       IF Exists(t) /\ refresh_tokens[t].user_id = u THEN NULL ELSE refresh_tokens[t]]
  /\ UNCHANGED <<req, now, minted, wiped>>

RestoreUser(u) ==
  /\ users' = [users EXCEPT ![u] = IF @ = "deleted" THEN "active" ELSE @]
  /\ UNCHANGED <<memberships, refresh_tokens, req, now, minted, wiped>>

AddMember(u, t) ==
  /\ users[u] # "gone"
  /\ memberships' = memberships \cup {<<u, t>>}
  /\ UNCHANGED <<users, refresh_tokens, req, now, minted, wiped>>

RemoveMember(u, t) ==
  /\ memberships' = memberships \ {<<u, t>>}
  /\ UNCHANGED <<users, refresh_tokens, req, now, minted, wiped>>

\* The handler stops where it is: a database error, an ignored one in its last
\* query (`let _ = ...`), a disconnected client or a crash of the process.
Abort(r) ==
  /\ req[r] # Idle
  /\ req' = [req EXCEPT ![r] = Idle]
  /\ UNCHANGED <<users, memberships, refresh_tokens, now, minted, wiped>>

Tick ==
  /\ now < MaxTime
  /\ now' = now + 1
  /\ UNCHANGED <<users, memberships, refresh_tokens, req, minted, wiped>>

-----------------------------------------------------------------------------
RequestStep(r) ==
  \/ PickTenant(r) \/ LookupUser(r) \/ Mint(r) \/ Rotate(r) \/ Wipe(r) \/ Abort(r)
  \/ \E t \in Tokens : Refresh(r, t)
  \/ \E u \in Users :
       \/ Login(r, u) \/ LoginTotp(r, u)
       \/ ChangePassword(r, u) \/ ResetPassword(r, u)
       \/ \E t \in Tenants, p \in Projects \cup {NULL} : SwitchTenant(r, u, t, p)

AdminStep ==
  \E u \in Users :
    \/ SoftDelete(u) \/ HardDelete(u) \/ RestoreUser(u)
    \/ \E t \in Tenants : AddMember(u, t) \/ RemoveMember(u, t)

\* Module OAuth shows the code exchange in detail.
Next ==
  \/ \E r \in Requests : RequestStep(r)
  \/ \E r \in Requests, u \in Users, t \in Tenants : ExchangeAuthorizationCode(r, u, t)
  \/ AdminStep
  \/ \E t \in Tokens : Logout(t)
  \/ Tick

Spec == Init /\ [][Next]_vars

-----------------------------------------------------------------------------
(***************************************************************************)
(* Properties.                                                             *)
(***************************************************************************)
SameScope(row1, row2) ==
  /\ row1.user_id = row2.user_id
  /\ row1.tenant_id = row2.tenant_id
  /\ row1.project_id = row2.project_id

(***************************************************************************)
(* A revoked row is final: no later rotation, logout or wipe changes when  *)
(* it was revoked or which successor it names, as long as it exists.  The  *)
(* `revoked_at IS NULL` of every UPDATE is what makes this true when two   *)
(* refreshes of one token, or a refresh and a logout, interleave: the      *)
(* grace window is not restarted, and a logged-out token never becomes a   *)
(* "rotated" one.                                                          *)
(***************************************************************************)
RevokedForever ==
  [][\A t \in Tokens :
       (Exists(t) /\ ~Live(t) /\ refresh_tokens'[t] # NULL)
         => refresh_tokens'[t] = refresh_tokens[t]]_vars

(***************************************************************************)
(* refresh inserts the new row before it marks the old one, so a token     *)
(* that names a successor is revoked, and the successor is a row of the    *)
(* same user, tenant and project, whatever failed or ran in between.       *)
(***************************************************************************)
SuccessorSound ==
  \A t \in Tokens :
    (Exists(t) /\ refresh_tokens[t].replaced_by # NULL) =>
      LET s == refresh_tokens[t].replaced_by
      IN  /\ ~Live(t)
          /\ Exists(s)
          /\ s # t
          /\ SameScope(refresh_tokens[t], refresh_tokens[s])

(***************************************************************************)
(* "a later Refresh keeps the same tenant/project" (issue_tokens): both    *)
(* ways refresh can mint a token carry the presented token's binding over. *)
(***************************************************************************)
LineageKeepsScope ==
  \A t \in Tokens :
    (Exists(t) /\ minted[t].parent # NULL) =>
      (Exists(minted[t].parent) =>
         SameScope(refresh_tokens[t], refresh_tokens[minted[t].parent]))

\* Row t was usable when a handler read it, in terms of what it says now.
WasUsable(t, live, read_at) ==
  IF live
    THEN Live(t) \/ read_at <= refresh_tokens[t].revoked_at
    ELSE /\ ~Live(t)
         /\ refresh_tokens[t].replaced_by # NULL
         /\ read_at < refresh_tokens[t].revoked_at + Grace

(***************************************************************************)
(* A revoked token yields no further token, with two exceptions: a handler *)
(* that had read it while it was live may finish, and a token revoked by   *)
(* rotation, not by logout or a wipe, may be presented again inside the    *)
(* grace window.                                                           *)
(***************************************************************************)
NoLateMint ==
  \A t \in Tokens :
    (minted[t] # NULL /\ minted[t].parent # NULL) =>
      (Exists(minted[t].parent) =>
         WasUsable(minted[t].parent, minted[t].live, minted[t].read_at))

(***************************************************************************)
(* Whoever revokes all sessions of a user (reuse detection, both password  *)
(* handlers, soft deletion) ends every session that exists then, for good, *)
(* in every tenant and including those a concurrent refresh is rotating.   *)
(***************************************************************************)
WipeIsFinal ==
  \A t \in wiped : ~Live(t)

(***************************************************************************)
(* No session carries a project of another tenant (the comment at the      *)
(* project check of switch_tenant), including sessions that were refreshed *)
(* from one that did.                                                      *)
(***************************************************************************)
ScopeSound ==
  \A t \in Tokens :
    (Exists(t) /\ refresh_tokens[t].project_id # NULL) =>
      ProjectTenant[refresh_tokens[t].project_id] = refresh_tokens[t].tenant_id

(***************************************************************************)
(* What "revoke the whole token family" says of reuse detection, and       *)
(* "revoke all refresh tokens" of change_password: a token that was among  *)
(* those revoked, presented afterwards, starts no new session; refresh     *)
(* takes the branch that reports reuse.                                    *)
(***************************************************************************)
WipedTokenIsDead ==
  [][\A r \in Requests :
       (req[r] = Idle /\ req'[r].presented \in wiped) => req'[r].pc = "wipe"]_vars

=============================================================================
