------------------------------ MODULE ApiKeys ------------------------------
(***************************************************************************)
(* The API keys of the user of Access.  A key is made with scopes that the *)
(* caller's access token carried when it was validated, and is bound to    *)
(* that token's tenant and project.  validate_api_key reads the key, its   *)
(* owner, the membership and the permissions one after the other, and      *)
(* answers what is left of the scopes; the permission cache, which         *)
(* validate_token reads, is not consulted.                                 *)
(*                                                                         *)
(* The caller's permissions reach create_api_key as metadata: the gateway  *)
(* has them from validate_token and may act on any answer it ever got.     *)
(* Names, last_used_at and the listing of keys do not appear.              *)
(***************************************************************************)
EXTENDS Access

CONSTANTS
  Keys,      \* api_keys.key_hash, a pool that is never reused
  Checks,    \* slots for concurrently running validate_api_key handlers
  Lifetimes  \* the ttl_seconds that keys are made with, 0 for none

ASSUME ApiKeysAssumption == Lifetimes \subseteq Nat

VARIABLES
  api_keys,  \* api_keys[k]: the row of the key, or NULL
  answers,   \* what validate_token has answered, as <<token, permissions>>
  checks     \* what each running check has read, and where it is

keys_vars == <<vars, api_keys, answers, checks>>

KeyRow ==
  [tenant_id: Tenants, project_id: Projects \cup {NULL}, scopes: SUBSET Permissions,
   expires_at: Nat \cup {NULL}, revoked_at: Nat \cup {NULL}]

ASSUME NullIsNoKey == NULL \notin KeyRow

(***************************************************************************)
(* A check has read the row of a key and asks for the "user", whether he   *)
(* is a "member", "load"s his permissions, and has its answer ready to     *)
(* "touch" the key and return.  The last three fields are history: what    *)
(* was true of the owner at some time since the check began.               *)
(***************************************************************************)
KeyCheck ==
  [at: {"idle", "user", "member", "load", "touch"}, scope: Scope \cup {NULL},
   scopes: SUBSET Permissions,
   active: BOOLEAN, member: BOOLEAN, held: SUBSET Permissions]

NoCheck ==
  [at |-> "idle", scope |-> NULL, scopes |-> {},
   active |-> FALSE, member |-> FALSE, held |-> {}]

\* The history of a check goes on with what now is true of the owner.
Watched(check, active, member_of, held) ==
  IF check = NoCheck THEN NoCheck
    ELSE [check EXCEPT !.active = @ \/ active,
                       !.member = @ \/ check.scope[1] \in member_of,
                       !.held = @ \cup held[check.scope]]

Holding == [s \in Scope |-> Held(s)]

KeysInit ==
  /\ Init
  /\ api_keys = [k \in Keys |-> NULL]
  /\ answers = {}
  /\ checks = [c \in Checks |-> NoCheck]

-----------------------------------------------------------------------------
\* Mutant: the key is bound to the tenant of the token, not to its project.
CreateForTenant(k, t, scopes, ttl) ==
  /\ api_keys[k] = NULL
  /\ status # "gone"
  /\ \E a \in answers : a[1] = t /\ scopes \subseteq a[2]
  /\ api_keys' = [api_keys EXCEPT ![k] =
       [tenant_id |-> TokenScope[t][1], project_id |-> NULL, scopes |-> scopes,
        expires_at |-> IF ttl > 0 THEN now + ttl ELSE NULL, revoked_at |-> NULL]]
  /\ UNCHANGED <<vars, answers, checks>>

create_api_key(k, t, scopes, ttl) ==
  /\ api_keys[k] = NULL
  /\ status # "gone"
  /\ \E a \in answers : a[1] = t /\ scopes \subseteq a[2]
  /\ api_keys' = [api_keys EXCEPT ![k] =
       [tenant_id |-> TokenScope[t][1], project_id |-> TokenScope[t][2], scopes |-> scopes,
        expires_at |-> IF ttl > 0 THEN now + ttl ELSE NULL, revoked_at |-> NULL]]
  /\ UNCHANGED <<vars, answers, checks>>

\* The row of another user, or one revoked before, is left alone.
revoke_api_key(k) ==
  /\ api_keys[k] # NULL
  /\ api_keys[k].revoked_at = NULL
  /\ api_keys' = [api_keys EXCEPT ![k].revoked_at = now]
  /\ UNCHANGED <<vars, answers, checks>>

-----------------------------------------------------------------------------
(***************************************************************************)
(* validate_api_key                                                        *)
(***************************************************************************)
\* A key that is revoked or expired is refused.
StartCheck(c, k) ==
  /\ checks[c] = NoCheck
  /\ api_keys[k] # NULL
  /\ api_keys[k].revoked_at = NULL
  /\ api_keys[k].expires_at # NULL => api_keys[k].expires_at >= now
  /\ checks' = [checks EXCEPT ![c] = Watched(
       [NoCheck EXCEPT !.at = "user", !.scopes = api_keys[k].scopes,
                       !.scope = <<api_keys[k].tenant_id, api_keys[k].project_id>>],
       status = "active", memberships, Holding)]
  /\ UNCHANGED <<vars, api_keys, answers>>

\* The check goes on if it passes, and is refused if not.
Pass(c, from, to, passes) ==
  /\ checks[c].at = from
  /\ checks' = [checks EXCEPT ![c] = IF passes THEN [@ EXCEPT !.at = to] ELSE NoCheck]
  /\ UNCHANGED <<vars, api_keys, answers>>

get_user_by_id(c) == Pass(c, "user", "member", status = "active")

CheckMember(c) == Pass(c, "member", "load", checks[c].scope[1] \in memberships)

\* Mutant: the permissions come from the cache, as validate_token's do.
IntersectCached(c) ==
  LET perms == IF Fresh(checks[c].scope) THEN cache[checks[c].scope].perms
                                         ELSE Held(checks[c].scope)
  IN  /\ checks[c].at = "load"
      /\ checks' = [checks EXCEPT ![c].at = "touch", ![c].scopes = @ \cap perms]
      /\ UNCHANGED <<vars, api_keys, answers>>

\* The scopes of the key that its owner holds there now.
Intersect(c) ==
  /\ checks[c].at = "load"
  /\ checks' = [checks EXCEPT ![c].at = "touch", ![c].scopes = @ \cap Held(checks[c].scope)]
  /\ UNCHANGED <<vars, api_keys, answers>>

\* The check returns; or a query fails, or the request is dropped, at any point.
Finish(c) ==
  /\ checks[c] # NoCheck
  /\ checks' = [checks EXCEPT ![c] = NoCheck]
  /\ UNCHANGED <<vars, api_keys, answers>>

-----------------------------------------------------------------------------
(***************************************************************************)
(* Access, with what its answers and changes mean here.                    *)
(***************************************************************************)
Watch == checks' = [c \in Checks |->
                      Watched(checks[c], status' = "active", memberships', Holding')]

\* A hit answers, a miss or an error does not yet.
AnswerCached(r) ==
  /\ get_perms(r)
  /\ answers' = IF req'[r] = Idle
       THEN answers \cup {<<req[r].token, cache[perms_key(req[r].token)].perms>>}
       ELSE answers

AnswerLoaded(r) ==
  /\ set_perms(r)
  /\ answers' = answers \cup {<<req[r].token, req[r].perms>>}

\* The foreign key cascades from the user to his keys.
AccessStep ==
  /\ \/ \E r \in Requests : AnswerCached(r) \/ AnswerLoaded(r)
     \/ /\ \/ \E r \in Requests : RequestStep(r)
           \/ AdminStep
           \/ RedisRestart
           \/ Tick
        /\ UNCHANGED answers
  /\ api_keys' = IF status' = "gone" THEN [k \in Keys |-> NULL] ELSE api_keys
  /\ Watch

CheckStep(c) ==
  \/ \E k \in Keys : StartCheck(c, k)
  \/ get_user_by_id(c) \/ CheckMember(c) \/ Intersect(c) \/ Finish(c)

KeyStep ==
  \E k \in Keys :
    \/ revoke_api_key(k)
    \/ \E t \in Tokens, scopes \in SUBSET Permissions, ttl \in Lifetimes :
         create_api_key(k, t, scopes, ttl)

KeysNext ==
  \/ AccessStep
  \/ KeyStep
  \/ \E c \in Checks : CheckStep(c)

KeysSpec == KeysInit /\ [][KeysNext]_keys_vars

-----------------------------------------------------------------------------
(***************************************************************************)
(* Properties.                                                             *)
(***************************************************************************)
KeysTypeOK ==
  /\ TypeOK
  /\ api_keys \in [Keys -> KeyRow \cup {NULL}]
  /\ answers \subseteq Tokens \X SUBSET Permissions
  /\ checks \in [Checks -> KeyCheck]

(***************************************************************************)
(* A key is made with scopes that its owner once held in the very tenant   *)
(* and project it is bound to: "its effective permissions can never exceed *)
(* the owner's access in that tenant" (create_api_key).                    *)
(***************************************************************************)
ScopesWereHeld ==
  \A k \in Keys :
    api_keys[k] # NULL =>
      api_keys[k].scopes \subseteq ever[<<api_keys[k].tenant_id, api_keys[k].project_id>>]

(***************************************************************************)
(* "This stops a key from granting cross-tenant or stale access": what a   *)
(* check answers, its owner held in the key's own tenant and project at    *)
(* some time since the check began, and then too he was active and a       *)
(* member.  Permissions, memberships or an account lost before the check   *)
(* began are worth nothing, although the cache may still hold them.        *)
(***************************************************************************)
KeyNeverStale ==
  \A c \in Checks :
    checks[c].at = "touch" =>
      /\ checks[c].scopes \subseteq checks[c].held
      /\ checks[c].active
      /\ checks[c].member

=============================================================================
