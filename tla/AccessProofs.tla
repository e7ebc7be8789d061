---------------------------- MODULE AccessProofs ----------------------------
(***************************************************************************)
(* Safety of access tokens and API keys, for any number of tokens, roles,  *)
(* permissions, keys and handlers that run at the same time.               *)
(***************************************************************************)
EXTENDS ApiKeys, TLAPS

-----------------------------------------------------------------------------
(***************************************************************************)
(* The inductive invariant of Access.  A validation that waits has a token *)
(* that was not logged out when it was shown, or that Postgres will refuse *)
(* it, and later the permissions it has read.  An entry of the cache can   *)
(* not outlive by PERMS_TTL_SECS what is lost after it was stored.         *)
(***************************************************************************)

\* The token of a handler that has one, and what it has read for it.
Formed(r) ==
  /\ req[r].at \notin {"idle", "invalidate"} => req[r].token \in Tokens
  /\ req[r].at = "store" => req[r].perms \subseteq ever[TokenScope[req[r].token]]

\* A token whose logout returned is in both denylists, unless one missed it.
Denied ==
  /\ \A t \in ended \ slipped : t \in revoked_tokens /\ (has_redis => t \in denylist)
  /\ \A r \in Requests :
       /\ req[r].at = "deny" => req[r].token \in revoked_tokens \cup slipped
       /\ req[r].at = "postgres" /\ req[r].late => req[r].token \in revoked_tokens

HeldWasHeld == \A s \in Scope : Held(s) \subseteq ever[s]

\* An entry expires in time, and so before what was lost later has been lost for long.
Expires(s) ==
  cache[s] # NULL =>
    /\ cache[s].until <= now + PermsTTL
    /\ ~cache[s].late => \A p \in cache[s].perms \ Held(s) :
                           cache[s].until <= lost[s][p].at + PermsTTL

IInv ==
  /\ TypeOK
  /\ \A r \in Requests : Formed(r)
  /\ Denied
  /\ LoggedOutRejected
  /\ HeldWasHeld
  /\ CachedWasHeld
  /\ \A s \in Scope : Expires(s)
  /\ RoleRevocationEffective

-----------------------------------------------------------------------------
(***************************************************************************)
(* The inductive invariant of ApiKeys.  A check has watched its owner from *)
(* the beginning, so whatever it reads it has seen.                        *)
(***************************************************************************)

\* What is true of the owner now is in the history of the check.
Watching(c) ==
  LET check == checks[c]
  IN  check # NoCheck =>
        /\ check.scope \in Scope
        /\ status = "active" => check.active
        /\ check.scope[1] \in memberships => check.member
        /\ Held(check.scope) \subseteq check.held

\* What the check has found out so far.
Found(c) ==
  LET check == checks[c]
  IN  /\ check.at \in {"member", "load", "touch"} => check.active
      /\ check.at \in {"load", "touch"} => check.member
      /\ check.at = "touch" => check.scopes \subseteq check.held

AnswersWereHeld == \A a \in answers : a[2] \subseteq ever[TokenScope[a[1]]]

KeysIInv ==
  /\ IInv
  /\ KeysTypeOK
  /\ \A c \in Checks : Watching(c) /\ Found(c)
  /\ AnswersWereHeld
  /\ ScopesWereHeld

-----------------------------------------------------------------------------
(***************************************************************************)
(* What is held, and the history of it.                                    *)
(***************************************************************************)
\* Permissions are held because of an assignment in the scope.
LEMMA HeldType ==
  ASSUME TypeOK, NEW s \in Scope
  PROVE  Held(s) \subseteq Permissions
BY DEF TypeOK, Held, Assignment

\* What is held depends on two tables.
LEMMA HeldStays ==
  ASSUME UNCHANGED <<role_permissions, user_roles>>, NEW s \in Scope
  PROVE  Held(s)' = Held(s)
BY DEF Held

\* The history goes on where something changes that is held.
LEMMA RecordPreserves ==
  ASSUME IInv, NEW how \in {"assignment", "role"}, TypeOK', Record(how), UNCHANGED <<cache, now>>
  PROVE  /\ HeldWasHeld' /\ CachedWasHeld' /\ \A s \in Scope : Expires(s)'
         /\ \A s \in Scope : ever[s] \subseteq ever'[s]
<1>1. \A s \in Scope : ever'[s] = ever[s] \cup Held(s)'
  BY DEF Record
<1>2. HeldWasHeld' /\ CachedWasHeld'
  BY <1>1 DEF IInv, HeldWasHeld, CachedWasHeld
<1>3. ASSUME NEW s \in Scope, cache[s] # NULL, ~cache[s].late, NEW p \in cache[s].perms,
             p \notin Held(s)'
      PROVE  cache[s].until <= lost'[s][p].at + PermsTTL
  <2>1. p \in Permissions
    BY <1>3 DEF IInv, TypeOK, Entry
  <2>2. CASE p \in Held(s)
    <3>1. lost'[s][p].at = now
      BY <1>3, <2>1, <2>2 DEF Record
    <3> QED
      BY <1>3, <3>1 DEF IInv, Expires
  <2>3. CASE p \notin Held(s)
    <3>1. lost'[s][p] = lost[s][p]
      BY <2>1, <2>3 DEF Record
    <3> QED
      BY <1>3, <2>3, <3>1 DEF IInv, Expires
  <2> QED
    BY <2>2, <2>3
<1>4. \A s \in Scope : Expires(s)'
  BY <1>3 DEF IInv, Expires
<1> QED
  BY <1>1, <1>2, <1>4

\* The kind of a loss is that of the step, or of one before.
LEMMA LossIsRecorded ==
  ASSUME IInv, NEW how \in {"assignment", "role"}, Record(how), UNCHANGED cache,
         NEW s \in Scope, cache[s] # NULL, NEW p \in cache[s].perms, p \notin Held(s)'
  PROVE  lost'[s][p].by = how \/ (p \notin Held(s) /\ lost'[s][p] = lost[s][p])
<1>1. p \in Permissions
  BY DEF IInv, TypeOK, Entry
<1> QED
  BY <1>1 DEF Record

-----------------------------------------------------------------------------
(***************************************************************************)
(* Steps that only move a handler on.                                      *)
(***************************************************************************)
\* What the invariant asks of a handler.
Sound(q) ==
  /\ q \in Request
  /\ q.at \notin {"idle", "invalidate"} => q.token \in Tokens
  /\ q.at = "store" => q.perms \subseteq ever[TokenScope[q.token]]
  /\ q.at = "deny" => q.token \in revoked_tokens \cup slipped
  /\ q.at = "postgres" /\ q.late => q.token \in revoked_tokens
  /\ q.at \in {"active", "member", "get", "load", "store"} => ~q.late

\* A handler of a state in which the invariant holds is sound, and an idle one too.
LEMMA HandlerIsSound ==
  ASSUME IInv, NEW r \in Requests
  PROVE  Sound(req[r]) /\ Sound(Idle)
<1>1. req[r] \in Request
  BY DEF IInv, TypeOK
<1>2. Idle \in Request
  BY DEF Request, Idle
<1>3. Sound(req[r])
  BY <1>1 DEF IInv, Sound, Formed, Denied, LoggedOutRejected, Passed
<1> QED
  BY <1>2, <1>3 DEF Sound, Idle

\* A handler, other than one about to invalidate, that moves on to a sound state.
LEMMA MovePreserves ==
  ASSUME IInv, NEW r \in Requests, NEW q, Sound(q), req[r].at # "invalidate",
         req' = [req EXCEPT ![r] = q], faults' \in 0..MaxFaults,
         UNCHANGED <<database, redis, now, history>>
  PROVE  IInv'
<1> USE DEF database, redis, history
<1>1. \A k \in Requests : req'[k] = IF k = r THEN q ELSE req[k]
  BY DEF IInv, TypeOK
<1>2. req' \in [Requests -> Request]
  BY DEF IInv, TypeOK, Sound
<1>3. TypeOK'
  BY <1>2 DEF IInv, TypeOK, Visible
<1>4. (\A k \in Requests : Formed(k))'
  BY <1>1 DEF IInv, Formed, Sound
<1>5. Denied'
  BY <1>1 DEF IInv, Denied, Sound
<1>6. LoggedOutRejected'
  BY <1>1 DEF IInv, LoggedOutRejected, Passed, Sound
<1>7. \A s \in Scope : Held(s)' = Held(s)
  BY HeldStays
<1>8. HeldWasHeld' /\ CachedWasHeld' /\ (\A s \in Scope : Expires(s))'
  BY <1>7 DEF IInv, HeldWasHeld, CachedWasHeld, Expires
<1>9. (\A k \in Requests : req[k].at # "invalidate")' => \A k \in Requests : req[k].at # "invalidate"
  BY <1>1
<1>10. RoleRevocationEffective'
  BY <1>7, <1>9 DEF IInv, RoleRevocationEffective, Fresh
<1> QED
  BY <1>3, <1>4, <1>5, <1>6, <1>8, <1>10 DEF IInv

\* A handler that begins was idle.
LEMMA BeginIsMove ==
  ASSUME IInv, NEW r \in Requests, NEW q, Begin(r, q)
  PROVE  req' = [req EXCEPT ![r] = q] /\ req[r].at # "invalidate"
BY DEF Begin, Idle

\* A failed step is counted.
LEMMA FaultIsCounted ==
  ASSUME IInv, Fault \/ UNCHANGED faults
  PROVE  faults' \in 0..MaxFaults
BY AccessAssumption DEF IInv, TypeOK, Fault

\* A token that Redis lets pass was not logged out, unless a denylist missed it.
LEMMA ValidatePreserves ==
  ASSUME IInv, NEW r \in Requests, NEW t \in Tokens, Validate(r, t)
  PROVE  IInv'
<1> DEFINE q(at) == [at |-> at, token |-> t, perms |-> {}, late |-> t \in ended \ slipped]
<1>1. Sound(q("postgres"))
  <2>1. q("postgres") \in Request
    BY DEF Request
  <2> QED
    BY <2>1 DEF IInv, Denied, Sound
<1>2. ASSUME has_redis, t \notin denylist
      PROVE  Sound(q("active"))
  <2>1. q("active") \in Request
    BY DEF Request
  <2> QED
    BY <1>2, <2>1 DEF IInv, Denied, Sound
<1>3. \/ Begin(r, q("postgres"))
      \/ has_redis /\ t \notin denylist /\ Begin(r, q("active"))
  BY DEF Validate
<1>4. faults' \in 0..MaxFaults /\ UNCHANGED <<database, redis, now, history>>
  BY FaultIsCounted DEF Validate
<1> HIDE DEF q
<1> QED
  BY <1>1, <1>2, <1>3, <1>4, BeginIsMove, MovePreserves

\* A token that Postgres lets pass was not logged out when it was shown.
LEMMA IsRevokedPreserves ==
  ASSUME IInv, NEW r \in Requests, is_token_revoked(r)
  PROVE  IInv'
<1> DEFINE q == [req[r] EXCEPT !.at = "active"]
<1>1. Sound(req[r]) /\ Sound(Idle) /\ req[r].at = "postgres"
  BY HandlerIsSound DEF is_token_revoked
<1>2. req[r].token \notin revoked_tokens => Sound(q)
  <2>1. q \in Request
    BY <1>1 DEF Sound, Request
  <2> QED
    BY <1>1, <2>1 DEF Sound
<1>3. \/ req' = [req EXCEPT ![r] = Idle]
      \/ req[r].token \notin revoked_tokens /\ req' = [req EXCEPT ![r] = q]
  BY DEF is_token_revoked, End, Goto
<1>4. faults' \in 0..MaxFaults /\ UNCHANGED <<database, redis, now, history>>
  BY FaultIsCounted DEF is_token_revoked
<1> HIDE DEF q
<1> QED
  BY <1>1, <1>2, <1>3, <1>4, MovePreserves

\* The user is asked for, then the membership, then the cache.
LEMMA AskedPreserves ==
  ASSUME IInv, NEW r \in Requests, is_user_active(r) \/ is_active_member(r) \/ get_perms(r)
  PROVE  IInv'
<1> DEFINE q(at) == [req[r] EXCEPT !.at = at]
<1>1. Sound(req[r]) /\ Sound(Idle) /\ req[r].at \in {"active", "member", "get"}
  BY HandlerIsSound DEF is_user_active, is_active_member, get_perms
<1>2. ASSUME NEW at \in {"member", "get", "load"}
      PROVE  Sound(q(at))
  <2>1. q(at) \in Request
    BY <1>1 DEF Sound, Request
  <2> QED
    BY <1>1, <2>1 DEF Sound
<1>3. \/ req' = [req EXCEPT ![r] = Idle]
      \/ \E at \in {"member", "get", "load"} : req' = [req EXCEPT ![r] = q(at)]
  BY DEF is_user_active, is_active_member, get_perms, End, Goto
<1>4. faults' \in 0..MaxFaults /\ UNCHANGED <<database, redis, now, history>>
  BY FaultIsCounted DEF is_user_active, is_active_member, get_perms
<1> HIDE DEF q
<1> QED
  BY <1>1, <1>2, <1>3, <1>4, MovePreserves

\* What is held now was held once.
LEMMA LoadPreserves ==
  ASSUME IInv, NEW r \in Requests, get_user_permissions_scoped(r)
  PROVE  IInv'
<1> DEFINE s == TokenScope[req[r].token]
           q == [req[r] EXCEPT !.at = "store", !.perms = Held(s)]
<1>1. Sound(req[r]) /\ req[r].at = "load"
  BY HandlerIsSound DEF get_user_permissions_scoped
<1>2. s \in Scope
  BY <1>1, AccessAssumption DEF Sound
<1>3. Held(s) \subseteq Permissions /\ Held(s) \subseteq ever[s]
  BY <1>2, HeldType DEF IInv, HeldWasHeld
<1>4. Sound(q)
  <2> HIDE DEF s
  <2>1. q \in Request /\ q.at = "store" /\ q.token = req[r].token /\ q.perms = Held(s)
        /\ q.late = req[r].late
    BY <1>1, <1>3 DEF Sound, Request
  <2> HIDE DEF q
  <2> QED
    BY <1>1, <1>3, <2>1 DEF Sound, s
<1>5. req' = [req EXCEPT ![r] = q]
  BY DEF get_user_permissions_scoped
<1>6. faults' \in 0..MaxFaults /\ UNCHANGED <<database, redis, now, history>>
  BY FaultIsCounted DEF get_user_permissions_scoped
<1> HIDE DEF q, s
<1> QED
  BY <1>1, <1>4, <1>5, <1>6, MovePreserves

\* A logout begins.
LEMMA LogoutPreserves ==
  ASSUME IInv, NEW r \in Requests, NEW t \in LogoutTokens, Logout(r, t)
  PROVE  IInv'
<1> DEFINE q == [Idle EXCEPT !.at = "jti", !.token = t]
<1>1. Sound(q)
  <2>1. t \in Tokens
    BY AccessAssumption
  <2>2. q \in Request
    BY <2>1 DEF Request, Idle
  <2>3. q.at = "jti" /\ q.token = t
    OBVIOUS
  <2> QED
    BY <2>1, <2>2, <2>3 DEF Sound
<1>2. req' = [req EXCEPT ![r] = q] /\ req[r].at # "invalidate"
  BY BeginIsMove DEF Logout
<1>3. faults' \in 0..MaxFaults /\ UNCHANGED <<database, redis, now, history>>
  BY FaultIsCounted DEF Logout
<1> HIDE DEF q
<1> QED
  BY <1>1, <1>2, <1>3, MovePreserves

-----------------------------------------------------------------------------
(***************************************************************************)
(* Steps that leave alone what is held and what is cached.                 *)
(***************************************************************************)
\* Postgres has the token, or missed it.
LEMMA RevokeJtiPreserves ==
  ASSUME IInv, NEW r \in Requests, revoke_access_jti(r)
  PROVE  IInv'
<1> USE DEF database, redis, history
<1>1. TypeOK'
  <2>1. req[r].token \in Tokens
    BY DEF IInv, Formed, revoke_access_jti
  <2>2. req' \in [Requests -> Request]
    <3>1. [req[r] EXCEPT !.at = "deny"] \in Request
      <4>1. req[r] \in Request
        BY DEF IInv, TypeOK
      <4> QED
        BY <4>1 DEF Request
    <3>2. req' = [req EXCEPT ![r].at = "deny"]
      BY DEF revoke_access_jti, Goto
    <3> QED
      BY <3>1, <3>2 DEF IInv, TypeOK
  <2>3. faults' \in 0..MaxFaults
    BY FaultIsCounted DEF revoke_access_jti
  <2> QED
    BY <2>1, <2>2, <2>3 DEF IInv, TypeOK, Visible, revoke_access_jti
<1>2. (\A q \in Requests : Formed(q))'
  BY DEF IInv, Formed, revoke_access_jti, Goto, Fault
<1>3. Denied'
  BY DEF IInv, Denied, revoke_access_jti, Goto, Fault
<1>4. LoggedOutRejected'
  BY DEF IInv, LoggedOutRejected, Passed, revoke_access_jti, Goto, Fault
<1>5. \A s \in Scope : Held(s)' = Held(s)
  BY HeldStays DEF revoke_access_jti
<1>6. HeldWasHeld' /\ CachedWasHeld'
  BY <1>5 DEF IInv, HeldWasHeld, CachedWasHeld, revoke_access_jti
<1>7. (\A s \in Scope : Expires(s))'
  BY <1>5 DEF IInv, Expires, revoke_access_jti
<1>8. RoleRevocationEffective'
  BY <1>5 DEF IInv, RoleRevocationEffective, Fresh, revoke_access_jti, Goto, Fault
<1> QED
  BY <1>1, <1>2, <1>3, <1>4, <1>5, <1>6, <1>7, <1>8 DEF IInv

\* A logout returns with the token in both denylists, unless one missed it.
LEMMA DenyPreserves ==
  ASSUME IInv, NEW r \in Requests, deny(r)
  PROVE  IInv'
<1> USE DEF database, redis, history
<1>1. TypeOK'
  <2>1. req[r].token \in Tokens
    BY DEF IInv, Formed, deny
  <2>2. req' \in [Requests -> Request]
    BY HandlerIsSound DEF IInv, TypeOK, Sound, deny, End
  <2>3. faults' \in 0..MaxFaults
    BY FaultIsCounted DEF deny
  <2>4. denylist' \subseteq Tokens /\ ended' \subseteq Tokens /\ slipped' \subseteq Tokens
    BY <2>1 DEF IInv, TypeOK, deny, Fault, Healed
  <2>5. UNCHANGED <<database, has_redis, cache, now, ever, lost, missed>>
    BY DEF deny
  <2> QED
    BY <2>2, <2>3, <2>4, <2>5 DEF IInv, TypeOK, Visible
<1>2. (\A q \in Requests : Formed(q))'
  BY DEF IInv, Formed, Idle, deny, End
<1>3. Denied'
  <2>1. /\ req[r].token \in revoked_tokens \cup slipped
        /\ slipped \ slipped' \subseteq revoked_tokens \cap {req[r].token}
        /\ revoked_tokens' = revoked_tokens /\ has_redis' = has_redis
    BY DEF IInv, Denied, deny, Fault, Healed
  <2>2. \A t \in ended' \ slipped' : t \in revoked_tokens /\ (has_redis => t \in denylist')
    BY <2>1 DEF IInv, Denied, deny, Fault, Healed
  <2>3. \A q \in Requests : req'[q].at \in {"deny", "postgres"} => req'[q] = req[q]
    BY DEF IInv, TypeOK, Idle, deny, End
  <2> QED
    BY <2>1, <2>2, <2>3 DEF IInv, Denied
<1>4. LoggedOutRejected'
  BY DEF IInv, LoggedOutRejected, Passed, Idle, deny, End
<1>5. \A s \in Scope : Held(s)' = Held(s)
  BY HeldStays DEF deny, End
<1>6. HeldWasHeld' /\ CachedWasHeld'
  BY <1>5 DEF IInv, HeldWasHeld, CachedWasHeld, deny, End
<1>7. (\A s \in Scope : Expires(s))'
  BY <1>5 DEF IInv, Expires, deny, End
<1>8. RoleRevocationEffective'
  BY <1>5 DEF IInv, RoleRevocationEffective, Fresh, deny, End
<1> QED
  BY <1>1, <1>2, <1>3, <1>4, <1>5, <1>6, <1>7, <1>8 DEF IInv

\* A new role permits what it is granted later.
LEMMA CreateRolePreserves ==
  ASSUME IInv, NEW role \in Roles, create_role(role)
  PROVE  IInv'
<1> USE DEF database, redis, history
<1>1. TypeOK'
  BY DEF IInv, TypeOK, create_role, Visible
<1>2. (\A q \in Requests : Formed(q))'
  BY DEF IInv, Formed, create_role
<1>3. Denied'
  BY DEF IInv, Denied, create_role
<1>4. LoggedOutRejected'
  BY DEF IInv, LoggedOutRejected, Passed, create_role
<1>5. \A s \in Scope : Held(s)' = Held(s)
  BY HeldStays DEF create_role
<1>6. HeldWasHeld' /\ CachedWasHeld'
  BY <1>5 DEF IInv, HeldWasHeld, CachedWasHeld, create_role
<1>7. (\A s \in Scope : Expires(s))'
  BY <1>5 DEF IInv, Expires, create_role
<1>8. RoleRevocationEffective'
  BY <1>5 DEF IInv, RoleRevocationEffective, Fresh, create_role
<1> QED
  BY <1>1, <1>2, <1>3, <1>4, <1>5, <1>6, <1>7, <1>8 DEF IInv

\* A membership does not touch what is held.
LEMMA AddMemberPreserves ==
  ASSUME IInv, NEW t \in Tenants, add_member(t)
  PROVE  IInv'
<1> USE DEF database, redis, history
<1>1. TypeOK'
  BY DEF IInv, TypeOK, add_member, Visible
<1>2. (\A q \in Requests : Formed(q))'
  BY DEF IInv, Formed, add_member
<1>3. Denied'
  BY DEF IInv, Denied, add_member
<1>4. LoggedOutRejected'
  BY DEF IInv, LoggedOutRejected, Passed, add_member
<1>5. \A s \in Scope : Held(s)' = Held(s)
  BY HeldStays DEF add_member
<1>6. HeldWasHeld' /\ CachedWasHeld'
  BY <1>5 DEF IInv, HeldWasHeld, CachedWasHeld, add_member
<1>7. (\A s \in Scope : Expires(s))'
  BY <1>5 DEF IInv, Expires, add_member
<1>8. RoleRevocationEffective'
  BY <1>5 DEF IInv, RoleRevocationEffective, Fresh, add_member
<1> QED
  BY <1>1, <1>2, <1>3, <1>4, <1>5, <1>6, <1>7, <1>8 DEF IInv

\* A membership does not touch what is held.
LEMMA RemoveMemberPreserves ==
  ASSUME IInv, NEW t \in Tenants, remove_member(t)
  PROVE  IInv'
<1> USE DEF database, redis, history
<1>1. TypeOK'
  BY DEF IInv, TypeOK, remove_member, Visible
<1>2. (\A q \in Requests : Formed(q))'
  BY DEF IInv, Formed, remove_member
<1>3. Denied'
  BY DEF IInv, Denied, remove_member
<1>4. LoggedOutRejected'
  BY DEF IInv, LoggedOutRejected, Passed, remove_member
<1>5. \A s \in Scope : Held(s)' = Held(s)
  BY HeldStays DEF remove_member
<1>6. HeldWasHeld' /\ CachedWasHeld'
  BY <1>5 DEF IInv, HeldWasHeld, CachedWasHeld, remove_member
<1>7. (\A s \in Scope : Expires(s))'
  BY <1>5 DEF IInv, Expires, remove_member
<1>8. RoleRevocationEffective'
  BY <1>5 DEF IInv, RoleRevocationEffective, Fresh, remove_member
<1> QED
  BY <1>1, <1>2, <1>3, <1>4, <1>5, <1>6, <1>7, <1>8 DEF IInv

\* A user who is deleted keeps his rows.
LEMMA SoftDeletePreserves ==
  ASSUME IInv, SoftDelete
  PROVE  IInv'
<1> USE DEF database, redis, history
<1>1. TypeOK'
  BY DEF IInv, TypeOK, SoftDelete, Visible
<1>2. (\A q \in Requests : Formed(q))'
  BY DEF IInv, Formed, SoftDelete
<1>3. Denied'
  BY DEF IInv, Denied, SoftDelete
<1>4. LoggedOutRejected'
  BY DEF IInv, LoggedOutRejected, Passed, SoftDelete
<1>5. \A s \in Scope : Held(s)' = Held(s)
  BY HeldStays DEF SoftDelete
<1>6. HeldWasHeld' /\ CachedWasHeld'
  BY <1>5 DEF IInv, HeldWasHeld, CachedWasHeld, SoftDelete
<1>7. (\A s \in Scope : Expires(s))'
  BY <1>5 DEF IInv, Expires, SoftDelete
<1>8. RoleRevocationEffective'
  BY <1>5 DEF IInv, RoleRevocationEffective, Fresh, SoftDelete
<1> QED
  BY <1>1, <1>2, <1>3, <1>4, <1>5, <1>6, <1>7, <1>8 DEF IInv

\* And has them when he is restored.
LEMMA RestorePreserves ==
  ASSUME IInv, RestoreUser
  PROVE  IInv'
<1> USE DEF database, redis, history
<1>1. TypeOK'
  BY DEF IInv, TypeOK, RestoreUser, Visible
<1>2. (\A q \in Requests : Formed(q))'
  BY DEF IInv, Formed, RestoreUser
<1>3. Denied'
  BY DEF IInv, Denied, RestoreUser
<1>4. LoggedOutRejected'
  BY DEF IInv, LoggedOutRejected, Passed, RestoreUser
<1>5. \A s \in Scope : Held(s)' = Held(s)
  BY HeldStays DEF RestoreUser
<1>6. HeldWasHeld' /\ CachedWasHeld'
  BY <1>5 DEF IInv, HeldWasHeld, CachedWasHeld, RestoreUser
<1>7. (\A s \in Scope : Expires(s))'
  BY <1>5 DEF IInv, Expires, RestoreUser
<1>8. RoleRevocationEffective'
  BY <1>5 DEF IInv, RoleRevocationEffective, Fresh, RestoreUser
<1> QED
  BY <1>1, <1>2, <1>3, <1>4, <1>5, <1>6, <1>7, <1>8 DEF IInv

\* An invalidation that is dropped is missed.
LEMMA AbortPreserves ==
  ASSUME IInv, NEW r \in Requests, Abort(r)
  PROVE  IInv'
<1> USE DEF database, redis, history
<1>1. TypeOK'
  BY AccessAssumption DEF IInv, TypeOK, Request, Idle, Abort, End, Fault, Visible
<1>2. (\A q \in Requests : Formed(q))'
  BY DEF IInv, Formed, Idle, Abort, End
<1>3. Denied'
  BY DEF IInv, Denied, Idle, Abort, End
<1>4. LoggedOutRejected'
  BY DEF IInv, LoggedOutRejected, Passed, Idle, Abort, End
<1>5. \A s \in Scope : Held(s)' = Held(s)
  BY HeldStays DEF Abort, End
<1>6. HeldWasHeld' /\ CachedWasHeld'
  BY <1>5 DEF IInv, HeldWasHeld, CachedWasHeld, Abort, End
<1>7. (\A s \in Scope : Expires(s))'
  BY <1>5 DEF IInv, Expires, Abort, End
<1>8. RoleRevocationEffective'
  BY <1>5 DEF IInv, RoleRevocationEffective, Fresh, TypeOK, Abort, End
<1> QED
  BY <1>1, <1>2, <1>3, <1>4, <1>5, <1>6, <1>7, <1>8 DEF IInv

\* An entry does not become fresh again.
LEMMA TickPreserves ==
  ASSUME IInv, Tick
  PROVE  IInv'
<1> USE DEF database, redis, history
<1>1. TypeOK'
  BY AccessAssumption DEF IInv, TypeOK, Tick, Visible
<1>2. (\A q \in Requests : Formed(q))'
  BY DEF IInv, Formed, Tick
<1>3. Denied'
  BY DEF IInv, Denied, Tick
<1>4. LoggedOutRejected'
  BY DEF IInv, LoggedOutRejected, Passed, Tick
<1>5. \A s \in Scope : Held(s)' = Held(s)
  BY HeldStays DEF Tick
<1>6. HeldWasHeld' /\ CachedWasHeld'
  BY <1>5 DEF IInv, HeldWasHeld, CachedWasHeld, Tick
<1>7. (\A s \in Scope : Expires(s))'
  <2>1. now \in Nat /\ now' = now + 1
    BY DEF IInv, TypeOK, Tick
  <2>2. \A s \in Scope : cache[s] # NULL => cache[s].until \in Nat
    BY DEF IInv, TypeOK, Entry
  <2> QED
    BY <1>5, <2>1, <2>2, AccessAssumption DEF IInv, Expires, Tick
<1>8. RoleRevocationEffective'
  <2>1. now \in Nat /\ now' = now + 1
    BY DEF IInv, TypeOK, Tick
  <2>2. \A s \in Scope : cache[s] # NULL => cache[s].until \in Nat
    BY DEF IInv, TypeOK, Entry
  <2>3. \A s \in Scope : Fresh(s)' => Fresh(s)
    BY <2>1, <2>2 DEF Fresh, Tick
  <2> QED
    BY <1>5, <2>3 DEF IInv, RoleRevocationEffective, Tick
<1> QED
  BY <1>1, <1>2, <1>3, <1>4, <1>5, <1>6, <1>7, <1>8 DEF IInv

-----------------------------------------------------------------------------
(***************************************************************************)
(* Steps that change what is held.                                         *)
(***************************************************************************)
\* An assignment gives, and takes nothing.
LEMMA AssignPreserves ==
  ASSUME IInv, NEW r \in Requests, NEW role \in Roles, NEW t \in Tenants, NEW p \in Projects \cup {NULL},
         assign_role(r, role, t, p)
  PROVE  IInv'
<1> USE DEF database, redis, history
<1>1. TypeOK'
  <2>1. role_permissions' \in [Roles -> SUBSET Permissions] /\ user_roles' \subseteq Assignment
        /\ \A a \in user_roles' : Visible(a.role, a.tenant)'
    BY DEF IInv, TypeOK, Assignment, Visible, assign_role, Begin
  <2>2. \A s \in Scope : Held(s)' \subseteq Permissions
    BY <2>1 DEF Held, Assignment
  <2>3. ever' \in [Scope -> SUBSET Permissions]
    BY <2>2 DEF IInv, TypeOK, Record, assign_role, Begin
  <2>4. lost' \in [Scope -> [Permissions -> [at: Nat, by: {"never", "assignment", "role"}]]]
    BY DEF IInv, TypeOK, Record, assign_role, Begin
  <2> QED
    BY <2>1, <2>3, <2>4 DEF IInv, TypeOK, Request, Idle, assign_role, Begin
<1>2. Record("assignment") /\ UNCHANGED <<cache, now>>
  BY DEF assign_role, Begin
<1>3. /\ HeldWasHeld' /\ CachedWasHeld' /\ \A s \in Scope : Expires(s)'
      /\ \A s \in Scope : ever[s] \subseteq ever'[s]
  BY <1>1, <1>2, RecordPreserves
<1>4. (\A q \in Requests : Formed(q))'
  BY <1>3, AccessAssumption DEF IInv, Formed, assign_role, Begin
<1>5. Denied' /\ LoggedOutRejected'
  BY DEF IInv, Denied, LoggedOutRejected, Passed, assign_role, Begin
<1>6. RoleRevocationEffective'
  BY DEF IInv, RoleRevocationEffective, TypeOK, assign_role, Begin
<1> QED
  BY <1>1, <1>2, <1>3, <1>4, <1>5, <1>6 DEF IInv

\* A removed assignment is followed by an invalidation.
LEMMA RevokePreserves ==
  ASSUME IInv, NEW r \in Requests, NEW role \in Roles, NEW t \in Tenants, NEW p \in Projects \cup {NULL},
         revoke_role(r, role, t, p)
  PROVE  IInv'
<1> USE DEF database, redis, history
<1>1. TypeOK'
  <2>1. role_permissions' \in [Roles -> SUBSET Permissions] /\ user_roles' \subseteq Assignment
        /\ \A a \in user_roles' : Visible(a.role, a.tenant)'
    BY DEF IInv, TypeOK, Visible, revoke_role, Begin
  <2>2. \A s \in Scope : Held(s)' \subseteq Permissions
    BY <2>1 DEF Held, Assignment
  <2>3. ever' \in [Scope -> SUBSET Permissions]
    BY <2>2 DEF IInv, TypeOK, Record, revoke_role, Begin
  <2>4. lost' \in [Scope -> [Permissions -> [at: Nat, by: {"never", "assignment", "role"}]]]
    BY DEF IInv, TypeOK, Record, revoke_role, Begin
  <2> QED
    BY <2>1, <2>3, <2>4 DEF IInv, TypeOK, Request, Idle, revoke_role, Begin
<1>2. Record("assignment") /\ UNCHANGED <<cache, now>>
  BY DEF revoke_role, Begin
<1>3. /\ HeldWasHeld' /\ CachedWasHeld' /\ \A s \in Scope : Expires(s)'
      /\ \A s \in Scope : ever[s] \subseteq ever'[s]
  BY <1>1, <1>2, RecordPreserves
<1>4. (\A q \in Requests : Formed(q))'
  BY <1>3, AccessAssumption DEF IInv, Formed, revoke_role, Begin
<1>5. Denied' /\ LoggedOutRejected'
  BY DEF IInv, Denied, LoggedOutRejected, Passed, revoke_role, Begin
<1>6. RoleRevocationEffective'
  BY DEF IInv, RoleRevocationEffective, TypeOK, revoke_role, Begin
<1> QED
  BY <1>1, <1>2, <1>3, <1>4, <1>5, <1>6 DEF IInv

\* A deleted role takes its assignments along.
LEMMA DeleteRolePreserves ==
  ASSUME IInv, NEW role \in Roles, delete_role(role)
  PROVE  IInv'
<1> USE DEF database, redis, history
<1>1. TypeOK'
  <2>1. role_permissions' \in [Roles -> SUBSET Permissions] /\ user_roles' \subseteq Assignment
        /\ \A a \in user_roles' : Visible(a.role, a.tenant)'
    BY DEF IInv, TypeOK, Visible, delete_role
  <2>2. \A s \in Scope : Held(s)' \subseteq Permissions
    BY <2>1 DEF Held, Assignment
  <2>3. ever' \in [Scope -> SUBSET Permissions]
    BY <2>2 DEF IInv, TypeOK, Record, delete_role
  <2>4. lost' \in [Scope -> [Permissions -> [at: Nat, by: {"never", "assignment", "role"}]]]
    BY DEF IInv, TypeOK, Record, delete_role
  <2> QED
    BY <2>1, <2>3, <2>4 DEF IInv, TypeOK, delete_role
<1>2. Record("role") /\ UNCHANGED <<cache, now>>
  BY DEF delete_role
<1>3. /\ HeldWasHeld' /\ CachedWasHeld' /\ \A s \in Scope : Expires(s)'
      /\ \A s \in Scope : ever[s] \subseteq ever'[s]
  BY <1>1, <1>2, RecordPreserves
<1>4. (\A q \in Requests : Formed(q))'
  BY <1>3, AccessAssumption DEF IInv, Formed, delete_role
<1>5. Denied' /\ LoggedOutRejected'
  BY DEF IInv, Denied, LoggedOutRejected, Passed, delete_role
<1>6. RoleRevocationEffective'
  BY <1>2, LossIsRecorded DEF IInv, RoleRevocationEffective, Fresh, delete_role
<1> QED
  BY <1>1, <1>2, <1>3, <1>4, <1>5, <1>6 DEF IInv

\* A role permits more.
LEMMA GrantPreserves ==
  ASSUME IInv, NEW role \in Roles, NEW p \in Permissions, grant_permission(role, p)
  PROVE  IInv'
<1> USE DEF database, redis, history
<1>1. TypeOK'
  <2>1. role_permissions' \in [Roles -> SUBSET Permissions] /\ user_roles' \subseteq Assignment
        /\ \A a \in user_roles' : Visible(a.role, a.tenant)'
    BY DEF IInv, TypeOK, Visible, grant_permission
  <2>2. \A s \in Scope : Held(s)' \subseteq Permissions
    BY <2>1 DEF Held, Assignment
  <2>3. ever' \in [Scope -> SUBSET Permissions]
    BY <2>2 DEF IInv, TypeOK, Record, grant_permission
  <2>4. lost' \in [Scope -> [Permissions -> [at: Nat, by: {"never", "assignment", "role"}]]]
    BY DEF IInv, TypeOK, Record, grant_permission
  <2> QED
    BY <2>1, <2>3, <2>4 DEF IInv, TypeOK, grant_permission
<1>2. Record("role") /\ UNCHANGED <<cache, now>>
  BY DEF grant_permission
<1>3. /\ HeldWasHeld' /\ CachedWasHeld' /\ \A s \in Scope : Expires(s)'
      /\ \A s \in Scope : ever[s] \subseteq ever'[s]
  BY <1>1, <1>2, RecordPreserves
<1>4. (\A q \in Requests : Formed(q))'
  BY <1>3, AccessAssumption DEF IInv, Formed, grant_permission
<1>5. Denied' /\ LoggedOutRejected'
  BY DEF IInv, Denied, LoggedOutRejected, Passed, grant_permission
<1>6. RoleRevocationEffective'
  BY <1>2, LossIsRecorded DEF IInv, RoleRevocationEffective, Fresh, grant_permission
<1> QED
  BY <1>1, <1>2, <1>3, <1>4, <1>5, <1>6 DEF IInv

\* A role permits less.
LEMMA UngrantPreserves ==
  ASSUME IInv, NEW role \in Roles, NEW p \in Permissions, revoke_permission(role, p)
  PROVE  IInv'
<1> USE DEF database, redis, history
<1>1. TypeOK'
  <2>1. role_permissions' \in [Roles -> SUBSET Permissions] /\ user_roles' \subseteq Assignment
        /\ \A a \in user_roles' : Visible(a.role, a.tenant)'
    BY DEF IInv, TypeOK, Visible, revoke_permission
  <2>2. \A s \in Scope : Held(s)' \subseteq Permissions
    BY <2>1 DEF Held, Assignment
  <2>3. ever' \in [Scope -> SUBSET Permissions]
    BY <2>2 DEF IInv, TypeOK, Record, revoke_permission
  <2>4. lost' \in [Scope -> [Permissions -> [at: Nat, by: {"never", "assignment", "role"}]]]
    BY DEF IInv, TypeOK, Record, revoke_permission
  <2> QED
    BY <2>1, <2>3, <2>4 DEF IInv, TypeOK, revoke_permission
<1>2. Record("role") /\ UNCHANGED <<cache, now>>
  BY DEF revoke_permission
<1>3. /\ HeldWasHeld' /\ CachedWasHeld' /\ \A s \in Scope : Expires(s)'
      /\ \A s \in Scope : ever[s] \subseteq ever'[s]
  BY <1>1, <1>2, RecordPreserves
<1>4. (\A q \in Requests : Formed(q))'
  BY <1>3, AccessAssumption DEF IInv, Formed, revoke_permission
<1>5. Denied' /\ LoggedOutRejected'
  BY DEF IInv, Denied, LoggedOutRejected, Passed, revoke_permission
<1>6. RoleRevocationEffective'
  BY <1>2, LossIsRecorded DEF IInv, RoleRevocationEffective, Fresh, revoke_permission
<1> QED
  BY <1>1, <1>2, <1>3, <1>4, <1>5, <1>6 DEF IInv

\* A user who is deleted for good holds nothing.
LEMMA HardDeletePreserves ==
  ASSUME IInv, HardDelete
  PROVE  IInv'
<1> USE DEF database, redis, history
<1>1. TypeOK'
  <2>1. role_permissions' \in [Roles -> SUBSET Permissions] /\ user_roles' \subseteq Assignment
        /\ \A a \in user_roles' : Visible(a.role, a.tenant)'
    BY DEF IInv, TypeOK, HardDelete
  <2>2. \A s \in Scope : Held(s)' \subseteq Permissions
    BY <2>1 DEF Held, Assignment
  <2>3. ever' \in [Scope -> SUBSET Permissions]
    BY <2>2 DEF IInv, TypeOK, Record, HardDelete
  <2>4. lost' \in [Scope -> [Permissions -> [at: Nat, by: {"never", "assignment", "role"}]]]
    BY DEF IInv, TypeOK, Record, HardDelete
  <2> QED
    BY <2>1, <2>3, <2>4 DEF IInv, TypeOK, HardDelete
<1>2. Record("role") /\ UNCHANGED <<cache, now>>
  BY DEF HardDelete
<1>3. /\ HeldWasHeld' /\ CachedWasHeld' /\ \A s \in Scope : Expires(s)'
      /\ \A s \in Scope : ever[s] \subseteq ever'[s]
  BY <1>1, <1>2, RecordPreserves
<1>4. (\A q \in Requests : Formed(q))'
  BY <1>3, AccessAssumption DEF IInv, Formed, HardDelete
<1>5. Denied' /\ LoggedOutRejected'
  BY DEF IInv, Denied, LoggedOutRejected, Passed, HardDelete
<1>6. RoleRevocationEffective'
  BY <1>2, LossIsRecorded DEF IInv, RoleRevocationEffective, Fresh, HardDelete
<1> QED
  BY <1>1, <1>2, <1>3, <1>4, <1>5, <1>6 DEF IInv

-----------------------------------------------------------------------------
(***************************************************************************)
(* Steps that change the cache.                                            *)
(***************************************************************************)
\* What is stored was held, and expires in time.
LEMMA StorePreserves ==
  ASSUME IInv, NEW r \in Requests, set_perms(r)
  PROVE  IInv'
<1> USE DEF database, redis, history
<1> DEFINE s == TokenScope[req[r].token]
           e == [perms |-> req[r].perms, until |-> now + PermsTTL,
                 late |-> ~(req[r].perms \subseteq Held(s))]
<1>1. Sound(req[r]) /\ Sound(Idle) /\ req[r].at = "store"
  BY HandlerIsSound DEF set_perms
<1>2. s \in Scope /\ req[r].perms \subseteq ever[s]
  BY <1>1, AccessAssumption DEF Sound
<1>3. e \in Entry /\ e # NULL
  <2>1. e.late \in BOOLEAN
    BY Zenon
  <2>2. e.perms \subseteq Permissions /\ e.until \in Nat
    BY <1>1, AccessAssumption DEF Sound, IInv, TypeOK
  <2>3. e = [perms |-> e.perms, until |-> e.until, late |-> e.late]
    OBVIOUS
  <2> HIDE DEF e
  <2> QED
    BY <2>1, <2>2, <2>3, NullIsNoEntry DEF Entry
<1>4. cache' = cache \/ cache' = [cache EXCEPT ![s] = e]
  BY DEF set_perms, perms_key
<1>5. req' = [req EXCEPT ![r] = Idle] /\ faults' \in 0..MaxFaults
      /\ UNCHANGED <<database, has_redis, denylist, now, history>>
  BY FaultIsCounted DEF set_perms, End
<1>6. e.perms \subseteq ever[s] /\ e.until = now + PermsTTL /\ (~e.late => e.perms \subseteq Held(s))
  BY <1>2
<1> HIDE DEF s, e
<1>7. cache' \in [Scope -> Entry \cup {NULL}]
      /\ \A k \in Scope : cache'[k] = cache[k] \/ (k = s /\ cache'[k] = e)
  BY <1>2, <1>3, <1>4 DEF IInv, TypeOK
<1>8. req' \in [Requests -> Request] /\ \A k \in Requests : req'[k] = IF k = r THEN Idle ELSE req[k]
  BY <1>1, <1>5 DEF IInv, TypeOK, Sound
<1>9. TypeOK'
  BY <1>5, <1>7, <1>8 DEF IInv, TypeOK, Visible
<1>10. (\A k \in Requests : Formed(k))' /\ Denied' /\ LoggedOutRejected'
  BY <1>5, <1>8 DEF IInv, Formed, Denied, LoggedOutRejected, Passed, Idle
<1>11. \A k \in Scope : Held(k)' = Held(k)
  BY <1>5, HeldStays
<1>12. HeldWasHeld' /\ CachedWasHeld'
  BY <1>5, <1>6, <1>7, <1>11 DEF IInv, HeldWasHeld, CachedWasHeld
<1>13. (\A k \in Scope : Expires(k))'
  <2>1. ASSUME NEW k \in Scope, cache'[k] = cache[k]
        PROVE  Expires(k)'
    BY <1>5, <1>11, <2>1 DEF IInv, Expires
  <2>2. ASSUME NEW k \in Scope, k = s, cache'[k] = e
        PROVE  Expires(k)'
    <3>1. ~e.late => cache'[k].perms \ Held(k)' = {}
      BY <1>6, <1>11, <2>2
    <3> QED
      BY <1>5, <1>6, <2>2, <3>1, AccessAssumption DEF IInv, TypeOK, Expires
  <2> QED
    BY <1>7, <2>1, <2>2
<1>14. RoleRevocationEffective'
  <2>1. ASSUME (\A k \in Requests : req[k].at # "invalidate")'
        PROVE  \A k \in Requests : req[k].at # "invalidate"
    BY <1>1, <1>8, <2>1
  <2>2. ASSUME NEW k \in Scope, cache'[k] = e, k = s, ~e.late
        PROVE  cache'[k].perms \ Held(k)' = {}
    BY <1>6, <1>11, <2>2
  <2> QED
    BY <1>5, <1>7, <1>11, <2>1, <2>2 DEF IInv, RoleRevocationEffective, Fresh
<1> QED
  BY <1>9, <1>10, <1>12, <1>13, <1>14 DEF IInv

\* What is left of the cache was there.
LEMMA InvalidatePreserves ==
  ASSUME IInv, NEW r \in Requests, invalidate_perms(r)
  PROVE  IInv'
<1> USE DEF database, redis, history
<1>1. TypeOK'
  <2>1. req' \in [Requests -> Request]
    BY HandlerIsSound DEF IInv, TypeOK, Sound, invalidate_perms, End
  <2>2. cache' \in [Scope -> Entry \cup {NULL}]
    BY DEF IInv, TypeOK, NoEntry, invalidate_perms
  <2>3. faults' \in 0..MaxFaults /\ missed' \in BOOLEAN
    BY FaultIsCounted DEF IInv, TypeOK, invalidate_perms
  <2> QED
    BY <2>1, <2>2, <2>3 DEF IInv, TypeOK, Visible, invalidate_perms
<1>2. (\A q \in Requests : Formed(q))'
  BY DEF IInv, Formed, Idle, invalidate_perms, End
<1>3. Denied'
  BY DEF IInv, Denied, Idle, invalidate_perms, End
<1>4. LoggedOutRejected'
  BY DEF IInv, LoggedOutRejected, Passed, Idle, invalidate_perms, End
<1>5. \A s \in Scope : Held(s)' = Held(s)
  BY HeldStays DEF invalidate_perms, End
<1>6. HeldWasHeld' /\ CachedWasHeld'
  BY <1>5 DEF IInv, HeldWasHeld, CachedWasHeld, invalidate_perms, End, NoEntry
<1>7. (\A s \in Scope : Expires(s))'
  BY <1>5 DEF IInv, Expires, invalidate_perms, End, NoEntry
<1>8. RoleRevocationEffective'
  BY <1>5 DEF IInv, RoleRevocationEffective, Fresh, invalidate_perms, End, NoEntry
<1> QED
  BY <1>1, <1>2, <1>3, <1>4, <1>5, <1>6, <1>7, <1>8 DEF IInv

\* Redis forgets its denylist, but Postgres does not.
LEMMA RestartPreserves ==
  ASSUME IInv, RedisRestart
  PROVE  IInv'
<1> USE DEF database, redis, history
<1>1. TypeOK'
  <2>1. cache' \in [Scope -> Entry \cup {NULL}]
    BY DEF RedisRestart, NoEntry
  <2>2. faults' \in 0..MaxFaults
    BY FaultIsCounted DEF RedisRestart
  <2>3. denylist' \subseteq Tokens /\ slipped' \subseteq Tokens /\ missed' \in BOOLEAN
    BY DEF IInv, TypeOK, RedisRestart
  <2> QED
    BY <2>1, <2>2, <2>3 DEF IInv, TypeOK, RedisRestart, Visible
<1>2. (\A q \in Requests : Formed(q))'
  BY DEF IInv, Formed, RedisRestart
<1>3. Denied'
  BY DEF IInv, Denied, RedisRestart
<1>4. LoggedOutRejected'
  BY DEF IInv, LoggedOutRejected, Passed, RedisRestart
<1>5. \A s \in Scope : Held(s)' = Held(s)
  BY HeldStays DEF RedisRestart
<1>6. HeldWasHeld' /\ CachedWasHeld'
  BY <1>5 DEF IInv, HeldWasHeld, CachedWasHeld, RedisRestart, NoEntry
<1>7. (\A s \in Scope : Expires(s))'
  BY <1>5 DEF IInv, Expires, RedisRestart, NoEntry
<1>8. RoleRevocationEffective'
  BY <1>5 DEF IInv, RoleRevocationEffective, Fresh, RedisRestart, NoEntry
<1> QED
  BY <1>1, <1>2, <1>3, <1>4, <1>5, <1>6, <1>7, <1>8 DEF IInv

-----------------------------------------------------------------------------
(***************************************************************************)
(* The invariant holds, and what follows from it.                          *)
(***************************************************************************)
\* At first nobody is assigned a role, and nothing is cached or running.
LEMMA InitEstablishes == Init => IInv
<1> SUFFICES ASSUME Init
             PROVE  IInv
  OBVIOUS
<1>1. TypeOK
  <2>1. role_permissions \in [Roles -> SUBSET Permissions]
    BY DEF Init
  <2>2. req \in [Requests -> Request]
    BY DEF Init, Request, Idle
  <2>3. cache \in [Scope -> Entry \cup {NULL}]
    BY DEF Init, NoEntry
  <2>4. lost \in [Scope -> [Permissions -> [at: Nat, by: {"never", "assignment", "role"}]]]
        /\ ever \in [Scope -> SUBSET Permissions]
    BY DEF Init
  <2>5. MaxTime \in Nat /\ MaxFaults \in Nat
    BY AccessAssumption
  <2>6. now \in 0..MaxTime /\ faults \in 0..MaxFaults
    BY <2>5 DEF Init
  <2> QED
    BY <2>1, <2>2, <2>3, <2>4, <2>6 DEF Init, TypeOK
<1>2. \A s \in Scope : cache[s] = NULL /\ Held(s) = {}
  BY DEF Init, NoEntry, Held
<1>3. (\A r \in Requests : Formed(r)) /\ Denied /\ LoggedOutRejected
  BY DEF Init, Idle, Formed, Denied, LoggedOutRejected, Passed
<1>4. HeldWasHeld /\ CachedWasHeld /\ (\A s \in Scope : Expires(s)) /\ RoleRevocationEffective
  BY <1>2 DEF HeldWasHeld, CachedWasHeld, Expires, RoleRevocationEffective, Fresh
<1> QED
  BY <1>1, <1>3, <1>4 DEF IInv

\* Nothing happens.
LEMMA StutterPreserves ==
  ASSUME IInv, UNCHANGED vars
  PROVE  IInv'
<1> USE DEF vars, database, redis, history
<1>1. TypeOK' /\ (\A r \in Requests : Formed(r))' /\ Denied' /\ LoggedOutRejected'
  BY DEF IInv, TypeOK, Visible, Formed, Denied, LoggedOutRejected, Passed
<1>2. \A s \in Scope : Held(s)' = Held(s)
  BY HeldStays
<1>3. HeldWasHeld' /\ CachedWasHeld' /\ (\A s \in Scope : Expires(s))' /\ RoleRevocationEffective'
  BY <1>2 DEF IInv, HeldWasHeld, CachedWasHeld, Expires, RoleRevocationEffective, Fresh
<1> QED
  BY <1>1, <1>3 DEF IInv

\* One case for each operation.
LEMMA StepPreserves ==
  ASSUME IInv, [Next]_vars
  PROVE  IInv'
<1>1. ASSUME NEW r \in Requests, AnswerStep(r)
      PROVE  IInv'
  BY <1>1, AskedPreserves, StorePreserves DEF AnswerStep
<1>2. ASSUME NEW r \in Requests, RequestStep(r)
      PROVE  IInv'
  BY <1>2, ValidatePreserves, LogoutPreserves, IsRevokedPreserves, AskedPreserves,
     LoadPreserves, RevokeJtiPreserves, DenyPreserves, InvalidatePreserves, AbortPreserves,
     AssignPreserves, RevokePreserves DEF RequestStep
<1>3. ASSUME AdminStep
      PROVE  IInv'
  BY <1>3, CreateRolePreserves, DeleteRolePreserves, GrantPreserves, UngrantPreserves,
     AddMemberPreserves, RemoveMemberPreserves, SoftDeletePreserves, HardDeletePreserves,
     RestorePreserves DEF AdminStep
<1> QED
  BY <1>1, <1>2, <1>3, RestartPreserves, TickPreserves, StutterPreserves DEF Next

\* The inductive invariant holds in every state.
THEOREM Invariance == Spec => []IInv
BY InitEstablishes, StepPreserves, PTL DEF Spec

\* Type correctness.  Among the rest, assignments are of roles that exist and
\* that the tenant may use, as the foreign keys and validate_assign have it.
THEOREM TypeCorrect == Spec => []TypeOK
<1>1. IInv => TypeOK
  BY DEF IInv
<1> QED
  BY <1>1, Invariance, PTL

\* validate_token refuses a token whose logout returned, whichever denylist it
\* asks, unless a denylist missed the token or lost it.
THEOREM LogoutTheorem == Spec => []LoggedOutRejected
<1>1. IInv => LoggedOutRejected
  BY DEF IInv
<1> QED
  BY <1>1, Invariance, PTL

\* set_perms never stores for a tenant and project what was not held in it.
THEOREM CachedTheorem == Spec => []CachedWasHeld
<1>1. IInv => CachedWasHeld
  BY DEF IInv
<1> QED
  BY <1>1, Invariance, PTL

\* Whatever took a permission away, the cache answers it for less than
\* PERMS_TTL_SECS, unless it was stored late.
THEOREM StaleTheorem == Spec => []StaleAtMostTTL
<1>1. IInv => StaleAtMostTTL
  <2> SUFFICES ASSUME IInv, NEW s \in Scope, Fresh(s), ~cache[s].late,
                      NEW p \in cache[s].perms \ Held(s)
               PROVE  now < lost[s][p].at + PermsTTL
    BY DEF StaleAtMostTTL
  <2>1. now < cache[s].until /\ cache[s].until <= lost[s][p].at + PermsTTL
    BY DEF IInv, Expires, Fresh
  <2>2. cache[s] \in Entry
    BY DEF IInv, TypeOK, Fresh
  <2>3. now \in Nat /\ cache[s].until \in Nat /\ lost[s][p].at \in Nat
    BY <2>2 DEF IInv, TypeOK, Entry
  <2> QED
    BY <2>1, <2>3, AccessAssumption
<1> QED
  BY <1>1, Invariance, PTL

\* Once revoke_role has returned, no cached answer has what it took, unless the
\* entry was stored late or the invalidation was missed.
THEOREM RevocationTheorem == Spec => []RoleRevocationEffective
<1>1. IInv => RoleRevocationEffective
  BY DEF IInv
<1> QED
  BY <1>1, Invariance, PTL

-----------------------------------------------------------------------------
(***************************************************************************)
(* API keys beside it: Access goes on as it would without them.            *)
(***************************************************************************)
\* A step of Access, with the answers and the checks that watch it.
LEMMA AccessStepIsNext ==
  ASSUME AccessStep
  PROVE  Next
BY DEF AccessStep, AnswerCached, AnswerLoaded, Next, AnswerStep

\* A check and a key leave what they read alone.
LEMMA KeysStepIsStep ==
  ASSUME [KeysNext]_keys_vars
  PROVE  [Next]_vars
<1>1. ASSUME KeyStep
      PROVE  UNCHANGED vars
  BY <1>1 DEF KeyStep, revoke_api_key, create_api_key
<1>2. ASSUME NEW c \in Checks, CheckStep(c)
      PROVE  UNCHANGED vars
  BY <1>2 DEF CheckStep, StartCheck, get_user_by_id, CheckMember, Pass, Intersect, Finish
<1> QED
  BY <1>1, <1>2, AccessStepIsNext DEF KeysNext, keys_vars

\* The API keys of a user do not interfere with his access tokens: whatever is
\* true of every behaviour of Access is true here.
THEOREM KeysImplementAccess == KeysSpec => Spec
<1>1. KeysInit => Init
  BY DEF KeysInit
<1> QED
  BY <1>1, KeysStepIsStep, PTL DEF KeysSpec, Spec

\* So what validate_token, the denylists and the cache promise, they promise
\* while keys are made, checked and revoked, too.
THEOREM KeysAccessTheorem ==
  KeysSpec => /\ [](LoggedOutRejected /\ CachedWasHeld)
              /\ [](StaleAtMostTTL /\ RoleRevocationEffective)
BY KeysImplementAccess, LogoutTheorem, CachedTheorem, StaleTheorem, RevocationTheorem, PTL

\* What was held stays in the history.
LEMMA EverGrows ==
  ASSUME IInv, [Next]_vars, NEW s \in Scope
  PROVE  ever[s] \subseteq ever'[s]
<1> USE DEF vars, history
<1>1. ASSUME NEW how, Record(how)
      PROVE  ever[s] \subseteq ever'[s]
  BY <1>1 DEF Record
<1>2. ASSUME NEW r \in Requests, AnswerStep(r) \/ RequestStep(r)
      PROVE  ever' = ever \/ Record("assignment")
  BY <1>2 DEF AnswerStep, RequestStep, get_perms, set_perms, Validate, Logout,
     is_token_revoked, is_user_active, is_active_member, get_user_permissions_scoped,
     revoke_access_jti, deny, invalidate_perms, Abort, assign_role, revoke_role
<1>3. ASSUME AdminStep
      PROVE  ever' = ever \/ Record("role")
  BY <1>3 DEF AdminStep, create_role, delete_role, grant_permission, revoke_permission,
     add_member, remove_member, SoftDelete, HardDelete, RestoreUser
<1>4. RedisRestart \/ Tick \/ UNCHANGED vars => ever' = ever
  BY DEF RedisRestart, Tick
<1> QED
  BY <1>1, <1>2, <1>3, <1>4 DEF Next

\* Idle slots stay idle.
LEMMA NoCheckType ==
  /\ NoCheck \in KeyCheck /\ NoCheck.at = "idle"
  /\ \A active, members, held : Watched(NoCheck, active, members, held) = NoCheck
BY DEF NoCheck, KeyCheck, Watched

\* A check sees what a step of Access changes.
LEMMA WatchPreserves ==
  ASSUME KeysIInv, IInv', NEW c \in Checks,
         checks'[c] = Watched(checks[c], status' = "active", memberships', Holding')
  PROVE  checks'[c] \in KeyCheck /\ Watching(c)' /\ Found(c)'
<1> DEFINE check == checks[c]
<1>1. check \in KeyCheck
  BY DEF KeysIInv, KeysTypeOK
<1>2. CASE check = NoCheck
  BY <1>2, NoCheckType DEF Watching, Found
<1>3. CASE check # NoCheck
  <2>1. PICK s \in Scope : s = check.scope
    BY <1>3 DEF KeysIInv, Watching
  <2>2. \A k \in Scope : Held(k)' \subseteq Permissions
    BY DEF IInv, TypeOK, Held, Assignment
  <2>3. Holding' \in [Scope -> SUBSET Permissions] /\ Holding'[s] = Held(s)'
    BY <2>2 DEF Holding
  <2> DEFINE w == Watched(check, status' = "active", memberships', Holding')
  <2>4. /\ w \in KeyCheck
        /\ w.at = check.at /\ w.scope = check.scope /\ w.scopes = check.scopes
        /\ check.active \/ status' = "active" => w.active
        /\ check.member \/ check.scope[1] \in memberships' => w.member
        /\ w.held = check.held \cup Held(s)'
    BY <1>1, <1>3, <2>1, <2>3 DEF Watched, KeyCheck
  <2>5. checks'[c] = w
    OBVIOUS
  <2> HIDE DEF w
  <2>6. Watching(c)'
    BY <2>1, <2>4, <2>5 DEF Watching
  <2>7. Found(c)'
    BY <2>4, <2>5 DEF KeysIInv, Found
  <2> QED
    BY <2>4, <2>5, <2>6, <2>7
<1> QED
  BY <1>2, <1>3

\* A step of Access keeps the keys, and adds an answer that was held.
LEMMA AccessStepPreserves ==
  ASSUME KeysIInv, IInv', AccessStep
  PROVE  KeysIInv'
<1>1. \A s \in Scope : ever[s] \subseteq ever'[s]
  BY AccessStepIsNext, EverGrows DEF KeysIInv
<1>2. \A t \in Tokens : TokenScope[t] \in Scope
  BY AccessAssumption
<1>3. \A a \in answers : a[1] \in Tokens
  BY DEF KeysIInv, KeysTypeOK
<1>4. \A a \in answers : a[2] \subseteq ever'[TokenScope[a[1]]]
  BY <1>1, <1>2, <1>3 DEF KeysIInv, AnswersWereHeld
<1>5. \/ answers' = answers
      \/ \E t \in Tokens, perms \in SUBSET Permissions :
           answers' = answers \cup {<<t, perms>>} /\ perms \subseteq ever[TokenScope[t]]
  <2>1. ASSUME NEW r \in Requests, AnswerCached(r), answers' # answers
        PROVE  LET s == TokenScope[req[r].token]
               IN  /\ req[r].token \in Tokens
                   /\ cache[s].perms \subseteq Permissions /\ cache[s].perms \subseteq ever[s]
                   /\ answers' = answers \cup {<<req[r].token, cache[s].perms>>}
    <3> DEFINE s == TokenScope[req[r].token]
    <3>1. req[r].token \in Tokens
      BY <2>1 DEF KeysIInv, IInv, Formed, AnswerCached, get_perms
    <3>2. req'[r] = Idle /\ answers' = answers \cup {<<req[r].token, cache[s].perms>>}
      BY <2>1 DEF AnswerCached, perms_key
    <3>3. Fresh(s)
      <4>1. \A at : Goto(r, at) => req'[r].at = at
        BY DEF KeysIInv, IInv, TypeOK, Goto
      <4> QED
        BY <2>1, <3>2, <4>1 DEF AnswerCached, get_perms, perms_key, Idle
    <3>4. s \in Scope
      BY <1>2, <3>1
    <3> HIDE DEF s
    <3>5. cache[s].perms \subseteq Permissions /\ cache[s].perms \subseteq ever[s]
      BY <3>3, <3>4 DEF KeysIInv, IInv, TypeOK, CachedWasHeld, Fresh
    <3> QED
      BY <3>1, <3>2, <3>5 DEF s
  <2>2. ASSUME NEW r \in Requests, AnswerLoaded(r)
        PROVE  /\ req[r].token \in Tokens
               /\ req[r].perms \subseteq Permissions
               /\ req[r].perms \subseteq ever[TokenScope[req[r].token]]
               /\ answers' = answers \cup {<<req[r].token, req[r].perms>>}
    BY <2>2 DEF KeysIInv, IInv, TypeOK, Request, Formed, AnswerLoaded, set_perms
  <2> QED
    BY <2>1, <2>2 DEF AccessStep
<1>6. AnswersWereHeld' /\ answers' \subseteq Tokens \X SUBSET Permissions
  BY <1>1, <1>2, <1>4, <1>5 DEF KeysIInv, KeysTypeOK, AnswersWereHeld
<1>7. api_keys' \in [Keys -> KeyRow \cup {NULL}]
      /\ \A k \in Keys : api_keys'[k] = NULL \/ api_keys'[k] = api_keys[k]
  BY DEF AccessStep, KeysIInv, KeysTypeOK
<1>8. ScopesWereHeld'
  <2>1. \A k \in Keys : api_keys[k] # NULL =>
          <<api_keys[k].tenant_id, api_keys[k].project_id>> \in Scope
    BY DEF KeysIInv, KeysTypeOK, KeyRow, Scope
  <2> QED
    BY <1>1, <1>7, <2>1 DEF KeysIInv, ScopesWereHeld
<1>9. checks' = [c \in Checks |-> checks'[c]]
      /\ \A c \in Checks :
           checks'[c] = Watched(checks[c], status' = "active", memberships', Holding')
  BY DEF AccessStep, Watch
<1>10. \A c \in Checks : checks'[c] \in KeyCheck /\ Watching(c)' /\ Found(c)'
  BY <1>9, WatchPreserves
<1>11. checks' \in [Checks -> KeyCheck]
  BY <1>9, <1>10
<1> QED
  BY <1>6, <1>7, <1>8, <1>10, <1>11 DEF KeysIInv, KeysTypeOK, IInv

\* What is held depends on nothing that a check or a key changes.
LEMMA HeldStaysWithout ==
  ASSUME UNCHANGED vars
  PROVE  \A s \in Scope : Held(s)' = Held(s)
BY HeldStays DEF vars, database

\* A key is made with what an answer had, and revoked keeping it.
LEMMA KeyStepPreserves ==
  ASSUME KeysIInv, IInv', KeyStep
  PROVE  KeysIInv'
<1> USE DEF vars, database, redis, history
<1>1. UNCHANGED <<vars, answers, checks>>
  BY DEF KeyStep, revoke_api_key, create_api_key
<1>2. ASSUME NEW k \in Keys, NEW row \in KeyRow, api_keys' = [api_keys EXCEPT ![k] = row],
             row.scopes \subseteq ever[<<row.tenant_id, row.project_id>>]
      PROVE  api_keys' \in [Keys -> KeyRow \cup {NULL}] /\ ScopesWereHeld'
  BY <1>1, <1>2 DEF KeysIInv, KeysTypeOK, ScopesWereHeld
<1>3. ASSUME NEW k \in Keys, revoke_api_key(k)
      PROVE  api_keys' \in [Keys -> KeyRow \cup {NULL}] /\ ScopesWereHeld'
  <2> DEFINE row == [api_keys[k] EXCEPT !.revoked_at = now]
  <2>1. row \in KeyRow /\ row.scopes = api_keys[k].scopes
        /\ row.tenant_id = api_keys[k].tenant_id /\ row.project_id = api_keys[k].project_id
    <3>1. api_keys[k] \in KeyRow /\ now \in Nat
      BY <1>3 DEF revoke_api_key, KeysIInv, KeysTypeOK, IInv, TypeOK
    <3> QED
      BY <3>1 DEF KeyRow
  <2>2. api_keys' = [api_keys EXCEPT ![k] = row]
    BY <1>3 DEF revoke_api_key
  <2>3. api_keys[k].scopes \subseteq ever[<<api_keys[k].tenant_id, api_keys[k].project_id>>]
    BY <1>3 DEF revoke_api_key, KeysIInv, ScopesWereHeld
  <2> HIDE DEF row
  <2> QED
    BY <1>2, <2>1, <2>2, <2>3
<1>4. ASSUME NEW k \in Keys, NEW t \in Tokens, NEW scopes \in SUBSET Permissions,
             NEW ttl \in Lifetimes, create_api_key(k, t, scopes, ttl)
      PROVE  api_keys' \in [Keys -> KeyRow \cup {NULL}] /\ ScopesWereHeld'
  <2> DEFINE row ==
        [tenant_id |-> TokenScope[t][1], project_id |-> TokenScope[t][2], scopes |-> scopes,
         expires_at |-> IF ttl > 0 THEN now + ttl ELSE NULL, revoked_at |-> NULL]
  <2>1. TokenScope[t] \in Scope
    BY AccessAssumption
  <2>2. <<TokenScope[t][1], TokenScope[t][2]>> = TokenScope[t]
        /\ TokenScope[t][1] \in Tenants /\ TokenScope[t][2] \in Projects \cup {NULL}
    BY <2>1 DEF Scope
  <2>3. (IF ttl > 0 THEN now + ttl ELSE NULL) \in Nat \cup {NULL}
    BY ApiKeysAssumption DEF KeysIInv, IInv, TypeOK
  <2>4. row \in KeyRow
    BY <2>2, <2>3 DEF KeyRow
  <2>5. scopes \subseteq ever[TokenScope[t]]
    BY <1>4 DEF create_api_key, KeysIInv, AnswersWereHeld
  <2>6. api_keys' = [api_keys EXCEPT ![k] = row]
    BY <1>4 DEF create_api_key
  <2>7. row.scopes = scopes /\ row.tenant_id = TokenScope[t][1]
        /\ row.project_id = TokenScope[t][2]
    OBVIOUS
  <2> HIDE DEF row
  <2> QED
    BY <1>2, <2>2, <2>4, <2>5, <2>6, <2>7
<1>5. api_keys' \in [Keys -> KeyRow \cup {NULL}] /\ ScopesWereHeld'
  BY <1>3, <1>4 DEF KeyStep
<1>6. (\A c \in Checks : Watching(c) /\ Found(c))' /\ AnswersWereHeld'
  BY <1>1, HeldStaysWithout DEF KeysIInv, Watching, Found, AnswersWereHeld
<1> QED
  BY <1>1, <1>5, <1>6 DEF KeysIInv, KeysTypeOK, IInv

\* A check that passes on what is true now has it in its history.
LEMMA CheckStepPreserves ==
  ASSUME KeysIInv, IInv', NEW c \in Checks, CheckStep(c)
  PROVE  KeysIInv'
<1> USE DEF vars, database, redis, history
<1>1. UNCHANGED <<vars, api_keys, answers>>
  BY DEF CheckStep, StartCheck, get_user_by_id, CheckMember, Pass, Intersect, Finish
<1>2. \A s \in Scope : Held(s)' = Held(s)
  BY <1>1, HeldStaysWithout
<1>3. ASSUME NEW check \in KeyCheck, checks' = [checks EXCEPT ![c] = check],
             check # NoCheck =>
               /\ check.scope \in Scope
               /\ status = "active" => check.active
               /\ check.scope[1] \in memberships => check.member
               /\ Held(check.scope) \subseteq check.held,
             check.at \in {"member", "load", "touch"} => check.active,
             check.at \in {"load", "touch"} => check.member,
             check.at = "touch" => check.scopes \subseteq check.held
      PROVE  KeysIInv'
  <2>1. \A k \in Checks : checks'[k] = IF k = c THEN check ELSE checks[k]
    BY <1>3 DEF KeysIInv, KeysTypeOK
  <2>2. checks' \in [Checks -> KeyCheck]
    BY <1>3 DEF KeysIInv, KeysTypeOK
  <2>3. (\A k \in Checks : Watching(k) /\ Found(k))'
    BY <1>1, <1>2, <1>3, <2>1 DEF KeysIInv, Watching, Found
  <2> QED
    BY <1>1, <2>2, <2>3 DEF KeysIInv, KeysTypeOK, IInv, AnswersWereHeld, ScopesWereHeld
<1>4. CASE checks' = [checks EXCEPT ![c] = NoCheck]
  BY <1>3, <1>4, NoCheckType
<1>5. ASSUME NEW k \in Keys, StartCheck(c, k)
      PROVE  KeysIInv'
  <2> DEFINE scope == <<api_keys[k].tenant_id, api_keys[k].project_id>>
             old == [NoCheck EXCEPT !.at = "user", !.scopes = api_keys[k].scopes, !.scope = scope]
             new == Watched(old, status = "active", memberships, Holding)
  <2>1. scope \in Scope /\ api_keys[k].scopes \subseteq Permissions
    BY <1>5 DEF StartCheck, KeysIInv, KeysTypeOK, KeyRow, Scope
  <2>2. Holding \in [Scope -> SUBSET Permissions] /\ Holding[scope] = Held(scope)
    BY <2>1, HeldType DEF Holding, KeysIInv, IInv
  <2>3. old \in KeyCheck /\ old.at = "user" /\ old.scope = scope
    BY <2>1 DEF NoCheck, KeyCheck
  <2>4. checks' = [checks EXCEPT ![c] = new]
    BY <1>5 DEF StartCheck
  <2> HIDE DEF scope, old
  <2>5. /\ new \in KeyCheck
        /\ new.at = "user" /\ new.scope = scope
        /\ status = "active" => new.active
        /\ scope[1] \in memberships => new.member
        /\ Held(scope) \subseteq new.held
    BY <2>1, <2>2, <2>3, NoCheckType DEF Watched, KeyCheck
  <2> HIDE DEF new
  <2> QED
    BY <1>3, <2>1, <2>4, <2>5
<1>6. ASSUME NEW at \in {"member", "load"}, checks[c] # NoCheck,
             checks' = [checks EXCEPT ![c] = [checks[c] EXCEPT !.at = at]],
             \/ at = "member" /\ checks[c].at = "user" /\ status = "active"
             \/ at = "load" /\ checks[c].at = "member" /\ checks[c].scope[1] \in memberships
      PROVE  KeysIInv'
  <2> DEFINE check == [checks[c] EXCEPT !.at = at]
  <2>1. checks[c] \in KeyCheck /\ Watching(c) /\ Found(c)
    BY DEF KeysIInv, KeysTypeOK
  <2>2. check \in KeyCheck /\ check.at = at /\ check.scope = checks[c].scope
        /\ check.active = checks[c].active /\ check.member = checks[c].member
        /\ check.held = checks[c].held
    BY <2>1 DEF KeyCheck
  <2> HIDE DEF check
  <2> QED
    BY <1>3, <1>6, <2>1, <2>2 DEF check, Watching, Found
<1>7. CASE Intersect(c)
  <2> DEFINE check == [checks[c] EXCEPT !.at = "touch", !.scopes = @ \cap Held(checks[c].scope)]
  <2>1. checks[c] \in KeyCheck /\ Watching(c) /\ Found(c) /\ checks[c].at = "load"
    BY <1>7 DEF KeysIInv, KeysTypeOK, Intersect
  <2>2. check \in KeyCheck /\ check.at = "touch" /\ check.scope = checks[c].scope
        /\ check.active = checks[c].active /\ check.member = checks[c].member
        /\ check.held = checks[c].held /\ check.scopes \subseteq Held(checks[c].scope)
    BY <2>1 DEF KeyCheck
  <2>3. checks' = [checks EXCEPT ![c] = check]
    BY <1>7 DEF Intersect
  <2>4. checks[c] # NoCheck
    BY <2>1, NoCheckType
  <2> HIDE DEF check
  <2> QED
    BY <1>3, <2>1, <2>2, <2>3, <2>4 DEF Watching, Found
<1>8. CASE get_user_by_id(c) \/ CheckMember(c)
  BY <1>4, <1>6, <1>8, NoCheckType DEF get_user_by_id, CheckMember, Pass
<1> QED
  BY <1>4, <1>5, <1>7, <1>8 DEF CheckStep, Finish

\* The inductive invariant of the keys holds in every state.
THEOREM KeysInvariance == KeysSpec => []KeysIInv
<1>1. KeysInit => KeysIInv
  BY InitEstablishes, NoCheckType DEF KeysInit, KeysIInv, KeysTypeOK, IInv, Watching, Found,
     AnswersWereHeld, ScopesWereHeld
<1>2. ASSUME KeysIInv, [KeysNext]_keys_vars
      PROVE  KeysIInv'
  <2>1. IInv'
    BY <1>2, KeysStepIsStep, StepPreserves DEF KeysIInv
  <2>2. CASE UNCHANGED keys_vars
    <3>1. \A s \in Scope : Held(s)' = Held(s)
      BY <2>2, HeldStaysWithout DEF keys_vars
    <3>2. (\A c \in Checks : Watching(c) /\ Found(c))'
      BY <1>2, <2>2, <3>1 DEF keys_vars, vars, database, KeysIInv, Watching, Found
    <3>3. KeysTypeOK' /\ AnswersWereHeld' /\ ScopesWereHeld'
      BY <1>2, <2>1, <2>2 DEF keys_vars, vars, history, KeysIInv, KeysTypeOK, IInv,
         AnswersWereHeld, ScopesWereHeld
    <3> QED
      BY <2>1, <3>2, <3>3 DEF KeysIInv
  <2> QED
    BY <1>2, <2>1, <2>2, AccessStepPreserves, KeyStepPreserves, CheckStepPreserves DEF
       KeysNext
<1> QED
  BY <1>1, <1>2, PTL DEF KeysSpec

\* create_api_key never makes a key with a scope its owner did not once hold in
\* the tenant and project of the key.
THEOREM ScopesTheorem == KeysSpec => []ScopesWereHeld
<1>1. KeysIInv => ScopesWereHeld
  BY DEF KeysIInv
<1> QED
  BY <1>1, KeysInvariance, PTL

\* What validate_api_key answers its owner held in the key's scope since the
\* check began, and was active and a member then.
THEOREM KeyTheorem == KeysSpec => []KeyNeverStale
<1>1. KeysIInv => KeyNeverStale
  BY DEF KeysIInv, Found, KeyNeverStale
<1> QED
  BY <1>1, KeysInvariance, PTL

=============================================================================
