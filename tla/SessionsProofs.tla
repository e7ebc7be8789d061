--------------------------- MODULE SessionsProofs ---------------------------
(***************************************************************************)
(* Safety of the refresh-token table for any number of users, tenants,     *)
(* tokens and concurrent requests.                                         *)
(***************************************************************************)
EXTENDS Sessions, TLAPS

-----------------------------------------------------------------------------
(***************************************************************************)
(* The inductive invariant.  Its parts about rows are what the properties  *)
(* say; the parts about requests say what a handler's copy of a row still  *)
(* has in common with the row when the handler acts on it.                 *)
(***************************************************************************)

\* Rows, parents and wiped tokens were all issued: Mint's token is new to them.
Issued ==
  /\ \A t \in Tokens : Exists(t) => minted[t] # NULL
  /\ \A t \in Tokens : (minted[t] # NULL /\ minted[t].parent # NULL)
                          => minted[minted[t].parent] # NULL
  /\ \A t \in wiped : minted[t] # NULL

\* Nothing was revoked, and nothing read, after the present time.
Past ==
  /\ \A t \in Tokens : (Exists(t) /\ ~Live(t)) => refresh_tokens[t].revoked_at <= now
  /\ \A t \in Tokens : minted[t] # NULL => minted[t].read_at <= now

\* A request's copy of the presented row still names that row's scope.
CopyKeepsScope(q) ==
  (q.presented # NULL /\ Exists(q.presented)) =>
    /\ q.user = refresh_tokens[q.presented].user_id
    /\ q.tenant = refresh_tokens[q.presented].tenant_id
    /\ q.project = refresh_tokens[q.presented].project_id

\* When a request that is about to mint read the presented row, the row was
\* live, or rotated less than Grace ago.
CopyWasUsable(q) ==
  (q.presented # NULL /\ Exists(q.presented) /\ q.pc \in {"lookup", "mint"}) =>
    WasUsable(q.presented, q.rotates, q.read_at)

\* A request about to rotate has inserted the successor.
SuccessorReady(q) ==
  q.pc = "rotate" =>
    /\ q.presented # NULL
    /\ q.successor # NULL
    /\ q.successor # q.presented
    /\ minted[q.successor] # NULL
    /\ Exists(q.presented) =>
         /\ Exists(q.successor)
         /\ SameScope(refresh_tokens[q.presented], refresh_tokens[q.successor])

RequestOK(q) ==
  /\ q.pc # "idle" => q.user # NULL
  /\ q.pc \in {"lookup", "mint", "rotate"} => q.tenant # NULL
  /\ q.pc = "pick" => q.presented = NULL /\ q.project = NULL
  /\ q.project # NULL => ProjectTenant[q.project] = q.tenant
  /\ q.read_at <= now
  /\ q.presented # NULL => minted[q.presented] # NULL
  /\ q.rotates => q.presented # NULL
  /\ CopyKeepsScope(q)
  /\ CopyWasUsable(q)
  /\ SuccessorReady(q)

TokensOK ==
  /\ Issued
  /\ Past
  /\ SuccessorSound
  /\ LineageKeepsScope
  /\ NoLateMint
  /\ WipeIsFinal
  /\ ScopeSound

RequestsOK == \A r \in Requests : RequestOK(req[r])

IInv == TypeOK /\ TokensOK /\ RequestsOK

-----------------------------------------------------------------------------
(***************************************************************************)
(* Steps that only move one request: the tables, the clock and the history *)
(* stay, and the request's new record satisfies RequestOK.                 *)
(***************************************************************************)
LEMMA RequestMoves ==
  ASSUME IInv,
         NEW r \in Requests, NEW q \in Request,
         req' = [req EXCEPT ![r] = q],
         RequestOK(q),
         UNCHANGED <<users, memberships, refresh_tokens, now, minted, wiped>>
  PROVE  IInv'
<1>1. TypeOK'
  BY DEF IInv, TypeOK
<1>2. TokensOK'
  BY DEF IInv, TokensOK, Issued, Past, SuccessorSound, LineageKeepsScope, NoLateMint, WasUsable,
         WipeIsFinal, ScopeSound, Exists, Live, SameScope
<1>3. ASSUME NEW i \in Requests PROVE RequestOK(req[i])'
  <2>1. req'[i] = IF i = r THEN q ELSE req[i]
    BY DEF IInv, TypeOK
  <2>2. RequestOK(req'[i])
    BY <2>1 DEF IInv, RequestsOK
  <2> QED
    BY <2>2 DEF RequestOK, CopyKeepsScope, CopyWasUsable, WasUsable, SuccessorReady, Exists,
                Live,
                SameScope
<1> QED
  BY <1>1, <1>2, <1>3 DEF IInv, RequestsOK

\* A request that presents no token, has a user and a sound scope.
LEMMA FreshRequest ==
  ASSUME IInv, NEW q \in Request,
         q.user # NULL, q.presented = NULL, q.rotates = FALSE, q.read_at = 0,
         q.pc \in {"pick", "lookup", "mint", "wipe"},
         q.pc \in {"lookup", "mint"} => q.tenant # NULL,
         q.pc = "pick" => q.project = NULL,
         q.project # NULL => ProjectTenant[q.project] = q.tenant
  PROVE  RequestOK(q)
BY DEF IInv, TypeOK, RequestOK, CopyKeepsScope, CopyWasUsable, WasUsable, SuccessorReady

\* An idle slot satisfies its part of the invariant.
LEMMA IdleIsOK ==
  ASSUME IInv
  PROVE  Idle \in Request /\ RequestOK(Idle)
BY ConstantsAssumption
   DEF IInv, TypeOK, Idle, Request, RequestOK, CopyKeepsScope, CopyWasUsable, WasUsable,
       SuccessorReady

\* login and login_totp, past their checks, keep the invariant.
LEMMA LoginPreserves ==
  ASSUME IInv, NEW r \in Requests, NEW u \in Users, Login(r, u)
  PROVE  IInv'
<1> DEFINE q == [Idle EXCEPT !.pc = "pick", !.user = u]
<1>1. q \in Request
  BY DEF Idle, Request
<1>2. RequestOK(q)
  BY <1>1, FreshRequest, ConstantsAssumption DEF Idle
<1> QED
  BY <1>1, <1>2, RequestMoves DEF Login, Begin

\* change_password and reset_password up to the wipe keep the invariant.
LEMMA ChangePasswordPreserves ==
  ASSUME IInv, NEW r \in Requests, NEW u \in Users, ChangePassword(r, u)
  PROVE  IInv'
<1> DEFINE q == [Idle EXCEPT !.pc = "wipe", !.user = u]
<1>1. q \in Request
  BY DEF Idle, Request
<1>2. RequestOK(q)
  BY <1>1, FreshRequest, ConstantsAssumption DEF Idle
<1> QED
  BY <1>1, <1>2, RequestMoves DEF ChangePassword, Begin

\* switch_tenant keeps it: it has asked is_project_in_tenant.
LEMMA SwitchTenantPreserves ==
  ASSUME IInv, NEW r \in Requests, NEW u \in Users, NEW t \in Tenants,
         NEW p \in Projects \cup {NULL}, SwitchTenant(r, u, t, p)
  PROVE  IInv'
<1> DEFINE q == [Idle EXCEPT !.pc = "lookup", !.user = u, !.tenant = t, !.project = p]
<1>1. q \in Request
  BY DEF Idle, Request
<1>2. RequestOK(q)
  BY <1>1, FreshRequest, ConstantsAssumption DEF Idle, SwitchTenant
<1> QED
  BY <1>1, <1>2, RequestMoves DEF SwitchTenant, Begin

\* exchange_authorization_code up to issue_tokens keeps the invariant.
LEMMA ExchangePreserves ==
  ASSUME IInv, NEW r \in Requests, NEW u \in Users, NEW t \in Tenants,
         ExchangeAuthorizationCode(r, u, t)
  PROVE  IInv'
<1> DEFINE q == [Idle EXCEPT !.pc = "mint", !.user = u, !.tenant = t]
<1>1. q \in Request
  BY DEF Idle, Request
<1>2. RequestOK(q)
  BY <1>1, FreshRequest, ConstantsAssumption DEF Idle
<1> QED
  BY <1>1, <1>2, RequestMoves DEF ExchangeAuthorizationCode, Begin

\* issue_for_active_tenant picks a tenant and no project.
LEMMA PickTenantPreserves ==
  ASSUME IInv, NEW r \in Requests, PickTenant(r)
  PROVE  IInv'
<1>1. PICK t \in Tenants : req' = [req EXCEPT ![r].pc = "mint", ![r].tenant = t]
  BY DEF PickTenant
<1> DEFINE q == [req[r] EXCEPT !.pc = "mint", !.tenant = t]
<1>2. req[r] \in Request /\ RequestOK(req[r]) /\ req[r].pc = "pick"
  BY DEF IInv, TypeOK, RequestsOK, PickTenant
<1>3. q \in Request /\ req' = [req EXCEPT ![r] = q]
  BY <1>1, <1>2 DEF Request, IInv, TypeOK
<1>4. RequestOK(q)
  BY <1>2, <1>3, ConstantsAssumption
     DEF Request, RequestOK, CopyKeepsScope, CopyWasUsable, WasUsable, SuccessorReady
<1> QED
  BY <1>3, <1>4, RequestMoves DEF PickTenant

\* get_user_by_id changes nothing a later step relies on.
LEMMA LookupUserPreserves ==
  ASSUME IInv, NEW r \in Requests, LookupUser(r)
  PROVE  IInv'
<1> DEFINE q == [req[r] EXCEPT !.pc = "mint"]
<1>1. req[r] \in Request /\ RequestOK(req[r]) /\ req[r].pc = "lookup"
  BY DEF IInv, TypeOK, RequestsOK, LookupUser
<1>2. q \in Request /\ req' = [req EXCEPT ![r] = q]
  BY <1>1 DEF Request, LookupUser, IInv, TypeOK
<1>3. RequestOK(q)
  BY <1>1, <1>2 DEF Request, RequestOK, CopyKeepsScope, CopyWasUsable, WasUsable, SuccessorReady
<1> QED
  BY <1>2, <1>3, RequestMoves DEF LookupUser

\* A handler that stops, at any query, leaves the invariant true.
LEMMA AbortPreserves ==
  ASSUME IInv, NEW r \in Requests, Abort(r)
  PROVE  IInv'
BY IdleIsOK, RequestMoves DEF Abort

\* refresh reads a row and takes its scope and its state with it.
LEMMA RefreshPreserves ==
  ASSUME IInv, NEW r \in Requests, NEW t \in Tokens, Refresh(r, t)
  PROVE  IInv'
<1> DEFINE row  == refresh_tokens[t]
           live == row.revoked_at = NULL
           q == [pc |-> IF live \/ InGrace(row) THEN "lookup" ELSE "wipe",
                 user |-> row.user_id, tenant |-> row.tenant_id,
                 project |-> row.project_id, presented |-> t, rotates |-> live,
                 read_at |-> now, successor |-> NULL]
<1>1. row \in RefreshTokenRow /\ Exists(t) /\ t # NULL
  BY ConstantsAssumption DEF IInv, TypeOK, Refresh, Exists
<1>2. q \in Request
  BY <1>1 DEF IInv, TypeOK, Request, RefreshTokenRow
<1>3. /\ q.user # NULL /\ q.tenant # NULL
      /\ q.pc \in {"lookup", "wipe"}
      /\ q.project # NULL => ProjectTenant[q.project] = q.tenant
      /\ minted[t] # NULL
  BY <1>1, ConstantsAssumption
     DEF RefreshTokenRow, IInv, TokensOK, Issued, ScopeSound
<1>4. CopyWasUsable(q)
  <2>1. Live(t) <=> live
    BY <1>1 DEF Live
  <2>2. CASE live
    BY <2>1, <2>2 DEF CopyWasUsable, WasUsable
  <2>3. CASE ~live /\ InGrace(row)
    <3>1. row.revoked_at \in Nat /\ row.revoked_at <= now /\ now \in Nat /\ Grace \in Nat
      BY <1>1, <2>1, <2>3, ConstantsAssumption DEF RefreshTokenRow, IInv, TypeOK, TokensOK, Past
    <3>2. now < row.revoked_at + Grace
      BY <3>1, <2>3 DEF InGrace
    <3> QED
      BY <2>1, <2>3, <3>2 DEF CopyWasUsable, WasUsable, InGrace
  <2>4. CASE ~live /\ ~InGrace(row)
    BY <2>4 DEF CopyWasUsable
  <2> QED
    BY <2>2, <2>3, <2>4
<1>5. RequestOK(q)
  BY <1>1, <1>3, <1>4 DEF RequestOK, CopyKeepsScope, SuccessorReady, IInv, TypeOK
<1> QED
  BY <1>2, <1>5, RequestMoves DEF Refresh, Begin

-----------------------------------------------------------------------------
(***************************************************************************)
(* Steps that revoke rows.  Each row stays, or is live and becomes revoked *)
(* now, with no successor or with a sound one.                             *)
(***************************************************************************)
Revoked(row, s) == [row EXCEPT !.revoked_at = now, !.replaced_by = s]

RowStaysOrIsRevoked(t) ==
  \/ refresh_tokens'[t] = refresh_tokens[t]
  \/ /\ Live(t)
     /\ \E s \in Tokens \cup {NULL} :
          /\ refresh_tokens'[t] = Revoked(refresh_tokens[t], s)
          /\ s # NULL => /\ s # t
                         /\ Exists(s)
                         /\ SameScope(refresh_tokens[t], refresh_tokens[s])

\* Revoking a row changes only revoked_at and replaced_by.
LEMMA RevokedFields ==
  ASSUME NEW row \in RefreshTokenRow, NEW s \in Tokens \cup {NULL}, now \in Nat
  PROVE  /\ Revoked(row, s) \in RefreshTokenRow
         /\ SameScope(Revoked(row, s), row)
         /\ Revoked(row, s).revoked_at = now
         /\ Revoked(row, s).replaced_by = s
BY DEF Revoked, RefreshTokenRow, SameScope

\* What such a step leaves of each row.
LEMMA RowAfterRevocation ==
  ASSUME IInv, NEW t \in Tokens, RowStaysOrIsRevoked(t)
  PROVE  /\ refresh_tokens'[t] \in RefreshTokenRow \cup {NULL}
         /\ Exists(t)' <=> Exists(t)
         /\ Exists(t) => SameScope(refresh_tokens'[t], refresh_tokens[t])
         /\ Live(t)' => Live(t)
         /\ (Exists(t) /\ ~Live(t)) => refresh_tokens'[t] = refresh_tokens[t]
         /\ (Live(t) /\ ~Live(t)') =>
              /\ refresh_tokens'[t].revoked_at = now
              /\ refresh_tokens'[t].replaced_by # NULL =>
                   LET s == refresh_tokens'[t].replaced_by
                   IN  /\ s \in Tokens /\ s # t /\ Exists(s)
                       /\ SameScope(refresh_tokens[t], refresh_tokens[s])
         /\ (Live(t) /\ Live(t)') => refresh_tokens'[t] = refresh_tokens[t]
<1>1. refresh_tokens[t] \in RefreshTokenRow \cup {NULL} /\ now \in Nat
  BY DEF IInv, TypeOK
<1>2. CASE refresh_tokens'[t] = refresh_tokens[t]
  BY <1>1, <1>2 DEF Exists, Live, SameScope
<1>3. CASE refresh_tokens'[t] # refresh_tokens[t]
  <2>1. PICK s \in Tokens \cup {NULL} :
          /\ Live(t)
          /\ refresh_tokens'[t] = Revoked(refresh_tokens[t], s)
          /\ s # NULL => /\ s # t /\ Exists(s)
                         /\ SameScope(refresh_tokens[t], refresh_tokens[s])
    BY <1>3 DEF RowStaysOrIsRevoked
  <2>2. refresh_tokens[t] \in RefreshTokenRow
    BY <1>1, <2>1 DEF Live, Exists
  <2>3. /\ refresh_tokens'[t] \in RefreshTokenRow
        /\ SameScope(refresh_tokens'[t], refresh_tokens[t])
        /\ refresh_tokens'[t].revoked_at = now
        /\ refresh_tokens'[t].replaced_by = s
    BY <1>1, <2>1, <2>2, RevokedFields
  <2>4. refresh_tokens'[t] # NULL /\ now # NULL
    BY <1>1, <2>3, NullIsNoRow, ConstantsAssumption
  <2>5. Exists(t)' /\ ~Live(t)' /\ Exists(t)
    BY <2>1, <2>3, <2>4 DEF Exists, Live
  <2> QED
    BY <2>1, <2>3, <2>5
<1> QED
  BY <1>2, <1>3

\* What was usable when it was read still counts as such: a row revoked now was
\* read before.
LEMMA RevocationKeepsUsable ==
  ASSUME IInv, NEW t \in Tokens, RowStaysOrIsRevoked(t), now' = now,
         Exists(t), NEW live, NEW read_at \in Nat, read_at <= now,
         WasUsable(t, live, read_at)
  PROVE  WasUsable(t, live, read_at)'
<1>1. CASE Live(t) /\ ~Live(t)'
  <2>1. live /\ refresh_tokens'[t].revoked_at = now
    BY <1>1, RowAfterRevocation DEF WasUsable
  <2> QED
    BY <2>1 DEF WasUsable
<1>2. CASE refresh_tokens'[t] = refresh_tokens[t]
  BY <1>2 DEF WasUsable, Live, Exists
<1> QED
  BY <1>1, <1>2, RowAfterRevocation

\* Revoking any set of live rows keeps what is said of the rows.
LEMMA RevocationKeepsTokensOK ==
  ASSUME IInv,
         \A t \in Tokens : RowStaysOrIsRevoked(t),
         \A t \in wiped' \ wiped : t \in Tokens /\ Exists(t) /\ ~Live(t)',
         UNCHANGED <<now, minted>>
  PROVE  TokensOK'
<1> USE RowAfterRevocation
<1>0. now \in Nat /\ Grace \in Nat \ {0} /\ wiped \subseteq Tokens
  BY ConstantsAssumption DEF IInv, TypeOK
<1>1. Issued'
  BY DEF IInv, TokensOK, Issued
<1>2. Past'
  <2>1. ASSUME NEW t \in Tokens, Exists(t)', ~Live(t)'
        PROVE  refresh_tokens'[t].revoked_at <= now
    <3>1. CASE Live(t)
      BY <1>0, <2>1, <3>1
    <3>2. CASE ~Live(t)
      BY <2>1, <3>2 DEF IInv, TokensOK, Past
    <3> QED
      BY <3>1, <3>2
  <2> QED
    BY <2>1 DEF IInv, TokensOK, Past
<1>3. SuccessorSound'
  <2> SUFFICES ASSUME NEW t \in Tokens, Exists(t)', refresh_tokens'[t].replaced_by # NULL
               PROVE  /\ ~Live(t)'
                      /\ Exists(refresh_tokens[t].replaced_by)'
                      /\ refresh_tokens'[t].replaced_by # t
                      /\ SameScope(refresh_tokens[t], refresh_tokens[refresh_tokens[t].replaced_by])'
    BY DEF SuccessorSound
  <2>0. PICK s \in Tokens : s = refresh_tokens'[t].replaced_by
    BY DEF RefreshTokenRow, Exists
  <2>1. ~Live(t)' /\ s # t /\ Exists(s) /\ SameScope(refresh_tokens[t], refresh_tokens[s])
    <3>1. CASE refresh_tokens'[t] = refresh_tokens[t]
      BY <2>0, <3>1 DEF IInv, TokensOK, SuccessorSound, Exists, Live
    <3>2. CASE refresh_tokens'[t] # refresh_tokens[t]
      BY <2>0, <3>2
    <3> QED
      BY <3>1, <3>2
  <2>2. Exists(s)' /\ SameScope(refresh_tokens'[s], refresh_tokens[s])
          /\ SameScope(refresh_tokens'[t], refresh_tokens[t])
    BY <2>1
  <2>3. SameScope(refresh_tokens'[t], refresh_tokens'[s])
    BY <2>1, <2>2 DEF SameScope
  <2> QED
    BY <2>0, <2>1, <2>2, <2>3 DEF Exists, SameScope
<1>4. LineageKeepsScope'
  <2> SUFFICES ASSUME NEW t \in Tokens, Exists(t)', minted[t].parent # NULL,
                      Exists(minted[t].parent)'
               PROVE  SameScope(refresh_tokens[t], refresh_tokens[minted[t].parent])'
    BY DEF LineageKeepsScope, Exists
  <2> DEFINE p == minted[t].parent
  <2>1. Exists(t) /\ p \in Tokens
    BY DEF IInv, TypeOK, TokensOK, Issued, Origin
  <2>2. Exists(p)
    BY <2>1 DEF Exists
  <2>3. SameScope(refresh_tokens[t], refresh_tokens[p])
    BY <2>1, <2>2 DEF IInv, TokensOK, LineageKeepsScope
  <2>4. SameScope(refresh_tokens'[t], refresh_tokens[t])
          /\ SameScope(refresh_tokens'[p], refresh_tokens[p])
    BY <2>1, <2>2
  <2>5. SameScope(refresh_tokens'[t], refresh_tokens'[p])
    BY <2>3, <2>4 DEF SameScope
  <2> QED
    BY <2>5 DEF SameScope
<1>5. NoLateMint'
  <2> SUFFICES ASSUME NEW t \in Tokens, minted[t] # NULL, minted[t].parent # NULL,
                      Exists(minted[t].parent)'
               PROVE  WasUsable(minted[t].parent, minted[t].live, minted[t].read_at)'
    BY DEF NoLateMint, Exists
  <2> DEFINE p == minted[t].parent
  <2>1. p \in Tokens /\ minted[t].read_at \in Nat /\ minted[t].read_at <= now
    BY DEF IInv, TypeOK, TokensOK, Past, Origin
  <2>2. Exists(p)
    BY <2>1 DEF Exists
  <2>3. WasUsable(p, minted[t].live, minted[t].read_at)
    BY <2>1, <2>2 DEF IInv, TokensOK, NoLateMint
  <2> QED
    BY <1>0, <2>1, <2>2, <2>3, RevocationKeepsUsable
<1>6. WipeIsFinal'
  BY <1>0 DEF IInv, TokensOK, WipeIsFinal
<1>7. ScopeSound'
  BY DEF IInv, TokensOK, ScopeSound, SameScope
<1> QED
  BY <1>1, <1>2, <1>3, <1>4, <1>5, <1>6, <1>7 DEF TokensOK

\* Such a step leaves every request as sound as it was.
LEMMA RevocationKeepsRequestOK ==
  ASSUME IInv, NEW q \in Request, RequestOK(q),
         \A t \in Tokens : RowStaysOrIsRevoked(t),
         UNCHANGED <<now, minted>>
  PROVE  RequestOK(q)'
<1> USE RowAfterRevocation
<1>0. q.presented \in Tokens \cup {NULL} /\ q.successor \in Tokens \cup {NULL}
        /\ q.read_at \in Nat /\ now \in Nat /\ q.read_at <= now
  BY DEF Request, RequestOK, IInv, TypeOK
<1>1. CopyKeepsScope(q)'
  BY <1>0 DEF RequestOK, CopyKeepsScope, SameScope
<1>2. CopyWasUsable(q)'
  <2> SUFFICES ASSUME q.presented # NULL, Exists(q.presented)', q.pc \in {"lookup", "mint"}
               PROVE  CopyWasUsable(q)'
    BY DEF CopyWasUsable, WasUsable, Exists
  <2>1. q.presented \in Tokens /\ Exists(q.presented)
    BY <1>0
  <2>2. WasUsable(q.presented, q.rotates, q.read_at)
    BY <2>1 DEF RequestOK, CopyWasUsable
  <2>3. WasUsable(q.presented, q.rotates, q.read_at)'
    BY <1>0, <2>1, <2>2, RevocationKeepsUsable
  <2> QED
    BY <2>3 DEF CopyWasUsable
<1>3. SuccessorReady(q)'
  <2> SUFFICES ASSUME q.pc = "rotate" PROVE SuccessorReady(q)'
    BY DEF SuccessorReady
  <2>1. q.presented \in Tokens /\ q.successor \in Tokens
    BY <1>0 DEF RequestOK, SuccessorReady
  <2> QED
    BY <2>1 DEF RequestOK, SuccessorReady, SameScope, Exists
<1> QED
  BY <1>1, <1>2, <1>3 DEF RequestOK

\* Revoking rows while requests only finish keeps the invariant.
LEMMA RevocationPreserves ==
  ASSUME IInv,
         \A t \in Tokens : RowStaysOrIsRevoked(t),
         \A t \in wiped' \ wiped : t \in Tokens /\ Exists(t) /\ ~Live(t)',
         refresh_tokens' = [t \in Tokens |-> refresh_tokens'[t]],
         users' \in [Users -> {"active", "deleted", "gone"}],
         req' \in [Requests -> Request],
         \A r \in Requests : req'[r] = req[r] \/ req'[r] = Idle,
         UNCHANGED <<memberships, now, minted>>
  PROVE  IInv'
<1>1. TypeOK'
  BY RowAfterRevocation DEF IInv, TypeOK
<1>2. TokensOK'
  BY RevocationKeepsTokensOK
<1>3. ASSUME NEW r \in Requests PROVE RequestOK(req[r])'
  <2>1. PICK q \in Request : q = req'[r]
    OBVIOUS
  <2>2. RequestOK(q)
    BY <2>1, IdleIsOK DEF IInv, RequestsOK
  <2>3. RequestOK(q)'
    BY <2>2, RevocationKeepsRequestOK
  <2> QED
    BY <2>1, <2>3
<1> QED
  BY <1>1, <1>2, <1>3 DEF IInv, RequestsOK

\* logout revokes one row and names no successor.
LEMMA LogoutPreserves ==
  ASSUME IInv, NEW t \in Tokens, Logout(t)
  PROVE  IInv'
<1> USE DEF Logout, revoke_refresh_token
<1>1. ASSUME NEW k \in Tokens PROVE RowStaysOrIsRevoked(k)
  <2>1. CASE k = t /\ Live(t)
    <3>1. refresh_tokens'[k] = [refresh_tokens[k] EXCEPT !.revoked_at = now]
      BY <2>1 DEF IInv, TypeOK
    <3>2. refresh_tokens[k] \in RefreshTokenRow /\ refresh_tokens[k].replaced_by = NULL
      BY <2>1 DEF IInv, TypeOK, TokensOK, SuccessorSound, Live, Exists
    <3>3. refresh_tokens'[k] = Revoked(refresh_tokens[k], NULL)
      BY <3>1, <3>2 DEF Revoked, RefreshTokenRow
    <3> QED
      BY <2>1, <3>3 DEF RowStaysOrIsRevoked
  <2>2. CASE ~(k = t /\ Live(t))
    BY <2>2 DEF RowStaysOrIsRevoked, IInv, TypeOK
  <2> QED
    BY <2>1, <2>2
<1> QED
  BY <1>1, RevocationPreserves DEF IInv, TypeOK

\* rotate_refresh_token names a successor that was inserted before.
LEMMA RotatePreserves ==
  ASSUME IInv, NEW r \in Requests, Rotate(r)
  PROVE  IInv'
<1> DEFINE t == req[r].presented
           s == req[r].successor
<1>1. /\ t \in Tokens /\ s \in Tokens /\ s # t
      /\ Exists(t) => Exists(s) /\ SameScope(refresh_tokens[t], refresh_tokens[s])
  BY DEF Rotate, IInv, TypeOK, Request, RequestsOK, RequestOK, SuccessorReady
<1>2. ASSUME NEW k \in Tokens PROVE RowStaysOrIsRevoked(k)
  <2>1. CASE k = t /\ Live(t)
    <3>1. refresh_tokens'[k] = Revoked(refresh_tokens[k], s)
      BY <2>1 DEF IInv, TypeOK, Rotate, rotate_refresh_token, Revoked
    <3>2. Exists(s) /\ SameScope(refresh_tokens[t], refresh_tokens[s])
      BY <1>1, <2>1 DEF Live
    <3> QED
      BY <1>1, <2>1, <3>1, <3>2 DEF RowStaysOrIsRevoked
  <2>2. CASE ~(k = t /\ Live(t))
    BY <2>2 DEF RowStaysOrIsRevoked, IInv, TypeOK, Rotate, rotate_refresh_token
  <2> QED
    BY <2>1, <2>2
<1>3. /\ req' \in [Requests -> Request]
      /\ \A i \in Requests : req'[i] = req[i] \/ req'[i] = Idle
  BY IdleIsOK DEF IInv, TypeOK, Rotate
<1>4. refresh_tokens' = [k \in Tokens |-> refresh_tokens'[k]]
  BY DEF IInv, TypeOK, Rotate, rotate_refresh_token
<1> QED
  BY <1>2, <1>3, <1>4, RevocationPreserves DEF Rotate, IInv, TypeOK

\* The UPDATE shared by reuse detection, the password handlers and deletion.
LEMMA WipeRevokes ==
  ASSUME IInv, NEW u \in Users, revoke_all_user_refresh_tokens(u)
  PROVE  /\ \A t \in Tokens : RowStaysOrIsRevoked(t)
         /\ \A t \in wiped' \ wiped : t \in Tokens /\ Exists(t) /\ ~Live(t)'
         /\ refresh_tokens' = [t \in Tokens |-> refresh_tokens'[t]]
<1> USE DEF revoke_all_user_refresh_tokens
<1>1. ASSUME NEW k \in Tokens, Live(k), refresh_tokens[k].user_id = u
      PROVE  refresh_tokens'[k] = Revoked(refresh_tokens[k], NULL)
  <2>1. refresh_tokens'[k] = [refresh_tokens[k] EXCEPT !.revoked_at = now]
    BY <1>1 DEF IInv, TypeOK
  <2>2. refresh_tokens[k] \in RefreshTokenRow /\ refresh_tokens[k].replaced_by = NULL
    BY <1>1 DEF IInv, TypeOK, TokensOK, SuccessorSound, Live, Exists
  <2> QED
    BY <2>1, <2>2 DEF Revoked, RefreshTokenRow
<1>2. ASSUME NEW k \in Tokens PROVE RowStaysOrIsRevoked(k)
  <2>1. CASE Live(k) /\ refresh_tokens[k].user_id = u
    BY <1>1, <2>1 DEF RowStaysOrIsRevoked
  <2>2. CASE ~(Live(k) /\ refresh_tokens[k].user_id = u)
    BY <2>2 DEF RowStaysOrIsRevoked
  <2> QED
    BY <2>1, <2>2
<1>3. ASSUME NEW k \in wiped' \ wiped PROVE k \in Tokens /\ Exists(k) /\ ~Live(k)'
  <2>1. k \in Tokens /\ Exists(k) /\ refresh_tokens[k].user_id = u
    BY <1>3
  <2>2. CASE Live(k)
    <3>1. refresh_tokens[k] \in RefreshTokenRow /\ now \in Nat /\ now # NULL
      BY <2>2, ConstantsAssumption DEF IInv, TypeOK, Live, Exists
    <3>2. refresh_tokens'[k].revoked_at = now
      BY <1>1, <2>1, <2>2, <3>1, RevokedFields
    <3> QED
      BY <2>1, <3>1, <3>2 DEF Live
  <2>3. CASE ~Live(k)
    BY <1>2, <2>1, <2>3, RowAfterRevocation
  <2> QED
    BY <2>1, <2>2, <2>3
<1> QED
  BY <1>2, <1>3

\* The wipe after reuse detection or a new password keeps the invariant.
LEMMA WipePreserves ==
  ASSUME IInv, NEW r \in Requests, Wipe(r)
  PROVE  IInv'
<1>1. req[r].user \in Users
  BY DEF Wipe, IInv, TypeOK, Request, RequestsOK, RequestOK
<1>2. /\ req' \in [Requests -> Request]
      /\ \A i \in Requests : req'[i] = req[i] \/ req'[i] = Idle
  BY IdleIsOK DEF IInv, TypeOK, Wipe
<1> QED
  BY <1>1, <1>2, WipeRevokes, RevocationPreserves DEF Wipe, IInv, TypeOK

\* delete_user_event_soft (hard = false) keeps the invariant.
LEMMA SoftDeletePreserves ==
  ASSUME IInv, NEW u \in Users, SoftDelete(u)
  PROVE  IInv'
<1>1. /\ req' \in [Requests -> Request]
      /\ users' \in [Users -> {"active", "deleted", "gone"}]
      /\ \A i \in Requests : req'[i] = req[i] \/ req'[i] = Idle
  BY DEF IInv, TypeOK, SoftDelete
<1> QED
  BY <1>1, WipeRevokes, RevocationPreserves DEF SoftDelete

-----------------------------------------------------------------------------
(***************************************************************************)
(* Hard deletion: the rows of one user vanish, together.                   *)
(***************************************************************************)
\* delete_user with hard = true removes rows and their successors alike.
LEMMA HardDeletePreserves ==
  ASSUME IInv, NEW u \in Users, HardDelete(u)
  PROVE  IInv'
<1> DEFINE Dropped(t) == Exists(t) /\ refresh_tokens[t].user_id = u
<1>1. /\ \A t \in Tokens : refresh_tokens'[t] = IF Dropped(t) THEN NULL ELSE refresh_tokens[t]
      /\ UNCHANGED <<req, now, minted, wiped>>
  BY DEF HardDelete
<1>2. TypeOK'
  BY DEF IInv, TypeOK, HardDelete
<1> HIDE DEF Dropped
<1>3. \A t \in Tokens : /\ Exists(t)' => Exists(t) /\ refresh_tokens'[t] = refresh_tokens[t]
                        /\ Live(t)' => Live(t)
  BY <1>1 DEF Exists, Live
<1>4. \A s, t \in Tokens :
        (Exists(t)' /\ Exists(s) /\ SameScope(refresh_tokens[t], refresh_tokens[s]))
          => Exists(s)' /\ refresh_tokens'[s] = refresh_tokens[s]
  BY <1>1 DEF Exists, SameScope, Dropped
<1>5. TokensOK'
  <2>1. Issued' /\ Past' /\ WipeIsFinal' /\ ScopeSound'
    BY <1>1, <1>3
       DEF IInv, TypeOK, TokensOK, Issued, Past, WipeIsFinal, ScopeSound, Exists, Live
  <2>2. SuccessorSound'
    <3> SUFFICES ASSUME NEW t \in Tokens, Exists(t)', refresh_tokens'[t].replaced_by # NULL
                 PROVE  /\ ~Live(t)'
                        /\ Exists(refresh_tokens[t].replaced_by)'
                        /\ refresh_tokens'[t].replaced_by # t
                        /\ SameScope(refresh_tokens[t],
                                     refresh_tokens[refresh_tokens[t].replaced_by])'
      BY DEF SuccessorSound
    <3>1. Exists(t) /\ refresh_tokens'[t] = refresh_tokens[t]
      BY <1>3
    <3>2. refresh_tokens[t].replaced_by \in Tokens
      BY <3>1 DEF IInv, TypeOK, Exists, RefreshTokenRow
    <3> DEFINE s == refresh_tokens[t].replaced_by
    <3>3. ~Live(t) /\ Exists(s) /\ s # t /\ SameScope(refresh_tokens[t], refresh_tokens[s])
      BY <3>1 DEF IInv, TokensOK, SuccessorSound
    <3>4. Exists(s)' /\ refresh_tokens'[s] = refresh_tokens[s]
      <4>1. refresh_tokens'[s] = refresh_tokens[s] /\ refresh_tokens[s] # NULL
        BY <1>4, <3>2, <3>3 DEF Exists
      <4> QED
        BY <3>1, <4>1 DEF Exists
    <3> QED
      BY <1>3, <3>1, <3>3, <3>4 DEF SameScope, Exists, Live
  <2>3. LineageKeepsScope'
    <3> SUFFICES ASSUME NEW t \in Tokens, Exists(t)', minted'[t].parent # NULL,
                        Exists(minted[t].parent)'
                 PROVE  SameScope(refresh_tokens[t], refresh_tokens[minted[t].parent])'
      BY DEF LineageKeepsScope
    <3>1. Exists(t) /\ minted'[t] = minted[t] /\ minted[t].parent \in Tokens
      BY <1>1, <1>3 DEF IInv, TypeOK, TokensOK, Issued, Origin
    <3>2. PICK p \in Tokens : p = minted[t].parent
      BY <3>1
    <3>3. Exists(p)'
      BY <3>1, <3>2 DEF Exists
    <3>4. Exists(p) /\ refresh_tokens'[p] = refresh_tokens[p] /\ refresh_tokens'[t] = refresh_tokens[t]
      BY <1>3, <3>3
    <3>5. SameScope(refresh_tokens[t], refresh_tokens[p])
      BY <3>1, <3>2, <3>4 DEF IInv, TokensOK, LineageKeepsScope
    <3> QED
      BY <3>1, <3>2, <3>4, <3>5 DEF SameScope
  <2>4. NoLateMint'
    <3> SUFFICES ASSUME NEW t \in Tokens, minted'[t] # NULL, minted'[t].parent # NULL,
                        Exists(minted[t].parent)'
                 PROVE  WasUsable(minted[t].parent, minted[t].live, minted[t].read_at)'
      BY DEF NoLateMint
    <3>1. minted'[t] = minted[t] /\ minted[t].parent \in Tokens
      BY <1>1 DEF IInv, TypeOK, Origin
    <3>2. PICK p \in Tokens : p = minted[t].parent
      BY <3>1
    <3>3. Exists(p)'
      BY <3>1, <3>2 DEF Exists
    <3>4. Exists(p) /\ refresh_tokens'[p] = refresh_tokens[p]
      BY <1>3, <3>3
    <3>5. WasUsable(p, minted[t].live, minted[t].read_at)
      BY <3>1, <3>2, <3>4 DEF IInv, TokensOK, NoLateMint
    <3> QED
      BY <3>1, <3>2, <3>4, <3>5 DEF WasUsable, Live, Exists
  <2> QED
    BY <2>1, <2>2, <2>3, <2>4 DEF TokensOK
<1>6. ASSUME NEW r \in Requests PROVE RequestOK(req[r])'
  <2>1. PICK q \in Request : q = req[r]
    BY DEF IInv, TypeOK
  <2>2. RequestOK(q) /\ req'[r] = q
    BY <1>1, <2>1 DEF IInv, RequestsOK
  <2>3. CopyKeepsScope(q)' /\ CopyWasUsable(q)'
    BY <1>3, <2>2 DEF Request, RequestOK, CopyKeepsScope, CopyWasUsable, WasUsable, Exists, Live
  <2>4. SuccessorReady(q)'
    <3> SUFFICES ASSUME q.pc = "rotate" PROVE SuccessorReady(q)'
      BY DEF SuccessorReady
    <3>1. q.presented \in Tokens /\ q.successor \in Tokens /\ minted' = minted
      BY <1>1, <2>2 DEF Request, RequestOK, SuccessorReady
    <3> QED
      BY <1>3, <1>4, <2>2, <3>1 DEF RequestOK, SuccessorReady, SameScope
  <2>5. RequestOK(q)'
    BY <1>1, <2>2, <2>3, <2>4 DEF RequestOK
  <2> QED
    BY <2>2, <2>5 DEF RequestOK, CopyKeepsScope, CopyWasUsable, WasUsable, SuccessorReady,
                      Exists, Live,
                      SameScope
<1> QED
  BY <1>2, <1>5, <1>6 DEF IInv, RequestsOK

-----------------------------------------------------------------------------
(***************************************************************************)
(* The clock, and the tables the tokens do not depend on.                  *)
(***************************************************************************)
\* Time passes: what was read and revoked stays in the past.
LEMMA TickPreserves ==
  ASSUME IInv, Tick
  PROVE  IInv'
<1>1. now \in Nat /\ now' = now + 1
      /\ UNCHANGED <<users, memberships, refresh_tokens, req, minted, wiped>>
  BY DEF IInv, TypeOK, Tick
<1>2. TypeOK'
  BY <1>1 DEF IInv, TypeOK
<1>3. Past'
  BY <1>1 DEF IInv, TypeOK, TokensOK, Past, Exists, Live, RefreshTokenRow, Origin
<1>4. TokensOK'
  BY <1>1, <1>3 DEF IInv, TokensOK, Issued, SuccessorSound, LineageKeepsScope, NoLateMint,
                    WasUsable,
                    WipeIsFinal, ScopeSound, Exists, Live, SameScope
<1>5. ASSUME NEW r \in Requests PROVE RequestOK(req[r])'
  <2>1. RequestOK(req[r]) /\ req[r].read_at \in Nat
    BY DEF IInv, TypeOK, RequestsOK, Request
  <2>2. req[r].read_at <= now'
    BY <1>1, <2>1 DEF RequestOK
  <2> QED
    BY <1>1, <2>1, <2>2 DEF RequestOK, CopyKeepsScope, CopyWasUsable, WasUsable, SuccessorReady,
                            Exists,
                            Live, SameScope
<1> QED
  BY <1>2, <1>4, <1>5 DEF IInv, RequestsOK

\* Steps on users and memberships alone keep the invariant.
LEMMA AccountsChange ==
  ASSUME IInv,
         users' \in [Users -> {"active", "deleted", "gone"}],
         memberships' \subseteq Users \X Tenants,
         UNCHANGED <<refresh_tokens, req, now, minted, wiped>>
  PROVE  IInv'
<1>1. TypeOK'
  BY DEF IInv, TypeOK
<1>2. TokensOK'
  BY DEF IInv, TokensOK, Issued, Past, SuccessorSound, LineageKeepsScope, NoLateMint, WasUsable,
         WipeIsFinal, ScopeSound, Exists, Live, SameScope
<1>3. RequestsOK'
  BY DEF IInv, RequestsOK, RequestOK, CopyKeepsScope, CopyWasUsable, WasUsable, SuccessorReady,
         Exists,
         Live, SameScope
<1> QED
  BY <1>1, <1>2, <1>3 DEF IInv

-----------------------------------------------------------------------------
(***************************************************************************)
(* Minting.  The new token is fresh: no row, parent or request names it.   *)
(***************************************************************************)
\* issue_tokens keeps it: the row it inserts is new to all the others.
LEMMA MintPreserves ==
  ASSUME IInv, NEW r \in Requests, Mint(r)
  PROVE  IInv'
<1> DEFINE q == req[r]
           row == [user_id |-> q.user, tenant_id |-> q.tenant, project_id |-> q.project,
                   expires_at |-> now + RefreshTTL, revoked_at |-> NULL, replaced_by |-> NULL]
           origin == [parent |-> q.presented, live |-> q.rotates, read_at |-> q.read_at]
           Next_q(k) == IF q.rotates THEN [q EXCEPT !.pc = "rotate", !.successor = k] ELSE Idle
<1>1. PICK k \in Tokens :
        /\ minted[k] = NULL
        /\ refresh_tokens' = [refresh_tokens EXCEPT ![k] = row]
        /\ minted' = [minted EXCEPT ![k] = origin]
        /\ req' = [req EXCEPT ![r] = Next_q(k)]
  BY DEF Mint, create_refresh_token
<1>2. UNCHANGED <<users, memberships, now, wiped>>
  BY DEF Mint
<1>3. q \in Request /\ RequestOK(q) /\ q.pc = "mint" /\ q.user \in Users /\ q.tenant \in Tenants
  BY DEF Mint, IInv, TypeOK, RequestsOK, RequestOK, Request
<1>4. row \in RefreshTokenRow /\ row # NULL /\ origin \in Origin /\ origin # NULL
  <2>1. now + RefreshTTL \in Nat
    BY ConstantsAssumption DEF IInv, TypeOK
  <2> QED
    BY <1>3, <2>1, NullIsNoRow, NullIsNoOrigin DEF Request, RefreshTokenRow, Origin
<1>5. Next_q(k) \in Request
  BY <1>3, IdleIsOK DEF Request
<1>6. /\ ~Exists(k) /\ k \notin wiped /\ q.presented # k /\ k # NULL
      /\ \A t \in Tokens : (minted[t] # NULL => minted[t].parent # k)
      /\ \A t \in Tokens : Exists(t) => refresh_tokens[t].replaced_by # k
      /\ \A i \in Requests : /\ req[i].presented # k
                             /\ req[i].pc = "rotate" => req[i].successor # k
  <2>1. ~Exists(k) /\ k \notin wiped /\ k # NULL
    BY <1>1, ConstantsAssumption DEF IInv, TokensOK, Issued
  <2>2. \A t \in Tokens : (minted[t] # NULL => minted[t].parent # k)
    BY <1>1, <2>1 DEF IInv, TokensOK, Issued
  <2>3. \A t \in Tokens : Exists(t) => refresh_tokens[t].replaced_by # k
    BY <2>1 DEF IInv, TokensOK, SuccessorSound
  <2>4. \A i \in Requests : /\ req[i].presented # k
                            /\ req[i].pc = "rotate" => req[i].successor # k
    BY <1>1, <2>1 DEF IInv, RequestsOK, RequestOK, SuccessorReady
  <2> QED
    BY <2>1, <2>2, <2>3, <2>4
<1>7. /\ refresh_tokens'[k] = row /\ minted'[k] = origin
      /\ \A t \in Tokens : t # k => /\ refresh_tokens'[t] = refresh_tokens[t]
                                    /\ minted'[t] = minted[t]
      /\ req'[r] = Next_q(k)
      /\ \A i \in Requests : i # r => req'[i] = req[i]
  BY <1>1 DEF IInv, TypeOK
<1>8. TypeOK'
  BY <1>1, <1>2, <1>4, <1>5 DEF IInv, TypeOK
<1> HIDE DEF q, row, origin, Next_q
<1>9. /\ Exists(k)' /\ Live(k)'
      /\ \A t \in Tokens : t # k => (Exists(t)' <=> Exists(t)) /\ (Live(t)' <=> Live(t))
  BY <1>4, <1>7 DEF Exists, Live, row
<1>10. Issued' /\ Past' /\ WipeIsFinal' /\ ScopeSound'
  <2>1. Issued'
    BY <1>2, <1>3, <1>4, <1>6, <1>7, <1>9
       DEF IInv, TypeOK, TokensOK, Issued, Origin, RequestOK, Request, origin
  <2>2. Past'
    BY <1>2, <1>3, <1>7, <1>9 DEF IInv, TokensOK, Past, RequestOK, origin
  <2>3. WipeIsFinal'
    BY <1>2, <1>6, <1>9 DEF IInv, TypeOK, TokensOK, WipeIsFinal
  <2>4. ScopeSound'
    BY <1>3, <1>7, <1>9 DEF IInv, TokensOK, ScopeSound, RequestOK, row
  <2> QED
    BY <2>1, <2>2, <2>3, <2>4
<1>11. SuccessorSound'
  <2> SUFFICES ASSUME NEW t \in Tokens, Exists(t)', refresh_tokens'[t].replaced_by # NULL
               PROVE  /\ ~Live(t)'
                      /\ Exists(refresh_tokens[t].replaced_by)'
                      /\ refresh_tokens'[t].replaced_by # t
                      /\ SameScope(refresh_tokens[t],
                                   refresh_tokens[refresh_tokens[t].replaced_by])'
    BY DEF SuccessorSound
  <2>1. t # k
    BY <1>7 DEF row
  <2>2. Exists(t) /\ refresh_tokens'[t] = refresh_tokens[t]
    BY <1>7, <1>9, <2>1
  <2>3. PICK s \in Tokens : s = refresh_tokens[t].replaced_by
    BY <2>2 DEF IInv, TypeOK, Exists, RefreshTokenRow
  <2>4. ~Live(t) /\ Exists(s) /\ s # t /\ SameScope(refresh_tokens[t], refresh_tokens[s])
    BY <2>2, <2>3 DEF IInv, TokensOK, SuccessorSound
  <2>5. s # k
    BY <1>6, <2>4
  <2>6. Exists(s)' /\ refresh_tokens'[s] = refresh_tokens[s]
    BY <1>7, <1>9, <2>4, <2>5
  <2> QED
    BY <1>9, <2>1, <2>2, <2>3, <2>4, <2>6 DEF SameScope, Exists
<1>12. LineageKeepsScope'
  <2> SUFFICES ASSUME NEW t \in Tokens, Exists(t)', minted'[t].parent # NULL,
                      Exists(minted[t].parent)'
               PROVE  SameScope(refresh_tokens[t], refresh_tokens[minted[t].parent])'
    BY DEF LineageKeepsScope
  <2>1. CASE t = k
    <3>1. minted'[t].parent = q.presented /\ q.presented \in Tokens /\ q.presented # k
      BY <1>3, <1>6, <1>7, <2>1 DEF origin, Request, q
    <3>2. PICK p \in Tokens : p = q.presented
      BY <3>1
    <3>3. Exists(p) /\ refresh_tokens'[p] = refresh_tokens[p]
      BY <1>7, <3>1, <3>2 DEF Exists
    <3> QED
      BY <1>3, <1>7, <2>1, <3>1, <3>2, <3>3 DEF SameScope, RequestOK, CopyKeepsScope, row
  <2>2. CASE t # k
    <3>1. Exists(t) /\ minted'[t] = minted[t] /\ minted[t] # NULL
            /\ refresh_tokens'[t] = refresh_tokens[t]
      BY <1>7, <1>9, <2>2 DEF IInv, TokensOK, Issued
    <3>2. PICK p \in Tokens : p = minted[t].parent
      BY <3>1 DEF IInv, TypeOK, Origin
    <3>3. Exists(p) /\ refresh_tokens'[p] = refresh_tokens[p]
      BY <1>6, <1>7, <3>1, <3>2 DEF Exists
    <3>4. SameScope(refresh_tokens[t], refresh_tokens[p])
      BY <3>1, <3>2, <3>3 DEF IInv, TokensOK, LineageKeepsScope
    <3> QED
      BY <3>1, <3>2, <3>3, <3>4 DEF SameScope
  <2> QED
    BY <2>1, <2>2
<1>13. NoLateMint'
  <2> SUFFICES ASSUME NEW t \in Tokens, minted'[t] # NULL, minted'[t].parent # NULL,
                      Exists(minted[t].parent)'
               PROVE  WasUsable(minted[t].parent, minted[t].live, minted[t].read_at)'
    BY DEF NoLateMint
  <2>1. CASE t = k
    <3>1. minted'[t].parent = q.presented /\ q.presented \in Tokens /\ q.presented # k
            /\ minted'[t].live = q.rotates /\ minted'[t].read_at = q.read_at
      BY <1>3, <1>6, <1>7, <2>1 DEF origin, Request, q
    <3>2. PICK p \in Tokens : p = q.presented
      BY <3>1
    <3>3. Exists(p) /\ refresh_tokens'[p] = refresh_tokens[p]
      BY <1>7, <3>1, <3>2 DEF Exists
    <3>4. WasUsable(p, q.rotates, q.read_at)
      BY <1>3, <3>2, <3>3, ConstantsAssumption DEF RequestOK, CopyWasUsable
    <3> QED
      BY <3>1, <3>2, <3>3, <3>4 DEF WasUsable, Exists, Live
  <2>2. CASE t # k
    <3>1. minted'[t] = minted[t]
      BY <1>7, <2>2
    <3>2. PICK p \in Tokens : p = minted[t].parent
      BY <3>1 DEF IInv, TypeOK, Origin
    <3>3. Exists(p) /\ refresh_tokens'[p] = refresh_tokens[p]
      BY <1>6, <1>7, <3>1, <3>2 DEF Exists
    <3>4. WasUsable(p, minted[t].live, minted[t].read_at)
      BY <3>1, <3>2, <3>3 DEF IInv, TokensOK, NoLateMint
    <3> QED
      BY <3>1, <3>2, <3>3, <3>4 DEF WasUsable, Exists, Live
  <2> QED
    BY <2>1, <2>2
<1>14. ASSUME NEW i \in Requests, i # r PROVE RequestOK(req[i])'
  <2>1. PICK p \in Request : p = req[i]
    BY DEF IInv, TypeOK
  <2>2. RequestOK(p) /\ req'[i] = p /\ now' = now
    BY <1>2, <1>7, <1>14, <2>1 DEF IInv, RequestsOK
  <2>3. p.presented # k /\ (p.pc = "rotate" => p.successor # k)
    BY <1>6, <2>1
  <2>4. p.presented \in Tokens \cup {NULL} /\ p.successor \in Tokens \cup {NULL}
    BY DEF Request
  <2>5. RequestOK(p)'
    BY <1>7, <1>9, <2>2, <2>3, <2>4
       DEF RequestOK, CopyKeepsScope, CopyWasUsable, WasUsable, SuccessorReady, SameScope
  <2> QED
    BY <2>2, <2>5 DEF RequestOK, CopyKeepsScope, CopyWasUsable, WasUsable, SuccessorReady,
                      Exists, Live,
                      SameScope
<1>15. RequestOK(req[r])'
  <2>1. PICK p \in Request : p = Next_q(k)
    BY <1>5
  <2>2. now \in Nat /\ now' = now /\ k # NULL
    BY <1>2, <1>6 DEF IInv, TypeOK
  <2>3. RequestOK(p)'
    <3>1. CASE q.rotates
      <4>1. /\ p.pc = "rotate" /\ p.successor = k /\ p.user = q.user /\ p.tenant = q.tenant
            /\ p.project = q.project /\ p.presented = q.presented /\ p.rotates = q.rotates
            /\ p.read_at = q.read_at
        BY <1>3, <2>1, <3>1 DEF Next_q, Request
      <4>2. q.presented \in Tokens /\ q.presented # k /\ q.presented # NULL
        BY <1>3, <1>6, <3>1 DEF RequestOK, Request
      <4>3. minted'[q.presented] # NULL /\ minted'[k] # NULL
        BY <1>3, <1>4, <1>7, <4>2 DEF RequestOK
      <4>4. CopyKeepsScope(p)' /\ CopyWasUsable(p)'
        BY <1>3, <1>7, <1>9, <4>1, <4>2
           DEF RequestOK, CopyKeepsScope, CopyWasUsable, WasUsable, Exists, Live
      <4>5. SuccessorReady(p)'
        BY <1>3, <1>7, <1>9, <2>2, <4>1, <4>2, <4>3
           DEF RequestOK, CopyKeepsScope, SuccessorReady, SameScope, row
      <4> QED
        BY <1>3, <2>2, <3>1, <4>1, <4>3, <4>4, <4>5 DEF RequestOK
    <3>2. CASE ~q.rotates
      BY <2>1, <2>2, <3>2, ConstantsAssumption
         DEF Next_q, Idle, RequestOK, CopyKeepsScope, CopyWasUsable, WasUsable, SuccessorReady
    <3> QED
      BY <3>1, <3>2
  <2> QED
    BY <1>7, <2>1, <2>3 DEF RequestOK, CopyKeepsScope, CopyWasUsable, WasUsable, SuccessorReady,
                            Exists,
                            Live, SameScope
<1>16. TokensOK'
  BY <1>10, <1>11, <1>12, <1>13 DEF TokensOK
<1> QED
  BY <1>8, <1>14, <1>15, <1>16 DEF IInv, RequestsOK

-----------------------------------------------------------------------------
(***************************************************************************)
(* The invariant holds, and with it the properties the runs check.         *)
(***************************************************************************)
\* The invariant holds before any token was issued.
LEMMA InitEstablishes ==
  Init => IInv
<1> SUFFICES ASSUME Init PROVE IInv
  OBVIOUS
<1>1. TypeOK
  BY ConstantsAssumption DEF Init, TypeOK, Idle, Request
<1>2. \A t \in Tokens : ~Exists(t) /\ minted[t] = NULL
  BY DEF Init, Exists
<1>3. TokensOK
  BY <1>2 DEF Init, TokensOK, Issued, Past, SuccessorSound, LineageKeepsScope, NoLateMint,
              WasUsable,
              WipeIsFinal, ScopeSound
<1>4. RequestsOK
  BY DEF Init, RequestsOK, Idle, RequestOK, CopyKeepsScope, CopyWasUsable, WasUsable,
         SuccessorReady
<1> QED
  BY <1>1, <1>3, <1>4 DEF IInv

\* Every step of every handler keeps the invariant.
LEMMA StepPreserves ==
  IInv /\ [Next]_vars => IInv'
<1> SUFFICES ASSUME IInv, [Next]_vars PROVE IInv'
  OBVIOUS
<1>1. CASE UNCHANGED vars
  BY <1>1, AccountsChange DEF vars, IInv, TypeOK
<1>2. ASSUME NEW r \in Requests, RequestStep(r) PROVE IInv'
  <2>1. CASE PickTenant(r) \/ LookupUser(r) \/ Mint(r) \/ Rotate(r) \/ Wipe(r) \/ Abort(r)
    BY <2>1, PickTenantPreserves, LookupUserPreserves, MintPreserves, RotatePreserves,
       WipePreserves, AbortPreserves
  <2>2. ASSUME NEW t \in Tokens, Refresh(r, t) PROVE IInv'
    BY <2>2, RefreshPreserves
  <2>3. ASSUME NEW u \in Users,
               Login(r, u) \/ LoginTotp(r, u) \/ ChangePassword(r, u) \/ ResetPassword(r, u)
        PROVE  IInv'
    BY <2>3, LoginPreserves, ChangePasswordPreserves DEF LoginTotp, ResetPassword
  <2>4. ASSUME NEW u \in Users, NEW t \in Tenants, NEW p \in Projects \cup {NULL},
               SwitchTenant(r, u, t, p)
        PROVE  IInv'
    BY <2>4, SwitchTenantPreserves
  <2> QED
    BY <1>2, <2>1, <2>2, <2>3, <2>4 DEF RequestStep
<1>3. ASSUME NEW u \in Users,
             RestoreUser(u) \/ \E t \in Tenants : AddMember(u, t) \/ RemoveMember(u, t)
      PROVE  IInv'
  <2>1. /\ users' \in [Users -> {"active", "deleted", "gone"}]
        /\ memberships' \subseteq Users \X Tenants
        /\ UNCHANGED <<refresh_tokens, req, now, minted, wiped>>
    BY <1>3 DEF IInv, TypeOK, RestoreUser, AddMember, RemoveMember
  <2> QED
    BY <2>1, AccountsChange
<1>4. CASE AdminStep
  BY <1>3, <1>4, SoftDeletePreserves, HardDeletePreserves DEF AdminStep
<1>5. ASSUME NEW t \in Tokens, Logout(t) PROVE IInv'
  BY <1>5, LogoutPreserves
<1>6. ASSUME NEW r \in Requests, NEW u \in Users, NEW t \in Tenants,
             ExchangeAuthorizationCode(r, u, t)
      PROVE  IInv'
  BY <1>6, ExchangePreserves
<1> QED
  BY <1>1, <1>2, <1>4, <1>5, <1>6, TickPreserves DEF Next

\* The inductive invariant holds always: every handler step, in any order with
\* the steps of the others, keeps rows and the handlers' copies of them in tune.
THEOREM Invariance == Spec => []IInv
BY InitEstablishes, StepPreserves, PTL DEF Spec

\* The tables keep their types: every token is bound to a user and a tenant,
\* whichever handler issued it.
THEOREM TypeCorrect == Spec => []TypeOK
BY Invariance, PTL DEF IInv

\* A token that names a successor is revoked, and the successor is a row of
\* the same user, tenant and project (refresh inserts before it rotates).
THEOREM SuccessorSoundTheorem == Spec => []SuccessorSound
<1>1. IInv => SuccessorSound
  BY DEF IInv, TokensOK
<1> QED
  BY <1>1, Invariance, PTL

\* Refreshing never changes the user, tenant or project of a session.
THEOREM LineageTheorem == Spec => []LineageKeepsScope
<1>1. IInv => LineageKeepsScope
  BY DEF IInv, TokensOK
<1> QED
  BY <1>1, Invariance, PTL

\* A revoked token yields a new one only to a handler that had read it live,
\* or inside the grace window of its rotation.
THEOREM NoLateMintTheorem == Spec => []NoLateMint
<1>1. IInv => NoLateMint
  BY DEF IInv, TokensOK
<1> QED
  BY <1>1, Invariance, PTL

\* Revoking all sessions of a user ends each of them for good.
THEOREM WipeTheorem == Spec => []WipeIsFinal
<1>1. IInv => WipeIsFinal
  BY DEF IInv, TokensOK
<1> QED
  BY <1>1, Invariance, PTL

\* No session carries a project of another tenant.
THEOREM ScopeTheorem == Spec => []ScopeSound
<1>1. IInv => ScopeSound
  BY DEF IInv, TokensOK
<1> QED
  BY <1>1, Invariance, PTL

\* A revoked row is never changed, only removed: the grace window of a rotated
\* token is not restarted and a logged-out token never becomes a rotated one.
THEOREM RevokedForeverTheorem == Spec => RevokedForever
<1> DEFINE Kept == \A t \in Tokens : (Exists(t) /\ ~Live(t) /\ refresh_tokens'[t] # NULL)
                                       => refresh_tokens'[t] = refresh_tokens[t]
<1>1. ASSUME IInv, [Next]_vars PROVE [Kept]_vars
  <2>1. CASE UNCHANGED refresh_tokens
    BY <2>1
  <2>2. ASSUME NEW r \in Requests, Mint(r) PROVE Kept
    <3>1. PICK k \in Tokens :
            /\ minted[k] = NULL
            /\ create_refresh_token(k, req[r].user, req[r].tenant, req[r].project)
      BY <2>2 DEF Mint
    <3>2. ~Exists(k)
      BY <1>1, <3>1 DEF IInv, TokensOK, Issued
    <3> QED
      BY <1>1, <3>1, <3>2 DEF IInv, TypeOK, create_refresh_token
  <2>3. ASSUME NEW r \in Requests, Rotate(r) PROVE Kept
    BY <1>1, <2>3 DEF IInv, TypeOK, Rotate, rotate_refresh_token
  <2>4. ASSUME NEW r \in Requests, Wipe(r) PROVE Kept
    BY <1>1, <2>4 DEF Wipe, revoke_all_user_refresh_tokens
  <2>5. ASSUME NEW t \in Tokens, Logout(t) PROVE Kept
    BY <1>1, <2>5 DEF IInv, TypeOK, Logout, revoke_refresh_token
  <2>6. ASSUME NEW u \in Users, SoftDelete(u) \/ HardDelete(u) PROVE Kept
    BY <1>1, <2>6 DEF SoftDelete, HardDelete, revoke_all_user_refresh_tokens
  <2> HIDE DEF Kept
  <2>7. ASSUME NEW r \in Requests, RequestStep(r) PROVE [Kept]_vars
    <3>1. CASE Mint(r) \/ Rotate(r) \/ Wipe(r)
      BY <2>2, <2>3, <2>4, <3>1
    <3>2. CASE ~(Mint(r) \/ Rotate(r) \/ Wipe(r))
      <4>1. UNCHANGED refresh_tokens
        BY <2>7, <3>2
           DEF RequestStep, PickTenant, LookupUser, Abort, Refresh, Login, LoginTotp,
               ChangePassword, ResetPassword, SwitchTenant
      <4> QED
        BY <2>1, <4>1
    <3> QED
      BY <3>1, <3>2
  <2>8. CASE AdminStep
    <3>1. PICK u \in Users : SoftDelete(u) \/ HardDelete(u) \/ UNCHANGED refresh_tokens
      BY <2>8 DEF AdminStep, RestoreUser, AddMember, RemoveMember
    <3> QED
      BY <2>1, <2>6, <3>1
  <2>9. CASE Tick \/ UNCHANGED vars
    BY <2>1, <2>9 DEF Tick, vars
  <2>10. ASSUME NEW r \in Requests, NEW u \in Users, NEW t \in Tenants,
                ExchangeAuthorizationCode(r, u, t)
         PROVE  [Kept]_vars
    BY <2>1, <2>10 DEF ExchangeAuthorizationCode
  <2> QED
    BY <1>1, <2>5, <2>7, <2>8, <2>9, <2>10 DEF Next
<1> QED
  BY <1>1, Invariance, PTL DEF Spec, RevokedForever

=============================================================================
