---------------------------- MODULE OAuthProofs ----------------------------
(***************************************************************************)
(* Safety of the code exchange for any number of users, clients, codes and *)
(* exchanges that run at the same time, and what the theorems of Sessions  *)
(* say of the sessions that codes start.                                   *)
(***************************************************************************)
EXTENDS OAuth, SessionsProofs, FiniteSetTheorems

-----------------------------------------------------------------------------
(***************************************************************************)
(* The inductive invariant: that of Sessions, and what an exchange keeps   *)
(* while others run.  An exchange that has claimed its code is the only    *)
(* one of the code from then on.                                           *)
(***************************************************************************)

\* The foreign key of memberships: a member has a row.
MembersExist == \A m \in memberships : users[m[1]] # "gone"

\* The foreign key of a code, and the row an exchange has read.
RowsExist ==
  /\ \A k \in Codes : oauth_authorization_codes[k] # NULL =>
       oauth_clients[oauth_authorization_codes[k].client_id] # NULL
  /\ \A x \in Exchanges : exchanges[x].at # "idle" =>
       exchanges[x].code \in Codes /\ CodeOf(x) # NULL

Claimant(x) == exchanges[x].at \in {"check", "issue"}

\* Whoever has claimed a code is alone with it.
Alone(x) ==
  Claimant(x) =>
    /\ CodeOf(x).used
    /\ \A y \in Exchanges :
         Claimant(y) /\ exchanges[y].code = exchanges[x].code => y = x
    /\ \A t \in Tokens : redeemed[t] # NULL => redeemed[t].code # exchanges[x].code

\* An exchange that passed the check is about to mint what its code is for, and
\* its caller showed what he was asked for.
Minting(x) ==
  IF exchanges[x].at = "issue"
    THEN /\ req[x].pc = "mint" /\ ~req[x].rotates
         /\ req[x].user = CodeOf(x).user_id
         /\ req[x].tenant = ClientOf(x).tenant_id
         /\ Asked(x) # {} /\ Asked(x) \subseteq exchanges[x].proof
    ELSE req[x] = Idle

\* A token that a code was exchanged for was minted.
Redeemed(t) ==
  redeemed[t] # NULL =>
    minted[t] # NULL /\ oauth_authorization_codes[redeemed[t].code] # NULL

OAuthIInv ==
  /\ IInv
  /\ OAuthTypeOK
  /\ MembersExist
  /\ RowsExist
  /\ \A x \in Exchanges : Alone(x) /\ Minting(x)
  /\ \A t \in Tokens : Redeemed(t)
  /\ CodeYieldsOneSession
  /\ CodeBindsSession

-----------------------------------------------------------------------------
(***************************************************************************)
(* The exchange in detail is an exchange of Sessions.                      *)
(***************************************************************************)
\* A member keeps a row while he is one.
LEMMA MembersStay ==
  ASSUME IInv, MembersExist, [Next]_vars
  PROVE  MembersExist'
<1>1. ASSUME AdminStep
      PROVE  MembersExist'
  BY <1>1 DEF AdminStep, SoftDelete, HardDelete, RestoreUser, AddMember, RemoveMember,
     MembersExist, IInv, TypeOK
<1>2. ASSUME NEW r \in Requests, RequestStep(r)
      PROVE  UNCHANGED <<users, memberships>>
  BY <1>2 DEF RequestStep, PickTenant, LookupUser, Mint, Rotate, Wipe, Abort, Refresh,
     Login, LoginTotp, ChangePassword, ResetPassword, SwitchTenant
<1>3. ASSUME NEW r \in Requests, NEW u \in Users, NEW t \in Tenants,
             ExchangeAuthorizationCode(r, u, t)
      PROVE  UNCHANGED <<users, memberships>>
  BY <1>3 DEF ExchangeAuthorizationCode
<1>4. ASSUME NEW t \in Tokens, Logout(t)
      PROVE  UNCHANGED <<users, memberships>>
  BY <1>4 DEF Logout
<1>5. Tick \/ UNCHANGED vars => UNCHANGED <<users, memberships>>
  BY DEF Tick, vars
<1>6. UNCHANGED <<users, memberships>> => MembersExist'
  BY DEF MembersExist
<1> QED
  BY <1>1, <1>2, <1>3, <1>4, <1>5, <1>6 DEF Next

\* The rows an exchange goes by have their types.
LEMMA ExchangeRows ==
  ASSUME OAuthIInv, NEW x \in Exchanges, exchanges[x].at # "idle"
  PROVE  /\ exchanges[x].code \in Codes
         /\ CodeOf(x) \in CodeRow
         /\ ClientOf(x) \in ClientRow
<1>1. exchanges[x].code \in Codes /\ CodeOf(x) \in CodeRow
  BY DEF OAuthIInv, RowsExist, OAuthTypeOK, CodeOf
<1>2. CodeOf(x).client_id \in Clients
  BY <1>1 DEF CodeRow
<1> QED
  BY <1>1, <1>2 DEF OAuthIInv, RowsExist, OAuthTypeOK, CodeOf, ClientOf

\* An exchange whose caller passes begins a session of Sessions for a member
\* of the tenant; one that does not leaves everything of Sessions alone.
LEMMA CheckIsExchange ==
  ASSUME OAuthIInv, NEW x \in Exchanges, NEW proof \in Proof, Check(x, proof)
  PROVE  [Next]_vars
<1>1. CASE Asked(x) # {} /\ Asked(x) \subseteq proof /\ IsMember(x)
  <2> DEFINE u == CodeOf(x).user_id
             t == ClientOf(x).tenant_id
  <2>1. u \in Users /\ t \in Tenants /\ x \in Requests
    BY ExchangeRows, OAuthAssumption DEF Check, Decide, CodeRow, ClientRow
  <2>2. <<u, t>> \in memberships /\ users[u] # "gone"
    BY <1>1 DEF IsMember, OAuthIInv, MembersExist
  <2>3. ExchangeAuthorizationCode(x, u, t)
    BY <1>1, <2>2 DEF Check, Decide, ExchangeAuthorizationCode
  <2> HIDE DEF u, t
  <2> QED
    BY <2>1, <2>3 DEF Next
<1>2. CASE ~(Asked(x) # {} /\ Asked(x) \subseteq proof /\ IsMember(x))
  BY <1>2 DEF Check, Decide, vars
<1> QED
  BY <1>1, <1>2

\* Every step is one of Sessions, or leaves all of Sessions alone.
LEMMA OAuthStepIsStep ==
  ASSUME OAuthIInv, [OAuthNext]_oauth_vars
  PROVE  [Next]_vars
<1>1. CASE SessionStep
  BY <1>1 DEF SessionStep, Next
<1>2. CASE CodeStep
  BY <1>2 DEF CodeStep, register_client, create_authorization_code
<1>3. ASSUME NEW x \in Exchanges, ExchangeStep(x)
      PROVE  [Next]_vars
  <2>1. x \in Requests
    BY OAuthAssumption
  <2>2. CASE Claim(x) \/ \E k \in Codes, c \in Clients : Present(x, k, c)
    BY <2>2 DEF Claim, Present
  <2>3. CASE Issue(x)
    BY <2>1, <2>3 DEF Issue, RequestStep, Next
  <2>4. CASE AbortExchange(x)
    <3>1. CASE req[x] = Idle
      <4>1. req' = req
        BY <2>4, <3>1 DEF AbortExchange, OAuthIInv, IInv, TypeOK
      <4> QED
        BY <2>4, <4>1 DEF AbortExchange, vars
    <3>2. CASE req[x] # Idle
      <4>1. Abort(x)
        BY <2>4, <3>2 DEF AbortExchange, Abort
      <4> QED
        BY <2>1, <4>1 DEF RequestStep, Next
    <3> QED
      BY <3>1, <3>2
  <2> QED
    BY <1>3, <2>2, <2>3, <2>4, CheckIsExchange DEF ExchangeStep
<1>4. CASE UNCHANGED oauth_vars
  BY <1>4 DEF oauth_vars
<1> QED
  BY <1>1, <1>2, <1>3, <1>4 DEF OAuthNext

-----------------------------------------------------------------------------
(***************************************************************************)
(* What of the tables never changes.                                       *)
(***************************************************************************)
\* A token that was minted is not minted again, and a row of it keeps its owner.
LEMMA OwnerStays ==
  ASSUME IInv, [Next]_vars, NEW t \in Tokens, minted[t] # NULL
  PROVE  /\ minted'[t] = minted[t]
         /\ refresh_tokens'[t] # NULL =>
              /\ refresh_tokens[t] # NULL
              /\ refresh_tokens'[t].user_id = refresh_tokens[t].user_id
              /\ refresh_tokens'[t].tenant_id = refresh_tokens[t].tenant_id
<1> DEFINE Kept == refresh_tokens'[t] # NULL =>
                     /\ refresh_tokens[t] # NULL
                     /\ refresh_tokens'[t].user_id = refresh_tokens[t].user_id
                     /\ refresh_tokens'[t].tenant_id = refresh_tokens[t].tenant_id
<1>1. refresh_tokens \in [Tokens -> RefreshTokenRow \cup {NULL}] /\ minted \in [Tokens -> Origin \cup {NULL}]
  BY DEF IInv, TypeOK
<1>2. ASSUME NEW k, NEW s, rotate_refresh_token(k, s) \/ revoke_refresh_token(k)
      PROVE  Kept
  <2>1. CASE refresh_tokens'[t] = refresh_tokens[t]
    BY <2>1
  <2>2. CASE refresh_tokens'[t] = [refresh_tokens[t] EXCEPT !.revoked_at = now, !.replaced_by = s]
             /\ Live(t)
    BY <1>1, <2>2 DEF Live, Exists, RefreshTokenRow
  <2>3. CASE refresh_tokens'[t] = [refresh_tokens[t] EXCEPT !.revoked_at = now] /\ Live(t)
    BY <1>1, <2>3 DEF Live, Exists, RefreshTokenRow
  <2> QED
    BY <1>1, <1>2, <2>1, <2>2, <2>3 DEF rotate_refresh_token, revoke_refresh_token
<1>3. ASSUME NEW u, revoke_all_user_refresh_tokens(u)
      PROVE  Kept
  BY <1>1, <1>3 DEF revoke_all_user_refresh_tokens, Live, Exists, RefreshTokenRow
<1>4. ASSUME NEW u, HardDelete(u)
      PROVE  Kept
  BY <1>1, <1>4 DEF HardDelete
<1>5. ASSUME NEW r \in Requests, Mint(r)
      PROVE  Kept /\ minted'[t] = minted[t]
  BY <1>1, <1>5 DEF Mint, create_refresh_token
<1>6. UNCHANGED refresh_tokens => Kept
  OBVIOUS
<1> HIDE DEF Kept
<1>7. ASSUME NEW r \in Requests, RequestStep(r)
      PROVE  Kept /\ minted'[t] = minted[t]
  BY <1>2, <1>3, <1>5, <1>6, <1>7 DEF RequestStep, PickTenant, LookupUser, Rotate, Wipe,
     Abort, Refresh, Login, LoginTotp, ChangePassword, ResetPassword, SwitchTenant
<1>8. ASSUME AdminStep
      PROVE  Kept /\ minted'[t] = minted[t]
  <2>1. minted' = minted
    BY <1>8 DEF AdminStep, SoftDelete, HardDelete, RestoreUser, AddMember, RemoveMember
  <2> QED
    BY <1>3, <1>4, <1>6, <1>8, <2>1 DEF AdminStep, SoftDelete, RestoreUser, AddMember,
       RemoveMember
<1>9. ASSUME NEW k \in Tokens, Logout(k)
      PROVE  Kept /\ minted'[t] = minted[t]
  BY <1>2, <1>9 DEF Logout
<1>10. ASSUME NEW r \in Requests, NEW u \in Users, NEW s \in Tenants,
              ExchangeAuthorizationCode(r, u, s)
       PROVE  Kept /\ minted'[t] = minted[t]
  BY <1>6, <1>10 DEF ExchangeAuthorizationCode
<1>11. Tick \/ UNCHANGED vars => Kept /\ minted'[t] = minted[t]
  BY <1>6 DEF Tick, vars
<1>12. Kept /\ minted'[t] = minted[t]
  BY <1>7, <1>8, <1>9, <1>10, <1>11 DEF Next
<1> QED
  BY <1>12 DEF Kept

-----------------------------------------------------------------------------
(***************************************************************************)
(* The invariant is kept.                                                  *)
(***************************************************************************)
\* Codes and clients, once there, stay as they are, except that codes are used.
RowsStay ==
  /\ \A k \in Codes :
       oauth_authorization_codes[k] # NULL =>
         /\ oauth_authorization_codes'[k] # NULL
         /\ oauth_authorization_codes'[k].client_id = oauth_authorization_codes[k].client_id
         /\ oauth_authorization_codes'[k].user_id = oauth_authorization_codes[k].user_id
         /\ oauth_authorization_codes'[k].code_challenge
              = oauth_authorization_codes[k].code_challenge
         /\ oauth_authorization_codes[k].used => oauth_authorization_codes'[k].used
  /\ \A c \in Clients : oauth_clients[c] # NULL => oauth_clients'[c] = oauth_clients[c]

\* CodeBindsSession, of one token.
Bound(t) ==
  redeemed[t] # NULL =>
    LET row == oauth_authorization_codes[redeemed[t].code]
        client == oauth_clients[row.client_id]
    IN  /\ row.used
        /\ row.code_challenge \/ client.is_confidential
        /\ row.code_challenge => "verifier" \in redeemed[t].proof
        /\ client.is_confidential => "secret" \in redeemed[t].proof
        /\ Exists(t) =>
             /\ refresh_tokens[t].user_id = row.user_id
             /\ refresh_tokens[t].tenant_id = client.tenant_id

\* What a token was exchanged for remains what it was bound to.
LEMMA BindingStays ==
  ASSUME OAuthIInv, [Next]_vars, RowsStay, NEW t \in Tokens, redeemed'[t] = redeemed[t]
  PROVE  Redeemed(t)' /\ Bound(t)'
<1>1. CASE redeemed[t] = NULL
  BY <1>1 DEF Redeemed, Bound
<1>2. CASE redeemed[t] # NULL
  <2> DEFINE k == redeemed[t].code
  <2>1. PICK row : row = oauth_authorization_codes[k]
    OBVIOUS
  <2>2. k \in Codes /\ row \in CodeRow /\ oauth_clients[row.client_id] # NULL
        /\ row.client_id \in Clients /\ minted[t] # NULL
    BY <1>2, <2>1 DEF OAuthIInv, OAuthTypeOK, Redemption, Redeemed, CodeRow, RowsExist
  <2>3. minted'[t] # NULL /\ (refresh_tokens'[t] # NULL =>
              /\ refresh_tokens[t] # NULL
              /\ refresh_tokens'[t].user_id = refresh_tokens[t].user_id
              /\ refresh_tokens'[t].tenant_id = refresh_tokens[t].tenant_id)
    BY <2>2, OwnerStays DEF OAuthIInv
  <2>4. Bound(t)
    BY DEF OAuthIInv, CodeBindsSession, Bound
  <2>5. oauth_clients'[row.client_id] = oauth_clients[row.client_id]
    BY <2>2 DEF RowsStay
  <2>6. /\ oauth_authorization_codes'[k] # NULL
        /\ oauth_authorization_codes'[k].client_id = row.client_id
        /\ oauth_authorization_codes'[k].user_id = row.user_id
        /\ oauth_authorization_codes'[k].code_challenge = row.code_challenge
        /\ row.used => oauth_authorization_codes'[k].used
    BY <1>2, <2>1, <2>2 DEF RowsStay, OAuthIInv, Redeemed
  <2> QED
    BY <1>2, <2>1, <2>3, <2>4, <2>5, <2>6 DEF Redeemed, Bound, Exists
<1> QED
  BY <1>1, <1>2

\* Then no token that is exchanged already is touched.
LEMMA RedeemedStay ==
  ASSUME OAuthIInv, [Next]_vars, RowsStay, UNCHANGED redeemed
  PROVE  (\A t \in Tokens : Redeemed(t))' /\ CodeYieldsOneSession' /\ CodeBindsSession'
<1>1. \A t \in Tokens : Redeemed(t)' /\ Bound(t)'
  BY BindingStays
<1>2. CodeBindsSession'
  BY <1>1 DEF CodeBindsSession, Bound
<1> QED
  BY <1>1, <1>2 DEF OAuthIInv, CodeYieldsOneSession

\* An exchange that does not move, on rows that stay, is as it was.
LEMMA ExchangeStays ==
  ASSUME OAuthIInv, RowsStay, NEW x \in Exchanges, exchanges[x].at # "idle"
  PROVE  /\ oauth_authorization_codes'[exchanges[x].code] # NULL
         /\ oauth_authorization_codes'[exchanges[x].code].client_id = CodeOf(x).client_id
         /\ oauth_authorization_codes'[exchanges[x].code].user_id = CodeOf(x).user_id
         /\ oauth_authorization_codes'[exchanges[x].code].code_challenge
              = CodeOf(x).code_challenge
         /\ CodeOf(x).used => oauth_authorization_codes'[exchanges[x].code].used
         /\ oauth_clients'[CodeOf(x).client_id] = ClientOf(x)
<1>1. exchanges[x].code \in Codes /\ CodeOf(x) # NULL /\ CodeOf(x).client_id \in Clients
      /\ ClientOf(x) # NULL
  BY ExchangeRows DEF OAuthIInv, RowsExist, CodeRow, CodeOf, ClientOf
<1> QED
  BY <1>1 DEF RowsStay, CodeOf, ClientOf

\* What an exchange is about does not change while it stays where it is.
LEMMA MintingStays ==
  ASSUME OAuthIInv, RowsStay, NEW x \in Exchanges, exchanges'[x] = exchanges[x],
         req'[x] = req[x]
  PROVE  Minting(x)'
<1>1. CASE exchanges[x].at = "issue"
  <2>1. CodeOf(x)'.client_id = CodeOf(x).client_id /\ CodeOf(x)'.user_id = CodeOf(x).user_id
        /\ CodeOf(x)'.code_challenge = CodeOf(x).code_challenge /\ ClientOf(x)' = ClientOf(x)
    BY <1>1, ExchangeStays DEF CodeOf, ClientOf
  <2>2. Asked(x)' = Asked(x)
    BY <2>1 DEF Asked
  <2>3. Minting(x)
    BY DEF OAuthIInv
  <2> QED
    BY <1>1, <2>1, <2>2, <2>3 DEF Minting
<1>2. CASE exchanges[x].at # "issue"
  <2>1. Minting(x)
    BY DEF OAuthIInv
  <2> QED
    BY <1>2, <2>1 DEF Minting
<1> QED
  BY <1>1, <1>2

\* Sessions go on, and codes are made, beside the exchanges.
LEMMA OtherStepPreserves ==
  ASSUME OAuthIInv, IInv', [Next]_vars, RowsStay, OAuthTypeOK', UNCHANGED <<exchanges, redeemed>>,
         \A x \in Exchanges : req'[x] = req[x],
         \A k \in Codes : oauth_authorization_codes'[k] # NULL =>
           oauth_clients'[oauth_authorization_codes'[k].client_id] # NULL
  PROVE  OAuthIInv'
<1>1. MembersExist'
  BY MembersStay DEF OAuthIInv
<1>2. RowsExist'
  BY ExchangeStays DEF OAuthIInv, RowsExist, CodeOf
<1>3. ASSUME NEW x \in Exchanges
      PROVE  Alone(x)' /\ Minting(x)'
  <2>1. Minting(x)'
    BY MintingStays
  <2>2. Alone(x)
    BY DEF OAuthIInv
  <2>3. Claimant(x) => CodeOf(x)'.used
    BY <2>2, ExchangeStays DEF Alone, Claimant, CodeOf
  <2> QED
    BY <2>1, <2>2, <2>3 DEF Alone, Claimant
<1> QED
  BY <1>1, <1>2, <1>3, RedeemedStay DEF OAuthIInv

\* Unless the tables change, their rows stay.
LEMMA SameRowsStay ==
  ASSUME UNCHANGED <<oauth_clients, oauth_authorization_codes>>
  PROVE  RowsStay
BY DEF RowsStay

\* The other requests leave those of the exchanges alone.
LEMMA SessionStepPreserves ==
  ASSUME OAuthIInv, IInv', SessionStep, UNCHANGED oauth
  PROVE  OAuthIInv'
<1> USE DEF oauth
<1>1. [Next]_vars
  BY DEF SessionStep, Next
<1>2. OAuthTypeOK'
  BY DEF OAuthIInv, OAuthTypeOK, IInv
<1>3. ASSUME NEW x \in Exchanges
      PROVE  req'[x] = req[x]
  <2>1. ASSUME NEW r \in Requests \ Exchanges, RequestStep(r)
        PROVE  req'[x] = req[x]
    <3>1. r # x /\ x \in Requests /\ req \in [Requests -> Request]
      BY OAuthAssumption DEF OAuthIInv, IInv, TypeOK
    <3> QED
      BY <2>1, <3>1 DEF RequestStep, PickTenant, LookupUser, Mint, Rotate, Wipe, Abort,
         Refresh, Begin, Login, LoginTotp, ChangePassword, ResetPassword, SwitchTenant
  <2>2. AdminStep => req' = req
    BY DEF AdminStep, SoftDelete, HardDelete, RestoreUser, AddMember, RemoveMember
  <2>3. Tick \/ (\E t \in Tokens : Logout(t)) => req' = req
    BY DEF Tick, Logout
  <2> QED
    BY <2>1, <2>2, <2>3 DEF SessionStep
<1>4. \A k \in Codes : oauth_authorization_codes'[k] # NULL =>
        oauth_clients'[oauth_authorization_codes'[k].client_id] # NULL
  BY DEF OAuthIInv, RowsExist
<1> QED
  BY <1>1, <1>2, <1>3, <1>4, SameRowsStay, OtherStepPreserves

\* Nothing happens.
LEMMA OAuthStutterPreserves ==
  ASSUME OAuthIInv, IInv', UNCHANGED oauth_vars
  PROVE  OAuthIInv'
<1> USE DEF oauth_vars, vars, oauth
<1>1. OAuthTypeOK'
  BY DEF OAuthIInv, OAuthTypeOK, IInv
<1>2. \A k \in Codes : oauth_authorization_codes'[k] # NULL =>
        oauth_clients'[oauth_authorization_codes'[k].client_id] # NULL
  BY DEF OAuthIInv, RowsExist
<1>3. RowsStay /\ \A x \in Exchanges : req'[x] = req[x]
  BY SameRowsStay
<1> QED
  BY <1>1, <1>2, <1>3, OtherStepPreserves

\* A code is made of a client that is registered.
LEMMA CodeStepPreserves ==
  ASSUME OAuthIInv, IInv', CodeStep
  PROVE  OAuthIInv'
<1>1. UNCHANGED <<vars, exchanges, redeemed>>
  BY DEF CodeStep, register_client, create_authorization_code
<1>2. ASSUME NEW c \in Clients, NEW row \in Registrations, register_client(c, row)
      PROVE  /\ RowsStay /\ OAuthTypeOK'
             /\ \A k \in Codes : oauth_authorization_codes'[k] # NULL =>
                  oauth_clients'[oauth_authorization_codes'[k].client_id] # NULL
  <2>1. row \in ClientRow /\ row # NULL
    BY OAuthAssumption, NullIsNoOAuthRow
  <2>2. \A d \in Clients : oauth_clients'[d] = IF d = c THEN row ELSE oauth_clients[d]
    BY <1>2 DEF register_client, OAuthIInv, OAuthTypeOK
  <2>3. RowsStay
    BY <1>2, <2>2 DEF register_client, RowsStay
  <2>4. OAuthTypeOK'
    BY <1>2, <2>1 DEF register_client, OAuthIInv, OAuthTypeOK, IInv
  <2>5. \A k \in Codes : oauth_authorization_codes[k] # NULL =>
          oauth_authorization_codes[k].client_id \in Clients
    BY DEF OAuthIInv, OAuthTypeOK, CodeRow
  <2> QED
    BY <1>2, <2>1, <2>2, <2>3, <2>4, <2>5 DEF register_client, OAuthIInv, RowsExist
<1>3. ASSUME NEW k \in Codes, NEW c \in Clients, NEW u \in Users, NEW challenge \in BOOLEAN,
             create_authorization_code(k, c, u, challenge)
      PROVE  /\ RowsStay /\ OAuthTypeOK'
             /\ \A j \in Codes : oauth_authorization_codes'[j] # NULL =>
                  oauth_clients'[oauth_authorization_codes'[j].client_id] # NULL
  <2> DEFINE row == [client_id |-> c, user_id |-> u, code_challenge |-> challenge,
                     expires_at |-> now + CodeTTL, used |-> FALSE]
  <2>1. row \in CodeRow /\ row.client_id = c
    BY OAuthAssumption DEF CodeRow, OAuthIInv, IInv, TypeOK
  <2>2. oauth_authorization_codes' = [oauth_authorization_codes EXCEPT ![k] = row]
    BY <1>3 DEF create_authorization_code
  <2> HIDE DEF row
  <2>3. \A j \in Codes : oauth_authorization_codes'[j]
                           = IF j = k THEN row ELSE oauth_authorization_codes[j]
    BY <2>2 DEF OAuthIInv, OAuthTypeOK
  <2>4. RowsStay
    BY <1>3, <2>3 DEF create_authorization_code, RowsStay
  <2>5. OAuthTypeOK'
    BY <1>3, <2>1, <2>2 DEF create_authorization_code, OAuthIInv, OAuthTypeOK, IInv
  <2> QED
    BY <1>3, <2>1, <2>3, <2>4, <2>5 DEF create_authorization_code, OAuthIInv, RowsExist
<1>4. req' = req
  BY <1>1 DEF vars
<1> QED
  BY <1>1, <1>2, <1>3, <1>4, OtherStepPreserves DEF CodeStep

\* An exchange reads the row of a code.
LEMMA PresentPreserves ==
  ASSUME OAuthIInv, IInv', NEW x \in Exchanges, NEW k \in Codes, NEW c \in Clients,
         Present(x, k, c)
  PROVE  OAuthIInv'
<1> DEFINE e == [NoExchange EXCEPT !.at = "claim", !.code = k]
<1>1. UNCHANGED <<vars, oauth_clients, oauth_authorization_codes, redeemed>> /\ req' = req
  BY DEF Present, vars
<1>2. exchanges' \in [Exchanges -> Exchange]
      /\ \A y \in Exchanges : exchanges'[y] = IF y = x THEN e ELSE exchanges[y]
  BY DEF Present, OAuthIInv, OAuthTypeOK, Exchange, NoExchange, Proof
<1>3. OAuthTypeOK' /\ MembersExist' /\ e.at = "claim" /\ e.code = k
  BY <1>1, <1>2, MembersStay DEF OAuthIInv, OAuthTypeOK, IInv, NoExchange
<1> HIDE DEF e
<1>4. RowsExist'
  BY <1>1, <1>2, <1>3 DEF Present, OAuthIInv, RowsExist, CodeOf
<1>5. ASSUME NEW y \in Exchanges
      PROVE  Alone(y)' /\ Minting(y)'
  <2>1. Alone(y) /\ Minting(y) /\ Minting(x) /\ exchanges[x].at = "idle"
    BY DEF OAuthIInv, Present, NoExchange
  <2>2. Minting(y)'
    BY <1>1, <1>2, <1>3, <2>1 DEF Minting, Asked, CodeOf, ClientOf
  <2>3. Alone(y)'
    BY <1>1, <1>2, <1>3, <2>1 DEF Alone, Claimant, CodeOf
  <2> QED
    BY <2>2, <2>3
<1> QED
  BY <1>1, <1>3, <1>4, <1>5, SameRowsStay, RedeemedStay DEF OAuthIInv

\* The UPDATE finds the code unused, and no other exchange has claimed it.
LEMMA ClaimPreserves ==
  ASSUME OAuthIInv, IInv', NEW x \in Exchanges, Claim(x)
  PROVE  OAuthIInv'
<1> DEFINE k == exchanges[x].code
<1>1. UNCHANGED <<vars, oauth_clients, redeemed>> /\ req' = req /\ exchanges[x].at = "claim"
  BY DEF Claim, vars
<1>2. k \in Codes /\ oauth_authorization_codes[k] \in CodeRow
  BY <1>1, ExchangeRows DEF CodeOf
<1>3. \A j \in Codes : oauth_authorization_codes'[j]
        = IF j = k THEN [oauth_authorization_codes[k] EXCEPT !.used = TRUE]
                   ELSE oauth_authorization_codes[j]
  BY <1>2 DEF Claim, OAuthIInv, OAuthTypeOK
<1>4. [oauth_authorization_codes[k] EXCEPT !.used = TRUE] \in CodeRow
  BY <1>2 DEF CodeRow
<1>5. oauth_authorization_codes' \in [Codes -> CodeRow \cup {NULL}] /\ oauth_authorization_codes'[k].used
  BY <1>2, <1>4 DEF Claim, OAuthIInv, OAuthTypeOK
<1>6. RowsStay
  BY <1>1, <1>2, <1>3, <1>4, NullIsNoOAuthRow DEF RowsStay, CodeRow
<1>7. \/ exchanges'[x] = NoExchange
      \/ ~CodeOf(x).used /\ exchanges'[x].at = "check" /\ exchanges'[x].code = k
  BY <1>1 DEF Claim, Leave, OAuthIInv, OAuthTypeOK, Exchange
<1>8. \A y \in Exchanges : y # x => exchanges'[y] = exchanges[y]
  BY DEF Claim, Leave, OAuthIInv, OAuthTypeOK
<1>9. exchanges' \in [Exchanges -> Exchange]
  BY DEF Claim, Leave, NoExchange, OAuthIInv, OAuthTypeOK, Exchange, Proof
<1>10. OAuthTypeOK' /\ MembersExist'
  BY <1>1, <1>5, <1>9, MembersStay DEF OAuthIInv, OAuthTypeOK, IInv
<1>11. RowsExist'
  <2>1. ASSUME NEW j \in Codes, oauth_authorization_codes'[j] # NULL
        PROVE  oauth_clients'[oauth_authorization_codes'[j].client_id] # NULL
    BY <1>1, <1>2, <1>3, <2>1, NullIsNoOAuthRow DEF OAuthIInv, RowsExist, CodeRow
  <2>2. ASSUME NEW y \in Exchanges, exchanges'[y].at # "idle"
        PROVE  exchanges'[y].code \in Codes /\ CodeOf(y)' # NULL
    <3>1. exchanges'[y].code \in Codes /\ oauth_authorization_codes[exchanges'[y].code] # NULL
      BY <1>2, <1>7, <1>8, <2>2, NullIsNoOAuthRow DEF OAuthIInv, RowsExist, CodeOf,
         NoExchange
    <3> QED
      BY <1>6, <3>1 DEF RowsStay, CodeOf
  <2> QED
    BY <2>1, <2>2 DEF RowsExist
<1>12. ASSUME NEW y \in Exchanges
       PROVE  Minting(y)'
  <2>1. CASE y = x
    BY <1>1, <1>7, <2>1 DEF OAuthIInv, Minting, NoExchange
  <2>2. CASE y # x
    BY <1>1, <1>6, <1>8, <2>2, MintingStays
  <2> QED
    BY <2>1, <2>2
<1>13. ASSUME NEW y \in Exchanges, Claimant(y)'
       PROVE  /\ CodeOf(y)'.used
              /\ \A t \in Tokens : redeemed'[t] # NULL => redeemed'[t].code # exchanges'[y].code
              /\ \A z \in Exchanges :
                   Claimant(z)' /\ exchanges'[z].code = exchanges'[y].code => z = y
  <2>1. \A z \in Exchanges : Claimant(z)' /\ z # x =>
          Claimant(z) /\ exchanges'[z] = exchanges[z] /\ exchanges[z].code \in Codes
          /\ oauth_authorization_codes[exchanges[z].code].used
          /\ oauth_authorization_codes'[exchanges[z].code].used
    <3>1. ASSUME NEW z \in Exchanges, Claimant(z)', z # x
          PROVE  Claimant(z) /\ Alone(z) /\ exchanges[z].code \in Codes /\ CodeOf(z) # NULL
      BY <1>8, <3>1 DEF Claimant, OAuthIInv, RowsExist
    <3> QED
      BY <1>6, <1>8, <3>1 DEF Alone, CodeOf, RowsStay
  <2>2. Claimant(x)' => /\ exchanges'[x].code = k /\ ~oauth_authorization_codes[k].used
                        /\ oauth_authorization_codes'[k].used
    BY <1>5, <1>7 DEF Claimant, NoExchange, CodeOf
  <2>3. \A t \in Tokens : redeemed[t] # NULL => oauth_authorization_codes[redeemed[t].code].used
    BY DEF OAuthIInv, CodeBindsSession
  <2>4. Alone(y)
    BY DEF OAuthIInv
  <2> QED
    BY <1>1, <1>13, <2>1, <2>2, <2>3, <2>4 DEF Alone, CodeOf, OAuthIInv
<1>14. \A y \in Exchanges : Alone(y)'
  BY <1>13 DEF Alone
<1> QED
  BY <1>1, <1>6, <1>10, <1>11, <1>12, <1>14, RedeemedStay DEF OAuthIInv

\* An exchange leaves with its request, or passes the check.
LEMMA MovePreserves ==
  ASSUME OAuthIInv, IInv', [Next]_vars, NEW x \in Exchanges, NEW e \in Exchange,
         UNCHANGED <<oauth_clients, oauth_authorization_codes, redeemed>>,
         exchanges' = [exchanges EXCEPT ![x] = e],
         \A y \in Exchanges : y # x => req'[y] = req[y],
         \/ e = NoExchange /\ req'[x] = Idle
         \/ exchanges[x].at = "check" /\ e.at = "issue" /\ e.code = exchanges[x].code
            /\ Minting(x)'
  PROVE  OAuthIInv'
<1>1. exchanges' \in [Exchanges -> Exchange]
      /\ \A y \in Exchanges : exchanges'[y] = IF y = x THEN e ELSE exchanges[y]
  BY DEF OAuthIInv, OAuthTypeOK
<1>2. e = NoExchange \/ (Claimant(x) /\ e.at = "issue" /\ e.code = exchanges[x].code)
  BY DEF Claimant, OAuthIInv, Exchange
<1>3. OAuthTypeOK' /\ MembersExist'
  BY <1>1, MembersStay DEF OAuthIInv, OAuthTypeOK, IInv
<1>4. \A y \in Exchanges : exchanges'[y].at # "idle" =>
        exchanges[y].at # "idle" /\ exchanges'[y].code = exchanges[y].code
  BY <1>1, <1>2 DEF NoExchange, Claimant
<1>5. RowsExist'
  BY <1>4 DEF OAuthIInv, RowsExist, CodeOf
<1>6. \A y \in Exchanges : Claimant(y)' =>
        Claimant(y) /\ exchanges'[y].code = exchanges[y].code
  BY <1>1, <1>2 DEF NoExchange, Claimant
<1>7. ASSUME NEW y \in Exchanges
      PROVE  Alone(y)'
  <2>1. Alone(y)
    BY DEF OAuthIInv
  <2> QED
    BY <1>6, <2>1 DEF Alone, CodeOf
<1>8. ASSUME NEW y \in Exchanges
      PROVE  Minting(y)'
  <2>1. CASE y = x
    BY <1>1, <2>1 DEF Minting, NoExchange
  <2>2. CASE y # x
    BY <1>1, <2>2, SameRowsStay, MintingStays
  <2> QED
    BY <2>1, <2>2
<1> QED
  BY <1>3, <1>5, <1>7, <1>8, SameRowsStay, RedeemedStay DEF OAuthIInv

\* The caller is a member now, and has what he is asked for.
LEMMA CheckPreserves ==
  ASSUME OAuthIInv, IInv', NEW x \in Exchanges, NEW proof \in Proof, Check(x, proof)
  PROVE  OAuthIInv'
<1>1. [Next]_vars
  BY CheckIsExchange
<1>2. x \in Requests /\ req \in [Requests -> Request] /\ exchanges \in [Exchanges -> Exchange]
      /\ Exchanges \subseteq Requests
  BY OAuthAssumption DEF OAuthIInv, IInv, TypeOK, OAuthTypeOK
<1>3. /\ exchanges[x].at = "check" /\ req[x] = Idle
      /\ UNCHANGED <<oauth_clients, oauth_authorization_codes, redeemed>>
  BY DEF Check, Decide, OAuthIInv, Minting
<1>4. CASE Asked(x) # {} /\ Asked(x) \subseteq proof /\ IsMember(x)
  <2> DEFINE e == [exchanges[x] EXCEPT !.at = "issue", !.proof = proof]
             q == [Idle EXCEPT !.pc = "mint", !.user = CodeOf(x).user_id,
                               !.tenant = ClientOf(x).tenant_id]
  <2>1. exchanges' = [exchanges EXCEPT ![x] = e] /\ req' = [req EXCEPT ![x] = q]
    BY <1>4 DEF Check, Decide, Begin
  <2>2. e \in Exchange /\ e.at = "issue" /\ e.code = exchanges[x].code /\ e.proof = proof
    BY <1>2 DEF Exchange
  <2>3. exchanges'[x].at = "issue" /\ exchanges'[x].code = exchanges[x].code
        /\ exchanges'[x].proof = proof
    BY <1>2, <2>1, <2>2
  <2>4. q.pc = "mint" /\ ~q.rotates /\ q.user = CodeOf(x).user_id
        /\ q.tenant = ClientOf(x).tenant_id
    BY DEF Idle
  <2>5. req'[x] = q /\ \A y \in Exchanges : y # x => req'[y] = req[y]
    BY <1>2, <2>1
  <2>6. CodeOf(x)' = CodeOf(x) /\ ClientOf(x)' = ClientOf(x) /\ Asked(x)' = Asked(x)
    BY <1>3, <2>3 DEF CodeOf, ClientOf, Asked
  <2> HIDE DEF q
  <2>7. Minting(x)'
    BY <1>4, <2>3, <2>4, <2>5, <2>6 DEF Minting
  <2> QED
    BY <1>1, <1>3, <2>1, <2>2, <2>5, <2>7, MovePreserves
<1>5. CASE ~(Asked(x) # {} /\ Asked(x) \subseteq proof /\ IsMember(x))
  <2>1. exchanges' = [exchanges EXCEPT ![x] = NoExchange] /\ req' = req
    BY <1>5 DEF Check, Decide, Leave
  <2>2. NoExchange \in Exchange
    BY DEF NoExchange, Exchange, Proof
  <2> QED
    BY <1>1, <1>3, <2>1, <2>2, MovePreserves
<1> QED
  BY <1>4, <1>5

\* An exchange that stops leaves its code claimed.
LEMMA AbortExchangePreserves ==
  ASSUME OAuthIInv, IInv', [Next]_vars, NEW x \in Exchanges, AbortExchange(x)
  PROVE  OAuthIInv'
<1>1. NoExchange \in Exchange
  BY DEF NoExchange, Exchange, Proof
<1>2. req'[x] = Idle /\ \A y \in Exchanges : y # x => req'[y] = req[y]
  BY OAuthAssumption DEF AbortExchange, OAuthIInv, IInv, TypeOK
<1> QED
  BY <1>1, <1>2, MovePreserves DEF AbortExchange, Leave

\* The one token that an exchange mints is the one its code yields.
LEMMA IssuePreserves ==
  ASSUME OAuthIInv, IInv', [Next]_vars, NEW x \in Exchanges, Issue(x)
  PROVE  OAuthIInv'
<1> DEFINE k == exchanges[x].code
           new == [code |-> k, proof |-> exchanges[x].proof]
<1>1. x \in Requests /\ req \in [Requests -> Request] /\ exchanges \in [Exchanges -> Exchange]
      /\ minted \in [Tokens -> Origin \cup {NULL}] /\ Exchanges \subseteq Requests
      /\ refresh_tokens \in [Tokens -> RefreshTokenRow \cup {NULL}]
  BY OAuthAssumption DEF OAuthIInv, IInv, TypeOK, OAuthTypeOK
<1>2. req[x].pc = "mint" /\ exchanges[x].at = "issue"
  BY DEF Issue, Mint, OAuthIInv, Minting, Idle
<1>3. Minting(x) /\ Alone(x) /\ Claimant(x)
  BY <1>2 DEF OAuthIInv, Claimant
<1>4. k \in Codes /\ CodeOf(x) \in CodeRow /\ CodeOf(x) # NULL
  BY <1>2, ExchangeRows, NullIsNoOAuthRow
<1>5. UNCHANGED <<oauth_clients, oauth_authorization_codes>> /\ RowsStay
  BY SameRowsStay DEF Issue
<1>6. PICK t \in Tokens :
        /\ minted[t] = NULL
        /\ create_refresh_token(t, req[x].user, req[x].tenant, req[x].project)
        /\ minted' = [minted EXCEPT ![t] = [parent |-> req[x].presented, live |-> req[x].rotates,
                                            read_at |-> req[x].read_at]]
        /\ req' = [req EXCEPT ![x] =
             IF @.rotates THEN [@ EXCEPT !.pc = "rotate", !.successor = t] ELSE Idle]
  BY DEF Issue, Mint
<1>7. req'[x] = Idle /\ \A y \in Exchanges : y # x => req'[y] = req[y]
  BY <1>1, <1>2, <1>3, <1>6 DEF Minting
<1>8. minted'[t] # NULL /\ \A j \in Tokens : j # t => minted'[j] = minted[j]
  BY <1>1, <1>6, NullIsNoOrigin DEF Request, Origin
<1>9. redeemed'[t] = new /\ (\A j \in Tokens : j # t => redeemed'[j] = redeemed[j])
      /\ redeemed[t] = NULL
  BY <1>6, <1>8 DEF Issue, OAuthIInv, Redeemed
<1>10. exchanges[x].proof \in Proof
  BY <1>1 DEF Exchange
<1>11. new \in Redemption /\ new # NULL /\ new.code = k /\ new.proof = exchanges[x].proof
  BY <1>4, <1>10, NullIsNoOAuthRow DEF Redemption
<1>12. redeemed' \in [Tokens -> Redemption \cup {NULL}]
  <2>1. \A j \in Tokens : redeemed'[j] \in Redemption \cup {NULL}
    BY <1>9, <1>11 DEF OAuthIInv, OAuthTypeOK
  <2>2. redeemed' = [j \in Tokens |-> redeemed'[j]]
    BY DEF Issue
  <2> HIDE DEF new
  <2> QED
    BY <2>1, <2>2
<1> HIDE DEF new
<1>13. exchanges' \in [Exchanges -> Exchange]
       /\ \A y \in Exchanges : exchanges'[y] = IF y = x THEN NoExchange ELSE exchanges[y]
  BY <1>1 DEF Issue, Leave, NoExchange, Exchange, Proof
<1>14. OAuthTypeOK' /\ MembersExist' /\ RowsExist'
  BY <1>5, <1>12, <1>13, MembersStay DEF OAuthIInv, OAuthTypeOK, IInv, RowsExist, CodeOf,
     NoExchange
<1>15. ASSUME NEW y \in Exchanges
       PROVE  Alone(y)' /\ Minting(y)'
  <2>1. CASE y = x
    BY <1>7, <1>13, <2>1 DEF Alone, Minting, Claimant, NoExchange
  <2>2. CASE y # x
    <3>1. Minting(y)'
      BY <1>5, <1>7, <1>13, <2>2, MintingStays
    <3>2. Alone(y)
      BY DEF OAuthIInv
    <3>3. \A z \in Exchanges : Claimant(z)' => Claimant(z) /\ exchanges'[z] = exchanges[z]
      BY <1>13 DEF Claimant, NoExchange
    <3>4. Claimant(y)' => exchanges[y].code # k
      BY <1>3, <2>2, <3>3 DEF Alone
    <3>5. \A j \in Tokens : redeemed'[j] # NULL => redeemed'[j] = redeemed[j] \/ redeemed'[j].code = k
      BY <1>9, <1>11
    <3>6. Alone(y)'
      BY <1>5, <3>2, <3>3, <3>4, <3>5 DEF Alone, CodeOf
    <3> QED
      BY <3>1, <3>6
  <2> QED
    BY <2>1, <2>2
<1>16. Redeemed(t)' /\ Bound(t)'
  <2>1. /\ CodeOf(x).used
        /\ CodeOf(x).code_challenge \/ ClientOf(x).is_confidential
        /\ CodeOf(x).code_challenge => "verifier" \in exchanges[x].proof
        /\ ClientOf(x).is_confidential => "secret" \in exchanges[x].proof
    <3>1. CodeOf(x).used /\ Asked(x) # {} /\ Asked(x) \subseteq exchanges[x].proof
      BY <1>2, <1>3 DEF Alone, Minting
    <3>2. CodeOf(x).code_challenge <=> "verifier" \in Asked(x)
      BY Zenon DEF Asked
    <3>3. ClientOf(x).is_confidential <=> "secret" \in Asked(x)
      BY Zenon DEF Asked
    <3>4. Asked(x) \subseteq {"verifier", "secret"}
      BY DEF Asked
    <3> QED
      BY <3>1, <3>2, <3>3, <3>4
  <2>2. refresh_tokens'[t].user_id = CodeOf(x).user_id
        /\ refresh_tokens'[t].tenant_id = ClientOf(x).tenant_id
    BY <1>1, <1>2, <1>3, <1>6 DEF Minting, create_refresh_token
  <2> QED
    BY <1>4, <1>5, <1>8, <1>9, <1>11, <2>1, <2>2 DEF Redeemed, Bound, Exists, CodeOf,
       ClientOf
<1>17. \A j \in Tokens : Redeemed(j)' /\ Bound(j)'
  BY <1>5, <1>9, <1>16, BindingStays
<1>18. CodeBindsSession'
  BY <1>17 DEF CodeBindsSession, Bound
<1>19. CodeYieldsOneSession'
  BY <1>3, <1>9, <1>11 DEF OAuthIInv, CodeYieldsOneSession, Alone
<1> QED
  BY <1>14, <1>15, <1>17, <1>18, <1>19 DEF OAuthIInv

-----------------------------------------------------------------------------
(***************************************************************************)
(* The invariant holds, and what follows from it.                          *)
(***************************************************************************)
\* At first there are no clients, no codes and no exchanges.
LEMMA OAuthInitEstablishes ==
  OAuthInit => OAuthIInv
<1> SUFFICES ASSUME OAuthInit PROVE OAuthIInv
  OBVIOUS
<1>1. IInv /\ Init
  BY InitEstablishes DEF OAuthInit
<1>2. OAuthTypeOK
  BY <1>1 DEF OAuthInit, OAuthTypeOK, IInv, NoExchange, Exchange, Proof
<1>3. MembersExist
  BY <1>1 DEF Init, MembersExist
<1>4. \A x \in Exchanges : Alone(x) /\ Minting(x)
  BY <1>1, OAuthAssumption DEF OAuthInit, Init, Alone, Minting, Claimant, NoExchange
<1> QED
  BY <1>1, <1>2, <1>3, <1>4 DEF OAuthInit, OAuthIInv, RowsExist, NoExchange, Redeemed,
     CodeYieldsOneSession, CodeBindsSession

\* One case for each operation.
LEMMA OAuthStepPreserves ==
  ASSUME OAuthIInv, [OAuthNext]_oauth_vars
  PROVE  OAuthIInv'
<1>1. [Next]_vars
  BY OAuthStepIsStep
<1>2. IInv'
  BY <1>1, StepPreserves DEF OAuthIInv
<1>3. ASSUME NEW x \in Exchanges, ExchangeStep(x)
      PROVE  OAuthIInv'
  BY <1>1, <1>2, <1>3, ClaimPreserves, IssuePreserves, AbortExchangePreserves,
     CheckPreserves, PresentPreserves DEF ExchangeStep
<1> QED
  BY <1>2, <1>3, SessionStepPreserves, CodeStepPreserves, OAuthStutterPreserves DEF
     OAuthNext

\* The inductive invariant holds in every state.
THEOREM OAuthInvariance == OAuthSpec => []OAuthIInv
BY OAuthInitEstablishes, OAuthStepPreserves, PTL DEF OAuthSpec

\* The exchange implements Sessions: its sessions start as Sessions says, for
\* one who is a member when the exchange asks.
THEOREM ImplementsTheorem == OAuthSpec => ImplementsSessions
<1>1. OAuthInit => Init
  BY DEF OAuthInit
<1> QED
  BY <1>1, OAuthInvariance, OAuthStepIsStep, PTL DEF OAuthSpec, ImplementsSessions, Spec

\* The UPDATE ... AND used = false lets one exchange of a code through.
THEOREM OneSessionTheorem == OAuthSpec => []CodeYieldsOneSession
<1>1. OAuthIInv => CodeYieldsOneSession
  BY DEF OAuthIInv
<1> QED
  BY <1>1, OAuthInvariance, PTL

\* exchange_authorization_code binds the session to the user and organisation of
\* the code, and gives it to a caller who has shown it the verifier and the secret
\* that the code and the client require.
THEOREM BindingTheorem == OAuthSpec => []CodeBindsSession
<1>1. OAuthIInv => CodeBindsSession
  BY DEF OAuthIInv
<1> QED
  BY <1>1, OAuthInvariance, PTL

\* Only Claim changes the row of a code, and only by claiming it.
LEMMA CodesMove ==
  ASSUME OAuthIInv, OAuthNext, NEW k \in Codes
  PROVE  \/ oauth_authorization_codes[k] = NULL
            /\ (oauth_authorization_codes'[k] = NULL \/ ~oauth_authorization_codes'[k].used)
         \/ oauth_authorization_codes[k] # NULL /\ oauth_authorization_codes'[k] # NULL
            /\ (oauth_authorization_codes[k].used => oauth_authorization_codes'[k].used)
<1>1. ASSUME NEW j \in Codes, NEW c \in Clients, NEW u \in Users, NEW challenge \in BOOLEAN,
             create_authorization_code(j, c, u, challenge)
      PROVE  \/ oauth_authorization_codes'[k] = oauth_authorization_codes[k]
             \/ oauth_authorization_codes[k] = NULL /\ ~oauth_authorization_codes'[k].used
  BY <1>1 DEF OAuthIInv, OAuthTypeOK, create_authorization_code
<1>2. ASSUME NEW x \in Exchanges, Claim(x)
      PROVE  \/ oauth_authorization_codes'[k] = oauth_authorization_codes[k]
             \/ oauth_authorization_codes[k] # NULL /\ oauth_authorization_codes'[k] # NULL
                /\ oauth_authorization_codes'[k].used
  <2>1. oauth_authorization_codes[exchanges[x].code] \in CodeRow
    BY <1>2, ExchangeRows DEF Claim, CodeOf
  <2>2. [oauth_authorization_codes[exchanges[x].code] EXCEPT !.used = TRUE] \in CodeRow
        /\ [oauth_authorization_codes[exchanges[x].code] EXCEPT !.used = TRUE].used
    BY <2>1 DEF CodeRow
  <2> QED
    BY <1>2, <2>1, <2>2, NullIsNoOAuthRow DEF Claim, OAuthIInv, OAuthTypeOK
<1>3. ASSUME NEW x \in Exchanges, ExchangeStep(x), ~Claim(x)
      PROVE  oauth_authorization_codes' = oauth_authorization_codes
  BY <1>3 DEF ExchangeStep, Issue, AbortExchange, Check, Decide, Present
<1>4. (SessionStep /\ UNCHANGED oauth)
        \/ (\E c \in Clients, row \in Registrations : register_client(c, row))
      => oauth_authorization_codes' = oauth_authorization_codes
  BY DEF oauth, register_client
<1> QED
  BY <1>1, <1>2, <1>3, <1>4 DEF OAuthNext, CodeStep

\* Only Issue exchanges a token, for a code that was claimed and has yielded none.
LEMMA YieldMoves ==
  ASSUME OAuthIInv, OAuthNext, NEW k \in Codes
  PROVE  \/ Yield(k)' = Yield(k)
         \/ /\ oauth_authorization_codes[k] # NULL /\ oauth_authorization_codes[k].used
            /\ Yield(k) = {} /\ \E t \in Tokens : Yield(k)' = {t}
<1>1. redeemed' = redeemed => Yield(k)' = Yield(k)
  BY DEF Yield
<1>2. ASSUME NEW x \in Exchanges, Issue(x)
      PROVE  \/ Yield(k)' = Yield(k)
             \/ /\ oauth_authorization_codes[k] # NULL /\ oauth_authorization_codes[k].used
                /\ Yield(k) = {} /\ \E t \in Tokens : Yield(k)' = {t}
  <2> DEFINE j == exchanges[x].code
             new == [code |-> j, proof |-> exchanges[x].proof]
  <2>1. x \in Requests /\ exchanges[x].at = "issue"
    BY <1>2, OAuthAssumption DEF Issue, Mint, OAuthIInv, Minting, Idle
  <2>2. Alone(x) /\ Claimant(x) /\ CodeOf(x) # NULL
    BY <2>1, ExchangeRows, NullIsNoOAuthRow DEF OAuthIInv, Claimant
  <2>3. PICK t \in Tokens : minted[t] = NULL /\ \E o : minted' = [minted EXCEPT ![t] = o]
    BY <1>2 DEF Issue, Mint
  <2>4. /\ redeemed[t] = NULL
        /\ redeemed'[t] \in {NULL, new}
        /\ \A i \in Tokens \ {t} : redeemed'[i] = redeemed[i]
    BY <1>2, <2>3 DEF Issue, OAuthIInv, IInv, TypeOK, Redeemed
  <2>5. new # NULL /\ new.code = j
    <3>1. new \in Redemption
      BY <2>1, ExchangeRows DEF Redemption, OAuthIInv, OAuthTypeOK, Exchange
    <3> QED
      BY <3>1, NullIsNoOAuthRow
  <2> HIDE DEF new
  <2>6. CASE k = j
    <3>1. Yield(k) = {}
      BY <2>2, <2>6 DEF Alone, Yield
    <3>2. Yield(k)' \in {{}, {t}}
      BY <2>4, <3>1 DEF Yield
    <3> QED
      BY <2>2, <2>6, <3>1, <3>2 DEF Alone, CodeOf
  <2>7. CASE k # j
    BY <2>4, <2>5, <2>7 DEF Yield
  <2> QED
    BY <2>6, <2>7
<1>3. ASSUME NEW x \in Exchanges, ExchangeStep(x), ~Issue(x)
      PROVE  redeemed' = redeemed
  BY <1>3 DEF ExchangeStep, Claim, AbortExchange, Check, Decide, Present
<1>4. (SessionStep /\ UNCHANGED oauth) \/ CodeStep => redeemed' = redeemed
  BY DEF oauth, CodeStep, register_client, create_authorization_code
<1> QED
  BY <1>1, <1>2, <1>3, <1>4 DEF OAuthNext

\* Authorization codes are the one-time secrets of OneTime, for any number of codes, of
\* clients and of exchanges that run at the same time.
THEOREM CodesTheorem == OAuthSpec => CodesAreOneTime
<1> DEFINE stage(k) ==
             IF oauth_authorization_codes[k] = NULL THEN "new"
               ELSE IF oauth_authorization_codes[k].used THEN "spent" ELSE "live"
           yields == [k \in Codes |-> Cardinality(Yield(k))]
<1>1. OAuthInit => Code!Init
  <2> SUFFICES ASSUME OAuthInit PROVE Code!Init
    OBVIOUS
  <2>1. \A k \in Codes : Yield(k) = {} /\ oauth_authorization_codes[k] = NULL
    BY DEF OAuthInit, Yield
  <2> QED
    BY <2>1, FS_EmptySet DEF Code!Init
<1>2. OAuthIInv /\ [OAuthNext]_oauth_vars => [Code!Next]_<<[k \in Codes |-> stage(k)], yields>>
  <2> SUFFICES ASSUME OAuthIInv, OAuthNext
               PROVE  Code!Next
    <3>1. UNCHANGED oauth_vars => UNCHANGED <<[k \in Codes |-> stage(k)], yields>>
      BY DEF oauth_vars, oauth, Yield
    <3> QED
      BY <3>1
  <2>1. ASSUME NEW k \in Codes
        PROVE  Code!Advance(k) /\ (yields'[k] = yields[k] \/ Code!Take(k))
    <3>1. Code!Advance(k)
      BY CodesMove DEF Code!Advance
    <3>2. CASE Yield(k)' = Yield(k)
      BY <3>1, <3>2
    <3>3. CASE Yield(k)' # Yield(k)
      <4>1. oauth_authorization_codes[k] # NULL /\ oauth_authorization_codes[k].used
            /\ Yield(k) = {} /\ \E t \in Tokens : Yield(k)' = {t}
        BY <3>3, YieldMoves
      <4>2. Cardinality(Yield(k)) = 0 /\ Cardinality(Yield(k)') = 1
        BY <4>1, FS_EmptySet, FS_Singleton
      <4> QED
        BY <3>1, <4>1, <4>2, CodesMove DEF Code!Take
    <3> QED
      BY <3>2, <3>3
  <2> QED
    BY <2>1 DEF Code!Next
<1> QED
  BY <1>1, <1>2, OAuthInvariance, PTL DEF OAuthSpec, CodesAreOneTime, Code!Spec

\* So what is proved of sessions is true of those that codes start, refreshed or not:
\* their bindings are kept and sound, and what is revoked or wiped stays so.
THEOREM CodeSessionsTheorem ==
  OAuthSpec => /\ [](SuccessorSound /\ LineageKeepsScope /\ NoLateMint)
               /\ [](WipeIsFinal /\ ScopeSound)
               /\ RevokedForever
<1>1. Spec => [](SuccessorSound /\ LineageKeepsScope /\ NoLateMint)
  BY SuccessorSoundTheorem, LineageTheorem, NoLateMintTheorem, PTL
<1>2. Spec => [](WipeIsFinal /\ ScopeSound)
  BY WipeTheorem, ScopeTheorem, PTL
<1> QED
  BY <1>1, <1>2, RevokedForeverTheorem, ImplementsTheorem, PTL DEF ImplementsSessions

=============================================================================
