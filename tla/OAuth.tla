------------------------------- MODULE OAuth -------------------------------
(***************************************************************************)
(* The OIDC authorization codes and the sessions they start: clients are   *)
(* registered, a code is made for a member of the client's organisation,   *)
(* and exchanged, once, for a session bound to that organisation.  The     *)
(* session is then one of Sessions, refreshed and revoked like any other.  *)
(*                                                                         *)
(* An exchange takes a step per query whose result or effect matters.  The *)
(* redirect URI, which is compared together with the client, the texts     *)
(* (scope, nonce, id_token) and the hash of the verifier do not appear:    *)
(* a verifier or a secret is the right one or is not.                      *)
(***************************************************************************)
EXTENDS Sessions, FiniteSets

CONSTANTS
  Clients,        \* oauth_clients.client_id
  Codes,          \* authorization-code hashes, a pool that is never reused
  Exchanges,      \* the slots of Requests in which exchanges run
  CodeTTL,        \* the 5 minutes a code lasts
  Registrations  \* bound: the registrations of clients that are explored

ClientRow == [tenant_id: Tenants, is_confidential: BOOLEAN]

ASSUME OAuthAssumption ==
  /\ Registrations \subseteq ClientRow
  /\ CodeTTL \in Nat
  /\ Exchanges \subseteq Requests
  /\ NULL \notin Codes

VARIABLES
  oauth_clients,              \* oauth_clients[c]: the client's row, or NULL
  oauth_authorization_codes,  \* oauth_authorization_codes[k]: the code's row, or NULL
  exchanges,                  \* what each running exchange has read, and where it is
  redeemed                    \* history: the code each token was exchanged for and what
                              \* its caller had shown beside it, or NULL

oauth == <<oauth_clients, oauth_authorization_codes, exchanges, redeemed>>

oauth_vars == <<vars, oauth>>

\* `code_challenge`: one was stored.
CodeRow ==
  [client_id: Clients, user_id: Users, code_challenge: BOOLEAN, expires_at: Nat, used: BOOLEAN]

\* What a caller may have to show beside the code.
Proof == SUBSET {"verifier", "secret"}

\* An exchange is about to "claim" its code, to "check" the caller and the
\* membership, or to "issue" the tokens; for this it has a request of Sessions.
\* proof is history: what its caller showed, once he has passed the check.
Exchange ==
  [at: {"idle", "claim", "check", "issue"}, code: Codes \cup {NULL}, proof: Proof]

NoExchange == [at |-> "idle", code |-> NULL, proof |-> {}]

Redemption == [code: Codes, proof: Proof]

ASSUME NullIsNoOAuthRow == NULL \notin ClientRow \cup CodeRow \cup Redemption

OAuthInit ==
  /\ Init
  /\ oauth_clients = [c \in Clients |-> NULL]
  /\ oauth_authorization_codes = [k \in Codes |-> NULL]
  /\ exchanges = [x \in Exchanges |-> NoExchange]
  /\ redeemed = [t \in Tokens |-> NULL]

\* For the caller's active tenant.
register_client(c, row) ==
  /\ oauth_clients[c] = NULL
  /\ oauth_clients' = [oauth_clients EXCEPT ![c] = row]
  /\ UNCHANGED <<vars, oauth_authorization_codes, exchanges, redeemed>>

\* A membership that ends between the check and the INSERT is one that ends
\* right after it: nothing reads the code in between.
create_authorization_code(k, c, u, code_challenge) ==
  /\ oauth_authorization_codes[k] = NULL
  /\ oauth_clients[c] # NULL
  /\ <<u, oauth_clients[c].tenant_id>> \in memberships
  /\ oauth_authorization_codes' = [oauth_authorization_codes EXCEPT ![k] =
       [client_id |-> c, user_id |-> u, code_challenge |-> code_challenge,
        expires_at |-> now + CodeTTL, used |-> FALSE]]
  /\ UNCHANGED <<vars, oauth_clients, exchanges, redeemed>>

-----------------------------------------------------------------------------
(***************************************************************************)
(* exchange_authorization_code                                             *)
(***************************************************************************)
CodeOf(x) == oauth_authorization_codes[exchanges[x].code]

ClientOf(x) == oauth_clients[CodeOf(x).client_id]

Leave(x) == exchanges' = [exchanges EXCEPT ![x] = NoExchange]

\* The row is read; of what the handler goes on to use only `used` can change.
Present(x, k, c) ==
  /\ exchanges[x] = NoExchange
  /\ oauth_authorization_codes[k] # NULL
  /\ LET row == oauth_authorization_codes[k]
     IN  ~row.used /\ row.expires_at >= now /\ row.client_id = c
  /\ exchanges' = [exchanges EXCEPT ![x] = [NoExchange EXCEPT !.at = "claim", !.code = k]]
  /\ UNCHANGED <<vars, oauth_clients, oauth_authorization_codes, redeemed>>

\* Mutant: the UPDATE without `AND used = false`.
ClaimAnyRow(x) ==
  /\ exchanges[x].at = "claim"
  /\ exchanges' = [exchanges EXCEPT ![x].at = "check"]
  /\ oauth_authorization_codes' =
       [oauth_authorization_codes EXCEPT ![exchanges[x].code].used = TRUE]
  /\ UNCHANGED <<vars, oauth_clients, redeemed>>

\* Of several exchanges that have read the code unused, one claims it.
Claim(x) ==
  /\ exchanges[x].at = "claim"
  /\ IF CodeOf(x).used
       THEN Leave(x)
       ELSE exchanges' = [exchanges EXCEPT ![x].at = "check"]
  /\ oauth_authorization_codes' =
       [oauth_authorization_codes EXCEPT ![exchanges[x].code].used = TRUE]
  /\ UNCHANGED <<vars, oauth_clients, redeemed>>

\* The verifier if a challenge was stored, the secret if the client has one.
Asked(x) ==
  {p \in {"verifier", "secret"} :
     IF p = "verifier" THEN CodeOf(x).code_challenge ELSE ClientOf(x).is_confidential}

\* The caller, who shows proof, passes and the tokens are next, or is refused.
Decide(x, proof, passes) ==
  /\ exchanges[x].at = "check"
  /\ IF passes
       THEN /\ exchanges' = [exchanges EXCEPT ![x].at = "issue", ![x].proof = proof]
            /\ Begin(x, [Idle EXCEPT !.pc = "mint", !.user = CodeOf(x).user_id,
                                     !.tenant = ClientOf(x).tenant_id])
       ELSE Leave(x) /\ UNCHANGED req
  /\ UNCHANGED <<users, memberships, refresh_tokens, now, minted, wiped,
                 oauth_clients, oauth_authorization_codes, redeemed>>

IsMember(x) == <<CodeOf(x).user_id, ClientOf(x).tenant_id>> \in memberships

\* Mutant: what is asked for is not compared.
CheckUncompared(x, proof) == Decide(x, proof, Asked(x) # {} /\ IsMember(x))

\* Mutant: the check of membership made when the code was issued is believed.
CheckCaller(x, proof) == Decide(x, proof, Asked(x) # {} /\ Asked(x) \subseteq proof)

\* verify_pkce, the client's secret, the user's row and the membership.  What is
\* read before the membership is fixed by the code and the client, and a member
\* has a row.  A refusal leaves the code claimed.
Check(x, proof) ==
  Decide(x, proof, Asked(x) # {} /\ Asked(x) \subseteq proof /\ IsMember(x))

\* issue_tokens for the client's tenant, without a project.
Issue(x) ==
  /\ Mint(x)
  /\ redeemed' = [t \in Tokens |->
       IF minted[t] = NULL /\ minted'[t] # NULL
         THEN [code |-> exchanges[x].code, proof |-> exchanges[x].proof]
         ELSE redeemed[t]]
  /\ Leave(x)
  /\ UNCHANGED <<oauth_clients, oauth_authorization_codes>>

\* A query fails, also one whose effect is in the table, or the request is dropped.
AbortExchange(x) ==
  /\ exchanges[x] # NoExchange
  /\ Leave(x)
  /\ req' = [req EXCEPT ![x] = Idle]
  /\ UNCHANGED <<users, memberships, refresh_tokens, now, minted, wiped,
                 oauth_clients, oauth_authorization_codes, redeemed>>

ExchangeStep(x) ==
  \/ Claim(x) \/ Issue(x) \/ AbortExchange(x)
  \/ \E proof \in Proof : Check(x, proof)
  \/ \E k \in Codes, c \in Clients : Present(x, k, c)

CodeStep ==
  \E c \in Clients :
    \/ \E row \in Registrations : register_client(c, row)
    \/ \E k \in Codes, u \in Users, challenge \in BOOLEAN :
         create_authorization_code(k, c, u, challenge)

SessionStep ==
  \/ \E r \in Requests \ Exchanges : RequestStep(r)
  \/ AdminStep
  \/ \E t \in Tokens : Logout(t)
  \/ Tick

OAuthNext ==
  \/ SessionStep /\ UNCHANGED oauth
  \/ CodeStep
  \/ \E x \in Exchanges : ExchangeStep(x)

OAuthSpec == OAuthInit /\ [][OAuthNext]_oauth_vars

-----------------------------------------------------------------------------
(***************************************************************************)
(* Properties.                                                             *)
(***************************************************************************)
OAuthTypeOK ==
  /\ TypeOK
  /\ oauth_clients \in [Clients -> ClientRow \cup {NULL}]
  /\ oauth_authorization_codes \in [Codes -> CodeRow \cup {NULL}]
  /\ exchanges \in [Exchanges -> Exchange]
  /\ redeemed \in [Tokens -> Redemption \cup {NULL}]

(***************************************************************************)
(* "Single-use: atomically claim the code (closes the check-then-set       *)
(* race)": of all exchanges of one code, whatever each had read when it    *)
(* began, at most one starts a session.                                    *)
(***************************************************************************)
CodeYieldsOneSession ==
  \A t1, t2 \in Tokens :
    (redeemed[t1] # NULL /\ redeemed[t2] # NULL /\ redeemed[t1].code = redeemed[t2].code)
      => t1 = t2

(***************************************************************************)
(* A session started by a code is of the user the code was made for, in    *)
(* the organisation of the client it was made for, and went to a caller    *)
(* who had shown more than the code: the verifier, if the code was made    *)
(* with a challenge, and the client's secret, if the client has one; and   *)
(* there was something to show, "PKCE required for public clients".  What  *)
(* was shown is what the handler was given when it checked its caller.     *)
(***************************************************************************)
CodeBindsSession ==
  \A t \in Tokens :
    redeemed[t] # NULL =>
      LET row == oauth_authorization_codes[redeemed[t].code]
          client == oauth_clients[row.client_id]
      IN  /\ row.used
          /\ row.code_challenge \/ client.is_confidential
          /\ row.code_challenge => "verifier" \in redeemed[t].proof
          /\ client.is_confidential => "secret" \in redeemed[t].proof
          /\ Exists(t) =>
               /\ refresh_tokens[t].user_id = row.user_id
               /\ refresh_tokens[t].tenant_id = client.tenant_id

(***************************************************************************)
(* What Sessions says of the exchange is what its steps do: a session is   *)
(* started for one who is a member when the exchange asks, however old the *)
(* code and whatever was checked when it was made.  So the theorems about  *)
(* Sessions hold of the sessions that codes start.                         *)
(***************************************************************************)
ImplementsSessions == Spec

\* The tokens that code k was exchanged for.
Yield(k) == {t \in Tokens : redeemed[t] # NULL /\ redeemed[t].code = k}

Code == INSTANCE OneTime WITH
  Vouchers <- Codes,
  stage <- [k \in Codes |->
              IF oauth_authorization_codes[k] = NULL THEN "new"
                ELSE IF oauth_authorization_codes[k].used THEN "spent" ELSE "live"],
  effects <- [k \in Codes |-> Cardinality(Yield(k))]

(***************************************************************************)
(* An authorization code is claimed for good, before the caller is even    *)
(* checked: what an exchange that claimed it may still do, and after it    *)
(* failed nobody, is to start one session.                                 *)
(***************************************************************************)
CodesAreOneTime == Code!Spec

=============================================================================
