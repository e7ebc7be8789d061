------------------------------ MODULE Recovery ------------------------------
(***************************************************************************)
(* One user's password and e-mail address: the tokens that are mailed to   *)
(* reset the one and verify the other, change_password, and what a new     *)
(* password means for the sessions that rest on the old one.  Handlers     *)
(* take one step per query.                                                *)
(*                                                                         *)
(* Of the handlers that insert a refresh token (login, login_totp,         *)
(* refresh, switch_tenant, exchange_authorization_code) there is only what *)
(* counts here: what the session to be started rests on is read, and the   *)
(* token inserted later; Login, Sessions and OAuth have the rest.  A       *)
(* password is its own hash.  Mail is always delivered, to the user.       *)
(***************************************************************************)
EXTENDS Naturals

CONSTANTS
  Passwords,            \* passwords that the user chooses from
  Mails,                \* token hashes of mails, never used again
  Requests,             \* slots for concurrently running handlers
  VerificationTTL,      \* the lifetime of a verification token
  ResetTTL,             \* the lifetime of a reset token
  RequireVerification,  \* require_email_verification()
  MaxTime,              \* bound on the clock
  NULL                  \* SQL NULL, or nothing

ASSUME RecoveryAssumption ==
  /\ {VerificationTTL, ResetTTL, MaxTime} \subseteq Nat
  /\ RequireVerification \in BOOLEAN
  /\ Passwords # {}
  /\ NULL \notin Passwords \cup Mails \cup Nat

VARIABLES
  password_hash,   \* of the user's row
  email_verified,  \* of the user's row
  status,          \* of the user: "active", "deleted" (deleted_at) or "gone"
  mails,           \* mails[m]: its row in email_verifications or password_resets
  sessions,        \* the live sessions, by the password each began with
  passes,          \* what else starts a session without the password: access tokens and
                   \* API keys, MFA tokens, refresh tokens rotated within the grace
                   \* period, and authorization codes
  req,             \* what each running handler has read, and where it is
  now,             \* the clock
  unwiped,         \* history: a handler stored a password and wiped no session, and
                   \* no other has wiped them since
  settings         \* history: how many passwords each mail has set

user == <<password_hash, email_verified, status>>
history == <<unwiped, settings>>

vars == <<user, mails, sessions, passes, req, now, history>>

Mail ==
  [kind: {"verification", "reset"}, expires_at: Nat, consumed_at: Nat \cup {NULL}]

ASSUME NullIsNoMail == NULL \notin Mail

(***************************************************************************)
(* A session is about to be "issue"d, or an MFA token as a "challenge"; a  *)
(* new password to be stored by "update" and the sessions to be "wipe"d; a *)
(* mail to be "insert"ed, or the address to be "mark"ed verified.          *)
(* password is the one the session rests on, or the new one, until stored; *)
(* mail the one spent for it; late says that the sessions were wiped since *)
(* the password was verified.                                              *)
(***************************************************************************)
Request ==
  [at: {"idle", "issue", "challenge", "update", "wipe", "insert", "mark"},
   kind: {"verification", "reset", NULL}, mail: Mails \cup {NULL},
   password: Passwords \cup {NULL}, late: BOOLEAN]

\* A session or a pass: the password it rests on, by however many others it came, and
\* whether the sessions were wiped since that password was verified.
Session == [password: Passwords, late: BOOLEAN]

Idle == [at |-> "idle", kind |-> NULL, mail |-> NULL, password |-> NULL, late |-> FALSE]

\* Handler r is past the check of what its session or MFA token is to rest on.
Starting(r) == req[r].at \in {"issue", "challenge"}

Begin(r, request) ==
  /\ req[r] = Idle
  /\ req' = [req EXCEPT ![r] = request]

Return(r) == req' = [req EXCEPT ![r] = Idle]

Init ==
  /\ password_hash \in Passwords
  /\ email_verified = FALSE
  /\ status = "active"
  /\ mails = [m \in Mails |-> NULL]
  /\ sessions = {}
  /\ passes = {}
  /\ req = [r \in Requests |-> Idle]
  /\ now = 0
  /\ unwiped = FALSE
  /\ settings = [m \in Mails |-> 0]

-----------------------------------------------------------------------------
(***************************************************************************)
(* Mailed tokens.                                                          *)
(***************************************************************************)
\* request_email_verification and request_password_reset find the user, deleted or not.
RequestMail(r, kind) ==
  /\ status # "gone"
  /\ Begin(r, [Idle EXCEPT !.at = "insert", !.kind = kind])
  /\ UNCHANGED <<user, mails, sessions, passes, now, history>>

\* The foreign key objects to a user deleted since.
create_mail(r, m) ==
  /\ req[r].at = "insert"
  /\ status # "gone"
  /\ mails[m] = NULL
  /\ mails' = [mails EXCEPT ![m] =
       [kind |-> req[r].kind, consumed_at |-> NULL,
        expires_at |-> now + IF req[r].kind = "reset" THEN ResetTTL ELSE VerificationTTL]]
  /\ Return(r)
  /\ UNCHANGED <<user, sessions, passes, now, history>>

\* The UPDATE that verify_email and reset_password begin with.
Consume(r, m, kind, request) ==
  /\ mails[m] # NULL
  /\ mails[m].kind = kind
  /\ mails[m].consumed_at = NULL
  /\ mails[m].expires_at > now
  /\ mails' = [mails EXCEPT ![m].consumed_at = now]
  /\ Begin(r, request)
  /\ UNCHANGED <<user, sessions, passes, now, history>>

consume_email_verification(r, m) ==
  Consume(r, m, "verification", [Idle EXCEPT !.at = "mark"])

mark_email_verified(r) ==
  /\ req[r].at = "mark"
  /\ email_verified' = (email_verified \/ status # "gone")
  /\ Return(r)
  /\ UNCHANGED <<password_hash, status, mails, sessions, passes, now, history>>

\* Mutant: the token is looked up, and spent by a later query.
LookUpReset(r, m, password) ==
  /\ mails[m] # NULL
  /\ mails[m].kind = "reset"
  /\ mails[m].expires_at > now
  /\ mails' = [mails EXCEPT ![m].consumed_at = now]
  /\ Begin(r, [Idle EXCEPT !.at = "update", !.mail = m, !.password = password])
  /\ UNCHANGED <<user, sessions, passes, now, history>>

consume_password_reset(r, m, password) ==
  Consume(r, m, "reset", [Idle EXCEPT !.at = "update", !.mail = m, !.password = password])

-----------------------------------------------------------------------------
(***************************************************************************)
(* Passwords and sessions.                                                 *)
(***************************************************************************)
\* The old password is verified, whether the user is deleted or not.
ChangePassword(r, password) ==
  /\ status # "gone"
  /\ Begin(r, [Idle EXCEPT !.at = "update", !.password = password])
  /\ UNCHANGED <<user, mails, sessions, passes, now, history>>

OneMoreSetting(r) ==
  settings' = IF req[r].mail = NULL THEN settings
                ELSE [settings EXCEPT ![req[r].mail] = @ + 1]

\* Mutant: a reset forgets the sessions.
UpdateOnly(r) ==
  /\ req[r].at = "update"
  /\ password_hash' = IF status = "gone" THEN password_hash ELSE req[r].password
  /\ OneMoreSetting(r)
  /\ IF req[r].mail = NULL THEN req' = [req EXCEPT ![r] = [Idle EXCEPT !.at = "wipe"]] ELSE Return(r)
  /\ UNCHANGED <<email_verified, status, mails, sessions, passes, now, unwiped>>

update_password(r) ==
  /\ req[r].at = "update"
  /\ password_hash' = IF status = "gone" THEN password_hash ELSE req[r].password
  /\ OneMoreSetting(r)
  /\ req' = [req EXCEPT ![r] = [Idle EXCEPT !.at = "wipe"]]
  /\ UNCHANGED <<email_verified, status, mails, sessions, passes, now, unwiped>>

\* The UPDATE reaches live refresh tokens alone: the passes, and the handlers that are
\* past their check, are late from now on.
revoke_all_user_refresh_tokens(r) ==
  /\ req[r].at = "wipe"
  /\ sessions' = {}
  /\ passes' = {[s EXCEPT !.late = TRUE] : s \in passes}
  /\ req' = [q \in Requests |->
       IF q = r THEN Idle ELSE [req[q] EXCEPT !.late = @ \/ Starting(q)]]
  /\ unwiped' = FALSE
  /\ UNCHANGED <<user, mails, now, settings>>

\* The row is read, and the right password verified; the user may have a second factor.
Login(r, at) ==
  /\ status = "active"
  /\ RequireVerification => email_verified
  /\ Begin(r, [Idle EXCEPT !.at = at, !.password = password_hash])
  /\ UNCHANGED <<user, mails, sessions, passes, now, history>>

\* A session is to be started that rests on what s does.
Resume(r, s) ==
  /\ status # "gone"
  /\ Begin(r, [Idle EXCEPT !.at = "issue", !.password = s.password, !.late = s.late])
  /\ UNCHANGED <<user, mails, sessions, passes, now, history>>

\* The token is live, or was rotated within the grace period; the user may be deleted.
\* The rotation leaves the successor in the place of the token presented.
Refresh(r, s) == s \in sessions \cup passes /\ Resume(r, s)

\* The gateway has validated the access token or API key; the user may be deleted since.
switch_tenant(r, s) == s \in passes /\ Resume(r, s)

\* With an MFA token and a code; the row is read of a user who is not deleted.
login_totp(r, s) == s \in passes /\ status = "active" /\ Resume(r, s)

\* With a code that was made on the strength of an access token, and is as late as that.
exchange_authorization_code(r, s) == s \in passes /\ Resume(r, s)

Issued(r) == [password |-> req[r].password, late |-> req[r].late]

\* Mutant: no foreign key.
InsertUnchecked(r) ==
  /\ req[r].at = "issue"
  /\ sessions' = sessions \cup {Issued(r)}
  /\ passes' = passes \cup {Issued(r)}
  /\ Return(r)
  /\ UNCHANGED <<user, mails, now, history>>

\* issue_tokens makes an access token and a refresh token, which may be rotated later;
\* the foreign key objects to a user deleted since.
insert_refresh_token(r) ==
  /\ req[r].at = "issue"
  /\ status # "gone"
  /\ sessions' = sessions \cup {Issued(r)}
  /\ passes' = passes \cup {Issued(r)}
  /\ Return(r)
  /\ UNCHANGED <<user, mails, now, history>>

\* The login of a user with a second factor ends with an MFA token.
issue_mfa(r) ==
  /\ req[r].at = "challenge"
  /\ passes' = passes \cup {Issued(r)}
  /\ Return(r)
  /\ UNCHANGED <<user, mails, sessions, now, history>>

\* logout, or the end of a session by other means.
Logout(s) ==
  /\ s \in sessions
  /\ sessions' = sessions \ {s}
  /\ UNCHANGED <<user, mails, passes, req, now, history>>

\* The last of these passes expires, or is denied, deleted or used.
Expire(s) ==
  /\ s \in passes
  /\ passes' = passes \ {s}
  /\ UNCHANGED <<user, mails, sessions, req, now, history>>

\* A query fails, a password cannot be hashed, or the request is dropped.  The wipe's
\* error is ignored, and nobody learns of it.
Abort(r) ==
  /\ req[r] # Idle
  /\ Return(r)
  /\ unwiped' = (unwiped \/ req[r].at = "wipe")
  /\ UNCHANGED <<user, mails, sessions, passes, now, settings>>

-----------------------------------------------------------------------------
\* A soft delete revokes the sessions, a hard one cascades to all there is.
DeleteUser(hard) ==
  /\ status # "gone"
  /\ status' = IF hard THEN "gone" ELSE "deleted"
  /\ sessions' = {}
  /\ mails' = IF hard THEN [m \in Mails |-> NULL] ELSE mails
  /\ UNCHANGED <<password_hash, email_verified, passes, req, now, history>>

RestoreUser ==
  /\ status = "deleted"
  /\ status' = "active"
  /\ UNCHANGED <<password_hash, email_verified, mails, sessions, passes, req, now, history>>

Tick ==
  /\ now < MaxTime
  /\ now' = now + 1
  /\ UNCHANGED <<user, mails, sessions, passes, req, history>>

MailStep(r) ==
  \/ \E kind \in {"verification", "reset"} : RequestMail(r, kind)
  \/ \E m \in Mails : create_mail(r, m) \/ consume_email_verification(r, m)
  \/ mark_email_verified(r)

PasswordStep(r) ==
  \/ \E p \in Passwords : ChangePassword(r, p) \/ \E m \in Mails : consume_password_reset(r, m, p)
  \/ update_password(r) \/ revoke_all_user_refresh_tokens(r)

SessionStep(r) ==
  \/ \E at \in {"issue", "challenge"} : Login(r, at)
  \/ insert_refresh_token(r) \/ issue_mfa(r)
  \/ \E s \in Session :
       Refresh(r, s) \/ switch_tenant(r, s) \/ login_totp(r, s) \/ exchange_authorization_code(r, s)

Next ==
  \/ \E r \in Requests : MailStep(r) \/ PasswordStep(r) \/ SessionStep(r) \/ Abort(r)
  \/ \E s \in Session : Logout(s) \/ Expire(s)
  \/ \E hard \in BOOLEAN : DeleteUser(hard)
  \/ RestoreUser
  \/ Tick

Spec == Init /\ [][Next]_vars

-----------------------------------------------------------------------------
(***************************************************************************)
(* Properties.                                                             *)
(***************************************************************************)
TypeOK ==
  /\ password_hash \in Passwords
  /\ email_verified \in BOOLEAN
  /\ status \in {"active", "deleted", "gone"}
  /\ mails \in [Mails -> Mail \cup {NULL}]
  /\ sessions \subseteq Session
  /\ passes \subseteq Session
  /\ req \in [Requests -> Request]
  /\ now \in 0..MaxTime
  /\ unwiped \in BOOLEAN
  /\ settings \in [Mails -> Nat]
  /\ status = "gone" => sessions = {} /\ \A m \in Mails : mails[m] = NULL

(***************************************************************************)
(* A mailed token works once, in time, and for what it was mailed: however *)
(* many handlers present it at the same time, it sets one password, and    *)
(* the address is verified only if a token mailed to verify it was spent.  *)
(***************************************************************************)
TokenWorksOnce ==
  /\ \A m \in Mails : settings[m] <= 1
  /\ \A m \in Mails :
       mails[m] # NULL /\ mails[m].consumed_at # NULL => mails[m].consumed_at < mails[m].expires_at
  /\ email_verified /\ status # "gone" =>
       \E m \in Mails : mails[m] # NULL /\ mails[m].kind = "verification"
                          /\ mails[m].consumed_at # NULL

(***************************************************************************)
(* "set a new one, revoke all refresh tokens" (change_password; also       *)
(* reset_password): no session outlives the password it rests on, by       *)
(* however many refreshes and other sessions it came of it.  But one may   *)
(* while the wipe is to come, or if its error was ignored, until a later   *)
(* password's wipe; and it is late if the wipe came after the password was *)
(* verified and could not reach what the session then came of:             *)
(*   - a handler that had read what it rests on (the row and password, a   *)
(*     live refresh token, or what follows) and had not inserted yet;      *)
(*   - a refresh token rotated no longer ago than the grace period;        *)
(*   - an access token or an API key, with which its bearer switches       *)
(*     tenant or has an authorization code made;                           *)
(*   - an MFA token, or such a code.                                       *)
(* A session that began after the wipe by none of these is on the          *)
(* password of the row.                                                    *)
(***************************************************************************)
NoSessionOnOldPassword ==
  \A s \in sessions :
    \/ s.password = password_hash
    \/ s.late
    \/ unwiped
    \/ \E r \in Requests : req[r].at = "wipe"

Token == INSTANCE OneTime WITH
  Vouchers <- Mails,
  stage <- [m \in Mails |->
              IF status = "gone" THEN "spent"
                ELSE IF mails[m] = NULL THEN "new"
                ELSE IF mails[m].consumed_at = NULL THEN "live" ELSE "spent"],
  effects <- settings

(***************************************************************************)
(* A mailed token stays spent: a password is set on behalf of the handler  *)
(* that spent it, though maybe after others were refused, and whatever is  *)
(* restored, no token is good again.                                       *)
(***************************************************************************)
MailsAreOneTime == Token!Spec

=============================================================================
