--------------------------- MODULE RecoveryProofs ---------------------------
(***************************************************************************)
(* Safety of account recovery, for any number of passwords, mails and      *)
(* handlers that run at the same time.                                     *)
(***************************************************************************)
EXTENDS Recovery, TLAPS

-----------------------------------------------------------------------------
(***************************************************************************)
(* The inductive invariant.  That a token works once rests on what spends  *)
(* it: between the UPDATE of the token and the one of the password a       *)
(* single handler has it.  That no session outlives its password rests on  *)
(* what sessions are started from: the handlers under way and the passes,  *)
(* whose password the user may have changed, are late or a wipe is due.    *)
(***************************************************************************)

\* A handler has what its next query needs.
Formed(r) ==
  /\ req[r].at = "insert" => req[r].kind \in {"verification", "reset"}
  /\ req[r].at \in {"issue", "challenge", "update"} => req[r].password \in Passwords

\* A token that was spent is never presented again: its row is marked, or was
\* deleted with the user, who never comes back.
Spent(m) == status = "gone" \/ (mails[m] # NULL /\ mails[m].consumed_at # NULL)

Setting(r, m) == req[r].at = "update" /\ req[r].mail = m

\* One handler at most has a spent token whose password is not set yet.
SpentOnce(m) ==
  /\ \A r \in Requests : Setting(r, m) => settings[m] = 0 /\ Spent(m)
  /\ \A r, q \in Requests : Setting(r, m) /\ Setting(q, m) => r = q
  /\ settings[m] # 0 => settings[m] = 1 /\ Spent(m)

SpentInTime(m) ==
  mails[m] # NULL /\ mails[m].consumed_at # NULL => mails[m].consumed_at < mails[m].expires_at

Verifies(m) ==
  mails[m] # NULL /\ mails[m].kind = "verification" /\ mails[m].consumed_at # NULL

\* The address is verified, or about to be, because a token mailed for it was spent.
VerifiedByMail ==
  status # "gone" /\ (email_verified \/ \E r \in Requests : req[r].at = "mark")
    => \E m \in Mails : Verifies(m)

WipeIsDue == unwiped \/ \E r \in Requests : req[r].at = "wipe"

\* A handler about to start a session has the password of the row, unless that was
\* changed and the sessions are to be wiped, or were.
StartsAreLate ==
  \A r \in Requests : Starting(r) =>
    req[r].password = password_hash \/ req[r].late \/ WipeIsDue

\* So has whatever may start one without the password.
PassesAreLate ==
  \A s \in passes : s.password = password_hash \/ s.late \/ WipeIsDue

IInv ==
  /\ TypeOK
  /\ \A r \in Requests : Formed(r)
  /\ \A m \in Mails : SpentOnce(m) /\ SpentInTime(m)
  /\ VerifiedByMail
  /\ StartsAreLate
  /\ PassesAreLate
  /\ NoSessionOnOldPassword

-----------------------------------------------------------------------------
\* A request for a mail writes nothing.
LEMMA RequestMailPreserves ==
  ASSUME IInv, NEW r \in Requests, NEW kind \in {"verification", "reset"}, RequestMail(r, kind)
  PROVE  IInv'
<1> USE DEF user, history
<1>1. TypeOK'
  BY DEF IInv, TypeOK, Request, Idle, RequestMail, Begin
<1>2. (\A q \in Requests : Formed(q))'
  BY DEF IInv, Formed, RequestMail, Begin
<1>3. (\A k \in Mails : SpentOnce(k))'
  BY DEF IInv, SpentOnce, Setting, Spent, RequestMail, Begin
<1>4. (\A k \in Mails : SpentInTime(k))'
  BY DEF IInv, SpentInTime, RequestMail
<1>5. VerifiedByMail'
  BY DEF IInv, VerifiedByMail, Verifies, RequestMail, Begin
<1>6. StartsAreLate'
  BY DEF IInv, StartsAreLate, Starting, WipeIsDue, Idle, RequestMail, Begin
<1>7. NoSessionOnOldPassword'
  BY DEF IInv, NoSessionOnOldPassword, Idle, RequestMail, Begin
<1>8. PassesAreLate'
  BY DEF IInv, PassesAreLate, WipeIsDue, Idle, RequestMail, Begin
<1> QED
  BY <1>1, <1>2, <1>3, <1>4, <1>5, <1>6, <1>7, <1>8 DEF IInv

\* A new mail is not spent.
LEMMA CreateMailPreserves ==
  ASSUME IInv, NEW r \in Requests, NEW m \in Mails, create_mail(r, m)
  PROVE  IInv'
<1> USE DEF user, history
<1>1. TypeOK'
  <2>1. req[r].kind \in {"verification", "reset"} /\ now \in Nat
    BY DEF IInv, TypeOK, Formed, create_mail
  <2>2. now + (IF req[r].kind = "reset" THEN ResetTTL ELSE VerificationTTL) \in Nat
    BY <2>1, RecoveryAssumption
  <2>3. mails' \in [Mails -> Mail \cup {NULL}]
    BY <2>1, <2>2 DEF IInv, TypeOK, Mail, create_mail
  <2> QED
    BY <2>3 DEF IInv, TypeOK, Request, Idle, create_mail, Return
<1>2. (\A q \in Requests : Formed(q))'
  BY DEF IInv, Formed, Idle, create_mail, Return
<1>3. (\A k \in Mails : SpentOnce(k))'
  BY DEF IInv, SpentOnce, Setting, Spent, Idle, create_mail, Return
<1>4. (\A k \in Mails : SpentInTime(k))'
  BY DEF IInv, SpentInTime, create_mail
<1>5. VerifiedByMail'
  BY DEF IInv, VerifiedByMail, Verifies, Idle, create_mail, Return
<1>6. StartsAreLate'
  BY DEF IInv, StartsAreLate, Starting, WipeIsDue, Idle, create_mail, Return
<1>7. NoSessionOnOldPassword'
  BY DEF IInv, NoSessionOnOldPassword, create_mail, Return
<1>8. PassesAreLate'
  BY DEF IInv, PassesAreLate, WipeIsDue, Idle, create_mail, Return
<1> QED
  BY <1>1, <1>2, <1>3, <1>4, <1>5, <1>6, <1>7, <1>8 DEF IInv

\* A token that verifies was not spent, nor was it too late.
LEMMA ConsumeVerificationPreserves ==
  ASSUME IInv, NEW r \in Requests, NEW m \in Mails, consume_email_verification(r, m)
  PROVE  IInv'
<1> USE DEF user, history
<1>1. TypeOK'
  <2>1. mails[m] \in Mail /\ now \in Nat
    BY DEF IInv, TypeOK, consume_email_verification, Consume
  <2>2. [mails[m] EXCEPT !.consumed_at = now] \in Mail
    BY <2>1 DEF Mail
  <2>3. mails' \in [Mails -> Mail \cup {NULL}]
    BY <2>2 DEF IInv, TypeOK, consume_email_verification, Consume
  <2> QED
    BY <2>3 DEF IInv, TypeOK, Request, Idle, consume_email_verification, Consume, Begin
<1>2. (\A q \in Requests : Formed(q))'
  BY DEF IInv, Formed, consume_email_verification, Consume, Begin
<1>3. (\A k \in Mails : SpentOnce(k))'
  BY DEF IInv, SpentOnce, Setting, Spent, consume_email_verification, Consume, Begin
<1>4. (\A k \in Mails : SpentInTime(k))'
  BY DEF IInv, SpentInTime, consume_email_verification, Consume
<1>5. VerifiedByMail'
  BY NullIsNoMail, RecoveryAssumption DEF IInv, VerifiedByMail, Verifies, TypeOK, Mail,
     consume_email_verification, Consume
<1>6. StartsAreLate'
  BY DEF IInv, StartsAreLate, Starting, WipeIsDue, Idle, consume_email_verification, Consume, Begin
<1>7. NoSessionOnOldPassword'
  BY DEF IInv, NoSessionOnOldPassword, Idle, consume_email_verification, Consume, Begin
<1>8. PassesAreLate'
  BY DEF IInv, PassesAreLate, WipeIsDue, Idle, consume_email_verification, Consume, Begin
<1> QED
  BY <1>1, <1>2, <1>3, <1>4, <1>5, <1>6, <1>7, <1>8 DEF IInv

\* The address is verified after the token was spent.
LEMMA MarkPreserves ==
  ASSUME IInv, NEW r \in Requests, mark_email_verified(r)
  PROVE  IInv'
<1> USE DEF user, history
<1>1. TypeOK'
  BY DEF IInv, TypeOK, Request, Idle, mark_email_verified, Return
<1>2. (\A q \in Requests : Formed(q))'
  BY DEF IInv, Formed, Idle, mark_email_verified, Return
<1>3. (\A k \in Mails : SpentOnce(k))'
  BY DEF IInv, SpentOnce, Setting, Spent, Idle, mark_email_verified, Return
<1>4. (\A k \in Mails : SpentInTime(k))'
  BY DEF IInv, SpentInTime, mark_email_verified
<1>5. VerifiedByMail'
  BY DEF IInv, VerifiedByMail, Verifies, mark_email_verified
<1>6. StartsAreLate'
  BY DEF IInv, StartsAreLate, Starting, WipeIsDue, Idle, mark_email_verified, Return
<1>7. NoSessionOnOldPassword'
  BY DEF IInv, NoSessionOnOldPassword, mark_email_verified, Return
<1>8. PassesAreLate'
  BY DEF IInv, PassesAreLate, WipeIsDue, Idle, mark_email_verified, Return
<1> QED
  BY <1>1, <1>2, <1>3, <1>4, <1>5, <1>6, <1>7, <1>8 DEF IInv

\* A token that resets was not spent, so no other handler has it.
LEMMA ConsumeResetPreserves ==
  ASSUME IInv, NEW r \in Requests, NEW m \in Mails, NEW p \in Passwords, consume_password_reset(r, m, p)
  PROVE  IInv'
<1> USE DEF user, history
<1>1. TypeOK'
  <2>1. mails[m] \in Mail /\ now \in Nat
    BY DEF IInv, TypeOK, consume_password_reset, Consume
  <2>2. [mails[m] EXCEPT !.consumed_at = now] \in Mail
    BY <2>1 DEF Mail
  <2>3. mails' \in [Mails -> Mail \cup {NULL}]
    BY <2>2 DEF IInv, TypeOK, consume_password_reset, Consume
  <2> QED
    BY <2>3 DEF IInv, TypeOK, Request, Idle, consume_password_reset, Consume, Begin
<1>2. (\A q \in Requests : Formed(q))'
  BY DEF IInv, Formed, consume_password_reset, Consume, Begin
<1>3. (\A k \in Mails : SpentOnce(k))'
  BY NullIsNoMail, RecoveryAssumption DEF IInv, SpentOnce, Setting, Spent, TypeOK, Mail,
     consume_password_reset, Consume, Begin
<1>4. (\A k \in Mails : SpentInTime(k))'
  BY DEF IInv, SpentInTime, consume_password_reset, Consume
<1>5. VerifiedByMail'
  BY DEF IInv, VerifiedByMail, Verifies, consume_password_reset, Consume, Begin
<1>6. StartsAreLate'
  BY DEF IInv, StartsAreLate, Starting, WipeIsDue, Idle, consume_password_reset, Consume, Begin
<1>7. NoSessionOnOldPassword'
  BY DEF IInv, NoSessionOnOldPassword, Idle, consume_password_reset, Consume, Begin
<1>8. PassesAreLate'
  BY DEF IInv, PassesAreLate, WipeIsDue, Idle, consume_password_reset, Consume, Begin
<1> QED
  BY <1>1, <1>2, <1>3, <1>4, <1>5, <1>6, <1>7, <1>8 DEF IInv

\* A change of password comes with no mail.
LEMMA ChangePasswordPreserves ==
  ASSUME IInv, NEW r \in Requests, NEW p \in Passwords, ChangePassword(r, p)
  PROVE  IInv'
<1> USE DEF user, history
<1>1. TypeOK'
  BY DEF IInv, TypeOK, Request, Idle, ChangePassword, Begin
<1>2. (\A q \in Requests : Formed(q))'
  BY DEF IInv, Formed, ChangePassword, Begin
<1>3. (\A k \in Mails : SpentOnce(k))'
  BY RecoveryAssumption DEF IInv, SpentOnce, Setting, Spent, Idle, ChangePassword, Begin
<1>4. (\A k \in Mails : SpentInTime(k))'
  BY DEF IInv, SpentInTime, ChangePassword
<1>5. VerifiedByMail'
  BY DEF IInv, VerifiedByMail, Verifies, ChangePassword, Begin
<1>6. StartsAreLate'
  BY DEF IInv, StartsAreLate, Starting, WipeIsDue, Idle, ChangePassword, Begin
<1>7. NoSessionOnOldPassword'
  BY DEF IInv, NoSessionOnOldPassword, Idle, ChangePassword, Begin
<1>8. PassesAreLate'
  BY DEF IInv, PassesAreLate, WipeIsDue, Idle, ChangePassword, Begin
<1> QED
  BY <1>1, <1>2, <1>3, <1>4, <1>5, <1>6, <1>7, <1>8 DEF IInv

\* Where a password changes, a wipe is due.
LEMMA UpdatePreserves ==
  ASSUME IInv, NEW r \in Requests, update_password(r)
  PROVE  IInv'
<1> USE DEF user, history
<1>1. TypeOK'
  <2>1. req[r].password \in Passwords
    BY DEF IInv, Formed, update_password
  <2>2. settings' \in [Mails -> Nat]
    BY DEF IInv, TypeOK, Request, update_password, OneMoreSetting
  <2>3. req' \in [Requests -> Request]
    BY DEF IInv, TypeOK, Request, Idle, update_password
  <2> QED
    BY <2>1, <2>2, <2>3 DEF IInv, TypeOK, update_password
<1>2. (\A q \in Requests : Formed(q))'
  BY DEF IInv, Formed, Idle, update_password, OneMoreSetting
<1>3. (\A k \in Mails : SpentOnce(k))'
  BY DEF IInv, SpentOnce, Setting, Spent, TypeOK, update_password, OneMoreSetting
<1>4. (\A k \in Mails : SpentInTime(k))'
  BY DEF IInv, SpentInTime, update_password, OneMoreSetting
<1>5. VerifiedByMail'
  BY DEF IInv, VerifiedByMail, Verifies, update_password, OneMoreSetting
<1>6. StartsAreLate'
  BY DEF IInv, StartsAreLate, Starting, WipeIsDue, TypeOK, update_password, OneMoreSetting
<1>7. NoSessionOnOldPassword'
  BY DEF IInv, NoSessionOnOldPassword, TypeOK, update_password, OneMoreSetting
<1>8. PassesAreLate'
  BY DEF IInv, PassesAreLate, WipeIsDue, TypeOK, update_password, OneMoreSetting
<1> QED
  BY <1>1, <1>2, <1>3, <1>4, <1>5, <1>6, <1>7, <1>8 DEF IInv

\* A wipe leaves no session, and each handler about to start one and each pass late.
LEMMA WipePreserves ==
  ASSUME IInv, NEW r \in Requests, revoke_all_user_refresh_tokens(r)
  PROVE  IInv'
<1> USE DEF user, history
<1>1. TypeOK'
  <2>1. passes' \subseteq Session /\ sessions' = {}
    BY DEF IInv, TypeOK, Session, revoke_all_user_refresh_tokens
  <2>2. req' \in [Requests -> Request]
    BY DEF IInv, TypeOK, Request, Idle, revoke_all_user_refresh_tokens
  <2> QED
    BY <2>1, <2>2 DEF IInv, TypeOK, revoke_all_user_refresh_tokens
<1>2. (\A q \in Requests : Formed(q))'
  BY DEF IInv, Formed, Idle, revoke_all_user_refresh_tokens
<1>3. (\A k \in Mails : SpentOnce(k))'
  BY DEF IInv, SpentOnce, Setting, Spent, Idle, revoke_all_user_refresh_tokens
<1>4. (\A k \in Mails : SpentInTime(k))'
  BY DEF IInv, SpentInTime, revoke_all_user_refresh_tokens
<1>5. VerifiedByMail'
  BY DEF IInv, VerifiedByMail, Verifies, Idle, revoke_all_user_refresh_tokens
<1>6. StartsAreLate'
  <2>1. ASSUME NEW q \in Requests, Starting(q)'
        PROVE  req'[q].late
    <3>1. q # r /\ req[q] \in Request /\ req'[q] = [req[q] EXCEPT !.late = @ \/ Starting(q)]
      BY <2>1 DEF IInv, TypeOK, Starting, Idle, revoke_all_user_refresh_tokens
    <3>2. Starting(q) /\ req'[q].late = (req[q].late \/ Starting(q))
      BY <2>1, <3>1 DEF Request, Starting
    <3> QED
      BY <3>2
  <2> QED
    BY <2>1 DEF StartsAreLate
<1>7. NoSessionOnOldPassword'
  BY DEF IInv, NoSessionOnOldPassword, revoke_all_user_refresh_tokens
<1>8. PassesAreLate'
  <2>1. \A s \in passes : [s EXCEPT !.late = TRUE].late
    BY DEF IInv, TypeOK, Session
  <2>2. \A s \in passes' : s.late
    BY <2>1 DEF revoke_all_user_refresh_tokens
  <2> QED
    BY <2>2 DEF PassesAreLate
<1> QED
  BY <1>1, <1>2, <1>3, <1>4, <1>5, <1>6, <1>7, <1>8 DEF IInv

\* A login verifies the password of the row.
LEMMA LoginPreserves ==
  ASSUME IInv, NEW r \in Requests, NEW at \in {"issue", "challenge"}, Login(r, at)
  PROVE  IInv'
<1> USE DEF user, history
<1>1. TypeOK'
  BY DEF IInv, TypeOK, Request, Idle, Login, Begin
<1>2. (\A q \in Requests : Formed(q))'
  BY DEF IInv, Formed, TypeOK, Login, Begin
<1>3. (\A k \in Mails : SpentOnce(k))'
  BY DEF IInv, SpentOnce, Setting, Spent, Login, Begin
<1>4. (\A k \in Mails : SpentInTime(k))'
  BY DEF IInv, SpentInTime, Login
<1>5. VerifiedByMail'
  BY DEF IInv, VerifiedByMail, Verifies, Login, Begin
<1>6. StartsAreLate'
  BY DEF IInv, StartsAreLate, Starting, WipeIsDue, Idle, Login, Begin
<1>7. NoSessionOnOldPassword'
  BY DEF IInv, NoSessionOnOldPassword, Idle, Login, Begin
<1>8. PassesAreLate'
  BY DEF IInv, PassesAreLate, WipeIsDue, Idle, Login, Begin
<1> QED
  BY <1>1, <1>2, <1>3, <1>4, <1>5, <1>6, <1>7, <1>8 DEF IInv

\* A handler that starts a session from another, or from a pass, is as late as that.
LEMMA ResumePreserves ==
  ASSUME IInv, NEW r \in Requests, NEW s \in sessions \cup passes, Resume(r, s)
  PROVE  IInv'
<1> USE DEF user, history
<1>1. s \in Session /\ (s.password = password_hash \/ s.late \/ WipeIsDue)
  BY DEF IInv, TypeOK, NoSessionOnOldPassword, PassesAreLate, WipeIsDue
<1> DEFINE q == [Idle EXCEPT !.at = "issue", !.password = s.password, !.late = s.late]
<1>2. q \in Request /\ q.at = "issue" /\ q.password = s.password /\ q.late = s.late
  BY <1>1 DEF Request, Session, Idle
<1>3. req' = [req EXCEPT ![r] = q] /\ req[r].at = "idle"
  BY DEF Resume, Begin, Idle
<1> HIDE DEF q
<1>4. \A p \in Requests : req'[p] = IF p = r THEN q ELSE req[p]
  BY <1>3 DEF IInv, TypeOK
<1>5. TypeOK' /\ (\A p \in Requests : Formed(p))'
  BY <1>1, <1>2, <1>3, <1>4 DEF IInv, TypeOK, Formed, Session, Resume
<1>6. (\A k \in Mails : SpentOnce(k) /\ SpentInTime(k))' /\ VerifiedByMail'
  BY <1>2, <1>4 DEF IInv, SpentOnce, Setting, Spent, SpentInTime, VerifiedByMail, Verifies,
     Resume
<1>7. WipeIsDue => WipeIsDue'
  BY <1>3, <1>4 DEF WipeIsDue, Resume
<1>8. StartsAreLate'
  BY <1>1, <1>2, <1>4, <1>7 DEF IInv, StartsAreLate, Starting, Resume
<1>9. NoSessionOnOldPassword' /\ PassesAreLate'
  BY <1>7 DEF IInv, NoSessionOnOldPassword, PassesAreLate, WipeIsDue, Resume
<1> QED
  BY <1>5, <1>6, <1>8, <1>9 DEF IInv

\* What is issued, a session or an MFA token, is as late as the handler.
LEMMA IssuedPreserves ==
  ASSUME IInv, NEW r \in Requests, Starting(r), Return(r),
         UNCHANGED <<user, mails, now, history>>,
         sessions' \in {sessions, sessions \cup {Issued(r)}},
         passes' \in {passes, passes \cup {Issued(r)}},
         status = "gone" => sessions' = sessions
  PROVE  IInv'
<1> USE DEF user, history
<1>1. Issued(r) \in Session /\ Issued(r).password = req[r].password /\ Issued(r).late = req[r].late
  BY DEF IInv, TypeOK, Formed, Request, Session, Starting, Issued
<1>2. req' \in [Requests -> Request]
      /\ \A p \in Requests : req'[p] = IF p = r THEN Idle ELSE req[p]
  BY DEF IInv, TypeOK, Request, Idle, Return
<1>3. TypeOK' /\ (\A p \in Requests : Formed(p))'
  BY <1>1, <1>2 DEF IInv, TypeOK, Formed, Idle
<1>4. (\A k \in Mails : SpentOnce(k) /\ SpentInTime(k))' /\ VerifiedByMail'
  BY <1>2 DEF IInv, SpentOnce, Setting, Spent, SpentInTime, VerifiedByMail, Verifies, Idle
<1>5. WipeIsDue => WipeIsDue'
  BY <1>2 DEF WipeIsDue, Starting
<1>6. StartsAreLate'
  BY <1>2, <1>5 DEF IInv, StartsAreLate, Starting, Idle
<1>7. Issued(r).password = password_hash \/ Issued(r).late \/ WipeIsDue
  BY <1>1 DEF IInv, StartsAreLate
<1> QED
  <2>1. \A s \in sessions' \cup passes' : s.password = password_hash \/ s.late \/ WipeIsDue
    BY <1>7 DEF IInv, NoSessionOnOldPassword, PassesAreLate, WipeIsDue
  <2>2. NoSessionOnOldPassword' /\ PassesAreLate'
    BY <1>5, <2>1 DEF NoSessionOnOldPassword, PassesAreLate, WipeIsDue
  <2> QED
    BY <1>3, <1>4, <1>6, <2>2 DEF IInv

\* Whatever starts a session, or ends with an MFA token.
LEMMA SessionStepPreserves ==
  ASSUME IInv, NEW r \in Requests, SessionStep(r)
  PROVE  IInv'
<1>1. ASSUME insert_refresh_token(r) \/ issue_mfa(r)
      PROVE  IInv'
  BY <1>1, IssuedPreserves DEF insert_refresh_token, issue_mfa, Starting
<1>2. ASSUME NEW s \in Session,
             \/ Refresh(r, s) \/ switch_tenant(r, s)
             \/ login_totp(r, s) \/ exchange_authorization_code(r, s)
      PROVE  IInv'
  <2>1. s \in sessions \cup passes /\ Resume(r, s)
    BY <1>2 DEF Refresh, switch_tenant, login_totp, exchange_authorization_code
  <2> QED
    BY <2>1, ResumePreserves
<1> QED
  BY <1>1, <1>2, LoginPreserves DEF SessionStep

\* A wipe that is dropped is not forgotten.
LEMMA AbortPreserves ==
  ASSUME IInv, NEW r \in Requests, Abort(r)
  PROVE  IInv'
<1> USE DEF user, history
<1>1. TypeOK'
  BY DEF IInv, TypeOK, Request, Idle, Abort, Return
<1>2. (\A q \in Requests : Formed(q))'
  BY DEF IInv, Formed, Idle, Abort, Return
<1>3. (\A k \in Mails : SpentOnce(k))'
  BY DEF IInv, SpentOnce, Setting, Spent, Idle, Abort, Return
<1>4. (\A k \in Mails : SpentInTime(k))'
  BY DEF IInv, SpentInTime, Abort
<1>5. VerifiedByMail'
  BY DEF IInv, VerifiedByMail, Verifies, Idle, Abort, Return
<1>6. StartsAreLate'
  BY DEF IInv, StartsAreLate, Starting, WipeIsDue, Idle, TypeOK, Abort, Return
<1>7. NoSessionOnOldPassword'
  BY DEF IInv, NoSessionOnOldPassword, TypeOK, Abort, Return
<1>8. PassesAreLate'
  BY DEF IInv, PassesAreLate, WipeIsDue, Idle, TypeOK, Abort, Return
<1> QED
  BY <1>1, <1>2, <1>3, <1>4, <1>5, <1>6, <1>7, <1>8 DEF IInv

\* A hard delete leaves no token to spend.
LEMMA DeletePreserves ==
  ASSUME IInv, NEW hard \in BOOLEAN, DeleteUser(hard)
  PROVE  IInv'
<1> USE DEF user, history
<1>1. TypeOK'
  BY DEF IInv, TypeOK, DeleteUser
<1>2. (\A q \in Requests : Formed(q))'
  BY DEF IInv, Formed, DeleteUser
<1>3. (\A k \in Mails : SpentOnce(k))'
  BY DEF IInv, SpentOnce, Setting, Spent, DeleteUser
<1>4. (\A k \in Mails : SpentInTime(k))'
  BY DEF IInv, SpentInTime, DeleteUser
<1>5. VerifiedByMail'
  BY DEF IInv, VerifiedByMail, Verifies, DeleteUser
<1>6. StartsAreLate'
  BY DEF IInv, StartsAreLate, Starting, WipeIsDue, DeleteUser
<1>7. NoSessionOnOldPassword'
  BY DEF IInv, NoSessionOnOldPassword, DeleteUser
<1>8. PassesAreLate'
  BY DEF IInv, PassesAreLate, WipeIsDue, DeleteUser
<1> QED
  BY <1>1, <1>2, <1>3, <1>4, <1>5, <1>6, <1>7, <1>8 DEF IInv

-----------------------------------------------------------------------------
(***************************************************************************)
(* The invariant holds, and with it the properties the run checks.         *)
(***************************************************************************)
\* At first nobody has begun, and there is neither mail nor session.
LEMMA InitEstablishes ==
  Init => IInv
<1> SUFFICES ASSUME Init PROVE IInv
  OBVIOUS
<1>1. TypeOK
  <2>1. 0 \in 0..MaxTime
    BY RecoveryAssumption
  <2>2. Idle \in Request
    BY DEF Idle, Request
  <2>3. req \in [Requests -> Request] /\ now \in 0..MaxTime
    BY <2>1, <2>2 DEF Init
  <2>4. mails \in [Mails -> Mail \cup {NULL}] /\ settings \in [Mails -> Nat]
    BY DEF Init
  <2> QED
    BY <2>3, <2>4 DEF Init, TypeOK
<1>2. /\ \A r \in Requests : req[r].at = "idle"
      /\ \A m \in Mails : mails[m] = NULL /\ settings[m] = 0
      /\ sessions = {} /\ passes = {} /\ ~email_verified
  BY DEF Init, Idle
<1> QED
  BY <1>1, <1>2 DEF IInv, Formed, SpentOnce, Setting, SpentInTime, VerifiedByMail,
     StartsAreLate, Starting, PassesAreLate, NoSessionOnOldPassword

\* Each step of a handler, a logout, a restored user, the clock, and stuttering.
LEMMA StepPreserves ==
  IInv /\ [Next]_vars => IInv'
<1> SUFFICES ASSUME IInv, [Next]_vars PROVE IInv'
  OBVIOUS
<1> USE DEF user, history
<1>1. ASSUME NEW r \in Requests, MailStep(r) PROVE IInv'
  BY <1>1, RequestMailPreserves, CreateMailPreserves, ConsumeVerificationPreserves,
     MarkPreserves DEF MailStep
<1>2. ASSUME NEW r \in Requests, PasswordStep(r) PROVE IInv'
  BY <1>2, ChangePasswordPreserves, ConsumeResetPreserves, UpdatePreserves, WipePreserves
     DEF PasswordStep
<1>3. ASSUME NEW r \in Requests, SessionStep(r) \/ Abort(r) PROVE IInv'
  BY <1>3, SessionStepPreserves, AbortPreserves
<1>4. ASSUME NEW s \in Session, Logout(s) \/ Expire(s) PROVE IInv'
  <2>1. sessions' \subseteq sessions /\ passes' \subseteq passes
        /\ UNCHANGED <<user, mails, req, now, history>>
    BY <1>4 DEF Logout, Expire
  <2>2. TypeOK' /\ NoSessionOnOldPassword' /\ PassesAreLate'
    BY <2>1 DEF IInv, TypeOK, NoSessionOnOldPassword, PassesAreLate, WipeIsDue
  <2> QED
    BY <2>1, <2>2 DEF IInv, Formed, SpentOnce, Setting, Spent, SpentInTime,
       VerifiedByMail, Verifies, StartsAreLate, Starting, WipeIsDue
<1>5. ASSUME NEW hard \in BOOLEAN, DeleteUser(hard) PROVE IInv'
  BY <1>5, DeletePreserves
<1>6. CASE RestoreUser
  BY <1>6 DEF RestoreUser, IInv, TypeOK, Formed, SpentOnce, Setting, Spent, SpentInTime,
     VerifiedByMail, Verifies, StartsAreLate, Starting, PassesAreLate, WipeIsDue,
     NoSessionOnOldPassword
<1>7. CASE Tick
  <2>1. now' \in 0..MaxTime
    BY <1>7, RecoveryAssumption DEF Tick, IInv, TypeOK
  <2> QED
    BY <1>7, <2>1 DEF Tick, IInv, TypeOK, Formed, SpentOnce, Setting, Spent, SpentInTime,
       VerifiedByMail, Verifies, StartsAreLate, Starting, PassesAreLate, WipeIsDue,
     NoSessionOnOldPassword
<1>8. CASE UNCHANGED vars
  BY <1>8 DEF vars, IInv, TypeOK, Formed, SpentOnce, Setting, Spent, SpentInTime,
     VerifiedByMail, Verifies, StartsAreLate, Starting, PassesAreLate, WipeIsDue,
     NoSessionOnOldPassword
<1> QED
  BY <1>1, <1>2, <1>3, <1>4, <1>5, <1>6, <1>7, <1>8 DEF Next

\* The inductive invariant holds always, however the handlers interleave and wherever
\* one of them is dropped.
THEOREM Invariance == Spec => []IInv
BY InitEstablishes, StepPreserves, PTL DEF Spec

\* Rows and handlers keep their types, and a hard delete leaves no row behind.
THEOREM TypeCorrect == Spec => []TypeOK
BY Invariance, PTL DEF IInv

\* A mailed token sets one password at most and is spent in time, and the address is
\* verified only by a token that was mailed to verify it.
THEOREM TokenTheorem == Spec => []TokenWorksOnce
<1>1. IInv => TokenWorksOnce
  BY DEF IInv, SpentOnce, SpentInTime, VerifiedByMail, Verifies, TokenWorksOnce
<1> QED
  BY <1>1, Invariance, PTL

\* No session outlives the password it rests on, whichever handler started it, but in
\* the cases the property names.
THEOREM OldPasswordTheorem == Spec => []NoSessionOnOldPassword
BY Invariance, PTL DEF IInv

\* What starts sessions leaves the user's row and his mails alone.
LEMMA SessionStepMoves ==
  ASSUME NEW r \in Requests, SessionStep(r)
  PROVE  UNCHANGED <<user, mails, history>>
BY DEF SessionStep, Login, insert_refresh_token, issue_mfa, Refresh, switch_tenant, login_totp,
   exchange_authorization_code, Resume

\* Where a mail stands changes in three ways only: it is sent, it is spent, or it goes
\* with the user, who never comes back.
LEMMA MailMoves ==
  ASSUME IInv, Next, NEW m \in Mails
  PROVE  /\ status = "gone" => status' = "gone"
         /\ status' = "gone" \/ mails'[m] = mails[m] \/ mails[m] = NULL
              \/ (mails'[m] # NULL /\ mails'[m].consumed_at # NULL)
<1> USE DEF user, history
<1>1. ASSUME NEW r \in Requests, NEW n \in Mails, create_mail(r, n)
      PROVE  status' = status /\ (mails'[m] = mails[m] \/ mails[m] = NULL)
  BY <1>1 DEF IInv, TypeOK, create_mail
<1>2. ASSUME NEW r \in Requests, NEW n \in Mails, NEW kind, NEW request, Consume(r, n, kind, request)
      PROVE  /\ status' = status
             /\ mails'[m] = mails[m] \/ (mails'[m] # NULL /\ mails'[m].consumed_at # NULL)
  <2>1. mails'[m] = IF m = n THEN [mails[n] EXCEPT !.consumed_at = now] ELSE mails[m]
    BY <1>2 DEF IInv, TypeOK, Consume
  <2>2. mails[n] \in Mail /\ now \in Nat /\ NULL \notin Nat
    BY <1>2, RecoveryAssumption DEF IInv, TypeOK, Consume
  <2>3. [mails[n] EXCEPT !.consumed_at = now] \in Mail
        /\ [mails[n] EXCEPT !.consumed_at = now].consumed_at = now
    BY <2>2 DEF Mail
  <2> QED
    BY <1>2, <2>1, <2>2, <2>3, NullIsNoMail DEF Consume
<1>3. ASSUME NEW hard \in BOOLEAN, DeleteUser(hard)
      PROVE  /\ status = "gone" => status' = "gone"
             /\ status' = "gone" \/ mails'[m] = mails[m]
  BY <1>3 DEF DeleteUser
<1>4. RestoreUser => status # "gone" /\ mails' = mails
  BY DEF RestoreUser
<1>5. ASSUME NEW r \in Requests,
             \/ \E kind \in {"verification", "reset"} : RequestMail(r, kind)
             \/ mark_email_verified(r)
             \/ \E p \in Passwords : ChangePassword(r, p)
             \/ update_password(r) \/ revoke_all_user_refresh_tokens(r)
             \/ SessionStep(r) \/ Abort(r)
      PROVE  UNCHANGED <<status, mails>>
  BY <1>5, SessionStepMoves DEF RequestMail, mark_email_verified, ChangePassword,
     update_password, revoke_all_user_refresh_tokens, Abort
<1>6. (\E s \in Session : Logout(s) \/ Expire(s)) \/ Tick => UNCHANGED <<status, mails>>
  BY DEF Logout, Expire, Tick
<1> QED
  BY <1>1, <1>2, <1>3, <1>4, <1>5, <1>6 DEF Next, MailStep, PasswordStep,
     consume_email_verification, consume_password_reset

\* Only update_password counts a setting, and only for the mail its handler has spent.
LEMMA SettingsMove ==
  ASSUME IInv, Next, NEW m \in Mails, settings'[m] # settings[m]
  PROVE  settings[m] = 0 /\ settings'[m] = 1 /\ Spent(m) /\ UNCHANGED <<status, mails>>
<1> USE DEF user, history
<1>1. ASSUME NEW r \in Requests, update_password(r)
      PROVE  settings[m] = 0 /\ settings'[m] = 1 /\ Spent(m) /\ UNCHANGED <<status, mails>>
  <2>1. Setting(r, m) /\ settings'[m] = settings[m] + 1
    BY <1>1 DEF IInv, TypeOK, update_password, OneMoreSetting, Setting
  <2> QED
    BY <1>1, <2>1 DEF IInv, SpentOnce, update_password
<1>2. ASSUME NEW r \in Requests, MailStep(r) PROVE settings' = settings
  BY <1>2 DEF MailStep, RequestMail, create_mail, consume_email_verification, Consume,
     mark_email_verified
<1>3. ASSUME NEW r \in Requests, PasswordStep(r), ~update_password(r) PROVE settings' = settings
  BY <1>3 DEF PasswordStep, ChangePassword, consume_password_reset, Consume,
     revoke_all_user_refresh_tokens
<1>4. ASSUME NEW r \in Requests, SessionStep(r) \/ Abort(r)
      PROVE  settings' = settings
  BY <1>4, SessionStepMoves DEF Abort
<1>5. ASSUME \/ \E s \in Session : Logout(s) \/ Expire(s)
             \/ \E hard \in BOOLEAN : DeleteUser(hard)
             \/ RestoreUser \/ Tick
      PROVE  settings' = settings
  BY <1>5 DEF Logout, Expire, DeleteUser, RestoreUser, Tick
<1>6. PICK r \in Requests : update_password(r)
  BY <1>2, <1>3, <1>4, <1>5 DEF Next
<1> QED
  BY <1>1, <1>6

\* Mailed tokens are the one-time secrets of OneTime, for any number of mails and of
\* handlers that present them, whether the user is deleted, restored or gone.
THEOREM MailsTheorem == Spec => MailsAreOneTime
<1> DEFINE stage(m) ==
      IF status = "gone" THEN "spent"
        ELSE IF mails[m] = NULL THEN "new"
        ELSE IF mails[m].consumed_at = NULL THEN "live" ELSE "spent"
<1>1. Init => Token!Init
  BY DEF Init, Token!Init
<1>2. IInv /\ IInv' /\ [Next]_vars => [Token!Next]_<<[m \in Mails |-> stage(m)], settings>>
  <2> SUFFICES ASSUME IInv, IInv', Next
               PROVE  Token!Next
    <3>1. UNCHANGED vars => UNCHANGED <<[m \in Mails |-> stage(m)], settings>>
      BY DEF vars, user, history
    <3> QED
      BY <3>1
  <2>1. DOMAIN settings' = Mails
    BY DEF IInv, TypeOK
  <2>2. ASSUME NEW m \in Mails
        PROVE  Token!Advance(m) /\ (settings'[m] = settings[m] \/ Token!Take(m))
    <3>1. Token!Advance(m)
      BY MailMoves DEF Token!Advance
    <3>2. settings'[m] = settings[m] \/ Token!Take(m)
      BY SettingsMove DEF Token!Take, Spent
    <3> QED
      BY <3>1, <3>2
  <2> QED
    BY <2>1, <2>2 DEF Token!Next
<1> QED
  BY <1>1, <1>2, Invariance, PTL DEF Spec, MailsAreOneTime, Token!Spec

=============================================================================
