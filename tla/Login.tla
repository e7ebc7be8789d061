------------------------------- MODULE Login -------------------------------
(***************************************************************************)
(* One user's credentials: the login attempts and the lockout they lead    *)
(* to, the second factor (enrolment, activation, removal) and its recovery *)
(* codes.  The handlers login, login_totp, enroll_totp, activate_totp and  *)
(* disable_totp of that user run concurrently; each reads the user's row   *)
(* once and then runs its updates one query at a time, and so it does      *)
(* here: a request is a slot of `req` that takes one step per query.       *)
(*                                                                         *)
(* Rows of different users do not interact.  The TOTP code of a secret is  *)
(* the secret itself.  deleted_at and email_verified do not appear: they   *)
(* only refuse a right password or code, before any update.                *)
(***************************************************************************)
EXTENDS Naturals, FiniteSets

CONSTANTS
  Secrets,      \* TOTP secrets that enrolments can generate
  CodeCount,    \* recovery codes per enrolment (10 in the code)
  Requests,     \* slots for concurrently running handlers
  MaxFailures,  \* login_max_failures()
  LockoutTime,  \* login_lockout_secs()
  MfaTTL,       \* MFA_TOKEN_TTL_SECS
  MaxTime,      \* bound on the clock
  MaxMisses,    \* bound on the history variables that count misses
  MaxFaults,    \* bound on failed queries and dropped requests
  NULL          \* SQL NULL, or nothing

ASSUME LoginAssumption ==
  /\ CodeCount \in Nat
  /\ MaxFailures \in Nat \ {0}
  /\ {LockoutTime, MfaTTL, MaxTime, MaxMisses, MaxFaults} \subseteq Nat
  /\ IsFiniteSet(Requests)
  /\ NULL \notin Secrets

VARIABLES
  user,       \* the columns of the user's row that these handlers write
  codes,      \* unspent rows of totp_recovery_codes
  req,        \* what each running handler has read, and the query it is at
  mfa_until,  \* when the last MFA token issued expires
  generated,  \* secrets generated so far
  known,      \* secrets the user was shown, with their recovery codes
  now,        \* the clock
  misses,     \* history: wrong passwords and codes since the last lock or success
  uncounted,  \* history: of these, how many handlers failed to count theirs
  mfa_misses, \* history: wrong codes since the last lock or accepted code
  proven,     \* history: secrets activate_totp has seen a valid code of
  uses,       \* history: how often each recovery code was accepted
  faults,     \* history: failed queries and dropped requests
  undeleted,  \* history: the latest delete_recovery_codes failed, and was ignored
  overlapped  \* history: handlers of the second factor have overlapped, and none
              \* has written the row alone since

secrets == <<generated, known>>
tries == <<misses, uncounted, mfa_misses>>
slips == <<undeleted, overlapped>>

vars == <<user, codes, req, mfa_until, secrets, now, tries, proven, uses, faults, slips>>

RecoveryCode == Secrets \X (1..CodeCount)

ASSUME CodesAreNoSecrets == RecoveryCode \cap (Secrets \cup {NULL}) = {}

\* What a user can type: a TOTP or recovery code they know, or a wrong one.
Typed == known \cup {c \in RecoveryCode : c[1] \in known} \cup {NULL}

\* locked_until = 0 is SQL NULL: never in the future.
UserRow ==
  [failed_login_attempts: Nat, locked_until: Nat,
   totp_secret: Secrets \cup {NULL}, totp_enabled: BOOLEAN]

(***************************************************************************)
(* A request: the query it is about to run, the handler it belongs to, the *)
(* totp_enabled and totp_secret it has read (or generated), the code typed, *)
(* the lock it is about to set, and the recovery codes it has inserted.    *)
(***************************************************************************)
Request ==
  [at: {"idle", "increment", "lock", "reset", "consume", "disable", "delete", "set", "insert",
        "enable"},
   of: {"none", "login", "login_totp", "enroll", "activate", "disable"},
   enabled: BOOLEAN, secret: Secrets \cup {NULL},
   code: Secrets \cup RecoveryCode \cup {NULL}, until: Nat, inserted: 0..CodeCount]

Idle ==
  [at |-> "idle", of |-> "none", enabled |-> FALSE, secret |-> NULL, code |-> NULL,
   until |-> 0, inserted |-> 0]

Init ==
  /\ user = [failed_login_attempts |-> 0, locked_until |-> 0,
             totp_secret |-> NULL, totp_enabled |-> FALSE]
  /\ codes = {}
  /\ req = [r \in Requests |-> Idle]
  /\ mfa_until = 0
  /\ generated = {}
  /\ known = {}
  /\ now = 0
  /\ misses = 0
  /\ uncounted = 0
  /\ mfa_misses = 0
  /\ proven = {}
  /\ uses = [c \in RecoveryCode |-> 0]
  /\ faults = 0
  /\ undeleted = FALSE
  /\ overlapped = FALSE

Locked == user.locked_until > now

OneMore(n) == IF n < MaxMisses THEN n + 1 ELSE n

Begin(r, request) ==
  /\ req[r] = Idle
  /\ req' = [req EXCEPT ![r] = request]

\* Another handler of the second factor than r's is running.
Disturbed(r) == \E q \in Requests \ {r} : req[q].of \in {"enroll", "activate", "disable"}

\* A handler of the second factor begins.
BeginTotp(r, request) ==
  /\ Begin(r, request)
  /\ overlapped' = (overlapped \/ Disturbed(r))
  /\ UNCHANGED undeleted

\* One that runs alone writes secret and flag together: what came before is undone.
WriteTotp(r, secret) ==
  /\ user' = [user EXCEPT !.totp_secret = secret, !.totp_enabled = FALSE]
  /\ overlapped' = (overlapped /\ Disturbed(r))
  /\ UNCHANGED undeleted

-----------------------------------------------------------------------------
(***************************************************************************)
(* Logging in.                                                             *)
(***************************************************************************)
\* The row is read, the lock tested and the password verified.
Login(r, correct) ==
  /\ ~Locked
  /\ Begin(r, [Idle EXCEPT !.at = IF correct THEN "reset" ELSE "increment",
                           !.of = "login", !.enabled = user.totp_enabled])
  /\ misses' = IF correct THEN misses ELSE OneMore(misses)
  /\ UNCHANGED <<user, codes, mfa_until, secrets, now, uncounted, mfa_misses, proven, uses,
                 faults, slips>>

\* The MFA token, the row and the lock are tested, and the code against the
\* TOTP secret; any other code may be a recovery code.
LoginTotp(r, code) ==
  /\ now < mfa_until
  /\ user.totp_enabled /\ user.totp_secret # NULL
  /\ ~Locked
  /\ Begin(r, [Idle EXCEPT !.at = IF code = user.totp_secret THEN "reset" ELSE "consume",
                           !.of = "login_totp", !.code = code])
  /\ UNCHANGED <<user, codes, mfa_until, secrets, now, tries, proven, uses, faults, slips>>

\* Mutant: one failure too many before the lock.
IncrementAndLockLate(r) ==
  /\ req[r].at = "increment"
  /\ user' = [user EXCEPT !.failed_login_attempts = @ + 1]
  /\ req' = [req EXCEPT ![r] =
       IF user.failed_login_attempts + 1 > MaxFailures
         THEN [@ EXCEPT !.at = "lock", !.until = now + LockoutTime]
         ELSE Idle]
  /\ UNCHANGED <<codes, mfa_until, secrets, now, tries, proven, uses, faults, slips>>

\* A wrong password or code: the counter, and at its limit the lock, whose end
\* is computed here and stored by the next query.
increment_login_failure(r) ==
  /\ req[r].at = "increment"
  /\ user' = [user EXCEPT !.failed_login_attempts = @ + 1]
  /\ req' = [req EXCEPT ![r] =
       IF user.failed_login_attempts + 1 >= MaxFailures
         THEN [@ EXCEPT !.at = "lock", !.until = now + LockoutTime]
         ELSE Idle]
  /\ UNCHANGED <<codes, mfa_until, secrets, now, tries, proven, uses, faults, slips>>

lock_user(r) ==
  /\ req[r].at = "lock"
  /\ user' = [user EXCEPT !.locked_until = req[r].until, !.failed_login_attempts = 0]
  /\ req' = [req EXCEPT ![r] = Idle]
  /\ misses' = 0
  /\ uncounted' = 0
  /\ mfa_misses' = 0
  /\ UNCHANGED <<codes, mfa_until, secrets, now, proven, uses, faults, slips>>

\* A right password or code.  The MFA token follows if the row read said so,
\* the session (see Sessions) otherwise; an error of the query is ignored.
reset_login_state(r) ==
  /\ req[r].at = "reset"
  /\ \/ /\ user' = [user EXCEPT !.failed_login_attempts = 0, !.locked_until = 0]
        /\ UNCHANGED faults
     \/ /\ faults < MaxFaults
        /\ faults' = faults + 1
        /\ UNCHANGED user
  /\ mfa_until' = IF req[r].of = "login" /\ req[r].enabled THEN now + MfaTTL ELSE mfa_until
  /\ misses' = 0
  /\ uncounted' = 0
  /\ mfa_misses' = IF req[r].of = "login_totp" THEN 0 ELSE mfa_misses
  /\ req' = [req EXCEPT ![r] = Idle]
  /\ UNCHANGED <<codes, secrets, now, proven, uses, slips>>

\* Mutant: the code is looked up when the handler starts, and only spent later.
ConsumeUnchecked(r) ==
  /\ req[r].at = "consume"
  /\ LET code == req[r].code
         found == code # NULL
         mfa == req[r].of = "login_totp"
     IN  /\ codes' = codes \ {code}
         /\ uses' = IF code \in RecoveryCode THEN [uses EXCEPT ![code] = @ + 1] ELSE uses
         /\ misses' = IF mfa /\ ~found THEN OneMore(misses) ELSE misses
         /\ mfa_misses' = IF mfa /\ ~found THEN OneMore(mfa_misses) ELSE mfa_misses
         /\ req' = [req EXCEPT ![r] =
              CASE mfa /\ found  -> [@ EXCEPT !.at = "reset"]
                [] mfa /\ ~found -> [@ EXCEPT !.at = "increment"]
                [] ~mfa /\ found -> [@ EXCEPT !.at = "disable"]
                [] OTHER         -> Idle]
  /\ UNCHANGED <<user, mfa_until, secrets, now, uncounted, proven, faults, slips>>

\* The UPDATE that spends a recovery code tells login_totp and disable_totp
\* whether the code was one.
consume_recovery_code(r) ==
  /\ req[r].at = "consume"
  /\ LET code == req[r].code
         found == code \in codes
         mfa == req[r].of = "login_totp"
     IN  /\ codes' = codes \ {code}
         /\ uses' = IF found THEN [uses EXCEPT ![code] = @ + 1] ELSE uses
         /\ misses' = IF mfa /\ ~found THEN OneMore(misses) ELSE misses
         /\ mfa_misses' = IF mfa /\ ~found THEN OneMore(mfa_misses) ELSE mfa_misses
         /\ req' = [req EXCEPT ![r] =
              CASE mfa /\ found  -> [@ EXCEPT !.at = "reset"]
                [] mfa /\ ~found -> [@ EXCEPT !.at = "increment"]
                [] ~mfa /\ found -> [@ EXCEPT !.at = "disable"]
                [] OTHER         -> Idle]
  /\ UNCHANGED <<user, mfa_until, secrets, now, uncounted, proven, faults, slips>>

-----------------------------------------------------------------------------
(***************************************************************************)
(* The second factor.                                                      *)
(***************************************************************************)
\* Mutant: a user with working 2FA may enrol again.
EnrollAgain(r, secret) ==
  /\ secret \notin generated
  /\ generated' = generated \cup {secret}
  /\ BeginTotp(r, [Idle EXCEPT !.at = "set", !.of = "enroll", !.secret = secret])
  /\ UNCHANGED <<user, codes, mfa_until, known, now, tries, proven, uses, faults>>

EnrollTotp(r, secret) ==
  /\ ~user.totp_enabled
  /\ secret \notin generated
  /\ generated' = generated \cup {secret}
  /\ BeginTotp(r, [Idle EXCEPT !.at = "set", !.of = "enroll", !.secret = secret])
  /\ UNCHANGED <<user, codes, mfa_until, known, now, tries, proven, uses, faults>>

\* Mutant: the codes of an earlier enrolment are left.
SetSecretKeepCodes(r) ==
  /\ req[r].at = "set"
  /\ WriteTotp(r, req[r].secret)
  /\ req' = [req EXCEPT ![r].at = "insert"]
  /\ UNCHANGED <<codes, mfa_until, secrets, now, tries, proven, uses, faults>>

set_totp_secret(r) ==
  /\ req[r].at = "set"
  /\ WriteTotp(r, req[r].secret)
  /\ req' = [req EXCEPT ![r].at = "delete"]
  /\ UNCHANGED <<codes, mfa_until, secrets, now, tries, proven, uses, faults>>

\* An error is ignored, by enroll_totp and by disable_totp.
delete_recovery_codes(r) ==
  /\ req[r].at = "delete"
  /\ \/ /\ codes' = {}
        /\ undeleted' = FALSE
        /\ UNCHANGED faults
     \/ /\ faults < MaxFaults
        /\ faults' = faults + 1
        /\ undeleted' = TRUE
        /\ UNCHANGED codes
  /\ req' = [req EXCEPT ![r] =
       IF @.of = "enroll" THEN [@ EXCEPT !.at = "insert"] ELSE Idle]
  /\ UNCHANGED <<user, mfa_until, secrets, now, tries, proven, uses, overlapped>>

\* Mutant: the loop runs once too often.
InsertOneMore(r) ==
  /\ req[r].at = "insert"
  /\ codes' = codes \cup {<<req[r].secret, req[r].inserted + 1>>}
  /\ IF req[r].inserted < CodeCount
       THEN /\ req' = [req EXCEPT ![r].inserted = @ + 1]
            /\ UNCHANGED known
       ELSE /\ known' = known \cup {req[r].secret}
            /\ req' = [req EXCEPT ![r] = Idle]
  /\ UNCHANGED <<user, mfa_until, generated, now, tries, proven, uses, faults, slips>>

\* The loop of inserts; the secret and the codes are shown when it is done.
insert_recovery_code(r) ==
  /\ req[r].at = "insert"
  /\ IF req[r].inserted < CodeCount
       THEN /\ codes' = codes \cup {<<req[r].secret, req[r].inserted + 1>>}
            /\ req' = [req EXCEPT ![r].inserted = @ + 1]
            /\ UNCHANGED known
       ELSE /\ known' = known \cup {req[r].secret}
            /\ req' = [req EXCEPT ![r] = Idle]
            /\ UNCHANGED codes
  /\ UNCHANGED <<user, mfa_until, generated, now, tries, proven, uses, faults, slips>>

\* Mutant: any code activates.
ActivateUnproven(r, code) ==
  /\ user.totp_secret # NULL
  /\ BeginTotp(r, [Idle EXCEPT !.at = "enable", !.of = "activate"])
  /\ proven' = proven \cup (IF code = user.totp_secret THEN {code} ELSE {})
  /\ UNCHANGED <<user, codes, mfa_until, secrets, now, tries, uses, faults>>

\* The stored secret is read and the code validated against that copy.
ActivateTotp(r, code) ==
  /\ user.totp_secret # NULL
  /\ code = user.totp_secret
  /\ BeginTotp(r, [Idle EXCEPT !.at = "enable", !.of = "activate"])
  /\ proven' = proven \cup {code}
  /\ UNCHANGED <<user, codes, mfa_until, secrets, now, tries, uses, faults>>

enable_totp(r) ==
  /\ req[r].at = "enable"
  /\ user' = [user EXCEPT !.totp_enabled = TRUE]
  /\ req' = [req EXCEPT ![r] = Idle]
  /\ UNCHANGED <<codes, mfa_until, secrets, now, tries, proven, uses, faults, slips>>

\* A user without 2FA succeeds at once; a wrong code is not counted.
DisableTotp(r, code) ==
  /\ user.totp_enabled
  /\ BeginTotp(r, [Idle EXCEPT
       !.at = IF user.totp_secret # NULL /\ code = user.totp_secret THEN "disable" ELSE "consume",
       !.of = "disable", !.code = code])
  /\ UNCHANGED <<user, codes, mfa_until, secrets, now, tries, proven, uses, faults>>

disable_totp(r) ==
  /\ req[r].at = "disable"
  /\ WriteTotp(r, NULL)
  /\ req' = [req EXCEPT ![r].at = "delete"]
  /\ UNCHANGED <<codes, mfa_until, secrets, now, tries, proven, uses, faults>>

\* A query fails and the handler returns, or the request is dropped.
Abort(r) ==
  /\ faults < MaxFaults
  /\ req[r] # Idle
  /\ req' = [req EXCEPT ![r] = Idle]
  /\ faults' = faults + 1
  /\ uncounted' = uncounted + IF req[r].at \in {"increment", "lock"} THEN 1 ELSE 0
  /\ UNCHANGED <<user, codes, mfa_until, secrets, now, misses, mfa_misses, proven, uses, slips>>

Tick ==
  /\ now < MaxTime
  /\ now' = now + 1
  /\ UNCHANGED <<user, codes, req, mfa_until, secrets, tries, proven, uses, faults, slips>>

-----------------------------------------------------------------------------
LoginStep(r) ==
  \/ \E correct \in BOOLEAN : Login(r, correct)
  \/ \E code \in Typed : LoginTotp(r, code)
  \/ increment_login_failure(r) \/ lock_user(r) \/ reset_login_state(r)
  \/ consume_recovery_code(r)

TotpStep(r) ==
  \/ \E secret \in Secrets : EnrollTotp(r, secret)
  \/ set_totp_secret(r) \/ delete_recovery_codes(r) \/ insert_recovery_code(r)
  \/ \E code \in Typed : ActivateTotp(r, code) \/ DisableTotp(r, code)
  \/ enable_totp(r) \/ disable_totp(r)

Next ==
  \/ \E r \in Requests : LoginStep(r) \/ TotpStep(r) \/ Abort(r)
  \/ Tick

Spec == Init /\ [][Next]_vars

-----------------------------------------------------------------------------
(***************************************************************************)
(* Properties.                                                             *)
(***************************************************************************)
TypeOK ==
  /\ user \in UserRow
  /\ codes \subseteq RecoveryCode
  /\ req \in [Requests -> Request]
  /\ mfa_until \in Nat
  /\ known \subseteq generated /\ generated \subseteq Secrets
  /\ now \in 0..MaxTime
  /\ {misses, mfa_misses} \subseteq 0..MaxMisses
  /\ proven \subseteq Secrets
  /\ uses \in [RecoveryCode -> Nat]
  /\ uncounted \in Nat
  /\ faults \in 0..MaxFaults
  /\ {undeleted, overlapped} \subseteq BOOLEAN

Uncounted == Cardinality({r \in Requests : req[r].at \in {"increment", "lock"}})

(***************************************************************************)
(* The lockout: between two locks, right passwords or accepted codes,      *)
(* fewer wrong passwords and codes are verified than login_max_failures(), *)
(* apart from those of requests that had read the row before the lock was  *)
(* stored, and of requests that failed before they could count theirs.     *)
(***************************************************************************)
TriesBounded == misses < MaxFailures + uncounted + Uncounted

(***************************************************************************)
(* What "it gets the same lockout as the password step" says of the second *)
(* factor: between two locks or accepted codes, fewer wrong codes are      *)
(* verified than login_max_failures(), even if every fault excuses one.    *)
(***************************************************************************)
MfaTriesBounded == mfa_misses < MaxFailures + faults + Uncounted

(***************************************************************************)
(* A recovery code opens one door: two logins, or a login and a disabling, *)
(* that present it at the same time do not both have it accepted.          *)
(***************************************************************************)
RecoveryCodeSingleUse ==
  \A c \in RecoveryCode : uses[c] <= 1

(***************************************************************************)
(* Logins may overlap the handlers of the second factor, and those may     *)
(* stop at any query, but when two of the latter have overlapped the next  *)
(* three properties are lost: each acts on a row it read before the        *)
(* other's update.  They hold again as soon as an enrolment or a removal   *)
(* has written the row with no other handler of theirs running.            *)
(*                                                                         *)
(* 2FA is on only with a secret, and one the user has shown to hold.       *)
(* Otherwise login_totp refuses every code, enroll_totp refuses because    *)
(* 2FA is enabled, and disable_totp has no secret to validate against.     *)
(***************************************************************************)
EnabledIsProven ==
  (user.totp_enabled /\ ~overlapped) => user.totp_secret \in proven

(***************************************************************************)
(* While 2FA is on, the unspent recovery codes are those shown with its    *)
(* secret: none is missing because an enrolment stopped half way, and none *)
(* of an earlier enrolment survives, unless its deletion failed unnoticed. *)
(***************************************************************************)
RecoveryCodesMatch ==
  (user.totp_enabled /\ ~undeleted /\ ~overlapped) =>
    codes = {c \in RecoveryCode : c[1] = user.totp_secret /\ uses[c] = 0}

(***************************************************************************)
(* "Re-enrolling would reset the secret and silently disable working 2FA;  *)
(* require an explicit disable first" (enroll_totp): only disable_totp     *)
(* turns 2FA off.                                                          *)
(***************************************************************************)
OnlyDisableDisables ==
  [][(user.totp_enabled /\ ~user'.totp_enabled /\ ~overlapped)
       => \E r \in Requests : req[r].at = "disable"]_vars

Enrols(r) == req[r].of = "enroll"

\* No enrolment has inserted code c yet.
Unissued(c) ==
  c[1] \notin generated \/ \E r \in Requests :
    Enrols(r) /\ req[r].secret = c[1] /\ req[r].inserted < c[2]

Recovery == INSTANCE OneTime WITH
  Vouchers <- RecoveryCode,
  stage <- [c \in RecoveryCode |->
              IF Unissued(c) THEN "new" ELSE IF c \in codes THEN "live" ELSE "spent"],
  effects <- uses

(***************************************************************************)
(* A recovery code is issued once, spent once, and gone for good: no later *)
(* enrolment and no handler that was overtaken brings one back, and each   *)
(* acceptance of a code deletes it.                                        *)
(***************************************************************************)
RecoveryCodesAreOneTime == Recovery!Spec

=============================================================================
