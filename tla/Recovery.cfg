CONSTANTS
  Passwords = {w1, w2}
  Mails = {m1}
  Requests = {r1, r2}
  VerificationTTL = 1
  ResetTTL = 1
  RequireVerification = FALSE
  MaxTime = 1
  NULL = NULL
SPECIFICATION Spec
SYMMETRY Symmetry
INVARIANTS TypeOK TokenWorksOnce NoSessionOnOldPassword
PROPERTIES MailsAreOneTime
CHECK_DEADLOCK FALSE
