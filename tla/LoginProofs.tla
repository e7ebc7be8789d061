----------------------------- MODULE LoginProofs ----------------------------
(***************************************************************************)
(* Safety of the lockout, of the recovery codes and of the second factor,  *)
(* for any number of secrets, codes and handlers that run concurrently.    *)
(***************************************************************************)
EXTENDS Login, FiniteSetTheorems, TLAPS

-----------------------------------------------------------------------------
(***************************************************************************)
(* The inductive invariant.  A recovery code is accepted once because it   *)
(* is inserted once and whoever deletes the row has it.  The lockout rests *)
(* on the counter, which falls behind the misses by the handlers that have *)
(* yet to count theirs.  The rest holds while the handlers of the second   *)
(* factor do not overlap, for the one that runs knows what the row says.   *)
(***************************************************************************)

Second(r) == req[r].of \in {"enroll", "activate", "disable"}

\* A handler runs its own queries, and an enrolment has a secret nobody was shown.
Formed(r) ==
  /\ req[r].at \in {"set", "insert"} => Enrols(r)
  /\ req[r].at = "delete" => req[r].of \in {"enroll", "disable"}
  /\ req[r].at = "enable" => req[r].of = "activate"
  /\ req[r].at = "disable" => req[r].of = "disable"
  /\ req[r].at = "consume" => req[r].of \in {"login_totp", "disable"}
  /\ Enrols(r) => req[r].secret \in generated \ known
  /\ Enrols(r) /\ req[r].at # "insert" => req[r].inserted = 0

Exclusive == ~overlapped => \A r, q \in Requests : Second(r) /\ Second(q) => r = q

OwnSecret ==
  \A r, q \in Requests : Enrols(r) /\ Enrols(q) /\ req[r].secret = req[q].secret => r = q

\* A code is inserted once, and spent when it is deleted.
SpentOnce(c) ==
  /\ uses[c] <= 1
  /\ c \in codes => uses[c] = 0
  /\ Unissued(c) => c \notin codes /\ uses[c] = 0

\* What the handler of the second factor that runs knows of the user's row.
RowKnown ==
  ~overlapped =>
    /\ EnabledIsProven
    /\ \A r \in Requests :
         /\ req[r].at = "enable" => user.totp_secret \in proven
         /\ req[r].at = "set" => ~user.totp_enabled
         /\ Enrols(r) /\ req[r].at # "set" =>
              ~user.totp_enabled /\ user.totp_secret = req[r].secret
         /\ req[r].at = "delete" /\ ~Enrols(r) =>
              ~user.totp_enabled /\ user.totp_secret = NULL

\* The first n codes of a secret that are not spent.
Codes(secret, n) == {c \in RecoveryCode : c[1] = secret /\ c[2] <= n /\ uses[c] = 0}

\* The codes of a secret the user was shown are there, or as many as the running
\* enrolment has inserted.
CodesKnown ==
  ~overlapped /\ ~undeleted =>
    /\ user.totp_secret \in known => codes = Codes(user.totp_secret, CodeCount)
    /\ \A r \in Requests :
         req[r].at = "insert" => codes = Codes(req[r].secret, req[r].inserted)

Counting == {r \in Requests : req[r].at = "increment"}

\* The counter misses those that are about to count, and those that failed to.
Counted == misses <= user.failed_login_attempts + Cardinality(Counting) + uncounted

IInv ==
  /\ TypeOK
  /\ \A r \in Requests : Formed(r)
  /\ Exclusive
  /\ OwnSecret
  /\ \A c \in RecoveryCode : SpentOnce(c)
  /\ proven \subseteq known
  /\ RowKnown
  /\ CodesKnown
  /\ Counted
  /\ TriesBounded

-----------------------------------------------------------------------------
(***************************************************************************)
(* Counting the handlers that have yet to count.                           *)
(***************************************************************************)
\* Two sets of requests that differ in r at most.
LEMMA OneMoves ==
  ASSUME NEW A \in SUBSET Requests, NEW B \in SUBSET Requests, NEW r \in Requests,
         \A q \in Requests \ {r} : q \in A <=> q \in B
  PROVE  /\ Cardinality(A) \in Nat /\ Cardinality(B) \in Nat
         /\ Cardinality(B) + (IF r \in A THEN 1 ELSE 0)
              = Cardinality(A) + (IF r \in B THEN 1 ELSE 0)
<1>1. IsFiniteSet(A) /\ IsFiniteSet(B)
  BY LoginAssumption, FS_Subset
<1>2. Cardinality(A) \in Nat /\ Cardinality(B) \in Nat
  BY <1>1, FS_CardinalityType
<1>3. CASE r \in A /\ r \notin B
  <2>1. B = A \ {r}
    BY <1>3
  <2> QED
    BY <1>1, <1>2, <1>3, <2>1, FS_RemoveElement
<1>4. CASE r \notin A /\ r \in B
  <2>1. A = B \ {r}
    BY <1>4
  <2> QED
    BY <1>1, <1>2, <1>4, <2>1, FS_RemoveElement
<1>5. CASE r \in A <=> r \in B
  <2>1. A = B
    BY <1>5
  <2> QED
    BY <1>2, <2>1
<1> QED
  BY <1>2, <1>3, <1>4, <1>5

\* What a step of handler r, which is then request x, does to the counts.
LEMMA CountsMove ==
  ASSUME IInv, NEW r \in Requests, NEW x, req' = [req EXCEPT ![r] = x]
  PROVE  /\ {Cardinality(Counting), Cardinality(Counting)', Uncounted, Uncounted'} \subseteq Nat
         /\ Cardinality(Counting)' + (IF req[r].at = "increment" THEN 1 ELSE 0)
              = Cardinality(Counting) + (IF x.at = "increment" THEN 1 ELSE 0)
         /\ Uncounted' + (IF req[r].at \in {"increment", "lock"} THEN 1 ELSE 0)
              = Uncounted + (IF x.at \in {"increment", "lock"} THEN 1 ELSE 0)
<1> DEFINE A == {q \in Requests : req[q].at \in {"increment", "lock"}}
           B == {q \in Requests : req'[q].at \in {"increment", "lock"}}
           C == {q \in Requests : req'[q].at = "increment"}
<1>1. req'[r] = x /\ \A q \in Requests \ {r} : req'[q] = req[q]
  BY DEF IInv, TypeOK
<1>2. A \in SUBSET Requests /\ B \in SUBSET Requests
      /\ Counting \in SUBSET Requests /\ C \in SUBSET Requests
  BY DEF Counting
<1>3. /\ \A q \in Requests \ {r} : (q \in A <=> q \in B) /\ (q \in Counting <=> q \in C)
      /\ r \in A <=> req[r].at \in {"increment", "lock"}
      /\ r \in B <=> x.at \in {"increment", "lock"}
      /\ r \in Counting <=> req[r].at = "increment"
      /\ r \in C <=> x.at = "increment"
  BY <1>1 DEF Counting
<1>4. Counting' = C /\ Uncounted = Cardinality(A) /\ Uncounted' = Cardinality(B)
  BY DEF Counting, Uncounted
<1>5. Cardinality(Counting)' = Cardinality(C)
  BY <1>4
<1> HIDE DEF A, B, C
<1>6. /\ Cardinality(A) \in Nat /\ Cardinality(B) \in Nat
      /\ Cardinality(B) + (IF r \in A THEN 1 ELSE 0) = Cardinality(A) + (IF r \in B THEN 1 ELSE 0)
  BY <1>2, <1>3, OneMoves
<1>7. /\ Cardinality(Counting) \in Nat /\ Cardinality(C) \in Nat
      /\ Cardinality(C) + (IF r \in Counting THEN 1 ELSE 0)
           = Cardinality(Counting) + (IF r \in C THEN 1 ELSE 0)
  BY <1>2, <1>3, OneMoves
<1> QED
  BY <1>3, <1>4, <1>5, <1>6, <1>7

\* A step that starts the count again, or counts no less than it takes away.
LEMMA CountsKept ==
  ASSUME IInv, NEW r \in Requests, req' = [req EXCEPT ![r] = req'[r]],
         {misses', uncounted', user'.failed_login_attempts} \subseteq Nat,
         \/ misses' = 0
         \/ /\ user'.failed_login_attempts = user.failed_login_attempts
            /\ misses' <= misses + (IF req'[r].at = "increment" THEN 1 ELSE 0)
            /\ uncounted' >= uncounted + (IF req[r].at \in {"increment", "lock"} THEN 1 ELSE 0)
  PROVE  Counted' /\ TriesBounded'
<1>1. /\ {Cardinality(Counting), Cardinality(Counting)', Uncounted, Uncounted'} \subseteq Nat
      /\ Cardinality(Counting)' + (IF req[r].at = "increment" THEN 1 ELSE 0)
           = Cardinality(Counting) + (IF req'[r].at = "increment" THEN 1 ELSE 0)
      /\ Uncounted' + (IF req[r].at \in {"increment", "lock"} THEN 1 ELSE 0)
           = Uncounted + (IF req'[r].at \in {"increment", "lock"} THEN 1 ELSE 0)
  BY CountsMove
<1>2. /\ misses <= user.failed_login_attempts + Cardinality(Counting) + uncounted
      /\ misses < MaxFailures + uncounted + Uncounted
      /\ {misses, uncounted, user.failed_login_attempts} \subseteq Nat
  BY DEF IInv, Counted, TriesBounded, TypeOK, UserRow
<1> DEFINE c == Cardinality(Counting)  d == Cardinality(Counting)'
<1>3. misses' <= user'.failed_login_attempts + d + uncounted'
  <2> HIDE DEF c, d
  <2> QED
    BY <1>1, <1>2 DEF c, d
<1>4. misses' < MaxFailures + uncounted' + Uncounted'
  BY <1>1, <1>2, LoginAssumption
<1> QED
  BY <1>3, <1>4 DEF Counted, TriesBounded

-----------------------------------------------------------------------------
(***************************************************************************)
(* One lemma for each query.                                               *)
(***************************************************************************)
\* A login that fails is missed, and about to be counted.
LEMMA LoginPreserves ==
  ASSUME IInv, NEW r \in Requests, NEW correct \in BOOLEAN, Login(r, correct)
  PROVE  IInv'
<1> USE DEF secrets, tries, slips
<1>1. TypeOK'
  <2>1. user' \in UserRow
    BY DEF IInv, TypeOK, Login
  <2>2. req' \in [Requests -> Request]
    BY DEF IInv, TypeOK, UserRow, Request, Idle, Login, Begin
  <2>3. codes' \subseteq RecoveryCode /\ uses' \in [RecoveryCode -> Nat]
    BY DEF IInv, TypeOK, Login
  <2>4. {misses', mfa_misses'} \subseteq 0..MaxMisses
    BY LoginAssumption DEF IInv, TypeOK, OneMore, Login
  <2>5. known' \subseteq generated' /\ generated' \subseteq Secrets /\ proven' \subseteq Secrets
    BY DEF IInv, TypeOK, Login
  <2>6. {mfa_until', uncounted'} \subseteq Nat /\ now' \in 0..MaxTime /\ faults' \in 0..MaxFaults
    BY DEF IInv, TypeOK, Login
  <2> QED
    BY <2>1, <2>2, <2>3, <2>4, <2>5, <2>6 DEF IInv, TypeOK, Login
<1>2. (\A q \in Requests : Formed(q))'
  BY DEF IInv, Formed, Enrols, Login, Begin
<1>3. Exclusive'
  BY DEF IInv, Exclusive, Second, Login, Begin
<1>4. OwnSecret'
  BY DEF IInv, OwnSecret, Enrols, Login, Begin
<1>5. (\A c \in RecoveryCode : SpentOnce(c))'
  BY DEF IInv, SpentOnce, Unissued, Enrols, Login, Begin
<1>6. (proven \subseteq known)'
  BY DEF IInv, Login
<1>7. RowKnown'
  BY DEF IInv, RowKnown, EnabledIsProven, Enrols, Login, Begin
<1>8. CodesKnown'
  BY DEF IInv, CodesKnown, Codes, Login, Begin
<1>9. (Counted /\ TriesBounded)'
  <2>1. req' = [req EXCEPT ![r] = req'[r]]
    BY DEF IInv, Login, Begin
  <2>2. {misses', uncounted', user'.failed_login_attempts} \subseteq Nat
    BY <1>1 DEF TypeOK, UserRow
  <2>3. \/ misses' = 0
        \/ /\ user'.failed_login_attempts = user.failed_login_attempts
           /\ misses' <= misses + (IF req'[r].at = "increment" THEN 1 ELSE 0)
           /\ uncounted' >= uncounted + (IF req[r].at \in {"increment", "lock"} THEN 1 ELSE 0)
    BY DEF IInv, TypeOK, OneMore, Idle, Login, Begin
  <2> QED
    BY <2>1, <2>2, <2>3, CountsKept
<1> QED
  BY <1>1, <1>2, <1>3, <1>4, <1>5, <1>6, <1>7, <1>8, <1>9 DEF IInv

\* A login with a second factor keeps to the row it has read.
LEMMA LoginTotpPreserves ==
  ASSUME IInv, NEW r \in Requests, NEW code \in Typed, LoginTotp(r, code)
  PROVE  IInv'
<1> USE DEF secrets, tries, slips
<1>1. TypeOK'
  BY LoginAssumption, CodesAreNoSecrets DEF IInv, TypeOK, Request, Idle, LoginTotp, Begin,
     Typed
<1>2. (\A q \in Requests : Formed(q))'
  BY DEF IInv, Formed, Enrols, LoginTotp, Begin
<1>3. Exclusive'
  BY DEF IInv, Exclusive, Second, LoginTotp, Begin
<1>4. OwnSecret'
  BY DEF IInv, OwnSecret, Enrols, LoginTotp, Begin
<1>5. (\A c \in RecoveryCode : SpentOnce(c))'
  BY DEF IInv, SpentOnce, Unissued, Enrols, LoginTotp, Begin
<1>6. (proven \subseteq known)'
  BY DEF IInv, LoginTotp
<1>7. RowKnown'
  BY DEF IInv, RowKnown, EnabledIsProven, Enrols, LoginTotp, Begin
<1>8. CodesKnown'
  BY DEF IInv, CodesKnown, Codes, LoginTotp, Begin
<1>9. (Counted /\ TriesBounded)'
  <2>1. req' = [req EXCEPT ![r] = req'[r]]
    BY DEF IInv, LoginTotp, Begin
  <2>2. {misses', uncounted', user'.failed_login_attempts} \subseteq Nat
    BY <1>1 DEF TypeOK, UserRow
  <2>3. \/ misses' = 0
        \/ /\ user'.failed_login_attempts = user.failed_login_attempts
           /\ misses' <= misses + (IF req'[r].at = "increment" THEN 1 ELSE 0)
           /\ uncounted' >= uncounted + (IF req[r].at \in {"increment", "lock"} THEN 1 ELSE 0)
    BY DEF IInv, TypeOK, OneMore, Idle, LoginTotp, Begin
  <2> QED
    BY <2>1, <2>2, <2>3, CountsKept
<1> QED
  BY <1>1, <1>2, <1>3, <1>4, <1>5, <1>6, <1>7, <1>8, <1>9 DEF IInv

\* A miss is counted, and at the limit the handler is to lock.
LEMMA IncrementPreserves ==
  ASSUME IInv, NEW r \in Requests, increment_login_failure(r)
  PROVE  IInv'
<1> USE DEF secrets, tries, slips
<1>1. TypeOK'
  <2>1. user' \in UserRow
    BY DEF IInv, TypeOK, UserRow, increment_login_failure
  <2>2. req' \in [Requests -> Request]
    <3>1. req[r] \in Request /\ now + LockoutTime \in Nat
      BY LoginAssumption DEF IInv, TypeOK
    <3>2. [req[r] EXCEPT !.at = "lock", !.until = now + LockoutTime] \in Request
      BY <3>1 DEF Request
    <3>3. Idle \in Request
      BY LoginAssumption DEF Idle, Request
    <3> QED
      BY <3>2, <3>3 DEF IInv, TypeOK, increment_login_failure
  <2>3. codes' \subseteq RecoveryCode /\ uses' \in [RecoveryCode -> Nat]
    BY DEF IInv, TypeOK, increment_login_failure
  <2>4. {misses', mfa_misses'} \subseteq 0..MaxMisses
    BY DEF IInv, TypeOK, OneMore, increment_login_failure
  <2>5. known' \subseteq generated' /\ generated' \subseteq Secrets /\ proven' \subseteq Secrets
    BY DEF IInv, TypeOK, increment_login_failure
  <2>6. {mfa_until', uncounted'} \subseteq Nat /\ now' \in 0..MaxTime /\ faults' \in 0..MaxFaults
    BY DEF IInv, TypeOK, increment_login_failure
  <2> QED
    BY <2>1, <2>2, <2>3, <2>4, <2>5, <2>6 DEF IInv, TypeOK, increment_login_failure
<1>2. (\A q \in Requests : Formed(q))'
  BY DEF IInv, Formed, Enrols, Idle, increment_login_failure
<1>3. Exclusive'
  BY DEF IInv, Exclusive, Second, Idle, increment_login_failure
<1>4. OwnSecret'
  BY DEF IInv, OwnSecret, Enrols, Idle, increment_login_failure
<1>5. (\A c \in RecoveryCode : SpentOnce(c))'
  BY DEF IInv, SpentOnce, Unissued, Enrols, Idle, increment_login_failure
<1>6. (proven \subseteq known)'
  BY DEF IInv, increment_login_failure
<1>7. RowKnown'
  BY DEF IInv, RowKnown, EnabledIsProven, Enrols, Idle, increment_login_failure
<1>8. CodesKnown'
  BY DEF IInv, CodesKnown, Codes, Idle, increment_login_failure
<1>9. (Counted /\ TriesBounded)'
  <2>1. req' = [req EXCEPT ![r] = req'[r]]
    BY DEF IInv, increment_login_failure
  <2>2. /\ req[r].at = "increment" /\ req'[r].at \in {"lock", "idle"}
        /\ req'[r].at = "idle" => user.failed_login_attempts + 1 < MaxFailures
    BY LoginAssumption DEF IInv, TypeOK, UserRow, Idle, increment_login_failure
  <2>3. user'.failed_login_attempts = user.failed_login_attempts + 1
        /\ misses' = misses /\ uncounted' = uncounted
    BY DEF IInv, increment_login_failure
  <2>4. {misses, uncounted, user.failed_login_attempts} \subseteq Nat
    BY DEF IInv, TypeOK, UserRow
  <2> DEFINE c == Cardinality(Counting)  d == Cardinality(Counting)'
  <2>5. {c, d, Uncounted, Uncounted'} \subseteq Nat /\ c = d + 1
        /\ Uncounted = Uncounted' + (IF req'[r].at = "idle" THEN 1 ELSE 0)
    BY <2>1, <2>2, CountsMove
  <2>6. misses <= user.failed_login_attempts + c + uncounted
        /\ misses < MaxFailures + uncounted + Uncounted
    BY DEF IInv, Counted, TriesBounded
  <2>7. misses' <= user'.failed_login_attempts + d + uncounted'
    <3> HIDE DEF c, d
    <3> QED
      BY <2>3, <2>4, <2>5, <2>6
  <2>8. misses' < MaxFailures + uncounted' + Uncounted'
    <3>1. c <= Uncounted
      <4> DEFINE W == {q \in Requests : req[q].at \in {"increment", "lock"}}
      <4>1. IsFiniteSet(W) /\ Counting \in SUBSET W
        BY LoginAssumption, FS_Subset DEF Counting
      <4> QED
        BY <4>1, FS_Subset DEF Uncounted
    <3> HIDE DEF c, d
    <3>2. CASE req'[r].at = "idle"
      BY <2>2, <2>3, <2>4, <2>5, <2>6, <3>1, <3>2, LoginAssumption
    <3>3. CASE req'[r].at = "lock"
      BY <2>3, <2>4, <2>5, <2>6, <3>3
    <3> QED
      BY <2>2, <3>2, <3>3
  <2> QED
    BY <2>7, <2>8 DEF Counted, TriesBounded
<1> QED
  BY <1>1, <1>2, <1>3, <1>4, <1>5, <1>6, <1>7, <1>8, <1>9 DEF IInv

\* A lock starts the count again.
LEMMA LockPreserves ==
  ASSUME IInv, NEW r \in Requests, lock_user(r)
  PROVE  IInv'
<1> USE DEF secrets, tries, slips
<1>1. TypeOK'
  <2>1. user' \in UserRow
    BY DEF IInv, TypeOK, UserRow, Request, lock_user
  <2>2. req' \in [Requests -> Request]
    BY LoginAssumption DEF IInv, TypeOK, Request, Idle, lock_user
  <2>3. codes' \subseteq RecoveryCode /\ uses' \in [RecoveryCode -> Nat]
    BY DEF IInv, TypeOK, lock_user
  <2>4. {misses', mfa_misses'} \subseteq 0..MaxMisses
    BY LoginAssumption DEF IInv, OneMore, lock_user
  <2>5. known' \subseteq generated' /\ generated' \subseteq Secrets /\ proven' \subseteq Secrets
    BY DEF IInv, TypeOK, lock_user
  <2>6. {mfa_until', uncounted'} \subseteq Nat /\ now' \in 0..MaxTime /\ faults' \in 0..MaxFaults
    BY DEF IInv, TypeOK, lock_user
  <2> QED
    BY <2>1, <2>2, <2>3, <2>4, <2>5, <2>6 DEF IInv, TypeOK, lock_user
<1>2. (\A q \in Requests : Formed(q))'
  BY DEF IInv, Formed, Enrols, Idle, lock_user
<1>3. Exclusive'
  BY DEF IInv, Exclusive, Second, Idle, lock_user
<1>4. OwnSecret'
  BY DEF IInv, OwnSecret, Enrols, Idle, lock_user
<1>5. (\A c \in RecoveryCode : SpentOnce(c))'
  BY DEF IInv, SpentOnce, Unissued, Enrols, Idle, lock_user
<1>6. (proven \subseteq known)'
  BY DEF IInv, lock_user
<1>7. RowKnown'
  BY DEF IInv, RowKnown, EnabledIsProven, Enrols, Idle, lock_user
<1>8. CodesKnown'
  BY DEF IInv, CodesKnown, Codes, Idle, lock_user
<1>9. (Counted /\ TriesBounded)'
  <2>1. req' = [req EXCEPT ![r] = req'[r]]
    BY DEF IInv, lock_user
  <2>2. {misses', uncounted', user'.failed_login_attempts} \subseteq Nat
    BY <1>1 DEF TypeOK, UserRow
  <2>3. \/ misses' = 0
        \/ /\ user'.failed_login_attempts = user.failed_login_attempts
           /\ misses' <= misses + (IF req'[r].at = "increment" THEN 1 ELSE 0)
           /\ uncounted' >= uncounted + (IF req[r].at \in {"increment", "lock"} THEN 1 ELSE 0)
    BY DEF IInv, OneMore, lock_user
  <2> QED
    BY <2>1, <2>2, <2>3, CountsKept
<1> QED
  BY <1>1, <1>2, <1>3, <1>4, <1>5, <1>6, <1>7, <1>8, <1>9 DEF IInv

\* So does a success, though the counter may stay as it is.
LEMMA ResetPreserves ==
  ASSUME IInv, NEW r \in Requests, reset_login_state(r)
  PROVE  IInv'
<1> USE DEF secrets, tries, slips
<1>1. TypeOK'
  <2>1. user' \in UserRow
    <3>1. user \in UserRow
      BY DEF IInv, TypeOK
    <3>2. [user EXCEPT !.failed_login_attempts = 0, !.locked_until = 0] \in UserRow
      BY <3>1 DEF UserRow
    <3> QED
      BY <3>1, <3>2 DEF reset_login_state
  <2>2. req' \in [Requests -> Request]
    BY LoginAssumption DEF IInv, TypeOK, Request, Idle, reset_login_state
  <2>3. codes' \subseteq RecoveryCode /\ uses' \in [RecoveryCode -> Nat]
    BY DEF IInv, TypeOK, reset_login_state
  <2>4. {misses', mfa_misses'} \subseteq 0..MaxMisses
    BY LoginAssumption DEF IInv, TypeOK, OneMore, reset_login_state
  <2>5. known' \subseteq generated' /\ generated' \subseteq Secrets /\ proven' \subseteq Secrets
    BY DEF IInv, TypeOK, reset_login_state
  <2>6. {mfa_until', uncounted'} \subseteq Nat /\ now' \in 0..MaxTime /\ faults' \in 0..MaxFaults
    BY LoginAssumption DEF IInv, TypeOK, reset_login_state
  <2> QED
    BY <2>1, <2>2, <2>3, <2>4, <2>5, <2>6 DEF IInv, TypeOK, reset_login_state
<1>2. (\A q \in Requests : Formed(q))'
  BY DEF IInv, Formed, Enrols, Idle, reset_login_state
<1>3. Exclusive'
  BY DEF IInv, Exclusive, Second, Idle, reset_login_state
<1>4. OwnSecret'
  BY DEF IInv, OwnSecret, Enrols, Idle, reset_login_state
<1>5. (\A c \in RecoveryCode : SpentOnce(c))'
  BY DEF IInv, SpentOnce, Unissued, Enrols, Idle, reset_login_state
<1>6. (proven \subseteq known)'
  BY DEF IInv, reset_login_state
<1>7. RowKnown'
  <2>1. user'.totp_secret = user.totp_secret /\ user'.totp_enabled = user.totp_enabled
    BY DEF IInv, TypeOK, UserRow, reset_login_state
  <2>2. UNCHANGED <<codes, known, proven, uses, overlapped, undeleted>>
    BY DEF reset_login_state
  <2>3. req' = [req EXCEPT ![r] = Idle]
    BY DEF reset_login_state
  <2> QED
    BY <2>1, <2>2, <2>3 DEF IInv, Idle, RowKnown, EnabledIsProven, Enrols
<1>8. CodesKnown'
  <2>1. user'.totp_secret = user.totp_secret /\ user'.totp_enabled = user.totp_enabled
    BY DEF IInv, TypeOK, UserRow, reset_login_state
  <2>2. UNCHANGED <<codes, known, proven, uses, overlapped, undeleted>>
    BY DEF reset_login_state
  <2>3. req' = [req EXCEPT ![r] = Idle]
    BY DEF reset_login_state
  <2> QED
    BY <2>1, <2>2, <2>3 DEF IInv, Idle, CodesKnown, Codes
<1>9. (Counted /\ TriesBounded)'
  <2>1. req' = [req EXCEPT ![r] = req'[r]]
    BY DEF IInv, reset_login_state
  <2>2. {misses', uncounted', user'.failed_login_attempts} \subseteq Nat
    BY <1>1 DEF TypeOK, UserRow
  <2>3. \/ misses' = 0
        \/ /\ user'.failed_login_attempts = user.failed_login_attempts
           /\ misses' <= misses + (IF req'[r].at = "increment" THEN 1 ELSE 0)
           /\ uncounted' >= uncounted + (IF req[r].at \in {"increment", "lock"} THEN 1 ELSE 0)
    BY DEF IInv, OneMore, reset_login_state
  <2> QED
    BY <2>1, <2>2, <2>3, CountsKept
<1> QED
  BY <1>1, <1>2, <1>3, <1>4, <1>5, <1>6, <1>7, <1>8, <1>9 DEF IInv

\* Who deletes the row of a code has it accepted, and nobody after.
LEMMA ConsumePreserves ==
  ASSUME IInv, NEW r \in Requests, consume_recovery_code(r)
  PROVE  IInv'
<1> USE DEF secrets, tries, slips
<1>1. TypeOK'
  <2>1. user' \in UserRow
    BY DEF IInv, TypeOK, consume_recovery_code
  <2>2. req' \in [Requests -> Request]
    BY LoginAssumption DEF IInv, TypeOK, Request, Idle, consume_recovery_code
  <2>3. codes' \subseteq RecoveryCode /\ uses' \in [RecoveryCode -> Nat]
    BY DEF IInv, TypeOK, consume_recovery_code
  <2>4. {misses', mfa_misses'} \subseteq 0..MaxMisses
    BY LoginAssumption DEF IInv, TypeOK, OneMore, consume_recovery_code
  <2>5. known' \subseteq generated' /\ generated' \subseteq Secrets /\ proven' \subseteq Secrets
    BY DEF IInv, TypeOK, consume_recovery_code
  <2>6. {mfa_until', uncounted'} \subseteq Nat /\ now' \in 0..MaxTime /\ faults' \in 0..MaxFaults
    BY DEF IInv, TypeOK, consume_recovery_code
  <2> QED
    BY <2>1, <2>2, <2>3, <2>4, <2>5, <2>6 DEF IInv, TypeOK, consume_recovery_code
<1>2. (\A q \in Requests : Formed(q))'
  BY DEF IInv, Formed, Enrols, Idle, consume_recovery_code
<1>3. Exclusive'
  BY DEF IInv, Exclusive, Second, Idle, consume_recovery_code
<1>4. OwnSecret'
  BY DEF IInv, OwnSecret, Enrols, Idle, consume_recovery_code
<1>5. (\A c \in RecoveryCode : SpentOnce(c))'
  BY DEF IInv, SpentOnce, Unissued, Enrols, Idle, consume_recovery_code
<1>6. (proven \subseteq known)'
  BY DEF IInv, consume_recovery_code
<1>7. RowKnown'
  BY DEF IInv, RowKnown, EnabledIsProven, Enrols, Idle, consume_recovery_code
<1>8. CodesKnown'
  BY DEF IInv, CodesKnown, Codes, Idle, consume_recovery_code, TypeOK
<1>9. (Counted /\ TriesBounded)'
  <2>1. req' = [req EXCEPT ![r] = req'[r]]
    BY DEF IInv, consume_recovery_code
  <2>2. {misses', uncounted', user'.failed_login_attempts} \subseteq Nat
    BY <1>1 DEF TypeOK, UserRow
  <2>3. \/ misses' = 0
        \/ /\ user'.failed_login_attempts = user.failed_login_attempts
           /\ misses' <= misses + (IF req'[r].at = "increment" THEN 1 ELSE 0)
           /\ uncounted' >= uncounted + (IF req[r].at \in {"increment", "lock"} THEN 1 ELSE 0)
    BY DEF IInv, TypeOK, OneMore, consume_recovery_code
  <2> QED
    BY <2>1, <2>2, <2>3, CountsKept
<1> QED
  BY <1>1, <1>2, <1>3, <1>4, <1>5, <1>6, <1>7, <1>8, <1>9 DEF IInv

\* An enrolment begins with a secret of its own.
LEMMA EnrollPreserves ==
  ASSUME IInv, NEW r \in Requests, NEW secret \in Secrets, EnrollTotp(r, secret)
  PROVE  IInv'
<1> USE DEF secrets, tries, slips
<1>1. TypeOK'
  BY DEF IInv, TypeOK, Request, Idle, EnrollTotp, BeginTotp, Begin
<1>2. (\A q \in Requests : Formed(q))'
  BY DEF IInv, Formed, Enrols, Idle, EnrollTotp, BeginTotp, Begin, TypeOK
<1>3. Exclusive'
  BY DEF IInv, Exclusive, Second, EnrollTotp, BeginTotp, Begin, Disturbed, TypeOK
<1>4. OwnSecret'
  <2>1. \A q \in Requests : Enrols(q) => req[q].secret # secret
    BY DEF IInv, Formed, EnrollTotp
  <2>2. req' = [req EXCEPT ![r] = req'[r]] /\ req'[r].secret = secret
    BY DEF IInv, TypeOK, EnrollTotp, BeginTotp, Begin
  <2> QED
    BY <2>1, <2>2 DEF IInv, TypeOK, OwnSecret, Enrols
<1>5. (\A c \in RecoveryCode : SpentOnce(c))'
  BY DEF IInv, SpentOnce, Unissued, Enrols, EnrollTotp, BeginTotp, Begin
<1>6. (proven \subseteq known)'
  BY DEF IInv, EnrollTotp
<1>7. RowKnown'
  BY DEF IInv, RowKnown, EnabledIsProven, Enrols, EnrollTotp, BeginTotp, Begin, TypeOK
<1>8. CodesKnown'
  BY DEF IInv, CodesKnown, Codes, EnrollTotp, BeginTotp, Begin, TypeOK
<1>9. (Counted /\ TriesBounded)'
  <2>1. req' = [req EXCEPT ![r] = req'[r]]
    BY DEF IInv, EnrollTotp, BeginTotp, Begin
  <2>2. {misses', uncounted', user'.failed_login_attempts} \subseteq Nat
    BY <1>1 DEF TypeOK, UserRow
  <2>3. \/ misses' = 0
        \/ /\ user'.failed_login_attempts = user.failed_login_attempts
           /\ misses' <= misses + (IF req'[r].at = "increment" THEN 1 ELSE 0)
           /\ uncounted' >= uncounted + (IF req[r].at \in {"increment", "lock"} THEN 1 ELSE 0)
    BY DEF IInv, TypeOK, OneMore, Idle, EnrollTotp, BeginTotp, Begin
  <2> QED
    BY <2>1, <2>2, <2>3, CountsKept
<1> QED
  BY <1>1, <1>2, <1>3, <1>4, <1>5, <1>6, <1>7, <1>8, <1>9 DEF IInv

\* Once a handler has written the row alone, no other runs that is about it.
LEMMA WriteAlone ==
  ASSUME IInv, NEW r \in Requests, NEW secret, WriteTotp(r, secret), Second(r)
  PROVE  ~overlapped' => \A q \in Requests : Second(q) => q = r
BY DEF IInv, Exclusive, WriteTotp, Disturbed, Second

\* The row has the secret of the enrolment that runs.
LEMMA SetPreserves ==
  ASSUME IInv, NEW r \in Requests, set_totp_secret(r)
  PROVE  IInv'
<1> USE DEF secrets, tries, slips
<1>1. TypeOK'
  <2>1. user' \in UserRow
    BY DEF IInv, TypeOK, UserRow, Request, set_totp_secret, WriteTotp
  <2>2. req' \in [Requests -> Request]
    BY DEF IInv, TypeOK, Request, set_totp_secret, WriteTotp
  <2>3. codes' \subseteq RecoveryCode /\ uses' \in [RecoveryCode -> Nat]
    BY DEF IInv, TypeOK, set_totp_secret, WriteTotp
  <2>4. {misses', mfa_misses'} \subseteq 0..MaxMisses
    BY DEF IInv, TypeOK, OneMore, set_totp_secret, WriteTotp
  <2>5. known' \subseteq generated' /\ generated' \subseteq Secrets /\ proven' \subseteq Secrets
    BY DEF IInv, TypeOK, set_totp_secret, WriteTotp
  <2>6. {mfa_until', uncounted'} \subseteq Nat /\ now' \in 0..MaxTime /\ faults' \in 0..MaxFaults
    BY DEF IInv, TypeOK, set_totp_secret, WriteTotp
  <2> QED
    BY <2>1, <2>2, <2>3, <2>4, <2>5, <2>6 DEF IInv, TypeOK, set_totp_secret, WriteTotp
<1>2. (\A q \in Requests : Formed(q))'
  BY DEF IInv, Formed, Enrols, set_totp_secret, WriteTotp
<1>0. /\ req' = [req EXCEPT ![r].at = "delete"] /\ UNCHANGED <<known, proven, generated, undeleted>>
      /\ user' = [user EXCEPT !.totp_secret = req[r].secret, !.totp_enabled = FALSE]
      /\ ~overlapped' => \A q \in Requests : Second(q) => q = r
  BY WriteAlone DEF IInv, Formed, Enrols, Second, set_totp_secret, WriteTotp
<1>3. Exclusive'
  BY <1>0 DEF IInv, TypeOK, Exclusive, Second
<1>4. OwnSecret'
  BY DEF IInv, OwnSecret, Enrols, set_totp_secret, WriteTotp
<1>5. (\A c \in RecoveryCode : SpentOnce(c))'
  BY DEF IInv, SpentOnce, Unissued, Enrols, set_totp_secret, WriteTotp
<1>6. (proven \subseteq known)'
  BY DEF IInv, set_totp_secret, WriteTotp
<1>7. RowKnown'
  <2>1. ~user'.totp_enabled /\ user'.totp_secret = req[r].secret
    BY <1>0 DEF IInv, TypeOK, UserRow
  <2>2. /\ req'[r].at = "delete" /\ req'[r].of = req[r].of /\ req'[r].secret = req[r].secret
        /\ req[r].of = "enroll"
        /\ \A q \in Requests \ {r} : req'[q] = req[q]
    BY <1>0 DEF IInv, TypeOK, Request, Formed, Enrols, set_totp_secret
  <2>3. ~overlapped' => \A q \in Requests \ {r} : req'[q].at \notin {"enable", "set", "delete"}
                                                 /\ req'[q].of # "enroll"
    BY <1>0, <2>2 DEF IInv, Formed, Second, Enrols
  <2> QED
    BY <2>1, <2>2, <2>3 DEF RowKnown, EnabledIsProven, Enrols
<1>8. CodesKnown'
  BY <1>0, LoginAssumption DEF IInv, TypeOK, UserRow, CodesKnown, Codes, Enrols, Formed, Second, set_totp_secret
<1>9. (Counted /\ TriesBounded)'
  <2>1. req' = [req EXCEPT ![r] = req'[r]]
    BY DEF IInv, set_totp_secret, WriteTotp
  <2>2. {misses', uncounted', user'.failed_login_attempts} \subseteq Nat
    BY <1>1 DEF TypeOK, UserRow
  <2>3. \/ misses' = 0
        \/ /\ user'.failed_login_attempts = user.failed_login_attempts
           /\ misses' <= misses + (IF req'[r].at = "increment" THEN 1 ELSE 0)
           /\ uncounted' >= uncounted + (IF req[r].at \in {"increment", "lock"} THEN 1 ELSE 0)
    BY DEF IInv, TypeOK, OneMore, set_totp_secret, WriteTotp
  <2> QED
    BY <2>1, <2>2, <2>3, CountsKept
<1> QED
  BY <1>1, <1>2, <1>3, <1>4, <1>5, <1>6, <1>7, <1>8, <1>9 DEF IInv

\* No code of an earlier secret is left, unless the deletion fails.
LEMMA DeleteCodesPreserves ==
  ASSUME IInv, NEW r \in Requests, delete_recovery_codes(r)
  PROVE  IInv'
<1> USE DEF secrets, tries, slips
<1>1. TypeOK'
  <2>1. user' \in UserRow
    BY DEF IInv, TypeOK, delete_recovery_codes
  <2>2. req' \in [Requests -> Request]
    BY LoginAssumption DEF IInv, TypeOK, Request, Idle, delete_recovery_codes
  <2>3. codes' \subseteq RecoveryCode /\ uses' \in [RecoveryCode -> Nat]
    BY DEF IInv, TypeOK, delete_recovery_codes
  <2>4. {misses', mfa_misses'} \subseteq 0..MaxMisses
    BY DEF IInv, TypeOK, OneMore, delete_recovery_codes
  <2>5. known' \subseteq generated' /\ generated' \subseteq Secrets /\ proven' \subseteq Secrets
    BY DEF IInv, TypeOK, delete_recovery_codes
  <2>6. {mfa_until', uncounted'} \subseteq Nat /\ now' \in 0..MaxTime /\ faults' \in 0..MaxFaults
    BY LoginAssumption DEF IInv, TypeOK, delete_recovery_codes
  <2> QED
    BY <2>1, <2>2, <2>3, <2>4, <2>5, <2>6 DEF IInv, TypeOK, delete_recovery_codes
<1>2. (\A q \in Requests : Formed(q))'
  BY DEF IInv, Formed, Enrols, Idle, delete_recovery_codes
<1>3. Exclusive'
  BY DEF IInv, Exclusive, Second, Idle, delete_recovery_codes
<1>4. OwnSecret'
  BY DEF IInv, OwnSecret, Enrols, Idle, delete_recovery_codes
<1>5. (\A c \in RecoveryCode : SpentOnce(c))'
  BY DEF IInv, SpentOnce, Unissued, Enrols, Idle, delete_recovery_codes
<1>6. (proven \subseteq known)'
  BY DEF IInv, delete_recovery_codes
<1>7. RowKnown'
  BY DEF IInv, RowKnown, EnabledIsProven, Enrols, Idle, delete_recovery_codes
<1>8. CodesKnown'
  <2> SUFFICES ASSUME ~overlapped', ~undeleted' PROVE CodesKnown'
    BY DEF CodesKnown
  <2>1. ~overlapped /\ codes' = {} /\ UNCHANGED <<user, known, uses>>
    BY DEF delete_recovery_codes, IInv
  <2>2. user.totp_secret \notin known
    <3>1. CASE Enrols(r)
      BY <2>1, <3>1 DEF IInv, Formed, RowKnown, delete_recovery_codes
    <3>2. CASE ~Enrols(r)
      BY <2>1, <3>2, LoginAssumption DEF IInv, TypeOK, RowKnown, delete_recovery_codes
    <3> QED
      BY <3>1, <3>2
  <2>3. \A q \in Requests : req'[q].at = "insert" => q = r /\ req'[q].inserted = 0
    BY <2>1 DEF IInv, Formed, Exclusive, Second, Enrols, Idle, delete_recovery_codes
  <2>4. \A secret : Codes(secret, 0)' = {}
    BY DEF Codes, RecoveryCode
  <2> QED
    BY <2>1, <2>2, <2>3, <2>4 DEF CodesKnown
<1>9. (Counted /\ TriesBounded)'
  <2>1. req' = [req EXCEPT ![r] = req'[r]]
    BY DEF IInv, delete_recovery_codes
  <2>2. {misses', uncounted', user'.failed_login_attempts} \subseteq Nat
    BY <1>1 DEF TypeOK, UserRow
  <2>3. \/ misses' = 0
        \/ /\ user'.failed_login_attempts = user.failed_login_attempts
           /\ misses' <= misses + (IF req'[r].at = "increment" THEN 1 ELSE 0)
           /\ uncounted' >= uncounted + (IF req[r].at \in {"increment", "lock"} THEN 1 ELSE 0)
    BY DEF IInv, TypeOK, OneMore, delete_recovery_codes
  <2> QED
    BY <2>1, <2>2, <2>3, CountsKept
<1> QED
  BY <1>1, <1>2, <1>3, <1>4, <1>5, <1>6, <1>7, <1>8, <1>9 DEF IInv

\* A code that is inserted was neither there nor spent.
LEMMA InsertPreserves ==
  ASSUME IInv, NEW r \in Requests, insert_recovery_code(r)
  PROVE  IInv'
<1> USE DEF secrets, tries, slips
<1>1. TypeOK'
  <2>1. user' \in UserRow
    BY DEF IInv, TypeOK, insert_recovery_code
  <2>2. req' \in [Requests -> Request]
    <3>1. req[r] \in Request
      BY DEF IInv, TypeOK
    <3>2. req[r].inserted < CodeCount => [req[r] EXCEPT !.inserted = @ + 1] \in Request
      BY <3>1, LoginAssumption DEF Request
    <3>3. Idle \in Request
      BY LoginAssumption DEF Idle, Request
    <3> QED
      BY <3>2, <3>3 DEF IInv, TypeOK, insert_recovery_code
  <2>3. codes' \subseteq RecoveryCode /\ uses' \in [RecoveryCode -> Nat]
    <3>1. req[r].secret \in Secrets /\ req[r].inserted \in 0..CodeCount
      BY DEF IInv, TypeOK, Request, Formed, insert_recovery_code
    <3>2. req[r].inserted < CodeCount => <<req[r].secret, req[r].inserted + 1>> \in RecoveryCode
      BY <3>1, LoginAssumption DEF RecoveryCode
    <3> QED
      BY <3>2 DEF IInv, TypeOK, insert_recovery_code
  <2>4. {misses', mfa_misses'} \subseteq 0..MaxMisses
    BY DEF IInv, TypeOK, OneMore, insert_recovery_code
  <2>5. known' \subseteq generated' /\ generated' \subseteq Secrets /\ proven' \subseteq Secrets
    BY DEF IInv, TypeOK, Formed, insert_recovery_code
  <2>6. {mfa_until', uncounted'} \subseteq Nat /\ now' \in 0..MaxTime /\ faults' \in 0..MaxFaults
    BY DEF IInv, TypeOK, insert_recovery_code
  <2> QED
    BY <2>1, <2>2, <2>3, <2>4, <2>5, <2>6 DEF IInv, TypeOK, insert_recovery_code
<1>2. (\A q \in Requests : Formed(q))'
  <2>1. \A q \in Requests \ {r} : req'[q] = req[q] /\ (Enrols(q) => req[q].secret # req[r].secret)
    BY DEF IInv, TypeOK, Formed, OwnSecret, insert_recovery_code
  <2>2. generated' = generated /\ known' \subseteq known \cup {req[r].secret}
    BY DEF insert_recovery_code
  <2>3. \A q \in Requests \ {r} : Formed(q)'
    BY <2>1, <2>2 DEF IInv, Formed, Enrols
  <2>4. Formed(r)'
    BY DEF IInv, TypeOK, Request, Formed, Enrols, Idle, insert_recovery_code
  <2> QED
    BY <2>3, <2>4
<1>3. Exclusive'
  BY DEF IInv, Exclusive, Second, Idle, insert_recovery_code, TypeOK, Request
<1>4. OwnSecret'
  BY DEF IInv, OwnSecret, Enrols, Idle, insert_recovery_code, TypeOK, Request
<1>5. (\A c \in RecoveryCode : SpentOnce(c))'
  <2> DEFINE new == <<req[r].secret, req[r].inserted + 1>>
  <2>1. Enrols(r) /\ req[r].secret \in generated /\ req[r].inserted \in Nat
    BY DEF IInv, TypeOK, Request, Formed, insert_recovery_code
  <2>2. uses' = uses /\ generated' = generated
    BY DEF insert_recovery_code
  <2>3. CASE req[r].inserted < CodeCount
    <3>1. codes' = codes \cup {new} /\ req' = [req EXCEPT ![r].inserted = @ + 1]
      BY <2>3 DEF insert_recovery_code
    <3>2. ASSUME NEW c \in RecoveryCode, Unissued(c)' PROVE Unissued(c) /\ c # new
      <4>1. CASE c[1] \notin generated
        BY <2>1, <4>1 DEF Unissued
      <4>2. CASE c[1] \in generated
        <5>1. PICK q \in Requests :
                req'[q].of = "enroll" /\ req'[q].secret = c[1] /\ req'[q].inserted < c[2]
          BY <2>2, <3>2, <4>2 DEF Unissued, Enrols
        <5>2. c[2] \in Nat
          BY DEF RecoveryCode
        <5>3. CASE q = r
          <6>1. /\ req'[r].inserted = req[r].inserted + 1 /\ req'[r].secret = req[r].secret
                /\ req'[r].of = "enroll"
            BY <2>1, <3>1 DEF IInv, TypeOK, Enrols
          <6>2. req[r].secret = c[1] /\ req[r].inserted + 1 < c[2]
            BY <5>1, <5>3, <6>1
          <6> QED
            BY <2>1, <5>2, <6>2 DEF Unissued
        <5>4. CASE q # r
          <6>1. req'[q] = req[q]
            BY <3>1, <5>4 DEF IInv
          <6>2. Enrols(q) /\ req[q].secret = c[1] /\ req[q].inserted < c[2]
            BY <5>1, <6>1 DEF Enrols
          <6>3. req[q].secret # req[r].secret
            BY <2>1, <5>4, <6>2 DEF IInv, OwnSecret
          <6> QED
            BY <6>2, <6>3 DEF Unissued
        <5> QED
          BY <5>3, <5>4
      <4> QED
        BY <4>1, <4>2
    <3>3. new \in RecoveryCode => uses[new] = 0
      BY <2>1 DEF IInv, SpentOnce, Unissued
    <3> QED
      BY <2>2, <3>1, <3>2, <3>3 DEF IInv, SpentOnce
  <2>4. CASE ~(req[r].inserted < CodeCount)
    BY <2>2, <2>4 DEF IInv, TypeOK, SpentOnce, Unissued, Enrols, Idle, insert_recovery_code
  <2> QED
    BY <2>3, <2>4
<1>6. (proven \subseteq known)'
  BY DEF IInv, insert_recovery_code
<1>7. RowKnown'
  BY DEF IInv, RowKnown, EnabledIsProven, Enrols, Idle, UserRow, insert_recovery_code,
     TypeOK, Request
<1>8. CodesKnown'
  <2> SUFFICES ASSUME ~overlapped', ~undeleted' PROVE CodesKnown'
    BY DEF CodesKnown
  <2> DEFINE s == req[r].secret  n == req[r].inserted
  <2>1. /\ ~overlapped /\ ~undeleted
        /\ UNCHANGED <<user, uses, generated>>
    BY DEF insert_recovery_code
  <2>2. Enrols(r) /\ s \in Secrets \ known /\ n \in 0..CodeCount /\ user.totp_secret = s
    BY <2>1 DEF IInv, TypeOK, Request, Formed, RowKnown, insert_recovery_code
  <2>3. codes = Codes(s, n)
    BY <2>1 DEF IInv, CodesKnown, insert_recovery_code
  <2>4. \A q \in Requests : req[q].at = "insert" => q = r
    BY <2>1, <2>2 DEF IInv, Formed, Exclusive, Second, Enrols
  <2>5. CASE n < CodeCount
    <3>1. /\ codes' = codes \cup {<<s, n + 1>>} /\ known' = known
          /\ req' = [req EXCEPT ![r].inserted = @ + 1]
      BY <2>5 DEF insert_recovery_code
    <3>2. <<s, n + 1>> \in RecoveryCode /\ uses[<<s, n + 1>>] = 0
      <4>1. <<s, n + 1>> \in RecoveryCode
        BY <2>2, <2>5, LoginAssumption DEF RecoveryCode
      <4>2. Unissued(<<s, n + 1>>)
        BY <2>2 DEF Unissued
      <4> QED
        BY <4>1, <4>2 DEF IInv, SpentOnce
    <3>3. codes' = Codes(s, n + 1)
      BY <2>1, <2>2, <2>3, <3>1, <3>2 DEF Codes, RecoveryCode
    <3>4. req'[r].inserted = n + 1 /\ req'[r].secret = s
      BY <3>1 DEF IInv, TypeOK
    <3>5. \A q \in Requests : req'[q].at = "insert" => q = r
      BY <2>4, <3>1 DEF IInv
    <3> QED
      BY <2>1, <2>2, <3>1, <3>3, <3>4, <3>5 DEF CodesKnown, Codes
  <2>6. CASE ~(n < CodeCount)
    <3>1. codes' = codes /\ req' = [req EXCEPT ![r] = Idle]
      BY <2>6 DEF insert_recovery_code
    <3>2. n = CodeCount
      BY <2>2, <2>6, LoginAssumption
    <3>3. codes' = Codes(s, CodeCount)
      BY <2>1, <2>3, <3>1, <3>2 DEF Codes
    <3>4. \A q \in Requests : req'[q].at # "insert"
      BY <2>4, <3>1 DEF IInv, TypeOK, Idle
    <3> QED
      BY <2>1, <2>2, <3>3, <3>4 DEF CodesKnown, Codes
  <2> QED
    BY <2>5, <2>6
<1>9. (Counted /\ TriesBounded)'
  <2>1. req' = [req EXCEPT ![r] = req'[r]]
    BY DEF IInv, insert_recovery_code
  <2>2. {misses', uncounted', user'.failed_login_attempts} \subseteq Nat
    BY <1>1 DEF TypeOK, UserRow
  <2>3. \/ misses' = 0
        \/ /\ user'.failed_login_attempts = user.failed_login_attempts
           /\ misses' <= misses + (IF req'[r].at = "increment" THEN 1 ELSE 0)
           /\ uncounted' >= uncounted + (IF req[r].at \in {"increment", "lock"} THEN 1 ELSE 0)
    BY DEF IInv, TypeOK, OneMore, insert_recovery_code
  <2> QED
    BY <2>1, <2>2, <2>3, CountsKept
<1> QED
  BY <1>1, <1>2, <1>3, <1>4, <1>5, <1>6, <1>7, <1>8, <1>9 DEF IInv

\* A secret that is activated was shown.
LEMMA ActivatePreserves ==
  ASSUME IInv, NEW r \in Requests, NEW code \in Typed, ActivateTotp(r, code)
  PROVE  IInv'
<1> USE DEF secrets, tries, slips
<1>1. TypeOK'
  BY DEF IInv, TypeOK, UserRow, Request, Idle, ActivateTotp, BeginTotp, Begin
<1>2. (\A q \in Requests : Formed(q))'
  BY DEF IInv, Formed, Enrols, ActivateTotp, BeginTotp, Begin
<1>3. Exclusive'
  BY DEF IInv, Exclusive, Second, ActivateTotp, BeginTotp, Begin, Disturbed, TypeOK
<1>4. OwnSecret'
  BY DEF IInv, OwnSecret, Enrols, ActivateTotp, BeginTotp, Begin
<1>5. (\A c \in RecoveryCode : SpentOnce(c))'
  BY DEF IInv, SpentOnce, Unissued, Enrols, ActivateTotp, BeginTotp, Begin
<1>6. (proven \subseteq known)'
  <2>1. code \in Secrets \cup {NULL} => code \in known \cup {NULL}
    BY CodesAreNoSecrets DEF Typed
  <2>2. code \in known
    BY <2>1 DEF IInv, TypeOK, UserRow, ActivateTotp
  <2> QED
    BY <2>2 DEF IInv, ActivateTotp
<1>7. RowKnown'
  BY DEF IInv, RowKnown, EnabledIsProven, Enrols, ActivateTotp, BeginTotp, Begin, TypeOK
<1>8. CodesKnown'
  BY DEF IInv, CodesKnown, Codes, ActivateTotp, BeginTotp, Begin, TypeOK
<1>9. (Counted /\ TriesBounded)'
  <2>1. req' = [req EXCEPT ![r] = req'[r]]
    BY DEF IInv, ActivateTotp, BeginTotp, Begin
  <2>2. {misses', uncounted', user'.failed_login_attempts} \subseteq Nat
    BY <1>1 DEF TypeOK, UserRow
  <2>3. \/ misses' = 0
        \/ /\ user'.failed_login_attempts = user.failed_login_attempts
           /\ misses' <= misses + (IF req'[r].at = "increment" THEN 1 ELSE 0)
           /\ uncounted' >= uncounted + (IF req[r].at \in {"increment", "lock"} THEN 1 ELSE 0)
    BY DEF IInv, TypeOK, OneMore, Idle, ActivateTotp, BeginTotp, Begin
  <2> QED
    BY <2>1, <2>2, <2>3, CountsKept
<1> QED
  BY <1>1, <1>2, <1>3, <1>4, <1>5, <1>6, <1>7, <1>8, <1>9 DEF IInv

\* The secret in the row is still the one that was proven.
LEMMA EnablePreserves ==
  ASSUME IInv, NEW r \in Requests, enable_totp(r)
  PROVE  IInv'
<1> USE DEF secrets, tries, slips
<1>1. TypeOK'
  <2>1. user' \in UserRow
    BY DEF IInv, TypeOK, UserRow, enable_totp
  <2>2. req' \in [Requests -> Request]
    BY LoginAssumption DEF IInv, TypeOK, Request, Idle, enable_totp
  <2>3. codes' \subseteq RecoveryCode /\ uses' \in [RecoveryCode -> Nat]
    BY DEF IInv, TypeOK, enable_totp
  <2>4. {misses', mfa_misses'} \subseteq 0..MaxMisses
    BY DEF IInv, TypeOK, OneMore, enable_totp
  <2>5. known' \subseteq generated' /\ generated' \subseteq Secrets /\ proven' \subseteq Secrets
    BY DEF IInv, TypeOK, enable_totp
  <2>6. {mfa_until', uncounted'} \subseteq Nat /\ now' \in 0..MaxTime /\ faults' \in 0..MaxFaults
    BY DEF IInv, TypeOK, enable_totp
  <2> QED
    BY <2>1, <2>2, <2>3, <2>4, <2>5, <2>6 DEF IInv, TypeOK, enable_totp
<1>2. (\A q \in Requests : Formed(q))'
  BY DEF IInv, Formed, Enrols, Idle, enable_totp
<1>3. Exclusive'
  BY DEF IInv, Exclusive, Second, Idle, enable_totp
<1>4. OwnSecret'
  BY DEF IInv, OwnSecret, Enrols, Idle, enable_totp
<1>5. (\A c \in RecoveryCode : SpentOnce(c))'
  BY DEF IInv, SpentOnce, Unissued, Enrols, Idle, enable_totp
<1>6. (proven \subseteq known)'
  BY DEF IInv, enable_totp
<1>7. RowKnown'
  BY DEF IInv, RowKnown, EnabledIsProven, Enrols, Formed, Exclusive, Second, Idle,
     enable_totp
<1>8. CodesKnown'
  BY DEF IInv, CodesKnown, Codes, Idle, enable_totp
<1>9. (Counted /\ TriesBounded)'
  <2>1. req' = [req EXCEPT ![r] = req'[r]]
    BY DEF IInv, enable_totp
  <2>2. {misses', uncounted', user'.failed_login_attempts} \subseteq Nat
    BY <1>1 DEF TypeOK, UserRow
  <2>3. \/ misses' = 0
        \/ /\ user'.failed_login_attempts = user.failed_login_attempts
           /\ misses' <= misses + (IF req'[r].at = "increment" THEN 1 ELSE 0)
           /\ uncounted' >= uncounted + (IF req[r].at \in {"increment", "lock"} THEN 1 ELSE 0)
    BY DEF IInv, TypeOK, OneMore, enable_totp
  <2> QED
    BY <2>1, <2>2, <2>3, CountsKept
<1> QED
  BY <1>1, <1>2, <1>3, <1>4, <1>5, <1>6, <1>7, <1>8, <1>9 DEF IInv

\* To disable 2FA a handler begins with the code.
LEMMA DisableTotpPreserves ==
  ASSUME IInv, NEW r \in Requests, NEW code \in Typed, DisableTotp(r, code)
  PROVE  IInv'
<1> USE DEF secrets, tries, slips
<1>1. TypeOK'
  BY LoginAssumption, CodesAreNoSecrets DEF IInv, TypeOK, UserRow, Request, Idle,
     DisableTotp, BeginTotp, Begin, Typed
<1>2. (\A q \in Requests : Formed(q))'
  BY DEF IInv, Formed, Enrols, DisableTotp, BeginTotp, Begin
<1>3. Exclusive'
  BY DEF IInv, Exclusive, Second, DisableTotp, BeginTotp, Begin, Disturbed, TypeOK
<1>4. OwnSecret'
  BY DEF IInv, OwnSecret, Enrols, DisableTotp, BeginTotp, Begin
<1>5. (\A c \in RecoveryCode : SpentOnce(c))'
  BY DEF IInv, SpentOnce, Unissued, Enrols, DisableTotp, BeginTotp, Begin
<1>6. (proven \subseteq known)'
  BY DEF IInv, DisableTotp
<1>7. RowKnown'
  BY DEF IInv, RowKnown, EnabledIsProven, Enrols, DisableTotp, BeginTotp, Begin, TypeOK
<1>8. CodesKnown'
  BY DEF IInv, CodesKnown, Codes, DisableTotp, BeginTotp, Begin, TypeOK
<1>9. (Counted /\ TriesBounded)'
  <2>1. req' = [req EXCEPT ![r] = req'[r]]
    BY DEF IInv, DisableTotp, BeginTotp, Begin
  <2>2. {misses', uncounted', user'.failed_login_attempts} \subseteq Nat
    BY <1>1 DEF TypeOK, UserRow
  <2>3. \/ misses' = 0
        \/ /\ user'.failed_login_attempts = user.failed_login_attempts
           /\ misses' <= misses + (IF req'[r].at = "increment" THEN 1 ELSE 0)
           /\ uncounted' >= uncounted + (IF req[r].at \in {"increment", "lock"} THEN 1 ELSE 0)
    BY DEF IInv, TypeOK, OneMore, Idle, DisableTotp, BeginTotp, Begin
  <2> QED
    BY <2>1, <2>2, <2>3, CountsKept
<1> QED
  BY <1>1, <1>2, <1>3, <1>4, <1>5, <1>6, <1>7, <1>8, <1>9 DEF IInv

\* The secret goes before its codes do.
LEMMA DisablePreserves ==
  ASSUME IInv, NEW r \in Requests, disable_totp(r)
  PROVE  IInv'
<1> USE DEF secrets, tries, slips
<1>1. TypeOK'
  <2>1. user' \in UserRow
    BY DEF IInv, TypeOK, UserRow, disable_totp, WriteTotp
  <2>2. req' \in [Requests -> Request]
    BY DEF IInv, TypeOK, Request, disable_totp, WriteTotp
  <2>3. codes' \subseteq RecoveryCode /\ uses' \in [RecoveryCode -> Nat]
    BY DEF IInv, TypeOK, disable_totp, WriteTotp
  <2>4. {misses', mfa_misses'} \subseteq 0..MaxMisses
    BY DEF IInv, TypeOK, OneMore, disable_totp, WriteTotp
  <2>5. known' \subseteq generated' /\ generated' \subseteq Secrets /\ proven' \subseteq Secrets
    BY DEF IInv, TypeOK, disable_totp, WriteTotp
  <2>6. {mfa_until', uncounted'} \subseteq Nat /\ now' \in 0..MaxTime /\ faults' \in 0..MaxFaults
    BY DEF IInv, TypeOK, disable_totp, WriteTotp
  <2> QED
    BY <2>1, <2>2, <2>3, <2>4, <2>5, <2>6 DEF IInv, TypeOK, disable_totp, WriteTotp
<1>2. (\A q \in Requests : Formed(q))'
  BY DEF IInv, Formed, Enrols, disable_totp, WriteTotp
<1>0. /\ req' = [req EXCEPT ![r].at = "delete"] /\ UNCHANGED <<known, proven, generated, undeleted>>
      /\ user' = [user EXCEPT !.totp_secret = NULL, !.totp_enabled = FALSE]
      /\ ~overlapped' => \A q \in Requests : Second(q) => q = r
  BY WriteAlone DEF IInv, Formed, Enrols, Second, disable_totp, WriteTotp
<1>3. Exclusive'
  BY <1>0 DEF IInv, TypeOK, Exclusive, Second
<1>4. OwnSecret'
  BY DEF IInv, OwnSecret, Enrols, disable_totp, WriteTotp
<1>5. (\A c \in RecoveryCode : SpentOnce(c))'
  BY DEF IInv, SpentOnce, Unissued, Enrols, disable_totp, WriteTotp
<1>6. (proven \subseteq known)'
  BY DEF IInv, disable_totp, WriteTotp
<1>7. RowKnown'
  <2>1. ~user'.totp_enabled /\ user'.totp_secret = NULL
    BY <1>0 DEF IInv, TypeOK, UserRow
  <2>2. /\ req'[r].at = "delete" /\ req'[r].of = req[r].of /\ req'[r].secret = req[r].secret
        /\ req[r].of = "disable"
        /\ \A q \in Requests \ {r} : req'[q] = req[q]
    BY <1>0 DEF IInv, TypeOK, Request, Formed, Enrols, disable_totp
  <2>3. ~overlapped' => \A q \in Requests \ {r} : req'[q].at \notin {"enable", "set", "delete"}
                                                 /\ req'[q].of # "enroll"
    BY <1>0, <2>2 DEF IInv, Formed, Second, Enrols
  <2> QED
    BY <2>1, <2>2, <2>3 DEF RowKnown, EnabledIsProven, Enrols
<1>8. CodesKnown'
  BY <1>0, LoginAssumption DEF IInv, TypeOK, UserRow, CodesKnown, Codes, Enrols, Formed, Second, disable_totp
<1>9. (Counted /\ TriesBounded)'
  <2>1. req' = [req EXCEPT ![r] = req'[r]]
    BY DEF IInv, disable_totp, WriteTotp
  <2>2. {misses', uncounted', user'.failed_login_attempts} \subseteq Nat
    BY <1>1 DEF TypeOK, UserRow
  <2>3. \/ misses' = 0
        \/ /\ user'.failed_login_attempts = user.failed_login_attempts
           /\ misses' <= misses + (IF req'[r].at = "increment" THEN 1 ELSE 0)
           /\ uncounted' >= uncounted + (IF req[r].at \in {"increment", "lock"} THEN 1 ELSE 0)
    BY DEF IInv, TypeOK, OneMore, disable_totp, WriteTotp
  <2> QED
    BY <2>1, <2>2, <2>3, CountsKept
<1> QED
  BY <1>1, <1>2, <1>3, <1>4, <1>5, <1>6, <1>7, <1>8, <1>9 DEF IInv

\* A handler that is dropped leaves a count short by its own at most.
LEMMA AbortPreserves ==
  ASSUME IInv, NEW r \in Requests, Abort(r)
  PROVE  IInv'
<1> USE DEF secrets, tries, slips
<1>1. TypeOK'
  BY LoginAssumption DEF IInv, TypeOK, Request, Idle, Abort
<1>2. (\A q \in Requests : Formed(q))'
  BY DEF IInv, Formed, Enrols, Idle, Abort
<1>3. Exclusive'
  BY DEF IInv, Exclusive, Second, Idle, Abort
<1>4. OwnSecret'
  BY DEF IInv, OwnSecret, Enrols, Idle, Abort
<1>5. (\A c \in RecoveryCode : SpentOnce(c))'
  BY DEF IInv, SpentOnce, Unissued, Enrols, Idle, Abort
<1>6. (proven \subseteq known)'
  BY DEF IInv, Abort
<1>7. RowKnown'
  BY DEF IInv, RowKnown, EnabledIsProven, Enrols, Idle, Abort
<1>8. CodesKnown'
  BY DEF IInv, CodesKnown, Codes, Idle, Abort
<1>9. (Counted /\ TriesBounded)'
  <2>1. req' = [req EXCEPT ![r] = req'[r]]
    BY DEF IInv, Abort
  <2>2. {misses', uncounted', user'.failed_login_attempts} \subseteq Nat
    BY <1>1 DEF TypeOK, UserRow
  <2>3. \/ misses' = 0
        \/ /\ user'.failed_login_attempts = user.failed_login_attempts
           /\ misses' <= misses + (IF req'[r].at = "increment" THEN 1 ELSE 0)
           /\ uncounted' >= uncounted + (IF req[r].at \in {"increment", "lock"} THEN 1 ELSE 0)
    BY DEF IInv, TypeOK, OneMore, Abort
  <2> QED
    BY <2>1, <2>2, <2>3, CountsKept
<1> QED
  BY <1>1, <1>2, <1>3, <1>4, <1>5, <1>6, <1>7, <1>8, <1>9 DEF IInv

-----------------------------------------------------------------------------
(***************************************************************************)
(* The invariant holds, and with it the properties the run checks.         *)
(***************************************************************************)
\* At first there is no second factor, and nobody has failed.
LEMMA InitEstablishes ==
  Init => IInv
<1> SUFFICES ASSUME Init PROVE IInv
  OBVIOUS
<1>1. TypeOK
  <2>1. user \in UserRow
    BY DEF Init, UserRow
  <2>2. Idle \in Request
    BY LoginAssumption DEF Idle, Request
  <2>3. req \in [Requests -> Request]
    BY <2>2 DEF Init
  <2>4. now \in 0..MaxTime /\ {misses, mfa_misses} \subseteq 0..MaxMisses /\ faults \in 0..MaxFaults
    BY LoginAssumption DEF Init
  <2> QED
    BY <2>1, <2>3, <2>4 DEF Init, TypeOK
<1>2. /\ \A r \in Requests : req[r] = Idle
      /\ codes = {} /\ known = {} /\ proven = {} /\ ~user.totp_enabled
      /\ \A c \in RecoveryCode : uses[c] = 0
  BY DEF Init
<1>3. Counted /\ TriesBounded
  <2>1. Counting = {} /\ Uncounted = Cardinality({})
    BY <1>2 DEF Counting, Uncounted, Idle
  <2>2. Cardinality({}) = 0
    BY FS_EmptySet
  <2> QED
    BY <2>1, <2>2, LoginAssumption DEF Init, Counted, TriesBounded
<1> QED
  BY <1>1, <1>2, <1>3 DEF IInv, Idle, Formed, Exclusive, OwnSecret, SpentOnce, RowKnown,
     EnabledIsProven, CodesKnown, Second, Enrols

\* Each query of a handler, the clock, and stuttering.
LEMMA StepPreserves ==
  IInv /\ [Next]_vars => IInv'
<1> SUFFICES ASSUME IInv, [Next]_vars PROVE IInv'
  OBVIOUS
<1>1. ASSUME NEW r \in Requests, LoginStep(r) PROVE IInv'
  BY <1>1, LoginPreserves, LoginTotpPreserves, IncrementPreserves, LockPreserves,
     ResetPreserves, ConsumePreserves DEF LoginStep
<1>2. ASSUME NEW r \in Requests, TotpStep(r) PROVE IInv'
  BY <1>2, EnrollPreserves, SetPreserves, DeleteCodesPreserves, InsertPreserves,
     ActivatePreserves, EnablePreserves, DisableTotpPreserves, DisablePreserves DEF TotpStep
<1>3. ASSUME NEW r \in Requests, Abort(r) PROVE IInv'
  BY <1>3, AbortPreserves
<1>4. ASSUME Tick \/ UNCHANGED vars PROVE IInv'
  <2> USE DEF secrets, tries, slips
  <2>1. now' \in 0..MaxTime
    BY <1>4, LoginAssumption DEF Tick, vars, IInv, TypeOK
  <2>2. UNCHANGED <<user, codes, req, mfa_until, generated, known, misses, uncounted,
                    mfa_misses, proven, uses, faults, undeleted, overlapped>>
    BY <1>4 DEF Tick, vars
  <2>3. (\A r \in Requests : Formed(r))' /\ (\A c \in RecoveryCode : SpentOnce(c))'
    BY <2>2 DEF IInv, Formed, SpentOnce, Unissued, Enrols
  <2>4. Exclusive' /\ OwnSecret' /\ RowKnown' /\ CodesKnown'
    BY <2>2 DEF IInv, Exclusive, OwnSecret, RowKnown, EnabledIsProven, CodesKnown, Codes,
       Second, Enrols
  <2>5. Counted' /\ TriesBounded'
    BY <2>2 DEF IInv, Counted, Counting, TriesBounded, Uncounted
  <2> QED
    BY <2>1, <2>2, <2>3, <2>4, <2>5 DEF IInv, TypeOK
<1> QED
  BY <1>1, <1>2, <1>3, <1>4 DEF Next

\* The inductive invariant holds always, however the handlers interleave and wherever
\* one of them fails.
THEOREM Invariance == Spec => []IInv
BY InitEstablishes, StepPreserves, PTL DEF Spec

\* The user's row, his codes and the handlers keep their types.
THEOREM TypeCorrect == Spec => []TypeOK
BY Invariance, PTL DEF IInv

\* The lockout: fewer wrong passwords and codes are verified than login_max_failures(),
\* for any number of handlers that verify at the same time, but for those that have yet
\* to count theirs, or failed to.
THEOREM LockoutTheorem == Spec => []TriesBounded
BY Invariance, PTL DEF IInv

\* A recovery code is accepted once, whoever presents it, and however often the user
\* enrols again.
THEOREM RecoveryCodeTheorem == Spec => []RecoveryCodeSingleUse
<1>1. IInv => RecoveryCodeSingleUse
  BY DEF IInv, SpentOnce, RecoveryCodeSingleUse
<1> QED
  BY <1>1, Invariance, PTL

\* Unless handlers of the second factor have overlapped, and none has written the row
\* alone since, 2FA is on only with a secret that the user has shown to hold.
THEOREM EnabledTheorem == Spec => []EnabledIsProven
<1>1. IInv => EnabledIsProven
  BY DEF IInv, RowKnown, EnabledIsProven
<1> QED
  BY <1>1, Invariance, PTL

\* With that exception, and unless the latest deletion failed, the unspent codes of a user
\* with 2FA are all those that were shown with its secret.
THEOREM CodesTheorem == Spec => []RecoveryCodesMatch
<1>1. ASSUME IInv, user.totp_enabled, ~undeleted, ~overlapped
      PROVE  codes = {c \in RecoveryCode : c[1] = user.totp_secret /\ uses[c] = 0}
  <2>1. codes = Codes(user.totp_secret, CodeCount)
    BY <1>1 DEF IInv, RowKnown, EnabledIsProven, CodesKnown
  <2>2. \A c \in RecoveryCode : c[2] <= CodeCount
    BY DEF RecoveryCode
  <2> QED
    BY <2>1, <2>2 DEF Codes
<1>2. IInv => RecoveryCodesMatch
  BY <1>1 DEF RecoveryCodesMatch
<1> QED
  BY <1>2, Invariance, PTL

\* With the first exception, working 2FA is not turned off by an enrolment: it takes
\* disable_totp.
THEOREM OnlyDisableTheorem == Spec => OnlyDisableDisables
<1>1. ASSUME IInv, Next, user.totp_enabled, ~user'.totp_enabled, ~overlapped
      PROVE  \E r \in Requests : req[r].at = "disable"
  <2>1. ASSUME NEW r \in Requests, set_totp_secret(r) PROVE FALSE
    BY <1>1, <2>1 DEF IInv, RowKnown, set_totp_secret, WriteTotp
  <2>2. ASSUME NEW r \in Requests, LoginStep(r) PROVE FALSE
    BY <1>1, <2>2 DEF IInv, TypeOK, UserRow, LoginStep, Login, LoginTotp,
       increment_login_failure, lock_user, reset_login_state, consume_recovery_code
  <2>3. ASSUME NEW r \in Requests, TotpStep(r), ~set_totp_secret(r), ~disable_totp(r) PROVE FALSE
    BY <1>1, <2>3 DEF IInv, TypeOK, UserRow, TotpStep, EnrollTotp, delete_recovery_codes,
       insert_recovery_code, ActivateTotp, DisableTotp, enable_totp
  <2>4. ASSUME NEW r \in Requests, Abort(r) PROVE FALSE
    BY <1>1, <2>4 DEF Abort
  <2>5. ~Tick
    BY <1>1 DEF Tick
  <2> QED
    BY <1>1, <2>1, <2>2, <2>3, <2>4, <2>5 DEF Next, disable_totp
<1>2. IInv /\ [Next]_vars =>
        [user.totp_enabled /\ ~user'.totp_enabled /\ ~overlapped
           => \E r \in Requests : req[r].at = "disable"]_vars
  BY <1>1
<1> QED
  BY <1>2, Invariance, PTL DEF Spec, OnlyDisableDisables

\* A code goes from unissued to there to spent, and is accepted where it is deleted.
LEMMA CodesMove ==
  ASSUME IInv, Next, NEW c \in RecoveryCode
  PROVE  /\ Unissued(c)' => Unissued(c)
         /\ c \in codes' => c \in codes \/ Unissued(c)
         /\ uses'[c] # uses[c] => c \in codes /\ c \notin codes'
<1> USE DEF secrets, tries, slips
<1>1. ASSUME NEW r \in Requests, LoginStep(r), ~consume_recovery_code(r)
      PROVE  /\ UNCHANGED <<codes, uses>>
             /\ Unissued(c)' => Unissued(c)
  <2>1. ASSUME NEW correct \in BOOLEAN, Login(r, correct)
        PROVE  UNCHANGED <<codes, uses>> /\ (Unissued(c)' => Unissued(c))
    BY <2>1 DEF IInv, TypeOK, Login, Begin, Idle, Unissued, Enrols
  <2>2. ASSUME NEW code \in Typed, LoginTotp(r, code)
        PROVE  UNCHANGED <<codes, uses>> /\ (Unissued(c)' => Unissued(c))
    BY <2>2 DEF IInv, TypeOK, LoginTotp, Begin, Idle, Unissued, Enrols
  <2>3. CASE increment_login_failure(r)
    BY <2>3 DEF IInv, TypeOK, Request, increment_login_failure, Idle, Unissued, Enrols
  <2>4. CASE lock_user(r) \/ reset_login_state(r)
    BY <2>4 DEF IInv, TypeOK, lock_user, reset_login_state, Idle, Unissued, Enrols
  <2> QED
    BY <1>1, <2>1, <2>2, <2>3, <2>4 DEF LoginStep
<1>2. ASSUME NEW r \in Requests, consume_recovery_code(r)
      PROVE  /\ Unissued(c)' => Unissued(c)
             /\ codes' \subseteq codes
             /\ uses'[c] # uses[c] => c \in codes /\ c \notin codes'
  BY <1>2 DEF IInv, TypeOK, consume_recovery_code, Idle, Unissued, Enrols
<1>3. ASSUME NEW r \in Requests, NEW secret \in Secrets, EnrollTotp(r, secret)
      PROVE  /\ UNCHANGED <<codes, uses>>
             /\ Unissued(c)' => Unissued(c)
  BY <1>3 DEF IInv, TypeOK, EnrollTotp, BeginTotp, Begin, Idle, Unissued, Enrols
<1>4. ASSUME NEW r \in Requests, set_totp_secret(r) \/ disable_totp(r) \/ enable_totp(r)
      PROVE  /\ UNCHANGED <<codes, uses>>
             /\ Unissued(c)' => Unissued(c)
  <2>1. CASE set_totp_secret(r) \/ disable_totp(r)
    BY <2>1 DEF IInv, TypeOK, Request, set_totp_secret, disable_totp, Unissued, Enrols
  <2>2. CASE enable_totp(r)
    BY <2>2 DEF IInv, TypeOK, enable_totp, Idle, Unissued, Enrols
  <2> QED
    BY <1>4, <2>1, <2>2
<1>5. ASSUME NEW r \in Requests, NEW code \in Typed, ActivateTotp(r, code) \/ DisableTotp(r, code)
      PROVE  /\ UNCHANGED <<codes, uses>>
             /\ Unissued(c)' => Unissued(c)
  <2>1. CASE ActivateTotp(r, code)
    BY <2>1 DEF IInv, TypeOK, ActivateTotp, BeginTotp, Begin, Idle, Unissued, Enrols
  <2>2. CASE DisableTotp(r, code)
    BY <2>2 DEF IInv, TypeOK, DisableTotp, BeginTotp, Begin, Idle, Unissued, Enrols
  <2> QED
    BY <1>5, <2>1, <2>2
<1>6. ASSUME NEW r \in Requests, delete_recovery_codes(r)
      PROVE  /\ UNCHANGED uses /\ codes' \subseteq codes
             /\ Unissued(c)' => Unissued(c)
  BY <1>6 DEF IInv, TypeOK, Request, delete_recovery_codes, Idle, Unissued, Enrols
<1>7. ASSUME NEW r \in Requests, insert_recovery_code(r)
      PROVE  /\ UNCHANGED uses
             /\ c \in codes' => c \in codes \/ Unissued(c)
             /\ Unissued(c)' => Unissued(c)
  <2>1. Enrols(r) /\ req[r].inserted \in Nat
    BY <1>7 DEF IInv, TypeOK, Request, Formed, insert_recovery_code
  <2>2. c \in codes' => c \in codes \/ Unissued(c)
    BY <1>7, <2>1 DEF insert_recovery_code, Unissued
  <2>3. c[2] \in Nat
    BY DEF RecoveryCode
  <2>4. Unissued(c)' => Unissued(c)
    BY <1>7, <2>1, <2>3 DEF IInv, TypeOK, Request, insert_recovery_code, Idle, Unissued, Enrols
  <2> QED
    BY <1>7, <2>2, <2>4 DEF insert_recovery_code
<1>8. ASSUME NEW r \in Requests, Abort(r)
      PROVE  /\ UNCHANGED <<codes, uses>>
             /\ Unissued(c)' => Unissued(c)
  BY <1>8 DEF IInv, TypeOK, Abort, Idle, Unissued, Enrols
<1>9. Tick => UNCHANGED <<codes, uses, req, generated>>
  BY DEF Tick
<1>10. UNCHANGED <<codes, uses, req, generated>> =>
         UNCHANGED <<codes, uses>> /\ (Unissued(c)' => Unissued(c))
  BY DEF Unissued, Enrols
<1> QED
  BY <1>1, <1>2, <1>3, <1>4, <1>5, <1>6, <1>7, <1>8, <1>9, <1>10 DEF Next, TotpStep

\* Recovery codes are the one-time secrets of OneTime, for any number of codes, of
\* enrolments and of handlers that run at the same time.
THEOREM RecoveryCodesTheorem == Spec => RecoveryCodesAreOneTime
<1> DEFINE stage(c) == IF Unissued(c) THEN "new" ELSE IF c \in codes THEN "live" ELSE "spent"
<1>1. Init => Recovery!Init
  BY DEF Init, Recovery!Init, Unissued
<1>2. IInv /\ IInv' /\ [Next]_vars => [Recovery!Next]_<<[c \in RecoveryCode |-> stage(c)], uses>>
  <2> SUFFICES ASSUME IInv, IInv', Next
               PROVE  Recovery!Next
    <3>1. UNCHANGED vars => UNCHANGED <<[c \in RecoveryCode |-> stage(c)], uses>>
      BY DEF vars, secrets, Unissued, Enrols
    <3> QED
      BY <3>1
  <2>1. DOMAIN uses' = RecoveryCode
    BY DEF IInv, TypeOK
  <2>2. ASSUME NEW c \in RecoveryCode
        PROVE  Recovery!Advance(c) /\ (uses'[c] = uses[c] \/ Recovery!Take(c))
    <3>1. SpentOnce(c) /\ SpentOnce(c)' /\ uses[c] \in Nat /\ uses'[c] \in Nat
      BY DEF IInv, TypeOK
    <3>2. /\ Unissued(c)' => Unissued(c)
          /\ c \in codes' => c \in codes \/ Unissued(c)
          /\ uses'[c] # uses[c] => c \in codes /\ c \notin codes'
      BY CodesMove
    <3>3. Recovery!Advance(c)
      BY <3>2 DEF Recovery!Advance
    <3>4. uses'[c] = uses[c] \/ Recovery!Take(c)
      BY <3>1, <3>2 DEF Recovery!Take, SpentOnce
    <3> QED
      BY <3>3, <3>4
  <2> QED
    BY <2>1, <2>2 DEF Recovery!Next
<1> QED
  BY <1>1, <1>2, Invariance, PTL DEF Spec, RecoveryCodesAreOneTime, Recovery!Spec

=============================================================================
