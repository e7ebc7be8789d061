--------------------------- MODULE ReplicasProofs ---------------------------
(***************************************************************************)
(* Safety of the processes that start, crash and start again, and of the   *)
(* saga consumers they run, for any number of replicas, keys, accounts and *)
(* messages.                                                               *)
(***************************************************************************)
EXTENDS Replicas, TLAPS

-----------------------------------------------------------------------------
(***************************************************************************)
(* The inductive invariant of the consumers.                               *)
(***************************************************************************)

Tried(m) == audits[m] > 0 \/ m \in failed

\* A consumer that is about to acknowledge has tried to record.
Recording(c) ==
  /\ handler[c].at # "next" => handler[c].msg \in Messages /\ payload[handler[c].msg] # NULL
  /\ handler[c].at = "ack" /\ payload[handler[c].msg] = "event" => Tried(handler[c].msg)

SagaIInv ==
  /\ TypeOK
  /\ \A c \in Consumers : Recording(c)
  /\ AckedWasTried

(***************************************************************************)
(* The inductive invariant of the replicas.  What a replica signs with is  *)
(* in the table, and the table has nothing that it has not read or missed; *)
(* and it has passed the accounts before the one it is at.                 *)
(***************************************************************************)

\* The first key is active from its insertion on.
SomeKeyIsActive == active = NULL => oidc_signing_keys = {}

Loaded(r) == boot[r].at \notin {"down", "insert_key"}

KeysKnown(r) ==
  Loaded(r) =>
    /\ jwt[r] # NULL
    /\ jwt[r].signs \in oidc_signing_keys
    /\ oidc_signing_keys \subseteq jwt[r].verifies \cup unseen[r]

\* A user who is no member is about to become one, or was cut off from it.
UsersEnrolled ==
  \A a \in users :
    \/ a \in members \cup cut
    \/ \E q \in Replica : boot[q].at = "enroll" /\ boot[q].account = a

AtAccount(r) == boot[r].at \in {"lookup", "create", "enroll"}

\* The accounts of D, from the first one on, exist; `next` comes after them.
PassedBefore(next) ==
  \E D \in SUBSET users :
    /\ First \in D \cup {next}
    /\ \A a \in D : After[a] \in D \cup {next}

Passing(r) ==
  /\ boot[r].at = "insert_key" => boot[r].key \in KeyIds
  /\ AtAccount(r) => boot[r].account \in Accounts /\ PassedBefore(boot[r].account)
  /\ boot[r].at = "enroll" => boot[r].account \in users
  /\ boot[r].at \in {"saga", "serving"} => PassedBefore(NULL)

ReplicasIInv ==
  /\ SagaIInv
  /\ ReplicasTypeOK
  /\ SomeKeyIsActive
  /\ signed \subseteq oidc_signing_keys
  /\ \A r \in Replica : KeysKnown(r) /\ Passing(r)
  /\ UsersEnrolled

-----------------------------------------------------------------------------
(***************************************************************************)
(* The consumers.                                                          *)
(***************************************************************************)
\* At first nothing has arrived.
LEMMA SagaInitEstablishes == Init => SagaIInv
BY SagaAssumption DEF Init, Waiting, SagaIInv, TypeOK, Recording, AckedWasTried, Acked

\* A message arrives that no consumer is at.
LEMMA ArrivePreserves ==
  ASSUME SagaIInv, NEW m \in Messages, NEW kind \in Payload, Arrive(m, kind)
  PROVE  SagaIInv'
<1>1. kind # NULL /\ payload[m] = NULL
  BY NullIsNoPayload DEF Arrive
<1>2. \A k \in Messages : payload'[k] = IF k = m THEN kind ELSE payload[k]
  BY DEF Arrive, SagaIInv, TypeOK
<1>3. \A c \in Consumers : handler[c].at # "next" => handler[c].msg \in Messages \ {m}
  BY <1>1 DEF SagaIInv, Recording
<1>4. TypeOK'
  <2>1. \A c \in Consumers : handler[c].at = "audit" => payload'[handler[c].msg] = "event"
    BY <1>2, <1>3 DEF SagaIInv, TypeOK
  <2> QED
    BY <1>1, <1>2, <2>1 DEF Arrive, SagaIInv, TypeOK
<1>5. (\A c \in Consumers : Recording(c))'
  BY <1>2, <1>3 DEF Arrive, SagaIInv, Recording, Tried
<1>6. AckedWasTried'
  BY <1>2 DEF Arrive, SagaIInv, AckedWasTried, Acked
<1> QED
  BY <1>4, <1>5, <1>6 DEF SagaIInv

\* A consumer gets a message.
LEMMA DeliverPreserves ==
  ASSUME SagaIInv, NEW c \in Consumers, NEW m \in Messages, Deliver(c, m)
  PROVE  SagaIInv'
<1> DEFINE h == [msg |-> m, at |-> IF payload[m] = "event" THEN "audit" ELSE "ack"]
<1>1. payload[m] # NULL
  BY DEF Deliver, SagaIInv, TypeOK
<1>2. handler' \in [Consumers -> [msg: Messages \cup {NULL}, at: {"next", "audit", "ack"}]]
      /\ \A d \in Consumers : handler'[d] = IF d = c THEN h ELSE handler[d]
  BY DEF Deliver, SagaIInv, TypeOK
<1> HIDE DEF h
<1>3. h.msg = m /\ (h.at = "audit" => payload[m] = "event") /\ (h.at = "ack" => payload[m] # "event")
  BY DEF h
<1>4. TypeOK'
  BY <1>2, <1>3 DEF Deliver, SagaIInv, TypeOK
<1>5. (\A d \in Consumers : Recording(d))'
  BY <1>1, <1>2, <1>3 DEF Deliver, SagaIInv, Recording, Tried
<1> QED
  BY <1>4, <1>5 DEF Deliver, SagaIInv, AckedWasTried, Acked

\* The row is written, or the error is there to see.
LEMMA AuditPreserves ==
  ASSUME SagaIInv, NEW c \in Consumers, insert_audit(c)
  PROVE  SagaIInv'
<1>1. PICK m \in Messages :
        m = handler[c].msg /\ payload[m] = "event" /\ handler[c].at = "audit"
  BY DEF insert_audit, SagaIInv, Recording, TypeOK
<1>2. handler' \in [Consumers -> [msg: Messages \cup {NULL}, at: {"next", "audit", "ack"}]]
      /\ \A d \in Consumers : handler'[d] = IF d = c THEN [handler[c] EXCEPT !.at = "ack"]
                                                      ELSE handler[d]
  BY DEF insert_audit, SagaIInv, TypeOK
<1>3. handler'[c].at = "ack" /\ handler'[c].msg = m
  BY <1>1, <1>2
<1>4. audits' \in [Messages -> Nat] /\ failed' \subseteq Messages /\ faults' \in 0..MaxFaults
  BY <1>1, SagaAssumption DEF insert_audit, SagaIInv, TypeOK
<1>5. Tried(m)' /\ \A k \in Messages : Tried(k) => Tried(k)'
  <2>1. CASE audits' = [audits EXCEPT ![m] = @ + 1] /\ failed' = failed
    <3>1. \A k \in Messages : audits'[k] = IF k = m THEN audits[m] + 1 ELSE audits[k]
      BY <2>1 DEF SagaIInv, TypeOK
    <3>2. audits[m] \in Nat
      BY DEF SagaIInv, TypeOK
    <3> QED
      BY <2>1, <3>1, <3>2 DEF Tried
  <2>2. CASE failed' = failed \cup {m} /\ audits' = audits
    BY <2>2 DEF Tried
  <2> QED
    BY <1>1, <2>1, <2>2 DEF insert_audit
<1>6. TypeOK'
  BY <1>2, <1>3, <1>4 DEF insert_audit, SagaIInv, TypeOK
<1>7. (\A d \in Consumers : Recording(d))'
  BY <1>1, <1>2, <1>3, <1>5 DEF insert_audit, SagaIInv, Recording, Tried
<1>8. AckedWasTried'
  BY <1>5 DEF insert_audit, SagaIInv, AckedWasTried, Acked, Tried
<1> QED
  BY <1>6, <1>7, <1>8 DEF SagaIInv

\* What is acknowledged was tried; a consumer that breaks off loses nothing.
LEMMA AckPreserves ==
  ASSUME SagaIInv, NEW c \in Consumers, Ack(c) \/ Interrupt(c)
  PROVE  SagaIInv'
<1>1. handler' \in [Consumers -> [msg: Messages \cup {NULL}, at: {"next", "audit", "ack"}]]
      /\ \A d \in Consumers : handler'[d] = IF d = c THEN Waiting ELSE handler[d]
  BY DEF Ack, Interrupt, SagaIInv, TypeOK, Waiting
<1>2. UNCHANGED <<payload, audits, failed>> /\ faults' \in 0..MaxFaults
      /\ unacked' \subseteq unacked
  BY SagaAssumption DEF Ack, Interrupt, SagaIInv, TypeOK
<1>3. TypeOK' /\ (\A d \in Consumers : Recording(d))'
  BY <1>1, <1>2 DEF SagaIInv, TypeOK, Recording, Tried, Waiting
<1>4. AckedWasTried'
  BY <1>2 DEF Ack, Interrupt, SagaIInv, AckedWasTried, Acked, Recording, Tried
<1> QED
  BY <1>3, <1>4 DEF SagaIInv

\* One case for each operation.
LEMMA SagaStepPreserves ==
  ASSUME SagaIInv, [Next]_vars
  PROVE  SagaIInv'
<1>1. CASE UNCHANGED vars
  BY <1>1 DEF vars, SagaIInv, TypeOK, Recording, Tried, AckedWasTried, Acked
<1> QED
  BY <1>1, ArrivePreserves, DeliverPreserves, AuditPreserves, AckPreserves DEF Next, Consume

\* The inductive invariant of the consumers holds in every state.
THEOREM SagaInvariance == Spec => []SagaIInv
BY SagaInitEstablishes, SagaStepPreserves, PTL DEF Spec

\* saga::run acknowledges a failed profile only after it tried to record it.
THEOREM SagaTheorem == Spec => []AckedWasTried
<1>1. SagaIInv => AckedWasTried
  BY DEF SagaIInv
<1> QED
  BY <1>1, SagaInvariance, PTL

-----------------------------------------------------------------------------
(***************************************************************************)
(* The replicas: what concerns one of them stays while another moves.      *)
(***************************************************************************)
\* A crash interrupts a consumer, and a replica is no more to Saga than that.
LEMMA ReplicasStepIsStep ==
  ASSUME [ReplicasNext]_replicas_vars
  PROVE  [Next]_vars
<1>1. UNCHANGED saga => UNCHANGED vars
  BY DEF saga, vars
<1>2. ASSUME NEW r \in Replica, Start(r)
      PROVE  UNCHANGED saga
  BY <1>2 DEF Start, LoadKeys, InsertKey, GenerateKey, get_user_by_email,
     create_user_with_role, create_membership, StartSaga
<1>3. ASSUME NEW r \in Replica, Crash(r)
      PROVE  UNCHANGED saga \/ Interrupt(r)
  BY <1>3 DEF Crash
<1>4. ASSUME NEW r \in Replica, ConsumerStep(r)
      PROVE  Next
  BY <1>4 DEF ConsumerStep, Next, Replica
<1>5. Environment => UNCHANGED saga \/ Next
  BY DEF Environment, RotateKey, Next
<1>6. UNCHANGED replicas_vars => UNCHANGED saga
  BY DEF replicas_vars
<1>7. ASSUME NEW r \in Replica, Interrupt(r)
      PROVE  Next
  BY <1>7 DEF Next, Replica
<1> QED
  BY <1>1, <1>2, <1>3, <1>4, <1>5, <1>6, <1>7 DEF ReplicasNext

\* Users are not deleted at boot.
LEMMA PassedStays ==
  ASSUME NEW next, PassedBefore(next), users \subseteq users'
  PROVE  PassedBefore(next)'
BY DEF PassedBefore

\* A replica that does not move has passed what it had.
LEMMA PassingStays ==
  ASSUME NEW r \in Replica, Passing(r), users \subseteq users', boot'[r] = boot[r]
  PROVE  Passing(r)'
<1>1. PICK a : a = boot[r].account
  OBVIOUS
<1>2. PassedBefore(a) => PassedBefore(a)'
  BY PassedStays
<1>3. PassedBefore(NULL) => PassedBefore(NULL)'
  BY PassedStays
<1>4. boot'[r].account = a
  BY <1>1
<1>5. PassedBefore(boot[r].account)' <=> PassedBefore(a)'
  BY <1>4 DEF PassedBefore
<1> QED
  BY <1>1, <1>2, <1>3, <1>5 DEF Passing, AtAccount

\* A replica at its start that moves on, while the others stay where they are.
LEMMA MainMoves ==
  ASSUME ReplicasIInv, NEW r \in Replica, NEW b \in Boot, boot' = [boot EXCEPT ![r] = b],
         boot[r].at # "serving",
         UNCHANGED <<saga, oidc_signing_keys, active, cut>>,
         users \subseteq users', members' \subseteq users', users' \subseteq Accounts,
         jwt' \in [Replica -> JwtManager \cup {NULL}],
         unseen' \in [Replica -> SUBSET KeyIds],
         \A q \in Replica : q # r => jwt'[q] = jwt[q] /\ unseen'[q] = unseen[q],
         consuming' \in {consuming, consuming \cup {r}}, r \in consuming' => b.at = "serving",
         signed' \subseteq oidc_signing_keys, crashes' \in 0..MaxCrashes,
         KeysKnown(r)', Passing(r)', UsersEnrolled'
  PROVE  ReplicasIInv'
<1> USE DEF saga
<1>1. boot' \in [Replica -> Boot] /\ \A q \in Replica : boot'[q] = IF q = r THEN b ELSE boot[q]
  BY DEF ReplicasIInv, ReplicasTypeOK
<1>2. SagaIInv' /\ handler' = handler
  BY SagaStepPreserves DEF ReplicasIInv, vars
<1>3. ReplicasTypeOK'
  <2>1. consuming' \subseteq {q \in Replica : boot'[q].at = "serving"}
    BY <1>1 DEF ReplicasIInv, ReplicasTypeOK
  <2> QED
    BY <1>1, <1>2, <2>1 DEF ReplicasIInv, ReplicasTypeOK, SagaIInv
<1>4. ASSUME NEW q \in Replica
      PROVE  KeysKnown(q)' /\ Passing(q)'
  <2>1. CASE q = r
    BY <2>1
  <2>2. CASE q # r
    <3>1. boot'[q] = boot[q] /\ jwt'[q] = jwt[q] /\ unseen'[q] = unseen[q]
      BY <1>1, <2>2
    <3>2. KeysKnown(q)'
      BY <3>1 DEF ReplicasIInv, KeysKnown, Loaded
    <3> QED
      BY <3>1, <3>2, PassingStays DEF ReplicasIInv
  <2> QED
    BY <2>1, <2>2
<1> QED
  BY <1>2, <1>3, <1>4 DEF ReplicasIInv, SomeKeyIsActive

\* A user remains enrolled, unless the replica that was about to do it moves.
LEMMA EnrolledStays ==
  ASSUME ReplicasIInv, NEW r \in Replica, \A q \in Replica : q # r => boot'[q] = boot[q],
         users' \subseteq users, members \subseteq members', cut \subseteq cut',
         boot[r].at = "enroll" => boot[r].account \in members' \cup cut'
  PROVE  UsersEnrolled'
BY DEF ReplicasIInv, UsersEnrolled

\* The accounts up to the one a replica is at are passed when it proceeds.
LEMMA ProceedPasses ==
  ASSUME ReplicasIInv, NEW r \in Replica, AtAccount(r), boot[r].account \in users',
         users \subseteq users', Proceed(r)
  PROVE  \E b \in Boot : /\ boot' = [boot EXCEPT ![r] = b]
                         /\ b.at \in {"lookup", "saga"}
                         /\ Passing(r)'
<1>1. PICK a \in Accounts : a = boot[r].account /\ PassedBefore(a)
  BY DEF ReplicasIInv, Passing
<1>2. After[a] \in Accounts \cup {NULL} /\ NULL \notin Accounts
  BY ReplicasAssumption
<1> DEFINE b == IF After[a] # NULL THEN [at |-> "lookup", account |-> After[a], key |-> NULL]
                                   ELSE [at |-> "saga", account |-> NULL, key |-> NULL]
<1>3. b \in Boot /\ b.at = (IF After[a] # NULL THEN "lookup" ELSE "saga") /\ b.account = After[a]
  BY <1>2 DEF Boot
<1>4. boot' = [boot EXCEPT ![r] = b]
  BY <1>1 DEF Proceed, Goto
<1> HIDE DEF b
<1>5. boot'[r] = b
  BY <1>4 DEF ReplicasIInv, ReplicasTypeOK
<1>6. PassedBefore(After[a])'
  <2>1. PICK D \in SUBSET users : First \in D \cup {a} /\ \A k \in D : After[k] \in D \cup {a}
    BY <1>1 DEF PassedBefore
  <2> DEFINE E == D \cup {a}
  <2>2. E \in SUBSET users' /\ First \in E \cup {After[a]}
        /\ \A k \in E : After[k] \in E \cup {After[a]}
    BY <1>1, <2>1
  <2> HIDE DEF E
  <2> QED
    BY <2>2 DEF PassedBefore
<1>7. PassedBefore(boot[r].account)' <=> PassedBefore(After[a])'
  BY <1>3, <1>5 DEF PassedBefore
<1>8. After[a] = NULL => PassedBefore(NULL)'
  BY <1>6 DEF PassedBefore
<1>9. Passing(r)'
  BY <1>2, <1>3, <1>5, <1>6, <1>7, <1>8 DEF Passing, AtAccount
<1> QED
  BY <1>3, <1>4, <1>9

-----------------------------------------------------------------------------
(***************************************************************************)
(* The operations.                                                         *)
(***************************************************************************)
\* The table is read as it is.
LEMMA LoadKeysPreserves ==
  ASSUME ReplicasIInv, NEW r \in Replica, LoadKeys(r)
  PROVE  ReplicasIInv'
<1> DEFINE b == [at |-> "lookup", account |-> First, key |-> NULL]
           manager == [signs |-> active, verifies |-> oidc_signing_keys]
<1> USE DEF database, history
<1>1. b \in Boot
  BY ReplicasAssumption DEF Boot
<1>2. boot' = [boot EXCEPT ![r] = b] /\ boot[r].at = "down"
  BY DEF LoadKeys, Goto
<1>3. active \in oidc_signing_keys /\ manager \in JwtManager /\ manager # NULL
  BY NullIsNoManager DEF LoadKeys, ReplicasIInv, ReplicasTypeOK, JwtManager
<1>4. jwt' = [jwt EXCEPT ![r] = manager] /\ unseen' = [unseen EXCEPT ![r] = {}]
  BY DEF LoadKeys
<1>5. jwt \in [Replica -> JwtManager \cup {NULL}] /\ unseen \in [Replica -> SUBSET KeyIds]
      /\ boot \in [Replica -> Boot]
  BY DEF ReplicasIInv, ReplicasTypeOK
<1>6. jwt' \in [Replica -> JwtManager \cup {NULL}] /\ unseen' \in [Replica -> SUBSET KeyIds]
      /\ \A q \in Replica : q # r => jwt'[q] = jwt[q] /\ unseen'[q] = unseen[q]
  BY <1>3, <1>4, <1>5
<1>7. KeysKnown(r)'
  <2>1. jwt'[r] = manager
    BY <1>4, <1>5
  <2> QED
    BY <1>3, <2>1 DEF KeysKnown, LoadKeys
<1>8. boot'[r] = b /\ \A q \in Replica : q # r => boot'[q] = boot[q]
  BY <1>2, <1>5
<1>9. Passing(r)'
  <2>1. boot'[r].account = First /\ boot'[r].at = "lookup"
    BY <1>8
  <2>2. PassedBefore(boot[r].account)'
    <3>1. PassedBefore(First)'
      <4>1. /\ {} \in SUBSET users'
            /\ First \in {} \cup {First}
            /\ \A a \in {} : After[a] \in {} \cup {First}
        OBVIOUS
      <4> QED
        BY <4>1 DEF PassedBefore
    <3> QED
      BY <2>1, <3>1 DEF PassedBefore
  <2> QED
    BY <2>1, <2>2, ReplicasAssumption DEF Passing, AtAccount
<1>10. UsersEnrolled'
  BY <1>2, <1>8, EnrolledStays DEF LoadKeys
<1>11. crashes' \in 0..MaxCrashes /\ users' \subseteq Accounts /\ members' \subseteq users'
       /\ signed' \subseteq oidc_signing_keys /\ r \notin consuming
  BY <1>2 DEF LoadKeys, ReplicasIInv, ReplicasTypeOK
<1> HIDE DEF b
<1> QED
  BY <1>1, <1>2, <1>6, <1>7, <1>9, <1>10, <1>11, MainMoves DEF LoadKeys

\* A key pair is generated, and is in no table yet.
LEMMA GenerateKeyPreserves ==
  ASSUME ReplicasIInv, NEW r \in Replica, NEW k \in KeyIds, GenerateKey(r, k)
  PROVE  ReplicasIInv'
<1> DEFINE b == [at |-> "insert_key", account |-> NULL, key |-> k]
<1> USE DEF database, history
<1>1. b \in Boot
  BY DEF Boot
<1>2. boot' = [boot EXCEPT ![r] = b] /\ boot[r].at = "down"
  BY DEF GenerateKey
<1>3. boot'[r] = b /\ \A q \in Replica : q # r => boot'[q] = boot[q]
  BY <1>2 DEF ReplicasIInv, ReplicasTypeOK
<1>4. unseen' \in [Replica -> SUBSET KeyIds] /\ jwt' \in [Replica -> JwtManager \cup {NULL}]
      /\ \A q \in Replica : q # r => jwt'[q] = jwt[q] /\ unseen'[q] = unseen[q]
  BY DEF GenerateKey, ReplicasIInv, ReplicasTypeOK
<1>5. KeysKnown(r)' /\ Passing(r)'
  BY <1>3 DEF KeysKnown, Loaded, Passing, AtAccount
<1>6. UsersEnrolled'
  BY <1>2, <1>3, EnrolledStays DEF GenerateKey
<1>7. crashes' \in 0..MaxCrashes /\ users' \subseteq Accounts /\ members' \subseteq users'
      /\ signed' \subseteq oidc_signing_keys /\ r \notin consuming
  BY <1>2 DEF GenerateKey, ReplicasIInv, ReplicasTypeOK
<1> HIDE DEF b
<1> QED
  BY <1>1, <1>2, <1>4, <1>5, <1>6, <1>7, MainMoves DEF GenerateKey

\* The first key is the only one, and nobody has loaded keys before.
LEMMA InsertKeyPreserves ==
  ASSUME ReplicasIInv, NEW r \in Replica, InsertKey(r)
  PROVE  ReplicasIInv'
<1> USE DEF history
<1>1. jwt \in [Replica -> JwtManager \cup {NULL}] /\ boot \in [Replica -> Boot]
      /\ boot[r].at = "insert_key" /\ r \notin consuming
  BY DEF InsertKey, ReplicasIInv, ReplicasTypeOK
<1>2. CASE active # NULL
  <2>1. Down \in Boot /\ Down.at = "down"
    BY DEF Down, Boot
  <2>2. boot' = [boot EXCEPT ![r] = Down] /\ jwt' = [jwt EXCEPT ![r] = NULL]
        /\ UNCHANGED <<oidc_signing_keys, active>>
    BY <1>2 DEF InsertKey, Exit
  <2>3. jwt' \in [Replica -> JwtManager \cup {NULL}] /\ unseen' \in [Replica -> SUBSET KeyIds]
        /\ \A q \in Replica : q # r => jwt'[q] = jwt[q] /\ unseen'[q] = unseen[q]
    BY <1>1, <2>2 DEF InsertKey, ReplicasIInv, ReplicasTypeOK
  <2>4. boot'[r] = Down /\ \A q \in Replica : q # r => boot'[q] = boot[q]
    BY <1>1, <2>2
  <2>5. KeysKnown(r)' /\ Passing(r)'
    BY <2>1, <2>4 DEF KeysKnown, Loaded, Passing, AtAccount
  <2>6. UsersEnrolled'
    BY <1>1, <2>4, EnrolledStays DEF InsertKey
  <2>7. crashes' \in 0..MaxCrashes /\ users' \subseteq Accounts /\ members' \subseteq users'
        /\ signed' \subseteq oidc_signing_keys
    BY DEF InsertKey, ReplicasIInv, ReplicasTypeOK
  <2> QED
    BY <1>1, <2>1, <2>2, <2>3, <2>5, <2>6, <2>7, MainMoves DEF InsertKey
<1>3. CASE active = NULL
  <2> DEFINE b == [at |-> "lookup", account |-> First, key |-> NULL]
             k == boot[r].key
             manager == [signs |-> k, verifies |-> {k}]
  <2>1. k \in KeyIds /\ manager \in JwtManager /\ manager # NULL /\ b \in Boot
    BY <1>1, NullIsNoManager, ReplicasAssumption DEF ReplicasIInv, Passing, JwtManager, Boot
  <2>2. oidc_signing_keys = {} /\ signed = {} /\ \A q \in Replica : ~Loaded(q)
    BY <1>3 DEF ReplicasIInv, SomeKeyIsActive, KeysKnown
  <2>3. oidc_signing_keys' = {k} /\ active' = k /\ k # NULL
    BY <1>3, <2>1, <2>2, ReplicasAssumption DEF InsertKey
  <2>4. boot' = [boot EXCEPT ![r] = b] /\ jwt' = [jwt EXCEPT ![r] = manager]
    BY <1>3 DEF InsertKey, Goto
  <2>5. boot'[r] = b /\ jwt'[r] = manager
        /\ \A q \in Replica : q # r => boot'[q] = boot[q] /\ jwt'[q] = jwt[q]
    BY <1>1, <2>4
  <2>6. SagaIInv' /\ handler' = handler
    BY SagaStepPreserves DEF ReplicasIInv, vars, InsertKey, saga
  <2>7. ReplicasTypeOK'
    <3>1. boot' \in [Replica -> Boot] /\ jwt' \in [Replica -> JwtManager \cup {NULL}]
      BY <1>1, <2>1, <2>4
    <3>2. consuming' \subseteq {q \in Replica : boot'[q].at = "serving"}
      BY <1>1, <2>5 DEF InsertKey, ReplicasIInv, ReplicasTypeOK
    <3> QED
      BY <2>1, <2>3, <2>6, <3>1, <3>2 DEF InsertKey, ReplicasIInv, ReplicasTypeOK, SagaIInv
  <2>8. Passing(r)'
    <3>1. boot'[r].account = First /\ boot'[r].at = "lookup"
      BY <2>5
    <3>2. PassedBefore(First)'
      <4>1. /\ {} \in SUBSET users'
            /\ First \in {} \cup {First}
            /\ \A a \in {} : After[a] \in {} \cup {First}
        OBVIOUS
      <4> QED
        BY <4>1 DEF PassedBefore
    <3>3. PassedBefore(boot[r].account)'
      BY <3>1, <3>2 DEF PassedBefore
    <3> QED
      BY <3>1, <3>3, ReplicasAssumption DEF Passing, AtAccount
  <2>9. ASSUME NEW q \in Replica
        PROVE  KeysKnown(q)' /\ Passing(q)'
    <3>1. CASE q = r
      BY <2>1, <2>3, <2>5, <2>8, <3>1 DEF KeysKnown
    <3>2. CASE q # r
      <4>1. KeysKnown(q)'
        BY <2>2, <2>5, <3>2 DEF KeysKnown, Loaded
      <4> QED
        BY <2>5, <3>2, <4>1, PassingStays DEF InsertKey, ReplicasIInv
    <3> QED
      BY <3>1, <3>2
  <2>10. UsersEnrolled'
    BY <1>1, <2>5, EnrolledStays DEF InsertKey
  <2> QED
    BY <2>2, <2>3, <2>6, <2>7, <2>9, <2>10 DEF InsertKey, ReplicasIInv, SomeKeyIsActive
<1> QED
  BY <1>2, <1>3

\* A new key is one that no replica that runs has seen.
LEMMA RotateKeyPreserves ==
  ASSUME ReplicasIInv, NEW k \in KeyIds, RotateKey(k)
  PROVE  ReplicasIInv'
<1> USE DEF process
<1>1. k # NULL
  BY ReplicasAssumption
<1>2. SagaIInv' /\ handler' = handler
  BY SagaStepPreserves DEF ReplicasIInv, vars, RotateKey, saga
<1>3. ReplicasTypeOK'
  BY <1>2 DEF RotateKey, ReplicasIInv, ReplicasTypeOK, SagaIInv
<1>4. ASSUME NEW q \in Replica
      PROVE  KeysKnown(q)' /\ Passing(q)'
  <2>1. unseen'[q] = unseen[q] \cup {k}
    BY DEF RotateKey
  <2>2. KeysKnown(q)'
    BY <2>1 DEF RotateKey, ReplicasIInv, KeysKnown, Loaded
  <2> QED
    BY <2>2, PassingStays DEF RotateKey, ReplicasIInv
<1>5. UsersEnrolled'
  BY DEF RotateKey, ReplicasIInv, UsersEnrolled
<1> QED
  BY <1>1, <1>2, <1>3, <1>4, <1>5 DEF RotateKey, ReplicasIInv, SomeKeyIsActive

\* An account that exists is passed, another one is to be created.
LEMMA LookupPreserves ==
  ASSUME ReplicasIInv, NEW r \in Replica, get_user_by_email(r)
  PROVE  ReplicasIInv'
<1> USE DEF database, history
<1>1. boot[r].at = "lookup" /\ r \notin consuming
  BY DEF get_user_by_email, ReplicasIInv, ReplicasTypeOK
<1>2. PICK a \in Accounts : a = boot[r].account /\ PassedBefore(a)
  BY <1>1 DEF ReplicasIInv, Passing, AtAccount
<1>3. \E b \in Boot : /\ boot' = [boot EXCEPT ![r] = b]
                      /\ b.at \in {"lookup", "saga", "create"}
                      /\ Passing(r)'
  <2>1. CASE a \in users
    BY <1>1, <1>2, <2>1, ProceedPasses DEF get_user_by_email, AtAccount
  <2>2. CASE a \notin users
    <3> DEFINE b == [at |-> "create", account |-> a, key |-> NULL]
    <3>1. b \in Boot
      BY DEF Boot
    <3>2. boot' = [boot EXCEPT ![r] = b]
      BY <1>2, <2>2 DEF get_user_by_email, Goto
    <3>3. boot'[r] = b
      BY <3>2 DEF ReplicasIInv, ReplicasTypeOK
    <3>4. PassedBefore(boot[r].account)'
      BY <1>2, <3>3 DEF get_user_by_email, PassedBefore
    <3>5. Passing(r)'
      BY <3>3, <3>4 DEF Passing, AtAccount
    <3> QED
      BY <3>1, <3>2, <3>5
  <2> QED
    BY <2>1, <2>2
<1>4. PICK b \in Boot : /\ boot' = [boot EXCEPT ![r] = b]
                        /\ b.at \in {"lookup", "saga", "create"}
                        /\ Passing(r)'
  BY <1>3
<1>5. \A q \in Replica : boot'[q] = IF q = r THEN b ELSE boot[q]
  BY <1>4 DEF ReplicasIInv, ReplicasTypeOK
<1>6. UsersEnrolled'
  BY <1>1, <1>5, EnrolledStays DEF get_user_by_email
<1>7. KeysKnown(r)'
  BY <1>1 DEF get_user_by_email, ReplicasIInv, KeysKnown, Loaded
<1> QED
  BY <1>1, <1>4, <1>6, <1>7, MainMoves DEF get_user_by_email, ReplicasIInv, ReplicasTypeOK

\* Whoever creates the account enrolls it next.
LEMMA CreatePreserves ==
  ASSUME ReplicasIInv, NEW r \in Replica, create_user_with_role(r)
  PROVE  ReplicasIInv'
<1> USE DEF history
<1>1. boot[r].at = "create" /\ r \notin consuming /\ boot \in [Replica -> Boot]
      /\ jwt \in [Replica -> JwtManager \cup {NULL}]
  BY DEF create_user_with_role, ReplicasIInv, ReplicasTypeOK
<1>2. PICK a \in Accounts : a = boot[r].account /\ PassedBefore(a)
  BY <1>1 DEF ReplicasIInv, Passing, AtAccount
<1>3. CASE a \in users
  <2>1. Down \in Boot /\ Down.at = "down"
    BY DEF Down, Boot
  <2>2. boot' = [boot EXCEPT ![r] = Down] /\ jwt' = [jwt EXCEPT ![r] = NULL] /\ users' = users
    BY <1>2, <1>3 DEF create_user_with_role, Exit
  <2>3. boot'[r] = Down /\ jwt' \in [Replica -> JwtManager \cup {NULL}]
        /\ \A q \in Replica : q # r => boot'[q] = boot[q] /\ jwt'[q] = jwt[q]
    BY <1>1, <2>2
  <2>4. KeysKnown(r)' /\ Passing(r)'
    BY <2>1, <2>3 DEF KeysKnown, Loaded, Passing, AtAccount
  <2>5. UsersEnrolled'
    BY <1>1, <2>2, <2>3, EnrolledStays DEF create_user_with_role
  <2> QED
    BY <1>1, <2>1, <2>2, <2>3, <2>4, <2>5, MainMoves DEF create_user_with_role,
       ReplicasIInv, ReplicasTypeOK
<1>4. CASE a \notin users
  <2> DEFINE b == [at |-> "enroll", account |-> a, key |-> NULL]
  <2>1. b \in Boot
    BY DEF Boot
  <2>2. boot' = [boot EXCEPT ![r] = b] /\ users' = users \cup {a} /\ jwt' = jwt
    BY <1>2, <1>4 DEF create_user_with_role, Goto
  <2>3. boot'[r] = b /\ \A q \in Replica : q # r => boot'[q] = boot[q]
    BY <1>1, <2>2
  <2>4. PassedBefore(boot[r].account)'
    <3>1. PassedBefore(a)'
      BY <1>2, <2>2, PassedStays
    <3> QED
      BY <2>3, <3>1 DEF PassedBefore
  <2>5. Passing(r)'
    BY <2>2, <2>3, <2>4 DEF Passing, AtAccount
  <2>6. KeysKnown(r)'
    BY <1>1, <2>2 DEF create_user_with_role, ReplicasIInv, KeysKnown, Loaded
  <2>7. UsersEnrolled'
    BY <1>1, <2>2, <2>3 DEF create_user_with_role, ReplicasIInv, UsersEnrolled
  <2> QED
    BY <1>1, <2>1, <2>2, <2>5, <2>6, <2>7, MainMoves DEF create_user_with_role,
       ReplicasIInv, ReplicasTypeOK
<1> QED
  BY <1>3, <1>4

\* A member is enrolled, and passed.
LEMMA EnrollPreserves ==
  ASSUME ReplicasIInv, NEW r \in Replica, create_membership(r)
  PROVE  ReplicasIInv'
<1> USE DEF history
<1>1. boot[r].at = "enroll" /\ r \notin consuming /\ boot[r].account \in users
  BY DEF create_membership, ReplicasIInv, ReplicasTypeOK, Passing
<1>2. PICK b \in Boot : /\ boot' = [boot EXCEPT ![r] = b]
                        /\ b.at \in {"lookup", "saga"}
                        /\ Passing(r)'
  BY <1>1, ProceedPasses DEF create_membership, AtAccount
<1>3. \A q \in Replica : boot'[q] = IF q = r THEN b ELSE boot[q]
  BY <1>2 DEF ReplicasIInv, ReplicasTypeOK
<1>4. UsersEnrolled'
  BY <1>1, <1>3, EnrolledStays DEF create_membership
<1>5. KeysKnown(r)'
  BY <1>1 DEF create_membership, ReplicasIInv, KeysKnown, Loaded
<1>6. members' \subseteq users' /\ users' = users
  BY <1>1 DEF create_membership, ReplicasIInv, ReplicasTypeOK
<1> QED
  BY <1>1, <1>2, <1>4, <1>5, <1>6, MainMoves DEF create_membership, ReplicasIInv,
     ReplicasTypeOK

\* From then on what the replica signs is there to be verified.
LEMMA StartSagaPreserves ==
  ASSUME ReplicasIInv, NEW r \in Replica, StartSaga(r)
  PROVE  ReplicasIInv'
<1> DEFINE b == [at |-> "serving", account |-> NULL, key |-> NULL]
<1> USE DEF database
<1>1. b \in Boot
  BY DEF Boot
<1>2. boot[r].at = "saga" /\ r \notin consuming /\ boot' = [boot EXCEPT ![r] = b]
  BY DEF StartSaga, Goto, ReplicasIInv, ReplicasTypeOK
<1>3. boot'[r] = b /\ \A q \in Replica : q # r => boot'[q] = boot[q]
  BY <1>2 DEF ReplicasIInv, ReplicasTypeOK
<1>4. KeysKnown(r)' /\ signed' \subseteq oidc_signing_keys
  BY <1>2 DEF StartSaga, ReplicasIInv, KeysKnown, Loaded
<1>5. Passing(r)'
  <2>1. PassedBefore(NULL)'
    BY <1>2, PassedStays DEF StartSaga, ReplicasIInv, Passing
  <2> QED
    BY <1>3, <2>1 DEF Passing, AtAccount
<1>6. UsersEnrolled'
  BY <1>2, <1>3, EnrolledStays DEF StartSaga
<1>7. crashes' \in 0..MaxCrashes /\ consuming' \in {consuming, consuming \cup {r}}
  BY ReplicasAssumption DEF StartSaga, ReplicasIInv, ReplicasTypeOK
<1> HIDE DEF b
<1>8. b.at = "serving"
  BY DEF b
<1> QED
  BY <1>1, <1>2, <1>4, <1>5, <1>6, <1>7, <1>8, MainMoves DEF StartSaga, ReplicasIInv,
     ReplicasTypeOK

\* A replica that stops leaves its consumer's message to the others, and the
\* account it was about to enroll cut off.
LEMMA CrashPreserves ==
  ASSUME ReplicasIInv, NEW r \in Replica, Crash(r)
  PROVE  ReplicasIInv'
<1> USE DEF database
<1>1. SagaIInv'
  <2>1. [Next]_vars
    BY DEF Crash, saga, vars, Next, Replica
  <2> QED
    BY <2>1, SagaStepPreserves DEF ReplicasIInv
<1>2. handler'[r] = Waiting /\ \A q \in Replica : q # r => handler'[q] = handler[q]
  BY DEF Crash, saga, Interrupt, ReplicasIInv, SagaIInv, TypeOK, Replica
<1>3. boot' = [boot EXCEPT ![r] = Down] /\ jwt' = [jwt EXCEPT ![r] = NULL]
      /\ consuming' = consuming \ {r}
  BY DEF Crash, Exit
<1>4. boot'[r] = Down /\ \A q \in Replica : q # r => boot'[q] = boot[q] /\ jwt'[q] = jwt[q]
  BY <1>3 DEF ReplicasIInv, ReplicasTypeOK
<1>5. Down \in Boot /\ Down.at = "down"
  BY DEF Down, Boot
<1>6. cut' \subseteq Accounts /\ crashes' \in 0..MaxCrashes
  BY ReplicasAssumption DEF Crash, ReplicasIInv, ReplicasTypeOK, Passing, AtAccount
<1>7. ReplicasTypeOK'
  <2>1. boot' \in [Replica -> Boot] /\ jwt' \in [Replica -> JwtManager \cup {NULL}]
    BY <1>3, <1>5 DEF ReplicasIInv, ReplicasTypeOK
  <2>2. consuming' \subseteq {q \in Replica : boot'[q].at = "serving"}
    BY <1>3, <1>4 DEF ReplicasIInv, ReplicasTypeOK
  <2>3. \A q \in Replica \ consuming' : handler'[q] = Waiting
    BY <1>2, <1>3 DEF ReplicasIInv, ReplicasTypeOK
  <2> QED
    BY <1>1, <1>6, <2>1, <2>2, <2>3 DEF Crash, ReplicasIInv, ReplicasTypeOK, SagaIInv
<1>8. ASSUME NEW q \in Replica
      PROVE  KeysKnown(q)' /\ Passing(q)'
  <2>1. CASE q = r
    BY <1>4, <1>5, <2>1 DEF KeysKnown, Loaded, Passing, AtAccount
  <2>2. CASE q # r
    <3>1. KeysKnown(q)'
      BY <1>4, <2>2 DEF Crash, ReplicasIInv, KeysKnown, Loaded
    <3> QED
      BY <1>4, <2>2, <3>1, PassingStays DEF Crash, ReplicasIInv
  <2> QED
    BY <2>1, <2>2
<1>9. UsersEnrolled'
  BY <1>4, EnrolledStays DEF Crash
<1> QED
  BY <1>1, <1>7, <1>8, <1>9 DEF Crash, ReplicasIInv, SomeKeyIsActive

\* The consumers go on beside all that.
LEMMA ConsumersPreserve ==
  ASSUME ReplicasIInv, UNCHANGED <<database, process, history>>, SagaIInv',
         \A q \in Replica \ consuming : handler'[q] = handler[q]
  PROVE  ReplicasIInv'
<1> USE DEF database, process, history
<1>1. ReplicasTypeOK'
  BY DEF ReplicasIInv, ReplicasTypeOK, SagaIInv
<1>2. ASSUME NEW q \in Replica
      PROVE  KeysKnown(q)' /\ Passing(q)'
  BY PassingStays DEF ReplicasIInv, KeysKnown, Loaded
<1> QED
  BY <1>1, <1>2 DEF ReplicasIInv, SomeKeyIsActive, UsersEnrolled

-----------------------------------------------------------------------------
(***************************************************************************)
(* The invariant holds, and what follows from it.                          *)
(***************************************************************************)
\* At first every replica is down, and the tables are empty.
LEMMA ReplicasInitEstablishes ==
  ReplicasInit => ReplicasIInv
<1> SUFFICES ASSUME ReplicasInit PROVE ReplicasIInv
  OBVIOUS
<1>1. SagaIInv /\ Init
  BY SagaInitEstablishes DEF ReplicasInit
<1>2. Down \in Boot /\ Down.at = "down"
  BY DEF Down, Boot
<1>3. ReplicasTypeOK
  BY <1>1, <1>2, ReplicasAssumption DEF ReplicasInit, Init, ReplicasTypeOK, SagaIInv,
     Replica
<1>4. \A r \in Replica : KeysKnown(r) /\ Passing(r)
  BY <1>2 DEF ReplicasInit, KeysKnown, Loaded, Passing, AtAccount
<1> QED
  BY <1>1, <1>3, <1>4 DEF ReplicasInit, ReplicasIInv, SomeKeyIsActive, UsersEnrolled

\* One case for each operation.
LEMMA ReplicasStepPreserves ==
  ASSUME ReplicasIInv, [ReplicasNext]_replicas_vars
  PROVE  ReplicasIInv'
<1>1. SagaIInv'
  BY ReplicasStepIsStep, SagaStepPreserves DEF ReplicasIInv
<1>2. ASSUME NEW r \in Replica, ConsumerStep(r)
      PROVE  ReplicasIInv'
  <2>1. \A q \in Replica : q # r => handler'[q] = handler[q]
    BY <1>2 DEF ConsumerStep, Consume, insert_audit, Ack, Deliver, Interrupt, ReplicasIInv,
       SagaIInv, TypeOK, Replica
  <2> QED
    BY <1>1, <1>2, <2>1, ConsumersPreserve DEF ConsumerStep
<1>3. ASSUME NEW m \in Messages, NEW kind \in Payload, Arrive(m, kind),
             UNCHANGED <<database, process, history>>
      PROVE  ReplicasIInv'
  BY <1>1, <1>3, ConsumersPreserve DEF Arrive
<1>4. CASE UNCHANGED replicas_vars
  BY <1>1, <1>4, ConsumersPreserve DEF replicas_vars, saga
<1>5. ASSUME NEW r \in Replica, Start(r)
      PROVE  ReplicasIInv'
  BY <1>5, LoadKeysPreserves, GenerateKeyPreserves, InsertKeyPreserves, LookupPreserves,
     CreatePreserves, EnrollPreserves, StartSagaPreserves DEF Start
<1> QED
  BY <1>2, <1>3, <1>4, <1>5, CrashPreserves, RotateKeyPreserves DEF ReplicasNext,
     Environment

\* The inductive invariant holds in every state.
THEOREM ReplicasInvariance == ReplicasSpec => []ReplicasIInv
BY ReplicasInitEstablishes, ReplicasStepPreserves, PTL DEF ReplicasSpec

\* A process that crashes is no more to the saga's messages than one whose
\* consumer breaks off.
THEOREM ReplicasImplementSaga == ReplicasSpec => Spec
<1>1. ReplicasInit => Init
  BY DEF ReplicasInit
<1> QED
  BY <1>1, ReplicasStepIsStep, PTL DEF ReplicasSpec, Spec

\* So acknowledged messages were tried, whichever replica crashed over them.
THEOREM ReplicasSagaTheorem == ReplicasSpec => []AckedWasTried
BY ReplicasImplementSaga, SagaTheorem, PTL

\* What a replica has signed is accepted by each that serves, unless the key is
\* younger than the boot of the latter (load_jwt_manager).
THEOREM KeysTheorem == ReplicasSpec => []TokensVerify
<1>1. ReplicasIInv => TokensVerify
  BY DEF ReplicasIInv, TokensVerify, KeysKnown, Loaded, Serving
<1> QED
  BY <1>1, ReplicasInvariance, PTL

\* Once a replica serves, bootstrap_admin and bootstrap_demo have left no account
\* out, though one whose creation was cut off stays without a membership.
THEOREM BootstrapTheorem == ReplicasSpec => []BootstrapComplete
<1>1. ReplicasIInv => BootstrapComplete
  <2> SUFFICES ASSUME ReplicasIInv, NEW r \in Replica, Serving(r)
               PROVE  users = Accounts
    BY DEF BootstrapComplete, ReplicasIInv, UsersEnrolled
  <2>1. PICK D \in SUBSET users :
          First \in D \cup {NULL} /\ \A a \in D : After[a] \in D \cup {NULL}
    BY DEF Serving, ReplicasIInv, Passing, PassedBefore
  <2>2. D = Accounts
    BY <2>1, ReplicasAssumption DEF ReplicasIInv, ReplicasTypeOK
  <2> QED
    BY <2>2 DEF ReplicasIInv, ReplicasTypeOK
<1> QED
  BY <1>1, ReplicasInvariance, PTL


=============================================================================
