------------------------------ MODULE Replicas ------------------------------
(***************************************************************************)
(* The processes that serve, from their start to a crash: main.rs loads    *)
(* the signing keys or makes the first one, creates the bootstrap accounts *)
(* that are missing, starts the saga consumer and serves.  Replicas start  *)
(* at the same time on one database, stop anywhere, and are started again. *)
(* A replica that has started its consumer is a consumer of Saga.          *)
(*                                                                         *)
(* Connecting to Postgres and NATS, migrations and the insertion of the    *)
(* console's OIDC client (ON CONFLICT DO NOTHING) do not appear.  Whoever  *)
(* runs the service restarts a process that exits and rotates the keys.    *)
(***************************************************************************)
EXTENDS Saga

CONSTANTS
  KeyIds,     \* oidc_signing_keys.kid, a pool that is never reused
  Accounts,   \* the e-mail addresses that are bootstrapped
  After,      \* After[a]: the account bootstrapped after a, NULL after the last
  First,      \* the first of them, from which After leads to each
  MaxCrashes  \* bound on processes that stop

Replica == Consumers

ASSUME ReplicasAssumption ==
  /\ After \in [Accounts -> Accounts \cup {NULL}]
  /\ First \in Accounts
  /\ \A S \in SUBSET Accounts :
       First \in S /\ (\A a \in S : After[a] \in S \cup {NULL}) => S = Accounts
  /\ MaxCrashes \in Nat
  /\ NULL \notin Accounts \cup KeyIds

VARIABLES
  oidc_signing_keys,  \* the kids in the table
  active,             \* the one that is active, NULL while there is none
  users,              \* accounts that have a row in users (and their role)
  members,            \* those that are members of the default tenant
  boot,               \* boot[r]: where replica r is in main
  jwt,                \* jwt[r]: its JwtManager, made at boot
  consuming,          \* replicas whose consumer runs
  signed,             \* history: kids that a serving replica signs or signed with
  unseen,             \* history: unseen[r]: kids inserted after r had read the table
  cut,                \* history: accounts whose creation stopped between its halves
  crashes             \* processes that stopped so far

saga == <<payload, unacked, handler, audits, failed, faults>>
database == <<oidc_signing_keys, active, users, members>>
process == <<boot, jwt, consuming>>
history == <<signed, unseen, cut, crashes>>

replicas_vars == <<saga, database, process, history>>

\* The account a step of main is about; `at` names the step.
Boot ==
  [at: {"down", "insert_key", "lookup", "create", "enroll", "saga", "serving"},
   account: Accounts \cup {NULL}, key: KeyIds \cup {NULL}]

Down == [at |-> "down", account |-> NULL, key |-> NULL]

JwtManager == [signs: KeyIds, verifies: SUBSET KeyIds]

ASSUME NullIsNoManager == NULL \notin JwtManager

ReplicasInit ==
  /\ Init
  /\ oidc_signing_keys = {}
  /\ active = NULL
  /\ users = {}
  /\ members = {}
  /\ boot = [r \in Replica |-> Down]
  /\ jwt = [r \in Replica |-> NULL]
  /\ consuming = {}
  /\ signed = {}
  /\ unseen = [r \in Replica |-> {}]
  /\ cut = {}
  /\ crashes = 0

Goto(r, at, account) ==
  boot' = [boot EXCEPT ![r] = [at |-> at, account |-> account, key |-> NULL]]

\* The process exits with an error.
Exit(r) ==
  /\ boot' = [boot EXCEPT ![r] = Down]
  /\ jwt' = [jwt EXCEPT ![r] = NULL]

-----------------------------------------------------------------------------
(***************************************************************************)
(* load_jwt_manager                                                        *)
(***************************************************************************)
\* The process starts and reads the table.
LoadKeys(r) ==
  /\ boot[r].at = "down"
  /\ active # NULL
  /\ jwt' = [jwt EXCEPT ![r] = [signs |-> active, verifies |-> oidc_signing_keys]]
  /\ Goto(r, "lookup", First)
  /\ unseen' = [unseen EXCEPT ![r] = {}]
  /\ UNCHANGED <<saga, database, consuming, signed, cut, crashes>>

\* The table is empty: a key pair is generated.
GenerateKey(r, k) ==
  /\ boot[r].at = "down"
  /\ oidc_signing_keys = {}
  /\ \A q \in Replica : boot[q].key # k
  /\ boot' = [boot EXCEPT ![r] = [at |-> "insert_key", account |-> NULL, key |-> k]]
  /\ unseen' = [unseen EXCEPT ![r] = {}]
  /\ UNCHANGED <<saga, database, jwt, consuming, signed, cut, crashes>>

\* Mutant: ON CONFLICT DO NOTHING, and the generated key is used.
InsertOrIgnore(r) ==
  /\ boot[r].at = "insert_key"
  /\ oidc_signing_keys' =
       IF active = NULL THEN oidc_signing_keys \cup {boot[r].key} ELSE oidc_signing_keys
  /\ active' = IF active = NULL THEN boot[r].key ELSE active
  /\ jwt' = [jwt EXCEPT ![r] = [signs |-> boot[r].key, verifies |-> {boot[r].key}]]
  /\ Goto(r, "lookup", First)
  /\ UNCHANGED <<saga, users, members, consuming, history>>

\* The unique index on active keys lets the first one in; the others exit.
InsertKey(r) ==
  /\ boot[r].at = "insert_key"
  /\ IF active = NULL
       THEN /\ oidc_signing_keys' = oidc_signing_keys \cup {boot[r].key}
            /\ active' = boot[r].key
            /\ jwt' = [jwt EXCEPT ![r] = [signs |-> boot[r].key, verifies |-> {boot[r].key}]]
            /\ Goto(r, "lookup", First)
       ELSE Exit(r) /\ UNCHANGED <<oidc_signing_keys, active>>
  /\ UNCHANGED <<saga, users, members, consuming, history>>

\* The operator deactivates the key and inserts a new active one.
RotateKey(k) ==
  /\ active # NULL
  /\ k \notin oidc_signing_keys
  /\ \A q \in Replica : boot[q].key # k
  /\ oidc_signing_keys' = oidc_signing_keys \cup {k}
  /\ active' = k
  /\ unseen' = [r \in Replica |-> unseen[r] \cup {k}]
  /\ UNCHANGED <<saga, users, members, process, signed, cut, crashes>>

-----------------------------------------------------------------------------
(***************************************************************************)
(* bootstrap_admin and bootstrap_demo                                      *)
(***************************************************************************)
\* On to the next account, or to the consumer after the last.
Proceed(r) ==
  LET next == After[boot[r].account]
  IN  IF next # NULL THEN Goto(r, "lookup", next) ELSE Goto(r, "saga", NULL)

\* A user who exists is left as he is.
get_user_by_email(r) ==
  /\ boot[r].at = "lookup"
  /\ IF boot[r].account \in users THEN Proceed(r) ELSE Goto(r, "create", boot[r].account)
  /\ UNCHANGED <<saga, database, jwt, consuming, history>>

\* Mutant: whoever finds the e-mail address taken tries again.
CreateOrRetry(r) ==
  /\ boot[r].at = "create"
  /\ boot[r].account \notin users
  /\ users' = users \cup {boot[r].account}
  /\ Goto(r, "enroll", boot[r].account)
  /\ UNCHANGED <<saga, oidc_signing_keys, active, members, jwt, consuming, history>>

\* The user and his role are one transaction; the e-mail address is unique.
create_user_with_role(r) ==
  /\ boot[r].at = "create"
  /\ IF boot[r].account \in users
       THEN Exit(r) /\ UNCHANGED users
       ELSE /\ users' = users \cup {boot[r].account}
            /\ Goto(r, "enroll", boot[r].account)
            /\ UNCHANGED jwt
  /\ UNCHANGED <<saga, oidc_signing_keys, active, members, consuming, history>>

\* Mutant: an error is ignored, as register does.
EnrollOrIgnore(r) ==
  /\ boot[r].at = "enroll"
  /\ \/ members' = members \cup {boot[r].account}
     \/ UNCHANGED members
  /\ Proceed(r)
  /\ UNCHANGED <<saga, oidc_signing_keys, active, users, jwt, consuming, history>>

\* The membership is a statement of its own.
create_membership(r) ==
  /\ boot[r].at = "enroll"
  /\ members' = members \cup {boot[r].account}
  /\ Proceed(r)
  /\ UNCHANGED <<saga, oidc_signing_keys, active, users, jwt, consuming, history>>

-----------------------------------------------------------------------------
\* saga::run: an error is a warning, and the replica serves without a consumer.
StartSaga(r) ==
  /\ boot[r].at = "saga"
  /\ \/ /\ consuming' = consuming \cup {r}
        /\ UNCHANGED crashes
     \/ /\ crashes < MaxCrashes
        /\ crashes' = crashes + 1
        /\ UNCHANGED consuming
  /\ Goto(r, "serving", NULL)
  /\ signed' = signed \cup {jwt[r].signs}
  /\ UNCHANGED <<saga, database, jwt, unseen, cut>>

\* The process stops, by an error of any query on the way or a crash; a message
\* its consumer was at will be delivered again.
Crash(r) ==
  /\ boot[r].at # "down"
  /\ crashes < MaxCrashes
  /\ crashes' = crashes + 1
  /\ cut' = cut \cup (IF boot[r].at = "enroll" THEN {boot[r].account} ELSE {})
  /\ Exit(r)
  /\ consuming' = consuming \ {r}
  /\ IF handler[r] = Waiting THEN UNCHANGED saga ELSE Interrupt(r)
  /\ UNCHANGED <<database, signed, unseen>>

Start(r) ==
  \/ LoadKeys(r) \/ InsertKey(r)
  \/ \E k \in KeyIds : GenerateKey(r, k)
  \/ get_user_by_email(r) \/ create_user_with_role(r) \/ create_membership(r)
  \/ StartSaga(r)

ConsumerStep(r) ==
  /\ r \in consuming
  /\ Consume(r) \/ Interrupt(r)
  /\ UNCHANGED <<database, process, history>>

Environment ==
  \/ \E k \in KeyIds : RotateKey(k)
  \/ /\ \E m \in Messages, kind \in Payload : Arrive(m, kind)
     /\ UNCHANGED <<database, process, history>>

ReplicasNext ==
  \/ \E r \in Replica : Start(r) \/ Crash(r) \/ ConsumerStep(r)
  \/ Environment

\* A process that exits is started again, and main runs on while it can.  Where
\* the consumer runs, consume() loops for ever; the server offers an unacknowledged
\* message again and again, so each is delivered to someone in the end.
ReplicasFairness ==
  /\ \A r \in Replica :
       /\ WF_replicas_vars(Start(r))
       /\ WF_replicas_vars(ConsumerStep(r) /\ (insert_audit(r) \/ Ack(r)))
  /\ \A m \in Messages :
       SF_replicas_vars(\E r \in Replica : ConsumerStep(r) /\ Deliver(r, m))

ReplicasSpec == ReplicasInit /\ [][ReplicasNext]_replicas_vars /\ ReplicasFairness

-----------------------------------------------------------------------------
(***************************************************************************)
(* Properties.                                                             *)
(***************************************************************************)
\* A consumer that does not run is at no message.
ReplicasTypeOK ==
  /\ TypeOK
  /\ oidc_signing_keys \subseteq KeyIds
  /\ active \in oidc_signing_keys \cup {NULL}
  /\ members \subseteq users /\ users \subseteq Accounts
  /\ boot \in [Replica -> Boot]
  /\ jwt \in [Replica -> JwtManager \cup {NULL}]
  /\ consuming \subseteq {r \in Replica : boot[r].at = "serving"}
  /\ \A r \in Replica \ consuming : handler[r] = Waiting
  /\ signed \subseteq KeyIds
  /\ unseen \in [Replica -> SUBSET KeyIds]
  /\ cut \subseteq Accounts
  /\ crashes \in 0..MaxCrashes

Serving(r) == boot[r].at = "serving"

(***************************************************************************)
(* "every public key is kept for verification so tokens survive key        *)
(* rotation": a token signed by any replica, whenever, is accepted by each *)
(* that serves, also after several replicas made the first key at once;    *)
(* but a replica knows no key inserted after its boot.                     *)
(***************************************************************************)
TokensVerify ==
  \A r \in Replica : Serving(r) => signed \subseteq jwt[r].verifies \cup unseen[r]

(***************************************************************************)
(* "Idempotently create the bootstrap admin" and make it a member of the   *)
(* default tenant: once a replica serves, each account exists and is a     *)
(* member, or another replica is just about to make it one; except that an *)
(* account whose creation was cut off after its first half is found, and   *)
(* left, without a membership by every later boot.                         *)
(***************************************************************************)
BootstrapComplete ==
  \A r \in Replica, a \in Accounts :
    Serving(r) =>
      /\ a \in users
      /\ \/ a \in members \cup cut
         \/ \E q \in Replica : boot[q].at = "enroll" /\ boot[q].account = a

(***************************************************************************)
(* Starting together does no lasting harm: whoever loses a race for the    *)
(* first key or an account exits, is started again, and serves in the end. *)
(***************************************************************************)
EveryReplicaServes ==
  \A r \in Replica : <>[]Serving(r)

(***************************************************************************)
(* As long as one replica's consumer runs, each message is handled in the  *)
(* end, whichever process crashed over it (saga::run's error is a warning, *)
(* so that all replicas may serve and none consume).                       *)
(***************************************************************************)
SomeoneConsumes ==
  <>[](consuming # {}) => EveryMessageAcked

=============================================================================
