# A TLA+ model of iam-rust-auth

`iam-rust-auth` is the authentication service of an IAM platform: a gRPC server
(Tonic) over Postgres, with an optional Redis and an optional NATS JetStream.
This directory holds TLA+ modules of its protocols, the TLC configurations that
check them on small instances, and proofs that TLAPS checks for every instance.
`PROJECT.json` maps each definition to the source lines it stands for; paths
below are relative to `src/src/` unless they say otherwise.

## The system

Every replica of the server runs the same code: the gRPC handlers of `grpc.rs`,
an outbox relay (`relay.rs`) and a saga consumer (`saga.rs`).  A handler is an
async function, and between two of its queries handlers of this and of other
replicas run.  Almost every query is a statement of its own: only the
registration, deletion and restoring of users, the creation of tenants and the
writes under row-level security run in transactions.  So the interesting states
are those between two queries, and the interesting failures are a handler that
stops there: a database error, an error that is ignored (`let _ = ...`), a
disconnected client, a crash.

| Component | State | Operations | What makes it correct |
|---|---|---|---|
| Sessions (`grpc.rs`, `repo.rs`) | `refresh_tokens`, `memberships`, `users.deleted_at` | login, login_totp, refresh, logout, switch_tenant, exchange_authorization_code, change/reset_password, delete/restore_user, add/remove_member | a revoked token stays revoked and yields no session outside the grace rule; bindings to tenant and project survive refreshes; a wipe is final |
| OIDC codes (`grpc.rs`) | `oauth_clients`, `oauth_authorization_codes` | register_client, create/exchange_authorization_code | a code starts at most one session, for its user, in its client's tenant, and only with its verifier or secret |
| Login and second factor (`grpc.rs`, `totp.rs`) | `failed_login_attempts`, `locked_until`, `totp_secret`, `totp_enabled`, `totp_recovery_codes` | login, login_totp, enroll/activate/disable_totp | bounded guesses; single-use codes; 2FA goes on and off only as asked, and with its own codes |
| Recovery (`grpc.rs`) | `email_verifications`, `password_resets`, `password_hash` | request_/verify_email, request_/reset_password, change_password | a mailed token works once; no session outlives the password it began with |
| Access (`grpc.rs`, `cache.rs`) | `revoked_tokens`, Redis denylist, permission cache, `user_roles`, `roles`, `role_permissions` | validate_token, logout, role and permission administration, invalidate_perms | logged-out tokens are refused; cached permissions are of the right scope and not old |
| API keys (`grpc.rs`) | `api_keys` | create, validate, revoke | a key never carries more than its owner holds now, in its own tenant and project |
| Tenancy (`repo.rs`, `migrations/0010`) | `tenants`, `projects`, `memberships`, `roles`, `role_permissions`, `user_roles` | create_tenant, create_project, create/delete_role, grant/revoke_permission, assign/revoke_role and in bulk, add/remove_member, register | no write of one tenant has an effect in another; what was revoked is gone |
| Outbox and relay (`repo.rs`, `relay.rs`) | `outbox`, the JetStream stream | the transactions that enqueue, drain | nothing committed is lost, nothing uncommitted is published, causal order |
| Saga (`saga.rs`) | the durable consumer, `audit_events` | consume | every message is handled and acknowledged |
| Startup (`main.rs`, `keys.rs`) | `oidc_signing_keys`, the bootstrap accounts, each process | load_jwt_manager, bootstrap_admin, bootstrap_demo, saga::run | replicas that start together all end up serving, with one first key that all know, and complete accounts |
| TOTP encryption (`totpsecret.rs`), consents, audit log, transport | - | - | I/O, cryptography, configuration |

The components interact through the tables: login ends in a new session, and so
does the exchange of a code; deletion touches sessions, access and the outbox; a
session's scope becomes the scope of access tokens and so of the permission
cache, whose answers bound the scopes of API keys; the outbox feeds other
services and the saga, started by a replica that got through its boot, consumes
their answer.

## The modules

| Module | Stands on | Models |
|---|---|---|
| `Sessions` | - | refresh tokens and whatever reads or writes them |
| `OAuth` | `Sessions` | clients and codes; implements `Sessions` |
| `Outbox` | `EventLog` (implemented) | transactions, relays, stream |
| `Saga`, `Replicas` | `Replicas` extends `Saga` | consumers; and the processes they run in |
| `Login` | - | one user's password step and second factor |
| `Recovery` | - | one user's password, mails and sessions |
| `Access`, `ApiKeys` | `ApiKeys` extends `Access` | access tokens and permissions; the keys made from them |
| `Tenancy` | - | roles, assignments, members and projects of several tenants |
| `OneTime` | implemented by `OAuth`, `Login` and `Recovery` | what a one-time secret promises |
| `...Proofs` | the module it is named after | the theorems: one module each for `Sessions`, `OAuth`, `Outbox`, `Login`, `Recovery`, `Tenancy`; `AccessProofs` is for `Access` and `ApiKeys`, `ReplicasProofs` for `Saga` and `Replicas` |

**`Sessions`** - a handler occupies a slot of `req` and takes one step per query
whose result or effect matters: `Refresh` reads the row and branches on that
copy, `LookupUser` is `get_user_by_id`, `Mint` is `issue_tokens`, `Rotate` is
`rotate_refresh_token`, `Wipe` is `revoke_all_user_refresh_tokens`.  Statements
of one transaction (`SoftDelete`, `HardDelete` with its cascades) are one step.
`Abort` stops any handler anywhere, which also stands for an ignored error of
its last query.  A handler's checks that write nothing (password, lock, second
factor, PKCE) are in the past when its request starts here.  `minted` and
`wiped` are history variables for the properties.  Handlers and Postgres read
one clock: skew between the server's `Utc::now()` and Postgres' `now()` is not
modelled.

**`OAuth`** adds what comes before the session of an exchange: `Present` reads
the code, `Claim` is the UPDATE that marks it used if it was not, `Check` stands
for PKCE, the client's secret, the user and the membership and remembers what the
caller showed (`proof`), `Issue` is `Mint` of `Sessions`, in a request slot that
the exchange owns.  Where `Sessions` alone
lets an exchange start for any member, here it needs a code; so every step is
one of `Sessions` or leaves its variables alone, which `ImplementsSessions`
checks.  `redeemed` is history: the code a token came of, and the proof that
`Check` was given.

**`Outbox`** and **`EventLog`** - the transactions of `register`, `delete_user`
and `restore_user` begin (their `created_at` is taken then) and commit (the row
becomes visible then), so rows appear out of order.  Each relay drains a batch
row by row: `Publish` (with its awaited acknowledgement), then
`mark_outbox_published`; `Abort` is a failure or crash at any await, the lost
acknowledgement included.  JetStream stores a message unless it still
remembers its id, and may forget one at any time (`Forget`: the duplicate
window).  `EventLog` is what subscribers may rely on, its liveness included, and
`Outbox` implements it under the mapping stated at `Log`.

**`Saga`** - consumers share a durable consumer; an unacknowledged message is
delivered to any of them, also while one still works on it.

**`Replicas`** - `boot[r]` is where process `r` is in `main`: the signing keys
(`LoadKeys`, or `GenerateKey` and `InsertKey` against the unique index), for each
bootstrap account a lookup, the transaction that makes the user and the one that
makes the membership, and the consumer, whose failure to start is a warning.  An
error on the way ends the process; `Crash` also stops one that serves, with the
message its consumer was at.  A process that is down starts again.  `RotateKey`
is the operator's.  `unseen` and `cut` are history.

**`Login`** - one user's credentials, since rows of different users do not
interact.  Concurrent `login` and `login_totp` requests read the row, then
increment, lock, reset or consume; enrolment stores the secret, deletes the old
codes and inserts the new ones one by one.  A TOTP code is the secret it is
derived from: the time steps a code is valid in are left out.
`login_max_failures() = 0`, which switches the lockout off, is left out too.
History says when the properties are excused, and each excuse ends: `overlapped`
from the moment two handlers of the second factor run at the same time until one
of them, alone again, writes secret and flag (`WriteTotp`); `undeleted` from a
failed deletion of recovery codes until the next that succeeds; `uncounted`
counts the failures that were not counted since the last lock or reset.

**`Recovery`** - one user again.  The UPDATE that consumes a token, the hash and
UPDATE of the password, and the wipe of the sessions are a step each, with
`Abort` between any two.  Five handlers insert a refresh token: `Login`,
`login_totp`, `Refresh`, `switch_tenant` and `exchange_authorization_code`.  Each
reads what its session is to rest on in one step and inserts it in a later one
(`insert_refresh_token`); the rest of them is in `Login`, `Sessions` and `OAuth`.
A session remembers the password it rests on, by however many others it came, and
whether a wipe came since that password was verified (`late`).  `passes` are what
starts a session without the password and survives a wipe: access tokens and API
keys, MFA tokens, codes, and refresh tokens rotated within the grace period.  The
kinds are not told apart, so that each handler may use any: that is more than the
code allows, and what holds here holds of the code.  `unwiped` is history: a new
password was stored and the sessions were not wiped, nor have they been since.

**`Access`** - one user's access tokens.  `Validate` asks the denylist (Redis,
or Postgres if Redis is off or fails), then the user's row, the membership and
the permissions are asked, each in a step of its own; a miss loads and then
stores the permissions.  SCAN and DEL of `invalidate_perms` are one step when
both succeed: an entry stored while it scans is, to the properties, one stored
after it, and an entry stored before it starts is always returned by SCAN.  All
replicas agree on whether Redis is configured; expiry of the tokens and of the
denylist entries, which last as long as their tokens, is left out.  Of the
history, `slipped` has the tokens a denylist missed or lost, until a logout puts
them in both (`Healed`), and `missed` is about an invalidation that failed, until
one empties the cache.

**`OneTime`** - a voucher is new, live or spent, never goes back, and has its
effect at most once, when it is spent or later.  Three components implement it,
each under the mapping stated beside it: an authorization code and the tokens it
yields (`Code` in `OAuth`), a recovery code and its acceptance (`Recovery` in
`Login`), a mailed token and the password it sets (`Token` in `Recovery`).  They
do it differently: the code is claimed before the caller is even checked, the
recovery code is deleted as it is accepted, the mail is marked and the password
stored two statements later.

**`ApiKeys`** - `create_api_key` gets the caller's permissions from the gateway,
which has them from an answer of `validate_token`, however long ago (`answers`).
`validate_api_key` reads the key, the owner, the membership and the permissions
one after the other, and intersects; between them everything in `Access` may
happen.

**`Tenancy`** - several users and tenants, but no sessions: what a tenant's
administrators write, and whom it concerns.  A handler's guard
(`perm_role_guard`, `role_in_tenant`, `is_project_in_tenant`, `role_exists`) is a
step, the write a later one, because each query is in a transaction of its own;
row-level security is in `Visible`.  `assign_role` and `revoke_role` resolve the
name of a role in different ways, and a sign-up in a third, as the three queries
do.  `register` makes the user and his assignment in one step and his membership
in another, which may fail unnoticed (`Finish`).  A sign-up gets every role that
bears its name, in whatever tenant: with a name that is not reserved, as the
`viewer` of `bootstrap_demo`, he may get another tenant's role, in the default
tenant.  Such an assignment is `Stray`, which the properties name as their
exception; `SignUpRoles` may be any names of templates.

The **`MC...`** modules give TLC the constants that a `.cfg` cannot write
(functions) and the symmetries: tokens, rows, secrets and request slots are
interchangeable.  Liveness runs use none, and `Outbox` needs no such module.  The
views of `MCLogin` and `MCTenancy` keep TLC from telling states apart by what no
later step reads, nor (the ranges of these in `TypeOK` aside, which are proved)
any property of the run: `mfa_misses`, which has a run of its own, and what a
revocation that is done, and a sign-up that has made its user, were asked.
`Small`, in `MCTenancy`, bounds how much is there at the same time.
The type invariants of `OAuth`, `ApiKeys` and `Replicas` extend those of the
modules they stand on, and are part of the inductive invariants.

Definitions marked `Mutant:` are not part of the specifications.  Each is a
plausible bug in the definition that follows it, and shows which property
notices it.

## What the runs check

Passing runs:

| Run | Bounds | Shows |
|---|---|---|
| `sessions_race` | 1 user, 1 tenant, 3 tokens, 2 handlers, grace 1, TTL 1, time 0..1 | `SuccessorSound`, `NoLateMint`, `WipeIsFinal`, `RevokedForever` under any interleaving |
| `oauth` | 1 user, 2 tenants, 1 project, 2 tokens, 1 client, 1 code, 2 exchanges and 1 other handler; time stands still | `CodesAreOneTime`, `CodeBindsSession`, `ImplementsSessions`; `LineageKeepsScope` and `ScopeSound` of `Sessions` across tenants |
| `outbox` | 1 user, 2 transactions, 2 relays, limit 1, 2 faults | `MarkedWasStored`, `DuplicateNeedsLapse`, `ImplementsEventLog` (order and delivery), `BacklogDrains` |
| `replicas` | 2 replicas, 2 keys, 2 accounts, 1 message, 2 faults, 2 crashes | `TokensVerify`, `BootstrapComplete`, `EveryReplicaServes`, `AckedWasTried`, `SomeoneConsumes` |
| `login` | 2 handlers of any kind, limit 2, lock of 1, 2 secrets, 1 recovery code each, time 0..1, 1 fault | `TriesBounded`, `RecoveryCodesAreOneTime` under any interleaving; `EnabledIsProven`, `RecoveryCodesMatch`, `OnlyDisableDisables` but from an overlap of two handlers of the second factor to the next that writes alone |
| `access_race` | 1 token, a template and a tenant's role, 2 handlers, TTL 1, time 0..1, 2 faults, with and without Redis | `LoggedOutRejected`, `StaleAtMostTTL`, `RoleRevocationEffective` |
| `api_keys` | 1 token of a project, 1 role, 1 key, 1 check and 1 other handler, 1 fault; time stands still | `ScopesWereHeld`, `KeyNeverStale`, and `CachedWasHeld` of `Access` |
| `tenancy` | 2 users in turn, 2 tenants, a reserved template and one that is not, 2 handlers, at most 2 assignments, and `Small`: a project, or a tenant's role with either user, or two such roles with one user | `AssignmentsStayInTenant`, `TenantsAreIsolated`, `RevokedIsGone` |
| `recovery` | 2 passwords, 1 mail, 2 handlers, TTLs of 1, time 0..1 | `TokenWorksOnce`, `NoSessionOnOldPassword` whichever handler starts the session, `MailsAreOneTime` |

`CodesAreOneTime` and `RecoveryCodesAreOneTime` say more than
`CodeYieldsOneSession` and `RecoveryCodeSingleUse`, which are theorems only.
All but `oauth`, `replicas`, `access_race` and `api_keys` also check their
module's `TypeOK`; what that of `Access` says beyond types, the foreign keys of
assignments, is checked in `tenancy`.

Why the bounds are enough. The races of `Sessions` are between two handlers on
one row, three tokens make a chain (a token, its successor, and the one minted
from either), and one tick takes time from inside the grace window and the TTL
to outside of both; the theorems lift those results to all bounds anyway. In
`oauth` two exchanges race for the code and two tokens are what both would have
got; the third handler refreshes or switches the session and the administrator
removes the member. Two overlapping transactions make rows appear out of order,
and a limit of one leaves a row behind; two faults can hit both relays. Two
replicas make every race of a first boot, and two keys one rotation or one key
generated in vain. Two attempts over a limit of two make every order of reading,
counting and locking; the lock expires within the run, after which `misses` has
restarted. One role change against one validation is where a cache goes stale,
and one tick takes time past the TTL; two roles distinguish a template from a
tenant's own. In `api_keys` the cache cannot expire, which makes its staleness
the worst it can be, and a key never expires (`Lifetimes` is `{0}`: the
comparison of `expires_at` is not explored). Two handlers in two tenants make
every order of one tenant's check and write against the other's.  A stray
assignment takes a user who makes the other tenant's role and another who signs up
after that: the first is deleted before, which leaves room for the rows of the
second, and `Small` admits this.  It keeps apart what has to do with each other by
one row only (a project and a tenant's own role, for one); the theorems have no
such bound.  In `recovery` two handlers spend the mail, or one stores a password
and wipes while the other starts a session from before or in between; sessions
may come of one another to any length; and a tick expires the mail.

`CHECK_DEADLOCK FALSE` appears where the system stops at a bound: the outbox has
nothing to do once all is delivered, a locked user with the clock at its bound
can only wait (`login`, `login_mfa_lockout`), and nothing is left to do for a
user who was deleted for good (`recovery`).

Runs that are expected to fail, each against a statement found in the source
(`PROJECT.json`, "findings"):

| Run | What the code does | What the source says |
|---|---|---|
| `sessions_wipe_family` | a rotated token of a wiped family still starts a session inside its grace window | `grpc.rs:675-676` |
| `login_mfa_lockout` | every right password resets the counter that the second factor shares | `grpc.rs:1220-1221` |
| `tenancy_demo` | the demo account is given every role called "viewer", a tenant's own included | `main.rs:175-177` |

What the modules show besides, without a run of its own.  The properties name
these cases as their exceptions, and fail without them; where none is named, no
property forbids the case.

* Sessions: a refresh, switch or code exchange past its checks when the user is
  soft-deleted leaves a live refresh token, usable once the user is restored
  (`NoLateMint` allows what a handler read as live).
* OAuth: a wrong verifier or secret, or a failed query, leaves the code claimed
  for good; a soft-deleted user's code can still be exchanged.
* Login: an enrolment that read the row before an activation switches working 2FA
  off, although `grpc.rs:1094-1095` says that enrolling again is refused; an
  activation that overlaps a disabling leaves 2FA on without a secret, and every
  code is refused (`overlapped`).
* Recovery: a handler that read before the wipe what its session is to rest on (a
  login the password, a refresh the live token) inserts the session after it; so
  does, long after it, whoever has an access token, an API key, an MFA token, a
  code, or a refresh token rotated within the grace period, since the wipe
  revokes none of them (`late`); an error of the wipe is ignored, and the sessions
  live on until a later wipe (`unwiped`); a reset
  token is spent if hashing or the UPDATE fails afterwards (`grpc.rs:1752-1756`);
  a change_password that verified the old password before a reset overwrites
  what the reset stored; mails of a soft-deleted user still work.
* Access: a Redis that failed at the logout, or restarted empty, answers "not
  denied" and is believed over the durable denylist (`slipped` in
  `LoggedOutRejected`); permissions read before a role was revoked are cached
  after the invalidation, for PERMS_TTL_SECS (`late` in
  `RoleRevocationEffective`).
* ApiKeys: a key outlives the soft deletion and restoring of its owner, and his
  removal from the tenant and return.
* Tenancy: a stray assignment of a sign-up is out of reach of the default
  tenant's `revoke_role`, whose policy hides the role from it (`Stray` in
  `RevokedIsGone`); a tenant role that bears a visible template's name (only `admin` and
  `user` are reserved) turns the subquery of `revoke_role` into an
  error, so that neither assignment can be revoked; `assign_role` reports success
  and assigns nothing if the role was deleted after the check; assignments left
  by `remove_member` count again when the user is added back; a user whose
  membership `register` failed to insert is refused everywhere; nothing keeps a
  tenant from losing its last administrator.  A caller whose membership ends
  after the gateway's check is modelled only if he was deleted (`HasCaller`).
* Replicas: an account cut off between its two transactions stays without a
  membership (`cut`); a replica refuses tokens signed with a key inserted after
  its boot (`unseen`); all replicas may serve without any consumer
  (`SomeoneConsumes` asks for one).
* Saga: `saga.rs:63` discards an error of the audit insert and acknowledges the
  message, so that the incident is lost (`failed` in `AckedWasTried`).

## Fairness

Only `Outbox` and `Replicas` have liveness properties.

* `Outbox`: weak fairness of each relay's drain, since `relay::run` loops over an
  interval and goes on after an error.  Nothing is assumed of transactions.
  Failures are bounded by `MaxFaults`: a relay that fails for ever delivers
  nothing.
* `Replicas`: weak fairness of `Start(r)`, since `main` runs on while its queries
  answer and whoever runs the service restarts a process that exits; weak
  fairness of the steps of a consumer that has a message, since `consume` loops
  for ever; and strong fairness of the delivery of each message, since JetStream
  offers an unacknowledged message again and again (and the consumers may be busy
  with others, or down, in between).  Crashes and faults are bounded.

## What is proved

Every invariant that a passing run checks is a theorem, for all values of the
constants that satisfy the module's assumptions: any number of users, tenants,
tokens, roles, keys, replicas, relays and concurrent handlers, any time to live,
any number of faults.  So are the action properties and the refinements, but for
their liveness.  Each proof module has an inductive invariant, a lemma for each
action that preserves it, and the theorems.  TLC has checked every inductive
invariant in the runs' instances too.

None of the properties is inductive alone.  A handler acts on what it read a
query ago, so each argument has to say what is still true of that.

**`SessionsProofs`**: `TypeOK`, `SuccessorSound`, `LineageKeepsScope`,
`NoLateMint`, `WipeIsFinal`, `ScopeSound` (invariants) and `RevokedForever` (an
action property).  `IInv` adds

* `Issued`: rows, parents and wiped tokens were all issued before, so that the
  token `Mint` takes is new to every one of them;
* `Past`: nothing was read or revoked in the future;
* `CopyKeepsScope`: a row's user, tenant and project never change, so a copy
  of them is still right;
* `CopyWasUsable`: when a handler that will mint read the row, the row was live
  or inside its grace window - in terms of what the row says now (`WasUsable`,
  which `NoLateMint` says of the tokens already minted);
* `SuccessorReady`: a handler about to rotate has inserted its successor, with
  the same scope, and a successor disappears only together with its
  predecessor, by the cascade of a hard deletion.

All steps that revoke rows (`Logout`, `Rotate`, `Wipe`, `SoftDelete`) share
`RevocationPreserves`: a step that revokes some live rows, now, and naming a
sound successor or none, keeps `IInv`.

**`OAuthProofs`**: `ImplementsSessions`, `CodeYieldsOneSession`,
`CodeBindsSession`, `CodesAreOneTime`.  `OAuthIInv` is `IInv` of `Sessions` and

* `MembersExist`, `RowsExist`: the foreign keys of memberships and codes, which
  make the exchange's last step a `Mint` of `Sessions` for one who has a row;
* `Alone`: after the UPDATE that claims a code no other exchange holds it, and
  no token was issued for it yet;
* `Minting`: an exchange past its check has in its slot of `req` the user and
  tenant of the code, and was shown what the code and the client ask for;
  otherwise the slot is idle;
* `Redeemed`: the history speaks of tokens that were minted.

`CodeSessionsTheorem` draws the conclusion: what is proved of `Sessions` is true
of sessions that codes start.  For `OneTime`, `CodesMove` says how a row changes,
and `YieldMoves` that `Issue` alone adds to what a code yielded, which was
nothing because the exchange is alone with it.

**`OutboxProofs`**: `TypeOK`, `MarkedWasStored`, `DuplicateNeedsLapse`, and
`LogTheorem`: `Outbox` implements `Log!Safety`, the safety part of `EventLog`.
The order of events is the hard part: rows become visible out of the order of
`created_at`, and relays drain the same rows.  What carries it is `BatchSound`:
whatever precedes a row of a batch (`before`) is stored or is in the batch, since
the query takes the oldest rows first, and `Dated`: what had committed before
has an older `created_at`.  `Remembered` and `WindowWasStored` tie the ids of
the duplicate window to stored messages.

**`LoginProofs`**: `TypeOK`, `TriesBounded`, `RecoveryCodeSingleUse`,
`EnabledIsProven`, `RecoveryCodesMatch`, `OnlyDisableDisables` (an action
property), `RecoveryCodesAreOneTime`.  `IInv` adds

* `Counted`: the counter of failures lags behind the misses by no more than the
  handlers about to increment it and those that failed to since the last restart
  of the count;
* `OwnSecret`, `SpentOnce` (with `Unissued`): an enrolment has a secret of its
  own, so a code is inserted once, and spent by whoever deletes the row;
* `Exclusive`, `RowKnown`, `CodesKnown`: while `overlapped` is false, one handler
  of the second factor runs at most, and knows what the row and the codes are;
  `WriteAlone` is why it may become false again.

**`RecoveryProofs`**: `TypeOK`, `TokenWorksOnce`, `NoSessionOnOldPassword`,
`MailsAreOneTime`.
`SpentOnce` says that between the UPDATE of the token and that of the password a
single handler has the token, and that a spent one stays so; `VerifiedByMail`
traces the verified address to a mail.  `StartsAreLate` says of a handler about to
start a session, and `PassesAreLate` of the passes, that the password they rest on
is still the row's, or that a wipe is due or came since: without the latter the
former would not survive a refresh or a switch.

**`TenancyProofs`**: `TypeOK`, `AssignmentsStayInTenant`, `TenantsAreIsolated`
and `RevokedIsGone` (the latter two are action properties), whatever names users
sign up with.  `TenantsAreIsolated` does not count what stray
assignments permit among the affairs of their tenant, since the administrators of
the other one decide it; the proofs show that no other assignment is of another
tenant's role, because only the sign-up of an unreserved name makes one.
`Checked` and `Fresh` are what a
handler still knows when it writes: tenants are never deleted, projects stay
where they are, ids are not used again; `RowsRefer` and `RowsStay` are the
foreign keys of the assignments and what no foreign key says.

**`AccessProofs`**: `TypeOK`, `LoggedOutRejected`, `CachedWasHeld`,
`StaleAtMostTTL`, `RoleRevocationEffective` of `Access`.  `Denied` has the
denylists include what was logged out, also as far as a validation has asked
them; `Expires` bounds the life of an entry by the time of the loss of what it
has too much, which is what makes `StaleAtMostTTL` inductive; `HeldWasHeld` and
`Formed` relate what is read to the history.  Of `ApiKeys`:
`KeysImplementAccess` (`KeysSpec => Spec`), hence the above with keys,
`ScopesWereHeld` and `KeyNeverStale`, from `Watching` and `Found`: what a check
has read the owner had since it began.

**`ReplicasProofs`**: `AckedWasTried` of `Saga`, and by `ReplicasImplementSaga`
of consumers that crash with their process; `TokensVerify`, from `KeysKnown`: a
loaded replica signs with a key of the table, and the table has no key that it
neither read nor missed; `BootstrapComplete`, from `UsersEnrolled` and `Passing`:
a replica has passed a set of accounts that begins with the first and that
`After` leads out of only to the one it is at.

### What the proofs assume

Besides the types of the constants:

* NULL is no value (each module);
* the default tenant is a tenant, each project has one, a tenant's roles too, the
  grace window is positive, and so are the limits of tries and of a batch;
* finitely many requests run at a time (`Login`), finitely many events are there
  (`Outbox`): the proofs count them;
* a recovery code is no TOTP code (`CodesAreNoSecrets`): the two have different
  lengths (`totp.rs`);
* `After` leads from `First` to every account (`ReplicasAssumption`), as `main`
  goes through its accounts one after the other;
* the exchanges' request slots are slots of `Sessions`; the roles of `Templates`
  include the built-in ones.

TLC evaluates all of them in the runs.

### What is only model-checked

Liveness: `BacklogDrains`, `EveryReplicaServes`, `SomeoneConsumes`, and the
liveness part of `ImplementsEventLog` (fairness and ENABLED are out of reach of
the proof system).

## Not modelled, and why

* TOTP secret encryption (`totpsecret.rs`): AES-GCM of one value, a pure function
  without state.  A replica with the wrong key refuses every code, which `Login`
  has as a wrong code.
* Passwords, JWT signatures, PKCE hashes: libraries, or comparisons that are right
  or wrong.  Redirect URIs, nonces and id_tokens are texts passed along.
* Consents: one row that the gateway's consent page writes and reads; nothing
  here depends on it.
* The audit log beyond the saga's row: best-effort inserts no handler reads back.
* Listing handlers, `get_client` and `get_jwks` read only.
  `update_role` writes a description.  `touch_api_key` writes a date.
* Migrations, the least-privilege role of `0014` and `0016`, connection retries,
  the internal-token interceptor, metrics and tracing: configuration and I/O.
  The console's OIDC client is inserted ON CONFLICT DO NOTHING.
