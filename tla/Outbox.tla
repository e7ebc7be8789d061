------------------------------- MODULE Outbox -------------------------------
(***************************************************************************)
(* The transactional outbox: the handlers that change an identity and      *)
(* enqueue an event in one transaction, and the relays (one per server     *)
(* process) that publish the rows to JetStream and mark them published.    *)
(*                                                                         *)
(* A row takes created_at from now(), which in Postgres is the time its    *)
(* transaction began, and becomes visible when the transaction commits, so *)
(* a transaction is two steps here.  Its writes take effect together at    *)
(* its commit: the row lock on the user makes transactions of one user     *)
(* wait for each other.                                                    *)
(***************************************************************************)
EXTENDS Naturals, FiniteSets

CONSTANTS
  Users,      \* identities (users.id)
  Events,     \* outbox.id, one per transaction
  Relays,     \* server processes that run a relay
  Limit,      \* rows fetched per drain (100 in the code)
  MaxFaults,  \* bound on failed drains
  NULL        \* no transaction

ASSUME OutboxAssumption ==
  /\ Limit \in Nat \ {0}
  /\ MaxFaults \in Nat
  /\ IsFiniteSet(Events)

VARIABLES
  users,   \* users[u]: "none", "active", "deleted" (soft) or "gone"
  outbox,  \* outbox[e]: the transaction of row e, or NULL before it began
  clock,   \* the value of now() at the latest BEGIN
  relay,   \* relay[r]: rows of its batch still to do, and the await it is at
  copies,  \* copies[e]: messages with id e stored by the stream
  window,  \* ids the server remembers for deduplication
  lapsed,  \* history: ids it has forgotten
  faults   \* failed drains so far

vars == <<users, outbox, clock, relay, copies, window, lapsed, faults>>

Kind == {"registered", "deleted", "hard_deleted", "restored"}

\* `before` is history: the events committed when this transaction began.
OutboxRow ==
  [aggregate_id: Users, event_type: Kind, created_at: Nat,
   state: {"open", "rolled_back", "unpublished", "published"}, before: SUBSET Events]

ASSUME NullIsNoRow == NULL \notin OutboxRow /\ \A S \in SUBSET Events : S # NULL

Committed ==
  {e \in Events : outbox[e] # NULL /\ outbox[e].state \in {"unpublished", "published"}}

Unpublished == {e \in Events : outbox[e] # NULL /\ outbox[e].state = "unpublished"}

Earlier(e, f) == outbox[e].created_at < outbox[f].created_at

Init ==
  /\ users = [u \in Users |-> "none"]
  /\ outbox = [e \in Events |-> NULL]
  /\ clock = 0
  /\ relay = [r \in Relays |-> [batch |-> {}, at |-> "publish"]]
  /\ copies = [e \in Events |-> 0]
  /\ window = {}
  /\ lapsed = {}
  /\ faults = 0

-----------------------------------------------------------------------------
(***************************************************************************)
(* The transactions.                                                       *)
(***************************************************************************)
Begin(e, u, kind) ==
  /\ outbox[e] = NULL
  /\ outbox' = [outbox EXCEPT ![e] =
       [aggregate_id |-> u, event_type |-> kind, created_at |-> clock + 1,
        state |-> "open", before |-> Committed]]
  /\ clock' = clock + 1
  /\ UNCHANGED <<users, relay, copies, window, lapsed, faults>>

\* register: the id is a new UUID, so no other row is about it.
create_user_with_role_event(e, u) ==
  /\ users[u] = "none"
  /\ \A f \in Events : outbox[f] # NULL => outbox[f].aggregate_id # u
  /\ Begin(e, u, "registered")

\* delete_user and restore_user take any id, of a user who exists or not.
delete_user_event_soft(e, u, hard) ==
  Begin(e, u, IF hard THEN "hard_deleted" ELSE "deleted")

restore_user_event(e, u) == Begin(e, u, "restored")

\* What the transaction does to the row of its user.
UserAfter(kind, status) ==
  CASE kind = "registered" -> "active"
    [] kind = "deleted" /\ status = "active" -> "deleted"
    [] kind = "hard_deleted" /\ status # "none" -> "gone"
    [] kind = "restored" /\ status = "deleted" -> "active"
    [] OTHER -> status

Commit(e) ==
  /\ outbox[e] # NULL /\ outbox[e].state = "open"
  /\ outbox' = [outbox EXCEPT ![e].state = "unpublished"]
  /\ users' = [users EXCEPT ![outbox[e].aggregate_id] = UserAfter(outbox[e].event_type, @)]
  /\ UNCHANGED <<clock, relay, copies, window, lapsed, faults>>

\* Nothing of the transaction remains; its id, a fresh UUID, is not used again.
Rollback(e) ==
  /\ outbox[e] # NULL /\ outbox[e].state = "open"
  /\ outbox' = [outbox EXCEPT ![e].state = "rolled_back"]
  /\ UNCHANGED <<users, clock, relay, copies, window, lapsed, faults>>

-----------------------------------------------------------------------------
(***************************************************************************)
(* The relay.                                                              *)
(***************************************************************************)
\* Mutant: no LIMIT.
IsWholeBacklog(batch) == batch = Unpublished

\* Mutant: no ORDER BY.
IsAnyBatch(batch) ==
  /\ batch \subseteq Unpublished
  /\ batch = Unpublished \/ Cardinality(batch) = Limit
  /\ Cardinality(batch) <= Limit

\* ORDER BY created_at LIMIT: the oldest unpublished rows.
IsBatch(batch) ==
  /\ batch \subseteq Unpublished
  /\ \A e \in batch, f \in Unpublished \ batch : Earlier(e, f)
  /\ batch = Unpublished \/ Cardinality(batch) = Limit
  /\ Cardinality(batch) <= Limit

\* run: the tick of the interval, and the query that starts a drain.
fetch_unpublished_outbox(r) ==
  /\ relay[r].batch = {}
  /\ \E batch \in SUBSET Unpublished :
       /\ IsBatch(batch) /\ batch # {}
       /\ relay' = [relay EXCEPT ![r] = [batch |-> batch, at |-> "publish"]]
  /\ UNCHANGED <<users, outbox, clock, copies, window, lapsed, faults>>

\* The row of its batch a relay is working on.
IsNext(e, r) ==
  /\ e \in relay[r].batch
  /\ \A f \in relay[r].batch \ {e} : Earlier(e, f)

\* Mutant: the acknowledgement is not awaited, so the message may be lost.
PublishAndForget(r) ==
  /\ relay[r].at = "publish"
  /\ \E e \in Events :
       /\ IsNext(e, r)
       /\ \/ /\ copies' = IF e \in window THEN copies ELSE [copies EXCEPT ![e] = @ + 1]
             /\ window' = window \cup {e}
          \/ UNCHANGED <<copies, window>>
  /\ relay' = [relay EXCEPT ![r].at = "mark"]
  /\ UNCHANGED <<users, outbox, clock, lapsed, faults>>

\* Mutant: no Nats-Msg-Id header.
PublishWithoutId(r) ==
  /\ relay[r].at = "publish"
  /\ \E e \in Events :
       /\ IsNext(e, r)
       /\ copies' = [copies EXCEPT ![e] = @ + 1]
       /\ window' = window \cup {e}
  /\ relay' = [relay EXCEPT ![r].at = "mark"]
  /\ UNCHANGED <<users, outbox, clock, lapsed, faults>>

\* The message is stored, unless the server remembers its id, and acknowledged.
Publish(r) ==
  /\ relay[r].at = "publish"
  /\ \E e \in Events :
       /\ IsNext(e, r)
       /\ copies' = IF e \in window THEN copies ELSE [copies EXCEPT ![e] = @ + 1]
       /\ window' = window \cup {e}
  /\ relay' = [relay EXCEPT ![r].at = "mark"]
  /\ UNCHANGED <<users, outbox, clock, lapsed, faults>>

mark_outbox_published(r) ==
  /\ relay[r].at = "mark"
  /\ \E e \in Events :
       /\ IsNext(e, r)
       /\ outbox' = [outbox EXCEPT ![e].state = "published"]
       /\ relay' = [relay EXCEPT ![r] = [batch |-> @.batch \ {e}, at |-> "publish"]]
  /\ UNCHANGED <<users, clock, copies, window, lapsed, faults>>

\* Mutant: an error of drain ends the relay's loop.
AbortForGood(r) ==
  /\ faults < MaxFaults
  /\ relay[r].batch # {}
  /\ relay' = [relay EXCEPT ![r] = [batch |-> @.batch, at |-> "stopped"]]
  /\ faults' = faults + 1
  /\ UNCHANGED <<users, outbox, clock, copies, window, lapsed>>

\* A query, a publish or its acknowledgement fails, or the process stops; the
\* rest of the batch is dropped.  After Publish it is a lost acknowledgement.
Abort(r) ==
  /\ faults < MaxFaults
  /\ relay[r].batch # {}
  /\ relay' = [relay EXCEPT ![r] = [batch |-> {}, at |-> "publish"]]
  /\ faults' = faults + 1
  /\ UNCHANGED <<users, outbox, clock, copies, window, lapsed>>

\* JetStream remembers a message id for the stream's duplicate window only.
Forget(e) ==
  /\ e \in window
  /\ window' = window \ {e}
  /\ lapsed' = lapsed \cup {e}
  /\ UNCHANGED <<users, outbox, clock, relay, copies, faults>>

-----------------------------------------------------------------------------
Transaction ==
  \E e \in Events :
    \/ Commit(e) \/ Rollback(e)
    \/ \E u \in Users :
         \/ create_user_with_role_event(e, u)
         \/ \E hard \in BOOLEAN : delete_user_event_soft(e, u, hard)
         \/ restore_user_event(e, u)

Drain(r) == fetch_unpublished_outbox(r) \/ Publish(r) \/ mark_outbox_published(r)

Next ==
  \/ Transaction
  \/ \E r \in Relays : Drain(r) \/ Abort(r)
  \/ \E e \in Events : Forget(e)

\* Each relay is a task whose interval keeps ticking.
Fairness == \A r \in Relays : WF_vars(Drain(r))

Spec == Init /\ [][Next]_vars /\ Fairness

-----------------------------------------------------------------------------
(***************************************************************************)
(* Properties.                                                             *)
(***************************************************************************)
TypeOK ==
  /\ users \in [Users -> {"none", "active", "deleted", "gone"}]
  /\ outbox \in [Events -> OutboxRow \cup {NULL}]
  /\ clock \in Nat
  /\ relay \in [Relays -> [batch: SUBSET Events, at: {"publish", "mark"}]]
  /\ \A r \in Relays : Cardinality(relay[r].batch) <= Limit
  /\ copies \in [Events -> Nat]
  /\ window \subseteq Events
  /\ lapsed \subseteq Events
  /\ faults \in Nat

(***************************************************************************)
(* A row is marked published only once the stream has stored its message:  *)
(* however the relays interleave and wherever a drain fails, an event whose *)
(* transaction committed is not lost ("at-least-once" in relay.rs).        *)
(***************************************************************************)
MarkedWasStored ==
  \A e \in Events :
    (outbox[e] # NULL /\ outbox[e].state = "published") => copies[e] > 0

(***************************************************************************)
(* The row id as message id collapses every double publish, of a relay     *)
(* that repeats its own or of two relays with the same rows, unless the    *)
(* server's memory of the id had lapsed in between.                        *)
(***************************************************************************)
DuplicateNeedsLapse ==
  \A e \in Events : copies[e] > 1 => e \in lapsed

Log ==
  INSTANCE EventLog
    WITH before    <- [e \in Events |-> IF outbox[e] = NULL THEN NULL ELSE outbox[e].before],
         committed <- Committed,
         seen      <- {e \in Events : copies[e] > 0}

(***************************************************************************)
(* What subscribers rely on.  Rows become visible out of created_at order, *)
(* several relays drain the same rows and any drain may fail half way, yet *)
(* an event is first seen after every event that had committed when its    *)
(* own transaction began, only if it committed, and then for certain.      *)
(***************************************************************************)
ImplementsEventLog == Log!Spec

(***************************************************************************)
(* The backlog drains: every row is eventually marked, although a failure  *)
(* drops the rest of a batch and rows keep arriving behind it.             *)
(***************************************************************************)
BacklogDrains ==
  \A e \in Events : e \in Unpublished ~> e \in Committed \ Unpublished

=============================================================================
