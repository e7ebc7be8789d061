---------------------------- MODULE OutboxProofs ----------------------------
(***************************************************************************)
(* Safety of the outbox for any number of transactions and relays, and     *)
(* that every step of it is one that EventLog allows.                      *)
(***************************************************************************)
EXTENDS Outbox, FiniteSetTheorems, TLAPS

-----------------------------------------------------------------------------
(***************************************************************************)
(* The inductive invariant.  An event may be published when all that had   *)
(* committed when its transaction began is stored.  What vouches for this  *)
(* is the order of created_at, together with the batch a relay still has:  *)
(* it never lost a row older than one it kept.                             *)
(***************************************************************************)

\* Rows are dated by the clock, and whatever had committed began before.
Dated ==
  \A e \in Events : outbox[e] # NULL =>
    /\ outbox[e].created_at <= clock
    /\ \A f \in outbox[e].before : f \in Committed /\ Earlier(f, e)

\* A relay has committed rows, and what precedes one of them is stored or is
\* still in the batch; the row it is to mark is stored.
BatchSound(r) ==
  /\ \A e \in relay[r].batch :
       /\ e \in Committed
       /\ \A f \in outbox[e].before : copies[f] > 0 \/ f \in relay[r].batch
  /\ relay[r].at = "mark" =>
       \A e \in Events : IsNext(e, r) => copies[e] > 0

\* A message whose id is not remembered any more was forgotten.
Remembered == \A e \in Events : copies[e] > 0 => e \in window \cup lapsed

\* An id is remembered of a message that is stored.
WindowWasStored == \A e \in window : copies[e] > 0

IInv ==
  /\ TypeOK
  /\ Dated
  /\ \A r \in Relays : BatchSound(r)
  /\ Remembered
  /\ WindowWasStored
  /\ MarkedWasStored
  /\ DuplicateNeedsLapse

-----------------------------------------------------------------------------
\* A row of a batch is a committed one, and so a row.
LEMMA CommittedIsRow ==
  ASSUME TypeOK, NEW e \in Committed
  PROVE  /\ e \in Events
         /\ outbox[e] \in OutboxRow
         /\ outbox[e] # NULL
BY DEF TypeOK, Committed

\* Taking rows out of a batch, or emptying it, keeps it within the limit.
LEMMA SmallerBatch ==
  ASSUME TypeOK, NEW r \in Relays, NEW S \in SUBSET relay[r].batch
  PROVE  S \in SUBSET Events /\ Cardinality(S) <= Limit
<1>1. relay[r].batch \subseteq Events /\ Cardinality(relay[r].batch) <= Limit
  BY DEF TypeOK
<1>2. IsFiniteSet(relay[r].batch)
  BY <1>1, OutboxAssumption, FS_Subset
<1>3. Cardinality(S) \in Nat /\ Cardinality(relay[r].batch) \in Nat
      /\ Cardinality(S) <= Cardinality(relay[r].batch)
  BY <1>2, FS_Subset, FS_CardinalityType
<1> QED
  BY <1>1, <1>3, OutboxAssumption

-----------------------------------------------------------------------------
(***************************************************************************)
(* Transactions.                                                           *)
(***************************************************************************)
\* A transaction that begins is the youngest, and in no batch.
LEMMA BeginPreserves ==
  ASSUME IInv, NEW e \in Events, NEW u \in Users, NEW kind \in Kind, Begin(e, u, kind)
  PROVE  IInv'
<1> DEFINE row == [aggregate_id |-> u, event_type |-> kind, created_at |-> clock + 1,
                   state |-> "open", before |-> Committed]
<1>1. /\ row \in OutboxRow /\ row # NULL
      /\ outbox[e] = NULL
      /\ outbox' = [outbox EXCEPT ![e] = row]
      /\ clock' = clock + 1 /\ clock \in Nat
      /\ UNCHANGED <<users, relay, copies, window, lapsed, faults>>
  BY NullIsNoRow DEF Begin, IInv, TypeOK, OutboxRow, Committed
<1>2. /\ outbox' \in [Events -> OutboxRow \cup {NULL}]
      /\ outbox'[e] = row
      /\ \A f \in Events : f # e => outbox'[f] = outbox[f]
  BY <1>1 DEF IInv, TypeOK
<1>3. Committed' = Committed /\ e \notin Committed
  BY <1>1, <1>2 DEF Committed
<1>4. TypeOK'
  BY <1>1, <1>2 DEF IInv, TypeOK
<1>5. Dated'
  <2> SUFFICES ASSUME NEW f \in Events, outbox'[f] # NULL
               PROVE  /\ outbox'[f].created_at <= clock'
                      /\ \A g \in outbox'[f].before : g \in Committed' /\ Earlier(g, f)'
    BY DEF Dated
  <2>1. CASE f = e
    <3>1. outbox'[f].created_at = clock + 1 /\ outbox'[f].before = Committed
      BY <1>2, <2>1
    <3>2. ASSUME NEW g \in Committed PROVE outbox'[g].created_at <= clock
      BY <1>2, <1>3, CommittedIsRow DEF IInv, Dated
    <3>3. ASSUME NEW g \in Committed PROVE outbox'[g].created_at \in Nat
      BY <1>2, <1>3, CommittedIsRow DEF IInv, OutboxRow
    <3> QED
      BY <1>1, <1>3, <3>1, <3>2, <3>3 DEF Earlier
  <2>2. CASE f # e
    <3>1. outbox'[f] = outbox[f] /\ outbox[f] \in OutboxRow
      BY <1>2, <2>2 DEF IInv, TypeOK
    <3>2. outbox[f].created_at <= clock /\ outbox[f].created_at \in Nat
      BY <3>1 DEF IInv, Dated, OutboxRow
    <3>3. ASSUME NEW g \in outbox[f].before PROVE g \in Committed /\ Earlier(g, f)'
      BY <1>2, <1>3, <3>1, CommittedIsRow DEF IInv, Dated, Earlier
    <3> QED
      BY <1>1, <1>3, <3>1, <3>2, <3>3
  <2> QED
    BY <2>1, <2>2
<1>6. ASSUME NEW r \in Relays PROVE BatchSound(r)'
  <2>1. relay[r].batch \subseteq Committed
    BY DEF IInv, BatchSound
  <2>2. \A f \in relay[r].batch : f \in Events /\ outbox'[f] = outbox[f]
    BY <1>2, <1>3, <2>1 DEF Committed
  <2>3. ASSUME NEW f \in Events PROVE IsNext(f, r)' <=> IsNext(f, r)
    BY <1>1, <2>2 DEF IsNext, Earlier
  <2> QED
    BY <1>1, <1>3, <2>2, <2>3 DEF IInv, BatchSound
<1>7. Remembered' /\ WindowWasStored' /\ DuplicateNeedsLapse'
  BY <1>1 DEF IInv, Remembered, WindowWasStored, DuplicateNeedsLapse
<1>8. MarkedWasStored'
  BY <1>1, <1>2 DEF IInv, MarkedWasStored
<1> QED
  BY <1>4, <1>5, <1>6, <1>7, <1>8 DEF IInv

\* A row that changes its state, and nothing else of it, to another allowed one.
LEMMA StateChanges ==
  ASSUME IInv, NEW e \in Events, outbox[e] # NULL,
         NEW state \in {"open", "rolled_back", "unpublished", "published"},
         outbox' = [outbox EXCEPT ![e].state = state],
         e \in Committed => state \in {"unpublished", "published"}
  PROVE  /\ outbox' \in [Events -> OutboxRow \cup {NULL}]
         /\ outbox'[e] # NULL /\ outbox'[e].state = state
         /\ \A f \in Events : f # e => outbox'[f] = outbox[f]
         /\ \A f \in Events : outbox'[f] # NULL <=> outbox[f] # NULL
         /\ \A f \in Events : outbox[f] # NULL => outbox'[f].created_at = outbox[f].created_at
         /\ \A f \in Events : outbox[f] # NULL => outbox'[f].before = outbox[f].before
         /\ Committed \subseteq Committed'
<1>1. outbox[e] \in OutboxRow /\ outbox \in [Events -> OutboxRow \cup {NULL}]
  BY DEF IInv, TypeOK
<1>2. [outbox[e] EXCEPT !.state = state] \in OutboxRow
  BY <1>1 DEF OutboxRow
<1>3. outbox'[e] = [outbox[e] EXCEPT !.state = state]
  BY <1>1
<1>4. \A f \in Events : f # e => outbox'[f] = outbox[f]
  BY <1>1
<1>5. /\ outbox'[e] # NULL /\ outbox'[e].state = state
      /\ outbox'[e].created_at = outbox[e].created_at
      /\ outbox'[e].before = outbox[e].before
  BY <1>1, <1>2, <1>3, NullIsNoRow DEF OutboxRow
<1> QED
  BY <1>1, <1>2, <1>3, <1>4, <1>5 DEF Committed

\* Such a step keeps the order of the rows, and the batches that stay the same.
LEMMA StatePreserves ==
  ASSUME IInv, NEW e \in Events, outbox[e] # NULL,
         NEW state \in {"open", "rolled_back", "unpublished", "published"},
         outbox' = [outbox EXCEPT ![e].state = state],
         e \in Committed => state \in {"unpublished", "published"},
         state = "published" => copies[e] > 0,
         UNCHANGED <<clock, copies>>
  PROVE  /\ Dated'
         /\ MarkedWasStored'
         /\ \A r \in Relays : relay'[r] = relay[r] => BatchSound(r)'
<1>1. /\ \A f \in Events : outbox'[f] # NULL <=> outbox[f] # NULL
      /\ \A f \in Events : f # e => outbox'[f] = outbox[f]
      /\ outbox'[e].state = state
      /\ \A f \in Events : outbox[f] # NULL => outbox'[f].created_at = outbox[f].created_at
      /\ \A f \in Events : outbox[f] # NULL => outbox'[f].before = outbox[f].before
      /\ Committed \subseteq Committed'
  BY StateChanges
<1>2. Dated'
  <2> SUFFICES ASSUME NEW f \in Events, outbox'[f] # NULL
               PROVE  /\ outbox'[f].created_at <= clock'
                      /\ \A g \in outbox'[f].before : g \in Committed' /\ Earlier(g, f)'
    BY DEF Dated
  <2>1. /\ outbox[f].created_at <= clock
        /\ \A g \in outbox[f].before : g \in Committed /\ Earlier(g, f)
    BY <1>1 DEF IInv, Dated
  <2>2. \A g \in Committed : g \in Events /\ outbox[g] # NULL
    BY DEF Committed
  <2> QED
    BY <1>1, <2>1, <2>2 DEF Earlier
<1>3. MarkedWasStored'
  BY <1>1 DEF IInv, MarkedWasStored
<1>4. ASSUME NEW r \in Relays, relay'[r] = relay[r] PROVE BatchSound(r)'
  <2>1. \A f \in relay[r].batch : f \in Committed /\ f \in Events /\ outbox[f] # NULL
    BY DEF IInv, BatchSound, Committed
  <2>2. ASSUME NEW f \in Events PROVE IsNext(f, r)' <=> IsNext(f, r)
    BY <1>1, <1>4, <2>1 DEF IsNext, Earlier
  <2> QED
    BY <1>1, <1>4, <2>1, <2>2 DEF IInv, BatchSound
<1> QED
  BY <1>2, <1>3, <1>4

\* A commit makes the row visible; a rollback never does.
LEMMA EndPreserves ==
  ASSUME IInv, NEW e \in Events, Commit(e) \/ Rollback(e)
  PROVE  IInv'
<1>1. PICK state \in {"unpublished", "rolled_back"} :
        outbox' = [outbox EXCEPT ![e].state = state]
  BY DEF Commit, Rollback
<1>2. outbox[e] # NULL /\ outbox[e].state = "open" /\ e \notin Committed
  BY DEF Commit, Rollback, Committed
<1>3. /\ UNCHANGED <<clock, relay, copies, window, lapsed, faults>>
      /\ \/ users' = users
         \/ users' = [users EXCEPT ![outbox[e].aggregate_id] =
                         UserAfter(outbox[e].event_type, @)]
  BY DEF Commit, Rollback
<1>4. users' \in [Users -> {"none", "active", "deleted", "gone"}]
  <2>1. ASSUME NEW s \in {"none", "active", "deleted", "gone"}, NEW kind \in Kind
        PROVE  UserAfter(kind, s) \in {"none", "active", "deleted", "gone"}
    BY DEF UserAfter, Kind
  <2>2. outbox[e].event_type \in Kind /\ outbox[e].aggregate_id \in Users
    BY <1>2, <1>1 DEF IInv, TypeOK, OutboxRow
  <2> QED
    BY <1>3, <2>1, <2>2 DEF IInv, TypeOK
<1>5. outbox' \in [Events -> OutboxRow \cup {NULL}]
  BY <1>1, <1>2, StateChanges
<1>6. TypeOK'
  BY <1>3, <1>4, <1>5 DEF IInv, TypeOK
<1>7. Dated' /\ MarkedWasStored' /\ \A r \in Relays : BatchSound(r)'
  BY <1>1, <1>2, <1>3, StatePreserves
<1>8. Remembered' /\ WindowWasStored' /\ DuplicateNeedsLapse'
  BY <1>3 DEF IInv, Remembered, WindowWasStored, DuplicateNeedsLapse
<1> QED
  BY <1>6, <1>7, <1>8 DEF IInv

-----------------------------------------------------------------------------
(***************************************************************************)
(* Relays.                                                                 *)
(***************************************************************************)
\* A batch takes the oldest rows, so what it leaves out and precedes one of
\* them is marked already.
LEMMA FetchPreserves ==
  ASSUME IInv, NEW r \in Relays, fetch_unpublished_outbox(r)
  PROVE  IInv'
<1>1. PICK batch \in SUBSET Unpublished :
        /\ IsBatch(batch)
        /\ relay' = [relay EXCEPT ![r] = [batch |-> batch, at |-> "publish"]]
  BY DEF fetch_unpublished_outbox
<1>2. UNCHANGED <<users, outbox, clock, copies, window, lapsed, faults>>
  BY DEF fetch_unpublished_outbox
<1>3. TypeOK'
  <2>1. batch \subseteq Events /\ Cardinality(batch) <= Limit
    BY <1>1 DEF IsBatch, Unpublished
  <2> QED
    BY <1>1, <1>2, <2>1 DEF IInv, TypeOK
<1>4. ASSUME NEW q \in Relays PROVE BatchSound(q)'
  <2>1. CASE q = r
    <3>1. relay'[q].batch = batch /\ relay'[q].at = "publish"
      BY <1>1, <2>1 DEF IInv, TypeOK
    <3>2. ASSUME NEW e \in batch, NEW f \in outbox[e].before, f \notin batch
          PROVE  copies[f] > 0
      <4>1. e \in Events /\ e \in Unpublished /\ outbox[e] # NULL
        BY DEF Unpublished
      <4>2. f \in Committed /\ Earlier(f, e)
        BY <3>2, <4>1 DEF IInv, Dated
      <4>3. ~Earlier(e, f)
        BY <4>1, <4>2, CommittedIsRow DEF IInv, TypeOK, Earlier, OutboxRow
      <4>4. f \notin Unpublished
        BY <1>1, <3>2, <4>3 DEF IsBatch
      <4> QED
        BY <4>2, <4>4 DEF Committed, Unpublished, IInv, MarkedWasStored
    <3>3. batch \subseteq Committed
      BY DEF Unpublished, Committed
    <3> QED
      BY <1>2, <3>1, <3>2, <3>3 DEF BatchSound, Committed
  <2>2. CASE q # r
    <3>1. relay'[q] = relay[q]
      BY <1>1, <2>2 DEF IInv, TypeOK
    <3> QED
      BY <1>2, <3>1 DEF IInv, BatchSound, IsNext, Earlier, Committed
  <2> QED
    BY <2>1, <2>2
<1>5. /\ Dated' /\ Remembered' /\ WindowWasStored'
      /\ MarkedWasStored' /\ DuplicateNeedsLapse'
  BY <1>2 DEF IInv, Dated, Remembered, WindowWasStored, MarkedWasStored, DuplicateNeedsLapse,
              Earlier, Committed
<1> QED
  BY <1>3, <1>4, <1>5 DEF IInv

\* There is one next row, since no row is older than itself or than an older one.
LEMMA NextIsUnique ==
  ASSUME IInv, NEW r \in Relays, NEW e \in Events, NEW f \in Events,
         IsNext(e, r), IsNext(f, r)
  PROVE  e = f
<1>1. e \in relay[r].batch /\ f \in relay[r].batch
  BY DEF IsNext
<1>2. outbox[e].created_at \in Nat /\ outbox[f].created_at \in Nat
  BY <1>1, CommittedIsRow DEF IInv, BatchSound, OutboxRow
<1> QED
  BY <1>1, <1>2 DEF IsNext, Earlier

\* When a row is next, all that had committed before its transaction is stored.
LEMMA NextIsDue ==
  ASSUME IInv, NEW r \in Relays, NEW e \in Events, IsNext(e, r)
  PROVE  e \in Committed /\ \A f \in outbox[e].before : copies[f] > 0
<1>1. e \in relay[r].batch /\ e \in Committed
  BY DEF IsNext, IInv, BatchSound
<1>2. ASSUME NEW f \in outbox[e].before, f \in relay[r].batch PROVE FALSE
  <2>1. f \in Committed /\ Earlier(f, e)
    BY <1>1, CommittedIsRow DEF IInv, Dated
  <2>2. f = e \/ Earlier(e, f)
    BY <1>2 DEF IsNext
  <2> QED
    BY <1>1, <2>1, <2>2, CommittedIsRow DEF IInv, Earlier, OutboxRow
<1> QED
  BY <1>1, <1>2 DEF IInv, BatchSound

\* A publish stores the next row, and only if the server does not remember it.
LEMMA PublishPreserves ==
  ASSUME IInv, NEW r \in Relays, Publish(r)
  PROVE  IInv'
<1>1. PICK e \in Events :
        /\ IsNext(e, r)
        /\ copies' = IF e \in window THEN copies ELSE [copies EXCEPT ![e] = @ + 1]
        /\ window' = window \cup {e}
  BY DEF Publish
<1>2. /\ relay' = [relay EXCEPT ![r].at = "mark"]
      /\ UNCHANGED <<users, outbox, clock, lapsed, faults>>
  BY DEF Publish
<1>3. /\ \A q \in Relays : relay'[q].batch = relay[q].batch
      /\ \A q \in Relays : q # r => relay'[q] = relay[q]
  BY <1>2 DEF IInv, TypeOK
<1>4. /\ copies' \in [Events -> Nat]
      /\ \A f \in Events : copies[f] > 0 => copies'[f] > 0
      /\ \A f \in Events : f # e => copies'[f] = copies[f]
  BY <1>1 DEF IInv, TypeOK
<1>5. copies'[e] > 0
  <2>1. CASE e \in window
    <3>1. copies' = copies /\ copies[e] \in Nat
      BY <1>1, <2>1 DEF IInv, TypeOK
    <3>2. copies[e] > 0
      BY <2>1 DEF IInv, WindowWasStored
    <3> QED
      BY <3>1, <3>2
  <2>2. CASE e \notin window
    BY <1>1, <2>2 DEF IInv, TypeOK
  <2> QED
    BY <2>1, <2>2
<1>6. TypeOK'
  <2>1. relay' \in [Relays -> [batch: SUBSET Events, at: {"publish", "mark"}]]
    BY <1>2 DEF IInv, TypeOK
  <2> QED
    BY <1>1, <1>2, <1>3, <1>4, <2>1 DEF IInv, TypeOK
<1>7. ASSUME NEW q \in Relays PROVE BatchSound(q)'
  <2>1. \A f \in Events : IsNext(f, q)' <=> IsNext(f, q)
    BY <1>2, <1>3 DEF IsNext, Earlier
  <2>2. \A f \in Events : (q = r /\ IsNext(f, q)) => f = e
    BY <1>1, NextIsUnique
  <2>3. \A f \in relay[q].batch : f \in Committed /\ f \in Events /\ outbox[f] \in OutboxRow
    BY CommittedIsRow DEF IInv, BatchSound
  <2>4. \A f \in relay[q].batch : outbox[f].before \subseteq Events
    BY <2>3 DEF OutboxRow
  <2> QED
    BY <1>2, <1>3, <1>4, <1>5, <2>1, <2>2, <2>3, <2>4 DEF IInv, BatchSound, Committed
<1>8. Dated'
  BY <1>2 DEF IInv, Dated, Committed, Earlier
<1>9. Remembered' /\ WindowWasStored'
  BY <1>1, <1>2, <1>4, <1>5 DEF IInv, Remembered, WindowWasStored, TypeOK
<1>10. MarkedWasStored'
  BY <1>2, <1>4 DEF IInv, MarkedWasStored
<1>11. DuplicateNeedsLapse'
  <2>1. CASE e \in window
    BY <1>1, <1>2, <2>1 DEF IInv, DuplicateNeedsLapse
  <2>2. CASE e \notin window
    <3>1. copies'[e] > 1 => copies[e] > 0
      BY <1>1, <2>2 DEF IInv, TypeOK
    <3>2. copies[e] > 0 => e \in lapsed
      BY <2>2 DEF IInv, Remembered
    <3> QED
      BY <1>2, <1>4, <3>1, <3>2 DEF IInv, DuplicateNeedsLapse
  <2> QED
    BY <2>1, <2>2
<1> QED
  BY <1>6, <1>7, <1>8, <1>9, <1>10, <1>11 DEF IInv

\* The row that leaves the batch is stored, so no row behind it misses it.
LEMMA MarkPreserves ==
  ASSUME IInv, NEW r \in Relays, mark_outbox_published(r)
  PROVE  IInv'
<1>1. PICK e \in Events :
        /\ IsNext(e, r)
        /\ outbox' = [outbox EXCEPT ![e].state = "published"]
        /\ relay' = [relay EXCEPT ![r] = [batch |-> @.batch \ {e}, at |-> "publish"]]
  BY DEF mark_outbox_published
<1>2. relay[r].at = "mark" /\ UNCHANGED <<users, clock, copies, window, lapsed, faults>>
  BY DEF mark_outbox_published
<1>3. e \in Committed /\ outbox[e] # NULL /\ copies[e] > 0
  BY <1>1, <1>2, NextIsDue, CommittedIsRow DEF IInv, BatchSound
<1>4. /\ outbox' \in [Events -> OutboxRow \cup {NULL}]
      /\ \A f \in Events : outbox[f] # NULL => outbox'[f].before = outbox[f].before
      /\ Committed \subseteq Committed'
  BY <1>1, <1>3, StateChanges
<1>5. Dated' /\ MarkedWasStored' /\ \A q \in Relays : relay'[q] = relay[q] => BatchSound(q)'
  BY <1>1, <1>2, <1>3, StatePreserves
<1>6. relay'[r] = [batch |-> relay[r].batch \ {e}, at |-> "publish"]
  BY <1>1 DEF IInv, TypeOK
<1>7. TypeOK'
  <2>1. relay[r].batch \ {e} \in SUBSET Events /\ Cardinality(relay[r].batch \ {e}) <= Limit
    BY SmallerBatch DEF IInv
  <2> QED
    BY <1>1, <1>2, <1>4, <1>6, <2>1 DEF IInv, TypeOK
<1>8. BatchSound(r)'
  <2> SUFFICES ASSUME NEW f \in relay[r].batch \ {e}
               PROVE  /\ f \in Committed'
                      /\ \A g \in outbox'[f].before :
                           copies[g] > 0 \/ g \in relay[r].batch \ {e}
    BY <1>2, <1>6 DEF BatchSound
  <2>1. f \in Committed /\ f \in Events /\ outbox[f] # NULL
    BY CommittedIsRow DEF IInv, BatchSound
  <2> QED
    BY <1>3, <1>4, <2>1 DEF IInv, BatchSound
<1>9. \A q \in Relays : BatchSound(q)'
  <2>1. \A q \in Relays : q # r => relay'[q] = relay[q]
    BY <1>1 DEF IInv, TypeOK
  <2> QED
    BY <1>5, <1>8, <2>1
<1>10. Remembered' /\ WindowWasStored' /\ DuplicateNeedsLapse'
  BY <1>2 DEF IInv, Remembered, WindowWasStored, DuplicateNeedsLapse
<1> QED
  BY <1>5, <1>7, <1>9, <1>10 DEF IInv

\* A relay that gives its batch up, wherever it was, has nothing to answer for.
LEMMA AbortPreserves ==
  ASSUME IInv, NEW r \in Relays, Abort(r)
  PROVE  IInv'
<1>1. /\ relay' = [relay EXCEPT ![r] = [batch |-> {}, at |-> "publish"]]
      /\ UNCHANGED <<users, outbox, clock, copies, window, lapsed>>
      /\ faults' \in Nat
  BY DEF Abort, IInv, TypeOK
<1>2. {} \in SUBSET Events /\ Cardinality({}) <= Limit
  BY SmallerBatch DEF IInv
<1>3. /\ relay'[r] = [batch |-> {}, at |-> "publish"]
      /\ \A q \in Relays : q # r => relay'[q] = relay[q]
  BY <1>1 DEF IInv, TypeOK
<1>4. TypeOK'
  BY <1>1, <1>2, <1>3 DEF IInv, TypeOK
<1>5. ASSUME NEW q \in Relays PROVE BatchSound(q)'
  BY <1>1, <1>3 DEF IInv, BatchSound, IsNext, Earlier, Committed
<1>6. /\ Dated' /\ Remembered' /\ WindowWasStored'
      /\ MarkedWasStored' /\ DuplicateNeedsLapse'
  BY <1>1 DEF IInv, Dated, Remembered, WindowWasStored, MarkedWasStored, DuplicateNeedsLapse,
              Earlier, Committed
<1> QED
  BY <1>4, <1>5, <1>6 DEF IInv

\* The server forgets an id of the duplicate window.
LEMMA ForgetPreserves ==
  ASSUME IInv, NEW e \in Events, Forget(e)
  PROVE  IInv'
<1>1. TypeOK'
  BY DEF IInv, TypeOK, Forget
<1>2. \A r \in Relays : BatchSound(r)'
  BY DEF IInv, Forget, BatchSound, IsNext, Earlier, Committed
<1>3. Dated' /\ MarkedWasStored' /\ DuplicateNeedsLapse'
  BY DEF IInv, Forget, Dated, MarkedWasStored, DuplicateNeedsLapse, Earlier, Committed
<1>4. Remembered' /\ WindowWasStored'
  BY DEF IInv, Forget, Remembered, WindowWasStored
<1> QED
  BY <1>1, <1>2, <1>3, <1>4 DEF IInv

-----------------------------------------------------------------------------
(***************************************************************************)
(* The invariant holds, and with it the properties the run checks.         *)
(***************************************************************************)
LEMMA InitEstablishes ==
  Init => IInv
<1> SUFFICES ASSUME Init PROVE IInv
  OBVIOUS
<1>1. Cardinality({}) = 0
  BY FS_EmptySet
<1>2. TypeOK
  <2>1. users \in [Users -> {"none", "active", "deleted", "gone"}] /\ clock \in Nat /\ faults \in Nat
    BY DEF Init
  <2>2. outbox \in [Events -> OutboxRow \cup {NULL}] /\ copies \in [Events -> Nat]
    BY DEF Init
  <2>3. window \subseteq Events /\ lapsed \subseteq Events
    BY DEF Init
  <2>4. relay \in [Relays -> [batch : SUBSET Events, at : {"publish", "mark"}]]
    BY DEF Init
  <2>5. \A r \in Relays : Cardinality(relay[r].batch) <= Limit
    <3>1. \A r \in Relays : relay[r].batch = {}
      BY DEF Init
    <3>2. 0 <= Limit
      BY OutboxAssumption
    <3> QED
      BY <1>1, <3>1, <3>2
  <2> QED
    BY <2>1, <2>2, <2>3, <2>4, <2>5 DEF TypeOK
<1>3. /\ \A r \in Relays : relay[r].batch = {} /\ relay[r].at = "publish"
      /\ \A e \in Events : outbox[e] = NULL /\ copies[e] = 0
      /\ window = {}
  BY DEF Init
<1>4. \A r \in Relays : BatchSound(r)
  BY <1>3 DEF BatchSound
<1>5. Dated /\ Remembered /\ WindowWasStored /\ MarkedWasStored /\ DuplicateNeedsLapse
  BY <1>3 DEF Dated, Remembered, WindowWasStored, MarkedWasStored, DuplicateNeedsLapse
<1> QED
  BY <1>2, <1>4, <1>5 DEF IInv

\* Every transaction begins with Begin.
LEMMA TransactionBegins ==
  ASSUME NEW e \in Events, NEW u \in Users,
         \/ create_user_with_role_event(e, u)
         \/ \E hard \in BOOLEAN : delete_user_event_soft(e, u, hard)
         \/ restore_user_event(e, u)
  PROVE  \E kind \in Kind : Begin(e, u, kind)
BY DEF create_user_with_role_event, delete_user_event_soft, restore_user_event, Kind

\* Each step of a transaction, of a relay or of the server, and stuttering, keeps the
\* invariant.
LEMMA StepPreserves ==
  IInv /\ [Next]_vars => IInv'
<1> SUFFICES ASSUME IInv, [Next]_vars PROVE IInv'
  OBVIOUS
<1>1. CASE Transaction
  BY <1>1, EndPreserves, BeginPreserves, TransactionBegins DEF Transaction
<1>2. ASSUME NEW r \in Relays, Drain(r) \/ Abort(r) PROVE IInv'
  BY <1>2, FetchPreserves, PublishPreserves, MarkPreserves, AbortPreserves DEF Drain
<1>3. ASSUME NEW e \in Events, Forget(e) PROVE IInv'
  BY <1>3, ForgetPreserves
<1>4. CASE UNCHANGED vars
  BY <1>4 DEF vars, IInv, TypeOK, Dated, BatchSound, IsNext, Remembered, WindowWasStored,
              MarkedWasStored, DuplicateNeedsLapse, Earlier, Committed
<1> QED
  BY <1>1, <1>2, <1>3, <1>4 DEF Next

\* The inductive invariant holds always, however transactions and relays
\* interleave and wherever a drain fails.
THEOREM Invariance == Spec => []IInv
BY InitEstablishes, StepPreserves, PTL DEF Spec

\* Rows and relays keep their types, and no relay works on more rows than the
\* limit of its query.
THEOREM TypeCorrect == Spec => []TypeOK
BY Invariance, PTL DEF IInv

\* No committed event is lost: a row is marked published only once the stream
\* has stored its message.
THEOREM MarkedTheorem == Spec => []MarkedWasStored
BY Invariance, PTL DEF IInv

\* However many relays publish a row, the stream stores it once as long as it
\* remembers its id.
THEOREM DuplicateTheorem == Spec => []DuplicateNeedsLapse
BY Invariance, PTL DEF IInv

-----------------------------------------------------------------------------
(***************************************************************************)
(* The refinement: what a step does to the transactions and the stream is  *)
(* a step of EventLog, or changes nothing there.                           *)
(***************************************************************************)
BeforeBar == [e \in Events |-> IF outbox[e] = NULL THEN NULL ELSE outbox[e].before]

SeenBar == {e \in Events : copies[e] > 0}

\* At first the log is empty, and nobody has seen anything.
LEMMA InitRefines ==
  Init => Log!Init
<1> SUFFICES ASSUME Init PROVE Log!Init
  OBVIOUS
<1>1. Committed = {} /\ SeenBar = {} /\ BeforeBar = [e \in Events |-> NULL]
  BY DEF Init, Committed, SeenBar, BeforeBar
<1> QED
  BY <1>1 DEF Log!Init, SeenBar, BeforeBar

\* Nothing of the log changes.
LEMMA Stutter ==
  ASSUME UNCHANGED <<BeforeBar, Committed, SeenBar>>
  PROVE  [Log!Next]_(Log!vars)
BY DEF Log!vars, BeforeBar, SeenBar

\* A transaction that begins sees what has committed.
LEMMA BeginRefines ==
  ASSUME IInv, NEW e \in Events, NEW u \in Users, NEW kind \in Kind, Begin(e, u, kind)
  PROVE  Log!Begin(e)
<1> DEFINE row == [aggregate_id |-> u, event_type |-> kind, created_at |-> clock + 1,
                   state |-> "open", before |-> Committed]
<1>1. /\ outbox[e] = NULL /\ outbox' = [outbox EXCEPT ![e] = row]
      /\ copies' = copies
      /\ outbox \in [Events -> OutboxRow \cup {NULL}]
  BY DEF Begin, IInv, TypeOK
<1>2. row # NULL /\ row.before = Committed /\ row.state = "open"
  <2>1. row \in OutboxRow
    BY DEF OutboxRow, IInv, TypeOK, Committed
  <2> QED
    BY <2>1, NullIsNoRow
<1>3. outbox'[e] = row /\ \A f \in Events : f # e => outbox'[f] = outbox[f]
  BY <1>1
<1> HIDE DEF row
<1>4. Committed' = Committed
  BY <1>1, <1>2, <1>3 DEF Committed
<1>5. BeforeBar' = [BeforeBar EXCEPT ![e] = Committed]
  BY <1>1, <1>2, <1>3 DEF BeforeBar
<1>6. BeforeBar[e] = NULL /\ SeenBar' = SeenBar
  BY <1>1 DEF BeforeBar, SeenBar
<1> QED
  BY <1>4, <1>5, <1>6 DEF Log!Begin, BeforeBar, SeenBar

\* A commit is one, and a rollback nothing.
LEMMA EndRefines ==
  ASSUME IInv, NEW e \in Events, Commit(e) \/ Rollback(e)
  PROVE  [Log!Next]_(Log!vars)
<1>1. PICK state \in {"unpublished", "rolled_back"} :
        outbox' = [outbox EXCEPT ![e].state = state]
  BY DEF Commit, Rollback
<1>2. outbox[e] # NULL /\ outbox[e].state = "open" /\ e \notin Committed /\ copies' = copies
  BY DEF Commit, Rollback, Committed
<1>3. /\ outbox'[e] # NULL /\ outbox'[e].state = state
      /\ \A f \in Events : f # e => outbox'[f] = outbox[f]
      /\ \A f \in Events : outbox'[f] # NULL <=> outbox[f] # NULL
      /\ \A f \in Events : outbox[f] # NULL => outbox'[f].before = outbox[f].before
  BY <1>1, <1>2, StateChanges
<1>4. BeforeBar' = BeforeBar /\ SeenBar' = SeenBar
  BY <1>2, <1>3 DEF BeforeBar, SeenBar
<1>5. BeforeBar[e] # NULL
  <2>1. outbox[e].before \in SUBSET Events
    BY <1>2 DEF IInv, TypeOK, OutboxRow
  <2> QED
    BY <1>2, <2>1, NullIsNoRow DEF BeforeBar
<1>6. CASE state = "unpublished"
  <2>1. Committed' = Committed \cup {e}
    BY <1>2, <1>3, <1>6 DEF Committed
  <2>2. Log!Commit(e)
    BY <1>2, <1>4, <1>5, <2>1 DEF Log!Commit, BeforeBar, SeenBar
  <2> QED
    BY <2>2 DEF Log!Next
<1>7. CASE state = "rolled_back"
  <2>1. Committed' = Committed
    BY <1>2, <1>3, <1>7 DEF Committed
  <2> QED
    BY <1>4, <2>1, Stutter
<1> QED
  BY <1>6, <1>7

\* A publish shows the event, in its turn, or repeats one shown before.
LEMMA PublishRefines ==
  ASSUME IInv, NEW r \in Relays, Publish(r)
  PROVE  [Log!Next]_(Log!vars)
<1>1. PICK e \in Events :
        /\ IsNext(e, r)
        /\ copies' = IF e \in window THEN copies ELSE [copies EXCEPT ![e] = @ + 1]
  BY DEF Publish
<1>2. outbox' = outbox /\ copies \in [Events -> Nat]
  BY DEF Publish, IInv, TypeOK
<1>3. BeforeBar' = BeforeBar /\ Committed' = Committed
  BY <1>2 DEF BeforeBar, Committed
<1>4. SeenBar' = SeenBar \cup {e}
  BY <1>1, <1>2 DEF SeenBar, IInv, WindowWasStored
<1>5. e \in Committed /\ \A f \in outbox[e].before : copies[f] > 0
  BY <1>1, NextIsDue
<1>6. BeforeBar[e] \subseteq SeenBar
  <2>1. BeforeBar[e] = outbox[e].before /\ outbox[e].before \subseteq Events
    BY <1>5, CommittedIsRow DEF BeforeBar, IInv, OutboxRow
  <2> QED
    BY <1>5, <2>1 DEF SeenBar
<1>7. CASE e \in SeenBar
  BY <1>3, <1>4, <1>7, Stutter
<1>8. CASE e \notin SeenBar
  <2>1. Log!See(e)
    BY <1>3, <1>4, <1>5, <1>6, <1>8 DEF Log!See, BeforeBar, SeenBar
  <2> QED
    BY <2>1 DEF Log!Next
<1> QED
  BY <1>7, <1>8

\* Marking changes no more than the state of a committed row.
LEMMA MarkRefines ==
  ASSUME IInv, NEW r \in Relays, mark_outbox_published(r)
  PROVE  [Log!Next]_(Log!vars)
<1>1. PICK e \in Events : IsNext(e, r) /\ outbox' = [outbox EXCEPT ![e].state = "published"]
  BY DEF mark_outbox_published
<1>2. e \in Committed /\ outbox[e] # NULL /\ copies' = copies
  BY <1>1, NextIsDue, CommittedIsRow DEF IInv, mark_outbox_published
<1>3. /\ outbox'[e] # NULL /\ outbox'[e].state = "published"
      /\ \A f \in Events : f # e => outbox'[f] = outbox[f]
      /\ \A f \in Events : outbox'[f] # NULL <=> outbox[f] # NULL
      /\ \A f \in Events : outbox[f] # NULL => outbox'[f].before = outbox[f].before
  BY <1>1, <1>2, StateChanges
<1>4. Committed' = Committed
  BY <1>2, <1>3 DEF Committed
<1>5. BeforeBar' = BeforeBar /\ SeenBar' = SeenBar
  BY <1>2, <1>3 DEF BeforeBar, SeenBar
<1> QED
  BY <1>4, <1>5, Stutter

\* Each step of the outbox is a step of the log, or none.
LEMMA StepRefines ==
  IInv /\ [Next]_vars => [Log!Next]_(Log!vars)
<1> SUFFICES ASSUME IInv, [Next]_vars PROVE [Log!Next]_(Log!vars)
  OBVIOUS
<1>1. CASE Transaction
  <2>1. ASSUME NEW e \in Events, NEW u \in Users, NEW kind \in Kind, Begin(e, u, kind)
        PROVE  [Log!Next]_(Log!vars)
    BY <2>1, BeginRefines DEF Log!Next
  <2> QED
    BY <1>1, <2>1, EndRefines, TransactionBegins DEF Transaction
<1>2. CASE UNCHANGED <<outbox, copies>>
  BY <1>2, Stutter DEF BeforeBar, Committed, SeenBar
<1>3. ASSUME NEW r \in Relays, Drain(r) \/ Abort(r) PROVE [Log!Next]_(Log!vars)
  BY <1>2, <1>3, PublishRefines, MarkRefines DEF Drain, fetch_unpublished_outbox, Abort
<1>4. ASSUME NEW e \in Events, Forget(e) PROVE [Log!Next]_(Log!vars)
  BY <1>2, <1>4 DEF Forget
<1>5. CASE UNCHANGED vars
  BY <1>2, <1>5 DEF vars
<1> QED
  BY <1>1, <1>3, <1>4, <1>5 DEF Next

\* Subscribers see an event only if its transaction committed, and after every
\* event that had committed when it began, with any number of relays that drain
\* the same rows and may fail half way.
THEOREM LogTheorem == Spec => Log!Safety
BY Invariance, InitRefines, StepRefines, PTL DEF Spec, Log!Safety

=============================================================================
