------------------------------ MODULE EventLog ------------------------------
(***************************************************************************)
(* What the outbox and its relay promise to the subscribers of the event   *)
(* stream: an event is seen only if its transaction committed, never       *)
(* before an event whose transaction had committed when its own began, and *)
(* every committed event is eventually seen.  An event may be seen again.  *)
(***************************************************************************)
CONSTANTS Events, NULL

VARIABLES
  before,     \* before[e]: events committed when e's transaction began, or NULL
  committed,  \* events whose transaction committed
  seen        \* events the stream has stored at least once

vars == <<before, committed, seen>>

Init ==
  /\ before = [e \in Events |-> NULL]
  /\ committed = {}
  /\ seen = {}

Begin(e) ==
  /\ before[e] = NULL
  /\ before' = [before EXCEPT ![e] = committed]
  /\ UNCHANGED <<committed, seen>>

Commit(e) ==
  /\ before[e] # NULL /\ e \notin committed
  /\ committed' = committed \cup {e}
  /\ UNCHANGED <<before, seen>>

See(e) ==
  /\ e \in committed \ seen
  /\ before[e] \subseteq seen
  /\ seen' = seen \cup {e}
  /\ UNCHANGED <<before, committed>>

Next == \E e \in Events : Begin(e) \/ Commit(e) \/ See(e)

Safety == Init /\ [][Next]_vars

Spec == Safety /\ \A e \in Events : WF_vars(See(e))

=============================================================================
