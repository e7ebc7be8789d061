-------------------------------- MODULE Saga --------------------------------
(***************************************************************************)
(* The saga compensator: every server process consumes the durable         *)
(* consumer "auth-saga-profile-failed" with explicit acknowledgements,     *)
(* writes an audit event for a permanently failed profile creation and     *)
(* acknowledges the message.  A message that is not acknowledged is        *)
(* delivered again, to any process, also while one still works on it.      *)
(***************************************************************************)
EXTENDS Naturals

CONSTANTS
  Messages,   \* ProfileCreationFailed messages on the stream
  Consumers,  \* server processes
  MaxFaults,  \* bound on failed steps and crashes
  NULL        \* not on the stream yet, or no message

ASSUME SagaAssumption == MaxFaults \in Nat /\ NULL \notin Messages

VARIABLES
  payload,  \* payload[m]: what the message decodes to, NULL before it arrives
  unacked,  \* messages the server will deliver (again)
  handler,  \* handler[c]: the message consumer c is at, and the await it is at
  audits,   \* audits[m]: audit_events rows about m
  failed,   \* messages whose audit insert returned an error
  faults    \* faults so far

vars == <<payload, unacked, handler, audits, failed, faults>>

\* A decoded event, one whose user_id is no UUID, or bytes that do not decode.
Payload == {"event", "bad_user", "garbage"}

ASSUME NullIsNoPayload == NULL \notin Payload

Waiting == [msg |-> NULL, at |-> "next"]

Init ==
  /\ payload = [m \in Messages |-> NULL]
  /\ unacked = {}
  /\ handler = [c \in Consumers |-> Waiting]
  /\ audits = [m \in Messages |-> 0]
  /\ failed = {}
  /\ faults = 0

\* The user service gives up on a profile.
Arrive(m, kind) ==
  /\ payload[m] = NULL
  /\ payload' = [payload EXCEPT ![m] = kind]
  /\ unacked' = unacked \cup {m}
  /\ UNCHANGED <<handler, audits, failed, faults>>

\* Mutant: acknowledge first, record afterwards.
DeliverAndAck(c, m) ==
  /\ handler[c] = Waiting
  /\ m \in unacked
  /\ handler' = [handler EXCEPT ![c] =
       [msg |-> m, at |-> IF payload[m] = "event" THEN "audit" ELSE "ack"]]
  /\ unacked' = unacked \ {m}
  /\ UNCHANGED <<payload, audits, failed, faults>>

\* messages.next(): a first delivery, or one after the ack wait has passed.
Deliver(c, m) ==
  /\ handler[c] = Waiting
  /\ m \in unacked
  /\ handler' = [handler EXCEPT ![c] =
       [msg |-> m, at |-> IF payload[m] = "event" THEN "audit" ELSE "ack"]]
  /\ UNCHANGED <<payload, unacked, audits, failed, faults>>

\* insert_audit; its error is discarded (`let _ =`) and the message acknowledged.
insert_audit(c) ==
  /\ handler[c].at = "audit"
  /\ LET m == handler[c].msg
     IN  \/ /\ audits' = [audits EXCEPT ![m] = @ + 1]
            /\ UNCHANGED <<failed, faults>>
         \/ /\ faults < MaxFaults
            /\ failed' = failed \cup {m}
            /\ faults' = faults + 1
            /\ UNCHANGED audits
  /\ handler' = [handler EXCEPT ![c].at = "ack"]
  /\ UNCHANGED <<payload, unacked>>

\* Mutant: a payload that does not decode is left without an acknowledgement.
AckIfDecoded(c) ==
  /\ handler[c].at = "ack"
  /\ unacked' = IF payload[handler[c].msg] = "garbage" THEN unacked
                                                       ELSE unacked \ {handler[c].msg}
  /\ handler' = [handler EXCEPT ![c] = Waiting]
  /\ UNCHANGED <<payload, audits, failed, faults>>

Ack(c) ==
  /\ handler[c].at = "ack"
  /\ unacked' = unacked \ {handler[c].msg}
  /\ handler' = [handler EXCEPT ![c] = Waiting]
  /\ UNCHANGED <<payload, audits, failed, faults>>

\* The acknowledgement is lost, the stream breaks off, or the process restarts.
Interrupt(c) ==
  /\ faults < MaxFaults
  /\ handler[c] # Waiting
  /\ handler' = [handler EXCEPT ![c] = Waiting]
  /\ faults' = faults + 1
  /\ UNCHANGED <<payload, unacked, audits, failed>>

Consume(c) == insert_audit(c) \/ Ack(c) \/ \E m \in Messages : Deliver(c, m)

Next ==
  \/ \E m \in Messages, kind \in Payload : Arrive(m, kind)
  \/ \E c \in Consumers : Consume(c) \/ Interrupt(c)

Spec == Init /\ [][Next]_vars

-----------------------------------------------------------------------------
TypeOK ==
  /\ payload \in [Messages -> Payload \cup {NULL}]
  /\ unacked \subseteq {m \in Messages : payload[m] # NULL}
  /\ handler \in [Consumers -> [msg: Messages \cup {NULL}, at: {"next", "audit", "ack"}]]
  /\ \A c \in Consumers : handler[c].at = "audit" => payload[handler[c].msg] = "event"
  /\ audits \in [Messages -> Nat]
  /\ failed \subseteq Messages
  /\ faults \in 0..MaxFaults

Acked(m) == payload[m] # NULL /\ m \notin unacked

(***************************************************************************)
(* A failed profile creation is acknowledged only after the attempt to     *)
(* record it: wherever a process stops, and however often the message is   *)
(* delivered, what may lose the incident is an error of the insert alone.  *)
(***************************************************************************)
AckedWasTried ==
  \A m \in Messages :
    (Acked(m) /\ payload[m] = "event") => (audits[m] > 0 \/ m \in failed)

(***************************************************************************)
(* No message is delivered for ever: each is acknowledged in the end, also *)
(* one that does not decode or names no user ("poison" messages), provided *)
(* that a consumer runs: module Replicas says when.                        *)
(***************************************************************************)
EveryMessageAcked ==
  \A m \in Messages : m \in unacked ~> Acked(m)

=============================================================================
