------------------------------ MODULE OneTime ------------------------------
(***************************************************************************)
(* What a one-time secret promises: an authorization code, a mailed token, *)
(* a recovery code.  It is issued once, spent once and never again good,   *)
(* and has an effect (a session, a password, a second factor passed) at    *)
(* most once: at the moment it is spent or later, on behalf of the one who *)
(* spent it.  It may also be withdrawn, issued or not, without an effect,  *)
(* together with others.                                                   *)
(***************************************************************************)
EXTENDS Naturals

CONSTANT Vouchers

VARIABLES
  stage,   \* stage[v]: "new", "live", or "spent" for good
  effects  \* effects[v]: how often v has had its effect

Init ==
  /\ stage = [v \in Vouchers |-> "new"]
  /\ effects = [v \in Vouchers |-> 0]

\* From one stage to itself or a later one.
Advance(v) ==
  \/ stage'[v] = stage[v]
  \/ stage[v] = "new" /\ stage'[v] \in {"live", "spent"}
  \/ stage[v] = "live" /\ stage'[v] = "spent"

\* The one effect, of what had been issued and cannot be shown again.
Take(v) ==
  /\ stage[v] # "new" /\ stage'[v] = "spent"
  /\ effects[v] = 0 /\ effects'[v] = 1

Next ==
  /\ DOMAIN stage' = Vouchers /\ DOMAIN effects' = Vouchers
  /\ \A v \in Vouchers : Advance(v) /\ (effects'[v] = effects[v] \/ Take(v))

Spec == Init /\ [][Next]_<<stage, effects>>

=============================================================================
