----------------------------- MODULE MCReplicas -----------------------------
(***************************************************************************)
(* Instances of Replicas for TLC.                                          *)
(***************************************************************************)
EXTENDS Replicas, TLC

CONSTANTS admin, demo

\* bootstrap_admin comes first, bootstrap_demo last.
InOrder == admin :> demo @@ demo :> NULL

=============================================================================
