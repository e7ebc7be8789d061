----------------------------- MODULE MCApiKeys -----------------------------
(***************************************************************************)
(* Instances of ApiKeys for TLC.                                           *)
(***************************************************************************)
EXTENDS ApiKeys, TLC

CONSTANTS a1, t1, p1, custom

\* A token of a project.
ProjectScope == a1 :> <<t1, p1>>

OneProject == p1 :> t1

\* A role of the tenant.
OneRole == custom :> t1

=============================================================================
