------------------------------ MODULE MCAccess ------------------------------
(***************************************************************************)
(* Instances of Access for TLC.                                            *)
(***************************************************************************)
EXTENDS Access, TLC

CONSTANTS a1, t1, admin, custom

\* A token of the whole tenant.
OneScope == a1 :> <<t1, NULL>>

NoProjects == <<>>

\* A role of the tenant and the built-in template.
TwoRoles == custom :> t1 @@ admin :> NULL

Symmetry == Permutations(Requests)

=============================================================================
