------------------------------ MODULE MCOAuth ------------------------------
(***************************************************************************)
(* Instances of OAuth for TLC.                                             *)
(***************************************************************************)
EXTENDS OAuth, TLC

CONSTANTS t1, t2, p1

\* One project, owned by a tenant other than the default one.
OneProject == p1 :> t2

\* A public and a confidential client of that tenant.
OneTenant == [tenant_id: {t2}, is_confidential: BOOLEAN]

\* Token hashes and exchange slots are interchangeable.
Symmetry == Permutations(Tokens) \cup Permutations(Exchanges)

=============================================================================
