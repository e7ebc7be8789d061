----------------------------- MODULE MCTenancy -----------------------------
(***************************************************************************)
(* Instances of Tenancy for TLC.                                           *)
(***************************************************************************)
EXTENDS Tenancy, TLC

CONSTANT x

\* Two templates: one may do what is to be done, the demo account's may not.
TwoTemplates == "admin" :> {x} @@ "viewer" :> {}

\* A revocation that is done only answers, and was asked about no user yet to be
\* made; of a sign-up that has made the user, what it was to give him does not count
\* any more: these tell no states apart.
View ==
  <<users, deleted, tenants, projects, memberships, roles, role_permissions, user_roles,
    [h \in Handlers |->
       IF At(h, {"revoke"}, "done") THEN "done"
         ELSE IF At(h, {"signup"}, "enroll") THEN handlers[h].users
         ELSE handlers[h]]>>

\* Handlers are interchangeable, and so are users.
Symmetry == Permutations(Handlers) \cup Permutations(Users)

\* Bounds: one user is there at a time, and two in turn; besides, there is a project,
\* or a tenant's role with either user, or two such roles with one user.
Small ==
  /\ Cardinality(users) <= 1
  /\ Cardinality(deleted) <= 1
  /\ IF \A p \in Projects : projects[p] = NULL
       THEN Cardinality(users \cup deleted) + Cardinality({r \in roles : r[2] # NULL}) <= 3
       ELSE deleted = {} /\ \A r \in roles : r[2] = NULL

=============================================================================
