---------------------------- MODULE TenancyProofs ---------------------------
(***************************************************************************)
(* Safety of the administration of tenants, for any number of tenants,     *)
(* users, roles and handlers that check now and write later.               *)
(***************************************************************************)
EXTENDS Tenancy, TLAPS

-----------------------------------------------------------------------------
(***************************************************************************)
(* The inductive invariant.  What a handler has checked stays true while   *)
(* it waits, because tenants are never deleted, a project stays where it   *)
(* is and an id is never used again; what may change meanwhile, the roles  *)
(* and the users there are, the query that writes looks at again.          *)
(***************************************************************************)

\* A handler acts in a tenant that is there, on a project that it has checked.
Checked(h) ==
  Busy(h) =>
    /\ handlers[h].tenant \in tenants
    /\ handlers[h].op \in {"grant", "ungrant"} => handlers[h].permission \in Permissions
    /\ handlers[h].op = "signup" =>
         handlers[h].name \in SignUpRoles /\ handlers[h].tenant = DefaultTenant
    /\ handlers[h].op = "assign" /\ handlers[h].at = "write" /\ handlers[h].project # NULL =>
         projects[handlers[h].project] = handlers[h].tenant

\* The user that a handler is to make is new, and is not asked of any other.
Fresh(h) ==
  At(h, {"signup"}, "write") =>
    /\ handlers[h].users \cap (users \cup deleted) = {}
    /\ \A g \in Handlers \ {h} : Busy(g) => handlers[g].users \cap handlers[h].users = {}

\* The templates stay, and no tenant has a role with a built-in name.
TemplatesStay ==
  /\ DefaultTenant \in tenants
  /\ \A n \in DOMAIN Templates : <<n, NULL>> \in roles
  /\ \A r \in roles : r[1] \in BuiltIn => r[2] = NULL

\* The foreign keys of user_roles, and that its project is of its tenant.
RowsRefer ==
  \A a \in user_roles :
    /\ a.user \in users /\ a.tenant \in tenants /\ a.role \in roles
    /\ a.project # NULL => projects[a.project] = a.tenant

\* No foreign key says that the role is of the tenant, or a template.
RowsStay ==
  \A a \in user_roles : a.role[2] \in {a.tenant, NULL} \/ Stray(a)

IInv ==
  /\ TypeOK
  /\ \A h \in Handlers : Checked(h)
  /\ \A h \in Handlers : Fresh(h)
  /\ TemplatesStay
  /\ RowsRefer
  /\ RowsStay

-----------------------------------------------------------------------------
(***************************************************************************)
(* Handlers.                                                               *)
(***************************************************************************)
tables ==
  <<users, deleted, tenants, projects, memberships, roles, role_permissions, user_roles>>

\* A handler that begins in a tenant there is, about users there are or were, or about
\* a new one that no other handler has, and with a project it has yet to check.
LEMMA StartPreserves ==
  ASSUME IInv, NEW h \in Handlers, NEW op, NEW at, NEW t \in tenants, NEW us \in SUBSET Users,
         NEW name \in Names \cup {NULL}, NEW p \in Projects \cup {NULL},
         NEW x \in Permissions \cup {NULL},
         Start(h, op, at, t, us, name, p, x), UNCHANGED tables,
         op \in {"assign", "revoke", "delete", "grant", "ungrant", "member", "signup"},
         at \in {"project", "write"},
         op \in {"grant", "ungrant"} => x \in Permissions,
         op = "assign" /\ at = "write" => p = NULL,
         IF op = "signup"
           THEN /\ name \in SignUpRoles /\ t = DefaultTenant /\ us \cap (users \cup deleted) = {}
                /\ \A g \in Handlers : Busy(g) => handlers[g].users \cap us = {}
           ELSE us \subseteq users \cup deleted
  PROVE  IInv'
<1> DEFINE new == [op |-> op, at |-> at, tenant |-> t, users |-> us, name |-> name,
                   project |-> p, permission |-> x]
<1>1. new \in Handler
  BY DEF IInv, TypeOK, Handler
<1>2. handlers[h] = NULL /\ handlers' = [handlers EXCEPT ![h] = new]
  BY DEF Start, Busy
<1> HIDE DEF new
<1>3. TypeOK'
  BY <1>1, <1>2 DEF IInv, TypeOK, tables
<1>4. (\A g \in Handlers : Checked(g))'
  BY <1>2 DEF IInv, Checked, Busy, tables, new
<1>5. (\A g \in Handlers : Fresh(g))'
  BY <1>2 DEF IInv, Fresh, At, Busy, tables, new
<1>6. TemplatesStay' /\ RowsRefer' /\ RowsStay'
  BY DEF IInv, TemplatesStay, RowsRefer, RowsStay, tables
<1> QED
  BY <1>3, <1>4, <1>5, <1>6 DEF IInv

-----------------------------------------------------------------------------
(***************************************************************************)
(* One lemma for each query that writes.                                   *)
(***************************************************************************)
\* A role that is deleted is no template, and takes its rows along.
LEMMA DeleteRolePreserves ==
  ASSUME IInv, NEW h \in Handlers, delete_role(h)
  PROVE  IInv'
<1>1. TypeOK'
  BY DEF IInv, TypeOK, delete_role, WithoutRole, Leave
<1>2. (\A g \in Handlers : Checked(g))'
  BY DEF IInv, Checked, Busy, delete_role, WithoutRole, Leave
<1>3. (\A g \in Handlers : Fresh(g))'
  BY DEF IInv, Fresh, At, Busy, delete_role, WithoutRole, Leave
<1>4. TemplatesStay'
  <2>1. handlers[h].tenant # NULL
    BY NullIsNoTenant DEF IInv, TypeOK, Handler, delete_role, At, Busy
  <2>2. roles' = roles \ {<<handlers[h].name, handlers[h].tenant>>}
    BY DEF delete_role, WithoutRole
  <2> QED
    BY <2>1, <2>2 DEF IInv, TemplatesStay, delete_role
<1>5. RowsRefer'
  BY DEF IInv, RowsRefer, delete_role, WithoutRole
<1>6. RowsStay'
  BY DEF IInv, RowsStay, delete_role, WithoutRole
<1> QED
  BY <1>1, <1>2, <1>3, <1>4, <1>5, <1>6 DEF IInv

\* A permission is granted to a role there is.
LEMMA GrantPreserves ==
  ASSUME IInv, NEW h \in Handlers, grant_permission(h)
  PROVE  IInv'
<1>1. TypeOK'
  <2>1. handlers[h].permission \in Permissions
    BY DEF IInv, Checked, grant_permission, At
  <2>2. role_permissions' \subseteq roles \X Permissions
    BY <2>1 DEF IInv, TypeOK, grant_permission
  <2> QED
    BY <2>2 DEF IInv, TypeOK, grant_permission, Leave
<1>2. (\A g \in Handlers : Checked(g))'
  BY DEF IInv, Checked, Busy, grant_permission, Leave
<1>3. (\A g \in Handlers : Fresh(g))'
  BY DEF IInv, Fresh, At, Busy, grant_permission, Leave
<1>4. TemplatesStay'
  BY DEF IInv, TemplatesStay, grant_permission
<1>5. RowsRefer'
  BY DEF IInv, RowsRefer, grant_permission
<1>6. RowsStay'
  BY DEF IInv, RowsStay, grant_permission
<1> QED
  BY <1>1, <1>2, <1>3, <1>4, <1>5, <1>6 DEF IInv

\* A permission that is revoked leaves the roles alone.
LEMMA UngrantPreserves ==
  ASSUME IInv, NEW h \in Handlers, revoke_permission(h)
  PROVE  IInv'
<1>1. TypeOK'
  BY DEF IInv, TypeOK, revoke_permission, Leave
<1>2. (\A g \in Handlers : Checked(g))'
  BY DEF IInv, Checked, Busy, revoke_permission, Leave
<1>3. (\A g \in Handlers : Fresh(g))'
  BY DEF IInv, Fresh, At, Busy, revoke_permission, Leave
<1>4. TemplatesStay'
  BY DEF IInv, TemplatesStay, revoke_permission
<1>5. RowsRefer'
  BY DEF IInv, RowsRefer, revoke_permission
<1>6. RowsStay'
  BY DEF IInv, RowsStay, revoke_permission
<1> QED
  BY <1>1, <1>2, <1>3, <1>4, <1>5, <1>6 DEF IInv

\* A handler that has checked its project goes on.
LEMMA ProjectPreserves ==
  ASSUME IInv, NEW h \in Handlers, is_project_in_tenant(h)
  PROVE  IInv'
<1>1. TypeOK'
  BY DEF IInv, TypeOK, Handler, is_project_in_tenant, At, Busy, Leave, Goto
<1>2. (\A g \in Handlers : Checked(g))'
  BY DEF IInv, Checked, Busy, TypeOK, Handler, is_project_in_tenant, At, Leave, Goto
<1>3. (\A g \in Handlers : Fresh(g))'
  BY DEF IInv, Fresh, At, Busy, TypeOK, Handler, is_project_in_tenant, Leave, Goto
<1>4. TemplatesStay'
  BY DEF IInv, TemplatesStay, is_project_in_tenant
<1>5. RowsRefer'
  BY DEF IInv, RowsRefer, is_project_in_tenant
<1>6. RowsStay'
  BY DEF IInv, RowsStay, is_project_in_tenant
<1> QED
  BY <1>1, <1>2, <1>3, <1>4, <1>5, <1>6 DEF IInv

\* An assignment is of a visible role and in the tenant of the handler.
LEMMA AssignPreserves ==
  ASSUME IInv, NEW h \in Handlers, assign_role(h)
  PROVE  IInv'
<1>1. TypeOK'
  BY DEF IInv, TypeOK, Handler, Role, Assignment, assign_role, At, Busy, Leave, OwnFirst,
     Visible, RolesNamed
<1>2. (\A g \in Handlers : Checked(g))'
  BY DEF IInv, Checked, Busy, TypeOK, Handler, assign_role, At, Leave, OwnFirst, Visible,
     RolesNamed
<1>3. (\A g \in Handlers : Fresh(g))'
  BY DEF IInv, Fresh, At, Busy, TypeOK, Handler, assign_role, Leave, OwnFirst, Visible,
     RolesNamed
<1>4. TemplatesStay'
  BY DEF IInv, TemplatesStay, assign_role, OwnFirst, Visible, RolesNamed
<1>5. RowsRefer'
  <2>1. PICK u \in handlers[h].users :
          user_roles' = user_roles \cup
            {[user |-> u, role |-> r, tenant |-> handlers[h].tenant,
              project |-> handlers[h].project] :
               r \in IF u \in users
                       THEN OwnFirst(Visible(handlers[h].name, handlers[h].tenant))
                       ELSE {}}
    BY DEF assign_role
  <2>2. /\ handlers[h].tenant \in tenants
        /\ handlers[h].project # NULL => projects[handlers[h].project] = handlers[h].tenant
    BY DEF IInv, Checked, assign_role, At
  <2>3. ASSUME NEW a \in user_roles'
        PROVE  /\ a.user \in users /\ a.tenant \in tenants /\ a.role \in roles
               /\ a.project # NULL => projects[a.project] = a.tenant
    BY <2>1, <2>2 DEF IInv, RowsRefer, OwnFirst, Visible, RolesNamed
  <2> QED
    BY <2>3 DEF RowsRefer, assign_role
<1>6. RowsStay'
  BY DEF IInv, RowsStay, assign_role, OwnFirst, Visible, RolesNamed
<1> QED
  BY <1>1, <1>2, <1>3, <1>4, <1>5, <1>6 DEF IInv

\* Rows that are deleted leave nothing to check.
LEMMA RevokePreserves ==
  ASSUME IInv, NEW h \in Handlers, revoke_role(h)
  PROVE  IInv'
<1>1. TypeOK'
  BY DEF IInv, TypeOK, Handler, revoke_role, At, Busy, Leave, Goto
<1>2. (\A g \in Handlers : Checked(g))'
  BY DEF IInv, Checked, Busy, TypeOK, Handler, revoke_role, At, Leave, Goto
<1>3. (\A g \in Handlers : Fresh(g))'
  BY DEF IInv, Fresh, At, Busy, TypeOK, Handler, revoke_role, Leave, Goto
<1>4. TemplatesStay'
  BY DEF IInv, TemplatesStay, revoke_role
<1>5. RowsRefer'
  BY DEF IInv, RowsRefer, revoke_role
<1>6. RowsStay'
  BY DEF IInv, RowsStay, revoke_role
<1> QED
  BY <1>1, <1>2, <1>3, <1>4, <1>5, <1>6 DEF IInv

\* A user is made once, and has at first what is a template, of the default tenant or
\* stray: no tenant has a role with a built-in name.
LEMMA CreateUserPreserves ==
  ASSUME IInv, NEW h \in Handlers, create_user_with_role(h)
  PROVE  IInv'
<1>1. TypeOK'
  <2>1. handlers[h] \in Handler /\ handlers[h].users \cap deleted = {}
    BY DEF IInv, TypeOK, Fresh, create_user_with_role, At, Busy
  <2>2. users' \subseteq Users /\ deleted \subseteq Users \ users'
    BY <2>1 DEF IInv, TypeOK, Handler, create_user_with_role
  <2>3. [user: handlers[h].users, role: RolesNamed(handlers[h].name),
         tenant: {DefaultTenant}, project: {NULL}] \subseteq Assignment
    BY <2>1, TenancyAssumption DEF IInv, TypeOK, Handler, Assignment, RolesNamed
  <2>4. user_roles' \subseteq Assignment
    BY <2>3 DEF IInv, TypeOK, create_user_with_role
  <2>5. [handlers[h] EXCEPT !.at = "enroll"] \in Handler
    BY <2>1 DEF Handler
  <2>6. handlers' \in [Handlers -> Handler \cup {NULL}]
    BY <2>5 DEF IInv, TypeOK, create_user_with_role, Goto
  <2>7. memberships' \subseteq users' \X tenants
    BY DEF IInv, TypeOK, create_user_with_role
  <2> QED
    BY <2>2, <2>4, <2>6, <2>7 DEF IInv, TypeOK, create_user_with_role
<1>2. (\A g \in Handlers : Checked(g))'
  BY DEF IInv, Checked, Busy, create_user_with_role, At, Goto, RolesNamed
<1>3. (\A g \in Handlers : Fresh(g))'
  BY DEF IInv, Fresh, At, Busy, TypeOK, create_user_with_role, Goto, RolesNamed
<1>4. TemplatesStay'
  BY DEF IInv, TemplatesStay, create_user_with_role, RolesNamed
<1>5. RowsRefer'
  <2>1. \A a \in user_roles' \ user_roles :
          /\ a.user \in users' /\ a.tenant = DefaultTenant /\ a.role \in roles
          /\ a.project = NULL
    BY DEF create_user_with_role, RolesNamed
  <2> QED
    BY <2>1 DEF IInv, RowsRefer, TemplatesStay, create_user_with_role
<1>6. RowsStay'
  <2>1. handlers[h].name \in SignUpRoles
    BY DEF IInv, Checked, create_user_with_role, At
  <2>2. \A a \in user_roles' \ user_roles :
          /\ a.role \in roles /\ a.role[1] = handlers[h].name
          /\ a.tenant = DefaultTenant /\ a.project = NULL
    BY DEF create_user_with_role, RolesNamed
  <2>3. \A a \in user_roles' \ user_roles : a.role[2] \in {a.tenant, NULL} \/ Stray(a)
    BY <2>1, <2>2 DEF IInv, TemplatesStay, Stray
  <2> QED
    BY <2>3 DEF IInv, RowsStay
<1> QED
  BY <1>1, <1>2, <1>3, <1>4, <1>5, <1>6 DEF IInv

\* Who is made a member is a user.
LEMMA AddMemberPreserves ==
  ASSUME IInv, NEW h \in Handlers, add_member(h)
  PROVE  IInv'
<1>1. TypeOK'
  <2>1. handlers[h].tenant \in tenants
    BY DEF IInv, Checked, add_member, At
  <2>2. memberships' \subseteq users \X tenants
    BY <2>1 DEF IInv, TypeOK, add_member
  <2> QED
    BY <2>2 DEF IInv, TypeOK, add_member, Leave
<1>2. (\A g \in Handlers : Checked(g))'
  BY DEF IInv, Checked, Busy, add_member, Leave
<1>3. (\A g \in Handlers : Fresh(g))'
  BY DEF IInv, Fresh, At, Busy, add_member, Leave
<1>4. TemplatesStay'
  BY DEF IInv, TemplatesStay, add_member
<1>5. RowsRefer'
  BY DEF IInv, RowsRefer, add_member
<1>6. RowsStay'
  BY DEF IInv, RowsStay, add_member
<1> QED
  BY <1>1, <1>2, <1>3, <1>4, <1>5, <1>6 DEF IInv

\* A handler may stop anywhere.
LEMMA FinishPreserves ==
  ASSUME IInv, NEW h \in Handlers, Finish(h)
  PROVE  IInv'
<1>1. TypeOK'
  BY DEF IInv, TypeOK, Finish, Leave
<1>2. (\A g \in Handlers : Checked(g))'
  BY DEF IInv, Checked, Busy, Finish, Leave
<1>3. (\A g \in Handlers : Fresh(g))'
  BY DEF IInv, Fresh, At, Busy, Finish, Leave
<1>4. TemplatesStay'
  BY DEF IInv, TemplatesStay, Finish
<1>5. RowsRefer'
  BY DEF IInv, RowsRefer, Finish
<1>6. RowsStay'
  BY DEF IInv, RowsStay, Finish
<1> QED
  BY <1>1, <1>2, <1>3, <1>4, <1>5, <1>6 DEF IInv

\* A new role has no built-in name.
LEMMA CreateRolePreserves ==
  ASSUME IInv, NEW t \in tenants, NEW n \in Names, create_role(t, n)
  PROVE  IInv'
<1>1. TypeOK'
  BY DEF IInv, TypeOK, Role, Assignment, create_role
<1>2. (\A g \in Handlers : Checked(g))'
  BY DEF IInv, Checked, Busy, create_role
<1>3. (\A g \in Handlers : Fresh(g))'
  BY DEF IInv, Fresh, At, Busy, create_role
<1>4. TemplatesStay'
  BY DEF IInv, TemplatesStay, create_role
<1>5. RowsRefer'
  BY DEF IInv, RowsRefer, create_role
<1>6. RowsStay'
  BY DEF IInv, RowsStay, create_role
<1> QED
  BY <1>1, <1>2, <1>3, <1>4, <1>5, <1>6 DEF IInv

\* A project stays in its tenant.
LEMMA CreateProjectPreserves ==
  ASSUME IInv, NEW t \in tenants, NEW p \in Projects, create_project(p, t)
  PROVE  IInv'
<1>1. TypeOK'
  BY DEF IInv, TypeOK, create_project
<1>2. (\A g \in Handlers : Checked(g))'
  BY NullIsNoTenant DEF IInv, Checked, Busy, TypeOK, create_project
<1>3. (\A g \in Handlers : Fresh(g))'
  BY DEF IInv, Fresh, At, Busy, create_project
<1>4. TemplatesStay'
  BY DEF IInv, TemplatesStay, create_project
<1>5. RowsRefer'
  BY NullIsNoTenant DEF IInv, RowsRefer, TypeOK, create_project
<1>6. RowsStay'
  BY DEF IInv, RowsStay, create_project
<1> QED
  BY <1>1, <1>2, <1>3, <1>4, <1>5, <1>6 DEF IInv

\* A tenant begins with an admin, whose role is the template.
LEMMA CreateTenantPreserves ==
  ASSUME IInv, NEW u \in Users, NEW t \in Tenants, create_tenant_with_admin(u, t)
  PROVE  IInv'
<1>1. TypeOK'
  BY TenancyAssumption DEF IInv, TypeOK, Role, Assignment, create_tenant_with_admin
<1>2. (\A g \in Handlers : Checked(g))'
  BY DEF IInv, Checked, Busy, create_tenant_with_admin
<1>3. (\A g \in Handlers : Fresh(g))'
  BY DEF IInv, Fresh, At, Busy, create_tenant_with_admin
<1>4. TemplatesStay'
  BY DEF IInv, TemplatesStay, create_tenant_with_admin
<1>5. RowsRefer'
  <2>1. <<"admin", NULL>> \in roles
    BY TenancyAssumption DEF IInv, TemplatesStay
  <2> QED
    BY <2>1 DEF IInv, RowsRefer, create_tenant_with_admin
<1>6. RowsStay'
  BY DEF IInv, RowsStay, create_tenant_with_admin
<1> QED
  BY <1>1, <1>2, <1>3, <1>4, <1>5, <1>6 DEF IInv

\* The assignments of a removed member still refer to a user.
LEMMA RemoveMemberPreserves ==
  ASSUME IInv, NEW u \in Users, NEW t \in Tenants, remove_member(u, t)
  PROVE  IInv'
<1>1. TypeOK'
  BY DEF IInv, TypeOK, remove_member
<1>2. (\A g \in Handlers : Checked(g))'
  BY DEF IInv, Checked, Busy, remove_member
<1>3. (\A g \in Handlers : Fresh(g))'
  BY DEF IInv, Fresh, At, Busy, remove_member
<1>4. TemplatesStay'
  BY DEF IInv, TemplatesStay, remove_member
<1>5. RowsRefer'
  BY DEF IInv, RowsRefer, remove_member
<1>6. RowsStay'
  BY DEF IInv, RowsStay, remove_member
<1> QED
  BY <1>1, <1>2, <1>3, <1>4, <1>5, <1>6 DEF IInv

\* A deleted user leaves no row, and is no new user again.
LEMMA DeleteUserPreserves ==
  ASSUME IInv, NEW u \in Users, delete_user(u)
  PROVE  IInv'
<1>1. TypeOK'
  BY DEF IInv, TypeOK, delete_user
<1>2. (\A g \in Handlers : Checked(g))'
  BY DEF IInv, Checked, Busy, delete_user
<1>3. (\A g \in Handlers : Fresh(g))'
  BY DEF IInv, Fresh, At, Busy, delete_user
<1>4. TemplatesStay'
  BY DEF IInv, TemplatesStay, delete_user
<1>5. RowsRefer'
  BY DEF IInv, RowsRefer, delete_user
<1>6. RowsStay'
  BY DEF IInv, RowsStay, delete_user
<1> QED
  BY <1>1, <1>2, <1>3, <1>4, <1>5, <1>6 DEF IInv

-----------------------------------------------------------------------------
(***************************************************************************)
(* The invariant holds, and with it the properties the run checks.         *)
(***************************************************************************)
\* At first there are the templates and the default tenant.
LEMMA InitEstablishes ==
  Init => IInv
<1> SUFFICES ASSUME Init PROVE IInv
  OBVIOUS
<1>1. TypeOK
  <2>1. roles \subseteq Role /\ role_permissions \subseteq roles \X Permissions
    BY TenancyAssumption DEF Init, Role
  <2> QED
    BY <2>1, TenancyAssumption DEF Init, TypeOK
<1>2. TemplatesStay
  BY DEF Init, TemplatesStay
<1>3. user_roles = {} /\ \A h \in Handlers : ~Busy(h)
  BY DEF Init, Busy
<1> QED
  BY <1>1, <1>2, <1>3 DEF IInv, Checked, Fresh, At, RowsRefer, RowsStay

\* Whatever a handler is asked, it has checked what it keeps.
LEMMA AskPreserves ==
  ASSUME IInv, NEW h \in Handlers, NEW t \in tenants, NEW name \in Names, Ask(h, t, name)
  PROVE  IInv'
<1> USE DEF tables
<1>1. users \cup deleted \subseteq Users
  BY DEF IInv, TypeOK
<1>2. ASSUME NEW p \in Projects \cup {NULL}, NEW us \in SUBSET (users \cup deleted),
             role_in_tenant(h, t, us, name, p)
      PROVE  IInv'
  BY <1>1, <1>2, StartPreserves DEF role_in_tenant
<1>3. ASSUME NEW p \in Projects \cup {NULL}, NEW u \in users \cup deleted,
             role_exists(h, t, u, name, p)
      PROVE  IInv'
  BY <1>1, <1>3, StartPreserves DEF role_exists
<1>4. ASSUME NEW op \in {"delete", "grant", "ungrant"}, NEW x \in Permissions \cup {NULL},
             op # "delete" => x \in Permissions,
             perm_role_guard(h, op, t, name, x)
      PROVE  IInv'
  BY <1>4, StartPreserves DEF perm_role_guard
<1> QED
  BY <1>2, <1>3, <1>4 DEF Ask

\* A user who is to be made is new, and no handler has him.
LEMMA AskForUserPreserves ==
  ASSUME IInv, NEW h \in Handlers, AskForUser(h)
  PROVE  IInv'
<1> USE DEF tables
<1>1. users \cup deleted \subseteq Users
  BY DEF IInv, TypeOK
<1>2. ASSUME NEW t \in tenants, NEW u \in users,
             Start(h, "member", "write", t, {u}, NULL, NULL, NULL), UNCHANGED tables
      PROVE  IInv'
  BY <1>1, <1>2, StartPreserves
<1>3. ASSUME NEW u \in Users \ (users \cup deleted), NEW name \in SignUpRoles,
             \A g \in Handlers : Busy(g) => u \notin handlers[g].users,
             Start(h, "signup", "write", DefaultTenant, {u}, name, NULL, NULL), UNCHANGED tables
      PROVE  IInv'
  BY <1>3, StartPreserves, TenancyAssumption DEF IInv, TemplatesStay
<1> QED
  BY <1>2, <1>3 DEF AskForUser

\* Each step of a handler, of a transaction of its own, and stuttering.
LEMMA StepPreserves ==
  IInv /\ [Next]_vars => IInv'
<1> SUFFICES ASSUME IInv, [Next]_vars PROVE IInv'
  OBVIOUS
<1>1. ASSUME NEW h \in Handlers, HandlerStep(h) PROVE IInv'
  BY <1>1, AskPreserves, AskForUserPreserves, DeleteRolePreserves, GrantPreserves,
     UngrantPreserves, ProjectPreserves, AssignPreserves, RevokePreserves,
     CreateUserPreserves, AddMemberPreserves, FinishPreserves DEF HandlerStep
<1>2. ASSUME NEW t \in Tenants, TenantStep(t) PROVE IInv'
  BY <1>2, CreateRolePreserves, CreateProjectPreserves, CreateTenantPreserves,
     RemoveMemberPreserves DEF TenantStep
<1>3. ASSUME NEW u \in Users, delete_user(u) PROVE IInv'
  BY <1>3, DeleteUserPreserves
<1>4. CASE UNCHANGED vars
  BY <1>4 DEF vars, IInv, TypeOK, Checked, Fresh, At, Busy, TemplatesStay, RowsRefer,
     RowsStay
<1> QED
  BY <1>1, <1>2, <1>3, <1>4 DEF Next

\* The inductive invariant holds always, however the handlers interleave.
THEOREM Invariance == Spec => []IInv
BY InitEstablishes, StepPreserves, PTL DEF Spec

\* The rows keep their types and refer to rows there are, and no deleted user is there.
THEOREM TypeCorrect == Spec => []TypeOK
BY Invariance, PTL DEF IInv

\* An assignment in a tenant is of a role of that tenant or of a template, and in a
\* project of that tenant, though roles come and go between the check and the INSERT;
\* but for the stray ones that a sign-up with a name that is not reserved makes.
THEOREM AssignmentsTheorem == Spec => []AssignmentsStayInTenant
<1>1. IInv => AssignmentsStayInTenant
  BY DEF IInv, RowsRefer, RowsStay, AssignmentsStayInTenant
<1> QED
  BY <1>1, Invariance, PTL

-----------------------------------------------------------------------------
(***************************************************************************)
(* Steps: what a handler does to others, and to other tenants.             *)
(***************************************************************************)
\* The step of a handler moves that handler, and no other.
LEMMA OthersStay ==
  ASSUME IInv, NEW g \in Handlers, NEW h \in Handlers \ {g}, HandlerStep(g)
  PROVE  handlers'[h] = handlers[h]
<1>1. ASSUME NEW t \in tenants, NEW name \in Names, Ask(g, t, name)
      PROVE  handlers'[h] = handlers[h]
  BY <1>1 DEF IInv, TypeOK, Ask, role_in_tenant, role_exists, perm_role_guard, Start
<1>2. CASE AskForUser(g)
  BY <1>2 DEF IInv, TypeOK, AskForUser, Start
<1>3. CASE delete_role(g) \/ grant_permission(g) \/ revoke_permission(g) \/ add_member(g)
             \/ Finish(g)
  BY <1>3 DEF IInv, TypeOK, delete_role, grant_permission, revoke_permission, add_member,
     Finish, Leave
<1>4. CASE is_project_in_tenant(g) \/ create_user_with_role(g) \/ revoke_role(g)
  BY <1>4 DEF IInv, TypeOK, is_project_in_tenant, create_user_with_role, revoke_role, Leave,
     Goto
<1>5. CASE assign_role(g)
  BY <1>5 DEF IInv, TypeOK, assign_role, Leave
<1> QED
  BY <1>1, <1>2, <1>3, <1>4, <1>5 DEF HandlerStep

\* Only revoke_role takes a handler to where it says that it has revoked.
LEMMA OnlyRevokeIsDone ==
  ASSUME IInv, Next, NEW h \in Handlers,
         At(h, {"revoke"}, "write"), At(h, {"revoke"}, "done")'
  PROVE  revoke_role(h)
<1>1. handlers'[h] # handlers[h] /\ handlers'[h] # NULL /\ handlers[h] # NULL
  BY DEF At, Busy
<1>2. ASSUME NEW t \in Tenants, TenantStep(t) PROVE FALSE
  BY <1>1, <1>2 DEF TenantStep, create_role, create_project, create_tenant_with_admin,
     remove_member
<1>3. ASSUME NEW u \in Users, delete_user(u) PROVE FALSE
  BY <1>1, <1>3 DEF delete_user
<1>4. HandlerStep(h)
  BY <1>1, <1>2, <1>3, OthersStay DEF Next
<1>5. ~AskForUser(h) /\ \A t, name : ~Ask(h, t, name)
  BY <1>1 DEF AskForUser, Ask, role_in_tenant, role_exists, perm_role_guard, Start, Busy
<1>6. handlers'[h] = NULL
        \/ ~(delete_role(h) \/ grant_permission(h) \/ revoke_permission(h) \/ add_member(h)
               \/ Finish(h))
  BY DEF IInv, TypeOK, delete_role, grant_permission, revoke_permission, add_member, Finish,
     Leave
<1>7. ~(is_project_in_tenant(h) \/ assign_role(h) \/ create_user_with_role(h))
  BY DEF is_project_in_tenant, assign_role, create_user_with_role, At
<1> QED
  BY <1>1, <1>4, <1>5, <1>6, <1>7 DEF HandlerStep

\* revoke_role that has succeeded leaves the user no role by that name in the tenant and
\* project, but a stray one that it cannot see.
THEOREM RevokedTheorem == Spec => RevokedIsGone
<1>1. ASSUME IInv, Next, NEW h \in Handlers,
             At(h, {"revoke"}, "write"), At(h, {"revoke"}, "done")',
             NEW r \in RolesNamed(handlers[h].name)
      PROVE  \A a \in RowsOf(h, r)' : Stray(a)
  <2> DEFINE found == Visible(handlers[h].name, handlers[h].tenant)
  <2>1. user_roles' = user_roles \ UNION {RowsOf(h, q) : q \in found}
        /\ handlers' = [handlers EXCEPT ![h].at = "done"]
    <3>1. revoke_role(h)
      BY <1>1, OnlyRevokeIsDone
    <3>2. handlers'[h] # NULL
      BY <1>1 DEF At, Busy
    <3> QED
      BY <1>1, <3>1, <3>2 DEF revoke_role, Leave, Goto, IInv, TypeOK
  <2>2. handlers'[h].users = handlers[h].users /\ handlers'[h].tenant = handlers[h].tenant
        /\ handlers'[h].project = handlers[h].project
    BY <1>1, <2>1 DEF IInv
  <2>3. RowsOf(h, r)' = RowsOf(h, r) \cap user_roles'
    BY <2>1, <2>2 DEF RowsOf
  <2>4. CASE r \in found
    BY <2>1, <2>3, <2>4
  <2>5. CASE r \notin found
    <3>1. r[2] \notin {handlers[h].tenant, NULL}
      BY <1>1, <2>5 DEF Visible
    <3>2. \A a \in user_roles : a.role[2] \in {a.tenant, NULL} \/ Stray(a)
      BY <1>1 DEF IInv, RowsStay
    <3> QED
      BY <2>3, <3>1, <3>2 DEF RowsOf
  <2> QED
    BY <2>4, <2>5
<1>2. IInv /\ [Next]_vars =>
        [\A h \in Handlers :
           At(h, {"revoke"}, "write") /\ At(h, {"revoke"}, "done")'
             => \A r \in RolesNamed(handlers[h].name) :
                  \A a \in RowsOf(h, r)' : Stray(a)]_vars
  BY <1>1
<1> QED
  BY <1>2, Invariance, PTL DEF Spec, RevokedIsGone

\* The affairs of a tenant are what four tables say of it.
LEMMA SameAffairs ==
  ASSUME NEW t \in Tenants, projects' = projects,
         \A u \in Users : <<u, t>> \in memberships' <=> <<u, t>> \in memberships,
         \A rp : rp[1][2] \in {t, NULL} => (rp \in role_permissions' <=> rp \in role_permissions),
         \A a : a.tenant = t /\ ~Stray(a) => (a \in user_roles' <=> a \in user_roles),
         \A a \in user_roles : a.tenant = t /\ ~Stray(a) =>
           \A x : <<a.role, x>> \in role_permissions' <=> <<a.role, x>> \in role_permissions
  PROVE  Affairs(t)' = Affairs(t)
<1>1. {u \in Users : <<u, t>> \in memberships'} = {u \in Users : <<u, t>> \in memberships}
  OBVIOUS
<1>2. {rp \in role_permissions' : rp[1][2] \in {t, NULL}}
        = {rp \in role_permissions : rp[1][2] \in {t, NULL}}
  OBVIOUS
<1>3. {ax \in user_roles' \X Permissions :
         ax[1].tenant = t /\ ~Stray(ax[1]) /\ <<ax[1].role, ax[2]>> \in role_permissions'}
        = {ax \in user_roles \X Permissions :
             ax[1].tenant = t /\ ~Stray(ax[1]) /\ <<ax[1].role, ax[2]>> \in role_permissions}
  OBVIOUS
<1> QED
  BY <1>1, <1>2, <1>3 DEF Affairs

\* A query that writes in one tenant leaves the affairs of the others alone: a role and
\* its assignments are of the same tenant, but for strays.
LEMMA AffairsOfOthersStay ==
  ASSUME IInv, NEW h \in Handlers, NEW t \in Tenants,
         handlers[h].tenant # t,
         \/ delete_role(h) \/ grant_permission(h) \/ revoke_permission(h)
         \/ assign_role(h) \/ revoke_role(h) \/ create_user_with_role(h) \/ add_member(h)
  PROVE  Affairs(t)' = Affairs(t)
<1>1. handlers[h].tenant # NULL /\ t # NULL
  BY NullIsNoTenant DEF IInv, TypeOK, Handler, delete_role, grant_permission,
     revoke_permission, assign_role, revoke_role, create_user_with_role, add_member, At,
     Busy
<1>2. \A a \in user_roles : a.role[2] \in {a.tenant, NULL} \/ Stray(a)
  BY DEF IInv, RowsStay
<1>3. CASE delete_role(h)
  <2>1. projects' = projects /\ \A u \in Users : <<u, t>> \in memberships' <=> <<u, t>> \in memberships
    BY <1>3 DEF delete_role, WithoutRole
  <2>2. \A rp : rp[1][2] \in {t, NULL} => (rp \in role_permissions' <=> rp \in role_permissions)
    BY <1>1, <1>3 DEF delete_role, WithoutRole
  <2>3. \A a : a.tenant = t /\ ~Stray(a) => (a \in user_roles' <=> a \in user_roles)
    BY <1>1, <1>2, <1>3 DEF delete_role, WithoutRole
  <2>4. \A a \in user_roles : a.tenant = t /\ ~Stray(a) =>
          \A x : <<a.role, x>> \in role_permissions' <=> <<a.role, x>> \in role_permissions
    BY <1>1, <1>2, <1>3 DEF delete_role, WithoutRole
  <2> QED
    BY <2>1, <2>2, <2>3, <2>4, SameAffairs
<1>4. CASE grant_permission(h)
  <2>1. projects' = projects /\ \A u \in Users : <<u, t>> \in memberships' <=> <<u, t>> \in memberships
    BY <1>4 DEF grant_permission
  <2>2. \A rp : rp[1][2] \in {t, NULL} => (rp \in role_permissions' <=> rp \in role_permissions)
    BY <1>1, <1>4 DEF grant_permission
  <2>3. \A a : a.tenant = t /\ ~Stray(a) => (a \in user_roles' <=> a \in user_roles)
    BY <1>1, <1>2, <1>4 DEF grant_permission
  <2>4. \A a \in user_roles : a.tenant = t /\ ~Stray(a) =>
          \A x : <<a.role, x>> \in role_permissions' <=> <<a.role, x>> \in role_permissions
    BY <1>1, <1>2, <1>4 DEF grant_permission
  <2> QED
    BY <2>1, <2>2, <2>3, <2>4, SameAffairs
<1>5. CASE revoke_permission(h)
  <2>1. projects' = projects /\ \A u \in Users : <<u, t>> \in memberships' <=> <<u, t>> \in memberships
    BY <1>5 DEF revoke_permission
  <2>2. \A rp : rp[1][2] \in {t, NULL} => (rp \in role_permissions' <=> rp \in role_permissions)
    BY <1>1, <1>5 DEF revoke_permission
  <2>3. \A a : a.tenant = t /\ ~Stray(a) => (a \in user_roles' <=> a \in user_roles)
    BY <1>1, <1>2, <1>5 DEF revoke_permission
  <2>4. \A a \in user_roles : a.tenant = t /\ ~Stray(a) =>
          \A x : <<a.role, x>> \in role_permissions' <=> <<a.role, x>> \in role_permissions
    BY <1>1, <1>2, <1>5 DEF revoke_permission
  <2> QED
    BY <2>1, <2>2, <2>3, <2>4, SameAffairs
<1>6. CASE assign_role(h)
  <2>1. projects' = projects /\ \A u \in Users : <<u, t>> \in memberships' <=> <<u, t>> \in memberships
    BY <1>6 DEF assign_role
  <2>2. \A rp : rp[1][2] \in {t, NULL} => (rp \in role_permissions' <=> rp \in role_permissions)
    BY <1>1, <1>6 DEF assign_role
  <2>3. \A a : a.tenant = t /\ ~Stray(a) => (a \in user_roles' <=> a \in user_roles)
    BY <1>1, <1>2, <1>6 DEF assign_role
  <2>4. \A a \in user_roles : a.tenant = t /\ ~Stray(a) =>
          \A x : <<a.role, x>> \in role_permissions' <=> <<a.role, x>> \in role_permissions
    BY <1>1, <1>2, <1>6 DEF assign_role
  <2> QED
    BY <2>1, <2>2, <2>3, <2>4, SameAffairs
<1>7. CASE revoke_role(h)
  <2>1. projects' = projects /\ \A u \in Users : <<u, t>> \in memberships' <=> <<u, t>> \in memberships
    BY <1>7 DEF revoke_role, RowsOf
  <2>2. \A rp : rp[1][2] \in {t, NULL} => (rp \in role_permissions' <=> rp \in role_permissions)
    BY <1>1, <1>7 DEF revoke_role, RowsOf
  <2>3. \A a : a.tenant = t /\ ~Stray(a) => (a \in user_roles' <=> a \in user_roles)
    BY <1>1, <1>2, <1>7 DEF revoke_role, RowsOf
  <2>4. \A a \in user_roles : a.tenant = t /\ ~Stray(a) =>
          \A x : <<a.role, x>> \in role_permissions' <=> <<a.role, x>> \in role_permissions
    BY <1>1, <1>2, <1>7 DEF revoke_role, RowsOf
  <2> QED
    BY <2>1, <2>2, <2>3, <2>4, SameAffairs
<1>8. CASE create_user_with_role(h)
  <2>1. projects' = projects /\ \A u \in Users : <<u, t>> \in memberships' <=> <<u, t>> \in memberships
    BY <1>8 DEF create_user_with_role
  <2>2. \A rp : rp[1][2] \in {t, NULL} => (rp \in role_permissions' <=> rp \in role_permissions)
    BY <1>1, <1>8 DEF create_user_with_role
  <2>5. handlers[h].tenant = DefaultTenant
    BY <1>8 DEF IInv, Checked, create_user_with_role, At
  <2>3. \A a : a.tenant = t /\ ~Stray(a) => (a \in user_roles' <=> a \in user_roles)
    BY <1>1, <1>2, <1>8, <2>5 DEF create_user_with_role
  <2>4. \A a \in user_roles : a.tenant = t /\ ~Stray(a) =>
          \A x : <<a.role, x>> \in role_permissions' <=> <<a.role, x>> \in role_permissions
    BY <1>1, <1>2, <1>8 DEF create_user_with_role
  <2> QED
    BY <2>1, <2>2, <2>3, <2>4, SameAffairs
<1>9. CASE add_member(h)
  <2>1. projects' = projects /\ \A u \in Users : <<u, t>> \in memberships' <=> <<u, t>> \in memberships
    BY <1>9 DEF add_member
  <2>2. \A rp : rp[1][2] \in {t, NULL} => (rp \in role_permissions' <=> rp \in role_permissions)
    BY <1>1, <1>9 DEF add_member
  <2>3. \A a : a.tenant = t /\ ~Stray(a) => (a \in user_roles' <=> a \in user_roles)
    BY <1>1, <1>2, <1>9 DEF add_member
  <2>4. \A a \in user_roles : a.tenant = t /\ ~Stray(a) =>
          \A x : <<a.role, x>> \in role_permissions' <=> <<a.role, x>> \in role_permissions
    BY <1>1, <1>2, <1>9 DEF add_member
  <2> QED
    BY <2>1, <2>2, <2>3, <2>4, SameAffairs
<1> QED
  BY <1>3, <1>4, <1>5, <1>6, <1>7, <1>8, <1>9

\* A query that writes, whether it succeeds or not, moves its handler.
LEMMA WritesMove ==
  ASSUME IInv, NEW h \in Handlers,
         \/ delete_role(h) \/ grant_permission(h) \/ revoke_permission(h)
         \/ assign_role(h) \/ revoke_role(h) \/ create_user_with_role(h) \/ add_member(h)
  PROVE  Busy(h) /\ handlers'[h] # handlers[h]
<1>1. Busy(h) /\ handlers[h] \in Handler
  BY DEF IInv, TypeOK, Busy, delete_role, grant_permission, revoke_permission, assign_role,
     revoke_role, create_user_with_role, add_member, At
<1>2. CASE delete_role(h) \/ grant_permission(h) \/ revoke_permission(h) \/ add_member(h)
  BY <1>1, <1>2 DEF IInv, TypeOK, Busy, delete_role, grant_permission, revoke_permission,
     add_member, Leave
<1>3. CASE revoke_role(h)
  BY <1>1, <1>3 DEF IInv, TypeOK, Busy, revoke_role, At, Leave, Goto, Handler
<1>4. CASE create_user_with_role(h)
  BY <1>1, <1>4 DEF IInv, TypeOK, create_user_with_role, At, Goto, Handler
<1>5. CASE assign_role(h)
  BY <1>1, <1>5 DEF IInv, TypeOK, Busy, assign_role, Leave, Handler
<1> QED
  BY <1>1, <1>2, <1>3, <1>4, <1>5

\* The other steps of a handler change no affairs at all.
LEMMA ChecksWriteNothing ==
  ASSUME NEW h \in Handlers, NEW t \in Tenants,
         \/ \E s \in tenants, name \in Names : Ask(h, s, name)
         \/ AskForUser(h) \/ is_project_in_tenant(h) \/ Finish(h)
  PROVE  Affairs(t)' = Affairs(t)
<1>1. UNCHANGED <<projects, memberships, role_permissions, user_roles>>
  BY DEF Ask, role_in_tenant, role_exists, perm_role_guard, AskForUser,
     is_project_in_tenant, Finish
<1> QED
  BY <1>1 DEF Affairs

\* A transaction of another tenant changes only its own affairs.
LEMMA TransactionsOfOthers ==
  ASSUME IInv, NEW s \in Tenants, NEW t \in Tenants \ {s}, TenantStep(s)
  PROVE  Affairs(t)' = Affairs(t)
<1>1. CASE \E name \in Names : create_role(s, name)
  BY <1>1 DEF Affairs, create_role
<1>2. ASSUME NEW p \in Projects, create_project(p, s) PROVE Affairs(t)' = Affairs(t)
  <2>1. \A q \in Projects : projects'[q] = t <=> projects[q] = t
    BY <1>2, NullIsNoTenant DEF IInv, create_project
  <2>2. {q \in Projects : projects'[q] = t} = {q \in Projects : projects[q] = t}
    BY <2>1
  <2> QED
    BY <1>2, <2>2 DEF Affairs, create_project
<1>3. ASSUME NEW u \in Users, create_tenant_with_admin(u, s) PROVE Affairs(t)' = Affairs(t)
  BY <1>3, SameAffairs DEF create_tenant_with_admin
<1>4. ASSUME NEW u \in Users, remove_member(u, s) PROVE Affairs(t)' = Affairs(t)
  BY <1>4, SameAffairs DEF remove_member
<1> QED
  BY <1>1, <1>2, <1>3, <1>4 DEF TenantStep

\* The affairs of a tenant change only by what is done in that tenant, or by the
\* deletion of a user.
THEOREM IsolationTheorem == Spec => TenantsAreIsolated
<1> DEFINE Caused(t) ==
      \/ \E h \in Handlers : Busy(h) /\ handlers[h].tenant = t /\ handlers'[h] # handlers[h]
      \/ TenantStep(t)
      \/ \E u \in users : delete_user(u)
<1>1. ASSUME IInv, Next, NEW t \in Tenants, Affairs(t)' # Affairs(t)
      PROVE  Caused(t)
  <2>1. ASSUME NEW h \in Handlers, HandlerStep(h) PROVE Caused(t)
    BY <1>1, <2>1, AffairsOfOthersStay, WritesMove, ChecksWriteNothing DEF HandlerStep
  <2>2. ASSUME NEW s \in Tenants, TenantStep(s) PROVE Caused(t)
    BY <1>1, <2>2, TransactionsOfOthers
  <2>3. ASSUME NEW u \in Users, delete_user(u) PROVE Caused(t)
    BY <2>3 DEF delete_user
  <2> QED
    BY <1>1, <2>1, <2>2, <2>3 DEF Next
<1>2. IInv /\ [Next]_vars => [Rows' # Rows =>
                             \A t \in Tenants : Affairs(t)' # Affairs(t) => Caused(t)]_vars
  BY <1>1
<1> QED
  BY <1>2, Invariance, PTL DEF Spec, TenantsAreIsolated

=============================================================================
