------------------------------ MODULE Tenancy ------------------------------
(***************************************************************************)
(* The administration of tenants, projects, members, roles, permissions    *)
(* and assignments.  The handlers check first and write later, each query  *)
(* in a transaction of its own; what they write is confined to a tenant by *)
(* the WHERE of the query and by the row-level security of tenant_tx.      *)
(*                                                                         *)
(* A caller acts in the tenant of his token, which the gateway passes on;  *)
(* whether he has the permission to is the matter of module Access.  Of    *)
(* the permission cache, the outbox and the audit log nothing is said      *)
(* here.  A role is known by its name and its tenant, which are unique;    *)
(* a role made again has a new id, but no row is left to tell.             *)
(***************************************************************************)
EXTENDS Naturals, FiniteSets

CONSTANTS
  Users,          \* users.id, never used again
  Tenants,        \* tenants.id
  DefaultTenant,  \* the tenant that new users are enrolled in
  Projects,       \* projects.id
  Names,          \* roles.name
  BuiltIn,        \* the names that is_builtin_role knows
  Templates,      \* the permissions of the templates, by name
  SignUpRoles,    \* the roles that users are created with
  Permissions,    \* permissions.name
  Handlers,       \* slots for concurrently running handlers
  MaxRows,        \* bound: the rows of user_roles
  NULL

ASSUME TenancyAssumption ==
  /\ DefaultTenant \in Tenants
  /\ DOMAIN Templates \subseteq Names
  /\ \A n \in DOMAIN Templates : Templates[n] \subseteq Permissions
  /\ BuiltIn \cup SignUpRoles \subseteq DOMAIN Templates
  /\ "admin" \in BuiltIn

ASSUME NullIsNoTenant == NULL \notin Tenants \cup Projects

Role == Names \X (Tenants \cup {NULL})

Assignment ==
  [user: Users, role: Role, tenant: Tenants, project: Projects \cup {NULL}]

VARIABLES
  users,             \* the users there are
  deleted,           \* the users there were
  tenants,           \* the tenants there are
  projects,          \* projects[p]: the tenant of the project, or NULL
  memberships,       \* who is a member of what
  roles,             \* the roles there are; with tenant NULL the templates
  role_permissions,  \* as <<role, permission>>
  user_roles,        \* the assignments
  handlers           \* what each running handler was asked, and where it is

vars == <<users, deleted, tenants, projects, memberships, roles, role_permissions,
          user_roles, handlers>>

(***************************************************************************)
(* A handler begins with its first query, which checks what it was asked;  *)
(* it may have to check the "project", and then it "write"s.  One that     *)
(* makes a user "enroll"s him once he is there, and one that has revoked a *)
(* role is "done", and will say so.                                        *)
(***************************************************************************)
Handler ==
  [op: {"assign", "revoke", "delete", "grant", "ungrant", "member", "signup"},
   at: {"project", "write", "enroll", "done"},
   tenant: Tenants, users: SUBSET Users, name: Names \cup {NULL},
   project: Projects \cup {NULL}, permission: Permissions \cup {NULL}]

Busy(h) == handlers[h] # NULL

\* Handler h is to run op, and is at its first query.
Start(h, op, at, tenant, us, name, project, permission) ==
  /\ ~Busy(h)
  /\ handlers' = [handlers EXCEPT ![h] =
       [op |-> op, at |-> at, tenant |-> tenant, users |-> us, name |-> name,
        project |-> project, permission |-> permission]]

Goto(h, at) == handlers' = [handlers EXCEPT ![h].at = at]

Leave(h) == handlers' = [handlers EXCEPT ![h] = NULL]

At(h, ops, at) == Busy(h) /\ handlers[h].op \in ops /\ handlers[h].at = at

Init ==
  /\ users = {}
  /\ deleted = {}
  /\ tenants = {DefaultTenant}
  /\ projects = [p \in Projects |-> NULL]
  /\ memberships = {}
  /\ roles = (DOMAIN Templates) \X {NULL}
  /\ role_permissions = UNION {{<<n, NULL>>} \X Templates[n] : n \in DOMAIN Templates}
  /\ user_roles = {}
  /\ handlers = [h \in Handlers |-> NULL]

-----------------------------------------------------------------------------
(***************************************************************************)
(* Roles.                                                                  *)
(***************************************************************************)
RolesNamed(name) == {r \in roles : r[1] = name}

\* What row-level security lets a tenant see: its own roles and the templates.
Visible(name, t) == {r \in RolesNamed(name) : r[2] \in {t, NULL}}

\* ORDER BY r.tenant_id NULLS LAST LIMIT 1.
OwnFirst(rs) == {r \in rs : r[2] # NULL \/ \A q \in rs : q[2] = NULL}

\* Mutant: the permissions stay, as without ON DELETE CASCADE.
DropRoleOnly(r) ==
  /\ roles' = roles \ {r}
  /\ UNCHANGED role_permissions
  /\ user_roles' = {a \in user_roles : a.role # r}

\* The foreign keys cascade from a role to its permissions and assignments.
WithoutRole(r) ==
  /\ roles' = roles \ {r}
  /\ role_permissions' = {rp \in role_permissions : rp[1] # r}
  /\ user_roles' = {a \in user_roles : a.role # r}

create_role(t, name) ==
  /\ name \notin BuiltIn
  /\ <<name, t>> \notin roles
  /\ roles' = roles \cup {<<name, t>>}
  /\ UNCHANGED <<users, deleted, tenants, projects, memberships, role_permissions,
                 user_roles, handlers>>

\* The guard of the handlers that change a role of the tenant.
perm_role_guard(h, op, t, name, permission) ==
  /\ name \notin BuiltIn
  /\ <<name, t>> \in roles
  /\ Start(h, op, "write", t, {}, name, NULL, permission)
  /\ UNCHANGED <<users, deleted, tenants, projects, memberships, roles,
                 role_permissions, user_roles>>

delete_role(h) ==
  /\ At(h, {"delete"}, "write")
  /\ WithoutRole(<<handlers[h].name, handlers[h].tenant>>)
  /\ Leave(h)
  /\ UNCHANGED <<users, deleted, tenants, projects, memberships>>

\* Mutant: the role is any that the tenant can see.
GrantVisible(h) ==
  /\ At(h, {"grant"}, "write")
  /\ role_permissions' = role_permissions \cup
       (Visible(handlers[h].name, handlers[h].tenant) \X {handlers[h].permission})
  /\ Leave(h)
  /\ UNCHANGED <<users, deleted, tenants, projects, memberships, roles, user_roles>>

grant_permission(h) ==
  /\ At(h, {"grant"}, "write")
  /\ role_permissions' = role_permissions \cup
       ((roles \cap {<<handlers[h].name, handlers[h].tenant>>}) \X {handlers[h].permission})
  /\ Leave(h)
  /\ UNCHANGED <<users, deleted, tenants, projects, memberships, roles, user_roles>>

revoke_permission(h) ==
  /\ At(h, {"ungrant"}, "write")
  /\ role_permissions' = role_permissions \
       {<<<<handlers[h].name, handlers[h].tenant>>, handlers[h].permission>>}
  /\ Leave(h)
  /\ UNCHANGED <<users, deleted, tenants, projects, memberships, roles, user_roles>>

-----------------------------------------------------------------------------
(***************************************************************************)
(* Assignments.                                                            *)
(***************************************************************************)
role_in_tenant(h, t, us, name, p) ==
  /\ Visible(name, t) # {}
  /\ Start(h, "assign", IF p = NULL THEN "write" ELSE "project", t, us, name, p, NULL)
  /\ UNCHANGED <<users, deleted, tenants, projects, memberships, roles,
                 role_permissions, user_roles>>

\* Mutant: the project is one of any tenant.
IsProject(h) ==
  /\ At(h, {"assign"}, "project")
  /\ IF projects[handlers[h].project] # NULL THEN Goto(h, "write") ELSE Leave(h)
  /\ UNCHANGED <<users, deleted, tenants, projects, memberships, roles,
                 role_permissions, user_roles>>

is_project_in_tenant(h) ==
  /\ At(h, {"assign"}, "project")
  /\ IF projects[handlers[h].project] = handlers[h].tenant THEN Goto(h, "write") ELSE Leave(h)
  /\ UNCHANGED <<users, deleted, tenants, projects, memberships, roles,
                 role_permissions, user_roles>>

\* The user asked next is assigned the role, if there still is one by that name; if
\* he is not there himself the foreign key objects, and the bulk handler goes on.
assign_role(h) ==
  /\ At(h, {"assign"}, "write")
  /\ \E u \in handlers[h].users :
       /\ user_roles' = user_roles \cup
            {[user |-> u, role |-> r, tenant |-> handlers[h].tenant,
              project |-> handlers[h].project] :
               r \in IF u \in users
                       THEN OwnFirst(Visible(handlers[h].name, handlers[h].tenant))
                       ELSE {}}
       /\ Cardinality(user_roles') <= MaxRows
       /\ IF handlers[h].users = {u} THEN Leave(h)
            ELSE handlers' = [handlers EXCEPT ![h].users = @ \ {u}]
  /\ UNCHANGED <<users, deleted, tenants, projects, memberships, roles, role_permissions>>

\* Any tenant's role will do.
role_exists(h, t, u, name, p) ==
  /\ RolesNamed(name) # {}
  /\ Start(h, "revoke", "write", t, {u}, name, p, NULL)
  /\ UNCHANGED <<users, deleted, tenants, projects, memberships, roles,
                 role_permissions, user_roles>>

RowsOf(h, role) ==
  {a \in user_roles : /\ a.user \in handlers[h].users
                      /\ a.role = role
                      /\ a.tenant = handlers[h].tenant
                      /\ a.project = handlers[h].project}

\* Mutant: the tenant's own role comes first, as in assign_role.
RevokeOwnFirst(h) ==
  /\ At(h, {"revoke"}, "write")
  /\ user_roles' = user_roles \ UNION {RowsOf(h, r) :
                     r \in OwnFirst(Visible(handlers[h].name, handlers[h].tenant))}
  /\ Goto(h, "done")
  /\ UNCHANGED <<users, deleted, tenants, projects, memberships, roles, role_permissions>>

\* A subquery of two rows is an error.
revoke_role(h) ==
  LET found == Visible(handlers[h].name, handlers[h].tenant)
  IN  /\ At(h, {"revoke"}, "write")
      /\ IF Cardinality(found) > 1
           THEN Leave(h) /\ UNCHANGED user_roles
           ELSE /\ user_roles' = user_roles \ UNION {RowsOf(h, r) : r \in found}
                /\ Goto(h, "done")
      /\ UNCHANGED <<users, deleted, tenants, projects, memberships, roles, role_permissions>>

-----------------------------------------------------------------------------
(***************************************************************************)
(* Users, members, tenants and projects.                                   *)
(***************************************************************************)
\* register and the bootstraps: the user and his role, whatever role has the name.
create_user_with_role(h) ==
  /\ At(h, {"signup"}, "write")
  /\ users' = users \cup handlers[h].users
  /\ user_roles' = user_roles \cup
       [user: handlers[h].users, role: RolesNamed(handlers[h].name),
        tenant: {DefaultTenant}, project: {NULL}]
  /\ Cardinality(user_roles') <= MaxRows
  /\ Goto(h, "enroll")
  /\ UNCHANGED <<deleted, tenants, projects, memberships, roles, role_permissions>>

\* add_member and create_membership; the foreign key objects to a user deleted before.
add_member(h) ==
  /\ At(h, {"member"}, "write") \/ At(h, {"signup"}, "enroll")
  /\ memberships' = memberships \cup ((handlers[h].users \cap users) \X {handlers[h].tenant})
  /\ Leave(h)
  /\ UNCHANGED <<users, deleted, tenants, projects, roles, role_permissions, user_roles>>

\* The assignments stay.
remove_member(u, t) ==
  /\ <<u, t>> \in memberships
  /\ memberships' = memberships \ {<<u, t>>}
  /\ UNCHANGED <<users, deleted, tenants, projects, roles, role_permissions, user_roles,
                 handlers>>

\* One transaction makes the tenant, its first member and his role.
create_tenant_with_admin(u, t) ==
  /\ u \in users
  /\ t \notin tenants
  /\ Cardinality(user_roles) < MaxRows
  /\ tenants' = tenants \cup {t}
  /\ memberships' = memberships \cup {<<u, t>>}
  /\ user_roles' = user_roles \cup
       {[user |-> u, role |-> <<"admin", NULL>>, tenant |-> t, project |-> NULL]}
  /\ UNCHANGED <<users, deleted, projects, roles, role_permissions, handlers>>

create_project(p, t) ==
  /\ projects[p] = NULL
  /\ projects' = [projects EXCEPT ![p] = t]
  /\ UNCHANGED <<users, deleted, tenants, memberships, roles, role_permissions, user_roles,
                 handlers>>

\* A hard delete.
delete_user(u) ==
  /\ u \in users
  /\ users' = users \ {u}
  /\ deleted' = deleted \cup {u}
  /\ memberships' = {m \in memberships : m[1] # u}
  /\ user_roles' = {a \in user_roles : a.user # u}
  /\ UNCHANGED <<tenants, projects, roles, role_permissions, handlers>>

\* The handler answers; or a query fails, or the request is dropped, at any point.
Finish(h) ==
  /\ Busy(h)
  /\ Leave(h)
  /\ UNCHANGED <<users, deleted, tenants, projects, memberships, roles, role_permissions,
                 user_roles>>

-----------------------------------------------------------------------------
\* Somebody is there to call in tenant t: a member, or a user who was deleted after
\* the gateway had validated his token.
HasCaller(t) == \E u \in Users : <<u, t>> \in memberships \/ u \in deleted

\* A handler is asked, by a caller in tenant t, about users there are or were.
Ask(h, t, name) ==
  \/ \E p \in Projects \cup {NULL} :
       \/ \E us \in (SUBSET (users \cup deleted)) \ {{}} : role_in_tenant(h, t, us, name, p)
       \/ \E u \in users \cup deleted : role_exists(h, t, u, name, p)
  \/ perm_role_guard(h, "delete", t, name, NULL)
  \/ \E op \in {"grant", "ungrant"}, x \in Permissions : perm_role_guard(h, op, t, name, x)

\* A user is looked up by his e-mail address, or is to be made.
AskForUser(h) ==
  /\ \/ \E t \in tenants, u \in users : HasCaller(t) /\ Start(h, "member", "write", t, {u}, NULL, NULL, NULL)
     \/ \E u \in Users \ (users \cup deleted), name \in SignUpRoles :
          /\ \A g \in Handlers : Busy(g) => u \notin handlers[g].users
          /\ Start(h, "signup", "write", DefaultTenant, {u}, name, NULL, NULL)
  /\ UNCHANGED <<users, deleted, tenants, projects, memberships, roles, role_permissions,
                 user_roles>>

HandlerStep(h) ==
  \/ \E t \in tenants, name \in Names : HasCaller(t) /\ Ask(h, t, name)
  \/ AskForUser(h)
  \/ delete_role(h) \/ grant_permission(h) \/ revoke_permission(h)
  \/ is_project_in_tenant(h) \/ assign_role(h) \/ revoke_role(h)
  \/ create_user_with_role(h) \/ add_member(h)
  \/ Finish(h)

\* The handlers of a single transaction.
TenantStep(t) ==
  \/ t \in tenants /\ HasCaller(t) /\ \E name \in Names : create_role(t, name)
  \/ t \in tenants /\ HasCaller(t) /\ \E p \in Projects : create_project(p, t)
  \/ \E u \in Users : create_tenant_with_admin(u, t) \/ remove_member(u, t)

Next ==
  \/ \E h \in Handlers : HandlerStep(h)
  \/ \E t \in Tenants : TenantStep(t)
  \/ \E u \in Users : delete_user(u)

Spec == Init /\ [][Next]_vars

-----------------------------------------------------------------------------
(***************************************************************************)
(* Properties.                                                             *)
(***************************************************************************)
TypeOK ==
  /\ users \subseteq Users
  /\ deleted \subseteq Users \ users
  /\ tenants \subseteq Tenants
  /\ projects \in [Projects -> tenants \cup {NULL}]
  /\ memberships \subseteq users \X tenants
  /\ roles \subseteq Role
  /\ role_permissions \subseteq roles \X Permissions
  /\ user_roles \subseteq Assignment
  /\ handlers \in [Handlers -> Handler \cup {NULL}]

(***************************************************************************)
(* The exception that create_user_with_role makes, which looks for a role  *)
(* by its name in all tenants: a user who signs up with a name that is not *)
(* reserved, as the demo account does with "viewer", is given in the       *)
(* default tenant whatever role of that name another tenant has.           *)
(***************************************************************************)
Stray(a) ==
  /\ a.role[2] \notin {a.tenant, NULL}
  /\ a.role[1] \in SignUpRoles \ BuiltIn
  /\ a.tenant = DefaultTenant
  /\ a.project = NULL

(***************************************************************************)
(* An assignment in a tenant is of a role of that tenant or of a template, *)
(* and in a project of that tenant: "never another tenant's role" (the     *)
(* comment of assign_role), but for what a sign-up makes.  The role may be *)
(* deleted, made again and shadow a template between validate_assign and   *)
(* the INSERT.                                                             *)
(***************************************************************************)
AssignmentsStayInTenant ==
  \A a \in user_roles :
    /\ a.user \in users /\ a.tenant \in tenants
    /\ a.role \in roles
    /\ a.role[2] \in {a.tenant, NULL} \/ Stray(a)
    /\ a.project # NULL => projects[a.project] = a.tenant

\* The rows that the affairs of tenants are made of.
Rows == <<projects, memberships, role_permissions, user_roles>>

(***************************************************************************)
(* What counts in a tenant: its projects, its members, the roles it sees   *)
(* with what they permit, and its assignments with what they permit.  What *)
(* a stray assignment permits is the affair of the tenant of its role.     *)
(***************************************************************************)
Affairs(t) ==
  [projects    |-> {p \in Projects : projects[p] = t},
   members     |-> {u \in Users : <<u, t>> \in memberships},
   permissions |-> {rp \in role_permissions : rp[1][2] \in {t, NULL}},
   held        |-> {ax \in user_roles \X Permissions :
                      /\ ax[1].tenant = t /\ ~Stray(ax[1])
                      /\ <<ax[1].role, ax[2]>> \in role_permissions}]

(***************************************************************************)
(* The affairs of a tenant, and with them the templates that all share,    *)
(* change only by what is done in that tenant: by a handler acting in it   *)
(* or a transaction of its own.  A grant to a role that is also a          *)
(* template's name, the cascade from a deleted role, an assignment checked *)
(* before and written after such a change reach no other.  Only the        *)
(* deletion of a user reaches into all his tenants.                        *)
(***************************************************************************)
TenantsAreIsolated ==
  [][Rows' # Rows => \A t \in Tenants : Affairs(t)' # Affairs(t) =>
       \/ \E h \in Handlers : Busy(h) /\ handlers[h].tenant = t /\ handlers'[h] # handlers[h]
       \/ TenantStep(t)
       \/ \E u \in users : delete_user(u)]_vars

(***************************************************************************)
(* When revoke_role has succeeded, the user has in that tenant and project *)
(* no role by that name, whichever of the roles that share the name it was *)
(* (the query picks the role by its name alone), unless it is a stray one, *)
(* which row-level security hides from the query.                          *)
(***************************************************************************)
RevokedIsGone ==
  [][\A h \in Handlers :
       At(h, {"revoke"}, "write") /\ At(h, {"revoke"}, "done")'
         => \A r \in RolesNamed(handlers[h].name) : \A a \in RowsOf(h, r)' : Stray(a)]_vars

(***************************************************************************)
(* The demo account is to look around "without being able to change        *)
(* anything": it is "Assigned the built-in "viewer" role" (main.rs).  What *)
(* a user signs up with permits no more than the template of that name.    *)
(***************************************************************************)
SignUpGivesTemplate ==
  [][\A h \in Handlers :
       At(h, {"signup"}, "write") /\ At(h, {"signup"}, "enroll")'
         => \A a \in user_roles' \ user_roles, x \in Permissions :
              <<a.role, x>> \in role_permissions => x \in Templates[handlers[h].name]]_vars
=============================================================================
