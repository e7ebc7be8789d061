CONSTANTS
  x = x
  Users = {u1, u2}
  Tenants = {t1, t2}
  DefaultTenant = t1
  Projects = {p1}
  Names = {"admin", "viewer"}
  BuiltIn = {"admin"}
  Templates <- TwoTemplates
  SignUpRoles = {"admin", "viewer"}
  Permissions = {x}
  Handlers = {h1, h2}
  MaxRows = 2
  NULL = NULL
SPECIFICATION Spec
SYMMETRY Symmetry
VIEW View
CONSTRAINT Small
INVARIANTS TypeOK AssignmentsStayInTenant
PROPERTIES TenantsAreIsolated RevokedIsGone
