CONSTANTS
  a1 = a1
  t1 = t1
  admin = admin
  custom = custom
  Tokens = {a1}
  TokenScope <- OneScope
  Tenants = {t1}
  Projects = {}
  ProjectTenant <- NoProjects
  Roles = {admin, custom}
  RoleTenant <- TwoRoles
  Permissions = {x}
  Requests = {r1, r2}
  LogoutTokens = {a1}
  PermsTTL = 1
  MaxTime = 1
  MaxFaults = 2
  NULL = NULL
SPECIFICATION Spec
SYMMETRY Symmetry
INVARIANTS LoggedOutRejected StaleAtMostTTL RoleRevocationEffective
