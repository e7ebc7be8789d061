CONSTANTS
  Users = {u1}
  Tenants = {t1}
  DefaultTenant = t1
  Projects = {}
  ProjectTenant <- NoProjects
  Tokens = {k1, k2, k3}
  Requests = {r1}
  Grace = 1
  RefreshTTL = 1
  MaxTime = 1
  NULL = NULL
SPECIFICATION Spec
SYMMETRY Symmetry
PROPERTY WipedTokenIsDead
