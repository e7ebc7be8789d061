CONSTANTS
  Users = {u1}
  t1 = t1
  t2 = t2
  p1 = p1
  Tenants = {t1, t2}
  DefaultTenant = t1
  Projects = {p1}
  ProjectTenant <- OneProject
  Tokens = {k1, k2}
  Requests = {r1, x1, x2}
  Grace = 1
  RefreshTTL = 0
  MaxTime = 0
  Clients = {c1}
  Codes = {a1}
  Exchanges = {x1, x2}
  CodeTTL = 0
  Registrations <- OneTenant
  NULL = NULL
SPECIFICATION OAuthSpec
SYMMETRY Symmetry
INVARIANTS LineageKeepsScope ScopeSound CodeBindsSession
PROPERTIES ImplementsSessions CodesAreOneTime
