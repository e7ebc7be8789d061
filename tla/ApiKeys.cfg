CONSTANTS
  a1 = a1
  t1 = t1
  p1 = p1
  custom = custom
  Tokens = {a1}
  TokenScope <- ProjectScope
  Tenants = {t1}
  Projects = {p1}
  ProjectTenant <- OneProject
  Roles = {custom}
  RoleTenant <- OneRole
  Permissions = {x}
  Requests = {r1}
  LogoutTokens = {}
  PermsTTL = 1
  MaxTime = 0
  MaxFaults = 1
  Keys = {k1}
  Checks = {c1}
  Lifetimes = {0}
  NULL = NULL
SPECIFICATION KeysSpec
INVARIANTS CachedWasHeld ScopesWereHeld KeyNeverStale
