SPECIFICATION FairCallsSpec
CONSTANTS
  u1 = u1
  u2 = u2
  u3 = u3
  admin = admin
  auditor = auditor
  access = access
  assign = assign
  grant = grant
  revoke = revoke
  global = global
  team = team
  c1 = c1
  c2 = c2
  Users = {u1, u2}
  RoleNames = {admin, auditor}
  Permissions = {access, assign, grant, revoke}
  Scopes = {global, team}
  Global = global
  Grants <- AdminGrantsOnly
  AdminRole = admin
  AdminAccess = access
  AdminRoleNames = {admin}
  AdminPermissions = {access}
  RolePermissions <- MCRolePermissions
  RolesAssign = assign
  PermissionsGrant = grant
  PermissionsRevoke = revoke
  Callers = {c1, c2}
  NoCaller = NoCaller
  BoundedCallers = {c1}
  Ops <- MixedOps
PROPERTIES ImplementsGuarded CallsEnd
