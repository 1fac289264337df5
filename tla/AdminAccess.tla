---------------------------- MODULE AdminAccess ----------------------------
(***************************************************************************)
(* Who is an administrator, and who may do what.                           *)
(*                                                                         *)
(* The rules the stores are read through: which grants confer access       *)
(* (last_admin.py, AdminAccessPredicate), which grants authorise a call    *)
(* (manager.py, _has_permission and _grant_allows), and the                *)
(* last-administrator condition that disabling, deleting and revoking have *)
(* to respect.                                                             *)
(*                                                                         *)
(* A grant names exactly one role or one permission at one scope, so it is *)
(* a record whose name is a role name or a permission.  The role store is  *)
(* never written after construction: it is the constant RolePermissions.   *)
(***************************************************************************)
EXTENDS AccountLifecycle

CONSTANTS
  Users,            \* user identifiers
  RoleNames,        \* names a role grant may carry, stored or not
  Permissions,      \* permission names
  Scopes,           \* grant scopes
  Global,           \* the global scope
  Grants,           \* the grants the hosts of a model give and revoke
  AdminRole,        \* ADMIN_ROLE_NAME, "admin"
  AdminAccess,      \* ADMIN_ACCESS_PERMISSION, "admin.access"
  AdminRoleNames,   \* AdminAccessPredicate.role_names
  AdminPermissions, \* AdminAccessPredicate.permissions
  RolePermissions   \* the role store: stored role name -> its permissions

ASSUME NamesAssumption ==
  /\ Global \in Scopes
  /\ RoleNames \cap Permissions = {}
  /\ AdminRole \in RoleNames
  /\ AdminAccess \in Permissions
  /\ AdminRoleNames \subseteq RoleNames
  /\ AdminPermissions \subseteq Permissions

ASSUME GrantsAssumption ==
  Grants \subseteq [user : Users, name : RoleNames \cup Permissions, scope : Scopes]

ASSUME RoleStoreAssumption ==
  /\ DOMAIN RolePermissions \subseteq RoleNames
  /\ \A r \in DOMAIN RolePermissions : RolePermissions[r] \subseteq Permissions

----------------------------------------------------------------------------
(* Grants *)

GrantsOf(gr, u) == {g \in gr : g.user = u}

StoredPermissions(r) == IF r \in DOMAIN RolePermissions THEN RolePermissions[r] ELSE {}

ScopeAllows(granted, requested) == granted = Global \/ granted = requested

\* One grant confers global administrative access.
GrantQualifies(g) ==
  /\ g.scope = Global
  /\ \/ g.name \in AdminPermissions
     \/ g.name \in AdminRoleNames
     \/ StoredPermissions(g.name) \cap AdminPermissions # {}

GrantsQualify(gr) == \E g \in gr : GrantQualifies(g)

\* The users count_active_administrators counts.
ActiveAdmins(st, gr) ==
  {u \in Users : st[u] = "active" /\ GrantsQualify(GrantsOf(gr, u))}

----------------------------------------------------------------------------
(* Authorisation *)

GrantAllows(g, p) ==
  \/ g.name \in {p, AdminAccess}
  \/ g.name = AdminRole
  \/ StoredPermissions(g.name) \cap {p, AdminAccess} # {}

\* The account status of the actor is not consulted: only its grants are.
HasPermission(gr, actor, p, scope) ==
  \E g \in GrantsOf(gr, actor) : ScopeAllows(g.scope, scope) /\ GrantAllows(g, p)

\* The permission a UserManager call needs: roles.assign for a role, and for a
\* direct permission permissions.grant or permissions.revoke.
PermissionNeeded(g, forRole, forPermission) ==
  IF g.name \in RoleNames THEN forRole ELSE forPermission

----------------------------------------------------------------------------
(* The last-administrator condition *)

\* ensure_account_deactivation_allowed: u may leave "active".
DeactivationAllowed(st, gr, u) ==
  (st[u] = "active" /\ GrantsQualify(GrantsOf(gr, u)))
    => ActiveAdmins(st, gr) \ {u} # {}

\* ensure_admin_revoke_allowed: g may be removed from gr.
RevokeAllowed(st, gr, g) ==
  (GrantQualifies(g) /\ ~GrantsQualify(GrantsOf(gr \ {g}, g.user)))
    => ActiveAdmins(st, gr \ {g}) # {}
=============================================================================
