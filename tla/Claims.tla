------------------------------- MODULE Claims -------------------------------
(***************************************************************************)
(* What a session knows of its user's grants, and what requests make of it *)
(* (claims.py, sessions.py, adapters/fastapi.py, adapters/                 *)
(* local_identity.py).  A principal is projected at a login for one scope; *)
(* a request is authorised by it, and where the host has a projector by    *)
(* the grants of the moment as well.  The rules are written a second time  *)
(* here, as they are in the code; manager.py and last_admin.py are in      *)
(* AdminAccess.                                                            *)
(***************************************************************************)
EXTENDS AccountCalls

\* The predicate that a host has not changed.
DefaultPredicate == AdminRoleNames = {AdminRole} /\ AdminPermissions = {AdminAccess}

----------------------------------------------------------------------------
(* The projection of grants gr for user u at scope s *)

Allowing(gr, u, s) == {g \in GrantsOf(gr, u) : ScopeAllows(g.scope, s)}

ProjectedRoles(gr, u, s) == {g.name : g \in Allowing(gr, u, s)} \cap RoleNames

ProjectedPermissions(gr, u, s) ==
  ({g.name : g \in Allowing(gr, u, s)} \cap Permissions)
    \cup UNION {StoredPermissions(r) : r \in ProjectedRoles(gr, u, s)}

\* Mutant: a direct grant of admin.access allows nothing else.
ClaimGrantAllows_NamedOnly(g, p) ==
  IF g.name \in Permissions
  THEN g.name = p
  ELSE g.name = AdminRole \/ {p, AdminAccess} \cap StoredPermissions(g.name) # {}

\* _grant_allows of claims.py: the administrator's role allows everything, stored
\* or not.
ClaimGrantAllows(g, p) ==
  IF g.name \in Permissions
  THEN g.name \in {p, AdminAccess}
  ELSE g.name = AdminRole \/ {p, AdminAccess} \cap StoredPermissions(g.name) # {}

\* GrantClaimsContext.has_permission, with a scope and without.
AllowedAt(gr, u, p, s) ==
  \E g \in GrantsOf(gr, u) : ScopeAllows(g.scope, s) /\ ClaimGrantAllows(g, p)

Allowed(gr, u, p, s) ==
  p \in ProjectedPermissions(gr, u, s) \/ AllowedAt(gr, u, AdminAccess, s)

\* GrantClaimsContext.has_role.
HasRoleAt(gr, u, r, s) == \E g \in GrantsOf(gr, u) : g.name = r /\ ScopeAllows(g.scope, s)

\* GrantClaimsProjector.project, as a SessionPrincipal.
Principal(gr, u, s) ==
  [user |-> u,
   roles |-> ProjectedRoles(gr, u, s),
   permissions |-> ProjectedPermissions(gr, u, s),
   isAdmin |-> Allowed(gr, u, AdminAccess, s)]

\* _principal_for: every grant counts, whatever its scope.
LocalPrincipal(gr, u) ==
  LET names == {g.name : g \in GrantsOf(gr, u)} IN
  [user |-> u,
   roles |-> names \cap RoleNames,
   permissions |-> names \cap Permissions,
   isAdmin |-> AdminRole \in names]

----------------------------------------------------------------------------
(* Requests: principal pr, grants gr of the moment, scope s asked for *)

\* require_permission without a projector.
HasClaim(pr, p) == p \in pr.permissions \/ AdminAccess \in pr.permissions \/ pr.isAdmin

\* Mutant: the is_admin claim of the fresh projection is not looked at.
RequestAllows_NoAdminClaim(pr, gr, p, s) ==
  HasClaim(pr, p) \/ p \in ProjectedPermissions(gr, pr.user, s)

\* require_permission with a projector.
RequestAllows(pr, gr, p, s) ==
  \/ HasClaim(pr, p)
  \/ p \in ProjectedPermissions(gr, pr.user, s)
  \/ Principal(gr, pr.user, s).isAdmin

\* require_role with a projector, which takes no scope.
RequestHasRole(pr, gr, r) ==
  r \in pr.roles \/ r \in Principal(gr, pr.user, Global).roles

\* require_owner_or_admin.
OwnerOrAdmin(pr, owner) == pr.user = owner \/ AdminRole \in pr.roles \/ pr.isAdmin

----------------------------------------------------------------------------
(* Properties *)

\* The projected claims allow what UserManager allows, at every scope; and who may
\* act for another user by a global projection is an administrator as the
\* last-administrator rules count them.
ClaimsAgreeFor(gr) ==
  \A u \in Users :
    /\ \A p \in Permissions, s \in Scopes :
         /\ AllowedAt(gr, u, p, s) <=> HasPermission(gr, u, p, s)
         /\ Allowed(gr, u, p, s) <=> HasPermission(gr, u, p, s)
    /\ \A owner \in Users \ {u} :
         OwnerOrAdmin(Principal(gr, u, Global), owner) <=> GrantsQualify(GrantsOf(gr, u))

ClaimsAgree == ClaimsAgreeFor(grants)

\* What a request may is what its user might at the login, at the scope of the
\* projection and whatever scope the request asks for, or may now at the scope it
\* asks for: one who had nothing and has nothing is refused.  A role is one given at
\* the scope of the projection, or now for the whole system.  A principal of the
\* packaged UI may what some grant of its user's allowed at some scope.
RequestsMeanFor(before, now) ==
  \A u \in Users, p \in Permissions, s \in Scopes :
    /\ \A s0 \in Scopes :
         RequestAllows(Principal(before, u, s0), now, p, s) <=>
           HasPermission(before, u, p, s0) \/ HasPermission(now, u, p, s)
    /\ RequestAllows(LocalPrincipal(before, u), now, p, s) =>
         (\E s0 \in Scopes : HasPermission(before, u, p, s0)) \/ HasPermission(now, u, p, s)
    /\ \A r \in RoleNames, s0 \in Scopes :
         RequestHasRole(Principal(before, u, s0), now, r) <=>
           HasRoleAt(before, u, r, s0) \/ HasRoleAt(now, u, r, Global)

\* A principal written before a grant or a revoke, used after it.
RequestsMean == [][grants' # grants => RequestsMeanFor(grants, grants')]_grants
=============================================================================
