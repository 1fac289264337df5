--------------------------- MODULE MCAccountCalls ---------------------------
(***************************************************************************)
(* Small instances of AccountCalls and Claims for TLC.                     *)
(***************************************************************************)
EXTENDS Claims, TLC

CONSTANTS u1, u2, u3, c1, c2, admin, auditor, access, assign, grant, revoke, global, team

G(u, n, s) == [user |-> u, name |-> n, scope |-> s]

MCRolePermissions == admin :> {access, assign, grant, revoke} @@ auditor :> {assign, revoke}

AdminRoleGrants == {G(u, admin, global) : u \in Users}

\* Every user may be a global administrator; u1 also by a direct permission.
AdminGrantsOnly ==
  AdminRoleGrants \cup {G(u1, access, global)}

\* With a scoped admin role, which must not count.
ScopedGrants == AdminGrantsOnly \cup {G(u2, admin, team)}

\* Authority at both scopes, directly and through stored roles.
ManagerGrants ==
  {G(u1, admin, global), G(u1, revoke, team), G(u2, assign, global),
   G(u2, auditor, team), G(u2, access, team)}

\* Every operation whose last-administrator rules the code enforces.
GuardedOps == [c \in Callers |-> AllOps \ {"managerGrant", "managerRevoke"}]
ManagerOps == [c \in Callers |-> AllOps \ {"create", "adminGrant"}]

\* The packaged UI is c1; c2 is product code on operation-mode stores, which
\* registers users and hands out grants.
MixedOps == c1 :> AllOps \ {"managerGrant", "managerRevoke"} @@ c2 :> {"create", "adminGrant"}

CallerSymmetry == Permutations(Callers)
=============================================================================
