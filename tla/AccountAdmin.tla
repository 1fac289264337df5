---------------------------- MODULE AccountAdmin ----------------------------
(***************************************************************************)
(* What the user manager promises of accounts and grants, one step a call. *)
(*                                                                         *)
(* The store is the account status of every user id and the set of grants. *)
(* A call either takes effect in one step, on the state it finds, or has   *)
(* no effect at all.  AccountCalls is the code: the same calls as they     *)
(* read and write the stores, one store call a step, with other callers in *)
(* between.                                                                *)
(***************************************************************************)
EXTENDS AdminAccess

CONSTANTS
  RolesAssign,       \* "roles.assign"
  PermissionsGrant,  \* "permissions.grant"
  PermissionsRevoke  \* "permissions.revoke"

ASSUME PermissionNamesAssumption ==
  {RolesAssign, PermissionsGrant, PermissionsRevoke} \subseteq Permissions

VARIABLES
  status,  \* user id -> account status, Absent when there is no row
  grants   \* the grants stored

vars == <<status, grants>>

TypeOK ==
  /\ status \in [Users -> Statuses]
  /\ grants \in SUBSET Grants

\* Every grant belongs to a stored user: the foreign key of um_grants.
NoOrphanGrants == \A g \in grants : status[g.user] # Absent

Init == TypeOK /\ NoOrphanGrants

CreateUser(u, s) ==
  /\ status[u] = Absent
  /\ status' = [status EXCEPT ![u] = s]
  /\ UNCHANGED grants

TransitionAccount(u, to) ==
  /\ LegalTransition(status[u], to)
  /\ Deactivates(to) => DeactivationAllowed(status, grants, u)
  /\ status' = [status EXCEPT ![u] = to]
  /\ UNCHANGED grants

\* hard_delete_account: only what was soft-deleted, its grants with it.
HardDeleteAccount(u) ==
  /\ status[u] = "deleted"
  /\ status' = [status EXCEPT ![u] = Absent]
  /\ grants' = grants \ GrantsOf(grants, u)

AddGrant(g) ==
  /\ status[g.user] # Absent
  /\ g \notin grants
  /\ grants' = grants \cup {g}
  /\ UNCHANGED status

\* GrantAdminService.revoke_role and revoke_permission.
RevokeGrant(g) ==
  /\ g \in grants
  /\ RevokeAllowed(status, grants, g)
  /\ grants' = grants \ {g}
  /\ UNCHANGED status

\* UserManager.revoke_role and revoke_permission: authorised, and unguarded.
ManagerRevokeGrant(actor, g) ==
  /\ HasPermission(grants, actor,
                   PermissionNeeded(g, RolesAssign, PermissionsRevoke), g.scope)
  /\ g \in grants
  /\ grants' = grants \ {g}
  /\ UNCHANGED status

GuardedNext ==
  \/ \E u \in Users, s \in {"pending", "active"} : CreateUser(u, s)
  \/ \E u \in Users, to \in AccountStatuses : TransitionAccount(u, to)
  \/ \E u \in Users : HardDeleteAccount(u)
  \/ \E g \in Grants : AddGrant(g) \/ RevokeGrant(g)

Next ==
  \/ GuardedNext
  \/ \E actor \in Users, g \in Grants : ManagerRevokeGrant(actor, g)

GuardedSpec == Init /\ [][GuardedNext]_vars
Spec == Init /\ [][Next]_vars
=============================================================================
