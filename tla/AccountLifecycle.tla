-------------------------- MODULE AccountLifecycle --------------------------
(***************************************************************************)
(* The statuses of an account and the transitions between them that        *)
(* manager.py, transition_account, accepts.                                *)
(***************************************************************************)
Absent == "absent"                       \* no row for this user id
AccountStatuses == {"pending", "active", "disabled", "deleted"}
Statuses == AccountStatuses \cup {Absent}

LegalTransition(from, to) ==
  \/ from = "pending"  /\ to \in {"active", "disabled"}
  \/ from = "active"   /\ to \in {"disabled", "deleted"}
  \/ from = "disabled" /\ to \in {"active", "deleted"}

Deactivates(to) == to \in {"disabled", "deleted"}
=============================================================================
