------------------------------ MODULE Sessions ------------------------------
(***************************************************************************)
(* Sessions of an application: the SQLite store of opaque tokens           *)
(* (adapters/sqlite_sessions.py) over the accounts it asks, and the        *)
(* principal in a signed cookie (sessions.py, adapters/fastapi.py), which  *)
(* asks nobody.  Each operation is one statement or one transaction,       *)
(* except create, which reads the status before its insert begins one.     *)
(***************************************************************************)
CONSTANTS Users, Sids, None

VARIABLES
  status,    \* account -> "active", "disabled" or "absent"
  sessions   \* stored session -> whose it is, and whether it is over

States == {"current", "revoked", "expired"}
Record(u) == [user |-> u, state |-> "current"]

SessionsTypeOK ==
  /\ status \in [Users -> {"active", "disabled", "absent"}]
  /\ sessions \in [Sids -> [user : Users, state : States] \cup {None}]

Stored == {s \in Sids : sessions[s] # None}
Of(u) == {s \in Stored : sessions[s].user = u}

\* SQLiteSessionStore.get, list_for_user: not revoked, not expired, of an account
\* that is active.
Live(s) ==
  /\ s \in Stored
  /\ sessions[s].state = "current"
  /\ status[sessions[s].user] = "active"

\* Each of the following gives the sessions after an operation.
Inserted(s, u) == [sessions EXCEPT ![s] = Record(u)]
Revoked(S) == [s \in Sids |-> IF s \in S /\ s \in Stored
                                THEN [sessions[s] EXCEPT !.state = "revoked"]
                                ELSE sessions[s]]
Deleted(S) == [s \in Sids |-> IF s \in S THEN None ELSE sessions[s]]

\* revoke: only when the owner matches.
RevokedBy(u, s) == Revoked({s} \cap Of(u))

\* revoke_all; purge_expired; the cascade of um_sessions.user_id.
RevokedAll(u) == Revoked(Of(u))
WithoutExpired == Deleted({s \in Stored : sessions[s].state = "expired"})
Cascaded(u) == Deleted(Of(u))
=============================================================================
