---------------------------- MODULE MCMigration ----------------------------
(* The databases of the released layouts, on one or two users. *)
EXTENDS Migration, TLC

CONSTANTS u1, u2, e1, p1, p2

Row(name, state) == [name |-> name, state |-> state]

\* Version 2 allowed a missing username and two users of the same name.
UserStates(layout) ==
  IF layout \in {2, 3} THEN {"enabled", "flagged"}
  ELSE IF layout = 4 THEN {"pending", "active", "disabled"}
  ELSE {"active", "deleted"}

SecondUser(layout) ==
  {Null} \cup {Row(n, s) : n \in IF layout = 2 THEN {u1, u2, Null} ELSE {u2},
                           s \in UserStates(layout)}

FirstUser(layout) ==
  {Row(n, CHOOSE s \in UserStates(layout) : TRUE) :
     n \in IF layout = 2 THEN {u1, Null} ELSE {u1}}

\* Versions stamped on a layout; 1 is a version nobody upgrades.
Versions(layout) == {Missing, layout} \cup IF layout = 2 THEN {1} ELSE {}

Filled(l, v, g, au, auth, users, orphan, children, onDelete) ==
  [version |-> v, users |-> l, grants |-> g, audit |-> au, auth |-> auth,
   others |-> FALSE, user |-> users,
   identities |-> {u \in Users : users[u] # Null},
   granted |-> IF orphan THEN Users ELSE {u \in Users : users[u] # Null},
   events |-> {e1},
   children |-> IF children THEN {u \in Users : users[u] # Null} ELSE {},
   onDelete |-> onDelete]

Released ==
  UNION {
    {Filled(l, v, g, au, auth, u1 :> first @@ u2 :> second, orphan, children, onDelete) :
       v \in Versions(l), g \in {"legacy", "modern"}, au \in {"legacy", "modern"},
       auth \in {"legacy", "current"}, first \in FirstUser(l), second \in SecondUser(l),
       orphan \in BOOLEAN, children \in BOOLEAN, onDelete \in {"cascade", "restrict"}}
    : l \in 2..5}

\* Grants without a user are found in the layout that has no foreign key.
Consistent(d) == d.grants = "legacy" \/ d.granted \subseteq Present(d)

Fresh ==
  {[version |-> Missing, users |-> Missing, grants |-> "missing", audit |-> "missing",
    auth |-> a, others |-> FALSE, user |-> [u \in Users |-> Null], identities |-> {},
    granted |-> {}, events |-> {}, children |-> {}, onDelete |-> "cascade"] :
     a \in {"empty", "legacy", "unsupported", "current"}}

MCDatabases == {d \in Released : Consistent(d)} \cup Fresh
LegacyDatabases ==
  {d \in Released : Consistent(d) /\ ~Modern(d) /\ d.version = Missing /\ d.auth = "current"}
=============================================================================
