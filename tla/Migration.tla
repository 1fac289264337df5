----------------------------- MODULE Migration -----------------------------
(***************************************************************************)
(* The upgrade of a stored schema (adapters/sqlite_schema.py) and the      *)
(* coordinator that runs it at every start of a product                    *)
(* (SQLiteAuthDatabase.initialize in adapters/my_auth_sqlite.py).          *)
(*                                                                         *)
(* A database is the layout of its tables, the version stamped in it, and  *)
(* its rows.  Layouts are what the inspection compares; a row is what an   *)
(* upgrade may change or lose of it: the name and the status of a user,    *)
(* the owner of a row in a table that references um_users.  A call opens   *)
(* BEGIN IMMEDIATE, inspects, works through the steps its inspection calls *)
(* for on the image of its own transaction, and commits.  A statement that *)
(* a constraint rejects, an exception, or the end of the process abandons  *)
(* the image.                                                              *)
(***************************************************************************)
EXTENDS Integers, Sequences

CONSTANTS
  Users,            \* user identifiers
  Null,             \* no row, or a username that is NULL or blank
  Events,           \* audit events
  Processes,        \* processes that open the database
  NoCall,           \* a process makes no call
  NoProcess,        \* nobody holds the write lock
  Operations,       \* the calls they make
  Databases,        \* the databases they may find
  BootstrapStates   \* the inspected states in which hosts call create_tables

ASSUME NamesAssumption == NoProcess \notin Processes /\ Null \notin Users
ASSUME OperationsAssumption ==
  Operations \subseteq {"initialize", "migrate_sqlite_schema", "create_tables"}

SchemaVersion == 5
Missing == 0  \* no such table, and so no layout and no version

\* In layouts 2 and 3 a user is enabled or flagged disabled, later it has a status.
UserRows ==
  [name : Users \cup {Null},
   state : {"enabled", "flagged", "pending", "active", "disabled", "deleted"}]

ASSUME NullAssumption == Null \notin UserRows

DatabaseType ==
  [version : {Missing} \cup 1..5, \* um_schema_version, Missing without the table
   users : {Missing} \cup 2..5,   \* um_users; 4 and 5 differ in a CHECK only
   grants : {"missing", "legacy", "modern"},
   audit : {"missing", "legacy", "modern"},
   auth : {"empty", "legacy", "unsupported", "current"}, \* my-auth's own tables
   others : BOOLEAN,              \* um_invitations, um_sessions, um_oidc_flows
   user : [Users -> UserRows \cup {Null}],
   identities : SUBSET Users,     \* owners of rows in um_external_identities
   granted : SUBSET Users,        \* owners of rows in um_grants
   events : SUBSET Events,
   children : SUBSET Users,       \* owners of rows in other referencing tables
   onDelete : {"cascade", "restrict"}] \* the foreign key of those tables

Present(d) == {u \in Users : d.user[u] # Null}

\* What the columns of a layout can hold: after version 2 a username is NOT NULL (and
\* User.__post_init__ lets none be blank), and before version 4 there is no status.
Fits(d) ==
  \A u \in Present(d) :
    /\ d.users # Missing
    /\ d.users # 2 => d.user[u].name # Null
    /\ d.user[u].state \in {"enabled", "flagged"} <=> d.users \in {2, 3}

ASSUME DatabasesAssumption == Databases \subseteq DatabaseType /\ \A d \in Databases : Fits(d)

----------------------------------------------------------------------------
(* Inspection *)

TablesPresent(d) == d.users # Missing /\ "missing" \notin {d.grants, d.audit}
NoTables(d) ==
  d.version = Missing /\ d.users = Missing /\ {d.grants, d.audit} = {"missing"}
Modern(d) == d.grants = "modern" /\ d.audit = "modern"
LegacyGrants(d) == d.grants = "legacy"
LegacyAudit(d) == d.audit = "legacy"

\* The columns of um_users are those of a version; v4 and v5 look the same.
LayoutOf(d, version) ==
  IF version \in {4, 5} THEN d.users \in {4, 5} ELSE d.users = version

Inspect(d) ==
  IF NoTables(d) THEN "empty"
  ELSE IF ~TablesPresent(d) \/ ~Modern(d) THEN "unsupported"
  ELSE IF d.version = Missing THEN "canonical_unversioned"
  ELSE IF d.version = 1 \/ ~LayoutOf(d, d.version) THEN "unsupported"
  ELSE IF d.version = SchemaVersion THEN "current" ELSE "older" \* v2, v3 and v4

\* An unsupported layout that the explicit upgrade accepts.
Migratable(d) ==
  /\ TablesPresent(d)
  /\ LegacyGrants(d) \/ d.grants = "modern"
  /\ LegacyAudit(d) \/ d.audit = "modern"
  /\ \/ d.version = Missing
     \/ /\ d.version # 1
        /\ LayoutOf(d, d.version)
        /\ d.version = SchemaVersion => ~Modern(d)

----------------------------------------------------------------------------
(* What the steps do to the image *)

NamesDistinct(user) ==
  \A u, v \in Users : (u # v /\ user[u] # Null /\ user[v] # Null)
                        => user[u].name = Null \/ user[u].name # user[v].name

\* DROP TABLE um_users with foreign keys on deletes what references its rows.
DropRefused(d) == d.onDelete = "restrict" /\ d.children # {}
Dropped(d) == [d EXCEPT !.identities = {}, !.granted = {}, !.children = {}]

Normalised(d) ==
  [u \in Users |-> IF d.user[u] # Null /\ d.user[u].name = Null
                   THEN [d.user[u] EXCEPT !.name = u] ELSE d.user[u]]

RebuildGrantsTable(d) == [d EXCEPT !.grants = "modern"]

RebuildAuditTable(d) == [d EXCEPT !.audit = "modern"]

UsersV2ToV3_DropsGrants(d) ==
  [Dropped(d) EXCEPT !.users = 3, !.user = Normalised(d), !.identities = d.identities]

\* Identities and grants are put back, other tables are not.
UsersV2ToV3(d) ==
  [Dropped(d) EXCEPT !.users = 3, !.user = Normalised(d),
                     !.identities = d.identities, !.granted = d.granted]

WithStatus(row) ==
  [row EXCEPT !.state = IF row.state = "flagged" THEN "disabled" ELSE "active"]

UsersV3ToV4(d) ==
  [d EXCEPT !.users = 4,
            !.user = [u \in Users |-> IF d.user[u] = Null THEN Null
                                      ELSE WithStatus(d.user[u])]]

\* Every table with a foreign key to um_users is put back.
UsersV4ToV5(d) ==
  [Dropped(d) EXCEPT !.users = 5, !.identities = d.identities,
                     !.granted = d.granted, !.children = d.children]

\* CREATE TABLE IF NOT EXISTS, and the version if none is stamped.
CreateTables(d) ==
  [d EXCEPT !.version = IF @ = Missing THEN SchemaVersion ELSE @,
            !.users = IF @ = Missing THEN 5 ELSE @,
            !.grants = IF @ = "missing" THEN "modern" ELSE @,
            !.audit = IF @ = "missing" THEN "modern" ELSE @]

Stamp(d) == [CreateTables(d) EXCEPT !.version = SchemaVersion]

Effect(step, d) ==
  CASE step = "rebuild_grants" -> RebuildGrantsTable(d)
    [] step = "rebuild_audit" -> RebuildAuditTable(d)
    [] step = "v2_to_v3" -> UsersV2ToV3(d)
    [] step = "v3_to_v4" -> UsersV3ToV4(d)
    [] step = "v4_to_v5" -> UsersV4ToV5(d)
    [] step = "create_tables" -> CreateTables(d)
    [] step = "stamp" -> Stamp(d)
    [] step = "auth" -> [d EXCEPT !.auth = "current"]
    [] step = "others" -> [d EXCEPT !.others = TRUE]

\* A constraint or a check of the step itself rejects it.
Rejected(step, d) ==
  \/ step = "rebuild_grants" /\ ~(d.granted \subseteq Present(d))
  \/ step = "v2_to_v3" /\ (~NamesDistinct(Normalised(d)) \/ DropRefused(d))
  \/ step = "v4_to_v5" /\ (~NamesDistinct(d.user) \/ DropRefused(d))
  \/ step = "create_tables" /\ (d.version \notin {Missing, SchemaVersion}
                                  \/ ~NamesDistinct(d.user))

----------------------------------------------------------------------------
(* Which steps a call takes *)

When(condition, step) == IF condition THEN <<step>> ELSE <<>>

UpgradeSteps(d) ==
     When(LegacyGrants(d), "rebuild_grants")
  \o When(LegacyAudit(d), "rebuild_audit")
  \o When(d.users = 2, "v2_to_v3")
  \o When(d.users \in {2, 3}, "v3_to_v4")
  \o When(d.version # SchemaVersion, "v4_to_v5")
  \o <<"stamp">>

UpgradePlan(d) ==
  CASE Inspect(d) = "empty" -> <<"create_tables">>
    [] Inspect(d) = "current" -> <<>>
    [] OTHER -> UpgradeSteps(d)

Plan(op, d) ==
  CASE op = "create_tables" -> <<"create_tables">>
    [] op = "migrate_sqlite_schema" -> UpgradePlan(d)
    [] op = "initialize" -> When(d.auth = "legacy", "auth")
                         \o UpgradePlan(d) \o <<"auth", "others">>

\* The inspection ends the call.
Refused(op, d) ==
  \/ op = "create_tables" /\ Inspect(d) = "canonical_unversioned"
  \/ op # "create_tables" /\ Inspect(d) = "unsupported" /\ ~Migratable(d)
  \/ op = "initialize" /\ d.auth = "unsupported"

----------------------------------------------------------------------------
VARIABLES
  stored,  \* the committed database
  image,   \* the database as the open transaction sees it
  owner,   \* the process whose transaction is open
  op,      \* process -> its call
  step,    \* process -> "idle", "begin", "inspect" or "upgrade"
  plan,    \* the steps left to the owner
  origin   \* history: the database found at the beginning

vars == <<stored, image, owner, op, step, plan, origin>>

TypeOK ==
  /\ {stored, image, origin} \subseteq DatabaseType
  /\ owner \in Processes \cup {NoProcess}
  /\ op \in [Processes -> Operations \cup {NoCall}]
  /\ step \in [Processes -> {"idle", "begin", "inspect", "upgrade"}]
  /\ \A p \in Processes : step[p] \in {"inspect", "upgrade"} <=> owner = p
  /\ owner = NoProcess => plan = <<>> /\ image = stored

Init ==
  /\ stored \in Databases
  /\ image = stored
  /\ origin = stored
  /\ owner = NoProcess
  /\ op = [p \in Processes |-> NoCall]
  /\ step = [p \in Processes |-> "idle"]
  /\ plan = <<>>

Start(p, o) ==
  /\ step[p] = "idle"
  /\ o = "create_tables" => Inspect(stored) \in BootstrapStates
  /\ op' = [op EXCEPT ![p] = o]
  /\ step' = [step EXCEPT ![p] = "begin"]
  /\ UNCHANGED <<stored, image, owner, plan, origin>>

Begin_NoLock(p) ==
  /\ step[p] = "begin"
  /\ owner' = p
  /\ image' = stored
  /\ step' = [step EXCEPT ![p] = "inspect"]
  /\ UNCHANGED <<stored, op, plan, origin>>

Begin(p) ==
  /\ step[p] = "begin"
  /\ owner = NoProcess
  /\ owner' = p
  /\ image' = stored
  /\ step' = [step EXCEPT ![p] = "inspect"]
  /\ UNCHANGED <<stored, op, plan, origin>>

Busy_WaitsForEver(p) == FALSE /\ step[p] = "begin" /\ UNCHANGED vars

Busy(p) == \* the busy timeout passes
  /\ step[p] = "begin"
  /\ owner # NoProcess
  /\ step' = [step EXCEPT ![p] = "idle"]
  /\ op' = [op EXCEPT ![p] = NoCall]
  /\ UNCHANGED <<stored, image, owner, plan, origin>>

Inspected(p) ==
  /\ step[p] = "inspect"
  /\ ~Refused(op[p], image)
  /\ plan' = Plan(op[p], image)
  /\ step' = [step EXCEPT ![p] = "upgrade"]
  /\ UNCHANGED <<stored, image, owner, op, origin>>

Upgrade(p) ==
  /\ step[p] = "upgrade"
  /\ plan # <<>>
  /\ ~Rejected(Head(plan), image)
  /\ image' = Effect(Head(plan), image)
  /\ plan' = Tail(plan)
  /\ UNCHANGED <<stored, owner, op, step, origin>>

End(p) ==
  /\ owner' = NoProcess
  /\ plan' = <<>>
  /\ step' = [step EXCEPT ![p] = "idle"]
  /\ op' = [op EXCEPT ![p] = NoCall]
  /\ UNCHANGED origin

Commit(p) ==
  /\ step[p] = "upgrade"
  /\ plan = <<>>
  /\ End(p)
  /\ stored' = image
  /\ UNCHANGED image

Rollback_Commits(p) ==
  /\ End(p)
  /\ stored' = image
  /\ UNCHANGED image

Rollback(p) ==
  /\ End(p)
  /\ image' = stored
  /\ UNCHANGED stored

Refuse(p) ==
  /\ \/ step[p] = "inspect" /\ Refused(op[p], image)
     \/ step[p] = "upgrade" /\ plan # <<>> /\ Rejected(Head(plan), image)
  /\ Rollback(p)

\* A statement fails for another reason, or the process ends.
Interrupt(p) ==
  /\ owner = p
  /\ Rollback(p)

Proceed(p) ==
  Begin(p) \/ Busy(p) \/ Inspected(p) \/ Upgrade(p) \/ Commit(p) \/ Refuse(p)

Next ==
  \E p \in Processes : (\E o \in Operations : Start(p, o)) \/ Proceed(p) \/ Interrupt(p)

Spec == Init /\ [][Next]_vars /\ \A p \in Processes : WF_vars(Proceed(p))

----------------------------------------------------------------------------
(* Properties *)

KeptUser(old, new, u) ==
  \/ old = Null /\ new = Null
  \/ /\ old # Null /\ new # Null
     /\ new.name = IF old.name = Null THEN u ELSE old.name
     /\ new.state = IF old.state \in {"enabled", "flagged"} THEN WithStatus(old).state
                    ELSE old.state

\* A database that is current holds the rows it had before it was upgraded:
\* every user with the status its disabled flag or its status says, every
\* identity, grant and audit event, and the rows of other tables unless the
\* upgrade began at version 2.
RowsSurvive ==
  Inspect(stored) = "current" =>
    /\ \A u \in Users : KeptUser(origin.user[u], stored.user[u], u)
    /\ stored.identities = origin.identities
    /\ stored.granted = origin.granted
    /\ stored.events = origin.events
    /\ origin.users # 2 => stored.children = origin.children

\* A call that changes the database leaves it current, its tables those of
\* version 5 whatever layouts they had: there is no committed half of an
\* upgrade, and no version that promises more than the tables hold.
UpgradeComplete ==
  [][Inspect(stored') = "current" /\ stored'.users = 5]_stored

\* Every call of migrate_sqlite_schema, create_tables or initialize ends.
CallsEnd == \A p \in Processes : step[p] # "idle" ~> step[p] = "idle"
=============================================================================
