SPECIFICATION Spec
CONSTANTS
  u1 = u1
  u2 = u2
  e1 = e1
  p1 = p1
  p2 = p2
  Null = Null
  NoProcess = NoProcess
  NoCall = NoCall
  Users = {u1, u2}
  Events = {e1}
  Processes = {p1, p2}
  Operations = {"initialize", "migrate_sqlite_schema", "create_tables"}
  Databases <- MCDatabases
  BootstrapStates = {"empty", "current", "older", "canonical_unversioned"}
INVARIANTS TypeOK RowsSurvive
PROPERTIES UpgradeComplete CallsEnd
