------------------------------ MODULE Listing ------------------------------
(***************************************************************************)
(* Lists and pages: the user, grant and audit stores in memory (memory.py) *)
(* and in SQLite (adapters/sqlite_stores.py), each by its own code and     *)
(* given the same calls, and an administrator who turns the pages of a     *)
(* list (adapters/fastapi_htmx/page.py, standard.py) while others write.   *)
(*                                                                         *)
(* A behaviour looks at the users, their grants or the audit log.          *)
(* A filter on the status stands for every filter by equality, one by the  *)
(* earliest time for both ends of a period, and a text for the usernames   *)
(* it finds in either kind of store.  Usernames differ in more than case.  *)
(***************************************************************************)
EXTENDS Integers, FiniteSets, SequencesExt

CONSTANTS
  Ids,        \* user ids, numbers for their order
  Rows,       \* the rows that calls write: a username and an account status
  Texts,      \* the texts looked for: the usernames that each finds, see below
  Events,     \* the events that are appended: an id, an actor and a time with its zone
  PageSize,   \* page_size of StandardUserManagerUiHooks
  None

ASSUME ListingAssumption ==
  /\ Ids \subseteq Nat /\ IsFiniteSet(Ids)
  /\ \A row \in Rows : row.status \in {"pending", "active", "disabled", "deleted"}
  /\ \A e \in Events : e.at \in [wall : Int, zone : Int]
  /\ PageSize \in Nat \ {0}

VARIABLES
  view,       \* "users", their "grants", or the "audit" log
  hook,       \* the host's list hook: "standard", or "legacy" with two arguments
  users, held,        \* memory: id -> row, and the ids that hold the one grant
  table, holders,     \* SQLite: the rows of um_users, and the ids in um_grants
  events, log,        \* the audit log: a list, and the rows of um_audit_events
  apart,      \* history: ids whose grants the two stores treat differently
  reader      \* the administrator's place in the list

stores == <<users, held, table, holders, events, log, apart>>
vars == <<view, hook, stores, reader>>

----------------------------------------------------------------------------
(* Queries *)

\* In memory a text is looked for as it stands, by str.casefold: `literal` has the
\* usernames it is part of.  In SQLite it is the middle of a LIKE pattern, where _ and %
\* stand for other characters and lower() knows only ASCII: `pattern` has those it matches.
UserQueries ==
  [status : {row.status : row \in Rows} \cup {None}, text : Texts \cup {None}]

\* A time is what the clock on the wall says, and its zone in hours east of UTC.
Times == [wall : {e.at.wall : e \in Events}, zone : {0, 1}]
AuditFilters ==
  [actor : {e.actor : e \in Events} \cup {None}, since : Times \cup {None}]

\* The members of a finite set of numbers, the smallest first.
InOrder(S) ==
  CHOOSE s \in [1..Cardinality(S) -> S] : \A i, j \in DOMAIN s : i < j => s[i] < s[j]

Limits == 1..PageSize
Slice(s, limit, offset) ==
  SubSeq(s, offset + 1, IF offset + limit < Len(s) THEN offset + limit ELSE Len(s))

----------------------------------------------------------------------------
(* The stores in memory *)

Taken(id, name) == \E other \in DOMAIN users \ {id} : users[other].name = name

Put(id, row) == [x \in DOMAIN users \cup {id} |-> IF x = id THEN row ELSE users[x]]

MemoryCreate(id, row) ==
  IF id \in DOMAIN users \/ Taken(id, row.name) THEN users ELSE Put(id, row)

\* Mutant: a username that is taken is no obstacle.
MemoryUpdate_AnyName(id, row) == IF id \in DOMAIN users THEN Put(id, row) ELSE users

MemoryUpdate(id, row) ==
  IF id \in DOMAIN users /\ ~Taken(id, row.name) THEN Put(id, row) ELSE users

MemoryDelete(id) == [x \in DOMAIN users \ {id} |-> users[x]]

MemoryMatches(row, q) ==
  /\ q.status \in {None, row.status}
  /\ q.text # None => row.name \in q.text.literal

MemoryUsers(q) == InOrder({id \in DOMAIN users : MemoryMatches(users[id], q)})

MemoryList(q, limit, offset) == Slice(MemoryUsers(q), limit, offset)

MemoryAppend(e) ==
  IF \E i \in DOMAIN events : events[i].id = e.id THEN events ELSE Append(events, e)

MemoryAuditMatches(e, f) ==
  /\ f.actor \in {None, e.actor}
  /\ f.since # None => e.at.wall - e.at.zone >= f.since.wall - f.since.zone

MemoryAudit(f, limit, offset) ==
  LET chosen == InOrder({i \in DOMAIN events : MemoryAuditMatches(events[i], f)})
  IN  Slice([i \in DOMAIN chosen |-> events[chosen[i]]], limit, offset)

----------------------------------------------------------------------------
(* The stores in SQLite *)

\* The primary key and the unique index on the username.
SqlCreate(id, row) ==
  IF \E r \in table : r.id = id \/ r.row.name = row.name
  THEN table ELSE table \cup {[id |-> id, row |-> row]}

SqlUpdate(id, row) ==
  IF \E r \in table : r.id # id /\ r.row.name = row.name THEN table
  ELSE {IF r.id = id THEN [r EXCEPT !.row = row] ELSE r : r \in table}

SqlDelete(id) == {r \in table : r.id # id}

SqlMatches(row, q) ==
  /\ q.status = None \/ row.status = q.status
  /\ q.text = None \/ row.name \in q.text.pattern

\* ORDER BY user_id LIMIT ? OFFSET ?
SqlList(q, limit, offset) ==
  LET chosen == {r.id : r \in {s \in table : SqlMatches(s.row, q)}}
      Before(id) == Cardinality({x \in chosen : x < id}) IN
  InOrder({id \in chosen : Before(id) \in offset..(offset + limit - 1)})

NextRowid == Cardinality(log) + 1

SqlAppend(e) ==
  IF \E r \in log : r.event.id = e.id THEN log
  ELSE log \cup {[rowid |-> NextRowid, event |-> e]}

\* Timestamps are compared as isoformat() writes them: the wall clock, then the zone.
SqlAuditMatches(e, f) ==
  /\ f.actor = None \/ e.actor = f.actor
  /\ \/ f.since = None \/ e.at.wall > f.since.wall
     \/ e.at.wall = f.since.wall /\ e.at.zone >= f.since.zone

EventAt(rowid) == (CHOOSE r \in log : r.rowid = rowid).event

\* ORDER BY rowid LIMIT ? OFFSET ?
SqlAudit(f, limit, offset) ==
  LET chosen == InOrder({r.rowid : r \in {s \in log : SqlAuditMatches(s.event, f)}})
  IN  Slice([i \in DOMAIN chosen |-> EventAt(chosen[i])], limit, offset)

----------------------------------------------------------------------------
(* A page *)

SqlPage(q, limit, offset) ==
  IF view = "users" THEN SqlList(q, limit, offset) ELSE SqlAudit(q, limit, offset)

\* Everything the list holds, and all of it that a query selects.
NoFilter == IF view = "users" THEN [status |-> None, text |-> None]
                              ELSE [actor |-> None, since |-> None]
AllOf(q) == SqlPage(q, Cardinality(table) + Cardinality(log), 0)

Wanted(limit) == IF limit = None THEN PageSize ELSE limit

\* A hook that takes neither limit nor offset nor query answers with all it has, and
\* has no next page.
LegacyAnswer == [items |-> AllOf(NoFilter), more |-> FALSE]

\* Mutant: the store is asked for no more rows than are shown.
Answer_NoLookahead(q, limit, offset) ==
  LET rows == SqlPage(q, Wanted(limit), offset) IN
  [items |-> rows, more |-> Len(rows) > Wanted(limit)]

\* list_users of the standard hooks asks the store for one row more than it shows, and a
\* host's list_audit_events is taken to do the same.
Answer(q, limit, offset) ==
  LET rows == SqlPage(q, Wanted(limit) + 1, offset) IN
  IF hook = "legacy" THEN LegacyAnswer
  ELSE [items |-> Slice(rows, Wanted(limit), 0), more |-> Len(rows) > Wanted(limit)]

\* parse_page_query: without a limit in the URL the pages are taken to be one row long,
\* whatever the host's page size.
OffsetOf(limit, page) == (page - 1) * (IF limit = None THEN 1 ELSE limit)

NoReader == [page |-> 0]

Open ==
  /\ view # "grants" /\ reader = NoReader
  /\ \E q \in IF view = "users" THEN UserQueries ELSE AuditFilters, limit \in Limits \cup {None} :
       LET page == Answer(q, limit, OffsetOf(limit, 1)) IN
       reader' = [page |-> 1, q |-> q, limit |-> limit, seen |-> page.items,
                  more |-> page.more, steady |-> ToSet(AllOf(q)),
                  grown |-> FALSE, shrunk |-> FALSE]
  /\ UNCHANGED <<view, hook, stores>>

\* The link to the next page keeps the filters and the limit.
TurnPage ==
  /\ reader # NoReader /\ reader.more
  /\ LET page == Answer(reader.q, reader.limit, OffsetOf(reader.limit, reader.page + 1)) IN
     reader' = [reader EXCEPT !.page = @ + 1, !.seen = @ \o page.items, !.more = page.more]
  /\ UNCHANGED <<view, hook, stores>>

\* What a change of the stores is to one who is turning pages; who has come to the end
\* of the list is done with it.
Watch ==
  IF reader = NoReader \/ ~reader.more THEN reader' = NoReader
  ELSE \E q \in {reader.q} :
         LET was == ToSet(AllOf(q))
             is == ToSet(AllOf(q)')
         IN reader' = [reader EXCEPT !.steady = @ \cap is,
                                     !.grown = @ \/ ~(is \subseteq was),
                                     !.shrunk = @ \/ ~(was \subseteq is)]

----------------------------------------------------------------------------
(* Calls, each made to both stores *)

Create(id, row) ==
  /\ view # "audit"
  /\ users' = MemoryCreate(id, row) /\ table' = SqlCreate(id, row)
  /\ UNCHANGED <<view, hook, held, holders, events, log, apart>>
  /\ Watch

Update(id, row) ==
  /\ view = "users"
  /\ users' = MemoryUpdate(id, row) /\ table' = SqlUpdate(id, row)
  /\ UNCHANGED <<view, hook, held, holders, events, log, apart>>
  /\ Watch

\* Mutant: the foreign keys of the connection are off.
Delete_NoCascade(id) ==
  /\ view # "audit" /\ id \in DOMAIN users
  /\ users' = MemoryDelete(id) /\ table' = SqlDelete(id)
  /\ UNCHANGED <<view, hook, held, holders, events, log, apart>>
  /\ Watch

\* In memory nothing goes with the user: the grants wait for the next of that id.
Delete(id) ==
  /\ view # "audit" /\ id \in DOMAIN users
  /\ users' = MemoryDelete(id) /\ table' = SqlDelete(id)
  /\ holders' = holders \ {id}
  /\ apart' = apart \cup ({id} \cap held)
  /\ UNCHANGED <<view, hook, held, events, log>>
  /\ Watch

\* Only SQLite asks whether there is such a user.
AddGrant(id) ==
  /\ view = "grants"
  /\ held' = held \cup {id}
  /\ holders' = holders \cup ({id} \cap {r.id : r \in table})
  /\ apart' = IF id \in DOMAIN users THEN apart \ {id} ELSE apart \cup {id}
  /\ UNCHANGED <<view, hook, users, table, events, log, reader>>

RemoveGrant(id) ==
  /\ view = "grants"
  /\ held' = held \ {id} /\ holders' = holders \ {id}
  /\ apart' = apart \ {id}
  /\ UNCHANGED <<view, hook, users, table, events, log, reader>>

AppendEvent(e) ==
  /\ view = "audit"
  /\ events' = MemoryAppend(e) /\ log' = SqlAppend(e)
  /\ UNCHANGED <<view, hook, users, held, table, holders, apart>>
  /\ Watch

----------------------------------------------------------------------------

Init ==
  /\ view \in {"users", "grants", "audit"} /\ hook \in {"standard", "legacy"}
  /\ hook = "legacy" => view = "users"
  /\ users = <<>> /\ table = {}
  /\ held = {} /\ holders = {} /\ apart = {}
  /\ events = <<>> /\ log = {}
  /\ reader = NoReader

Next ==
  \/ \E id \in Ids : \/ \E row \in Rows : Create(id, row) \/ Update(id, row)
                     \/ Delete(id) \/ AddGrant(id) \/ RemoveGrant(id)
  \/ \E e \in Events : AppendEvent(e)
  \/ Open \/ TurnPage

Spec == Init /\ [][Next]_vars

----------------------------------------------------------------------------
(* Properties *)

\* Types, and the foreign key: no grant is stored in SQLite without its user.
TypeOK ==
  /\ DOMAIN users \subseteq Ids /\ \A id \in DOMAIN users : users[id] \in Rows
  /\ table \subseteq [id : Ids, row : Rows]
  /\ held \subseteq Ids /\ apart \subseteq Ids
  /\ holders \subseteq {r.id : r \in table}
  /\ events \in Seq(Events)
  /\ log \subseteq [rowid : Nat, event : Events]

\* A text that finds the same in both kinds of store: one without _ and %, for names
\* whose case ASCII covers.
Alike(q) == q.text = None \/ q.text.literal = q.text.pattern

\* A filter by time in the zone of the events that it is compared with.
InZone(f) == f.since = None \/ \A i \in DOMAIN events : events[i].at.zone = f.since.zone

\* After the same calls the two kinds of store have the same rows in the same order: they
\* give the same page of any query whose text means the same to both, of any audit filter
\* in the zone of the events, and the grants of an id unless the last grant to it was made
\* without a user, or its user was purged with it.  Other texts and times they answer
\* differently, and other tests than those on memory must show what SQLite does.
StoresAgree ==
  /\ \A q \in UserQueries, limit, offset \in 0..Cardinality(Ids) :
       Alike(q) => MemoryList(q, limit, offset) = SqlList(q, limit, offset)
  /\ \A id \in Ids \ apart : id \in held <=> id \in holders
  /\ \A f \in AuditFilters, limit, offset \in 0..Cardinality(log) :
       InZone(f) => MemoryAudit(f, limit, offset) = SqlAudit(f, limit, offset)

\* One who turns the pages of the standard hooks at a limit of his own has seen the
\* list from its start, each row once and in its order, as long as nothing changes, and
\* in the audit log whatever is appended; and when there is no next page he has seen
\* every row that was there all the time, at any limit, unless rows went away.
PagesTrue ==
  reader # NoReader =>
    /\ (hook = "standard" /\ reader.limit # None /\ ~reader.shrunk
        /\ (view = "audit" \/ ~reader.grown)) =>
         /\ IsPrefix(reader.seen, AllOf(reader.q))
         /\ reader.more => Len(reader.seen) = reader.page * reader.limit
    /\ (~reader.more /\ ~reader.shrunk) => reader.steady \subseteq ToSet(reader.seen)
=============================================================================
