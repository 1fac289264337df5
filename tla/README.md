# Verification of my-usermanager

TLA+ models of `my_usermanager` (`src/src/my_usermanager/`, paths below are
relative to it), their TLC runs, and TLAPS proofs. `PROJECT.json` lists the
components, runs, mutants of the runs' properties, the source lines behind every
definition, the hazards and the theorems.

    tlc -workers 2 -config AccountCalls_guarded.cfg MCAccountCalls
    tlc -workers 2 -config UiRequests_hooks.cfg MCUiRequests
    tlapm AccountCallsProofs.tla

and so on for the eight `...Proofs` modules.

## The system

A library of user accounts for a host application: accounts with a lifecycle,
roles and permissions granted at scopes, the rule that an administrator always
remains, invitations, sessions, OpenID Connect login, and a FastAPI/HTMX
administration UI, over SQLite (or in-memory) stores. There is no server of its
own: several threads or processes of the host call the services, each service
call is a sequence of store calls, and SQLite is all that coordinates them.

| Component | State | Operations | What is hard |
| --- | --- | --- | --- |
| Access rules (`last_admin.py`, `permissions.py`) | none; read from the stores | which grants confer access, count administrators, guard a removal | several reads are combined into one decision |
| User manager (`manager.py`) | none; it works on the stores | transition, soft/hard delete, profile, grant and revoke under authorisation | read-check-write over separate store calls |
| Grant service (`admin.py`) | none | grants, guarded revokes | as above |
| SQLite stores (`adapters/sqlite_stores.py`) | tables of users, identities, grants, audit events; the connection's transaction; a lock per connection | single-row reads and mutations; savepoints or own transactions | connections shared by threads, two transaction modes, partial failure |
| In-memory stores (`memory.py`) | dictionaries | the same | no foreign key: grants outlive a purge |
| Schema (`adapters/sqlite_schema.py`) | the schema version | inspect, create, migrate v2 to v5 | a failure or crash between steps, data carried over |
| Invitations (`invitations.py`, `adapters/sqlite_invitations.py`) | invitations; capabilities are kept by my-auth | invite, reissue, revoke, activate | five stores without a common transaction; races of the four |
| Sessions (`adapters/sqlite_sessions.py`, `sessions.py`) | session rows; a snapshot in the cookie | create, look up, revoke, purge | a snapshot that outlives a revocation or a status change |
| Step-up (`step_up.py`) | one-time proofs | issue, consume | consumed once, also on a mismatch |
| OIDC (`adapters/oidc*.py`, `adapters/sqlite_oidc_flows.py`) | pending login flows, cached keys | start, consume, verify | replay, expiry, key rotation |
| my-auth registration (`adapters/my_auth*.py`, `adapters/sqlite_registration.py`) | one shared database | complete a registration, link identities | commit of two packages' rows; cancellation while it runs |
| External identities (`adapters/sqlite_stores.py`) | identity -> user | link, resolve | racing links |
| Claims (`claims.py`) | none | project grants to claims | must agree with the manager's own checks |
| Request authentication (`adapters/fastapi.py`, `sessions.py`) | a principal in a signed cookie | permissions, roles and ownership asked of a principal, or of the stores | a principal from before a change decides first |
| Web UI (`adapters/fastapi_htmx/`, `adapters/local_identity.py`) | an operation queue with one connection | routes, CSRF, hooks, paging | authorisation and mutation in separate transactions; cancelled requests |

What makes each correct, and the property that says so:

* *Access rules, manager, grant service*: an active administrator always
  remains (`AdminRetained`, which `UserManager`'s revokes violate); a refusal is justified (`RefusalJustified`); a call
  has the effect it would have alone on the store it commits to
  (`ImplementsAccountAdmin`, `ImplementsGuarded`); authority is held when it is
  used (`AuthorityAtEffect`); every call ends (`AccountCalls.CallsEnd`).
* *SQLite stores and connections*: what a caller was told about its mutation is
  true (`AnswersTrue`); no lock, savepoint or unexplained transaction is left
  behind (`CleanWhenIdle`); mutations end (`MutationsEnd`). Both kinds of stores
  give the same answers (`StoresAgree`), and pages hold what they should
  (`PagesTrue`).
* *Invitations*: an invited user has exactly the approved grants
  (`InvitedFullyGranted`), a used invitation has brought an identity and an account
  (`UsedIsComplete`). That revoked and used are final, and that only the capability
  in force activates, callers that race violate; what holds whatever they do is
  `SettledIsOver`, `RetiredIsOver` and `NoCapabilityLost`.
* *Sessions, step-up, UI*: an account that was disabled has lost its sessions
  (`DisabledIsOut`); what has ended stays ended (`EndedForGood`); what a request
  changes it may, with a proof used once (`MutationsJustified`).
* *OIDC*: a flow completes once, before its expiry, for the browser and the
  subject it belongs to (`LoginsBelong`), for an account that was linked and active
  when it was looked up last (`LoginsAreSound`), with keys the provider vouches for
  (`CacheFaithful`).
* *Registration*: passkey, account, link and grant appear together
  (`WholeRegistrations`); nothing is committed after the answer
  (`QuietAfterAnswer`); the session enters an account of the subject
  (`LoginsJustified`).
* *Migration*: every row of a supported schema survives (`RowsSurvive`); there is
  no half of an upgrade (`UpgradeComplete`); concurrent starts end
  (`Migration.CallsEnd`).
* *Claims*: the projection says what the manager's own rules say
  (`ClaimsAgree`), and a request means what its user may or might (`RequestsMean`).

## Modules

`AccountCalls` composes `AdminAccess` and `AccountLifecycle` and implements
`AccountAdmin`; `Claims` extends `AccountCalls`; `UiRequests` extends
`Sessions`; `Registration` implements `RegisteredAccounts`. The others stand
alone: the code they model shares a database file, and of that only what their
environment actions change.

### AccountLifecycle

The statuses of an account and the transitions `transition_account` accepts,
shared by the others.

### AdminAccess

The rules as operators over `status` (user id -> account status, `"absent"`
without a row) and a set of grants. A grant names one role or one permission at
one scope, so it is a record `[user, name, scope]` with roles and permissions
disjoint. The role store is never written after construction and is the constant
`RolePermissions`. `DeactivationAllowed` and `RevokeAllowed` are
`ensure_account_deactivation_allowed` and `ensure_admin_revoke_allowed` read on
one state.

### AccountAdmin

The abstract specification: a call of the services is one step on the state it
finds, or no step. `GuardedNext` has the calls that respect the
last-administrator rule; `Next` adds `UserManager.revoke_role` and
`revoke_permission`, which check the actor's authority and no more.

### AccountCalls

The calls as the code makes them, one store call a step, with the other callers
in between. Per caller: the step it is at (`pc`), its call, and what the code
keeps in local variables (`seen`: the status `users.get` returned; `limit`,
`todo`, `found`: the loop of `count_active_administrators`).

| Steps | Code |
| --- | --- |
| `StartCall`, `AwaitLock`, `BeginImmediate`, `BeginTimesOut` | entering a call without or with `BEGIN IMMEDIATE` (`ImmediateTransaction`, `_UiOwner._run`) |
| `LoadForTransition`, `LoadForPurge`, `LoadForProfile` | `users.get` and the guards on its result |
| `Authorise` | `UserManager._require_permission` |
| `ReadTarget`, `CountActive`, `ListActive`, `ScanUser`, `Conclude` | the last-administrator check, a store call a step |
| `WriteCreate`, `WriteUser`, `WritePurge`, `WriteAdd`, `WriteRemove` | the mutation; outside a boundary it commits at once |
| `WriteRejected`, `WriteBusy` | the store's refusals, and another connection's write lock |
| `Commit`, `Raise`, `Interrupt` | leaving the boundary; an exception or the end of the process at any step |

A caller in `BoundedCallers` runs each call inside `BEGIN IMMEDIATE` on
external-mode stores; the others use operation-mode stores. SQLite has one
writer: `lock` is the connection that has it, `txStatus`/`txGrants` what that
connection reads and has written so far. WAL lets the others read the committed
state meanwhile. `install_local_identity` runs both kinds on one database.

Left out: the profile fields, usernames (a clash is a failure `update_profile`
may meet; `Listing` has them), external identities (`Registration`), the audit
trail (`Listing`).

### Invitations

`InvitationService` over the user store, the grant store, the invitation store
and the capabilities of my-auth (external), which share no transaction. A step
of a caller is one store call; each commits.

| Steps | Code |
| --- | --- |
| `CheckNew`, `Issue`, `CreateUser`, `AddInitialGrant`, `RecordInvitation`, `Compensate` | `invite` and its exception handler |
| `LoadInvitation`, `LoadInvitee` | `_pending_for_lifecycle` and, with the expiry, `_available` |
| `Issue`, `UpdateInvitation`, `RevokePrevious` | `reissue` |
| `RevokeCapability`, `UpdateInvitation` | `revoke` |
| `MatchActivation`, `ResolveIdentity`, `LinkIdentity`, `LoadForTransition`, `WriteActive`, `UpdateInvitation` | `activate` |
| `StoreFails`, `Crash` | a store call raises; the process stops |
| `Consume`, `Expire`, `Administer`, `Purge` | the invited user at my-auth, the clock, account administration, a hard delete with its cascades |

`snapshot` is the invitation a caller has read and writes back as a whole.
`update` only asks that the row exists and that the partial unique index allows
it. An expired invitation is one whose capability has expired, as both take the
same `expires_at`.

Left out: delivery of the link, audit events, the authorisation of the inviting
actor, grants revoked by administrators, and the implicit transaction a failed
`SQLiteInvitationStore` write leaves open (`Connection` has it).

### Claims

The rules of `claims.py` and of the request helpers in `adapters/fastapi.py`, as
the code has them: a second statement of what `manager.py` and `last_admin.py`
(in `AdminAccess`) say. `Principal` is `GrantClaimsProjector.project`,
`LocalPrincipal` the packaged UI's, `RequestAllows`, `RequestHasRole` and
`OwnerOrAdmin` are `require_permission`, `require_role` and
`require_owner_or_admin`. It adds no state: the properties are read on the
grants of `AccountCalls`, before and after each change. `claims.py` knows no
`AdminAccessPredicate` but that of the defaults (`DefaultPredicate`).

### Connection

Threads, connections and one database file, statement by statement.
`journal` is what a connection's transaction has written, with a mark for the
savepoint; `writer` the connection with the file's write lock.

| Steps | Code |
| --- | --- |
| `Call`, `Acquire`, `Refuse` | `_Mutation.__enter__` in operation mode: the lock, then the check for an open transaction |
| `Savepoint` | `__enter__` in external mode |
| `Statement`, `Fails`, `Exit` | the statements; `__exit__` with and without an exception |
| `Begin`, `CommitAll`, `Rollback`, `CommitRaises` | `ImmediateTransaction` |
| `Invite`, `InviteRaises`, `InviteCommit` | `SQLiteInvitationStore.create` and `update`, which write and commit without a lock |

Threads may share a connection for mutations in operation mode; the other two
kinds of calls need a connection of one's own (`Alone`), as `src/README.md:239`
demands. The table of locks is taken to give every connection one lock; reads
without it are left out.

### Listing

The in-memory and the SQLite user, grant and audit stores, each by its own code,
given the same calls, and an administrator who turns pages (`Open`, `TurnPage`)
while others write. A text to look for stands for the names it finds literally in memory
(`casefold`, substring) and as a pattern in SQLite (`LIKE` with `%` and `_`, an ASCII
`lower()`), a time for its wall clock and its zone, which SQLite compares in this
order as text. `Answer` is the hook that asks for one row more than it
shows (`StandardUserManagerUiHooks.list_users` does; for the audit log a host's
`list_audit_events` is taken to do the same), `OffsetOf` the offset `parse_page_query` computes. A `"legacy"` hook
takes neither limit nor query, as `_call_list_hook` still allows.

### Migration

`inspect_sqlite_schema` as the operator `Inspect` over a database that is a
layout, a version and rows; `create_tables`, `migrate_sqlite_schema` and
`SQLiteAuthDatabase.initialize` as a plan of steps, chosen by the inspection
inside `BEGIN IMMEDIATE` and worked through on the image of the transaction.

| Steps | Code |
| --- | --- |
| `Start`, `Begin`, `Busy` | a process opens the database; `BEGIN IMMEDIATE`; the busy timeout |
| `Inspected`, `Refuse` | the inspection and its refusals, a constraint that rejects a step |
| `Upgrade` | a rebuild of grants or audit, v2 to v3, v3 to v4, v4 to v5, create, stamp |
| `Commit`, `Interrupt` | the end of the transaction; a failure or the end of the process |

`create_tables` is for the states a host calls it in (`BootstrapStates`). A database
that is found has rows its columns can hold (`Fits`, assumed in
`DatabasesAssumption`): no user without `um_users`, a name in every row after
version 2, a disabled flag before version 4 and a status since.

### OidcLogin

`GET /oidc/login` and `GET /oidc/callback` with both flow stores, the key cache
and the account. The flow stands for its state, nonce, verifier and binding,
which are drawn together. A callback keeps `now` from its beginning, as the code
does.

| Steps | Code |
| --- | --- |
| `Login`, `Callback` | the two routes; any code and state in any browser |
| `Consume`, `PutBack` | the flow stores' `consume`; the memory store takes the flow out and puts another browser's back |
| `Redeem`, `AskKey`, `FetchKeys`, `StoreKeys` | the token request; `OidcJwksCache.key_for` with its refreshes |
| `Verify`, `Resolve`, `Project`, `Enter`, `Fail` | the checks of the token; `resolve_local_login`: the identity looked up again with its account's status, then the host's projection; the principal is written; any refusal |
| `Tick`, `Authenticate`, `Rotate`, `Disable`, `Enable`, `Relink` | time, the provider, account administration |

The last three steps are apart because no transaction spans them. The two
assignments of `StoreKeys` (keys, then expiry) are one step here, though the code
holds no lock over them.

### RegisteredAccounts and Registration

`RegisteredAccounts` is what a registration promises to somebody who only reads
the database. `Registration` has the worker's transaction, the request that
waits for it, the hooks of a login, and the registration that a host runs on its
own connection; `Promise == INSTANCE RegisteredAccounts WITH committed <- db`.

| Steps | Code |
| --- | --- |
| `Register`, `Begin`, `Save`, `Create`, `Link`, `Grant`, `Commit`, `Fails` | `complete_registration` on a connection of its own |
| `Cancel`, `Drain` | `_drain_registration` |
| `SelfRegister`, `Create`, `Persist`, `Grant`, `Commit`, `Interrupt`, `CloseConnection` | `SQLiteSelfRegistrationService.register` |
| `Login`, `ResolveLink`, `Relink`, `WritePrincipal`, `Answer`, `HookRaises` | the hooks given to my-auth, in any order |
| `AddAccount`, `Disable`, `Purge`, `LinkTo`, `Crash` | the host, and the end of the process |

my-auth is external: its ceremonies, its passkey store, the order of its calls.

### Sessions and UiRequests

`Sessions` has the operations of `SQLiteSessionStore` as operators on the stored
sessions. `UiRequests` has the requests over them: the chain of current user,
administrator, form and confirmation, the hooks that mutate, step-up proofs and
logins. `setup` is how a host puts the parts together: `"hooks"` (stored
sessions; the change of an account and the revocation of its sessions are two
awaited hooks), `"owner"` (a hook is one job and one transaction of the thread
that owns a connection), `"cookie"` (`install_local_identity`: principals in
cookies).

| Steps | Code |
| --- | --- |
| `CurrentUser`, `RequireAdmin`, `Form` (a guard) | `current_user`, `require_admin`, the form and CSRF checks |
| `Issue`, `Consume` | `MemoryStepUpStore` |
| `Disable`, `Enable`, `AfterDisabled`, `GrantRole`, `RevokeRole`, `HardDelete`, `RevokeSession` | the mutation hooks, `resolve` with cancellation; the hook for a changed disabled state runs after an enable too |
| `Login`, `InsertSession` | `SQLiteSessionStore.create` in its two steps |
| `Logout`, `Expire`, `PurgeExpired`, `Fails` | the ends of sessions; every refusal |

The mutations of accounts are one step here; that they may be taken so is what
`AccountCalls` shows of calls inside a boundary.

### MC modules

The instances for TLC: sets of grants, operations, failing steps, rows, events
and databases, and symmetries. Symmetry is used in the runs that check safety
only.

## Runs

| Run | Instance | Shows |
| --- | --- | --- |
| `AccountCalls_guarded` | 3 users, 5 grants (a role, a permission, a scoped role), 2 bounded callers, all calls but UserManager's grants and revokes | `AllTypeOK`, the inductive invariant `IndInv`, `RefusalJustified`, `AdminRetained`, `ImplementsGuarded` |
| `AccountCalls_manager` | 2 users, 5 grants at two scopes through roles and directly, 2 bounded callers | `ClaimsAgree`, `AuthorityAtEffect`, `ImplementsAccountAdmin`, `RequestsMean` |
| `AccountCalls_mixed` | 2 users, the bounded UI and product code that creates users and adds grants; weak fairness | the rules survive this mix (`ImplementsGuarded`), and `CallsEnd` |
| `Invitations_one_caller` | 1 user, 2 invitations, 3 capabilities, 1 caller; purges, failures of every call, crashes | `TypeOK`, `InvitedFullyGranted`, `UsedIsComplete` |
| `Invitations_settlers` | 2 callers of everything; failures inside `invite`, purges | `NoCapabilityLost`, `SettledIsOver`, `RetiredIsOver` |
| `Migration_starts` | 2 processes, 2 users, 1 event; every released layout with every version stamp it can carry, with and without orphan grants, child rows and either foreign key | `TypeOK`, `RowsSurvive`, `UpgradeComplete`, `CallsEnd` |
| `Migration_bootstrap_legacy` | 1 process, unversioned legacy layouts | violation of `UpgradeComplete` by `create_tables` |
| `OidcLogin_callbacks` | 2 callbacks, flows, browsers, users and keys, 1 subject; lifetimes of 1 tick, the clock from 0 to 1 | `TypeOK`, `LoginsBelong`, `CacheFaithful`, `LoginsAreSound` |
| `Registration_requests` | 2 requests over 2 ids | `TypeOK`, `LoginsJustified`, `WholeRegistrations`, `QuietAfterAnswer` |
| `UiRequests_hooks` | 2 users, 2 sessions, 2 requests, 1 proof, the three setups | `TypeOK`, `DisabledIsOut`, `MutationsJustified`, `EndedForGood` |
| `Connection_threads` | 3 threads on 2 connections, 2 mutations each | `TypeOK`, `CleanWhenIdle`, `AnswersTrue`, `MutationsEnd` |
| `Listing_pages` | 3 ids, 4 rows, 5 events of which two pairs share an id and one is in another zone, 3 texts (plain, with a wildcard, found by `casefold` only), pages of 1 or 2 rows | `TypeOK`, `StoresAgree`, `PagesTrue` |

### Bounds

* *AccountCalls.* Initially every status and every set of grants that satisfies
  the foreign key is possible, so a short run starts from any store content. Two
  callers are enough for every race of a check with a write, since the conflicts
  are between pairs; three users are one more than a last administrator and its
  successor, so that a listing has a user to miss. There are no counters.
* *Invitations.* Invitations of different users share nothing but the
  capabilities' names, so one user is enough; two invitation ids allow an
  invitation after a purge, and three capabilities two reissues. `settlers` has
  two callers of everything, which is enough for a race of one with what the
  other has settled. Its store calls fail inside `invite` only, the one call with
  a handler for that; `one_caller` has failures of all.
* *Migration.* A second user is what a username can clash with and what an
  orphan grant belongs to; a second process is what a start can race. Calls are
  not counted: every database is upgraded, refused or interrupted again and
  again.
* *OidcLogin.* `MaxTime` 1 with lifetimes of 1 has the moment before an expiry
  and the expiry itself; two flows are what a cookie or a code can be confused
  with, two keys what a rotation needs. One account at most is disabled at a time.
* *Registration.* The second id is the account another identity is linked to, or
  another passkey's; the second request the retry or the concurrent writer. A
  request starts again without a bound.
* *UiRequests.* Sessions and proofs have ids that are never used again while
  anything speaks of them, so the instance may stop when they run out:
  deadlock is not checked. Two accounts are the last administrator and the other.
* *Connection.* `MaxMutations` bounds the mutations of a thread: two, so that one
  follows whatever the first left. Then the threads stop: deadlock is not
  checked. Three threads are two that share a connection and one beside them.
* *Listing.* Three rows are more than a page and its look-ahead; five events
  contain duplicate ids and two actors at two times in two zones. `PageSize` is 2.

### Fairness

`FairCallsSpec` has weak fairness of every caller's `Step`, not of starting calls
and not of failures: a thread in a call goes on with it. A caller waiting for the
write lock may time out (`BeginTimesOut`), as the busy timeout makes it, so
nothing depends on who gets the lock. `Migration` has weak fairness of a
process's `Proceed`, which includes its busy timeout. `Connection` has it of
`Acquire` or `Refuse`, of a statement or its failure, and of `Exit`; what a host
does in a transaction of its own, and whether it ends it, is left open, so
`MutationsEnd` is of mutations in operation mode. A thread that waits for the
connection's lock is served because a holder goes through a bounded number of
statements. `OidcLogin`, `Registration`, `UiRequests`, `Invitations` and `Listing`
state no fairness: nothing in the code says that a browser comes back or a
provider answers.

## What the models showed

The code disagrees with the documents in three places. The first has a run that
ends in a violation; for the others the properties say what does hold.

* *Legacy layouts* (`Migration_bootstrap_legacy`): `src/README.md:232` says that
  legacy layouts require `migrate_sqlite_schema`. `create_tables` on an unversioned
  legacy database stamps version 5 on tables it has not upgraded
  (`adapters/sqlite_schema.py:230`), and a database with version 2 users is then
  refused by `migrate_sqlite_schema` as well.
* *The last administrator*: `UserManager.revoke_role` and
  `revoke_permission` do not look for him, as `GrantAdminService` does
  (`manager.py:261`); `src/CHANGELOG.md:171` promises protection from revoke lockout,
  and the packaged hooks call the former (`adapters/fastapi_htmx/standard.py:286`).
  `AccountCalls_guarded` is about the calls without these two.
* *Invitations*: `src/README.md:153` says that all revoked or replayed invitations
  fail, and `:151` that a reissue revokes the previous capability. `reissue`,
  `revoke` and `activate` look at the status once and write back a whole row, so
  that an invitation which another caller has revoked becomes pending again
  or activates its account, and of two reissues one leaves the other's capability
  live (`activate` would refuse it). `SettledIsOver`, `RetiredIsOver` and `NoCapabilityLost` say how far
  this goes, for any callers: a call that had read the invitation before can do so,
  and none that begins later.

The properties were stated around the following behaviour of the code, which a
reader of the runs should know; none of it has a run of its own either.

* *Profiles.* `update_profile` outside a boundary writes back the whole row it read
  and so undoes a disable or a soft delete that came in between (`manager.py:245`),
  which `manager.py:186` calls irreversible.
* *What is left of an invitation.* A failed `invite` leaves its pending user
  (`invitations.py:311`), and after a crash between the link and the activation the
  invitation is refused for good (`invitations.py:367`).
* *Transactions.* `ImmediateTransaction.__exit__` does not roll back when COMMIT
  fails (`adapters/sqlite_stores.py:131`), and the invitation store raises without
  a rollback (`adapters/sqlite_invitations.py:108`, `:133`): the connection keeps an
  open transaction, which refuses every mutation in operation mode and which the
  next commit on it may complete.
* *Principals.* The packaged UI's principal counts grants of any scope, and its
  administrator check sees the role and not the permission. The claims of a
  session decide before the scope a request asks for is looked at, and
  `require_role` with a projector asks for the global scope.
* *Stores.* In memory, grants need no user and outlive one. SQLite compares the
  audit log's times as text, so a filter in another zone than the events' selects
  other events than in memory; `%` and `_` in a text filter are wildcards in SQLite
  only, and its `lower()` knows ASCII only. `StoresAgree` says so much: it is about
  texts that find the same names either way and filters in the events' zone, and
  about all grants but those of ids purged or never there. The run has the others.
  `page.py:84` computes the offset without the host's page size when the URL has no
  limit, so that pages overlap; nothing is skipped.
* *Logins.* Between the look-up of an account and the writing of its session or
  principal no transaction holds, in `resolve_local_login` and the callback
  (`adapters/oidc.py:378`, `adapters/oidc_fastapi.py:114`) as in the hooks of a passkey login, whose session
  writer does not look at the status: an account disabled in between is logged in.
  `docs/authentication-boundary.md:46` concedes this. `LoginsAreSound` and
  `LoginsJustified` say how far apart look-up and session can be. A session that is
  inserted after the disable its login overlaps is not among those revoked
  (`adapters/sqlite_sessions.py:222`); `DisabledIsOut` is about those that were there.
* *An interrupt in a host's registration* is no `Exception`, and leaves the
  transaction open (`adapters/sqlite_registration.py:48`). The model's host closes
  the connection; one that commits what is left commits half of a registration.
* *Locks.* `CallsEnd` of `AccountCalls` says that nobody waits for ever. It does not
  say that a caller which failed has given up the lock, as the busy timeout ends the
  calls of the others also then; that is a part of `StoreInv`, which is proved.

## Proofs

`AccountCallsProofs` holds, for every set of users, grants, roles and callers
(assumed: finitely many users, and that role and permission names differ):

* `TypeCorrect`: `CallsSpec => []AllTypeOK`.
* `StoreCorrect`: the lock, the image and every caller's position fit together
  (`StoreInv`), and `NoOrphans`: `CallsSpec => []NoOrphanGrants`. Needed for the
  second: the image of an open transaction has no orphans either, a profile
  update is only reached with a row that exists, and the image equals the store
  except between a caller's write and its commit.
* `BoundedCallsSound`: `CallsSpec => []IndInv`. `IndInv` adds, for every caller
  inside a boundary, what it knows: the status it read is still there
  (`Learnt`), the users it has listed are all the active ones and the answer so
  far is right (`Searched`), and what it will commit is the effect of its call
  on the committed store (`Staged`). It is inductive because of
  `HolderExclusive`: while one caller is inside, nobody else writes.
  That a page of `max(count_active(), 1)` users is all of them is `PageIsAll`.
* `RefusalsJustified`, from the `Searched` part.
* `AtomicCalls`, `AtomicGuardedCalls`: the refinement of `AccountAdmin`, under
  `SafeMix`: callers without a boundary only create users and add grants.
  The guarded one also assumes that nobody uses UserManager's revokes. What goes
  wrong without these assumptions is described above.
* `AdministratorsRetained`, `DeletionFinal`, `AuthorityHeld`: the action
  properties, from the refinement and from what one step of `AccountAdmin`
  preserves.
* `ClaimsAlwaysAgree`: `CallsSpec => []ClaimsAgree`. `SameRule` shows that the two
  statements of which grant allows a permission are one rule, `Projected` what the
  projection holds of one permission; from these the projection, the context and
  `HasPermission` agree, and an administrator by a global projection is one that
  `GrantsQualify`, for any subset of `Grants`. `TypeCorrect` gives the subset. The
  hypothesis is `DefaultPredicate`: a host that has changed the predicate has
  administrators `claims.py` does not know of.
* `RequestsAlwaysMean`: `CallsSpec => RequestsMean`, the same argument on the
  grants before and after a step.

`ConnectionProofs`, for every number of threads, connections and mutations:

* `TypeCorrect`, `ConnectionsLeftClean` (`CleanWhenIdle`) and `AnswersAreTrue`.
* The invariant is about one connection at a time (`ConnInv`), as a step touches
  one: who holds its lock is in a mutation there (`Locked`), what is open is open
  for somebody or was left by a call that raised (`Opened`), and the journal is
  finished mutations, then the mark and what the mutation under way has written
  (`Recorded`). From the last a rollback to the savepoint takes away that mutation
  and nothing else, and a commit adds whole mutations. `Begun` says that who is
  in a transaction of his own has the file's write lock.

`MigrationProofs`, for every set of users, processes, rows and databases:

* `TypeCorrect`, `RowsAlwaysSurvive` (`RowsSurvive`), and `UpgradesAreComplete`
  (`UpgradeComplete`) under `TrueStamps`: a database that is stamped version 5
  has the tables of version 5, and no host calls `create_tables` on a layout that
  inspection finds unsupported. TLC refutes it when either half is dropped: the
  second is the run `Migration_bootstrap_legacy`, and the first is what that
  call leaves behind.
* The invariant relates the image to the database found at the beginning by the
  layout it has reached (`Kept`), and the plan, made by an inspection some steps
  ago, to the image as it is now (`Ahead`): the steps that are left are those this
  image still needs. The first part of the module is the algebra of plans that
  this takes.

`OidcLoginProofs`, for every number of browsers, requests, flows, keys, subjects and
users, and every lifetime:

* `TypeCorrect`, `LoginsAlwaysBelong` (`LoginsBelong`), `CacheAlwaysFaithful`
  (`CacheFaithful`) and the action property `LoginsAlwaysSound` (`LoginsAreSound`).
* A flow is in the store, in the hands of one callback, or has logged in (`Once`);
  a callback that holds one has established where it began and until when it lasts
  (`Established`). For the cache: what a callback has fetched was published after
  the callback began (`Fetched`). For the logins:
  a callback that has gone past its second look-up is one whose account was active
  and linked at that step (`Checked`).

`RegistrationProofs`, for every number of requests and ids:

* `TypeCorrect`, and the action properties `NothingAfterAnswer` (`QuietAfterAnswer`)
  and `SessionsAreJustified` (`LoginsJustified`).
* `RegistrationsAreWhole`: the refinement of `RegisteredAccounts`. Every step maps to
  a step of `Promise` or a stutter. Needed for the commit: the transaction is the
  committed database with the parts written so far, and what it found absent still
  is (`Staged`); for the answers that a request at work is waited for (`Attended`);
  for logins what a request remembers of its subject (`Remembered`).

`UiRequestsProofs`, for every number of accounts, sessions, proofs and requests and
the three setups:

* `TypeCorrect`, `DisabledStaysOut` (`DisabledIsOut`), and the action properties
  `SessionsEndForGood` (`EndedForGood`) and `ChangesAreJustified`
  (`MutationsJustified`).
* Sessions that a disabling has ended are over (`Spent`), those whose end is awaited
  are still of the same account (`Doomed`), a request remembers what it was admitted
  for (`Watched`), and a proof is in the store, with one deletion, or used (`Proven`).

`InvitationsProofs`, for every number of callers, invitations, users, capabilities and
grants:

* `TypeCorrect`, `ActivationsAreWhole` (`UsedIsComplete`), and the action properties
  `CapabilitiesTracked` (`NoCapabilityLost`), `SettledForGood` (`SettledIsOver`) and
  `RetiredForGood` (`RetiredIsOver`), without any hypothesis: whatever is invited,
  reissued, revoked and activated at once, fails, crashes or is purged.
* `InvitationsFullyGranted` (`InvitedFullyGranted`) under `NoReuse`: there is one
  caller, or accounts are never hard-deleted. TLC refutes it otherwise, as two calls
  then work on two users with one id.
* The invariant says of each call what it has read and that the row is still his
  user's or has gone (`Kept`), which grants it has added (`Granting`), what it has
  issued (`Issuing`) and what an activation has done (`Done`); of the store that an
  invitation belongs to an account and has an issued capability (`Rows`). A call keeps
  its own part by its guards and the part of another call because no call takes away
  what another relies on.
* For a capability the proof follows where it is: a step passes it on from one call
  or row to the next, or is one of those of `LetGo` (`StepFollowed`). For what is over:
  what a call has read after a step it had read before, or it finds it pending now
  (`KnownBefore`), and what it has in hand it had, issued or read (`TakenInHand`).

`ListingProofs`, for every set of ids, rows, texts and events and every page size:

* `TypeCorrect`, `StoresAlwaysAgree` (`StoresAgree`) and `PagesAlwaysTrue`
  (`PagesTrue`).
* A list is an enumeration in increasing order (`InOrder`). An enumeration has the
  member of rank `i - 1` in place `i` (`EnumerationRanks`), so that there is one
  only (`OnlyOrder`), and a slice of it is what `LIMIT` and `OFFSET` select by rank
  (`SliceOfOrder`). These are counted, not proved by an induction over the rows.
* The two kinds of stores hold the same (`Mirrors`): the table has a row for every
  user in memory, the rowids number the events, and the ids whose grants are not
  the same are the history `apart`. Every call keeps this, with SQLite's
  constraints and Python's checks each as they are.
* For pages the invariant relates a reader to the list as it is now (`Reads`): what
  he has not seen of the rows that stayed is beyond the start of his next page
  (`NothingSkipped`), as a page is no shorter than the way to the next; and what he
  has seen is the start of the list where that is promised (`FromTheStart`). Calls
  keep it because rows that come move the others only to the back (`OrderGrows`),
  and an event goes to the end of every list it is on (`AuditGrows`).

Assumed throughout are the named assumptions of the modules: that names such as
`None` are none of the values they stand beside, that ids of `Listing` are finitely many
numbers, that bounds are natural numbers,
and what `Fits` says.

Only model-checked are the liveness properties (`CallsEnd` of `AccountCalls` and of
`Migration`, `MutationsEnd`), as liveness under fairness is out of the prover's
reach. The invariants and action properties of passing runs are stated by
theorems, some under a hypothesis that is named there.

## Not modelled

* *Connections used against the README*: one connection in several threads without
  coordination, external-mode mutations of two threads on one connection, reads
  without the lock beside another thread's mutation. `src/README.md:239` excludes
  them, and what SQLite does then depends on the interpreter's scheduling.
* *Migration*: rows of tables that reference other tables than `um_users`, the rows
  of host tables in an upgrade that begins at version 2 (they are lost where the
  foreign key cascades; `RowsSurvive` excepts them), and my-auth's own upgrade,
  which is external and one step.
* *OIDC*: discovery of the provider's metadata, checks of URLs, cryptography, and
  the claims of a token other than its nonce, key and subject.
* *Identities*: `derive_local_user_id`, a hash for subjects that are no valid ids.
* *Sessions*: the optional `refresh_principal`; the exception of `revoke_all`.
* *Invitations*: delivery of the link and the audit events.
* *Presentation*: rendering, templates, forms, configuration, the wiring of routes,
  the wording of errors, static files, the validation of single values. They keep
  no state, and the models start from values that are valid.
* *`link_external_identity`'s second read* after its commit, in `AccountCalls`: a purge
  in between makes the call raise after the link was made, and the purge has removed
  the link again.
