---------------------------- MODULE AccountCalls ----------------------------
(***************************************************************************)
(* UserManager and GrantAdminService as they run: each caller makes one    *)
(* call at a time, and a call is the store calls of its code, one a step,  *)
(* with the steps of other callers between them.                           *)
(*                                                                         *)
(* A bounded caller runs a call inside BEGIN IMMEDIATE, on stores with     *)
(* transaction_mode="external": the atomic= boundary of transition_account *)
(* and of the revokes of GrantAdminService, the transaction a host opens   *)
(* around the other calls, and the one _UiOwner opens around every         *)
(* mutation hook of the packaged UI.                                       *)
(* SQLite lets one connection hold the write lock; what it writes is its   *)
(* own image (txStatus, txGrants) until it commits.                        *)
(*                                                                         *)
(* Any other caller has operation-mode stores and no boundary, and each    *)
(* store call is its own transaction.  Both kinds may share one database:  *)
(* install_local_identity opens a bounded connection for the packaged UI   *)
(* and an operation-mode one for the manager it hands to the product.      *)
(*                                                                         *)
(* Left out: usernames (a clash is a failure update_profile may meet), the *)
(* profile fields, external identities and the audit trail.                *)
(***************************************************************************)
EXTENDS AccountAdmin, Naturals, FiniteSets

CONSTANTS
  Callers,   \* threads or processes, each with a connection of its own
  NoCaller,  \* nobody holds the write lock
  BoundedCallers, \* the callers whose calls run inside BEGIN IMMEDIATE
  Ops        \* caller -> the operations it uses

AllOps == {"create", "transition", "purge", "profile",
           "adminGrant", "adminRevoke", "managerGrant", "managerRevoke"}

ASSUME CallersAssumption ==
  /\ IsFiniteSet(Users)
  /\ NoCaller \notin Callers
  /\ BoundedCallers \subseteq Callers
  /\ Ops \in [Callers -> SUBSET AllOps]

VARIABLES
  txStatus, txGrants, \* the image the holder of the write lock reads and writes
  lock,               \* the caller inside BEGIN IMMEDIATE, or NoCaller
  pc,                 \* caller -> the store call it makes next
  call,               \* caller -> the call under way
  seen,               \* caller -> the account status users.get returned
  limit,              \* caller -> the LIMIT of the list of active users
  todo,               \* caller -> listed users whose grants are still to be read
  found               \* caller -> another active administrator has been counted

db    == <<status, grants>>
image == <<txStatus, txGrants>>
local == <<call, seen, limit, todo, found>>
allVars == <<status, grants, txStatus, txGrants, lock, pc,
             call, seen, limit, todo, found>>

----------------------------------------------------------------------------
(* Calls *)

NoCall == [op |-> "none"]

CreateCalls == [op : {"create"}, user : Users, to : {"pending", "active"}]
TransitionCalls == [op : {"transition"}, user : Users, to : AccountStatuses]
UserCalls == [op : {"purge", "profile"}, user : Users]
ServiceCalls == [op : {"adminGrant", "adminRevoke"}, grant : Grants]
ManagerCalls == [op : {"managerGrant", "managerRevoke"}, actor : Users, grant : Grants]

Calls == CreateCalls \cup TransitionCalls \cup UserCalls
           \cup ServiceCalls \cup ManagerCalls

\* The user a last-administrator check is about.
Target(k) == IF k.op = "adminRevoke" THEN k.grant.user ELSE k.user

Needed(k) ==
  IF k.op = "managerGrant"
  THEN PermissionNeeded(k.grant, RolesAssign, PermissionsGrant)
  ELSE PermissionNeeded(k.grant, RolesAssign, PermissionsRevoke)

\* The first store call of a call.  A revoke of a grant that confers no
\* administrative access skips the check.
FirstStep(k) ==
  CASE k.op \in {"transition", "purge", "profile"}   -> "load"
    [] k.op \in {"managerGrant", "managerRevoke"}    -> "authorise"
    [] k.op = "adminRevoke" /\ GrantQualifies(k.grant) -> "target"
    [] OTHER                                         -> "write"

Steps == {"idle", "begin", "load", "authorise", "target", "count", "list",
          "scan", "write", "commit", "refuse", "fail"}

----------------------------------------------------------------------------
(* The store: status, grants and the image of the open transaction *)

AllTypeOK ==
  /\ TypeOK
  /\ txStatus \in [Users -> Statuses]
  /\ txGrants \in SUBSET Grants
  /\ lock \in Callers \cup {NoCaller}
  /\ pc \in [Callers -> Steps]
  /\ call \in [Callers -> Calls \cup {NoCall}]
  /\ seen \in [Callers -> Statuses]
  /\ limit \in [Callers -> Nat \ {0}]
  /\ todo \in [Callers -> SUBSET Users]
  /\ found \in [Callers -> BOOLEAN]

CallsInit ==
  /\ Init
  /\ txStatus = status
  /\ txGrants = grants
  /\ lock = NoCaller
  /\ pc = [c \in Callers |-> "idle"]
  /\ call = [c \in Callers |-> NoCall]
  /\ seen = [c \in Callers |-> Absent]
  /\ limit = [c \in Callers |-> 1]
  /\ todo = [c \in Callers |-> {}]
  /\ found = [c \in Callers |-> FALSE]

\* The call returns or raises: what it had read is gone.
Return(c) ==
  /\ pc' = [pc EXCEPT ![c] = "idle"]
  /\ call' = [call EXCEPT ![c] = NoCall]
  /\ seen' = [seen EXCEPT ![c] = Absent]
  /\ limit' = [limit EXCEPT ![c] = 1]
  /\ todo' = [todo EXCEPT ![c] = {}]
  /\ found' = [found EXCEPT ![c] = FALSE]

Goto(c, step) == pc' = [pc EXCEPT ![c] = step]

\* What caller c reads: its own image inside a transaction, else what is committed.
StatusSeen(c) == IF lock = c THEN txStatus ELSE status
GrantsSeen(c) == IF lock = c THEN txGrants ELSE grants

\* One mutation.  Inside a boundary it changes the caller's image.  Without one
\* _Mutation takes the write lock and commits before the store call returns,
\* and the call is over.
Mutate(c, st, gr) ==
  /\ lock \in {c, NoCaller}
  /\ txStatus' = st
  /\ txGrants' = gr
  /\ UNCHANGED lock
  /\ IF lock = c
     THEN Goto(c, "commit") /\ UNCHANGED <<db, local>>
     ELSE status' = st /\ grants' = gr /\ Return(c)

----------------------------------------------------------------------------
(* Entering the boundary *)

\* One of the enabled operations, and its first store call.
Enter(c) ==
  \E k \in Calls :
    /\ k.op \in Ops[c]
    /\ call' = [call EXCEPT ![c] = k]
    /\ Goto(c, FirstStep(k))

\* Without a boundary a call begins at once.
StartCall(c) ==
  /\ pc[c] = "idle" /\ c \notin BoundedCallers
  /\ Enter(c)
  /\ UNCHANGED <<db, image, lock, seen, limit, todo, found>>

\* With one it first waits for the write lock.  Nothing is read before the lock
\* is held, so which call it is going to be is chosen then.
AwaitLock(c) ==
  /\ pc[c] = "idle" /\ c \in BoundedCallers
  /\ Goto(c, "begin")
  /\ UNCHANGED <<db, image, lock, local>>

\* Mutant: BEGIN in place of BEGIN IMMEDIATE, which takes no write lock.
BeginImmediate_Deferred(c) ==
  /\ pc[c] = "begin"
  /\ lock' = c
  /\ Enter(c)
  /\ UNCHANGED <<db, image, seen, limit, todo, found>>

BeginImmediate(c) ==
  /\ pc[c] = "begin"
  /\ lock = NoCaller
  /\ lock' = c
  /\ Enter(c)
  /\ UNCHANGED <<db, image, seen, limit, todo, found>>

\* The busy timeout runs out while another connection holds the write lock.
BeginTimesOut(c) ==
  /\ pc[c] = "begin"
  /\ lock # NoCaller
  /\ Return(c)
  /\ UNCHANGED <<db, image, lock>>

----------------------------------------------------------------------------
(* users.get and the guards on what it returned *)

\* Mutant: the lifecycle table is not consulted.
LoadForTransition_AnyStatus(c) ==
  LET s == StatusSeen(c)[call[c].user] IN
  /\ pc[c] = "load" /\ call[c].op = "transition"
  /\ seen' = [seen EXCEPT ![c] = s]
  /\ Goto(c, IF s = Absent THEN "fail"
             ELSE IF Deactivates(call[c].to) /\ s = "active" THEN "target" ELSE "write")
  /\ UNCHANGED <<db, image, lock, call, limit, todo, found>>

LoadForTransition(c) ==
  LET s == StatusSeen(c)[call[c].user] IN
  /\ pc[c] = "load" /\ call[c].op = "transition"
  /\ seen' = [seen EXCEPT ![c] = s]
  /\ Goto(c, IF ~LegalTransition(s, call[c].to) THEN "fail"
             ELSE IF Deactivates(call[c].to) /\ s = "active" THEN "target" ELSE "write")
  /\ UNCHANGED <<db, image, lock, call, limit, todo, found>>

LoadForPurge(c) ==
  LET s == StatusSeen(c)[call[c].user] IN
  /\ pc[c] = "load" /\ call[c].op = "purge"
  /\ seen' = [seen EXCEPT ![c] = s]
  /\ Goto(c, IF s = "deleted" THEN "write" ELSE "fail")
  /\ UNCHANGED <<db, image, lock, call, limit, todo, found>>

\* The username may be taken by another user, whatever the statuses.
LoadForProfile(c) ==
  LET s == StatusSeen(c)[call[c].user] IN
  /\ pc[c] = "load" /\ call[c].op = "profile"
  /\ seen' = [seen EXCEPT ![c] = s]
  /\ \E usernameTaken \in BOOLEAN :
       Goto(c, IF s = Absent \/ usernameTaken THEN "fail" ELSE "write")
  /\ UNCHANGED <<db, image, lock, call, limit, todo, found>>

\* Mutant: a grant at any scope authorises the call.
Authorise_AnyScope(c) ==
  /\ pc[c] = "authorise"
  /\ Goto(c, IF \E g \in GrantsOf(GrantsSeen(c), call[c].actor) : GrantAllows(g, Needed(call[c]))
             THEN "write" ELSE "fail")
  /\ UNCHANGED <<db, image, lock, local>>

\* _require_permission: the actor's grants, read once.
Authorise(c) ==
  LET k == call[c] IN
  /\ pc[c] = "authorise"
  /\ Goto(c, IF HasPermission(GrantsSeen(c), k.actor, Needed(k), k.grant.scope)
             THEN "write" ELSE "fail")
  /\ UNCHANGED <<db, image, lock, local>>

----------------------------------------------------------------------------
(* The last-administrator check: count_active_administrators and its callers *)

\* list_grants_for_user of the target, for a revoke without the revoked grant.
ReadTarget(c) ==
  LET k == call[c]
      own == GrantsOf(GrantsSeen(c), Target(k))
      safe == IF k.op = "adminRevoke" THEN GrantsQualify(own \ {k.grant})
                                      ELSE ~GrantsQualify(own) IN
  /\ pc[c] = "target"
  /\ Goto(c, IF safe THEN "write" ELSE "count")
  /\ UNCHANGED <<db, image, lock, local>>

ActiveUsers(st) == {u \in Users : st[u] = "active"}

\* Mutant: the page may be empty.
ListLimit_NoFloor(n) == n

\* limit = max(users.count_active(), 1)
ListLimit(n) == IF n = 0 THEN 1 ELSE n

CountActive(c) ==
  /\ pc[c] = "count"
  /\ limit' = [limit EXCEPT ![c] = ListLimit(Cardinality(ActiveUsers(StatusSeen(c))))]
  /\ Goto(c, "list")
  /\ UNCHANGED <<db, image, lock, call, seen, todo, found>>

\* Mutant: the listing is a fixed page of one user.
ListActive_FirstPage(c) ==
  /\ pc[c] = "list"
  /\ \E page \in SUBSET ActiveUsers(StatusSeen(c)) :
       /\ Cardinality(page) <= 1
       /\ page = {} => ActiveUsers(StatusSeen(c)) = {}
       /\ todo' = [todo EXCEPT ![c] = page]
  /\ Goto(c, "scan")
  /\ UNCHANGED <<db, image, lock, call, seen, limit, found>>

\* users.list: the first limit active users, in an order of the store's own.
ListActive(c) ==
  /\ pc[c] = "list"
  /\ \E page \in SUBSET ActiveUsers(StatusSeen(c)) :
       /\ Cardinality(page) <= limit[c]
       /\ page = ActiveUsers(StatusSeen(c)) \/ Cardinality(page) = limit[c]
       /\ todo' = [todo EXCEPT ![c] = page]
  /\ Goto(c, "scan")
  /\ UNCHANGED <<db, image, lock, call, seen, limit, found>>

\* Mutant: the target counts as its own successor.
ScanUser_CountsTarget(c) ==
  /\ pc[c] = "scan"
  /\ \E u \in todo[c] :
       /\ todo' = [todo EXCEPT ![c] = @ \ {u}]
       /\ found' = [found EXCEPT ![c] = @ \/ GrantsQualify(GrantsOf(GrantsSeen(c), u))]
  /\ UNCHANGED <<db, image, lock, pc, call, seen, limit>>

\* Mutant: the listing is not consumed.
ScanUser_NoProgress(c) ==
  /\ pc[c] = "scan"
  /\ \E u \in todo[c] :
       found' = [found EXCEPT ![c] =
                   @ \/ (u # Target(call[c]) /\ GrantsQualify(GrantsOf(GrantsSeen(c), u)))]
  /\ UNCHANGED <<db, image, lock, pc, call, seen, limit, todo>>

\* One turn of the loop.  The target is left out: a deactivation excludes it,
\* and a revoke counts it by the grants it would keep, which do not qualify.
ScanUser(c) ==
  /\ pc[c] = "scan"
  /\ \E u \in todo[c] :
       /\ todo' = [todo EXCEPT ![c] = @ \ {u}]
       /\ found' = [found EXCEPT ![c] =
                      @ \/ (u # Target(call[c]) /\ GrantsQualify(GrantsOf(GrantsSeen(c), u)))]
  /\ UNCHANGED <<db, image, lock, pc, call, seen, limit>>

\* remaining = 0 raises LastAdministratorError or UnsafeGrantMutationError.
Conclude(c) ==
  /\ pc[c] = "scan" /\ todo[c] = {}
  /\ Goto(c, IF found[c] THEN "write" ELSE "refuse")
  /\ UNCHANGED <<db, image, lock, local>>

----------------------------------------------------------------------------
(* The mutation *)

WriteCreate(c) ==
  LET k == call[c] IN
  /\ pc[c] = "write" /\ k.op = "create"
  /\ StatusSeen(c)[k.user] = Absent
  /\ Mutate(c, [StatusSeen(c) EXCEPT ![k.user] = k.to], GrantsSeen(c))

\* users.update rewrites the row: transition_account with the new status,
\* update_profile with the status it has read.
WriteUser(c) ==
  LET k == call[c] IN
  /\ pc[c] = "write" /\ k.op \in {"transition", "profile"}
  /\ StatusSeen(c)[k.user] # Absent
  /\ Mutate(c, [StatusSeen(c) EXCEPT ![k.user] = IF k.op = "transition" THEN k.to ELSE seen[c]],
            GrantsSeen(c))

WritePurge(c) ==
  LET k == call[c] IN
  /\ pc[c] = "write" /\ k.op = "purge"
  /\ StatusSeen(c)[k.user] # Absent
  /\ Mutate(c, [StatusSeen(c) EXCEPT ![k.user] = Absent],
            GrantsSeen(c) \ GrantsOf(GrantsSeen(c), k.user))

WriteAdd(c) ==
  LET k == call[c] IN
  /\ pc[c] = "write" /\ k.op \in {"adminGrant", "managerGrant"}
  /\ StatusSeen(c)[k.grant.user] # Absent
  /\ k.grant \notin GrantsSeen(c)
  /\ Mutate(c, StatusSeen(c), GrantsSeen(c) \cup {k.grant})

WriteRemove(c) ==
  LET k == call[c] IN
  /\ pc[c] = "write" /\ k.op \in {"adminRevoke", "managerRevoke"}
  /\ k.grant \in GrantsSeen(c)
  /\ Mutate(c, StatusSeen(c), GrantsSeen(c) \ {k.grant})

\* Duplicate user, no such user, duplicate grant, no such grant.
WriteRejected(c) ==
  LET k == call[c] IN
  /\ pc[c] = "write" /\ lock \in {c, NoCaller}
  /\ \/ k.op = "create" /\ StatusSeen(c)[k.user] # Absent
     \/ k.op \in {"transition", "profile", "purge"} /\ StatusSeen(c)[k.user] = Absent
     \/ /\ k.op \in {"adminGrant", "managerGrant"}
        /\ StatusSeen(c)[k.grant.user] = Absent \/ k.grant \in GrantsSeen(c)
     \/ k.op \in {"adminRevoke", "managerRevoke"} /\ k.grant \notin GrantsSeen(c)
  /\ Goto(c, "fail")
  /\ UNCHANGED <<db, image, lock, local>>

\* A mutation without a boundary gives up while another connection writes.
WriteBusy(c) ==
  /\ pc[c] = "write" /\ lock \notin {c, NoCaller}
  /\ Goto(c, "fail")
  /\ UNCHANGED <<db, image, lock, local>>

----------------------------------------------------------------------------
(* Leaving the boundary *)

Release(c) == lock' = IF lock = c THEN NoCaller ELSE lock

Commit(c) ==
  /\ pc[c] = "commit"
  /\ status' = txStatus
  /\ grants' = txGrants
  /\ Release(c)
  /\ Return(c)
  /\ UNCHANGED image

\* Mutant: the exception leaves the transaction's writes behind.
Abandon_KeepsImage(c) ==
  /\ Release(c)
  /\ Return(c)
  /\ UNCHANGED <<db, image>>

\* rollback() drops the image; without a boundary nothing is open.
Abandon(c) ==
  /\ IF lock = c THEN txStatus' = status /\ txGrants' = grants ELSE UNCHANGED image
  /\ Release(c)
  /\ Return(c)
  /\ UNCHANGED db

Raise(c) == pc[c] \in {"refuse", "fail"} /\ Abandon(c)

\* An exception at any point of a call (a store error, an interrupt, the death
\* of the process, whose connection SQLite rolls back).
Interrupt(c) == pc[c] \notin {"idle", "refuse", "fail"} /\ Abandon(c)

----------------------------------------------------------------------------

Step(c) ==
  \/ BeginImmediate(c) \/ BeginTimesOut(c)
  \/ LoadForTransition(c) \/ LoadForPurge(c) \/ LoadForProfile(c) \/ Authorise(c)
  \/ ReadTarget(c) \/ CountActive(c) \/ ListActive(c) \/ ScanUser(c) \/ Conclude(c)
  \/ WriteCreate(c) \/ WriteUser(c) \/ WritePurge(c) \/ WriteAdd(c) \/ WriteRemove(c)
  \/ WriteRejected(c) \/ WriteBusy(c)
  \/ Commit(c) \/ Raise(c)

CallerNext(c) == StartCall(c) \/ AwaitLock(c) \/ Step(c) \/ Interrupt(c)

CallsNext == \E c \in Callers : CallerNext(c)

CallsSpec == CallsInit /\ [][CallsNext]_allVars

\* A thread that is in a call goes on with it.
FairCallsSpec == CallsSpec /\ \A c \in Callers : WF_allVars(Step(c))

----------------------------------------------------------------------------
(* What the calls guarantee *)

\* Once there is an active administrator there always is one: two removals that
\* race cannot both succeed when they would leave none.
AdminRetained ==
  [][ActiveAdmins(status, grants) # {} => ActiveAdmins(status', grants') # {}]_db

\* LastAdministratorError is raised only when the call really would leave no
\* active administrator, not because the listing missed one.
RefusalJustified ==
  \A c \in BoundedCallers : pc[c] = "refuse" =>
    IF call[c].op = "adminRevoke"
    THEN ActiveAdmins(status, grants \ {call[c].grant}) = {}
    ELSE ActiveAdmins(status, grants) \ {call[c].user} = {}

\* A soft-deleted account never becomes usable again: it stays deleted until
\* its row is purged.
DeletedIsFinal ==
  [][\A u \in Users : status[u] = "deleted" => status'[u] \in {"deleted", Absent}]_db

\* When a UserManager grant or revoke takes effect, its actor holds the
\* authority for it at that very moment, whatever other callers revoked since
\* the check.
AuthorityAtEffect ==
  [][\A c \in Callers :
       (call[c].op \in {"managerGrant", "managerRevoke"} /\ call'[c] = NoCall)
         => HasPermission(grants, call[c].actor, Needed(call[c]), call[c].grant.scope)]_db

\* Every call takes effect as one step of AccountAdmin, on the state it finds
\* when it commits.  Guarded: the calls are those with the last-administrator
\* check, without UserManager.revoke_role and revoke_permission.
ImplementsGuarded == GuardedSpec
ImplementsAccountAdmin == Spec

\* Every call ends.
CallsEnd == \A c \in Callers : pc[c] # "idle" ~> pc[c] = "idle"

----------------------------------------------------------------------------
(* The inductive invariant behind them *)

\* Product code outside a boundary only adds users and grants: nothing it does
\* rests on something it has read before.
SafeMix == \A c \in Callers \ BoundedCallers : Ops[c] \subseteq {"create", "adminGrant"}

InTransaction(c) == c \in BoundedCallers /\ pc[c] \notin {"idle", "begin"}

\* The write lock belongs to the one bounded caller inside its call.
LockInv ==
  /\ \A c \in Callers : lock = c <=> InTransaction(c)
  /\ \A c \in Callers \ BoundedCallers : pc[c] \notin {"begin", "commit"}

\* The image differs from what is committed only between a bounded caller's
\* mutation and its commit.
ImageInv ==
  (\A c \in Callers : pc[c] # "commit") => txStatus = status /\ txGrants = grants

NoOrphansInImage == \A g \in txGrants : txStatus[g.user] # Absent

\* A call under way is one its caller makes, at a step that operation has.
CallInv(c) ==
  LET k == call[c] IN
  /\ IF pc[c] \in {"idle", "begin"} THEN k = NoCall ELSE k \in Calls /\ k.op \in Ops[c]
  /\ pc[c] = "authorise" => k.op \in {"managerGrant", "managerRevoke"}
  /\ pc[c] \in {"target", "count", "list", "scan", "refuse"} =>
       \/ k.op = "transition" /\ Deactivates(k.to)
       \/ k.op = "adminRevoke"
  /\ pc[c] = "write" /\ k.op = "profile" => seen[c] # Absent

\* The store and the callers' places in it, whatever the callers' boundaries.
StoreInv ==
  /\ AllTypeOK /\ LockInv /\ ImageInv
  /\ NoOrphanGrants /\ NoOrphansInImage
  /\ \A c \in Callers : CallInv(c)

\* The other active administrators the check looks for.
Successors(k) == ActiveAdmins(status, grants) \ {Target(k)}

\* What the last-administrator check of a caller inside a boundary has found
\* out: it reads every active user, so it ends with the right answer.
Searched(c) ==
  LET k == call[c] IN
  /\ found[c] => pc[c] \notin {"idle", "begin"} /\ Successors(k) # {}
  /\ pc[c] = "list" => limit[c] = ListLimit(Cardinality(ActiveUsers(status)))
  /\ pc[c] = "scan" =>
       /\ todo[c] \subseteq ActiveUsers(status)
       /\ ~found[c] => Successors(k) \subseteq todo[c]
  /\ pc[c] = "refuse" => Successors(k) = {}
  /\ (k.op = "adminRevoke" /\ pc[c] \in {"count", "list", "scan", "refuse"}) =>
       ~GrantsQualify(GrantsOf(grants \ {k.grant}, k.grant.user))

\* What its guards have learnt of the store is still true of it.
Learnt(c) ==
  LET k == call[c] IN
  /\ (k.op = "transition" /\ pc[c] \in {"target", "count", "list", "scan", "write"}) =>
       seen[c] = status[k.user] /\ LegalTransition(seen[c], k.to)
  /\ pc[c] = "write" =>
       /\ k.op = "transition" /\ Deactivates(k.to) =>
            DeactivationAllowed(status, grants, k.user)
       /\ k.op = "adminRevoke" => RevokeAllowed(status, grants, k.grant)
       /\ k.op = "profile" => seen[c] = status[k.user]
       /\ k.op = "purge" => status[k.user] = "deleted"
       /\ k.op \in {"managerGrant", "managerRevoke"} =>
            HasPermission(grants, k.actor, Needed(k), k.grant.scope)

\* What is about to be committed is the effect of the call on what is committed.
Staged(c) ==
  LET k == call[c]
      Changes(st, gr) == txStatus = st /\ txGrants = gr IN
  \/ k.op = "create" /\ status[k.user] = Absent
       /\ Changes([status EXCEPT ![k.user] = k.to], grants)
  \/ k.op = "transition" /\ LegalTransition(status[k.user], k.to)
       /\ (Deactivates(k.to) => DeactivationAllowed(status, grants, k.user))
       /\ Changes([status EXCEPT ![k.user] = k.to], grants)
  \/ k.op = "profile" /\ Changes(status, grants)
  \/ k.op = "purge" /\ status[k.user] = "deleted"
       /\ Changes([status EXCEPT ![k.user] = Absent], grants \ GrantsOf(grants, k.user))
  \/ k.op \in {"adminGrant", "managerGrant"}
       /\ status[k.grant.user] # Absent /\ k.grant \notin grants
       /\ (k.op = "managerGrant" =>
             HasPermission(grants, k.actor, Needed(k), k.grant.scope))
       /\ Changes(status, grants \cup {k.grant})
  \/ k.op = "adminRevoke" /\ k.grant \in grants
       /\ RevokeAllowed(status, grants, k.grant)
       /\ Changes(status, grants \ {k.grant})
  \/ k.op = "managerRevoke" /\ k.grant \in grants
       /\ HasPermission(grants, k.actor, Needed(k), k.grant.scope)
       /\ Changes(status, grants \ {k.grant})

\* Why a bounded call takes effect on the state it finds, whatever the callers
\* without a boundary do.
IndInv ==
  /\ StoreInv
  /\ \A c \in BoundedCallers :
       Searched(c) /\ Learnt(c) /\ (pc[c] = "commit" => Staged(c))
=============================================================================
