---------------------------- MODULE Invitations ----------------------------
(***************************************************************************)
(* The life of an invitation (invitations.py, InvitationService), one      *)
(* store call a step.                                                      *)
(*                                                                         *)
(* A call works on the user store, the grant store, the invitation store   *)
(* and the enrolment capabilities of my-auth, which share no transaction:  *)
(* SQLiteInvitationStore commits each of its writes, and so do the others  *)
(* in operation mode.  Steps of other callers, of the invited user, of the *)
(* administration of accounts and of the clock come in between, a store    *)
(* call may fail, and the process may die.                                 *)
(*                                                                         *)
(* The external identity of an invited user has the user id as its         *)
(* subject, so an identity is the user it belongs to.  Every caller has a  *)
(* connection of its own.  Left out: the audit trail, the authorisation of *)
(* the inviting actor (a call that is refused changes nothing), grants     *)
(* taken back by administrators, and the transaction that a failed write   *)
(* of SQLiteInvitationStore leaves open.                                   *)
(***************************************************************************)
EXTENDS AccountLifecycle

CONSTANTS
  Users,         \* the user ids that are invited
  InitialGrants, \* the grants every invitation hands out
  InvitationIds, \* bounds the invitations ever issued
  Capabilities,  \* bounds the capabilities ever issued
  Callers,       \* threads or processes that use InvitationService
  Ops,           \* caller -> the operations it uses
  AdminTargets,  \* the statuses account administration moves accounts to
  Purges,        \* whether accounts are hard-deleted
  FailingSteps,  \* the steps whose store call may raise
  Crashes,       \* whether a caller may stop between two store calls
  None           \* no capability, no invitation

ASSUME InvitationsAssumption ==
  /\ Ops \in [Callers -> SUBSET {"invite", "reissue", "revoke", "activate"}]
  /\ AdminTargets \subseteq AccountStatuses
  /\ Purges \in BOOLEAN /\ Crashes \in BOOLEAN
  /\ None \notin Capabilities

VARIABLES
  status,     \* user id -> account status
  granted,    \* user id -> its initial grants that are stored
  linked,     \* the users with an external identity
  invitation, \* id -> the invitation stored, or where there is none why
  capability, \* id -> my-auth's record of it
  expired,    \* capabilities whose expiry has passed, and their invitations
  pc,         \* caller -> the store call it makes next
  call,       \* caller -> the call under way
  snapshot,   \* caller -> the invitation it has read
  mine,       \* caller -> the capability it has issued
  todo        \* caller -> initial grants still to be added

stores == <<status, granted, linked, invitation, capability, expired>>
locals == <<pc, call, snapshot, mine, todo>>
vars == <<status, granted, linked, invitation, capability, expired,
          pc, call, snapshot, mine, todo>>

NoRow == [status |-> "none"]        \* never issued
DeletedRow == [status |-> "purged"] \* deleted with its user
InvitationStatuses == {"pending", "used", "revoked"}
Invitation == [user : Users, cap : Capabilities, status : InvitationStatuses]

Unissued == [state |-> "unissued"]
Capability == [subject : Users, state : {"live", "consumed", "revoked"}]

NoCall == [op |-> "none"]
Calls == [op : {"invite"}, user : Users]
           \cup [op : {"reissue", "revoke"}, inv : InvitationIds]
           \cup [op : {"activate"}, inv : InvitationIds, cap : Capabilities]

Steps == {"idle", "check", "issue", "create", "grant", "record", "compensate",
          "load", "user", "update", "revokeOld", "revokeCap",
          "match", "resolve", "link", "transition", "write"}

TypeOK ==
  /\ status \in [Users -> Statuses]
  /\ granted \in [Users -> SUBSET InitialGrants]
  /\ linked \in SUBSET Users
  /\ invitation \in [InvitationIds -> Invitation \cup {NoRow, DeletedRow}]
  /\ capability \in [Capabilities -> Capability \cup {Unissued}]
  /\ expired \in SUBSET Capabilities
  /\ pc \in [Callers -> Steps]
  /\ call \in [Callers -> Calls \cup {NoCall}]
  /\ snapshot \in [Callers -> Invitation \cup {NoRow}]
  /\ mine \in [Callers -> Capabilities \cup {None}]
  /\ todo \in [Callers -> SUBSET InitialGrants]

Init ==
  /\ status = [u \in Users |-> Absent]
  /\ granted = [u \in Users |-> {}]
  /\ linked = {}
  /\ invitation = [i \in InvitationIds |-> NoRow]
  /\ capability = [k \in Capabilities |-> Unissued]
  /\ expired = {}
  /\ pc = [c \in Callers |-> "idle"]
  /\ call = [c \in Callers |-> NoCall]
  /\ snapshot = [c \in Callers |-> NoRow]
  /\ mine = [c \in Callers |-> None]
  /\ todo = [c \in Callers |-> {}]

----------------------------------------------------------------------------
(* Calls *)

Start(c) ==
  /\ pc[c] = "idle"
  /\ \E k \in Calls :
       /\ k.op \in Ops[c]
       /\ k.op # "invite" => invitation[k.inv] # NoRow
       \* the host activates when my-auth has consumed the capability
       /\ k.op = "activate" => capability[k.cap].state = "consumed"
       /\ call' = [call EXCEPT ![c] = k]
       /\ pc' = [pc EXCEPT ![c] = IF k.op = "invite" THEN "check" ELSE "load"]
  /\ UNCHANGED <<stores, snapshot, mine, todo>>

\* The call returns or raises.
Return(c) ==
  /\ pc' = [pc EXCEPT ![c] = "idle"]
  /\ call' = [call EXCEPT ![c] = NoCall]
  /\ snapshot' = [snapshot EXCEPT ![c] = NoRow]
  /\ mine' = [mine EXCEPT ![c] = None]
  /\ todo' = [todo EXCEPT ![c] = {}]

Goto(c, step) ==
  /\ pc' = [pc EXCEPT ![c] = step]
  /\ UNCHANGED <<call, snapshot, mine, todo>>

\* my-auth revokes a capability that has not been consumed.
Revoked(k) ==
  IF capability[k].state = "live"
  THEN [capability EXCEPT ![k].state = "revoked"] ELSE capability

\* The user the call is about.
Invitee(c) == IF call[c].op = "invite" THEN call[c].user ELSE snapshot[c].user

\* Both issue a capability for the invited user.
Issue(c) ==
  /\ pc[c] = "issue"
  /\ \E k \in Capabilities :
       /\ capability[k] = Unissued
       /\ capability' = [capability EXCEPT ![k] = [subject |-> Invitee(c), state |-> "live"]]
       /\ mine' = [mine EXCEPT ![c] = k]
  /\ pc' = [pc EXCEPT ![c] = IF call[c].op = "invite" THEN "create" ELSE "update"]
  /\ todo' = [todo EXCEPT ![c] = InitialGrants]
  /\ UNCHANGED <<status, granted, linked, invitation, expired, call, snapshot>>

\* The issuer refuses, as it does when the bound is reached.
IssueRefused(c) ==
  /\ pc[c] = "issue"
  /\ \A k \in Capabilities : capability[k] # Unissued
  /\ Return(c)
  /\ UNCHANGED stores

----------------------------------------------------------------------------
(* invite *)

CheckNew(c) ==
  /\ pc[c] = "check"
  /\ IF status[call[c].user] = Absent THEN Goto(c, "issue") ELSE Return(c)
  /\ UNCHANGED stores

CreateUser(c) ==
  LET u == call[c].user IN
  /\ pc[c] = "create"
  /\ IF status[u] = Absent
     THEN /\ status' = [status EXCEPT ![u] = "pending"]
          /\ Goto(c, IF todo[c] = {} THEN "record" ELSE "grant")
     ELSE UNCHANGED status /\ Goto(c, "compensate")
  /\ UNCHANGED <<granted, linked, invitation, capability, expired>>

\* Mutant: the invitation is recorded after the first initial grant.
AddInitialGrant_First(c) ==
  LET u == call[c].user IN
  /\ pc[c] = "grant"
  /\ \E g \in todo[c] :
       IF status[u] = Absent \/ g \in granted[u]
       THEN UNCHANGED granted /\ Goto(c, "compensate")
       ELSE /\ granted' = [granted EXCEPT ![u] = @ \cup {g}]
            /\ Goto(c, "record")
  /\ UNCHANGED <<status, linked, invitation, capability, expired>>

AddInitialGrant(c) ==
  LET u == call[c].user IN
  /\ pc[c] = "grant"
  /\ \E g \in todo[c] :
       IF status[u] = Absent \/ g \in granted[u]
       THEN UNCHANGED granted /\ Goto(c, "compensate")
       ELSE /\ granted' = [granted EXCEPT ![u] = @ \cup {g}]
            /\ todo' = [todo EXCEPT ![c] = @ \ {g}]
            /\ pc' = [pc EXCEPT ![c] = IF todo[c] = {g} THEN "record" ELSE "grant"]
            /\ UNCHANGED <<call, snapshot, mine>>
  /\ UNCHANGED <<status, linked, invitation, capability, expired>>

PendingFor(u) == {i \in InvitationIds : /\ invitation[i] \in Invitation
                                        /\ invitation[i].user = u
                                        /\ invitation[i].status = "pending"}

\* Mutant: the invitation is recorded without its capability.
RecordInvitation_Untyped(c) ==
  LET u == call[c].user IN
  /\ pc[c] = "record"
  /\ \E i \in InvitationIds :
       /\ invitation[i] = NoRow
       /\ invitation' = [invitation EXCEPT ![i] =
                           [user |-> u, cap |-> None, status |-> "pending"]]
  /\ Return(c)
  /\ UNCHANGED <<status, granted, linked, capability, expired>>

\* A new invitation id, the foreign key and the index on pending invitations.
\* No id left, the bound, is an insert that fails.
RecordInvitation(c) ==
  LET u == call[c].user IN
  /\ pc[c] = "record"
  /\ \/ /\ status[u] # Absent /\ PendingFor(u) = {}
        /\ \E i \in InvitationIds :
             /\ invitation[i] = NoRow
             /\ invitation' = [invitation EXCEPT ![i] =
                                 [user |-> u, cap |-> mine[c], status |-> "pending"]]
        /\ Return(c)
     \/ /\ \/ status[u] = Absent \/ PendingFor(u) # {}
           \/ \A i \in InvitationIds : invitation[i] # NoRow
        /\ UNCHANGED invitation
        /\ Goto(c, "compensate")
  /\ UNCHANGED <<status, granted, linked, capability, expired>>

\* The exception handler.  The user and the grants added so far stay.
Compensate(c) ==
  /\ pc[c] = "compensate"
  /\ capability' = Revoked(mine[c])
  /\ Return(c)
  /\ UNCHANGED <<status, granted, linked, invitation, expired>>

----------------------------------------------------------------------------
(* reissue, revoke and activate read the invitation and its user *)

\* Mutant: the status of the invitation is not looked at.
LoadInvitation_AnyStatus(c) ==
  LET row == invitation[call[c].inv] IN
  /\ pc[c] = "load"
  /\ IF row \in Invitation /\ (call[c].op = "activate" => row.cap \notin expired)
     THEN /\ snapshot' = [snapshot EXCEPT ![c] = row]
          /\ pc' = [pc EXCEPT ![c] = "user"]
          /\ UNCHANGED <<call, mine, todo>>
     ELSE Return(c)
  /\ UNCHANGED stores

\* Only activate asks for an invitation that has not expired.
LoadInvitation(c) ==
  LET row == invitation[call[c].inv] IN
  /\ pc[c] = "load"
  /\ IF /\ row \in Invitation /\ row.status = "pending"
        /\ call[c].op = "activate" => row.cap \notin expired
     THEN /\ snapshot' = [snapshot EXCEPT ![c] = row]
          /\ pc' = [pc EXCEPT ![c] = "user"]
          /\ UNCHANGED <<call, mine, todo>>
     ELSE Return(c)
  /\ UNCHANGED stores

LoadInvitee(c) ==
  /\ pc[c] = "user"
  /\ IF status[snapshot[c].user] # "pending" THEN Return(c)
     ELSE Goto(c, CASE call[c].op = "reissue" -> "issue"
                    [] call[c].op = "revoke" -> "revokeCap"
                    [] OTHER -> "match")
  /\ UNCHANGED stores

\* revoke: first the capability, then the invitation.
RevokeCapability(c) ==
  /\ pc[c] = "revokeCap"
  /\ capability' = Revoked(snapshot[c].cap)
  /\ Goto(c, "update")
  /\ UNCHANGED <<status, granted, linked, invitation, expired>>

\* The whole row is written back from the snapshot.
Updated(c) ==
  CASE call[c].op = "reissue" -> [snapshot[c] EXCEPT !.cap = mine[c]]
    [] call[c].op = "revoke" -> [snapshot[c] EXCEPT !.status = "revoked"]
    [] OTHER -> [snapshot[c] EXCEPT !.status = "used"]

UpdateInvitation(c) ==
  LET i == call[c].inv IN
  /\ pc[c] = "update"
  /\ IF /\ invitation[i] # DeletedRow
        /\ Updated(c).status = "pending" => PendingFor(snapshot[c].user) \subseteq {i}
     THEN /\ invitation' = [invitation EXCEPT ![i] = Updated(c)]
          /\ IF call[c].op = "reissue" THEN Goto(c, "revokeOld") ELSE Return(c)
     ELSE UNCHANGED invitation /\ Return(c)
  /\ UNCHANGED <<status, granted, linked, capability, expired>>

\* Mutant: reissue leaves the previous capability alone.
RevokePrevious_Skipped(c) ==
  /\ pc[c] = "revokeOld"
  /\ Return(c)
  /\ UNCHANGED stores

RevokePrevious(c) ==
  /\ pc[c] = "revokeOld"
  /\ capability' = Revoked(snapshot[c].cap)
  /\ Return(c)
  /\ UNCHANGED <<status, granted, linked, invitation, expired>>

----------------------------------------------------------------------------
(* activate *)

\* Mutant: any capability issued for the invited user will do.
MatchActivation_AnyCapability(c) ==
  /\ pc[c] = "match"
  /\ IF /\ status[snapshot[c].user] = "pending"
        /\ capability[call[c].cap].subject = snapshot[c].user
     THEN Goto(c, "resolve") ELSE Return(c)
  /\ UNCHANGED stores

\* users.get again, and what was enrolled against what was invited.
MatchActivation(c) ==
  /\ pc[c] = "match"
  /\ IF /\ status[snapshot[c].user] = "pending"
        /\ snapshot[c].cap = call[c].cap
        /\ capability[call[c].cap].subject = snapshot[c].user
     THEN Goto(c, "resolve") ELSE Return(c)
  /\ UNCHANGED stores

ResolveIdentity(c) ==
  /\ pc[c] = "resolve"
  /\ IF snapshot[c].user \in linked THEN Return(c) ELSE Goto(c, "link")
  /\ UNCHANGED stores

\* Mutant: the identity is not linked.
LinkIdentity_Skipped(c) ==
  /\ pc[c] = "link"
  /\ Goto(c, "transition")
  /\ UNCHANGED stores

\* An identity that is linked to the same user meanwhile is no conflict.
LinkIdentity(c) ==
  LET u == snapshot[c].user IN
  /\ pc[c] = "link"
  /\ IF status[u] = Absent
     THEN UNCHANGED linked /\ Return(c)
     ELSE linked' = linked \cup {u} /\ Goto(c, "transition")
  /\ UNCHANGED <<status, granted, invitation, capability, expired>>

\* transition_account reads the account ...
LoadForTransition(c) ==
  /\ pc[c] = "transition"
  /\ IF LegalTransition(status[snapshot[c].user], "active")
     THEN Goto(c, "write") ELSE Return(c)
  /\ UNCHANGED stores

\* ... and writes it.
WriteActive(c) ==
  LET u == snapshot[c].user IN
  /\ pc[c] = "write"
  /\ IF status[u] = Absent
     THEN UNCHANGED status /\ Return(c)
     ELSE status' = [status EXCEPT ![u] = "active"] /\ Goto(c, "update")
  /\ UNCHANGED <<granted, linked, invitation, capability, expired>>

----------------------------------------------------------------------------
(* Failures *)

\* A store call raises.  Only invite has a handler, around its writes.
StoreFails(c) ==
  /\ pc[c] \in FailingSteps
  /\ IF pc[c] \in {"create", "grant", "record"} THEN Goto(c, "compensate") ELSE Return(c)
  /\ UNCHANGED stores

Crash(c) ==
  /\ Crashes /\ pc[c] # "idle"
  /\ Return(c)
  /\ UNCHANGED stores

----------------------------------------------------------------------------
(* Around the service *)

\* The invited user claims a capability in my-auth and enrols with it.
Consume(k) ==
  /\ capability[k] # Unissued /\ capability[k].state = "live" /\ k \notin expired
  /\ capability' = [capability EXCEPT ![k].state = "consumed"]
  /\ UNCHANGED <<status, granted, linked, invitation, expired, locals>>

Expire(k) ==
  /\ capability[k] # Unissued /\ k \notin expired
  /\ expired' = expired \cup {k}
  /\ UNCHANGED <<status, granted, linked, invitation, capability, locals>>

\* UserManager.transition_account, in a transaction of its own.
Administer(u, to) ==
  /\ LegalTransition(status[u], to)
  /\ status' = [status EXCEPT ![u] = to]
  /\ UNCHANGED <<granted, linked, invitation, capability, expired, locals>>

\* hard_delete_account: identities, grants and invitations go with the row.
Purge(u) ==
  /\ Purges /\ status[u] = "deleted"
  /\ status' = [status EXCEPT ![u] = Absent]
  /\ granted' = [granted EXCEPT ![u] = {}]
  /\ linked' = linked \ {u}
  /\ invitation' = [i \in InvitationIds |->
       IF invitation[i] \in Invitation /\ invitation[i].user = u
       THEN DeletedRow ELSE invitation[i]]
  /\ UNCHANGED <<capability, expired, locals>>

----------------------------------------------------------------------------

Step(c) ==
  \/ CheckNew(c) \/ Issue(c) \/ IssueRefused(c)
  \/ CreateUser(c) \/ AddInitialGrant(c) \/ RecordInvitation(c) \/ Compensate(c)
  \/ LoadInvitation(c) \/ LoadInvitee(c)
  \/ RevokeCapability(c) \/ UpdateInvitation(c) \/ RevokePrevious(c)
  \/ MatchActivation(c) \/ ResolveIdentity(c) \/ LinkIdentity(c)
  \/ LoadForTransition(c) \/ WriteActive(c)

Next ==
  \/ \E c \in Callers : Start(c) \/ Step(c) \/ StoreFails(c) \/ Crash(c)
  \/ \E k \in Capabilities : Consume(k) \/ Expire(k)
  \/ \E u \in Users : Purge(u) \/ \E to \in AdminTargets : Administer(u, to)

Spec == Init /\ [][Next]_vars

----------------------------------------------------------------------------
(* Properties *)

Issued == {i \in InvitationIds : invitation[i] \in Invitation}

\* A pending invitation comes with all of its initial grants: invite records
\* it after it has added them, and a purge takes it away with them.
InvitedFullyGranted ==
  \A i \in Issued : invitation[i].status = "pending"
    => granted[invitation[i].user] = InitialGrants

\* The three that follow hold for any callers, failures, crashes and purges: they say
\* how far the races of two calls about one invitation can go, and no further.

Inviting == {"create", "grant", "record", "compensate"}
Activating == {"match", "resolve", "link", "transition", "write"}

\* The call has read its invitation, and found it pending.
HasRead(c) ==
  \/ pc[c] \in Activating \cup {"user", "update", "revokeOld", "revokeCap"}
  \/ pc[c] = "issue" /\ call[c].op = "reissue"

\* The capability is that of a pending invitation, for the same user.
InForce(k, i) ==
  /\ i \in Issued /\ invitation[i].status = "pending"
  /\ invitation[i].cap = k /\ invitation[i].user = capability[k].subject

\* The call is about to put the capability in force, or to revoke it.
InHand(k, c) ==
  \/ pc[c] \in Inviting /\ mine[c] = k
  \/ pc[c] = "update" /\ call[c].op = "reissue" /\ mine[c] = k
  \/ pc[c] = "revokeOld" /\ snapshot[c].cap = k

Live(k) == capability[k].state = "live"

Tracked(k) ==
  (\E i \in InvitationIds : InForce(k, i)) \/ (\E c \in Callers : InHand(k, c))

\* What the code has no answer to: a call that holds the capability is cut off outside
\* of invite's handler, or its update is refused; a call overwrites a row that is not what
\* it has read; or the invitation goes with its user.
LetGo(k) ==
  \/ \E c \in Callers :
       /\ InHand(k, c) /\ pc'[c] = "idle"
       /\ \/ Crashes \/ pc[c] = "update"
          \/ pc[c] \in FailingSteps \ {"create", "grant", "record"}
  \/ \E c \in Callers :
       /\ pc[c] = "update" /\ pc'[c] # "update"
       /\ InForce(k, call[c].inv) /\ invitation[call[c].inv] # snapshot[c]
  \/ \E i \in InvitationIds : InForce(k, i) /\ invitation'[i] = DeletedRow

\* A capability that can still be consumed is in force, or some call is about to see to
\* it, from its issue on; it is lost sight of in the three ways of LetGo only.
NoCapabilityLost ==
  [][\A k \in Capabilities :
       Live(k)' /\ ~Tracked(k)' => (Live(k) /\ ~Tracked(k)) \/ LetGo(k)]_vars

\* Used or revoked, and no call under way has read the invitation before.
Over(i) ==
  /\ i \in Issued /\ invitation[i].status # "pending"
  /\ \A c \in Callers : ~(HasRead(c) /\ call[c].inv = i)

\* A settled invitation can be reissued, revoked or used once more only by a call that
\* read it before it was settled.  When the last of these has ended it is over: no call
\* gets past reading it, and it does not change until it goes with its user.
SettledIsOver ==
  [][\A i \in InvitationIds : Over(i) =>
       invitation'[i] = DeletedRow \/ (Over(i)' /\ invitation'[i] = invitation[i])]_vars

\* Issued, of no pending invitation, and in no call that could make it so.
Retired(k) ==
  /\ capability[k] # Unissued
  /\ \A i \in Issued : invitation[i].status = "pending" => invitation[i].cap # k
  /\ \A c \in Callers : ~InHand(k, c) /\ ~(HasRead(c) /\ snapshot[c].cap = k)

Activates(c) == pc[c] = "write" /\ pc'[c] = "update"

\* A capability that was revoked, replaced or used is never in force again once the
\* calls that knew it have ended, and nobody is activated by it any more.
RetiredIsOver ==
  [][\A k \in Capabilities : Retired(k) =>
       Retired(k)' /\ \A c \in Callers : Activates(c) => call[c].cap # k]_vars

\* A used invitation has brought its user an identity and an account that is
\* pending no more.
UsedIsComplete ==
  \A i \in Issued : invitation[i].status = "used"
    => /\ invitation[i].user \in linked
       /\ status[invitation[i].user] \notin {Absent, "pending"}
=============================================================================
