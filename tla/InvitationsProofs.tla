-------------------------- MODULE InvitationsProofs -------------------------
(***************************************************************************)
(* Proofs about Invitations, for every set of users, grants, invitations,  *)
(* capabilities and callers, whatever fails, crashes or is purged.  One of *)
(* the theorems asks something of the host, and says what.                 *)
(***************************************************************************)
EXTENDS Invitations, TLAPS

----------------------------------------------------------------------------
(* What the host may see to *)

\* No user id is invited again by another caller while a call about it is under way:
\* there is one caller, or accounts are never hard-deleted.
NoReuse == ~Purges \/ \A c, d \in Callers : c = d

----------------------------------------------------------------------------
(* The inductive invariant *)

Row(c) == invitation[call[c].inv]

\* A call is where its operation goes, with what it has read and issued.
Placed(c) ==
  /\ pc[c] # "idle" => call[c] \in Calls /\ call[c].op \in Ops[c]
  /\ pc[c] \in Inviting \cup {"check"} => call[c].op = "invite"
  /\ pc[c] \in Inviting => mine[c] \in Capabilities
  /\ pc[c] = "create" => todo[c] = InitialGrants
  /\ pc[c] = "record" => todo[c] = {}
  /\ pc[c] = "issue" => call[c].op \in {"invite", "reissue"}
  /\ pc[c] \in {"load", "user", "update"} => call[c].op \in {"reissue", "revoke", "activate"}
  /\ pc[c] = "update" /\ call[c].op = "reissue" => mine[c] \in Capabilities
  /\ pc[c] = "revokeOld" => call[c].op = "reissue"
  /\ pc[c] = "revokeCap" => call[c].op = "revoke"
  /\ pc[c] \in Activating => call[c].op = "activate"
  /\ HasRead(c) => snapshot[c] \in Invitation /\ snapshot[c].status = "pending"

\* The row a call has read is there for the same user, or has gone with him.
Kept(c) ==
  /\ pc[c] = "load" => Row(c) # NoRow
  /\ HasRead(c) =>
       /\ Row(c) # DeletedRow => Row(c) \in Invitation /\ Row(c).user = snapshot[c].user
       /\ capability[snapshot[c].cap] \in Capability

\* While its invitation is there, an activation has left behind what it has done.
Done(c) ==
  (HasRead(c) /\ call[c].op = "activate" /\ Row(c) # DeletedRow) =>
    /\ pc[c] \in {"transition", "write", "update"} => snapshot[c].user \in linked
    /\ pc[c] = "update" => status[snapshot[c].user] # "pending"

\* An activation carries a consumed capability, and soon that of the invitation.
Enrolled(c) ==
  pc[c] # "idle" /\ call[c].op = "activate" =>
    /\ capability[call[c].cap].state = "consumed"
    /\ pc[c] \in (Activating \ {"match"}) \cup {"update"} =>
         /\ snapshot[c].cap = call[c].cap
         /\ capability[call[c].cap].subject = snapshot[c].user

\* The capability a call has issued is for the user it is about.
Issuing(c) ==
  /\ pc[c] \in Inviting =>
       capability[mine[c]] \in Capability /\ capability[mine[c]].subject = call[c].user
  /\ pc[c] = "update" /\ call[c].op = "reissue" =>
       capability[mine[c]] \in Capability /\ capability[mine[c]].subject = snapshot[c].user
  /\ pc[c] = "update" /\ call[c].op = "revoke" => capability[snapshot[c].cap].state # "live"

\* The grants that invite has added are there, and those of an invitation stay.
Granting(c) ==
  /\ pc[c] \in {"grant", "record"} =>
       \/ Purges /\ status[call[c].user] = Absent
       \/ InitialGrants \ todo[c] \subseteq granted[call[c].user]
  /\ HasRead(c) /\ Row(c) # DeletedRow => granted[snapshot[c].user] = InitialGrants

\* Whose invitation has gone has no account while a call works on it.
Gone(c) ==
  HasRead(c) /\ Row(c) = DeletedRow => Purges /\ status[snapshot[c].user] = Absent

CallInv(c) ==
  /\ Placed(c) /\ Kept(c) /\ Done(c) /\ Enrolled(c) /\ Issuing(c)
  /\ NoReuse => Granting(c) /\ Gone(c)

\* An invitation has an issued capability and a user with an account, and is his only
\* one that is pending.
Rows ==
  /\ \A i \in Issued :
       status[invitation[i].user] # Absent /\ capability[invitation[i].cap] \in Capability
  /\ \A i, j \in Issued :
       /\ invitation[i].status = "pending" /\ invitation[j].status = "pending"
       /\ invitation[i].user = invitation[j].user
       => i = j

StoreInv ==
  /\ Rows /\ UsedIsComplete
  /\ NoReuse => InvitedFullyGranted

IInv ==
  /\ TypeOK /\ StoreInv
  /\ \A c \in Callers : CallInv(c)

----------------------------------------------------------------------------
(* Types, and how a call moves *)

StoresTyped ==
  /\ status \in [Users -> Statuses]
  /\ granted \in [Users -> SUBSET InitialGrants]
  /\ linked \in SUBSET Users
  /\ invitation \in [InvitationIds -> Invitation \cup {NoRow, DeletedRow}]
  /\ capability \in [Capabilities -> Capability \cup {Unissued}]
  /\ expired \in SUBSET Capabilities

LocalsTyped ==
  /\ pc \in [Callers -> Steps]
  /\ call \in [Callers -> Calls \cup {NoCall}]
  /\ snapshot \in [Callers -> Invitation \cup {NoRow}]
  /\ mine \in [Callers -> Capabilities \cup {None}]
  /\ todo \in [Callers -> SUBSET InitialGrants]

LEMMA TypeParts == TypeOK <=> StoresTyped /\ LocalsTyped
  BY DEF TypeOK, StoresTyped, LocalsTyped

LEMMA TypePartsNext == (StoresTyped /\ LocalsTyped)' => TypeOK'
  BY DEF TypeOK, StoresTyped, LocalsTyped

\* The marks of a row that is not there are no rows.
LEMMA NoRows ==
  /\ NoRow \notin Invitation /\ DeletedRow \notin Invitation /\ NoRow # DeletedRow
  /\ Unissued \notin Capability /\ Unissued.state = "unissued"
  BY DEF NoRow, DeletedRow, Invitation, InvitationStatuses, Unissued, Capability

\* The locals of a caller stay.
Still(d) ==
  /\ pc'[d] = pc[d] /\ call'[d] = call[d] /\ snapshot'[d] = snapshot[d]
  /\ mine'[d] = mine[d] /\ todo'[d] = todo[d]

Alone(c) == \A d \in Callers \ {c} : Still(d)

LEMMA Returns ==
  ASSUME TypeOK, NEW c \in Callers, Return(c)
  PROVE  LocalsTyped' /\ Alone(c) /\ pc'[c] = "idle"
  BY DEF TypeOK, LocalsTyped, Return, Alone, Still, Steps

LEMMA Goes ==
  ASSUME TypeOK, NEW c \in Callers, NEW s \in Steps, Goto(c, s)
  PROVE  /\ LocalsTyped' /\ Alone(c) /\ pc'[c] = s
         /\ UNCHANGED <<call, snapshot, mine, todo>>
  BY DEF TypeOK, LocalsTyped, Goto, Alone, Still

LEMMA Stays ==
  ASSUME TypeOK, UNCHANGED locals
  PROVE  LocalsTyped' /\ \A d \in Callers : Still(d)
  BY DEF TypeOK, LocalsTyped, locals, Still

LEMMA StoresStay ==
  ASSUME TypeOK, UNCHANGED stores
  PROVE  /\ StoresTyped'
         /\ UNCHANGED status /\ UNCHANGED granted /\ UNCHANGED linked
         /\ UNCHANGED invitation /\ UNCHANGED capability
  BY DEF TypeOK, StoresTyped, stores

LEMMA OpsTyped == \A c \in Callers : Ops[c] \in SUBSET {"invite", "reissue", "revoke", "activate"}
  BY InvitationsAssumption

\* What a call is about, by its operation.
LEMMA CallFields ==
  ASSUME NEW k \in Calls
  PROVE  /\ k.op \in {"invite", "reissue", "revoke", "activate"}
         /\ k.op = "invite" => k.user \in Users
         /\ k.op # "invite" => k.inv \in InvitationIds
         /\ k.op = "activate" => k.cap \in Capabilities
  BY DEF Calls

----------------------------------------------------------------------------
(* What the steps of others leave a call *)

\* A row that is there stays his user's, or goes with him.
RowsGo ==
  \A i \in InvitationIds :
    /\ invitation[i] # NoRow => invitation'[i] # NoRow
    /\ invitation[i] = DeletedRow => invitation'[i] = DeletedRow
    /\ invitation[i] \in Invitation =>
         \/ invitation'[i] \in Invitation /\ invitation'[i].user = invitation[i].user
         \/ invitation'[i] = DeletedRow /\ Purges /\ status'[invitation[i].user] = Absent

\* A capability keeps its subject, and its state once it is consumed or revoked.
CapabilitiesGo ==
  \A k \in Capabilities : capability[k] \in Capability =>
    /\ capability'[k] \in Capability /\ capability'[k].subject = capability[k].subject
    /\ capability[k].state # "live" => capability'[k].state = capability[k].state

\* The user of an invitation keeps his account, identity and grants while it is there.
AccountsGo ==
  \A i \in Issued : invitation'[i] # DeletedRow =>
    LET u == invitation[i].user IN
    /\ status'[u] # Absent
    /\ status[u] # "pending" => status'[u] # "pending"
    /\ u \in linked => u \in linked'
    /\ granted[u] \subseteq granted'[u]

GrantsGo ==
  \A u \in Users : granted[u] \subseteq granted'[u] \/ (Purges /\ status'[u] = Absent)

Gentle == RowsGo /\ CapabilitiesGo /\ AccountsGo /\ GrantsGo

\* One more that only some steps have.
NobodyReturns == \A u \in Users : status[u] = Absent => status'[u] = Absent

\* A call that has read its invitation, and the row.
LEMMA Reading ==
  ASSUME TypeOK, NEW c \in Callers, CallInv(c), HasRead(c)
  PROVE  /\ call[c] \in Calls /\ call[c].op \in Ops[c]
         /\ call[c].op \in {"reissue", "revoke", "activate"}
         /\ call[c].inv \in InvitationIds
         /\ call[c].op = "activate" => call[c].cap \in Capabilities
         /\ snapshot[c] \in Invitation /\ snapshot[c].status = "pending"
         /\ snapshot[c].user \in Users /\ snapshot[c].cap \in Capabilities
         /\ Row(c) = DeletedRow \/ (call[c].inv \in Issued /\ Row(c).user = snapshot[c].user)
  <1>1. pc[c] # "idle" /\ call[c].op # "invite"
    BY DEF CallInv, Placed, HasRead, Activating, Inviting
  <1>2. call[c] \in Calls /\ call[c].op \in Ops[c]
    BY <1>1 DEF CallInv, Placed
  <1>3. call[c].op \in {"reissue", "revoke", "activate"} /\ call[c].inv \in InvitationIds
        /\ (call[c].op = "activate" => call[c].cap \in Capabilities)
    BY <1>1, <1>2, CallFields
  <1>4. snapshot[c] \in Invitation /\ snapshot[c].status = "pending"
    BY DEF CallInv, Placed
  <1>5. snapshot[c].user \in Users /\ snapshot[c].cap \in Capabilities
    BY <1>4 DEF Invitation
  <1>6. Row(c) = DeletedRow \/ (call[c].inv \in Issued /\ Row(c).user = snapshot[c].user)
    BY <1>3 DEF CallInv, Kept, Row, Issued
  <1>7. QED
    BY <1>2, <1>3, <1>4, <1>5, <1>6

\* What a call has read, after a step of its own or of others.
LEMMA ReadKept ==
  ASSUME IInv, NEW d \in Callers, HasRead(d), HasRead(d)',
         call'[d] = call[d], snapshot'[d] = snapshot[d],
         Gentle, TypeOK',
         NoReuse /\ Purges => NobodyReturns
  PROVE  LET u == snapshot[d].user IN
         /\ Row(d)' # DeletedRow =>
              /\ Row(d) # DeletedRow
              /\ Row(d)' \in Invitation /\ Row(d)'.user = u
              /\ status[u] # "pending" => status'[u] # "pending"
              /\ u \in linked => u \in linked'
              /\ NoReuse => granted'[u] = InitialGrants
         /\ capability'[snapshot[d].cap] \in Capability
         /\ NoReuse => Gone(d)'
  <1> DEFINE i == call[d].inv
             u == snapshot[d].user
  <1>1. TypeOK /\ CallInv(d) /\ i \in InvitationIds /\ Row(d) = invitation[i]
        /\ Row(d)' = invitation'[i]
    BY Reading DEF IInv, Row
  <1>2. Row(d) = DeletedRow \/ (i \in Issued /\ Row(d).user = u /\ u \in Users)
    BY <1>1, Reading
  <1>3. ASSUME Row(d)' # DeletedRow
        PROVE  /\ Row(d) # DeletedRow /\ i \in Issued
               /\ Row(d)' \in Invitation /\ Row(d)'.user = u
               /\ status[u] # "pending" => status'[u] # "pending"
               /\ u \in linked => u \in linked'
               /\ granted[u] \subseteq granted'[u]
    <2>1. Row(d) # DeletedRow
      BY <1>1, <1>3 DEF Gentle, RowsGo
    <2>2. i \in Issued /\ invitation[i].user = u /\ invitation[i] \in Invitation
      BY <1>1, <1>2, <2>1 DEF Issued
    <2>3. QED
      BY <1>1, <1>3, <2>1, <2>2 DEF Gentle, RowsGo, AccountsGo
  <1>4. ASSUME Row(d)' # DeletedRow, NoReuse
        PROVE  granted'[u] = InitialGrants
    <2>1. granted[u] = InitialGrants
      BY <1>1, <1>3, <1>4 DEF CallInv, Granting
    <2>2. granted'[u] \subseteq InitialGrants
      BY <1>2, <1>3, <1>4 DEF TypeOK
    <2>3. QED
      BY <1>3, <1>4, <2>1, <2>2
  <1>5. capability'[snapshot[d].cap] \in Capability
    BY <1>1, Reading DEF CallInv, Kept, Gentle, CapabilitiesGo
  <1>6. NoReuse => Gone(d)'
    <2>1. SUFFICES ASSUME NoReuse, Row(d)' = DeletedRow
                   PROVE  Purges /\ status'[u] = Absent
      BY DEF Gone
    <2>2. CASE Row(d) = DeletedRow
      BY <1>1, <2>1, <2>2, Reading DEF CallInv, Gone, NobodyReturns
    <2>3. CASE i \in Issued /\ Row(d).user = u
      BY <1>1, <2>1, <2>3, NoRows DEF Gentle, RowsGo, Issued
    <2>4. QED
      BY <1>2, <2>2, <2>3
  <1>7. QED
    BY <1>1, <1>3, <1>4, <1>5, <1>6

LEMMA OtherKept ==
  ASSUME IInv, NEW d \in Callers, Still(d), Gentle, TypeOK',
         NoReuse /\ Purges => NobodyReturns
  PROVE  CallInv(d)'
  <1>1. TypeOK /\ CallInv(d)
    BY DEF IInv
  <1>2. Placed(d)'
    BY <1>1 DEF CallInv, Placed, Still, HasRead
  <1>3. /\ HasRead(d)' <=> HasRead(d)
        /\ pc'[d] = pc[d] /\ call'[d] = call[d] /\ snapshot'[d] = snapshot[d]
    BY DEF Still, HasRead
  <1>4. Kept(d)'
    <2>1. pc[d] = "load" => Row(d)' # NoRow
      <3>1. SUFFICES ASSUME pc[d] = "load" PROVE Row(d)' # NoRow
        OBVIOUS
      <3>2. call[d] \in Calls /\ call[d].op # "invite" /\ Row(d) # NoRow
        BY <1>1, <3>1 DEF CallInv, Placed, Kept
      <3>3. call[d].inv \in InvitationIds
        BY <3>2, CallFields
      <3>4. QED
        BY <3>2, <3>3 DEF Still, Row, Gentle, RowsGo
    <2>2. QED
      BY <1>3, <2>1, ReadKept DEF Kept
  <1>5. Done(d)'
    <2>1. SUFFICES ASSUME HasRead(d), call[d].op = "activate", Row(d)' # DeletedRow
                   PROVE  /\ pc[d] \in {"transition", "write", "update"} =>
                               snapshot[d].user \in linked'
                          /\ pc[d] = "update" => status'[snapshot[d].user] # "pending"
      BY <1>3 DEF Done
    <2>2. QED
      BY <1>1, <1>3, <2>1, ReadKept DEF CallInv, Done
  <1>6. Enrolled(d)'
    <2>1. SUFFICES ASSUME pc[d] # "idle", call[d].op = "activate"
                   PROVE  /\ capability'[call[d].cap].state = "consumed"
                          /\ capability'[call[d].cap].subject = capability[call[d].cap].subject
      BY <1>1 DEF CallInv, Enrolled, Still
    <2>2. call[d].cap \in Capabilities
      BY <1>1, <2>1, CallFields DEF CallInv, Placed
    <2>3. capability[call[d].cap] \in Capability /\ capability[call[d].cap].state = "consumed"
      BY <1>1, <2>1, <2>2, NoRows DEF CallInv, Enrolled, TypeOK
    <2>4. QED
      BY <2>2, <2>3 DEF Gentle, CapabilitiesGo
  <1>7. Issuing(d)'
    <2>1. ASSUME pc[d] \in Inviting
          PROVE  /\ capability'[mine[d]] \in Capability
                 /\ capability'[mine[d]].subject = call[d].user
      BY <1>1, <2>1 DEF CallInv, Placed, Issuing, Gentle, CapabilitiesGo
    <2>2. ASSUME pc[d] = "update", call[d].op = "reissue"
          PROVE  /\ capability'[mine[d]] \in Capability
                 /\ capability'[mine[d]].subject = snapshot[d].user
      BY <1>1, <2>2 DEF CallInv, Placed, Issuing, Gentle, CapabilitiesGo
    <2>3. ASSUME pc[d] = "update", call[d].op = "revoke"
          PROVE  capability'[snapshot[d].cap].state # "live"
      <3>1. HasRead(d)
        BY <2>3 DEF HasRead
      <3>2. /\ capability[snapshot[d].cap] \in Capability /\ snapshot[d].cap \in Capabilities
            /\ capability[snapshot[d].cap].state # "live"
        BY <1>1, <2>3, <3>1, Reading DEF CallInv, Kept, Issuing
      <3>3. QED
        BY <3>2 DEF Gentle, CapabilitiesGo
    <2>4. QED
      BY <2>1, <2>2, <2>3 DEF Issuing, Still
  <1>8. NoReuse => Granting(d)'
    <2>1. SUFFICES ASSUME NoReuse PROVE Granting(d)'
      OBVIOUS
    <2>2. ASSUME pc[d] \in {"grant", "record"}
          PROVE  \/ Purges /\ status'[call[d].user] = Absent
                 \/ InitialGrants \ todo[d] \subseteq granted'[call[d].user]
      <3>1. call[d].user \in Users
        BY <1>1, <2>2, CallFields DEF CallInv, Placed, Inviting
      <3>2. \/ Purges /\ status[call[d].user] = Absent
            \/ InitialGrants \ todo[d] \subseteq granted[call[d].user]
        BY <1>1, <2>1, <2>2 DEF CallInv, Granting
      <3>3. QED
        BY <2>1, <3>1, <3>2 DEF NobodyReturns, Gentle, GrantsGo
    <2>3. QED
      BY <1>3, <2>1, <2>2, ReadKept DEF Granting, Still
  <1>9. NoReuse => Gone(d)'
    <2>1. CASE HasRead(d)
      BY <1>3, <2>1, ReadKept
    <2>2. CASE ~HasRead(d)
      BY <1>3, <2>2 DEF Gone
    <2>3. QED
      BY <2>1, <2>2
  <1>10. NoReuse' = NoReuse
    BY DEF NoReuse
  <1>11. QED
    BY <1>2, <1>4, <1>5, <1>6, <1>7, <1>8, <1>9, <1>10 DEF CallInv

----------------------------------------------------------------------------
(* What a step leaves the invariant *)

LEMMA RowsHeld ==
  ASSUME IInv, Gentle, TypeOK', UNCHANGED invitation
  PROVE  StoreInv'
  <1>1. TypeOK /\ StoreInv
    BY DEF IInv
  <1>2. Issued' = Issued /\ \A i \in Issued :
          /\ i \in InvitationIds /\ invitation[i] \in Invitation /\ invitation'[i] # DeletedRow
          /\ invitation[i].user \in Users /\ invitation[i].cap \in Capabilities
    BY <1>1, NoRows DEF Issued, Invitation
  <1>3. Rows'
    <2>1. \A i \in Issued :
            /\ status'[invitation[i].user] # Absent
            /\ capability'[invitation[i].cap] \in Capability
      BY <1>1, <1>2 DEF StoreInv, Rows, Gentle, AccountsGo, CapabilitiesGo
    <2>2. QED
      BY <1>1, <1>2, <2>1 DEF StoreInv, Rows
  <1>4. UsedIsComplete'
    BY <1>1, <1>2 DEF StoreInv, UsedIsComplete, Gentle, AccountsGo
  <1>5. NoReuse => InvitedFullyGranted'
    <2>1. SUFFICES ASSUME NoReuse, NEW i \in Issued, invitation[i].status = "pending"
                   PROVE  granted'[invitation[i].user] = InitialGrants
      BY <1>2 DEF InvitedFullyGranted
    <2>2. granted[invitation[i].user] = InitialGrants
      BY <1>1, <2>1 DEF StoreInv, InvitedFullyGranted
    <2>3. granted'[invitation[i].user] \subseteq InitialGrants
      BY <1>2 DEF TypeOK
    <2>4. QED
      BY <1>2, <2>2, <2>3 DEF Gentle, AccountsGo
  <1>6. NoReuse' = NoReuse
    BY DEF NoReuse
  <1>7. QED
    BY <1>3, <1>4, <1>5, <1>6 DEF StoreInv

\* A step that writes nothing.
LEMMA NothingWritten ==
  ASSUME IInv, UNCHANGED stores
  PROVE  StoresTyped' /\ Gentle /\ NobodyReturns
  <1>1. /\ StoresTyped' /\ TypeOK
        /\ UNCHANGED status /\ UNCHANGED granted /\ UNCHANGED linked
        /\ UNCHANGED invitation /\ UNCHANGED capability
    BY StoresStay DEF IInv
  <1>2. RowsGo /\ CapabilitiesGo /\ GrantsGo /\ NobodyReturns
    BY <1>1 DEF RowsGo, CapabilitiesGo, GrantsGo, NobodyReturns
  <1>3. AccountsGo
    BY <1>1 DEF AccountsGo, IInv, StoreInv, Rows
  <1>4. QED
    BY <1>1, <1>2, <1>3 DEF Gentle

\* A caller's step, whose own part of the invariant remains to be shown.
LEMMA CallersKept ==
  ASSUME IInv, NEW c \in Callers, Alone(c), TypeOK', Gentle, CallInv(c)'
  PROVE  \A d \in Callers : CallInv(d)'
  <1> SUFFICES ASSUME NEW d \in Callers, d # c PROVE CallInv(d)'
    OBVIOUS
  <1>1. Still(d)
    BY DEF Alone
  <1>2. ~(NoReuse /\ Purges)
    BY DEF NoReuse
  <1>3. QED
    BY <1>1, <1>2, OtherKept

\* A step of nobody's call.
LEMMA OthersKept ==
  ASSUME IInv, UNCHANGED locals, StoresTyped', Gentle, NobodyReturns
  PROVE  TypeOK' /\ \A d \in Callers : CallInv(d)'
  <1>1. TypeOK' /\ \A d \in Callers : Still(d)
    BY Stays, TypePartsNext DEF IInv
  <1>2. QED
    BY <1>1, OtherKept

LEMMA IdleInv ==
  ASSUME NEW c \in Callers, pc'[c] = "idle"
  PROVE  CallInv(c)'
  <1>1. ~HasRead(c)'
    BY DEF HasRead, Activating
  <1>2. Placed(c)' /\ Kept(c)' /\ Done(c)' /\ Enrolled(c)' /\ Issuing(c)'
    BY <1>1 DEF Placed, Kept, Done, Enrolled, Issuing, Inviting, Activating
  <1>3. Granting(c)' /\ Gone(c)'
    BY <1>1 DEF Granting, Gone
  <1>4. QED
    BY <1>2, <1>3 DEF CallInv

\* What every step preserves.
Base == TypeOK' /\ StoreInv' /\ \A d \in Callers : CallInv(d)'

\* A step that writes no invitation.
LEMMA WorkKept ==
  ASSUME IInv, NEW c \in Callers, Alone(c), StoresTyped', LocalsTyped', Gentle,
         UNCHANGED invitation, CallInv(c)'
  PROVE  Base
  <1>1. TypeOK'
    BY TypePartsNext
  <1>2. StoreInv'
    BY <1>1, RowsHeld
  <1>3. QED
    BY <1>1, <1>2, CallersKept DEF Base

\* A step with which the call ends.
LEMMA EndKept ==
  ASSUME IInv, NEW c \in Callers, Return(c), StoresTyped', Gentle, UNCHANGED invitation
  PROVE  Base
  <1>1. LocalsTyped' /\ Alone(c) /\ CallInv(c)'
    BY Returns, IdleInv DEF IInv
  <1>2. QED
    BY <1>1, WorkKept

\* A step that only moves the call on.
LEMMA MoveKept ==
  ASSUME IInv, NEW c \in Callers, NEW s \in Steps, Goto(c, s), UNCHANGED stores, CallInv(c)'
  PROVE  Base
  <1>1. LocalsTyped' /\ Alone(c) /\ UNCHANGED invitation
    BY Goes, StoresStay DEF IInv
  <1>2. QED
    BY <1>1, NothingWritten, WorkKept

LEMMA QuitKept ==
  ASSUME IInv, NEW c \in Callers, Return(c), UNCHANGED stores
  PROVE  Base
  BY NothingWritten, StoresStay, EndKept DEF IInv

----------------------------------------------------------------------------
(* Steps that write nothing *)

LEMMA StartKept ==
  ASSUME IInv, NEW c \in Callers, Start(c)
  PROVE  Base
  <1>1. PICK k \in Calls :
          /\ k.op \in Ops[c] /\ (k.op # "invite" => invitation[k.inv] # NoRow)
          /\ (k.op = "activate" => capability[k.cap].state = "consumed")
          /\ call' = [call EXCEPT ![c] = k]
          /\ pc' = [pc EXCEPT ![c] = IF k.op = "invite" THEN "check" ELSE "load"]
    BY DEF Start
  <1>2. TypeOK /\ UNCHANGED <<snapshot, mine, todo>> /\ UNCHANGED stores
    BY DEF Start, IInv
  <1>3. /\ call'[c] = k /\ k.op \in {"invite", "reissue", "revoke", "activate"}
        /\ pc'[c] = IF k.op = "invite" THEN "check" ELSE "load"
    BY <1>1, <1>2, CallFields DEF TypeOK
  <1>4. LocalsTyped' /\ Alone(c)
    BY <1>1, <1>2 DEF TypeOK, LocalsTyped, Alone, Still, Steps
  <1>5. ~HasRead(c)'
    BY <1>3 DEF HasRead, Activating
  <1>6. invitation' = invitation /\ capability' = capability
    BY <1>2, StoresStay
  <1>7. Placed(c)'
    BY <1>1, <1>3, <1>5 DEF Placed, Inviting, Activating
  <1>8. Kept(c)' /\ Enrolled(c)'
    BY <1>1, <1>3, <1>5, <1>6 DEF Kept, Enrolled, Row, Activating
  <1>9. Done(c)' /\ Issuing(c)' /\ Granting(c)' /\ Gone(c)'
    BY <1>3, <1>5 DEF Done, Issuing, Granting, Gone, Inviting
  <1>10. CallInv(c)'
    BY <1>7, <1>8, <1>9 DEF CallInv
  <1>11. QED
    BY <1>2, <1>4, <1>6, <1>10, NothingWritten, WorkKept

\* A call that goes on to a step where nothing more is known of it.
LEMMA Onward ==
  ASSUME IInv, NEW c \in Callers, NEW s \in Steps, Goto(c, s), UNCHANGED stores,
         \/ pc[c] = "check" /\ s = "issue"
         \/ pc[c] \in {"create", "grant", "record"} /\ s = "compensate"
         \/ pc[c] = "user" /\ call[c].op = "reissue" /\ s = "issue"
         \/ pc[c] = "user" /\ call[c].op = "revoke" /\ s = "revokeCap"
         \/ pc[c] = "user" /\ call[c].op = "activate" /\ s = "match"
         \/ /\ pc[c] = "match" /\ s = "resolve" /\ snapshot[c].cap = call[c].cap
            /\ capability[call[c].cap].subject = snapshot[c].user
         \/ pc[c] = "resolve" /\ s = "link"
         \/ pc[c] = "transition" /\ s = "write"
  PROVE  Base
  <1>1. TypeOK /\ CallInv(c)
    BY DEF IInv
  <1>2. pc'[c] = s /\ UNCHANGED <<call, snapshot, mine, todo>>
    BY <1>1, Goes
  <1>3. UNCHANGED status /\ UNCHANGED granted /\ UNCHANGED linked
        /\ UNCHANGED invitation /\ UNCHANGED capability
    BY <1>1, StoresStay
  <1>4. /\ HasRead(c)' => HasRead(c)
        /\ HasRead(c)' => pc[c] # "revokeOld"
    BY <1>1, <1>2 DEF HasRead, Activating, Inviting, CallInv, Placed
  <1>5. Placed(c)'
    BY <1>1, <1>2, <1>4 DEF CallInv, Placed, Inviting, Activating
  <1>6. Kept(c)'
    BY <1>1, <1>2, <1>3, <1>4 DEF CallInv, Kept, Row
  <1>7. Done(c)'
    BY <1>1, <1>2, <1>3, <1>4 DEF CallInv, Done, Row
  <1>8. Enrolled(c)'
    BY <1>1, <1>2, <1>3 DEF CallInv, Enrolled, Placed, Inviting, Activating
  <1>9. Issuing(c)'
    BY <1>1, <1>2, <1>3 DEF CallInv, Issuing, Inviting
  <1>10. NoReuse => Granting(c)' /\ Gone(c)'
    BY <1>1, <1>2, <1>3, <1>4 DEF CallInv, Granting, Gone, Row
  <1>11. NoReuse' = NoReuse
    BY DEF NoReuse
  <1>12. CallInv(c)'
    BY <1>5, <1>6, <1>7, <1>8, <1>9, <1>10, <1>11 DEF CallInv
  <1>13. QED
    BY <1>12, MoveKept

LEMMA CheckNewKept ==
  ASSUME IInv, NEW c \in Callers, CheckNew(c)
  PROVE  Base
  BY Onward, QuitKept DEF CheckNew, Steps

LEMMA IssueRefusedKept ==
  ASSUME IInv, NEW c \in Callers, IssueRefused(c) \/ Crash(c)
  PROVE  Base
  BY QuitKept DEF IssueRefused, Crash

LEMMA StoreFailsKept ==
  ASSUME IInv, NEW c \in Callers, StoreFails(c)
  PROVE  Base
  <1>1. CASE pc[c] \in {"create", "grant", "record"}
    BY <1>1, Onward DEF StoreFails, Steps
  <1>2. CASE pc[c] \notin {"create", "grant", "record"}
    BY <1>2, QuitKept DEF StoreFails
  <1>3. QED
    BY <1>1, <1>2

LEMMA LoadInviteeKept ==
  ASSUME IInv, NEW c \in Callers, LoadInvitee(c)
  PROVE  Base
  <1>1. pc[c] = "user" /\ call[c].op \in {"reissue", "revoke", "activate"} /\ UNCHANGED stores
    BY DEF LoadInvitee, IInv, CallInv, Placed
  <1>2. CASE Return(c)
    BY <1>1, <1>2, QuitKept
  <1>3. CASE Goto(c, CASE call[c].op = "reissue" -> "issue"
                       [] call[c].op = "revoke" -> "revokeCap"
                       [] OTHER -> "match")
    <2>1. CASE call[c].op = "reissue" /\ Goto(c, "issue")
      BY <1>1, <2>1, Onward DEF Steps
    <2>2. CASE call[c].op = "revoke" /\ Goto(c, "revokeCap")
      BY <1>1, <2>2, Onward DEF Steps
    <2>3. CASE call[c].op = "activate" /\ Goto(c, "match")
      BY <1>1, <2>3, Onward DEF Steps
    <2>4. QED
      BY <1>1, <1>3, <2>1, <2>2, <2>3
  <1>4. QED
    BY <1>2, <1>3 DEF LoadInvitee

LEMMA MatchActivationKept ==
  ASSUME IInv, NEW c \in Callers, MatchActivation(c)
  PROVE  Base
  BY Onward, QuitKept DEF MatchActivation, Steps

LEMMA ResolveIdentityKept ==
  ASSUME IInv, NEW c \in Callers, ResolveIdentity(c)
  PROVE  Base
  BY Onward, QuitKept DEF ResolveIdentity, Steps

LEMMA LoadForTransitionKept ==
  ASSUME IInv, NEW c \in Callers, LoadForTransition(c)
  PROVE  Base
  BY Onward, QuitKept DEF LoadForTransition, Steps

LEMMA LoadInvitationKept ==
  ASSUME IInv, NEW c \in Callers, LoadInvitation(c)
  PROVE  Base
  <1> DEFINE row == invitation[call[c].inv]
  <1>1. TypeOK /\ StoreInv /\ CallInv(c) /\ pc[c] = "load" /\ UNCHANGED stores
    BY DEF LoadInvitation, IInv
  <1>2. CASE Return(c)
    BY <1>1, <1>2, QuitKept
  <1>3. CASE /\ row \in Invitation /\ row.status = "pending"
             /\ snapshot' = [snapshot EXCEPT ![c] = row]
             /\ pc' = [pc EXCEPT ![c] = "user"]
             /\ UNCHANGED <<call, mine, todo>>
    <2>1. call[c] \in Calls /\ call[c].op \in {"reissue", "revoke", "activate"}
          /\ call[c].inv \in InvitationIds
      BY <1>1, CallFields DEF CallInv, Placed
    <2>2. /\ LocalsTyped' /\ Alone(c)
          /\ pc'[c] = "user" /\ snapshot'[c] = row /\ call'[c] = call[c]
      BY <1>1, <1>3 DEF TypeOK, LocalsTyped, Alone, Still, Steps
    <2>3. UNCHANGED status /\ UNCHANGED granted /\ UNCHANGED linked
          /\ UNCHANGED invitation /\ UNCHANGED capability
      BY <1>1, StoresStay
    <2>4. call[c].inv \in Issued
      BY <1>3, <2>1 DEF Issued
    <2>5. Row(c)' = row /\ row # DeletedRow /\ row.user \in Users /\ row.cap \in Capabilities
      BY <1>3, <2>2, <2>3, NoRows DEF Row, Invitation
    <2>6. Placed(c)'
      BY <1>1, <1>3, <2>1, <2>2 DEF CallInv, Placed, Inviting, Activating
    <2>7. Kept(c)'
      <3>1. capability[row.cap] \in Capability
        BY <1>1, <2>4 DEF StoreInv, Rows
      <3>2. QED
        BY <1>3, <2>2, <2>3, <2>5, <3>1 DEF Kept
    <2>8. Done(c)' /\ Issuing(c)'
      BY <2>2 DEF Done, Issuing, Inviting
    <2>9. Enrolled(c)'
      BY <1>1, <2>2, <2>3 DEF CallInv, Enrolled, Activating
    <2>10. NoReuse => Granting(c)'
      <3>1. NoReuse => granted[row.user] = InitialGrants
        BY <1>1, <1>3, <2>4 DEF StoreInv, InvitedFullyGranted
      <3>2. QED
        BY <2>2, <2>3, <3>1 DEF Granting
    <2>11. Gone(c)'
      BY <2>2, <2>5 DEF Gone
    <2>12. CallInv(c)'
      BY <2>6, <2>7, <2>8, <2>9, <2>10, <2>11 DEF CallInv, NoReuse
    <2>13. QED
      BY <1>1, <2>2, <2>3, <2>12, NothingWritten, WorkKept
  <1>4. QED
    BY <1>2, <1>3 DEF LoadInvitation

----------------------------------------------------------------------------
(* Steps that write a capability *)

LEMMA CapabilityWritten ==
  ASSUME IInv, UNCHANGED <<status, granted, linked, invitation, expired>>,
         capability' \in [Capabilities -> Capability \cup {Unissued}], CapabilitiesGo
  PROVE  StoresTyped' /\ Gentle /\ NobodyReturns
  <1>1. TypeOK /\ StoreInv
    BY DEF IInv
  <1>2. StoresTyped'
    BY <1>1 DEF TypeOK, StoresTyped
  <1>3. RowsGo /\ GrantsGo /\ NobodyReturns
    BY DEF RowsGo, GrantsGo, NobodyReturns
  <1>4. AccountsGo
    BY <1>1 DEF AccountsGo, StoreInv, Rows
  <1>5. QED
    BY <1>2, <1>3, <1>4 DEF Gentle

LEMMA ChangedState ==
  ASSUME TypeOK, NEW k \in Capabilities, capability[k] \in Capability,
         NEW s \in {"live", "consumed", "revoked"},
         capability' = [capability EXCEPT ![k].state = s]
  PROVE  /\ capability' \in [Capabilities -> Capability \cup {Unissued}]
         /\ capability'[k] \in Capability
         /\ capability'[k].state = s /\ capability'[k].subject = capability[k].subject
         /\ \A l \in Capabilities \ {k} : capability'[l] = capability[l]
  <1>1. /\ [capability[k] EXCEPT !.state = s] \in Capability
        /\ [capability[k] EXCEPT !.state = s].state = s
        /\ [capability[k] EXCEPT !.state = s].subject = capability[k].subject
    BY DEF Capability
  <1>2. capability' = [capability EXCEPT ![k] = [capability[k] EXCEPT !.state = s]]
    OBVIOUS
  <1>3. QED
    BY <1>1, <1>2 DEF TypeOK

LEMMA RevokedGoes ==
  ASSUME TypeOK, NEW k \in Capabilities, capability[k] \in Capability, capability' = Revoked(k)
  PROVE  /\ capability' \in [Capabilities -> Capability \cup {Unissued}]
         /\ CapabilitiesGo /\ capability'[k].state # "live"
         /\ \A l \in Capabilities \ {k} : capability'[l] = capability[l]
  <1>1. CASE capability[k].state = "live"
    <2>1. capability' = [capability EXCEPT ![k].state = "revoked"]
      BY <1>1 DEF Revoked
    <2>2. QED
      BY <1>1, <2>1, ChangedState DEF CapabilitiesGo
  <1>2. CASE capability[k].state # "live"
    BY <1>2 DEF Revoked, CapabilitiesGo, TypeOK
  <1>3. QED
    BY <1>1, <1>2

LEMMA CompensateKept ==
  ASSUME IInv, NEW c \in Callers, Compensate(c)
  PROVE  Base
  <1>1. /\ TypeOK /\ CallInv(c) /\ pc[c] = "compensate" /\ Return(c)
        /\ capability' = Revoked(mine[c])
        /\ UNCHANGED <<status, granted, linked, invitation, expired>>
    BY DEF IInv, Compensate
  <1>2. mine[c] \in Capabilities /\ capability[mine[c]] \in Capability
    BY <1>1 DEF CallInv, Placed, Issuing, Inviting
  <1>3. StoresTyped' /\ Gentle
    BY <1>1, <1>2, RevokedGoes, CapabilityWritten
  <1>4. QED
    BY <1>1, <1>3, EndKept

LEMMA RevokePreviousKept ==
  ASSUME IInv, NEW c \in Callers, RevokePrevious(c)
  PROVE  Base
  <1>1. /\ TypeOK /\ CallInv(c) /\ pc[c] = "revokeOld" /\ Return(c)
        /\ capability' = Revoked(snapshot[c].cap)
        /\ UNCHANGED <<status, granted, linked, invitation, expired>>
    BY DEF IInv, RevokePrevious
  <1>2. snapshot[c].cap \in Capabilities /\ capability[snapshot[c].cap] \in Capability
    BY <1>1, Reading DEF HasRead, CallInv, Kept
  <1>3. StoresTyped' /\ Gentle
    BY <1>1, <1>2, RevokedGoes, CapabilityWritten
  <1>4. QED
    BY <1>1, <1>3, EndKept

\* A call that has read its invitation and goes on, with the parts of the invariant that
\* its new step is about.
LEMMA ReaderKept ==
  ASSUME IInv, NEW c \in Callers, NEW s \in Steps, Goto(c, s), HasRead(c), HasRead(c)',
         StoresTyped', Gentle, NobodyReturns, UNCHANGED invitation,
         Placed(c)', Done(c)', Enrolled(c)', Issuing(c)'
  PROVE  Base
  <1>1. LocalsTyped' /\ Alone(c) /\ pc'[c] = s /\ UNCHANGED <<call, snapshot, mine, todo>>
    BY Goes DEF IInv
  <1>2. TypeOK'
    BY <1>1, TypePartsNext
  <1>4. /\ Row(c)' # DeletedRow =>
             /\ Row(c)' \in Invitation /\ Row(c)'.user = snapshot[c].user
             /\ NoReuse => granted'[snapshot[c].user] = InitialGrants
        /\ capability'[snapshot[c].cap] \in Capability
        /\ NoReuse => Gone(c)'
    BY <1>1, <1>2, ReadKept
  <1>5. pc'[c] \notin {"load", "grant", "record"}
    BY DEF HasRead, Activating
  <1>6. Kept(c)'
    BY <1>1, <1>4, <1>5 DEF Kept
  <1>7. NoReuse => Granting(c)'
    BY <1>1, <1>4, <1>5 DEF Granting
  <1>8. NoReuse' = NoReuse
    BY DEF NoReuse
  <1>9. CallInv(c)'
    BY <1>4, <1>6, <1>7, <1>8 DEF CallInv
  <1>10. QED
    BY <1>1, <1>9, WorkKept

LEMMA RevokeCapabilityKept ==
  ASSUME IInv, NEW c \in Callers, RevokeCapability(c)
  PROVE  Base
  <1>1. /\ TypeOK /\ CallInv(c) /\ pc[c] = "revokeCap" /\ Goto(c, "update")
        /\ capability' = Revoked(snapshot[c].cap)
        /\ UNCHANGED <<status, granted, linked, invitation, expired>>
    BY DEF IInv, RevokeCapability
  <1>2. pc'[c] = "update" /\ UNCHANGED <<call, snapshot, mine, todo>>
    BY <1>1, Goes DEF Steps
  <1>3. HasRead(c) /\ HasRead(c)' /\ call[c].op = "revoke"
    BY <1>1, <1>2 DEF HasRead, CallInv, Placed
  <1>4. snapshot[c].cap \in Capabilities /\ capability[snapshot[c].cap] \in Capability
    BY <1>1, <1>3, Reading DEF CallInv, Kept
  <1>5. StoresTyped' /\ Gentle /\ NobodyReturns /\ capability'[snapshot[c].cap].state # "live"
    BY <1>1, <1>4, RevokedGoes, CapabilityWritten
  <1>6. Placed(c)'
    BY <1>1, <1>2, <1>3 DEF CallInv, Placed, Inviting, Activating
  <1>7. Done(c)' /\ Enrolled(c)'
    BY <1>2, <1>3 DEF Done, Enrolled
  <1>8. Issuing(c)'
    BY <1>2, <1>3, <1>5 DEF Issuing, Inviting
  <1>9. QED
    BY <1>1, <1>3, <1>5, <1>6, <1>7, <1>8, ReaderKept DEF Steps

LEMMA IssueKept ==
  ASSUME IInv, NEW c \in Callers, Issue(c)
  PROVE  Base
  <1> DEFINE t == IF call[c].op = "invite" THEN "create" ELSE "update"
  <1>1. PICK k \in Capabilities :
          /\ capability[k] = Unissued
          /\ capability' = [capability EXCEPT ![k] = [subject |-> Invitee(c), state |-> "live"]]
          /\ mine' = [mine EXCEPT ![c] = k]
    BY DEF Issue
  <1>2. /\ TypeOK /\ CallInv(c) /\ pc[c] = "issue"
        /\ pc' = [pc EXCEPT ![c] = t] /\ todo' = [todo EXCEPT ![c] = InitialGrants]
        /\ UNCHANGED <<call, snapshot>>
        /\ UNCHANGED <<status, granted, linked, invitation, expired>>
    BY DEF IInv, Issue
  <1>3. call[c] \in Calls /\ call[c].op \in {"invite", "reissue"}
    BY <1>2 DEF CallInv, Placed
  <1>4. /\ LocalsTyped' /\ Alone(c) /\ pc'[c] = t /\ mine'[c] = k /\ todo'[c] = InitialGrants
        /\ call'[c] = call[c] /\ snapshot'[c] = snapshot[c]
    BY <1>1, <1>2 DEF TypeOK, LocalsTyped, Alone, Still, Steps
  <1>5. call[c].op = "reissue" => HasRead(c)
    BY <1>2 DEF HasRead
  <1>6. Invitee(c) \in Users
    BY <1>2, <1>3, <1>5, CallFields, Reading DEF Invitee
  <1>7. /\ [subject |-> Invitee(c), state |-> "live"] \in Capability
        /\ capability' \in [Capabilities -> Capability \cup {Unissued}]
        /\ capability'[k] = [subject |-> Invitee(c), state |-> "live"]
        /\ \A l \in Capabilities \ {k} : capability'[l] = capability[l]
    BY <1>1, <1>2, <1>6 DEF TypeOK, Capability
  <1>8. StoresTyped' /\ Gentle /\ NobodyReturns
    <2>1. CapabilitiesGo
      BY <1>1, <1>7, NoRows DEF CapabilitiesGo
    <2>2. QED
      BY <1>2, <1>7, <2>1, CapabilityWritten
  <1>9. TypeOK'
    BY <1>4, <1>8, TypePartsNext
  <1>11. CASE call[c].op = "invite"
    <2>1. pc'[c] = "create" /\ ~HasRead(c)' /\ capability'[mine'[c]].subject = call[c].user
      BY <1>4, <1>7, <1>11 DEF HasRead, Activating, Invitee
    <2>2. Placed(c)'
      BY <1>1, <1>2, <1>3, <1>4, <1>11, <2>1 DEF CallInv, Placed, Inviting, Activating
    <2>3. Kept(c)' /\ Done(c)' /\ Enrolled(c)' /\ Granting(c)' /\ Gone(c)'
      BY <1>4, <1>11, <2>1 DEF Kept, Done, Enrolled, Granting, Gone
    <2>4. Issuing(c)'
      BY <1>4, <1>7, <2>1 DEF Issuing
    <2>5. QED
      BY <1>2, <1>4, <1>8, <2>2, <2>3, <2>4, WorkKept DEF CallInv
  <1>12. CASE call[c].op = "reissue"
    <2>1. pc'[c] = "update" /\ HasRead(c)'
          /\ capability'[mine'[c]].subject = snapshot[c].user
      BY <1>4, <1>7, <1>12 DEF HasRead, Invitee
    <2>2. Placed(c)'
      BY <1>1, <1>2, <1>3, <1>4, <1>5, <1>12, <2>1 DEF CallInv, Placed, Inviting, Activating
    <2>3. /\ Row(c)' # DeletedRow =>
               /\ Row(c)' \in Invitation /\ Row(c)'.user = snapshot[c].user
               /\ NoReuse => granted'[snapshot[c].user] = InitialGrants
          /\ capability'[snapshot[c].cap] \in Capability
          /\ NoReuse => Gone(c)'
      BY <1>2, <1>4, <1>5, <1>8, <1>9, <1>12, <2>1, ReadKept
    <2>4. Kept(c)' /\ (NoReuse => Granting(c)')
      BY <1>4, <2>1, <2>3 DEF Kept, Granting
    <2>5. Done(c)' /\ Enrolled(c)'
      BY <1>4, <1>12 DEF Done, Enrolled
    <2>6. Issuing(c)'
      BY <1>4, <1>7, <1>12, <2>1 DEF Issuing, Inviting
    <2>7. CallInv(c)'
      BY <2>2, <2>3, <2>4, <2>5, <2>6 DEF CallInv, NoReuse
    <2>8. QED
      BY <1>2, <1>4, <1>8, <2>7, WorkKept
  <1>13. QED
    BY <1>3, <1>11, <1>12

----------------------------------------------------------------------------
(* Steps that write an account, a grant or an identity *)

LEMMA CreateUserKept ==
  ASSUME IInv, NEW c \in Callers, CreateUser(c)
  PROVE  Base
  <1> DEFINE u == call[c].user
             t == IF todo[c] = {} THEN "record" ELSE "grant"
  <1>1. /\ TypeOK /\ CallInv(c) /\ pc[c] = "create"
        /\ UNCHANGED <<granted, linked, invitation, capability, expired>>
    BY DEF IInv, CreateUser
  <1>2. CASE UNCHANGED status /\ Goto(c, "compensate")
    BY <1>1, <1>2, Onward DEF stores, Steps
  <1>3. CASE status[u] = Absent /\ status' = [status EXCEPT ![u] = "pending"] /\ Goto(c, t)
    <2>1. /\ call[c] \in Calls /\ call[c].op = "invite" /\ u \in Users
          /\ todo[c] = InitialGrants /\ mine[c] \in Capabilities
      BY <1>1, CallFields DEF CallInv, Placed, Inviting
    <2>2. /\ LocalsTyped' /\ Alone(c) /\ pc'[c] = t
          /\ UNCHANGED <<call, snapshot, mine, todo>>
      BY <1>1, <1>3, Goes DEF Steps
    <2>3. StoresTyped'
      BY <1>1, <1>3 DEF TypeOK, StoresTyped, Statuses, AccountStatuses
    <2>4. Gentle
      <3>1. RowsGo /\ CapabilitiesGo /\ GrantsGo
        BY <1>1 DEF RowsGo, CapabilitiesGo, GrantsGo
      <3>2. ASSUME NEW i \in Issued
            PROVE  /\ invitation[i].user \in Users /\ status[invitation[i].user] # Absent
                   /\ status'[invitation[i].user] = status[invitation[i].user]
        BY <1>1, <1>3, <2>1 DEF IInv, StoreInv, Rows, Issued, Invitation, TypeOK
      <3>3. AccountsGo
        BY <1>1, <3>2 DEF AccountsGo
      <3>4. QED
        BY <3>1, <3>3 DEF Gentle
    <2>5. ~HasRead(c)'
      BY <2>2 DEF HasRead, Activating
    <2>6. Placed(c)'
      BY <1>1, <2>1, <2>2, <2>5 DEF CallInv, Placed, Inviting, Activating
    <2>7. Kept(c)' /\ Done(c)' /\ Enrolled(c)' /\ Gone(c)'
      BY <2>1, <2>2, <2>5 DEF Kept, Done, Enrolled, Gone
    <2>8. Issuing(c)'
      BY <1>1, <2>2 DEF CallInv, Issuing, Inviting
    <2>9. Granting(c)'
      BY <1>1, <2>1, <2>2, <2>5 DEF Granting
    <2>10. CallInv(c)'
      BY <2>6, <2>7, <2>8, <2>9 DEF CallInv
    <2>11. QED
      BY <1>1, <2>2, <2>3, <2>4, <2>10, WorkKept
  <1>4. QED
    BY <1>2, <1>3 DEF CreateUser

LEMMA AddInitialGrantKept ==
  ASSUME IInv, NEW c \in Callers, AddInitialGrant(c)
  PROVE  Base
  <1> DEFINE u == call[c].user
  <1>1. /\ TypeOK /\ CallInv(c) /\ pc[c] = "grant"
        /\ UNCHANGED <<status, linked, invitation, capability, expired>>
    BY DEF IInv, AddInitialGrant
  <1>2. PICK g \in todo[c] :
          IF status[u] = Absent \/ g \in granted[u]
          THEN UNCHANGED granted /\ Goto(c, "compensate")
          ELSE /\ granted' = [granted EXCEPT ![u] = @ \cup {g}]
               /\ todo' = [todo EXCEPT ![c] = @ \ {g}]
               /\ pc' = [pc EXCEPT ![c] = IF todo[c] = {g} THEN "record" ELSE "grant"]
               /\ UNCHANGED <<call, snapshot, mine>>
    BY DEF AddInitialGrant
  <1>3. CASE status[u] = Absent \/ g \in granted[u]
    BY <1>1, <1>2, <1>3, Onward DEF stores, Steps
  <1>4. CASE ~(status[u] = Absent \/ g \in granted[u])
    <2>1. /\ call[c] \in Calls /\ call[c].op = "invite" /\ u \in Users
          /\ mine[c] \in Capabilities
      BY <1>1, CallFields DEF CallInv, Placed, Inviting
    <2>2. /\ LocalsTyped' /\ Alone(c) /\ todo'[c] = todo[c] \ {g}
          /\ pc'[c] = IF todo[c] = {g} THEN "record" ELSE "grant"
          /\ call'[c] = call[c] /\ mine'[c] = mine[c]
      BY <1>1, <1>2, <1>4 DEF TypeOK, LocalsTyped, Alone, Still, Steps
    <2>3. /\ granted'[u] = granted[u] \cup {g} /\ g \in InitialGrants
          /\ \A v \in Users \ {u} : granted'[v] = granted[v]
          /\ granted' \in [Users -> SUBSET InitialGrants]
      BY <1>1, <1>2, <1>4, <2>1 DEF TypeOK
    <2>4. StoresTyped'
      BY <1>1, <2>3 DEF TypeOK, StoresTyped
    <2>5. Gentle
      <3>1. \A v \in Users : granted[v] \subseteq granted'[v]
        BY <2>3
      <3>2. RowsGo /\ CapabilitiesGo /\ GrantsGo
        BY <1>1, <3>1 DEF RowsGo, CapabilitiesGo, GrantsGo
      <3>3. ASSUME NEW i \in Issued
            PROVE  invitation[i].user \in Users /\ status[invitation[i].user] # Absent
        BY <1>1 DEF IInv, StoreInv, Rows, Issued, Invitation
      <3>4. AccountsGo
        BY <1>1, <3>1, <3>3 DEF AccountsGo
      <3>5. QED
        BY <3>2, <3>4 DEF Gentle
    <2>6. ~HasRead(c)'
      BY <2>2 DEF HasRead, Activating
    <2>7. Placed(c)'
      BY <1>1, <2>1, <2>2, <2>6 DEF CallInv, Placed, Inviting, Activating
    <2>8. Kept(c)' /\ Done(c)' /\ Enrolled(c)' /\ Gone(c)'
      BY <2>1, <2>2, <2>6 DEF Kept, Done, Enrolled, Gone
    <2>9. Issuing(c)'
      BY <1>1, <2>2 DEF CallInv, Issuing, Inviting
    <2>10. NoReuse => Granting(c)'
      <3>1. NoReuse => InitialGrants \ todo[c] \subseteq granted[u]
        BY <1>1, <1>4 DEF CallInv, Granting
      <3>2. QED
        BY <2>2, <2>3, <2>6, <3>1 DEF Granting
    <2>11. CallInv(c)'
      BY <2>7, <2>8, <2>9, <2>10 DEF CallInv, NoReuse
    <2>12. QED
      BY <1>1, <2>2, <2>4, <2>5, <2>11, WorkKept
  <1>5. QED
    BY <1>3, <1>4

LEMMA LinkIdentityKept ==
  ASSUME IInv, NEW c \in Callers, LinkIdentity(c)
  PROVE  Base
  <1> DEFINE u == snapshot[c].user
  <1>1. /\ TypeOK /\ CallInv(c) /\ pc[c] = "link"
        /\ UNCHANGED <<status, granted, invitation, capability, expired>>
    BY DEF IInv, LinkIdentity
  <1>2. CASE UNCHANGED linked /\ Return(c)
    BY <1>1, <1>2, QuitKept DEF stores
  <1>3. CASE linked' = linked \cup {u} /\ Goto(c, "transition")
    <2>1. pc'[c] = "transition" /\ UNCHANGED <<call, snapshot, mine, todo>>
      BY <1>1, <1>3, Goes DEF Steps
    <2>2. HasRead(c) /\ HasRead(c)' /\ call[c].op = "activate" /\ u \in Users
      BY <1>1, <2>1, Reading DEF HasRead, Activating, CallInv, Placed
    <2>3. StoresTyped'
      BY <1>1, <1>3, <2>2 DEF TypeOK, StoresTyped
    <2>4. Gentle /\ NobodyReturns
      <3>1. RowsGo /\ CapabilitiesGo /\ GrantsGo /\ NobodyReturns
        BY <1>1 DEF RowsGo, CapabilitiesGo, GrantsGo, NobodyReturns
      <3>2. AccountsGo
        BY <1>1, <1>3 DEF AccountsGo, IInv, StoreInv, Rows
      <3>3. QED
        BY <3>1, <3>2 DEF Gentle
    <2>5. Placed(c)'
      BY <1>1, <2>1, <2>2 DEF CallInv, Placed, Inviting, Activating
    <2>6. Done(c)' /\ Issuing(c)'
      BY <1>3, <2>1 DEF Done, Issuing, Inviting
    <2>7. Enrolled(c)'
      BY <1>1, <2>1 DEF CallInv, Enrolled, Activating
    <2>8. QED
      BY <1>1, <1>3, <2>2, <2>3, <2>4, <2>5, <2>6, <2>7, ReaderKept DEF Steps
  <1>4. QED
    BY <1>2, <1>3 DEF LinkIdentity

LEMMA WriteActiveKept ==
  ASSUME IInv, NEW c \in Callers, WriteActive(c)
  PROVE  Base
  <1> DEFINE u == snapshot[c].user
  <1>1. /\ TypeOK /\ CallInv(c) /\ pc[c] = "write"
        /\ UNCHANGED <<granted, linked, invitation, capability, expired>>
    BY DEF IInv, WriteActive
  <1>2. CASE UNCHANGED status /\ Return(c)
    BY <1>1, <1>2, QuitKept DEF stores
  <1>3. CASE /\ status[u] # Absent /\ status' = [status EXCEPT ![u] = "active"]
             /\ Goto(c, "update")
    <2>1. pc'[c] = "update" /\ UNCHANGED <<call, snapshot, mine, todo>>
      BY <1>1, <1>3, Goes DEF Steps
    <2>2. HasRead(c) /\ HasRead(c)' /\ call[c].op = "activate" /\ u \in Users
      BY <1>1, <2>1, Reading DEF HasRead, Activating, CallInv, Placed
    <2>3. StoresTyped' /\ status'[u] = "active" /\ "active" # Absent
      BY <1>1, <1>3, <2>2 DEF TypeOK, StoresTyped, Statuses, AccountStatuses, Absent
    <2>4. \A v \in Users \ {u} : status'[v] = status[v]
      BY <1>1, <1>3 DEF TypeOK
    <2>5. Gentle /\ NobodyReturns
      <3>1. RowsGo /\ CapabilitiesGo /\ GrantsGo /\ NobodyReturns
        BY <1>1, <1>3, <2>4 DEF RowsGo, CapabilitiesGo, GrantsGo, NobodyReturns
      <3>2. \A i \in Issued : invitation[i].user \in Users
                              /\ status[invitation[i].user] # Absent
        BY <1>1 DEF IInv, StoreInv, Rows, Issued, Invitation
      <3>3. AccountsGo
        BY <1>1, <2>3, <2>4, <3>2 DEF AccountsGo
      <3>4. QED
        BY <3>1, <3>3 DEF Gentle
    <2>6. Placed(c)'
      BY <1>1, <2>1, <2>2 DEF CallInv, Placed, Inviting, Activating
    <2>7. Done(c)'
      BY <1>1, <2>1, <2>2, <2>3 DEF CallInv, Done, Row
    <2>8. Enrolled(c)' /\ Issuing(c)'
      BY <1>1, <2>1, <2>2 DEF CallInv, Enrolled, Issuing, Activating, Inviting
    <2>9. QED
      BY <1>1, <1>3, <2>2, <2>3, <2>5, <2>6, <2>7, <2>8, ReaderKept DEF Steps
  <1>4. QED
    BY <1>2, <1>3 DEF WriteActive

----------------------------------------------------------------------------
(* Steps that write an invitation *)

LEMMA RowWritten ==
  ASSUME IInv, NEW i \in InvitationIds, NEW row \in Invitation,
         invitation' = [invitation EXCEPT ![i] = row],
         UNCHANGED <<status, granted, linked, capability, expired>>,
         \/ invitation[i] = NoRow
         \/ invitation[i] \in Invitation /\ invitation[i].user = row.user,
         status[row.user] # Absent, capability[row.cap] \in Capability,
         row.status = "pending" => PendingFor(row.user) \subseteq {i},
         row.status = "pending" /\ NoReuse => granted[row.user] = InitialGrants,
         row.status = "used" => row.user \in linked /\ status[row.user] # "pending"
  PROVE  /\ StoresTyped' /\ Gentle /\ NobodyReturns /\ StoreInv'
         /\ invitation'[i] = row
  <1>1. TypeOK /\ StoreInv
    BY DEF IInv
  <1>2. /\ StoresTyped' /\ invitation'[i] = row
        /\ \A j \in InvitationIds \ {i} : invitation'[j] = invitation[j]
    BY <1>1 DEF TypeOK, StoresTyped
  <1>3. row # NoRow /\ row # DeletedRow /\ invitation[i] # DeletedRow
    BY NoRows
  <1>4. Gentle /\ NobodyReturns
    <2>1. RowsGo
      BY <1>2, <1>3, NoRows DEF RowsGo
    <2>2. CapabilitiesGo /\ GrantsGo /\ NobodyReturns
      BY DEF CapabilitiesGo, GrantsGo, NobodyReturns
    <2>3. AccountsGo
      BY <1>1 DEF AccountsGo, StoreInv, Rows
    <2>4. QED
      BY <2>1, <2>2, <2>3 DEF Gentle
  <1>5. ASSUME NEW j \in Issued'
        PROVE  j \in InvitationIds /\ (j = i \/ (j \in Issued /\ invitation'[j] = invitation[j]))
    BY <1>2 DEF Issued
  <1>6. Rows'
    <2>1. ASSUME NEW j \in Issued'
          PROVE  /\ status'[invitation'[j].user] # Absent
                 /\ capability'[invitation'[j].cap] \in Capability
      BY <1>1, <1>2, <1>5 DEF StoreInv, Rows
    <2>2. ASSUME NEW j \in Issued', NEW l \in Issued',
                 invitation'[j].status = "pending", invitation'[l].status = "pending",
                 invitation'[j].user = invitation'[l].user
          PROVE  j = l
      <3>1. CASE j # i /\ l # i
        BY <1>1, <1>5, <2>2, <3>1 DEF StoreInv, Rows
      <3>2. ASSUME NEW m \in Issued', m # i, invitation'[m].status = "pending",
                   row.status = "pending", invitation'[m].user = row.user
            PROVE  FALSE
        <4>1. m \in Issued /\ invitation'[m] = invitation[m] /\ m \in InvitationIds
          BY <1>5, <3>2
        <4>2. m \in PendingFor(row.user)
          BY <3>2, <4>1 DEF PendingFor, Issued
        <4>3. QED
          BY <3>2, <4>2
      <3>3. QED
        BY <1>2, <2>2, <3>1, <3>2
    <2>3. QED
      BY <2>1, <2>2 DEF Rows
  <1>7. UsedIsComplete'
    <2>1. ASSUME NEW j \in Issued', invitation'[j].status = "used"
          PROVE  /\ invitation'[j].user \in linked'
                 /\ status'[invitation'[j].user] \notin {Absent, "pending"}
      BY <1>1, <1>2, <1>5, <2>1 DEF StoreInv, UsedIsComplete
    <2>2. QED
      BY <2>1 DEF UsedIsComplete
  <1>8. NoReuse => InvitedFullyGranted'
    <2>1. ASSUME NoReuse, NEW j \in Issued', invitation'[j].status = "pending"
          PROVE  granted'[invitation'[j].user] = InitialGrants
      BY <1>1, <1>2, <1>5, <2>1 DEF StoreInv, InvitedFullyGranted
    <2>2. QED
      BY <2>1 DEF InvitedFullyGranted
  <1>9. QED
    BY <1>2, <1>4, <1>6, <1>7, <1>8 DEF StoreInv, NoReuse

LEMMA RecordInvitationKept ==
  ASSUME IInv, NEW c \in Callers, RecordInvitation(c)
  PROVE  Base
  <1> DEFINE u == call[c].user
             row == [user |-> u, cap |-> mine[c], status |-> "pending"]
  <1>1. /\ TypeOK /\ CallInv(c) /\ pc[c] = "record"
        /\ UNCHANGED <<status, granted, linked, capability, expired>>
    BY DEF IInv, RecordInvitation
  <1>2. CASE UNCHANGED invitation /\ Goto(c, "compensate")
    BY <1>1, <1>2, Onward DEF stores, Steps
  <1>3. CASE /\ status[u] # Absent /\ PendingFor(u) = {}
             /\ \E i \in InvitationIds :
                  invitation[i] = NoRow /\ invitation' = [invitation EXCEPT ![i] = row]
             /\ Return(c)
    <2>1. PICK i \in InvitationIds :
            invitation[i] = NoRow /\ invitation' = [invitation EXCEPT ![i] = row]
      BY <1>3
    <2>2. /\ call[c] \in Calls /\ u \in Users /\ mine[c] \in Capabilities /\ todo[c] = {}
          /\ capability[mine[c]] \in Capability
      BY <1>1, CallFields DEF CallInv, Placed, Inviting, Issuing
    <2>3. row \in Invitation
      BY <2>2 DEF Invitation, InvitationStatuses
    <2>4. NoReuse => granted[u] = InitialGrants
      <3>1. NoReuse => InitialGrants \ todo[c] \subseteq granted[u]
        BY <1>1, <1>3 DEF CallInv, Granting
      <3>2. granted[u] \subseteq InitialGrants
        BY <1>1, <2>2 DEF TypeOK
      <3>3. QED
        BY <2>2, <3>1, <3>2
    <2>5. StoresTyped' /\ Gentle /\ StoreInv'
      BY <1>1, <1>3, <2>1, <2>2, <2>3, <2>4, RowWritten
    <2>6. LocalsTyped' /\ Alone(c) /\ CallInv(c)'
      BY <1>1, <1>3, Returns, IdleInv
    <2>8. TypeOK'
      BY <2>5, <2>6, TypePartsNext
    <2>9. QED
      BY <2>5, <2>6, <2>8, CallersKept DEF Base
  <1>4. QED
    BY <1>2, <1>3 DEF RecordInvitation

\* The row a call writes back, and what it makes of the invitation.
LEMMA UpdatedRow ==
  ASSUME TypeOK, NEW c \in Callers, CallInv(c), pc[c] = "update"
  PROVE  /\ Updated(c) \in Invitation /\ Updated(c).user = snapshot[c].user
         /\ Updated(c).status = CASE call[c].op = "reissue" -> "pending"
                                  [] call[c].op = "revoke" -> "revoked"
                                  [] OTHER -> "used"
         /\ Updated(c).cap = IF call[c].op = "reissue" THEN mine[c] ELSE snapshot[c].cap
  <1> DEFINE s == snapshot[c]
  <1>1. HasRead(c)
    BY DEF HasRead
  <1>2. s \in Invitation /\ s.status = "pending"
    BY <1>1, Reading
  <1>3. call[c].op = "reissue" => mine[c] \in Capabilities
    BY DEF CallInv, Placed
  <1>4. /\ \A k \in Capabilities :
             /\ [s EXCEPT !.cap = k] \in Invitation /\ [s EXCEPT !.cap = k].user = s.user
             /\ [s EXCEPT !.cap = k].cap = k /\ [s EXCEPT !.cap = k].status = s.status
        /\ \A t \in InvitationStatuses :
             /\ [s EXCEPT !.status = t] \in Invitation /\ [s EXCEPT !.status = t].user = s.user
             /\ [s EXCEPT !.status = t].cap = s.cap /\ [s EXCEPT !.status = t].status = t
    BY <1>2 DEF Invitation
  <1>5. CASE call[c].op = "reissue"
    BY <1>2, <1>3, <1>4, <1>5 DEF Updated
  <1>6. CASE call[c].op = "revoke"
    BY <1>4, <1>6 DEF Updated, InvitationStatuses
  <1>7. CASE call[c].op \notin {"reissue", "revoke"}
    BY <1>4, <1>7 DEF Updated, InvitationStatuses
  <1>8. QED
    BY <1>5, <1>6, <1>7

LEMMA UpdateInvitationKept ==
  ASSUME IInv, NEW c \in Callers, UpdateInvitation(c)
  PROVE  Base
  <1> DEFINE i == call[c].inv
             u == snapshot[c].user
             row == Updated(c)
  <1>1. /\ TypeOK /\ StoreInv /\ CallInv(c) /\ pc[c] = "update"
        /\ UNCHANGED <<status, granted, linked, capability, expired>>
    BY DEF IInv, UpdateInvitation
  <1>2. CASE UNCHANGED invitation /\ Return(c)
    BY <1>1, <1>2, QuitKept DEF stores
  <1>3. CASE /\ invitation[i] # DeletedRow
             /\ row.status = "pending" => PendingFor(u) \subseteq {i}
             /\ invitation' = [invitation EXCEPT ![i] = row]
             /\ IF call[c].op = "reissue" THEN Goto(c, "revokeOld") ELSE Return(c)
    <2>1. HasRead(c)
      BY <1>1 DEF HasRead
    <2>2. /\ i \in InvitationIds /\ i \in Issued /\ invitation[i].user = u
          /\ invitation[i] \in Invitation
          /\ call[c].op \in {"reissue", "revoke", "activate"}
          /\ capability[snapshot[c].cap] \in Capability
      BY <1>1, <1>3, <2>1, Reading DEF Row, Issued, CallInv, Kept
    <2>3. /\ row \in Invitation /\ row.user = u
          /\ row.cap = IF call[c].op = "reissue" THEN mine[c] ELSE snapshot[c].cap
          /\ row.status = "used" => call[c].op = "activate"
      BY <1>1, <2>2, UpdatedRow
    <2>4. status[u] # Absent
      BY <1>1, <2>2 DEF StoreInv, Rows
    <2>5. capability[row.cap] \in Capability
      BY <1>1, <2>2, <2>3 DEF CallInv, Issuing
    <2>6. NoReuse => granted[u] = InitialGrants
      BY <1>1, <1>3, <2>1 DEF CallInv, Granting, Row
    <2>7. row.status = "used" => u \in linked /\ status[u] # "pending"
      BY <1>1, <1>3, <2>1, <2>3 DEF CallInv, Done, Row
    <2>8. StoresTyped' /\ Gentle /\ StoreInv' /\ invitation'[i] = row
      <3>1. /\ status[row.user] # Absent
            /\ row.status = "pending" => PendingFor(row.user) \subseteq {i}
            /\ row.status = "pending" /\ NoReuse => granted[row.user] = InitialGrants
            /\ row.status = "used" => row.user \in linked /\ status[row.user] # "pending"
            /\ invitation[i] \in Invitation /\ invitation[i].user = row.user
        BY <1>3, <2>2, <2>3, <2>4, <2>6, <2>7
      <3>2. invitation' = [invitation EXCEPT ![i] = row]
        BY <1>3
      <3>3. i \in InvitationIds /\ row \in Invitation
            /\ capability[row.cap] \in Capability
        BY <2>2, <2>3, <2>5
      <3> HIDE DEF row, i, u
      <3>4. QED
        BY <1>1, <3>1, <3>2, <3>3, RowWritten
    <2>9. LocalsTyped' /\ Alone(c) /\ CallInv(c)'
      <3>1. CASE Return(c)
        BY <1>1, <3>1, Returns, IdleInv
      <3>2. CASE call[c].op = "reissue" /\ Goto(c, "revokeOld")
        <4>1. /\ LocalsTyped' /\ Alone(c) /\ pc'[c] = "revokeOld"
              /\ UNCHANGED <<call, snapshot, mine, todo>>
          BY <1>1, <3>2, Goes DEF Steps
        <4>2. Row(c)' = row /\ row # DeletedRow
          BY <2>3, <2>8, <4>1, NoRows DEF Row
        <4>3. Placed(c)'
          BY <1>1, <2>1, <3>2, <4>1 DEF CallInv, Placed, Inviting, Activating
        <4>4. Kept(c)'
          BY <1>1, <2>2, <2>3, <4>1, <4>2 DEF Kept
        <4>5. Done(c)' /\ Enrolled(c)' /\ Issuing(c)'
          BY <3>2, <4>1 DEF Done, Enrolled, Issuing, Inviting
        <4>6. NoReuse => Granting(c)'
          BY <1>1, <2>6, <4>1 DEF Granting
        <4>7. Gone(c)'
          BY <4>1, <4>2 DEF Gone
        <4>8. QED
          BY <4>1, <4>3, <4>4, <4>5, <4>6, <4>7 DEF CallInv, NoReuse
      <3>3. QED
        BY <1>3, <3>1, <3>2
    <2>10. TypeOK'
      BY <2>8, <2>9, TypePartsNext
    <2>11. QED
      BY <2>2, <2>8, <2>9, <2>10, CallersKept DEF Base
  <1>4. QED
    BY <1>2, <1>3 DEF UpdateInvitation

----------------------------------------------------------------------------
(* Steps of nobody's call *)

LEMMA HostKept ==
  ASSUME IInv, UNCHANGED locals, StoresTyped', Gentle, NobodyReturns, UNCHANGED invitation
  PROVE  Base
  <1>1. TypeOK'
    BY Stays, TypePartsNext DEF IInv
  <1>2. QED
    BY <1>1, RowsHeld, OthersKept DEF Base

LEMMA ConsumeKept ==
  ASSUME IInv, NEW k \in Capabilities, Consume(k)
  PROVE  Base
  <1>1. /\ TypeOK /\ capability[k] \in Capability /\ capability[k].state = "live"
        /\ capability' = [capability EXCEPT ![k].state = "consumed"]
        /\ UNCHANGED <<status, granted, linked, invitation, expired>> /\ UNCHANGED locals
    BY DEF IInv, Consume, TypeOK
  <1>2. CapabilitiesGo /\ capability' \in [Capabilities -> Capability \cup {Unissued}]
    BY <1>1, ChangedState DEF CapabilitiesGo
  <1>3. QED
    BY <1>1, <1>2, CapabilityWritten, HostKept

LEMMA ExpireKept ==
  ASSUME IInv, NEW k \in Capabilities, Expire(k)
  PROVE  Base
  <1>1. TypeOK /\ UNCHANGED <<status, granted, linked, invitation, capability>>
        /\ UNCHANGED locals /\ expired' = expired \cup {k}
    BY DEF IInv, Expire
  <1>2. StoresTyped'
    BY <1>1 DEF TypeOK, StoresTyped
  <1>3. RowsGo /\ CapabilitiesGo /\ GrantsGo /\ NobodyReturns
    BY <1>1 DEF RowsGo, CapabilitiesGo, GrantsGo, NobodyReturns
  <1>4. AccountsGo
    BY <1>1 DEF AccountsGo, IInv, StoreInv, Rows
  <1>5. QED
    BY <1>1, <1>2, <1>3, <1>4, HostKept DEF Gentle

LEMMA AdministerKept ==
  ASSUME IInv, NEW u \in Users, NEW to \in AdminTargets, Administer(u, to)
  PROVE  Base
  <1>1. /\ TypeOK /\ LegalTransition(status[u], to) /\ status' = [status EXCEPT ![u] = to]
        /\ UNCHANGED <<granted, linked, invitation, capability, expired>> /\ UNCHANGED locals
    BY DEF IInv, Administer
  <1>2. /\ status[u] # Absent /\ to \in AccountStatuses /\ to # "pending" /\ to # Absent
        /\ status'[u] = to /\ \A v \in Users \ {u} : status'[v] = status[v]
    BY <1>1, InvitationsAssumption DEF LegalTransition, TypeOK, AccountStatuses, Absent
  <1>3. StoresTyped'
    BY <1>1, <1>2 DEF TypeOK, StoresTyped, Statuses
  <1>4. RowsGo /\ CapabilitiesGo /\ GrantsGo /\ NobodyReturns
    BY <1>1, <1>2 DEF RowsGo, CapabilitiesGo, GrantsGo, NobodyReturns
  <1>5. \A i \in Issued : invitation[i].user \in Users /\ status[invitation[i].user] # Absent
    BY DEF IInv, StoreInv, Rows, Issued, Invitation
  <1>6. AccountsGo
    BY <1>1, <1>2, <1>5 DEF AccountsGo
  <1>7. QED
    BY <1>1, <1>3, <1>4, <1>6, HostKept DEF Gentle

LEMMA PurgeKept ==
  ASSUME IInv, NEW u \in Users, Purge(u)
  PROVE  Base
  <1>1. /\ TypeOK /\ StoreInv /\ Purges /\ UNCHANGED locals
        /\ status' = [status EXCEPT ![u] = Absent]
        /\ granted' = [granted EXCEPT ![u] = {}] /\ linked' = linked \ {u}
        /\ UNCHANGED <<capability, expired>>
    BY DEF IInv, Purge
  <1>2. invitation' = [i \in InvitationIds |->
          IF invitation[i] \in Invitation /\ invitation[i].user = u
          THEN DeletedRow ELSE invitation[i]]
    BY DEF Purge
  <1>3. ASSUME NEW i \in InvitationIds
        PROVE  \/ i \in Issued /\ invitation[i].user = u /\ invitation'[i] = DeletedRow
               \/ /\ ~(i \in Issued /\ invitation[i].user = u)
                  /\ invitation'[i] = invitation[i]
    BY <1>2, <1>3 DEF Issued
  <1>4. StoresTyped'
    BY <1>1, <1>2 DEF TypeOK, StoresTyped, Statuses
  <1>5. /\ status'[u] = Absent
        /\ \A v \in Users \ {u} : status'[v] = status[v] /\ granted'[v] = granted[v]
    BY <1>1 DEF TypeOK
  <1>6. \A i \in Issued : i \in InvitationIds /\ invitation[i].user \in Users
                          /\ status[invitation[i].user] # Absent
    BY <1>1 DEF StoreInv, Rows, Issued, Invitation
  <1>7. RowsGo
    <2>1. SUFFICES ASSUME NEW i \in InvitationIds
                   PROVE  /\ invitation[i] # NoRow => invitation'[i] # NoRow
                          /\ invitation[i] = DeletedRow => invitation'[i] = DeletedRow
                          /\ invitation[i] \in Invitation =>
                               \/ /\ invitation'[i] \in Invitation
                                  /\ invitation'[i].user = invitation[i].user
                               \/ /\ invitation'[i] = DeletedRow /\ Purges
                                  /\ status'[invitation[i].user] = Absent
      BY DEF RowsGo
    <2>2. CASE i \in Issued /\ invitation[i].user = u /\ invitation'[i] = DeletedRow
      BY <1>1, <1>5, <2>2, NoRows
    <2>3. CASE invitation'[i] = invitation[i]
      BY <2>3
    <2>4. QED
      BY <1>3, <2>2, <2>3
  <1>8. CapabilitiesGo /\ GrantsGo /\ NobodyReturns
    BY <1>1, <1>5 DEF CapabilitiesGo, GrantsGo, NobodyReturns
  <1>9. \A i \in Issued : invitation'[i] # DeletedRow => invitation[i].user # u
    BY <1>3, <1>6
  <1>10. AccountsGo
    BY <1>1, <1>5, <1>6, <1>9 DEF AccountsGo
  <1>12. ASSUME NEW i \in Issued'
         PROVE  /\ i \in Issued /\ invitation'[i] = invitation[i]
                /\ invitation[i].user \in Users \ {u}
    BY <1>3, <1>6, NoRows DEF Issued
  <1>13. StoreInv'
    <2>1. Rows'
      BY <1>1, <1>5, <1>12 DEF StoreInv, Rows
    <2>2. UsedIsComplete'
      BY <1>1, <1>5, <1>12 DEF StoreInv, UsedIsComplete
    <2>3. NoReuse => InvitedFullyGranted'
      BY <1>1, <1>5, <1>12 DEF StoreInv, InvitedFullyGranted
    <2>4. QED
      BY <2>1, <2>2, <2>3 DEF StoreInv, NoReuse
  <1>14. QED
    BY <1>1, <1>4, <1>7, <1>8, <1>10, <1>13, OthersKept DEF Gentle, Base

LEMMA StepKept == ASSUME IInv, Next PROVE Base
  <1>1. ASSUME NEW c \in Callers, Start(c) \/ Step(c) \/ StoreFails(c) \/ Crash(c)
        PROVE  Base
    BY <1>1, StartKept, StoreFailsKept, CheckNewKept, IssueKept, IssueRefusedKept,
       CreateUserKept, AddInitialGrantKept, RecordInvitationKept, CompensateKept,
       LoadInvitationKept, LoadInviteeKept, RevokeCapabilityKept, UpdateInvitationKept,
       RevokePreviousKept, MatchActivationKept, ResolveIdentityKept, LinkIdentityKept,
       LoadForTransitionKept, WriteActiveKept
       DEF Step
  <1>2. CASE \E k \in Capabilities : Consume(k) \/ Expire(k)
    BY <1>2, ConsumeKept, ExpireKept
  <1>3. CASE \E u \in Users : Purge(u) \/ \E to \in AdminTargets : Administer(u, to)
    BY <1>3, PurgeKept, AdministerKept
  <1>4. QED
    BY <1>1, <1>2, <1>3 DEF Next

----------------------------------------------------------------------------
(* The invariant *)

LEMMA InitIInv == Init => IInv
  <1> SUFFICES ASSUME Init PROVE IInv
    OBVIOUS
  <1>1. TypeOK
    BY DEF Init, TypeOK, Statuses, Steps
  <1>2. Issued = {}
    BY NoRows DEF Init, Issued
  <1>3. StoreInv
    BY <1>2 DEF StoreInv, Rows, UsedIsComplete, InvitedFullyGranted
  <1>4. \A c \in Callers : CallInv(c)
    BY DEF Init, CallInv, Placed, Kept, Done, Enrolled, Issuing, Granting, Gone,
           HasRead, Activating, Inviting
  <1>5. QED
    BY <1>1, <1>3, <1>4 DEF IInv

LEMMA StepIInv == IInv /\ [Next]_vars => IInv'
  <1> SUFFICES ASSUME IInv, [Next]_vars PROVE IInv'
    OBVIOUS
  <1>1. CASE Next
    BY <1>1, StepKept DEF IInv, Base
  <1>2. CASE UNCHANGED vars
    <2>1. UNCHANGED stores /\ UNCHANGED locals
      BY <1>2 DEF vars, stores, locals
    <2>2. UNCHANGED <<status, granted, linked, invitation, capability, expired>>
      BY <2>1 DEF stores
    <2>3. StoresTyped' /\ Gentle /\ NobodyReturns
      BY <2>1, NothingWritten
    <2>4. QED
      BY <2>1, <2>2, <2>3, HostKept DEF IInv, Base
  <1>3. QED
    BY <1>1, <1>2

THEOREM Invariance == Spec => []IInv
  BY InitIInv, StepIInv, PTL DEF Spec

\* Types, for every number of callers, failures, crashes and purges.
THEOREM TypeCorrect == Spec => []TypeOK
  <1>1. IInv => TypeOK
    BY DEF IInv
  <1>2. QED
    BY <1>1, Invariance, PTL

\* A used invitation has left its user linked and no longer pending, whatever callers
\* activate, reissue or revoke it at once, and wherever one of them stops.
THEOREM ActivationsAreWhole == Spec => []UsedIsComplete
  <1>1. IInv => UsedIsComplete
    BY DEF IInv, StoreInv
  <1>2. QED
    BY <1>1, Invariance, PTL

\* A pending invitation has all of its initial grants, provided that no user id is
\* invited again while another call about it is under way.
THEOREM InvitationsFullyGranted ==
  ASSUME NoReuse
  PROVE  Spec => []InvitedFullyGranted
  <1>1. IInv => InvitedFullyGranted
    BY DEF IInv, StoreInv
  <1>2. QED
    BY <1>1, Invariance, PTL

----------------------------------------------------------------------------
(* Where a capability is *)

Followed ==
  \A k \in Capabilities :
    Live(k)' /\ ~Tracked(k)' => (Live(k) /\ ~Tracked(k)) \/ LetGo(k)

\* A capability is not revived, and no other keeps its subject from it.
NoneRevived ==
  \A k \in Capabilities : capability'[k].state = "live" =>
    capability[k].state = "live" /\ capability'[k].subject = capability[k].subject

\* A step that writes no invitation, after which the call has in hand what it had, or
\* has let go of it.
LEMMA HandsFollowed ==
  ASSUME NEW c \in Callers, Alone(c), UNCHANGED invitation, NoneRevived,
         \A k \in Capabilities :
           InHand(k, c) /\ capability'[k].state = "live" => InHand(k, c)' \/ LetGo(k)
  PROVE  Followed
  <1> SUFFICES ASSUME NEW k \in Capabilities, capability'[k].state = "live", Tracked(k)
               PROVE  Tracked(k)' \/ LetGo(k)
    BY DEF Followed, Live, NoneRevived
  <1>1. capability'[k].subject = capability[k].subject
    BY DEF NoneRevived
  <1>2. \A i \in InvitationIds : InForce(k, i) => InForce(k, i)'
    BY <1>1 DEF InForce, Issued
  <1>3. ASSUME NEW d \in Callers, InHand(k, d)
        PROVE  InHand(k, d)' \/ LetGo(k)
    <2>1. CASE d = c
      BY <1>3, <2>1
    <2>2. CASE d # c
      BY <1>3, <2>2 DEF Alone, Still, InHand
    <2>3. QED
      BY <2>1, <2>2
  <1>4. QED
    BY <1>2, <1>3 DEF Tracked

\* Steps of a call that has no capability in hand.
LEMMA EmptyHanded ==
  ASSUME NEW c \in Callers, pc[c] \notin Inviting \cup {"update", "revokeOld"},
         Alone(c), UNCHANGED invitation, NoneRevived
  PROVE  Followed
  <1>1. \A k \in Capabilities : ~InHand(k, c)
    BY DEF InHand
  <1>2. QED
    BY <1>1, HandsFollowed

LEMMA NoneRevivedBy ==
  ASSUME TypeOK
  PROVE  /\ UNCHANGED capability => NoneRevived
         /\ \A k \in Capabilities :
              capability[k] \in Capability /\ capability' = Revoked(k) => NoneRevived
  <1>1. ASSUME NEW k \in Capabilities, capability[k] \in Capability, capability' = Revoked(k)
        PROVE  NoneRevived
    <2>1. CapabilitiesGo /\ capability'[k].state # "live"
          /\ \A l \in Capabilities \ {k} : capability'[l] = capability[l]
      BY <1>1, RevokedGoes
    <2>2. QED
      BY <2>1 DEF NoneRevived
  <1>2. QED
    BY <1>1 DEF NoneRevived

LEMMA CallersFollowed ==
  ASSUME IInv, NEW c \in Callers,
         \/ Start(c) \/ CheckNew(c) \/ IssueRefused(c) \/ LoadInvitation(c) \/ LoadInvitee(c)
         \/ MatchActivation(c) \/ ResolveIdentity(c) \/ LinkIdentity(c)
         \/ LoadForTransition(c) \/ WriteActive(c)
  PROVE  Followed
  <1>1. TypeOK
    BY DEF IInv
  <1>2. UNCHANGED invitation /\ UNCHANGED capability
    BY DEF stores, Start, CheckNew, IssueRefused, LoadInvitation, LoadInvitee,
           MatchActivation, ResolveIdentity, LinkIdentity, LoadForTransition, WriteActive
  <1>3. pc[c] \notin Inviting \cup {"update", "revokeOld"}
    BY DEF Inviting, Start, CheckNew, IssueRefused, LoadInvitation, LoadInvitee,
           MatchActivation, ResolveIdentity, LinkIdentity, LoadForTransition, WriteActive
  <1>4. Alone(c)
    <2>1. CASE Start(c)
      BY <1>1, <2>1 DEF Start, Alone, Still, TypeOK
    <2>2. CASE LoadInvitation(c)
      BY <1>1, <2>2, Returns DEF LoadInvitation, Alone, Still, TypeOK
    <2>3. CASE LoadInvitee(c)
      <3>1. Return(c) \/ \E s \in Steps : Goto(c, s)
        BY <2>3 DEF LoadInvitee, Steps
      <3>2. QED
        BY <1>1, <3>1, Returns, Goes
    <2>4. CASE CheckNew(c) \/ IssueRefused(c) \/ MatchActivation(c) \/ ResolveIdentity(c)
               \/ LinkIdentity(c) \/ LoadForTransition(c) \/ WriteActive(c)
      <3>1. Return(c) \/ \E s \in Steps : Goto(c, s)
        BY <2>4 DEF CheckNew, IssueRefused, MatchActivation, ResolveIdentity, LinkIdentity,
                    LoadForTransition, WriteActive, Steps
      <3>2. QED
        BY <1>1, <3>1, Returns, Goes
    <2>5. QED
      BY <2>1, <2>2, <2>3, <2>4
  <1>5. QED
    BY <1>1, <1>2, <1>3, <1>4, NoneRevivedBy, EmptyHanded

LEMMA IssueFollowed ==
  ASSUME IInv, NEW c \in Callers, Issue(c)
  PROVE  Followed
  <1>1. PICK k \in Capabilities :
          /\ capability[k] = Unissued
          /\ capability' = [capability EXCEPT ![k] = [subject |-> Invitee(c), state |-> "live"]]
          /\ mine' = [mine EXCEPT ![c] = k]
    BY DEF Issue
  <1>2. /\ TypeOK /\ CallInv(c) /\ pc[c] = "issue" /\ UNCHANGED <<call, snapshot, invitation>>
        /\ pc' = [pc EXCEPT ![c] = IF call[c].op = "invite" THEN "create" ELSE "update"]
    BY DEF IInv, Issue
  <1>3. call[c].op \in {"invite", "reissue"}
    BY <1>2 DEF CallInv, Placed
  <1>4. InHand(k, c)'
    BY <1>1, <1>2, <1>3 DEF InHand, Inviting, TypeOK
  <1>5. \A l \in Capabilities : ~InHand(l, c)
    BY <1>2 DEF InHand, Inviting
  <1>6. \A d \in Callers \ {c} : \A l \in Capabilities : InHand(l, d) => InHand(l, d)'
    BY <1>1, <1>2 DEF InHand, TypeOK
  <1>7. \A l \in Capabilities \ {k} : capability'[l] = capability[l]
    BY <1>1, <1>2 DEF TypeOK
  <1>8. \A l \in Capabilities \ {k} : \A i \in InvitationIds : InForce(l, i) => InForce(l, i)'
    BY <1>2, <1>7 DEF InForce, Issued
  <1>9. QED
    BY <1>4, <1>5, <1>6, <1>7, <1>8 DEF Followed, Tracked, Live

\* invite has its capability in hand until it has recorded the invitation or revoked it.
LEMMA InvitesFollowed ==
  ASSUME IInv, NEW c \in Callers, NEW s \in Inviting, pc[c] \in Inviting, Alone(c),
         pc'[c] = s, mine'[c] = mine[c], UNCHANGED <<invitation, capability>>
  PROVE  Followed
  <1>1. \A k \in Capabilities : InHand(k, c) => InHand(k, c)'
    BY DEF InHand, Inviting
  <1>2. NoneRevived
    BY NoneRevivedBy DEF IInv
  <1>3. QED
    BY <1>1, <1>2, HandsFollowed

LEMMA InvitationGoesOn ==
  ASSUME IInv, NEW c \in Callers,
         CreateUser(c) \/ AddInitialGrant(c)
  PROVE  Followed
  <1>1. TypeOK
    BY DEF IInv
  <1>2. CASE CreateUser(c)
    <2>1. \E s \in Inviting \cap Steps : Goto(c, s)
      BY <1>2 DEF CreateUser, Inviting, Steps
    <2>2. UNCHANGED <<invitation, capability>> /\ pc[c] \in Inviting
      BY <1>2 DEF CreateUser, Inviting
    <2>3. QED
      BY <1>1, <2>1, <2>2, Goes, InvitesFollowed
  <1>3. CASE AddInitialGrant(c)
    <2>1. UNCHANGED <<invitation, capability>> /\ pc[c] \in Inviting
      BY <1>3 DEF AddInitialGrant, Inviting
    <2>2. \/ Goto(c, "compensate")
          \/ \E g \in todo[c] :
               /\ todo' = [todo EXCEPT ![c] = @ \ {g}]
               /\ pc' = [pc EXCEPT ![c] = IF todo[c] = {g} THEN "record" ELSE "grant"]
               /\ UNCHANGED <<call, snapshot, mine>>
      BY <1>3 DEF AddInitialGrant
    <2>3. Alone(c) /\ mine'[c] = mine[c] /\ pc'[c] \in Inviting
      BY <1>1, <2>2, Goes DEF Alone, Still, TypeOK, Inviting, Steps
    <2>4. QED
      BY <2>1, <2>3, InvitesFollowed
  <1>4. QED
    BY <1>2, <1>3

\* A call that is cut off: invite's handler takes over, or it lets go.
LEMMA FailureFollowed ==
  ASSUME IInv, NEW c \in Callers, StoreFails(c) \/ Crash(c)
  PROVE  Followed
  <1>1. TypeOK /\ UNCHANGED stores
    BY DEF IInv, StoreFails, Crash
  <1>2. UNCHANGED invitation /\ UNCHANGED capability
    BY <1>1, StoresStay
  <1>3. CASE pc[c] \in {"create", "grant", "record"} /\ Goto(c, "compensate")
    <2>1. Alone(c) /\ mine'[c] = mine[c] /\ pc'[c] = "compensate"
      BY <1>1, <1>3, Goes DEF Steps
    <2>2. QED
      BY <1>2, <1>3, <2>1, InvitesFollowed DEF Inviting
  <1>4. CASE /\ Return(c)
             /\ Crashes \/ pc[c] \in FailingSteps \ {"create", "grant", "record"}
    <2>1. Alone(c) /\ pc'[c] = "idle"
      BY <1>1, <1>4, Returns
    <2>2. \A k \in Capabilities : InHand(k, c) => LetGo(k)
      BY <1>4, <2>1 DEF LetGo
    <2>3. NoneRevived
      BY <1>1, <1>2, NoneRevivedBy
    <2>4. QED
      BY <1>2, <2>1, <2>2, <2>3, HandsFollowed
  <1>5. QED
    BY <1>3, <1>4 DEF StoreFails, Crash

LEMMA RecordFollowed ==
  ASSUME IInv, NEW c \in Callers, RecordInvitation(c)
  PROVE  Followed
  <1> DEFINE row == [user |-> call[c].user, cap |-> mine[c], status |-> "pending"]
  <1>1. TypeOK /\ CallInv(c) /\ pc[c] = "record" /\ UNCHANGED capability
    BY DEF IInv, RecordInvitation
  <1>2. CASE UNCHANGED invitation /\ Goto(c, "compensate")
    BY <1>1, <1>2, Goes, InvitesFollowed DEF Inviting, Steps
  <1>3. CASE /\ \E i \in InvitationIds :
                  invitation[i] = NoRow /\ invitation' = [invitation EXCEPT ![i] = row]
             /\ Return(c)
    <2>1. PICK i \in InvitationIds :
            invitation[i] = NoRow /\ invitation' = [invitation EXCEPT ![i] = row]
      BY <1>3
    <2>2. /\ call[c].user \in Users /\ mine[c] \in Capabilities
          /\ capability[mine[c]].subject = call[c].user
      BY <1>1, CallFields DEF CallInv, Placed, Inviting, Issuing
    <2>3. row \in Invitation
      BY <2>2 DEF Invitation, InvitationStatuses
    <2>4. invitation'[i] = row /\ \A j \in InvitationIds \ {i} : invitation'[j] = invitation[j]
      BY <1>1, <2>1 DEF TypeOK
    <2>5. ASSUME NEW k \in Capabilities, k = mine[c]
          PROVE  InForce(k, i)'
      BY <1>1, <2>2, <2>3, <2>4, <2>5 DEF InForce, Issued
    <2>6. \A k \in Capabilities, j \in InvitationIds : InForce(k, j) => InForce(k, j)'
      <3>1. \A k \in Capabilities : ~InForce(k, i)
        BY <2>1, NoRows DEF InForce, Issued
      <3>2. QED
        BY <1>1, <2>4, <3>1 DEF InForce, Issued
    <2>7. Alone(c)
      BY <1>1, <1>3, Returns
    <2>8. ASSUME NEW k \in Capabilities, NEW d \in Callers, InHand(k, d)
          PROVE  InHand(k, d)' \/ k = mine[c]
      BY <1>1, <2>7, <2>8 DEF InHand, Alone, Still
    <2>9. QED
      BY <1>1, <2>5, <2>6, <2>8 DEF Followed, Tracked, Live
  <1>4. QED
    BY <1>2, <1>3 DEF RecordInvitation

\* Compensate and RevokePrevious revoke what the call has in hand.
LEMMA RevokedFollowed ==
  ASSUME IInv, NEW c \in Callers,
         Compensate(c) \/ RevokePrevious(c) \/ RevokeCapability(c)
  PROVE  Followed
  <1>1. TypeOK /\ CallInv(c) /\ UNCHANGED invitation
    BY DEF IInv, Compensate, RevokePrevious, RevokeCapability
  <1>2. Alone(c)
    BY <1>1, Returns, Goes DEF Compensate, RevokePrevious, RevokeCapability, Steps
  <1>3. CASE Compensate(c)
    <2>1. /\ mine[c] \in Capabilities /\ capability[mine[c]] \in Capability
          /\ pc[c] = "compensate" /\ capability' = Revoked(mine[c])
      BY <1>1, <1>3 DEF Compensate, CallInv, Placed, Issuing, Inviting
    <2>2. capability'[mine[c]].state # "live" /\ NoneRevived
      BY <1>1, <2>1, RevokedGoes, NoneRevivedBy
    <2>3. \A k \in Capabilities : InHand(k, c) => k = mine[c]
      BY <2>1 DEF InHand
    <2>4. QED
      BY <1>1, <1>2, <2>2, <2>3, HandsFollowed
  <1>4. CASE RevokePrevious(c) \/ RevokeCapability(c)
    <2>1. HasRead(c) /\ capability' = Revoked(snapshot[c].cap)
          /\ pc[c] \in {"revokeOld", "revokeCap"}
      BY <1>4 DEF RevokePrevious, RevokeCapability, HasRead
    <2>2. snapshot[c].cap \in Capabilities /\ capability[snapshot[c].cap] \in Capability
      BY <1>1, <2>1, Reading DEF CallInv, Kept
    <2>3. capability'[snapshot[c].cap].state # "live" /\ NoneRevived
      BY <1>1, <2>1, <2>2, RevokedGoes, NoneRevivedBy
    <2>4. \A k \in Capabilities : InHand(k, c) => k = snapshot[c].cap
      BY <2>1 DEF InHand, Inviting
    <2>5. QED
      BY <1>1, <1>2, <2>3, <2>4, HandsFollowed
  <1>5. QED
    BY <1>3, <1>4

\* A row that is not what the call has read lets go of its capability.
LEMMA UpdateFollowed ==
  ASSUME IInv, NEW c \in Callers, UpdateInvitation(c)
  PROVE  Followed
  <1> DEFINE i == call[c].inv
             s == snapshot[c]
             row == Updated(c)
  <1>1. TypeOK /\ StoreInv /\ CallInv(c) /\ pc[c] = "update" /\ HasRead(c)
        /\ UNCHANGED capability
    BY DEF IInv, UpdateInvitation, HasRead
  <1>2. /\ i \in InvitationIds /\ s \in Invitation /\ s.status = "pending" /\ s.user \in Users
        /\ call[c].op \in {"reissue", "revoke", "activate"}
    BY <1>1, Reading
  <1>3. CASE UNCHANGED invitation /\ Return(c)
    <2>1. Alone(c) /\ pc'[c] = "idle"
      BY <1>1, <1>3, Returns
    <2>2. \A k \in Capabilities : InHand(k, c) => LetGo(k)
      BY <1>1, <2>1 DEF LetGo
    <2>3. NoneRevived
      BY <1>1, NoneRevivedBy
    <2>4. QED
      BY <1>3, <2>1, <2>2, <2>3, HandsFollowed
  <1>4. CASE /\ invitation' = [invitation EXCEPT ![i] = row]
             /\ IF call[c].op = "reissue" THEN Goto(c, "revokeOld") ELSE Return(c)
    <2>1. /\ row \in Invitation /\ row.user = s.user
          /\ row.status = CASE call[c].op = "reissue" -> "pending"
                            [] call[c].op = "revoke" -> "revoked"
                            [] OTHER -> "used"
          /\ row.cap = IF call[c].op = "reissue" THEN mine[c] ELSE s.cap
      BY <1>1, UpdatedRow
    <2>2. /\ invitation'[i] = row
          /\ \A j \in InvitationIds \ {i} : invitation'[j] = invitation[j]
      BY <1>1, <1>2, <1>4 DEF TypeOK
    <2>3. /\ Alone(c) /\ pc'[c] # "update"
          /\ call[c].op = "reissue" => pc'[c] = "revokeOld" /\ UNCHANGED snapshot
      BY <1>1, <1>4, Returns, Goes DEF Steps
    <2>4. ASSUME NEW k \in Capabilities, NEW j \in InvitationIds, InForce(k, j), j # i
          PROVE  InForce(k, j)'
      BY <1>1, <2>2, <2>4 DEF InForce, Issued
    <2>5. ASSUME NEW k \in Capabilities, NEW d \in Callers, InHand(k, d), d # c
          PROVE  InHand(k, d)'
      BY <2>3, <2>5 DEF InHand, Alone, Still
    <2>6. ASSUME NEW k \in Capabilities, InForce(k, i), invitation[i] # s
          PROVE  LetGo(k)
      BY <1>1, <2>3, <2>6 DEF LetGo
    <2>7. \A k \in Capabilities : InForce(k, i) /\ invitation[i] = s => k = s.cap
      BY DEF InForce
    <2>8. CASE call[c].op = "reissue"
      <3>1. ASSUME NEW k \in Capabilities, k = mine[c],
                   NEW j \in InvitationIds, j = call[c].inv
            PROVE  InForce(k, j)'
        <4>1. capability[k].subject = s.user
          BY <1>1, <2>8, <3>1 DEF CallInv, Issuing
        <4>2. QED
          BY <1>1, <1>2, <2>1, <2>2, <2>8, <3>1, <4>1 DEF InForce, Issued
      <3>2. ASSUME NEW k \in Capabilities, k = s.cap
            PROVE  InHand(k, c)'
        BY <2>3, <2>8, <3>2 DEF InHand
      <3>3. \A k \in Capabilities : InHand(k, c) => k = mine[c]
        BY <1>1 DEF InHand, Inviting
      <3>4. ASSUME NEW k \in Capabilities, Tracked(k)
            PROVE  Tracked(k)' \/ LetGo(k)
        <4>1. CASE \E j \in InvitationIds : InForce(k, j)
          BY <1>2, <2>4, <2>6, <2>7, <3>2, <4>1 DEF Tracked
        <4>2. CASE \E d \in Callers : InHand(k, d)
          BY <1>2, <2>5, <3>1, <3>3, <4>2 DEF Tracked
        <4>3. QED
          BY <3>4, <4>1, <4>2 DEF Tracked
      <3>5. QED
        BY <1>1, <3>4 DEF Followed, Live
    <2>9. CASE call[c].op # "reissue"
      <3>1. capability[s.cap].state # "live"
        BY <1>1, <1>2, <2>9 DEF CallInv, Issuing, Enrolled
      <3>2. \A k \in Capabilities : ~InHand(k, c)
        BY <1>1, <2>9 DEF InHand, Inviting
      <3>3. ASSUME NEW k \in Capabilities, Tracked(k), k # s.cap
            PROVE  Tracked(k)' \/ LetGo(k)
        <4>1. CASE \E j \in InvitationIds : InForce(k, j)
          BY <2>4, <2>6, <2>7, <3>3, <4>1 DEF Tracked
        <4>2. CASE \E d \in Callers : InHand(k, d)
          BY <2>5, <3>2, <4>2 DEF Tracked
        <4>3. QED
          BY <3>3, <4>1, <4>2 DEF Tracked
      <3>4. QED
        BY <1>1, <3>1, <3>3 DEF Followed, Live
    <2>10. QED
      BY <2>8, <2>9
  <1>5. QED
    BY <1>3, <1>4 DEF UpdateInvitation

LEMMA HostFollowed ==
  ASSUME UNCHANGED locals, UNCHANGED invitation, NoneRevived
  PROVE  Followed
  <1> SUFFICES ASSUME NEW k \in Capabilities, capability'[k].state = "live", Tracked(k)
               PROVE  Tracked(k)'
    BY DEF Followed, Live, NoneRevived
  <1>1. capability'[k].subject = capability[k].subject
    BY DEF NoneRevived
  <1>2. \A i \in InvitationIds : InForce(k, i) => InForce(k, i)'
    BY <1>1 DEF InForce, Issued
  <1>3. \A d \in Callers : InHand(k, d) => InHand(k, d)'
    BY DEF InHand, locals
  <1>4. QED
    BY <1>2, <1>3 DEF Tracked

LEMMA PurgeFollowed ==
  ASSUME IInv, NEW u \in Users, Purge(u)
  PROVE  Followed
  <1> SUFFICES ASSUME NEW k \in Capabilities, Tracked(k)
               PROVE  Tracked(k)' \/ LetGo(k)
    BY DEF Followed, Live, Purge
  <1>1. UNCHANGED capability /\ UNCHANGED locals
    BY DEF Purge
  <1>2. ASSUME NEW i \in InvitationIds, InForce(k, i)
        PROVE  InForce(k, i)' \/ LetGo(k)
    <2>1. invitation'[i] \in {invitation[i], DeletedRow}
      BY DEF Purge
    <2>2. CASE invitation'[i] = DeletedRow
      BY <1>2, <2>2 DEF LetGo
    <2>3. CASE invitation'[i] = invitation[i]
      BY <1>1, <1>2, <2>3 DEF InForce, Issued
    <2>4. QED
      BY <2>1, <2>2, <2>3
  <1>3. \A d \in Callers : InHand(k, d) => InHand(k, d)'
    BY <1>1 DEF InHand, locals
  <1>4. QED
    BY <1>2, <1>3 DEF Tracked

LEMMA StepFollowed ==
  ASSUME IInv, Next
  PROVE  Followed
  <1>1. TypeOK
    BY DEF IInv
  <1>2. ASSUME NEW c \in Callers, Start(c) \/ Step(c) \/ StoreFails(c) \/ Crash(c)
        PROVE  Followed
    BY <1>2, CallersFollowed, IssueFollowed, InvitationGoesOn, FailureFollowed,
       RecordFollowed, RevokedFollowed, UpdateFollowed DEF Step
  <1>3. ASSUME NEW k \in Capabilities, Consume(k)
        PROVE  Followed
    <2>1. NoneRevived
      <3>1. capability[k] \in Capability /\ capability' = [capability EXCEPT ![k].state = "consumed"]
        BY <1>1, <1>3 DEF Consume, TypeOK
      <3>2. QED
        BY <1>1, <3>1, ChangedState DEF NoneRevived
    <2>2. QED
      BY <1>3, <2>1, HostFollowed DEF Consume
  <1>4. ASSUME NEW k \in Capabilities, Expire(k)
        PROVE  Followed
    BY <1>1, <1>4, NoneRevivedBy, HostFollowed DEF Expire
  <1>5. ASSUME NEW u \in Users, NEW to \in AdminTargets, Administer(u, to)
        PROVE  Followed
    BY <1>1, <1>5, NoneRevivedBy, HostFollowed DEF Administer
  <1>6. QED
    BY <1>2, <1>3, <1>4, <1>5, PurgeFollowed DEF Next

\* A capability that can still be consumed is in force or some call is about to see to
\* it, and what is lost sight of is let go by a call that is cut off outside of invite's
\* handler or refused its update, by one that overwrites a row another call has changed,
\* or by a purge: whatever callers invite, reissue, revoke and activate at once.
THEOREM CapabilitiesTracked == Spec => NoCapabilityLost
  <1>1. IInv /\ [Next]_vars => [Followed]_vars
    BY StepFollowed
  <1>2. Spec => [][Followed]_vars
    BY <1>1, Invariance, PTL DEF Spec
  <1>3. QED
    BY <1>2 DEF NoCapabilityLost, Followed

----------------------------------------------------------------------------
(* What a call knows *)

LEMMA RowSteps ==
  ASSUME IInv, Next, invitation' # invitation
  PROVE  \/ \E c \in Callers : RecordInvitation(c) \/ UpdateInvitation(c)
         \/ \E u \in Users : Purge(u)
  BY DEF Next, Step, stores, Start, CheckNew, Issue, IssueRefused, CreateUser,
         AddInitialGrant, Compensate, LoadInvitation, LoadInvitee, RevokeCapability,
         RevokePrevious, MatchActivation, ResolveIdentity, LinkIdentity,
         LoadForTransition, WriteActive, StoreFails, Crash, Consume, Expire, Administer

\* A call goes on with what it has read, unless it reads it now, or it ends.
GoesOn(c) ==
  \/ pc'[c] = "idle"
  \/ pc[c] \notin {"idle", "load"} /\ call'[c] = call[c] /\ snapshot'[c] = snapshot[c]
  \/ ~HasRead(c)' /\ pc'[c] \in {"check", "load"}
  \/ /\ pc[c] = "load" /\ pc'[c] = "user"
     /\ Row(c) \in Invitation /\ Row(c).status = "pending"
     /\ call'[c] = call[c] /\ snapshot'[c] = Row(c)

LEMMA OwnSteps ==
  ASSUME TypeOK, NEW c \in Callers, Start(c) \/ Step(c) \/ StoreFails(c) \/ Crash(c)
  PROVE  Alone(c) /\ GoesOn(c)
  <1>1. CASE Start(c)
    <2>1. Alone(c) /\ pc'[c] \in {"check", "load"}
      BY <1>1 DEF Start, Alone, Still, TypeOK
    <2>2. QED
      BY <2>1 DEF GoesOn, HasRead, Activating
  <1>2. CASE pc[c] \notin {"idle", "load"} /\ \E s \in Steps : Goto(c, s)
    BY <1>2, Goes DEF GoesOn
  <1>3. CASE Return(c)
    BY <1>3, Returns DEF GoesOn
  <1>4. CASE LoadInvitation(c)
    <2>1. CASE Return(c)
      BY <2>1, <1>3
    <2>2. CASE /\ Row(c) \in Invitation /\ Row(c).status = "pending"
               /\ snapshot' = [snapshot EXCEPT ![c] = Row(c)]
               /\ pc' = [pc EXCEPT ![c] = "user"]
               /\ UNCHANGED <<call, mine, todo>>
      BY <1>4, <2>2 DEF LoadInvitation, TypeOK, GoesOn, Alone, Still
    <2>3. QED
      BY <1>4, <2>1, <2>2 DEF LoadInvitation, Row
  <1>5. CASE Issue(c) \/ AddInitialGrant(c)
    <2>1. /\ pc[c] \in {"issue", "grant"}
          /\ \E s \in Steps : pc' = [pc EXCEPT ![c] = s]
      BY <1>5 DEF Issue, AddInitialGrant, Goto, Steps
    <2>2. /\ UNCHANGED <<call, snapshot>>
          /\ UNCHANGED mine \/ \E k \in Capabilities : mine' = [mine EXCEPT ![c] = k]
          /\ UNCHANGED todo \/ \E s \in SUBSET InitialGrants : todo' = [todo EXCEPT ![c] = s]
      BY <1>5 DEF Issue, AddInitialGrant, Goto, TypeOK
    <2>3. QED
      BY <2>1, <2>2 DEF TypeOK, GoesOn, Alone, Still
  <1>6. CASE LoadInvitee(c)
    <2>1. Return(c) \/ (pc[c] = "user" /\ \E s \in Steps : Goto(c, s))
      BY <1>6 DEF LoadInvitee, Steps
    <2>2. QED
      BY <1>2, <1>3, <2>1
  <1>7. CASE \/ CheckNew(c) \/ IssueRefused(c) \/ CreateUser(c) \/ RecordInvitation(c)
             \/ Compensate(c) \/ RevokeCapability(c) \/ UpdateInvitation(c)
             \/ RevokePrevious(c) \/ MatchActivation(c) \/ ResolveIdentity(c)
             \/ LinkIdentity(c) \/ LoadForTransition(c) \/ WriteActive(c)
             \/ StoreFails(c) \/ Crash(c)
    <2>1. Return(c) \/ (pc[c] \notin {"idle", "load"} /\ \E s \in Steps : Goto(c, s))
      BY <1>7 DEF CheckNew, IssueRefused, CreateUser, RecordInvitation, Compensate,
         RevokeCapability, UpdateInvitation, RevokePrevious, MatchActivation,
         ResolveIdentity, LinkIdentity, LoadForTransition, WriteActive, StoreFails, Crash,
         Steps
    <2>2. QED
      BY <1>2, <1>3, <2>1
  <1>8. QED
    BY <1>1, <1>4, <1>5, <1>6, <1>7 DEF Step

\* A caller in any step: it stays as it is, or goes on.
LEMMA AnyStep ==
  ASSUME TypeOK, Next, NEW d \in Callers
  PROVE  \/ Still(d)
         \/ (Start(d) \/ Step(d) \/ StoreFails(d) \/ Crash(d)) /\ GoesOn(d)
  <1>1. ASSUME NEW c \in Callers, Start(c) \/ Step(c) \/ StoreFails(c) \/ Crash(c)
        PROVE  \/ Still(d)
               \/ (Start(d) \/ Step(d) \/ StoreFails(d) \/ Crash(d)) /\ GoesOn(d)
    <2>1. CASE c = d
      BY <1>1, <2>1, OwnSteps
    <2>2. CASE c # d
      BY <1>1, <2>2, OwnSteps DEF Alone
    <2>3. QED
      BY <2>1, <2>2
  <1>2. CASE UNCHANGED locals
    BY <1>2, Stays
  <1>3. QED
    BY <1>1, <1>2 DEF Next, Consume, Expire, Purge, Administer

\* What a call has read after a step it had read before, or it was there, pending.
LEMMA KnownBefore ==
  ASSUME IInv, Next, NEW d \in Callers, HasRead(d)'
  PROVE  /\ call'[d] = call[d] /\ call[d].inv \in InvitationIds
         /\ \/ HasRead(d) /\ snapshot'[d] = snapshot[d]
            \/ /\ call[d].inv \in Issued /\ Row(d).status = "pending"
               /\ snapshot'[d] = Row(d)
  <1>1. TypeOK /\ CallInv(d)
    BY DEF IInv
  <1>2. CASE Still(d)
    <2>1. HasRead(d) /\ call'[d] = call[d] /\ snapshot'[d] = snapshot[d]
      BY <1>2 DEF Still, HasRead
    <2>2. QED
      BY <1>1, <2>1, Reading
  <1>3. CASE (Start(d) \/ Step(d) \/ StoreFails(d) \/ Crash(d)) /\ GoesOn(d)
    <2>1. pc'[d] # "idle"
      BY DEF HasRead, Activating
    <2>2. CASE /\ pc[d] = "load" /\ pc'[d] = "user"
               /\ Row(d) \in Invitation /\ Row(d).status = "pending"
               /\ call'[d] = call[d] /\ snapshot'[d] = Row(d)
      <3>1. call[d].inv \in InvitationIds
        BY <1>1, <2>2, CallFields DEF CallInv, Placed
      <3>2. QED
        BY <2>2, <3>1 DEF Issued, Row
    <2>3. CASE /\ pc[d] \notin {"idle", "load"}
               /\ call'[d] = call[d] /\ snapshot'[d] = snapshot[d]
      <3>1. HasRead(d)
        <4>1. pc'[d] \notin {"idle", "check", "load"} \cup Inviting
              /\ (pc'[d] = "issue" => call[d].op = "reissue")
          BY <2>3 DEF HasRead, Inviting, Activating
        <4>2. SUFFICES ASSUME ~HasRead(d) PROVE FALSE
          OBVIOUS
        <4>3. pc[d] \in {"check", "issue"} \cup Inviting
              /\ (pc[d] \in {"check", "issue"} => call[d].op = "invite")
          BY <1>1, <2>3, <4>2 DEF HasRead, Inviting, Activating, CallInv, Placed, TypeOK, Steps
        <4>4. pc'[d] \in {"idle", "issue", "create"} \cup Inviting
              /\ (pc'[d] = "issue" => call[d].op = "invite")
          BY <1>1, <1>3, <4>3, <2>3 DEF Step, Start, CheckNew, Issue, IssueRefused, CreateUser,
             AddInitialGrant, RecordInvitation, Compensate, LoadInvitation, LoadInvitee,
             RevokeCapability, UpdateInvitation, RevokePrevious, MatchActivation,
             ResolveIdentity, LinkIdentity, LoadForTransition, WriteActive, StoreFails,
             Crash, Return, Goto, Inviting, TypeOK
        <4>5. QED
          BY <4>1, <4>4 DEF Inviting
      <3>2. QED
        BY <1>1, <2>3, <3>1, Reading
    <2>4. QED
      BY <1>3, <2>1, <2>2, <2>3 DEF GoesOn
  <1>4. QED
    BY <1>1, <1>2, <1>3, AnyStep

----------------------------------------------------------------------------
(* What is over *)

LEMMA RowStays ==
  ASSUME IInv, Next, NEW i \in InvitationIds, Over(i)
  PROVE  invitation'[i] \in {invitation[i], DeletedRow}
  <1> SUFFICES ASSUME invitation' # invitation
               PROVE  invitation'[i] \in {invitation[i], DeletedRow}
    OBVIOUS
  <1>1. TypeOK /\ invitation[i] \in Invitation
    BY DEF IInv, Over, Issued
  <1>2. ASSUME NEW c \in Callers, RecordInvitation(c)
        PROVE  invitation'[i] = invitation[i]
    <2>1. \E j \in InvitationIds :
            /\ invitation[j] = NoRow
            /\ invitation' = [invitation EXCEPT ![j] =
                 [user |-> call[c].user, cap |-> mine[c], status |-> "pending"]]
      BY <1>2 DEF RecordInvitation
    <2>2. QED
      BY <1>1, <2>1, NoRows
  <1>3. ASSUME NEW c \in Callers, UpdateInvitation(c)
        PROVE  invitation'[i] = invitation[i]
    <2>1. HasRead(c) /\ invitation' = [invitation EXCEPT ![call[c].inv] = Updated(c)]
      BY <1>3 DEF UpdateInvitation, HasRead
    <2>2. call[c].inv # i
      BY <2>1 DEF Over
    <2>3. QED
      BY <1>1, <2>1, <2>2 DEF TypeOK
  <1>4. ASSUME NEW u \in Users, Purge(u)
        PROVE  invitation'[i] \in {invitation[i], DeletedRow}
    BY <1>1, <1>4 DEF Purge
  <1>5. QED
    BY <1>2, <1>3, <1>4, RowSteps

Settled ==
  \A i \in InvitationIds : Over(i) =>
    invitation'[i] = DeletedRow \/ (Over(i)' /\ invitation'[i] = invitation[i])

LEMMA StepSettled == ASSUME IInv, Next PROVE Settled
  <1> SUFFICES ASSUME NEW i \in InvitationIds, Over(i), invitation'[i] # DeletedRow
               PROVE  Over(i)' /\ invitation'[i] = invitation[i]
    BY DEF Settled
  <1>1. invitation'[i] = invitation[i]
    BY RowStays
  <1>2. ASSUME NEW d \in Callers, HasRead(d)'
        PROVE  call'[d].inv # i
    BY <1>2, KnownBefore DEF Over, Row
  <1>3. QED
    BY <1>1, <1>2 DEF Over, Issued

\* A settled invitation can change as long as a call goes on that read it before, and
\* never after, whatever callers settle it at once and wherever they stop: what is used
\* or revoked then stays so until it goes with its user.
THEOREM SettledForGood == Spec => SettledIsOver
  <1>1. IInv /\ [Next]_vars => [Settled]_vars
    BY StepSettled
  <1>2. Spec => [][Settled]_vars
    BY <1>1, Invariance, PTL DEF Spec
  <1>3. QED
    BY <1>2 DEF SettledIsOver, Settled

LEMMA IssuedStays ==
  ASSUME IInv, Next, NEW k \in Capabilities, capability[k] # Unissued
  PROVE  capability'[k] # Unissued
  <1>1. TypeOK /\ capability[k] \in Capability
    BY DEF IInv, TypeOK
  <1>2. ASSUME CapabilitiesGo PROVE capability'[k] # Unissued
    BY <1>1, <1>2, NoRows DEF CapabilitiesGo
  <1>3. ASSUME NEW c \in Callers, Issue(c)
        PROVE  capability'[k] # Unissued
    BY <1>1, <1>3 DEF Issue, TypeOK
  <1>4. ASSUME NEW c \in Callers, Compensate(c)
        PROVE  CapabilitiesGo
    <2>1. /\ CallInv(c) /\ mine[c] \in Capabilities /\ capability[mine[c]] \in Capability
          /\ capability' = Revoked(mine[c])
      BY <1>4 DEF IInv, Compensate, CallInv, Placed, Issuing, Inviting
    <2>2. QED
      BY <1>1, <2>1, RevokedGoes
  <1>5. ASSUME NEW c \in Callers, RevokePrevious(c) \/ RevokeCapability(c)
        PROVE  CapabilitiesGo
    <2>1. HasRead(c) /\ CallInv(c) /\ capability' = Revoked(snapshot[c].cap)
      BY <1>5 DEF IInv, RevokePrevious, RevokeCapability, HasRead
    <2>2. snapshot[c].cap \in Capabilities /\ capability[snapshot[c].cap] \in Capability
      BY <1>1, <2>1, Reading DEF CallInv, Kept
    <2>3. QED
      BY <1>1, <2>1, <2>2, RevokedGoes
  <1>6. ASSUME NEW l \in Capabilities, Consume(l)
        PROVE  CapabilitiesGo
    <2>1. /\ capability[l] \in Capability /\ capability[l].state = "live"
          /\ capability' = [capability EXCEPT ![l].state = "consumed"]
      BY <1>1, <1>6 DEF Consume, TypeOK
    <2>2. QED
      BY <1>1, <2>1, ChangedState DEF CapabilitiesGo
  <1>7. CASE UNCHANGED capability
    BY <1>7
  <1>8. \/ \E c \in Callers : Issue(c) \/ Compensate(c) \/ RevokePrevious(c) \/ RevokeCapability(c)
        \/ \E l \in Capabilities : Consume(l)
        \/ UNCHANGED capability
    BY DEF Next, Step, stores, Start, CheckNew, IssueRefused, CreateUser,
         AddInitialGrant, RecordInvitation, LoadInvitation, LoadInvitee, UpdateInvitation,
         MatchActivation, ResolveIdentity, LinkIdentity, LoadForTransition, WriteActive,
         StoreFails, Crash, Expire, Administer, Purge
  <1>9. QED
    BY <1>2, <1>3, <1>4, <1>5, <1>6, <1>7, <1>8

\* What a call has in hand it had, has issued now, or has read.
LEMMA TakenInHand ==
  ASSUME IInv, Next, NEW d \in Callers, NEW k \in Capabilities, InHand(k, d)'
  PROVE  InHand(k, d) \/ capability[k] = Unissued \/ (HasRead(d) /\ snapshot[d].cap = k)
  <1>1. TypeOK /\ CallInv(d)
    BY DEF IInv
  <1>2. CASE Still(d)
    BY <1>2 DEF Still, InHand
  <1>3. CASE Issue(d)
    BY <1>1, <1>3 DEF Issue, InHand, TypeOK, Inviting
  <1>4. CASE CheckNew(d) \/ IssueRefused(d) \/ Start(d) \/ LoadInvitation(d) \/ LoadInvitee(d)
             \/ Crash(d) \/ RevokePrevious(d) \/ MatchActivation(d)
             \/ ResolveIdentity(d) \/ LinkIdentity(d) \/ LoadForTransition(d) \/ Compensate(d)
    <2>1. pc'[d] \notin Inviting \cup {"update", "revokeOld"}
      BY <1>1, <1>4 DEF CheckNew, IssueRefused, Start, LoadInvitation, LoadInvitee, Crash,
         RevokePrevious, MatchActivation, ResolveIdentity, LinkIdentity, LoadForTransition,
         Compensate, Return, Goto, TypeOK, Inviting
    <2>2. QED
      BY <2>1 DEF InHand
  <1>5. CASE CreateUser(d) \/ AddInitialGrant(d) \/ RecordInvitation(d) \/ StoreFails(d)
    <2>1. \/ pc'[d] = "idle"
          \/ pc'[d] \in Inviting /\ pc[d] \in Inviting /\ mine'[d] = mine[d]
      BY <1>1, <1>5 DEF CreateUser, AddInitialGrant, RecordInvitation, StoreFails,
         Return, Goto, TypeOK, Inviting
    <2>2. QED
      BY <2>1 DEF InHand, Inviting
  <1>6. CASE RevokeCapability(d) \/ WriteActive(d)
    <2>1. /\ call[d].op # "reissue"
          /\ pc'[d] = "idle" \/ (pc'[d] = "update" /\ call'[d] = call[d])
      BY <1>1, <1>6 DEF RevokeCapability, WriteActive, Return, Goto, TypeOK, CallInv, Placed,
         Activating
    <2>2. QED
      BY <2>1 DEF InHand, Inviting
  <1>7. CASE UpdateInvitation(d)
    <2>1. HasRead(d) /\ (pc'[d] = "idle" \/ (pc'[d] = "revokeOld" /\ snapshot'[d] = snapshot[d]))
      BY <1>1, <1>7 DEF UpdateInvitation, Return, Goto, TypeOK, HasRead
    <2>2. QED
      BY <2>1 DEF InHand, Inviting
  <1>8. QED
    BY <1>1, <1>2, <1>3, <1>4, <1>5, <1>6, <1>7, AnyStep DEF Step

\* Nothing puts a retired capability in an invitation again.
LEMMA NotPutBack ==
  ASSUME IInv, Next, NEW k \in Capabilities, Retired(k),
         NEW i \in Issued', invitation'[i].status = "pending"
  PROVE  invitation'[i].cap # k
  <1>1. TypeOK /\ i \in InvitationIds /\ invitation'[i] \in Invitation
    BY DEF IInv, Issued
  <1>2. CASE invitation'[i] = invitation[i]
    BY <1>1, <1>2 DEF Retired, Issued
  <1>3. ASSUME invitation'[i] # invitation[i], NEW c \in Callers, RecordInvitation(c)
        PROVE  invitation'[i].cap # k
    <2>1. \E j \in InvitationIds :
            invitation' = [invitation EXCEPT ![j] =
              [user |-> call[c].user, cap |-> mine[c], status |-> "pending"]]
      BY <1>1, <1>3 DEF RecordInvitation
    <2>2. invitation'[i].cap = mine[c]
      BY <1>1, <1>3, <2>1 DEF TypeOK
    <2>3. InHand(mine[c], c)
      BY <1>3 DEF RecordInvitation, InHand, Inviting
    <2>4. QED
      BY <2>2, <2>3 DEF Retired
  <1>4. ASSUME invitation'[i] # invitation[i], NEW c \in Callers, UpdateInvitation(c)
        PROVE  invitation'[i].cap # k
    <2>1. /\ pc[c] = "update" /\ HasRead(c) /\ CallInv(c)
          /\ invitation' = [invitation EXCEPT ![call[c].inv] = Updated(c)]
      BY <1>1, <1>4 DEF UpdateInvitation, HasRead, IInv
    <2>2. invitation'[i] = Updated(c)
      BY <1>1, <1>4, <2>1 DEF TypeOK
    <2>3. invitation'[i].cap = IF call[c].op = "reissue" THEN mine[c] ELSE snapshot[c].cap
      BY <1>1, <2>1, <2>2, UpdatedRow
    <2>4. snapshot[c].cap # k /\ ~InHand(k, c)
      BY <2>1 DEF Retired
    <2>5. QED
      BY <2>1, <2>3, <2>4 DEF InHand
  <1>5. ASSUME invitation'[i] # invitation[i], NEW u \in Users, Purge(u)
        PROVE  FALSE
    BY <1>1, <1>5, NoRows DEF Purge
  <1>6. QED
    BY <1>2, <1>3, <1>4, <1>5, RowSteps

RetiredStays ==
  \A k \in Capabilities : Retired(k) =>
    Retired(k)' /\ \A c \in Callers : Activates(c) => call[c].cap # k

LEMMA StepRetired == ASSUME IInv, Next PROVE RetiredStays
  <1> SUFFICES ASSUME NEW k \in Capabilities, Retired(k)
               PROVE  Retired(k)' /\ \A c \in Callers : Activates(c) => call[c].cap # k
    BY DEF RetiredStays
  <1>1. capability'[k] # Unissued
    BY IssuedStays DEF Retired
  <1>2. \A i \in Issued' : invitation'[i].status = "pending" => invitation'[i].cap # k
    BY NotPutBack
  <1>3. ASSUME NEW d \in Callers
        PROVE  ~InHand(k, d)' /\ ~(HasRead(d)' /\ snapshot'[d].cap = k)
    <2>1. ~InHand(k, d)'
      BY TakenInHand DEF Retired
    <2>2. ASSUME HasRead(d)' PROVE snapshot'[d].cap # k
      BY <2>2, KnownBefore DEF Retired, Row
    <2>3. QED
      BY <2>1, <2>2
  <1>4. ASSUME NEW c \in Callers, Activates(c)
        PROVE  call[c].cap # k
    <2>1. HasRead(c) /\ CallInv(c) /\ pc[c] = "write"
      BY <1>4 DEF Activates, HasRead, Activating, IInv
    <2>2. snapshot[c].cap = call[c].cap
      BY <2>1 DEF CallInv, Placed, Enrolled, Activating
    <2>3. QED
      BY <2>1, <2>2 DEF Retired
  <1>5. QED
    BY <1>1, <1>2, <1>3, <1>4 DEF Retired

\* A capability that was revoked, replaced or used up can be in force again, or activate
\* somebody, only through a call that had read or issued it; after these calls it never
\* is and never does, whatever callers settle at once, fail, crash or are purged.
THEOREM RetiredForGood == Spec => RetiredIsOver
  <1>1. IInv /\ [Next]_vars => [RetiredStays]_vars
    BY StepRetired
  <1>2. Spec => [][RetiredStays]_vars
    BY <1>1, Invariance, PTL DEF Spec
  <1>3. QED
    BY <1>2 DEF RetiredIsOver, RetiredStays
=============================================================================
