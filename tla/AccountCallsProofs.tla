------------------------- MODULE AccountCallsProofs -------------------------
(***************************************************************************)
(* Proofs about AccountCalls and Claims, for every set of users, grants    *)
(* and callers.                                                            *)
(***************************************************************************)
EXTENDS Claims, FiniteSetTheorems, TLAPS

\* What the fields of a call are.
LEMMA CallShape ==
  ASSUME NEW k \in Calls \cup {NoCall}
  PROVE  /\ k.op = "create" => k \in Calls /\ k.user \in Users /\ k.to \in {"pending", "active"}
         /\ k.op = "transition" => k \in Calls /\ k.user \in Users /\ k.to \in AccountStatuses
         /\ k.op \in {"purge", "profile"} => k \in Calls /\ k.user \in Users
         /\ k.op \in {"adminGrant", "adminRevoke"} => k \in Calls /\ k.grant \in Grants
         /\ k.op \in {"managerGrant", "managerRevoke"} =>
              k \in Calls /\ k.actor \in Users /\ k.grant \in Grants
  BY DEF Calls, NoCall, CreateCalls, TransitionCalls, UserCalls, ServiceCalls, ManagerCalls

LEMMA GrantUser == ASSUME NEW g \in Grants PROVE g.user \in Users
  BY GrantsAssumption

\* max(count_active(), 1) is a positive number.
LEMMA ListLimitPositive ==
  ASSUME NEW st \in [Users -> Statuses]
  PROVE  ListLimit(Cardinality(ActiveUsers(st))) \in Nat \ {0}
  <1>1. ActiveUsers(st) \subseteq Users
    BY DEF ActiveUsers
  <1>2. Cardinality(ActiveUsers(st)) \in Nat
    BY <1>1, CallersAssumption, FS_Subset, FS_CardinalityType
  <1>3. QED
    BY <1>2 DEF ListLimit

LEMMA FirstStepType ==
  ASSUME NEW k \in Calls
  PROVE  /\ FirstStep(k) \in {"load", "authorise", "target", "write"}
         /\ FirstStep(k) \in Steps
         /\ FirstStep(k) = "target" => k.op = "adminRevoke"
         /\ FirstStep(k) = "authorise" => k.op \in {"managerGrant", "managerRevoke"}
         /\ FirstStep(k) \in {"target", "write"} => k.op # "transition"
         /\ k.op = "adminRevoke" /\ FirstStep(k) = "write" => ~GrantQualifies(k.grant)
         /\ k.op \in {"create", "adminGrant"} => FirstStep(k) = "write"
         /\ FirstStep(k) = "write" => k.op \in {"create", "adminGrant", "adminRevoke"}
  BY DEF FirstStep, Steps, Calls, CreateCalls, TransitionCalls, UserCalls, ServiceCalls,
         ManagerCalls

\* Leaving a call keeps the types of a caller's locals.
LEMMA ReturnType ==
  ASSUME NEW c \in Callers, AllTypeOK, Return(c)
  PROVE  /\ pc' \in [Callers -> Steps]
         /\ call' \in [Callers -> Calls \cup {NoCall}]
         /\ seen' \in [Callers -> Statuses]
         /\ limit' \in [Callers -> Nat \ {0}]
         /\ todo' \in [Callers -> SUBSET Users]
         /\ found' \in [Callers -> BOOLEAN]
  BY DEF AllTypeOK, Return, Steps, Statuses

LEMMA MutateType ==
  ASSUME NEW c \in Callers, AllTypeOK,
         NEW st \in [Users -> Statuses], NEW gr \in SUBSET Grants, Mutate(c, st, gr)
  PROVE  AllTypeOK'
  <1>1. CASE lock = c
    BY <1>1 DEF AllTypeOK, TypeOK, Mutate, Goto, db, local, Steps
  <1>2. CASE lock # c
    <2>1. Return(c)
      BY <1>2 DEF Mutate
    <2>2. QED
      BY <1>2, <2>1, ReturnType DEF AllTypeOK, TypeOK, Mutate
  <1>3. QED
    BY <1>1, <1>2

LEMMA SeenType ==
  ASSUME NEW c \in Callers, AllTypeOK
  PROVE  StatusSeen(c) \in [Users -> Statuses] /\ GrantsSeen(c) \in SUBSET Grants
  BY DEF AllTypeOK, TypeOK, StatusSeen, GrantsSeen

LEMMA AbandonType ==
  ASSUME NEW c \in Callers, AllTypeOK, Abandon(c)
  PROVE  AllTypeOK'
  BY ReturnType DEF AllTypeOK, TypeOK, Abandon, Release, db, image

LEMMA TypeStep ==
  ASSUME AllTypeOK, [CallsNext]_allVars
  PROVE  AllTypeOK'
  <1>1. CASE UNCHANGED allVars
    BY <1>1 DEF AllTypeOK, TypeOK, allVars
  <1>2. ASSUME NEW c \in Callers, StartCall(c) \/ BeginImmediate(c)
        PROVE  AllTypeOK'
    <2>1. PICK k \in Calls : call' = [call EXCEPT ![c] = k] /\ Goto(c, FirstStep(k))
      BY <1>2 DEF StartCall, BeginImmediate, Enter
    <2>2. QED
      BY <1>2, <2>1, FirstStepType
         DEF AllTypeOK, TypeOK, StartCall, BeginImmediate, Goto, db, image
  <1>3. ASSUME NEW c \in Callers, AwaitLock(c) PROVE AllTypeOK'
    BY <1>3 DEF AllTypeOK, TypeOK, AwaitLock, Goto, Steps, db, image, local
  <1>4. ASSUME NEW c \in Callers, BeginTimesOut(c) PROVE AllTypeOK'
    BY <1>4, ReturnType DEF AllTypeOK, TypeOK, BeginTimesOut, db, image
  <1>5. ASSUME NEW c \in Callers, LoadForTransition(c) \/ LoadForPurge(c) \/ LoadForProfile(c)
        PROVE  AllTypeOK'
    <2>1. call[c].user \in Users
      BY <1>5, CallShape
         DEF AllTypeOK, LoadForTransition, LoadForPurge, LoadForProfile
    <2>2. StatusSeen(c)[call[c].user] \in Statuses
      BY <2>1, SeenType
    <2>3. /\ seen' \in [Callers -> Statuses]
          /\ pc' \in [Callers -> Steps]
          /\ UNCHANGED <<db, image, lock, call, limit, todo, found>>
      BY <1>5, <2>2
         DEF AllTypeOK, LoadForTransition, LoadForPurge, LoadForProfile, Goto, Steps
    <2>4. QED
      BY <2>3 DEF AllTypeOK, TypeOK, db, image
  <1>6. ASSUME NEW c \in Callers,
               Authorise(c) \/ ReadTarget(c) \/ Conclude(c) \/ WriteRejected(c) \/ WriteBusy(c)
        PROVE  AllTypeOK'
    <2>1. pc' \in [Callers -> Steps] /\ UNCHANGED <<db, image, lock, local>>
      BY <1>6 DEF AllTypeOK, Authorise, ReadTarget, Conclude, WriteRejected, WriteBusy,
                  Goto, Steps
    <2>2. QED
      BY <2>1 DEF AllTypeOK, TypeOK, db, image, local
  <1>7. ASSUME NEW c \in Callers, CountActive(c) PROVE AllTypeOK'
    <2>1. limit' \in [Callers -> Nat \ {0}]
      BY <1>7, SeenType, ListLimitPositive DEF AllTypeOK, CountActive
    <2>2. QED
      BY <1>7, <2>1 DEF AllTypeOK, TypeOK, CountActive, Goto, Steps, db, image
  <1>8. ASSUME NEW c \in Callers, ListActive(c) PROVE AllTypeOK'
    BY <1>8 DEF AllTypeOK, TypeOK, ListActive, ActiveUsers, Goto, Steps, db, image
  <1>9. ASSUME NEW c \in Callers, ScanUser(c) PROVE AllTypeOK'
    BY <1>9 DEF AllTypeOK, TypeOK, ScanUser, GrantsQualify, db, image
  <1>10. ASSUME NEW c \in Callers,
                WriteCreate(c) \/ WriteUser(c) \/ WritePurge(c) \/ WriteAdd(c) \/ WriteRemove(c)
         PROVE  AllTypeOK'
    <2>1. PICK st \in [Users -> Statuses], gr \in SUBSET Grants : Mutate(c, st, gr)
      <3>1. CASE WriteCreate(c)
        BY <3>1, CallShape, SeenType DEF WriteCreate, AllTypeOK, Statuses, AccountStatuses
      <3>2. CASE WriteUser(c)
        <4>1. (IF call[c].op = "transition" THEN call[c].to ELSE seen[c]) \in Statuses
          BY <3>2, CallShape DEF AllTypeOK, WriteUser, Statuses
        <4>2. QED
          BY <3>2, <4>1, SeenType DEF WriteUser
      <3>3. CASE WritePurge(c)
        BY <3>3, SeenType DEF WritePurge, Statuses
      <3>4. CASE WriteAdd(c)
        BY <3>4, CallShape, SeenType DEF WriteAdd, AllTypeOK
      <3>5. CASE WriteRemove(c)
        BY <3>5, SeenType DEF WriteRemove
      <3>6. QED
        BY <1>10, <3>1, <3>2, <3>3, <3>4, <3>5
    <2>2. QED
      BY <2>1, MutateType
  <1>11. ASSUME NEW c \in Callers, Commit(c) PROVE AllTypeOK'
    BY <1>11, ReturnType DEF AllTypeOK, TypeOK, Commit, Release, image
  <1>12. ASSUME NEW c \in Callers, Raise(c) \/ Interrupt(c) PROVE AllTypeOK'
    BY <1>12, AbandonType DEF Raise, Interrupt
  <1>13. QED
    BY <1>1, <1>2, <1>3, <1>4, <1>5, <1>6, <1>7, <1>8, <1>9, <1>10, <1>11, <1>12
       DEF CallsNext, CallerNext, Step

\* The store, the open transaction and every caller's locals have the types the
\* code gives them, in every state of every run.
THEOREM TypeCorrect == CallsSpec => []AllTypeOK
  <1>1. CallsInit => AllTypeOK
    BY DEF CallsInit, Init, AllTypeOK, TypeOK, Steps, Statuses
  <1>2. AllTypeOK /\ [CallsNext]_allVars => AllTypeOK'
    BY TypeStep
  <1>3. QED
    BY <1>1, <1>2, PTL DEF CallsSpec
----------------------------------------------------------------------------
(* StoreInv *)

\* The mutation steps, which go through Mutate.
Writes(c) == WriteCreate(c) \/ WriteUser(c) \/ WritePurge(c) \/ WriteAdd(c) \/ WriteRemove(c)

\* The steps between entering a call and leaving it that write nothing.
Reads(c) ==
  \/ LoadForTransition(c) \/ LoadForPurge(c) \/ LoadForProfile(c) \/ Authorise(c)
  \/ ReadTarget(c) \/ CountActive(c) \/ ListActive(c) \/ ScanUser(c) \/ Conclude(c)
  \/ WriteRejected(c) \/ WriteBusy(c)

LEMMA Moves ==
  ASSUME NEW c \in Callers, CallerNext(c)
  PROVE  \/ StartCall(c) \/ AwaitLock(c) \/ BeginImmediate(c) \/ BeginTimesOut(c)
         \/ Reads(c) \/ Writes(c) \/ Commit(c) \/ Raise(c) \/ Interrupt(c)
  BY DEF CallerNext, Step, Reads, Writes

LEMMA WritesMutate ==
  ASSUME NEW c \in Callers, Writes(c)
  PROVE  /\ pc[c] = "write" /\ lock \in {c, NoCaller} /\ UNCHANGED lock
         /\ \/ lock = c /\ Goto(c, "commit") /\ UNCHANGED <<db, local>>
            \/ lock # c /\ Return(c) /\ txStatus' = status' /\ txGrants' = grants'
  BY DEF Writes, WriteCreate, WriteUser, WritePurge, WriteAdd, WriteRemove, Mutate

LEMMA ReadsFrame ==
  ASSUME NEW c \in Callers, AllTypeOK, Reads(c)
  PROVE  /\ UNCHANGED <<status, grants, txStatus, txGrants, lock, call>>
         /\ pc[c] \in {"load", "authorise", "target", "count", "list", "scan", "write"}
         /\ pc'[c] \in {"target", "count", "list", "scan", "write", "refuse", "fail"}
         /\ \E step \in Steps : pc' = [pc EXCEPT ![c] = step]
  BY DEF Reads, LoadForTransition, LoadForPurge, LoadForProfile, Authorise, ReadTarget,
         CountActive, ListActive, ScanUser, Conclude, WriteRejected, WriteBusy, Goto,
         db, image, local, AllTypeOK, Steps

\* A step of one caller leaves the others where they are.
LEMMA Others ==
  ASSUME AllTypeOK, NEW c \in Callers, CallerNext(c), NEW d \in Callers, d # c
  PROVE  /\ pc'[d] = pc[d] /\ call'[d] = call[d] /\ seen'[d] = seen[d]
         /\ limit'[d] = limit[d] /\ todo'[d] = todo[d] /\ found'[d] = found[d]
  <1>1. CASE StartCall(c) \/ BeginImmediate(c)
    BY <1>1 DEF StartCall, BeginImmediate, Enter, Goto, AllTypeOK
  <1>2. CASE AwaitLock(c)
    BY <1>2 DEF AwaitLock, Goto, local, AllTypeOK
  <1>3. CASE Return(c)
    BY <1>3 DEF Return, AllTypeOK
  <1>4. CASE Reads(c)
    BY <1>4 DEF Reads, LoadForTransition, LoadForPurge, LoadForProfile, Authorise, ReadTarget,
         CountActive, ListActive, ScanUser, Conclude, WriteRejected, WriteBusy, Goto, local,
         AllTypeOK
  <1>5. CASE Writes(c)
    BY <1>5, <1>3, WritesMutate DEF Goto, local, AllTypeOK
  <1>6. CASE BeginTimesOut(c) \/ Commit(c) \/ Raise(c) \/ Interrupt(c)
    BY <1>6, <1>3 DEF BeginTimesOut, Commit, Raise, Interrupt, Abandon
  <1>7. QED
    BY <1>1, <1>2, <1>4, <1>5, <1>6, Moves

LEMMA ReturnIdle == ASSUME AllTypeOK, NEW c \in Callers, Return(c)
                    PROVE  pc'[c] = "idle" /\ call'[c] = NoCall
  BY DEF Return, AllTypeOK

LEMMA LockStep ==
  ASSUME AllTypeOK, LockInv, NEW c \in Callers, CallerNext(c)
  PROVE  LockInv'
  <1> SUFFICES /\ lock' = c <=> (c \in BoundedCallers /\ pc'[c] \notin {"idle", "begin"})
               /\ c \notin BoundedCallers => pc'[c] \notin {"begin", "commit"}
               /\ \A d \in Callers \ {c} : lock' = d <=> lock = d
    BY Others DEF LockInv, InTransaction
  <1>1. CASE StartCall(c) \/ BeginImmediate(c)
    <2>1. PICK k \in Calls : Goto(c, FirstStep(k))
      BY <1>1 DEF StartCall, BeginImmediate, Enter
    <2>2. pc'[c] \notin {"idle", "begin", "commit"}
      BY <2>1, FirstStepType DEF Goto, AllTypeOK
    <2>3. QED
      BY <1>1, <2>2, CallersAssumption DEF LockInv, InTransaction, StartCall, BeginImmediate
  <1>2. CASE AwaitLock(c)
    BY <1>2 DEF AwaitLock, Goto, LockInv, InTransaction, AllTypeOK
  <1>3. CASE BeginTimesOut(c)
    BY <1>3, ReturnIdle DEF BeginTimesOut, LockInv, InTransaction
  <1>4. CASE Reads(c)
    BY <1>4, ReadsFrame DEF LockInv, InTransaction
  <1>5. CASE Writes(c)
    BY <1>5, WritesMutate, ReturnIdle DEF LockInv, InTransaction, Goto, AllTypeOK
  <1>6. CASE Commit(c) \/ Raise(c) \/ Interrupt(c)
    <2>1. Return(c) /\ Release(c)
      BY <1>6 DEF Commit, Raise, Interrupt, Abandon
    <2>2. QED
      BY <2>1, ReturnIdle, CallersAssumption DEF Release, LockInv, InTransaction
  <1>7. QED
    BY <1>1, <1>2, <1>3, <1>4, <1>5, <1>6, Moves

\* Until it writes, a caller sees what is committed.
LEMMA SeenIsCommitted ==
  ASSUME LockInv, ImageInv, NEW c \in Callers, pc[c] # "commit"
  PROVE  StatusSeen(c) = status /\ GrantsSeen(c) = grants
  <1>1. CASE lock # c
    BY <1>1 DEF StatusSeen, GrantsSeen
  <1>2. CASE lock = c
    <2>1. \A d \in Callers : pc[d] # "commit"
      BY <1>2 DEF LockInv, InTransaction
    <2>2. QED
      BY <1>2, <2>1 DEF ImageInv, StatusSeen, GrantsSeen
  <1>3. QED
    BY <1>1, <1>2

LEMMA ImageStep ==
  ASSUME AllTypeOK, LockInv, ImageInv, NEW c \in Callers, CallerNext(c)
  PROVE  ImageInv'
  <1> SUFFICES ASSUME \A d \in Callers : pc'[d] # "commit"
               PROVE  txStatus' = status' /\ txGrants' = grants'
    BY DEF ImageInv
  <1>1. \A d \in Callers : d # c => pc[d] # "commit"
    BY Others
  <1>2. CASE Writes(c)
    BY <1>2, WritesMutate DEF Goto, AllTypeOK
  <1>3. CASE Commit(c)
    BY <1>3 DEF Commit, image
  <1>4. CASE Raise(c) \/ Interrupt(c)
    <2>1. CASE lock = c
      BY <1>4, <2>1 DEF Raise, Interrupt, Abandon, db
    <2>2. CASE lock # c
      <3>1. \A d \in Callers : pc[d] # "commit"
        BY <1>1, <2>2 DEF LockInv, InTransaction
      <3>2. QED
        BY <1>4, <2>2, <3>1 DEF ImageInv, Raise, Interrupt, Abandon, db, image
    <2>3. QED
      BY <2>1, <2>2
  <1>5. CASE StartCall(c) \/ AwaitLock(c) \/ BeginImmediate(c) \/ BeginTimesOut(c) \/ Reads(c)
    <2>1. UNCHANGED <<status, grants, txStatus, txGrants>> /\ pc[c] # "commit"
      BY <1>5, ReadsFrame DEF StartCall, AwaitLock, BeginImmediate, BeginTimesOut, db, image
    <2>2. QED
      BY <1>1, <2>1 DEF ImageInv
  <1>6. QED
    BY <1>2, <1>3, <1>4, <1>5, Moves

LEMMA MutateOrphans ==
  ASSUME NEW c \in Callers, NEW st, NEW gr, Mutate(c, st, gr),
         NoOrphanGrants, \A g \in gr : st[g.user] # Absent
  PROVE  NoOrphanGrants' /\ NoOrphansInImage'
  BY DEF Mutate, NoOrphanGrants, NoOrphansInImage, db

LEMMA OrphanStep ==
  ASSUME StoreInv, NEW c \in Callers, CallerNext(c)
  PROVE  NoOrphanGrants' /\ NoOrphansInImage'
  <1> USE DEF StoreInv
  <1>1. CASE Writes(c)
    <2>1. \A g \in GrantsSeen(c) : g \in Grants /\ g.user \in Users
                                      /\ StatusSeen(c)[g.user] # Absent
      BY SeenType, GrantUser DEF StatusSeen, GrantsSeen, NoOrphanGrants, NoOrphansInImage
    <2>2. StatusSeen(c) \in [Users -> Statuses]
      BY SeenType
    <2>3. CASE WriteCreate(c)
      <3> DEFINE st == [StatusSeen(c) EXCEPT ![call[c].user] = call[c].to]
      <3>1. call[c].user \in Users /\ call[c].to # Absent
        BY <2>3, CallShape DEF WriteCreate, AllTypeOK, Absent
      <3>2. \A g \in GrantsSeen(c) : st[g.user] # Absent
        BY <2>1, <2>2, <3>1
      <3>3. Mutate(c, st, GrantsSeen(c))
        BY <2>3 DEF WriteCreate
      <3> HIDE DEF st
      <3>4. QED
        BY <3>2, <3>3, MutateOrphans
    <2>4. CASE WriteUser(c)
      <3> DEFINE s == IF call[c].op = "transition" THEN call[c].to ELSE seen[c]
                 st == [StatusSeen(c) EXCEPT ![call[c].user] = s]
      <3>1. call[c].user \in Users
        BY <2>4, CallShape DEF WriteUser, AllTypeOK
      <3>2. s # Absent
        <4>1. CASE call[c].op = "transition"
          BY <4>1, CallShape DEF AllTypeOK, Absent, AccountStatuses
        <4>2. CASE call[c].op = "profile"
          <5>1. pc[c] = "write" /\ CallInv(c)
            BY <2>4 DEF WriteUser
          <5>2. QED
            BY <4>2, <5>1 DEF CallInv
        <4>3. QED
          BY <2>4, <4>1, <4>2 DEF WriteUser
      <3>3. Mutate(c, st, GrantsSeen(c))
        BY <2>4 DEF WriteUser
      <3> HIDE DEF s
      <3>4. \A g \in GrantsSeen(c) : st[g.user] # Absent
        BY <2>1, <2>2, <3>1, <3>2
      <3> HIDE DEF st
      <3>5. QED
        BY <3>3, <3>4, MutateOrphans
    <2>5. CASE WritePurge(c)
      <3> DEFINE st == [StatusSeen(c) EXCEPT ![call[c].user] = Absent]
                 gr == GrantsSeen(c) \ GrantsOf(GrantsSeen(c), call[c].user)
      <3>1. \A g \in gr : st[g.user] # Absent
        BY <2>1, <2>2 DEF GrantsOf
      <3>2. Mutate(c, st, gr)
        BY <2>5 DEF WritePurge
      <3> HIDE DEF st, gr
      <3>3. QED
        BY <3>1, <3>2, MutateOrphans
    <2>6. CASE WriteAdd(c)
      <3> DEFINE gr == GrantsSeen(c) \cup {call[c].grant}
      <3>1. \A g \in gr : StatusSeen(c)[g.user] # Absent
        BY <2>1, <2>6 DEF WriteAdd
      <3>2. Mutate(c, StatusSeen(c), gr)
        BY <2>6 DEF WriteAdd
      <3> HIDE DEF gr
      <3>3. QED
        BY <3>1, <3>2, MutateOrphans
    <2>7. CASE WriteRemove(c)
      <3> DEFINE gr == GrantsSeen(c) \ {call[c].grant}
      <3>1. \A g \in gr : StatusSeen(c)[g.user] # Absent
        BY <2>1
      <3>2. Mutate(c, StatusSeen(c), gr)
        BY <2>7 DEF WriteRemove
      <3> HIDE DEF gr
      <3>3. QED
        BY <3>1, <3>2, MutateOrphans
    <2>8. QED
      BY <1>1, <2>3, <2>4, <2>5, <2>6, <2>7 DEF Writes
  <1>2. CASE Commit(c)
    BY <1>2 DEF Commit, image, NoOrphanGrants, NoOrphansInImage
  <1>3. CASE Raise(c) \/ Interrupt(c)
    BY <1>3 DEF Raise, Interrupt, Abandon, db, image, NoOrphanGrants, NoOrphansInImage
  <1>4. CASE StartCall(c) \/ AwaitLock(c) \/ BeginImmediate(c) \/ BeginTimesOut(c) \/ Reads(c)
    <2>1. UNCHANGED <<status, grants, txStatus, txGrants>>
      BY <1>4, ReadsFrame DEF StartCall, AwaitLock, BeginImmediate, BeginTimesOut, db, image
    <2>2. QED
      BY <2>1 DEF NoOrphanGrants, NoOrphansInImage
  <1>5. QED
    BY <1>1, <1>2, <1>3, <1>4, Moves

LEMMA CallInvStep ==
  ASSUME StoreInv, NEW c \in Callers, CallerNext(c)
  PROVE  \A d \in Callers : CallInv(d)'
  <1> USE DEF StoreInv
  <1> SUFFICES CallInv(c)'
    BY Others DEF CallInv
  <1>1. CASE StartCall(c) \/ BeginImmediate(c)
    <2>1. PICK k \in Calls : k.op \in Ops[c] /\ call'[c] = k /\ pc'[c] = FirstStep(k)
      BY <1>1 DEF StartCall, BeginImmediate, Enter, Goto, AllTypeOK
    <2>2. QED
      BY <2>1, FirstStepType DEF CallInv
  <1>2. CASE AwaitLock(c)
    BY <1>2 DEF AwaitLock, Goto, local, CallInv, AllTypeOK
  <1>3. CASE Return(c)
    BY <1>3, ReturnIdle DEF CallInv
  <1>4. CASE Reads(c)
    <2>1. pc[c] \notin {"idle", "begin"} /\ pc'[c] \notin {"idle", "begin", "authorise"}
          /\ call'[c] = call[c]
      BY <1>4, ReadsFrame
    <2>2. CASE LoadForTransition(c) \/ LoadForPurge(c)
      BY <2>1, <2>2 DEF LoadForTransition, LoadForPurge, Goto, CallInv, AllTypeOK
    <2>3. CASE LoadForProfile(c)
      BY <2>1, <2>3 DEF LoadForProfile, Goto, CallInv, AllTypeOK
    <2>4. CASE Authorise(c)
      BY <2>1, <2>4 DEF Authorise, Goto, local, CallInv, AllTypeOK
    <2>5. CASE ReadTarget(c) \/ CountActive(c) \/ ListActive(c) \/ ScanUser(c) \/ Conclude(c)
      <3>1. pc[c] \in {"target", "count", "list", "scan"}
        BY <2>5 DEF ReadTarget, CountActive, ListActive, ScanUser, Conclude
      <3>2. call[c].op \in {"transition", "adminRevoke"}
            /\ (call[c].op = "transition" => Deactivates(call[c].to))
        BY <3>1 DEF CallInv
      <3>3. QED
        BY <2>1, <3>1, <3>2 DEF CallInv
    <2>6. CASE WriteRejected(c) \/ WriteBusy(c)
      BY <2>1, <2>6 DEF WriteRejected, WriteBusy, Goto, local, CallInv, AllTypeOK
    <2>7. QED
      BY <1>4, <2>2, <2>3, <2>4, <2>5, <2>6 DEF Reads
  <1>5. CASE Writes(c)
    <2>1. CASE Return(c)
      BY <2>1, <1>3
    <2>2. CASE Goto(c, "commit") /\ UNCHANGED local
      BY <1>5, <2>2, WritesMutate DEF Goto, local, CallInv, AllTypeOK
    <2>3. QED
      BY <1>5, <2>1, <2>2, WritesMutate
  <1>6. CASE BeginTimesOut(c) \/ Commit(c) \/ Raise(c) \/ Interrupt(c)
    BY <1>6, <1>3 DEF BeginTimesOut, Commit, Raise, Interrupt, Abandon
  <1>7. QED
    BY <1>1, <1>2, <1>4, <1>5, <1>6, Moves

LEMMA StoreInit == CallsInit => StoreInv
  BY CallersAssumption
     DEF CallsInit, Init, StoreInv, AllTypeOK, TypeOK, Steps, Statuses, LockInv, InTransaction,
         ImageInv, NoOrphanGrants, NoOrphansInImage, CallInv

LEMMA StoreStep ==
  ASSUME StoreInv, [CallsNext]_allVars
  PROVE  StoreInv'
  <1>1. CASE UNCHANGED allVars
    BY <1>1 DEF allVars, StoreInv, AllTypeOK, TypeOK, LockInv, InTransaction,
         ImageInv, NoOrphanGrants, NoOrphansInImage, CallInv
  <1>2. ASSUME NEW c \in Callers, CallerNext(c) PROVE StoreInv'
    <2>1. AllTypeOK'
      BY <1>2, TypeStep DEF StoreInv, CallsNext
    <2>2. LockInv' /\ ImageInv'
      BY <1>2, LockStep, ImageStep DEF StoreInv
    <2>3. QED
      BY <1>2, <2>1, <2>2, OrphanStep, CallInvStep DEF StoreInv
  <1>3. QED
    BY <1>1, <1>2 DEF CallsNext

\* Whatever the callers' boundaries and operations: the write lock belongs to
\* one caller inside its call, the uncommitted image is that caller's, and both
\* it and the store satisfy the foreign key.
THEOREM StoreCorrect == CallsSpec => []StoreInv
  BY StoreInit, StoreStep, PTL DEF CallsSpec

\* No grant is ever stored for a user id without a row: a grant that races a
\* purge is either removed with the account or refused.
THEOREM NoOrphans == CallsSpec => []NoOrphanGrants
  <1>1. StoreInv => NoOrphanGrants
    BY DEF StoreInv
  <1>2. QED
    BY <1>1, StoreCorrect, PTL
----------------------------------------------------------------------------
(* The last-administrator condition *)

\* A user without qualifying grants is no active administrator, so another one
\* is all that its deactivation needs.
LEMMA SuccessorsAllowDeactivation ==
  ASSUME NEW st, NEW gr, NEW u
  PROVE  /\ ActiveAdmins(st, gr) \ {u} # {} => DeactivationAllowed(st, gr, u)
         /\ ~GrantsQualify(GrantsOf(gr, u)) => DeactivationAllowed(st, gr, u)
         /\ st[u] # "active" => DeactivationAllowed(st, gr, u)
  BY DEF DeactivationAllowed

\* Removing a grant of one user leaves the other administrators.
LEMMA OthersKeepAccess ==
  ASSUME NEW st, NEW gr, NEW g, NEW u, u # g.user
  PROVE  u \in ActiveAdmins(st, gr) <=> u \in ActiveAdmins(st, gr \ {g})
  <1>1. GrantsOf(gr, u) = GrantsOf(gr \ {g}, u)
    BY DEF GrantsOf
  <1>2. QED
    BY <1>1 DEF ActiveAdmins

LEMMA SuccessorsAllowRevoke ==
  ASSUME NEW st, NEW gr, NEW g
  PROVE  /\ ActiveAdmins(st, gr) \ {g.user} # {} => RevokeAllowed(st, gr, g)
         /\ GrantsQualify(GrantsOf(gr \ {g}, g.user)) => RevokeAllowed(st, gr, g)
         /\ ~GrantQualifies(g) => RevokeAllowed(st, gr, g)
  BY OthersKeepAccess DEF RevokeAllowed

\* A page of max(count_active(), 1) active users is all of them.
LEMMA PageIsAll ==
  ASSUME NEW st \in [Users -> Statuses], NEW page \in SUBSET ActiveUsers(st),
         Cardinality(page) = ListLimit(Cardinality(ActiveUsers(st)))
  PROVE  page = ActiveUsers(st)
  <1>1. IsFiniteSet(ActiveUsers(st))
    BY CallersAssumption, FS_Subset DEF ActiveUsers
  <1>2. Cardinality(page) \in Nat /\ Cardinality(ActiveUsers(st)) \in Nat
    BY <1>1, FS_Subset, FS_CardinalityType
  <1>3. Cardinality(page) <= Cardinality(ActiveUsers(st))
    BY <1>1, FS_Subset
  <1>4. Cardinality(page) = Cardinality(ActiveUsers(st))
    BY <1>2, <1>3 DEF ListLimit
  <1>5. QED
    BY <1>1, <1>4, FS_Subset
----------------------------------------------------------------------------
(* IndInv *)

\* While one caller is inside its boundary, no other changes the store or the
\* image: it waits, or it gives up.
LEMMA HolderExclusive ==
  ASSUME StoreInv, NEW c \in Callers, NEW d \in BoundedCallers, c # d,
         InTransaction(d) \/ lock = d, CallerNext(c)
  PROVE  UNCHANGED <<status, grants, txStatus, txGrants>>
  <1>1. lock = d /\ d # NoCaller
    BY CallersAssumption DEF StoreInv, LockInv
  <1>2. CASE StartCall(c) \/ AwaitLock(c) \/ BeginImmediate(c) \/ BeginTimesOut(c)
    BY <1>2 DEF StartCall, AwaitLock, BeginImmediate, BeginTimesOut, db, image
  <1>3. CASE Reads(c)
    BY <1>3, ReadsFrame DEF StoreInv
  <1>4. CASE Writes(c)
    BY <1>1, <1>4, WritesMutate
  <1>5. CASE Commit(c)
    BY <1>1, <1>5 DEF Commit, StoreInv, LockInv, InTransaction
  <1>6. CASE Raise(c) \/ Interrupt(c)
    BY <1>1, <1>6 DEF Raise, Interrupt, Abandon, db, image
  <1>7. QED
    BY <1>2, <1>3, <1>4, <1>5, <1>6, Moves

\* What one bounded caller contributes to IndInv.
Sound(c) == Searched(c) /\ Learnt(c) /\ (pc[c] = "commit" => Staged(c))

LEMMA SoundOthers ==
  ASSUME StoreInv, NEW c \in Callers, CallerNext(c),
         NEW d \in BoundedCallers, d # c, Sound(d)
  PROVE  Sound(d)'
  <1>1. d \in Callers
    BY CallersAssumption
  <1>2. UNCHANGED <<pc[d], call[d], seen[d], limit[d], todo[d], found[d]>>
    BY <1>1, Others DEF StoreInv
  <1>3. CASE InTransaction(d)
    <2>1. UNCHANGED <<status, grants, txStatus, txGrants>>
      BY <1>3, HolderExclusive
    <2>2. Searched(d)' /\ Learnt(d)'
      BY <1>2, <2>1 DEF Sound, Searched, Learnt, Successors
    <2>3. Staged(d) => Staged(d)'
      BY <1>2, <2>1 DEF Staged
    <2>4. QED
      BY <1>2, <2>2, <2>3 DEF Sound
  <1>4. CASE ~InTransaction(d)
    <2>1. pc[d] \in {"idle", "begin"} /\ call[d] = NoCall /\ ~found[d]
      BY <1>1, <1>4 DEF InTransaction, StoreInv, CallInv, Sound, Searched
    <2>2. QED
      BY <1>2, <2>1 DEF Sound, Searched, Learnt, NoCall
  <1>5. QED
    BY <1>3, <1>4

LEMMA SoundReturn ==
  ASSUME AllTypeOK, NEW c \in Callers, Return(c)
  PROVE  Sound(c)'
  <1>1. pc'[c] = "idle" /\ call'[c] = NoCall /\ found'[c] = FALSE
    BY DEF Return, AllTypeOK
  <1>2. QED
    BY <1>1 DEF Sound, Searched, Learnt, NoCall

LEMMA SoundEnter ==
  ASSUME StoreInv, NEW c \in BoundedCallers, c \in Callers, Sound(c),
         AwaitLock(c) \/ BeginImmediate(c)
  PROVE  Sound(c)'
  <1>1. CASE AwaitLock(c)
    <2>1. pc[c] = "idle" /\ pc'[c] = "begin" /\ call[c] = NoCall /\ call' = call /\ found' = found
      BY <1>1 DEF AwaitLock, Goto, local, StoreInv, CallInv, AllTypeOK
    <2>2. ~found[c]
      BY <2>1 DEF Sound, Searched
    <2>3. QED
      BY <2>1, <2>2 DEF Sound, Searched, Learnt, NoCall
  <1>2. CASE BeginImmediate(c)
    <2>1. PICK k \in Calls : call'[c] = k /\ pc'[c] = FirstStep(k)
      BY <1>2 DEF BeginImmediate, Enter, Goto, StoreInv, AllTypeOK
    <2>2. ~found'[c]
      BY <1>2 DEF BeginImmediate, Sound, Searched
    <2>3. k.op = "adminRevoke" /\ FirstStep(k) = "write" => RevokeAllowed(status, grants, k.grant)'
      BY FirstStepType, SuccessorsAllowRevoke
    <2>4. pc'[c] \in {"load", "authorise", "target", "write"}
          /\ (pc'[c] \in {"target", "write"} => k.op # "transition")
          /\ (pc'[c] = "write" => k.op \in {"create", "adminGrant", "adminRevoke"})
      BY <2>1, FirstStepType
    <2>5. Searched(c)'
      BY <2>2, <2>4 DEF Searched
    <2>6. Learnt(c)'
      BY <2>1, <2>3, <2>4 DEF Learnt
    <2>7. QED
      BY <2>4, <2>5, <2>6 DEF Sound
  <1>3. QED
    BY <1>1, <1>2

\* The guards on what users.get and list_grants_for_user return.
LEMMA SoundLoad ==
  ASSUME StoreInv, NEW c \in BoundedCallers, c \in Callers, Sound(c),
         LoadForTransition(c) \/ LoadForPurge(c) \/ LoadForProfile(c) \/ Authorise(c)
  PROVE  Sound(c)'
  <1> DEFINE k == call[c]
  <1>1. pc[c] \in {"load", "authorise"}
    BY DEF LoadForTransition, LoadForPurge, LoadForProfile, Authorise
  <1>2. StatusSeen(c) = status /\ GrantsSeen(c) = grants
    BY <1>1, SeenIsCommitted DEF StoreInv
  <1>3. /\ UNCHANGED <<status, grants, call>> /\ found'[c] = found[c]
        /\ pc'[c] \in {"target", "write", "fail"}
    BY DEF LoadForTransition, LoadForPurge, LoadForProfile, Authorise, Goto, db, local,
           StoreInv, AllTypeOK
  <1>4. Searched(c)'
    BY <1>1, <1>3 DEF Sound, Searched, Successors
  <1>5. CASE LoadForTransition(c)
    <2>1. k.op = "transition" /\ seen'[c] = status[k.user]
          /\ (pc'[c] # "fail" => LegalTransition(status[k.user], k.to))
          /\ (pc'[c] = "write" /\ Deactivates(k.to) => status[k.user] # "active")
      BY <1>2, <1>3, <1>5 DEF LoadForTransition, Goto, StoreInv, AllTypeOK
    <2>2. pc'[c] = "write" /\ Deactivates(k.to) => DeactivationAllowed(status, grants, k.user)
      BY <2>1, SuccessorsAllowDeactivation
    <2>3. QED
      BY <1>3, <1>4, <2>1, <2>2 DEF Sound, Learnt
  <1>6. CASE LoadForPurge(c) \/ LoadForProfile(c)
    <2>1. /\ k.op \in {"purge", "profile"} /\ seen'[c] = status[k.user]
          /\ k.op = "purge" /\ pc'[c] = "write" => status[k.user] = "deleted"
      BY <1>2, <1>3, <1>6 DEF LoadForPurge, LoadForProfile, Goto, StoreInv, AllTypeOK
    <2>2. QED
      BY <1>3, <1>4, <2>1 DEF Sound, Learnt
  <1>7. CASE Authorise(c)
    <2>1. k.op \in {"managerGrant", "managerRevoke"}
      BY <1>7 DEF Authorise, StoreInv, CallInv
    <2>2. pc'[c] = "write" => HasPermission(grants, k.actor, Needed(k), k.grant.scope)
      BY <1>2, <1>7 DEF Authorise, Goto, StoreInv, AllTypeOK
    <2>3. QED
      BY <1>3, <1>4, <2>1, <2>2 DEF Sound, Learnt
  <1>8. QED
    BY <1>5, <1>6, <1>7

LEMMA SoundTarget ==
  ASSUME StoreInv, NEW c \in BoundedCallers, c \in Callers, Sound(c), ReadTarget(c)
  PROVE  Sound(c)'
  <1> DEFINE k == call[c]
  <1>1. pc[c] = "target" /\ StatusSeen(c) = status /\ GrantsSeen(c) = grants
    BY SeenIsCommitted DEF ReadTarget, StoreInv
  <1>2. /\ UNCHANGED <<status, grants, call, seen, found>>
        /\ pc'[c] \in {"write", "count"}
    BY DEF ReadTarget, Goto, db, local, StoreInv, AllTypeOK
  <1>3. CASE k.op = "transition"
    <2>1. pc'[c] = "write" => ~GrantsQualify(GrantsOf(grants, k.user))
      BY <1>1, <1>3 DEF ReadTarget, Goto, Target, StoreInv, AllTypeOK
    <2>2. pc'[c] = "write" => DeactivationAllowed(status, grants, k.user)
      BY <2>1, SuccessorsAllowDeactivation
    <2>3. QED
      BY <1>1, <1>2, <1>3, <2>2 DEF Sound, Searched, Learnt, Successors
  <1>4. CASE k.op = "adminRevoke"
    <2>1. pc'[c] = "write" <=> GrantsQualify(GrantsOf(grants \ {k.grant}, k.grant.user))
      <3>1. pc'[c] = "write" <=> GrantsQualify(GrantsOf(grants, k.grant.user) \ {k.grant})
        BY <1>1, <1>4 DEF ReadTarget, Goto, Target, StoreInv, AllTypeOK
      <3>2. GrantsOf(grants, k.grant.user) \ {k.grant} = GrantsOf(grants \ {k.grant}, k.grant.user)
        BY DEF GrantsOf
      <3>3. QED
        BY <3>1, <3>2
    <2>2. pc'[c] = "write" => RevokeAllowed(status, grants, k.grant)
      BY <2>1, SuccessorsAllowRevoke
    <2>3. QED
      BY <1>1, <1>2, <1>4, <2>1, <2>2 DEF Sound, Searched, Learnt, Successors
  <1>5. QED
    BY <1>1, <1>3, <1>4 DEF StoreInv, CallInv

\* Counting, listing and scanning the active users.
LEMMA SoundScan ==
  ASSUME StoreInv, NEW c \in BoundedCallers, c \in Callers, Sound(c),
         CountActive(c) \/ ListActive(c) \/ ScanUser(c)
  PROVE  Sound(c)'
  <1> DEFINE k == call[c]
  <1>1. pc[c] \in {"count", "list", "scan"}
    BY DEF CountActive, ListActive, ScanUser
  <1>2. StatusSeen(c) = status /\ GrantsSeen(c) = grants
    BY <1>1, SeenIsCommitted DEF StoreInv
  <1>3. UNCHANGED <<status, grants, call, seen>> /\ pc'[c] \in {"list", "scan"}
    BY DEF CountActive, ListActive, ScanUser, Goto, db, StoreInv, AllTypeOK
  <1>4. Learnt(c)'
    BY <1>1, <1>3 DEF Sound, Learnt
  <1>5. \A u \in Successors(k) : u \in ActiveUsers(status) /\ GrantsQualify(GrantsOf(grants, u))
    BY DEF Successors, ActiveAdmins, ActiveUsers
  <1>6. CASE CountActive(c)
    <2>1. pc'[c] = "list" /\ limit'[c] = ListLimit(Cardinality(ActiveUsers(status)))
          /\ found' = found
      BY <1>2, <1>6 DEF CountActive, Goto, StoreInv, AllTypeOK
    <2>2. QED
      BY <1>1, <1>3, <1>4, <2>1 DEF Sound, Searched, Successors
  <1>7. CASE ListActive(c)
    <2>1. PICK page \in SUBSET ActiveUsers(status) :
            /\ page = ActiveUsers(status) \/ Cardinality(page) = limit[c]
            /\ todo' = [todo EXCEPT ![c] = page]
      BY <1>2, <1>7 DEF ListActive
    <2>2. limit[c] = ListLimit(Cardinality(ActiveUsers(status)))
      BY <1>7 DEF ListActive, Sound, Searched
    <2>3. page = ActiveUsers(status)
      BY <2>1, <2>2, PageIsAll DEF StoreInv, AllTypeOK, TypeOK
    <2>4. todo'[c] = ActiveUsers(status) /\ pc'[c] = "scan" /\ found' = found
      BY <1>7, <2>1, <2>3 DEF ListActive, Goto, StoreInv, AllTypeOK
    <2>5. QED
      BY <1>1, <1>3, <1>4, <1>5, <2>4 DEF Sound, Searched, Successors
  <1>8. CASE ScanUser(c)
    <2>1. PICK u \in todo[c] :
            /\ todo'[c] = todo[c] \ {u}
            /\ found'[c] = (found[c] \/ (u # Target(k) /\ GrantsQualify(GrantsOf(grants, u))))
      BY <1>2, <1>8 DEF ScanUser, StoreInv, AllTypeOK
    <2>2. pc[c] = "scan" /\ pc'[c] = "scan" /\ u \in ActiveUsers(status)
      BY <1>8, <2>1 DEF ScanUser, Sound, Searched
    <2>3. u \in Successors(k) <=> u # Target(k) /\ GrantsQualify(GrantsOf(grants, u))
      BY <2>2 DEF Successors, ActiveAdmins, ActiveUsers
    <2>4. Successors(k)' = Successors(k)
      BY <1>3 DEF Successors
    <2>5. found'[c] => Successors(k) # {}
      BY <2>1, <2>3 DEF Sound, Searched
    <2>6. ~found'[c] => Successors(k) \subseteq todo'[c]
      BY <2>1, <2>2, <2>3 DEF Sound, Searched
    <2>7. todo'[c] \subseteq ActiveUsers(status)
      BY <2>1, <2>2 DEF Sound, Searched
    <2>8. QED
      BY <1>1, <1>3, <1>4, <2>2, <2>4, <2>5, <2>6, <2>7 DEF Sound, Searched
  <1>9. QED
    BY <1>6, <1>7, <1>8

LEMMA SoundConclude ==
  ASSUME StoreInv, NEW c \in BoundedCallers, c \in Callers, Sound(c), Conclude(c)
  PROVE  Sound(c)'
  <1> DEFINE k == call[c]
  <1>1. /\ pc[c] = "scan" /\ todo[c] = {} /\ UNCHANGED <<status, grants, call, seen, found>>
        /\ pc'[c] = IF found[c] THEN "write" ELSE "refuse"
    BY DEF Conclude, Goto, db, local, StoreInv, AllTypeOK
  <1>2. pc'[c] = "refuse" => Successors(k) = {}
    BY <1>1 DEF Sound, Searched
  <1>3. pc'[c] = "write" => Successors(k) # {}
    BY <1>1 DEF Sound, Searched
  <1>4. Searched(c)'
    BY <1>1, <1>2, <1>3 DEF Sound, Searched, Successors
  <1>5. pc'[c] = "write" /\ k.op = "transition" => DeactivationAllowed(status, grants, k.user)
    BY <1>3, SuccessorsAllowDeactivation DEF Successors, Target
  <1>6. pc'[c] = "write" /\ k.op = "adminRevoke" => RevokeAllowed(status, grants, k.grant)
    BY <1>3, SuccessorsAllowRevoke DEF Successors, Target
  <1>7. k.op \in {"transition", "adminRevoke"}
    BY <1>1 DEF StoreInv, CallInv
  <1>8. QED
    BY <1>1, <1>4, <1>5, <1>6, <1>7 DEF Sound, Learnt

\* A mutation inside a boundary stages the effect of the call.
LEMMA SoundStage ==
  ASSUME StoreInv, NEW c \in BoundedCallers, c \in Callers, Sound(c), Writes(c)
  PROVE  Sound(c)'
  <1> DEFINE k == call[c]
  <1>1. pc[c] = "write" /\ lock = c
    BY WritesMutate DEF StoreInv, LockInv, InTransaction
  <1>2. StatusSeen(c) = status /\ GrantsSeen(c) = grants
    BY <1>1, SeenIsCommitted DEF StoreInv
  <1>3. pc'[c] = "commit" /\ UNCHANGED <<status, grants, call, seen, limit, todo, found>>
    BY <1>1, WritesMutate DEF Goto, db, local, StoreInv, AllTypeOK
  <1>4. Searched(c)' /\ Learnt(c)'
    BY <1>1, <1>3 DEF Sound, Searched, Learnt, Successors
  <1>5. Staged(c)'
    <2>1. CASE WriteCreate(c)
      BY <1>1, <1>2, <1>3, <2>1 DEF WriteCreate, Mutate, Staged
    <2>2. CASE WriteUser(c)
      <3>1. /\ k.op \in {"transition", "profile"}
            /\ txStatus' = [status EXCEPT ![k.user] =
                               IF k.op = "transition" THEN k.to ELSE seen[c]]
            /\ txGrants' = grants
        BY <1>1, <1>2, <2>2 DEF WriteUser, Mutate
      <3>2. CASE k.op = "transition"
        BY <1>1, <1>3, <3>1, <3>2 DEF Sound, Learnt, Staged
      <3>3. CASE k.op = "profile"
        <4>1. txStatus' = status
          BY <1>1, <3>1, <3>3 DEF Sound, Learnt, StoreInv, AllTypeOK, TypeOK
        <4>2. QED
          BY <1>3, <3>1, <3>3, <4>1 DEF Staged
      <3>4. QED
        BY <3>1, <3>2, <3>3
    <2>3. CASE WritePurge(c)
      BY <1>1, <1>2, <1>3, <2>3 DEF WritePurge, Mutate, Staged, Sound, Learnt
    <2>4. CASE WriteAdd(c)
      BY <1>1, <1>2, <1>3, <2>4 DEF WriteAdd, Mutate, Staged, Sound, Learnt
    <2>5. CASE WriteRemove(c)
      BY <1>1, <1>2, <1>3, <2>5 DEF WriteRemove, Mutate, Staged, Sound, Learnt
    <2>6. QED
      BY <2>1, <2>2, <2>3, <2>4, <2>5 DEF Writes
  <1>6. QED
    BY <1>4, <1>5 DEF Sound

LEMMA SoundStep ==
  ASSUME StoreInv, NEW c \in BoundedCallers, c \in Callers, Sound(c), CallerNext(c)
  PROVE  Sound(c)'
  <1>1. CASE StartCall(c)
    BY <1>1 DEF StartCall
  <1>2. CASE AwaitLock(c) \/ BeginImmediate(c)
    BY <1>2, SoundEnter
  <1>3. CASE Return(c)
    BY <1>3, SoundReturn DEF StoreInv
  <1>4. CASE Reads(c)
    <2>1. CASE WriteRejected(c) \/ WriteBusy(c)
      <3>1. pc[c] = "write" /\ pc'[c] = "fail"
            /\ UNCHANGED <<status, grants, call, seen, limit, todo, found>>
        BY <2>1 DEF WriteRejected, WriteBusy, Goto, db, local, StoreInv, AllTypeOK
      <3>2. QED
        BY <3>1 DEF Sound, Searched, Learnt, Successors
    <2>2. QED
      BY <1>4, <2>1, SoundLoad, SoundTarget, SoundScan, SoundConclude DEF Reads
  <1>5. CASE Writes(c)
    BY <1>5, SoundStage
  <1>6. CASE BeginTimesOut(c) \/ Commit(c) \/ Raise(c) \/ Interrupt(c)
    BY <1>6, <1>3 DEF BeginTimesOut, Commit, Raise, Interrupt, Abandon
  <1>7. QED
    BY <1>1, <1>2, <1>4, <1>5, <1>6, Moves

LEMMA IndStep ==
  ASSUME IndInv, [CallsNext]_allVars
  PROVE  IndInv'
  <1>1. StoreInv'
    BY StoreStep DEF IndInv
  <1>2. CASE UNCHANGED allVars
    <2>1. UNCHANGED <<status, grants, txStatus, txGrants, pc, call, seen, limit, todo, found>>
      BY <1>2 DEF allVars
    <2>2. ASSUME NEW d \in BoundedCallers, Searched(d), Learnt(d), pc[d] = "commit" => Staged(d)
          PROVE  Searched(d)' /\ Learnt(d)' /\ (pc'[d] = "commit" => Staged(d)')
      <3>1. Searched(d)'
        BY <2>1, <2>2 DEF Searched, Successors
      <3>2. Learnt(d)'
        BY <2>1, <2>2 DEF Learnt
      <3>3. Staged(d) => Staged(d)'
        BY <2>1 DEF Staged
      <3>4. QED
        BY <2>1, <2>2, <3>1, <3>2, <3>3
    <2>3. QED
      BY <1>1, <2>2 DEF IndInv
  <1>3. ASSUME NEW c \in Callers, CallerNext(c), NEW d \in BoundedCallers
        PROVE  Sound(d)'
    <2>1. d \in Callers /\ StoreInv /\ Sound(d)
      BY CallersAssumption DEF IndInv, Sound
    <2>2. QED
      BY <1>3, <2>1, SoundOthers, SoundStep
  <1>4. QED
    BY <1>1, <1>2, <1>3 DEF CallsNext, IndInv, Sound

LEMMA IndInit == CallsInit => IndInv
  <1> SUFFICES ASSUME CallsInit, NEW c \in BoundedCallers
               PROVE  Searched(c) /\ Learnt(c) /\ (pc[c] = "commit" => Staged(c))
    BY StoreInit DEF IndInv
  <1>1. pc[c] = "idle" /\ call[c] = NoCall /\ ~found[c]
    BY CallersAssumption DEF CallsInit
  <1>2. QED
    BY <1>1 DEF Searched, Learnt, NoCall

\* What a caller inside a boundary has read is still true when it writes, and
\* what it is about to commit is the effect of its call on the committed store.
THEOREM BoundedCallsSound == CallsSpec => []IndInv
  BY IndInit, IndStep, PTL DEF CallsSpec

\* A last-administrator refusal means there really is no other administrator.
THEOREM RefusalsJustified == CallsSpec => []RefusalJustified
  <1>1. IndInv => RefusalJustified
    <2> SUFFICES ASSUME IndInv, NEW c \in BoundedCallers, pc[c] = "refuse"
                 PROVE  IF call[c].op = "adminRevoke"
                        THEN ActiveAdmins(status, grants \ {call[c].grant}) = {}
                        ELSE ActiveAdmins(status, grants) \ {call[c].user} = {}
      BY DEF RefusalJustified
    <2>1. Successors(call[c]) = {}
      BY DEF IndInv, Searched
    <2>2. CASE call[c].op # "adminRevoke"
      BY <2>1, <2>2 DEF Successors, Target
    <2>3. CASE call[c].op = "adminRevoke"
      <3> DEFINE g == call[c].grant
      <3>1. ~GrantsQualify(GrantsOf(grants \ {g}, g.user))
        BY <2>3 DEF IndInv, Searched
      <3>2. \A u \in ActiveAdmins(status, grants \ {g}) : u # g.user
        BY <3>1 DEF ActiveAdmins
      <3>3. \A u \in ActiveAdmins(status, grants \ {g}) : u \in ActiveAdmins(status, grants)
        BY <3>2, OthersKeepAccess
      <3>4. QED
        BY <2>1, <2>3, <3>2, <3>3 DEF Successors, Target
    <2>4. QED
      BY <2>2, <2>3
  <1>2. QED
    BY <1>1, BoundedCallsSound, PTL
----------------------------------------------------------------------------
(* Refinement: every step of a call is a step of AccountAdmin or a stutter *)

\* What a commit makes visible is the effect of the call.
LEMMA CommitImplements ==
  ASSUME IndInv, NEW c \in Callers, Commit(c)
  PROVE  /\ [Next]_vars
         /\ call[c].op # "managerRevoke" => [GuardedNext]_vars
  <1> DEFINE k == call[c]
  <1>1. c \in BoundedCallers /\ pc[c] = "commit"
    BY DEF Commit, IndInv, StoreInv, LockInv
  <1>2. Staged(c) /\ k \in Calls \cup {NoCall} /\ status' = txStatus /\ grants' = txGrants
    BY <1>1 DEF Commit, IndInv, StoreInv, AllTypeOK
  <1>3. CASE k.op = "create"
    <2>1. k.user \in Users /\ k.to \in {"pending", "active"} /\ CreateUser(k.user, k.to)
      BY <1>2, <1>3, CallShape DEF Staged, CreateUser
    <2>2. QED
      BY <1>3, <2>1 DEF Next, GuardedNext
  <1>4. CASE k.op = "transition"
    <2>1. k.user \in Users /\ k.to \in AccountStatuses /\ TransitionAccount(k.user, k.to)
      BY <1>2, <1>4, CallShape DEF Staged, TransitionAccount
    <2>2. QED
      BY <1>4, <2>1 DEF Next, GuardedNext
  <1>5. CASE k.op = "profile"
    BY <1>2, <1>5 DEF Staged, vars
  <1>6. CASE k.op = "purge"
    <2>1. k.user \in Users /\ HardDeleteAccount(k.user)
      BY <1>2, <1>6, CallShape DEF Staged, HardDeleteAccount
    <2>2. QED
      BY <1>6, <2>1 DEF Next, GuardedNext
  <1>7. CASE k.op \in {"adminGrant", "managerGrant"}
    <2>1. k.grant \in Grants /\ AddGrant(k.grant)
      BY <1>2, <1>7, CallShape DEF Staged, AddGrant
    <2>2. QED
      BY <1>7, <2>1 DEF Next, GuardedNext
  <1>8. CASE k.op = "adminRevoke"
    <2>1. k.grant \in Grants /\ RevokeGrant(k.grant)
      BY <1>2, <1>8, CallShape DEF Staged, RevokeGrant
    <2>2. QED
      BY <1>8, <2>1 DEF Next, GuardedNext
  <1>9. CASE k.op = "managerRevoke"
    <2>1. k.actor \in Users /\ k.grant \in Grants
      BY <1>2, <1>9, CallShape
    <2>2. ManagerRevokeGrant(k.actor, k.grant)
      BY <1>2, <1>9 DEF Staged, ManagerRevokeGrant, Needed
    <2>3. QED
      BY <1>9, <2>1, <2>2 DEF Next
  <1>10. QED
    BY <1>2, <1>3, <1>4, <1>5, <1>6, <1>7, <1>8, <1>9 DEF Staged

\* Outside a boundary the calls of SafeMix take effect in their one store call.
LEMMA WriteImplements ==
  ASSUME SafeMix, IndInv, NEW c \in Callers, Writes(c)
  PROVE  [GuardedNext]_vars
  <1> DEFINE k == call[c]
  <1>1. CASE lock = c
    BY <1>1, WritesMutate DEF vars, db
  <1>2. CASE lock # c
    <2>1. pc[c] = "write" /\ c \in Callers \ BoundedCallers
      BY <1>2, WritesMutate DEF IndInv, StoreInv, LockInv, InTransaction
    <2>2. k \in Calls /\ k.op \in {"create", "adminGrant"}
      BY <2>1 DEF IndInv, StoreInv, CallInv, SafeMix
    <2>3. CASE k.op = "create"
      <3>1. WriteCreate(c)
        BY <2>3 DEF Writes, WriteUser, WritePurge, WriteAdd, WriteRemove
      <3>2. CreateUser(k.user, k.to)
        BY <1>2, <3>1 DEF WriteCreate, Mutate, StatusSeen, GrantsSeen, CreateUser
      <3>3. QED
        BY <2>2, <2>3, <3>2, CallShape DEF GuardedNext
    <2>4. CASE k.op = "adminGrant"
      <3>1. WriteAdd(c)
        BY <2>4 DEF Writes, WriteCreate, WriteUser, WritePurge, WriteRemove
      <3>2. AddGrant(k.grant)
        BY <1>2, <3>1 DEF WriteAdd, Mutate, StatusSeen, GrantsSeen, AddGrant
      <3>3. QED
        BY <2>2, <2>4, <3>2, CallShape DEF GuardedNext
    <2>5. QED
      BY <2>2, <2>3, <2>4
  <1>3. QED
    BY <1>1, <1>2

LEMMA Implements ==
  ASSUME SafeMix, IndInv, [CallsNext]_allVars
  PROVE  /\ [Next]_vars
         /\ (\A c \in Callers : "managerRevoke" \notin Ops[c]) => [GuardedNext]_vars
  <1>1. CASE UNCHANGED allVars
    BY <1>1 DEF allVars, vars
  <1>2. ASSUME NEW c \in Callers, CallerNext(c)
        PROVE  /\ [Next]_vars
               /\ (\A d \in Callers : "managerRevoke" \notin Ops[d]) => [GuardedNext]_vars
    <2>1. CASE Commit(c)
      <3>1. call[c].op \in Ops[c]
        BY <2>1 DEF Commit, IndInv, StoreInv, CallInv
      <3>2. QED
        BY <2>1, <3>1, CommitImplements
    <2>2. CASE Writes(c)
      BY <2>2, WriteImplements DEF Next
    <2>3. CASE ~Commit(c) /\ ~Writes(c)
      <3>1. StartCall(c) \/ AwaitLock(c) \/ BeginImmediate(c) \/ BeginTimesOut(c)
              \/ Reads(c) \/ Raise(c) \/ Interrupt(c)
        BY <1>2, <2>3, Moves
      <3>2. UNCHANGED vars
        BY <3>1, ReadsFrame DEF StartCall, AwaitLock, BeginImmediate, BeginTimesOut, Raise,
              Interrupt, Abandon, db, vars, IndInv, StoreInv
      <3>3. QED
        BY <3>2
    <2>4. QED
      BY <2>1, <2>2, <2>3
  <1>3. QED
    BY <1>1, <1>2 DEF CallsNext

\* Among callers of which only the bounded ones do more than create and grant,
\* every call of the managers takes effect as one step on the committed store.
THEOREM AtomicCalls == ASSUME SafeMix PROVE CallsSpec => ImplementsAccountAdmin
  <1>1. CallsInit => Init
    BY DEF CallsInit
  <1>2. IndInv /\ [CallsNext]_allVars => [Next]_vars
    BY Implements
  <1>3. QED
    BY <1>1, <1>2, BoundedCallsSound, PTL DEF CallsSpec, ImplementsAccountAdmin, Spec

\* And without UserManager's unguarded revokes, as a step that respects the
\* last-administrator conditions.
THEOREM AtomicGuardedCalls ==
  ASSUME SafeMix, \A c \in Callers : "managerRevoke" \notin Ops[c]
  PROVE  CallsSpec => ImplementsGuarded
  <1>1. CallsInit => Init
    BY DEF CallsInit
  <1>2. IndInv /\ [CallsNext]_allVars => [GuardedNext]_vars
    BY Implements
  <1>3. QED
    BY <1>1, <1>2, BoundedCallsSound, PTL DEF CallsSpec, ImplementsGuarded, GuardedSpec
----------------------------------------------------------------------------
(* What a step of AccountAdmin preserves *)

LEMMA GuardedStepRetains ==
  ASSUME TypeOK, GuardedNext, ActiveAdmins(status, grants) # {}
  PROVE  ActiveAdmins(status', grants') # {}
  <1>1. PICK a \in Users : status[a] = "active" /\ GrantsQualify(GrantsOf(grants, a))
    BY DEF ActiveAdmins
  <1>2. ASSUME NEW u \in Users, NEW s \in {"pending", "active"}, CreateUser(u, s)
        PROVE  a \in ActiveAdmins(status', grants')
    BY <1>1, <1>2 DEF CreateUser, ActiveAdmins, TypeOK, Absent
  <1>3. ASSUME NEW u \in Users, NEW to \in AccountStatuses, TransitionAccount(u, to)
        PROVE  ActiveAdmins(status', grants') # {}
    <2>1. CASE u # a
      <3>1. status'[a] = "active" /\ grants' = grants
        BY <1>1, <1>3, <2>1 DEF TransitionAccount, TypeOK
      <3>2. QED
        BY <1>1, <3>1 DEF ActiveAdmins
    <2>2. CASE u = a
      <3>1. Deactivates(to)
        BY <1>1, <1>3, <2>2 DEF TransitionAccount, LegalTransition, Deactivates
      <3>2. PICK b \in ActiveAdmins(status, grants) : b # u
        BY <1>1, <1>3, <2>2, <3>1 DEF TransitionAccount, DeactivationAllowed
      <3>3. b \in Users /\ status'[b] = "active" /\ GrantsQualify(GrantsOf(grants', b))
        BY <1>3, <3>2 DEF TransitionAccount, ActiveAdmins, TypeOK
      <3>4. QED
        BY <3>3 DEF ActiveAdmins
    <2>3. QED
      BY <2>1, <2>2
  <1>4. ASSUME NEW u \in Users, HardDeleteAccount(u)
        PROVE  ActiveAdmins(status', grants') # {}
    <2>1. u # a
      BY <1>1, <1>4 DEF HardDeleteAccount
    <2>2. status'[a] = "active" /\ GrantsOf(grants', a) = GrantsOf(grants, a)
      BY <1>1, <1>4, <2>1 DEF HardDeleteAccount, GrantsOf, TypeOK
    <2>3. QED
      BY <1>1, <2>2 DEF ActiveAdmins
  <1>5. ASSUME NEW g \in Grants, AddGrant(g)
        PROVE  ActiveAdmins(status', grants') # {}
    <2>1. GrantsOf(grants, a) \subseteq GrantsOf(grants', a) /\ status' = status
      BY <1>5 DEF AddGrant, GrantsOf
    <2>2. QED
      BY <1>1, <2>1 DEF ActiveAdmins, GrantsQualify
  <1>6. ASSUME NEW g \in Grants, RevokeGrant(g)
        PROVE  ActiveAdmins(status', grants') # {}
    <2>1. status' = status /\ grants' = grants \ {g} /\ RevokeAllowed(status, grants, g)
      BY <1>6 DEF RevokeGrant
    <2>2. CASE g.user # a
      BY <1>1, <2>1, <2>2, OthersKeepAccess DEF ActiveAdmins
    <2>3. CASE g.user = a /\ GrantsQualify(GrantsOf(grants \ {g}, a))
      BY <1>1, <2>1, <2>3 DEF ActiveAdmins
    <2>4. CASE g.user = a /\ ~GrantsQualify(GrantsOf(grants \ {g}, a)) /\ GrantQualifies(g)
      BY <2>1, <2>4 DEF RevokeAllowed
    <2>5. CASE g.user = a /\ ~GrantQualifies(g)
      <3>1. GrantsQualify(GrantsOf(grants \ {g}, a))
        BY <1>1, <2>5 DEF GrantsQualify, GrantsOf
      <3>2. QED
        BY <1>1, <2>1, <3>1 DEF ActiveAdmins
    <2>6. QED
      BY <2>2, <2>3, <2>4, <2>5
  <1>7. QED
    BY <1>2, <1>3, <1>4, <1>5, <1>6 DEF GuardedNext

LEMMA DeletedStep ==
  ASSUME TypeOK, [Next]_vars, NEW u \in Users, status[u] = "deleted"
  PROVE  status'[u] \in {"deleted", Absent}
  <1>1. CASE UNCHANGED vars
    BY <1>1 DEF vars
  <1>2. ASSUME NEW v \in Users, NEW s \in {"pending", "active"}, CreateUser(v, s)
        PROVE  status'[u] = "deleted"
    BY <1>2 DEF CreateUser, TypeOK, Absent
  <1>3. ASSUME NEW v \in Users, NEW to \in AccountStatuses, TransitionAccount(v, to)
        PROVE  status'[u] = "deleted"
    BY <1>3 DEF TransitionAccount, LegalTransition, TypeOK
  <1>4. ASSUME NEW v \in Users, HardDeleteAccount(v)
        PROVE  status'[u] \in {"deleted", Absent}
    BY <1>4 DEF HardDeleteAccount, TypeOK
  <1>5. ASSUME NEW g \in Grants, NEW v \in Users,
               AddGrant(g) \/ RevokeGrant(g) \/ ManagerRevokeGrant(v, g)
        PROVE  status'[u] = "deleted"
    BY <1>5 DEF AddGrant, RevokeGrant, ManagerRevokeGrant
  <1>6. CASE Next
    BY <1>2, <1>3, <1>4, <1>5, <1>6 DEF Next, GuardedNext
  <1>7. QED
    BY <1>1, <1>6
----------------------------------------------------------------------------
(* The action properties of AccountCalls *)

\* Two concurrent removals never leave the system without an administrator.
THEOREM AdministratorsRetained ==
  ASSUME SafeMix, \A c \in Callers : "managerRevoke" \notin Ops[c]
  PROVE  CallsSpec => AdminRetained
  <1>1. IndInv /\ [CallsNext]_allVars =>
          [ActiveAdmins(status, grants) # {} => ActiveAdmins(status', grants') # {}]_db
    <2> SUFFICES ASSUME IndInv, [CallsNext]_allVars, ActiveAdmins(status, grants) # {},
                        db' # db
                 PROVE  ActiveAdmins(status', grants') # {}
      OBVIOUS
    <2>1. GuardedNext
      BY Implements DEF vars, db
    <2>2. QED
      BY <2>1, GuardedStepRetains DEF IndInv, StoreInv, AllTypeOK
  <1>2. QED
    BY <1>1, BoundedCallsSound, PTL DEF CallsSpec, AdminRetained

\* A soft-deleted account is final: no stale read brings it back.
THEOREM DeletionFinal == ASSUME SafeMix PROVE CallsSpec => DeletedIsFinal
  <1>1. IndInv /\ [CallsNext]_allVars =>
          [\A u \in Users : status[u] = "deleted" => status'[u] \in {"deleted", Absent}]_db
    BY Implements, DeletedStep DEF IndInv, StoreInv, AllTypeOK
  <1>2. QED
    BY <1>1, BoundedCallsSound, PTL DEF CallsSpec, DeletedIsFinal

\* When a manager's grant or revoke is committed, its actor still holds the
\* authority that was checked at the beginning of the call.
THEOREM AuthorityHeld == ASSUME SafeMix PROVE CallsSpec => AuthorityAtEffect
  <1> DEFINE Ends(c) == call[c].op \in {"managerGrant", "managerRevoke"} /\ call'[c] = NoCall
             Holds(c) == HasPermission(grants, call[c].actor, Needed(call[c]),
                                       call[c].grant.scope)
  <1>1. IndInv /\ [CallsNext]_allVars => [\A c \in Callers : Ends(c) => Holds(c)]_db
    <2> SUFFICES ASSUME IndInv, CallsNext, db' # db, NEW c \in Callers, Ends(c)
                 PROVE  Holds(c)
      BY DEF allVars, db
    <2>1. PICK d \in Callers : CallerNext(d)
      BY DEF CallsNext
    <2>2. c = d
      BY <2>1, Others DEF IndInv, StoreInv, NoCall
    <2>3. Commit(c) \/ Writes(c)
      BY <2>1, <2>2, Moves, ReadsFrame
         DEF StartCall, AwaitLock, BeginImmediate, BeginTimesOut, Raise, Interrupt, Abandon,
             db, IndInv, StoreInv
    <2>4. CASE Commit(c)
      <3>1. c \in BoundedCallers /\ pc[c] = "commit"
        BY <2>4 DEF Commit, IndInv, StoreInv, LockInv
      <3>2. QED
        BY <3>1 DEF IndInv, Staged
    <2>5. CASE Writes(c)
      <3>1. lock # c /\ pc[c] = "write" /\ c \notin BoundedCallers
        BY <2>5, WritesMutate DEF db, IndInv, StoreInv, LockInv, InTransaction
      <3>2. call[c].op \in {"create", "adminGrant"}
        BY <3>1 DEF IndInv, StoreInv, CallInv, SafeMix
      <3>3. QED
        BY <3>2
    <2>6. QED
      BY <2>3, <2>4, <2>5
  <1>2. QED
    BY <1>1, BoundedCallsSound, PTL DEF CallsSpec, AuthorityAtEffect

----------------------------------------------------------------------------
(* Claims: the second statement of the rules agrees with the first *)

\* A grant's name is a role or a permission, never both.
LEMMA GrantNames ==
  ASSUME NEW g \in Grants
  PROVE  /\ g.user \in Users /\ g.scope \in Scopes
         /\ g.name \in RoleNames \/ g.name \in Permissions
         /\ ~(g.name \in RoleNames /\ g.name \in Permissions)
  BY GrantsAssumption, NamesAssumption

\* Only roles have stored permissions.
LEMMA StoredOfRoles ==
  ASSUME NEW n, NEW p \in StoredPermissions(n)
  PROVE  n \in RoleNames /\ n \notin Permissions /\ p \in Permissions
  BY RoleStoreAssumption, NamesAssumption DEF StoredPermissions

\* _grant_allows of claims.py and of manager.py are one rule.
LEMMA SameRule ==
  ASSUME NEW g \in Grants, NEW p \in Permissions
  PROVE  ClaimGrantAllows(g, p) <=> GrantAllows(g, p)
  <1>1. AdminRole \in RoleNames /\ AdminAccess \in Permissions
    BY NamesAssumption
  <1>2. CASE g.name \in Permissions
    <2>1. StoredPermissions(g.name) = {} /\ g.name # AdminRole
      BY <1>1, <1>2, StoredOfRoles, NamesAssumption
    <2>2. QED
      BY <1>2, <2>1 DEF ClaimGrantAllows, GrantAllows
  <1>3. CASE g.name \notin Permissions
    <2>1. g.name # p /\ g.name # AdminAccess
      BY <1>1, <1>3
    <2>2. QED
      BY <1>3, <2>1 DEF ClaimGrantAllows, GrantAllows
  <1>4. QED
    BY <1>2, <1>3

LEMMA SameAtScope ==
  ASSUME NEW gr \in SUBSET Grants, NEW u, NEW p \in Permissions, NEW s
  PROVE  AllowedAt(gr, u, p, s) <=> HasPermission(gr, u, p, s)
  <1>1. \A g \in GrantsOf(gr, u) : ClaimGrantAllows(g, p) <=> GrantAllows(g, p)
    BY SameRule DEF GrantsOf
  <1>2. QED
    BY <1>1 DEF AllowedAt, HasPermission

\* What the projection holds of one permission.
LEMMA Projected ==
  ASSUME NEW gr \in SUBSET Grants, NEW u, NEW p \in Permissions, NEW s
  PROVE  p \in ProjectedPermissions(gr, u, s) <=>
           \E g \in GrantsOf(gr, u) :
             ScopeAllows(g.scope, s) /\ (g.name = p \/ p \in StoredPermissions(g.name))
  <1>1. ASSUME p \in ProjectedPermissions(gr, u, s)
        PROVE  \E g \in GrantsOf(gr, u) :
                 ScopeAllows(g.scope, s) /\ (g.name = p \/ p \in StoredPermissions(g.name))
    BY <1>1 DEF ProjectedPermissions, ProjectedRoles, Allowing
  <1>2. ASSUME NEW g \in GrantsOf(gr, u), ScopeAllows(g.scope, s),
               g.name = p \/ p \in StoredPermissions(g.name)
        PROVE  p \in ProjectedPermissions(gr, u, s)
    <2>1. g \in Allowing(gr, u, s)
      BY <1>2 DEF Allowing
    <2>2. CASE g.name = p
      BY <2>1, <2>2 DEF ProjectedPermissions
    <2>3. CASE p \in StoredPermissions(g.name)
      <3>1. g.name \in ProjectedRoles(gr, u, s)
        BY <2>1, <2>3, StoredOfRoles DEF ProjectedRoles
      <3>2. QED
        BY <2>3, <3>1 DEF ProjectedPermissions
    <2>4. QED
      BY <1>2, <2>2, <2>3
  <1>3. QED
    BY <1>1, <1>2

\* The context's has_permission without a scope is has_permission at its own.
LEMMA SameAllowed ==
  ASSUME NEW gr \in SUBSET Grants, NEW u, NEW p \in Permissions, NEW s
  PROVE  Allowed(gr, u, p, s) <=> HasPermission(gr, u, p, s)
  <1>1. AdminAccess \in Permissions
    BY NamesAssumption
  <1>2. AllowedAt(gr, u, AdminAccess, s) <=> HasPermission(gr, u, AdminAccess, s)
    BY <1>1, SameAtScope
  <1>3. \A g : GrantAllows(g, p) <=>
               \/ g.name = p \/ p \in StoredPermissions(g.name)
               \/ GrantAllows(g, AdminAccess)
    BY DEF GrantAllows
  <1>4. QED
    BY <1>2, <1>3, Projected DEF Allowed, HasPermission

----------------------------------------------------------------------------

\* The administrators of the projection are those of the predicate.
LEMMA SameAdministrators ==
  ASSUME DefaultPredicate, NEW gr \in SUBSET Grants, NEW u
  PROVE  AdminRole \in ProjectedRoles(gr, u, Global) \/ Allowed(gr, u, AdminAccess, Global)
           <=> GrantsQualify(GrantsOf(gr, u))
  <1>1. AdminRoleNames = {AdminRole} /\ AdminPermissions = {AdminAccess}
    BY DEF DefaultPredicate
  <1>2. AdminRole \in RoleNames /\ AdminAccess \in Permissions
    BY NamesAssumption
  <1>3. \A g : GrantQualifies(g) <=>
               ScopeAllows(g.scope, Global) /\ GrantAllows(g, AdminAccess)
    BY <1>1 DEF GrantQualifies, ScopeAllows, GrantAllows
  <1>4. GrantsQualify(GrantsOf(gr, u)) <=> HasPermission(gr, u, AdminAccess, Global)
    BY <1>3 DEF GrantsQualify, HasPermission
  <1>5. Allowed(gr, u, AdminAccess, Global) <=> HasPermission(gr, u, AdminAccess, Global)
    BY <1>2, SameAllowed
  <1>6. AdminRole \in ProjectedRoles(gr, u, Global) => HasPermission(gr, u, AdminAccess, Global)
    BY DEF ProjectedRoles, Allowing, HasPermission, GrantAllows
  <1>7. QED
    BY <1>4, <1>5, <1>6

LEMMA AgreeFor ==
  ASSUME DefaultPredicate, NEW gr \in SUBSET Grants
  PROVE  ClaimsAgreeFor(gr)
  <1>1. SUFFICES ASSUME NEW u \in Users
                 PROVE  /\ \A p \in Permissions, s \in Scopes :
                             /\ AllowedAt(gr, u, p, s) <=> HasPermission(gr, u, p, s)
                             /\ Allowed(gr, u, p, s) <=> HasPermission(gr, u, p, s)
                        /\ \A owner \in Users \ {u} :
                             OwnerOrAdmin(Principal(gr, u, Global), owner)
                               <=> GrantsQualify(GrantsOf(gr, u))
    BY DEF ClaimsAgreeFor
  <1>2. \A p \in Permissions, s \in Scopes :
          /\ AllowedAt(gr, u, p, s) <=> HasPermission(gr, u, p, s)
          /\ Allowed(gr, u, p, s) <=> HasPermission(gr, u, p, s)
    BY SameAtScope, SameAllowed
  <1>3. ASSUME NEW owner \in Users \ {u}
        PROVE  OwnerOrAdmin(Principal(gr, u, Global), owner)
                 <=> GrantsQualify(GrantsOf(gr, u))
    <2>1. OwnerOrAdmin(Principal(gr, u, Global), owner) <=>
            AdminRole \in ProjectedRoles(gr, u, Global) \/ Allowed(gr, u, AdminAccess, Global)
      BY DEF OwnerOrAdmin, Principal
    <2>2. QED
      BY <2>1, SameAdministrators
  <1>4. QED
    BY <1>2, <1>3

----------------------------------------------------------------------------
(* Requests *)

\* A principal's claims, as require_permission reads them, are what its user might at
\* the scope of the projection.
LEMMA PrincipalMeans ==
  ASSUME NEW gr \in SUBSET Grants, NEW u, NEW p \in Permissions, NEW s
  PROVE  HasClaim(Principal(gr, u, s), p) <=> HasPermission(gr, u, p, s)
  <1>1. AdminAccess \in Permissions
    BY NamesAssumption
  <1>2. Allowed(gr, u, p, s) <=> HasPermission(gr, u, p, s)
    BY SameAllowed
  <1>3. Allowed(gr, u, AdminAccess, s) <=> HasPermission(gr, u, AdminAccess, s)
    BY <1>1, SameAllowed
  <1>4. AllowedAt(gr, u, AdminAccess, s) <=> HasPermission(gr, u, AdminAccess, s)
    BY <1>1, SameAtScope
  <1>5. HasClaim(Principal(gr, u, s), p) <=>
          \/ p \in ProjectedPermissions(gr, u, s)
          \/ AdminAccess \in ProjectedPermissions(gr, u, s)
          \/ Allowed(gr, u, AdminAccess, s)
    BY DEF HasClaim, Principal
  <1>6. QED
    BY <1>2, <1>3, <1>4, <1>5 DEF Allowed

LEMMA RequestMeans ==
  ASSUME NEW gr \in SUBSET Grants, NEW pr, NEW p \in Permissions, NEW s
  PROVE  RequestAllows(pr, gr, p, s) <=>
           HasClaim(pr, p) \/ HasPermission(gr, pr.user, p, s)
  <1>1. AdminAccess \in Permissions
    BY NamesAssumption
  <1>2. Principal(gr, pr.user, s).isAdmin <=> Allowed(gr, pr.user, AdminAccess, s)
    BY DEF Principal
  <1>3. Allowed(gr, pr.user, AdminAccess, s) <=> HasPermission(gr, pr.user, AdminAccess, s)
    BY <1>1, SameAllowed
  <1>4. AllowedAt(gr, pr.user, AdminAccess, s) <=> HasPermission(gr, pr.user, AdminAccess, s)
    BY <1>1, SameAtScope
  <1>5. Allowed(gr, pr.user, p, s) <=> HasPermission(gr, pr.user, p, s)
    BY SameAllowed
  <1>6. QED
    BY <1>2, <1>3, <1>4, <1>5 DEF RequestAllows, Allowed

\* The packaged UI's principal claims nothing that no grant of its user's allows.
LEMMA LocalMeans ==
  ASSUME NEW gr \in SUBSET Grants, NEW u, NEW p \in Permissions,
         HasClaim(LocalPrincipal(gr, u), p)
  PROVE  \E s \in Scopes : HasPermission(gr, u, p, s)
  <1>1. PICK g \in GrantsOf(gr, u) : g.name \in {p, AdminAccess, AdminRole}
    BY DEF HasClaim, LocalPrincipal
  <1>2. g.scope \in Scopes
    BY GrantNames DEF GrantsOf
  <1>3. ScopeAllows(g.scope, g.scope) /\ GrantAllows(g, p)
    BY <1>1 DEF ScopeAllows, GrantAllows
  <1>4. HasPermission(gr, u, p, g.scope)
    BY <1>1, <1>3 DEF HasPermission
  <1>5. QED
    BY <1>2, <1>4

LEMMA RoleMeans ==
  ASSUME NEW gr \in SUBSET Grants, NEW u, NEW r \in RoleNames, NEW s
  PROVE  r \in Principal(gr, u, s).roles <=> HasRoleAt(gr, u, r, s)
  BY DEF Principal, ProjectedRoles, Allowing, HasRoleAt

LEMMA MeanFor ==
  ASSUME NEW before \in SUBSET Grants, NEW now \in SUBSET Grants
  PROVE  RequestsMeanFor(before, now)
  <1>1. SUFFICES
          ASSUME NEW u \in Users, NEW p \in Permissions, NEW s \in Scopes
          PROVE  /\ \A s0 \in Scopes :
                      RequestAllows(Principal(before, u, s0), now, p, s) <=>
                        HasPermission(before, u, p, s0) \/ HasPermission(now, u, p, s)
                 /\ RequestAllows(LocalPrincipal(before, u), now, p, s) =>
                      (\E s0 \in Scopes : HasPermission(before, u, p, s0))
                        \/ HasPermission(now, u, p, s)
                 /\ \A r \in RoleNames, s0 \in Scopes :
                      RequestHasRole(Principal(before, u, s0), now, r) <=>
                        HasRoleAt(before, u, r, s0) \/ HasRoleAt(now, u, r, Global)
    BY DEF RequestsMeanFor
  <1>2. \A s0 : Principal(before, u, s0).user = u
    BY DEF Principal
  <1>3. LocalPrincipal(before, u).user = u
    BY DEF LocalPrincipal
  <1>4. ASSUME NEW s0 \in Scopes
        PROVE  RequestAllows(Principal(before, u, s0), now, p, s) <=>
                 HasPermission(before, u, p, s0) \/ HasPermission(now, u, p, s)
    BY <1>2, PrincipalMeans, RequestMeans
  <1>5. RequestAllows(LocalPrincipal(before, u), now, p, s) =>
          (\E s0 \in Scopes : HasPermission(before, u, p, s0)) \/ HasPermission(now, u, p, s)
    BY <1>3, LocalMeans, RequestMeans
  <1>6. ASSUME NEW r \in RoleNames, NEW s0 \in Scopes
        PROVE  RequestHasRole(Principal(before, u, s0), now, r) <=>
                 HasRoleAt(before, u, r, s0) \/ HasRoleAt(now, u, r, Global)
    BY <1>2, RoleMeans DEF RequestHasRole
  <1>7. QED
    BY <1>4, <1>5, <1>6

----------------------------------------------------------------------------

LEMMA GrantsType == AllTypeOK => grants \in SUBSET Grants
  BY DEF AllTypeOK, TypeOK

\* Whatever the callers do, the claims projected from the stored grants allow what
\* UserManager allows (claims.py:245, manager.py:355), and the administrators of the
\* projection are those the last-administrator rules count, under a predicate that the host
\* has not changed.
THEOREM ClaimsAlwaysAgree ==
  ASSUME DefaultPredicate
  PROVE  CallsSpec => []ClaimsAgree
  <1>1. AllTypeOK => ClaimsAgree
    BY GrantsType, AgreeFor DEF ClaimsAgree
  <1>2. QED
    BY <1>1, TypeCorrect, PTL

\* A request made with a principal from before a change may what was allowed at the
\* login or is now (adapters/fastapi.py:301), and no more.
THEOREM RequestsAlwaysMean == CallsSpec => RequestsMean
  <1>1. AllTypeOK /\ AllTypeOK' => [grants' # grants => RequestsMeanFor(grants, grants')]_grants
    <2>1. SUFFICES ASSUME AllTypeOK, AllTypeOK'
                   PROVE  RequestsMeanFor(grants, grants')
      OBVIOUS
    <2>2. grants \in SUBSET Grants /\ grants' \in SUBSET Grants
      BY <2>1 DEF AllTypeOK, TypeOK
    <2>3. QED
      BY <2>2, MeanFor
  <1>2. QED
    BY <1>1, TypeCorrect, PTL DEF RequestsMean
=============================================================================
