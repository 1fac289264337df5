------------------------- MODULE RegistrationProofs -------------------------
(***************************************************************************)
(* Proofs about Registration, for every set of ids and requests: it        *)
(* implements RegisteredAccounts, commits nothing for a caller that has    *)
(* been answered, and lets a login enter an account of its subject.        *)
(***************************************************************************)
EXTENDS Registration, TLAPS

----------------------------------------------------------------------------
(* The inductive invariant *)

\* The parts of a registration that its transaction has written.
Written(r) ==
  IF req[r].kind = "self"
  THEN CASE step[r] = "persist" -> {"account"}
         [] step[r] = "grant" -> {"account", "stored"}
         [] step[r] = "commit" -> {"account", "stored", "granted"}
         [] OTHER -> {}
  ELSE CASE step[r] = "create" -> {"stored"}
         [] step[r] = "link" -> {"stored", "account"}
         [] step[r] = "grant" -> {"stored", "account", "linked"}
         [] step[r] = "commit" -> {"stored", "account", "linked", "granted"}
         [] OTHER -> {}

Image(r) ==
  LET s == req[r].subject IN
  [account |-> IF "account" \in Written(r) THEN [db.account EXCEPT ![s] = "same"] ELSE db.account,
   linked |-> IF "linked" \in Written(r) THEN [db.linked EXCEPT ![s] = s] ELSE db.linked,
   stored |-> IF "stored" \in Written(r) THEN db.stored \cup {s} ELSE db.stored,
   granted |-> IF "granted" \in Written(r) THEN db.granted \cup {s} ELSE db.granted]

\* A transaction that may still be committed would add the parts written so far to what
\* is committed, and has found no other account or link in their place.
Staged ==
  \A r \in Requests : Holder = r /\ step[r] # "idle" =>
    LET s == req[r].subject IN
    /\ step[r] \in IF req[r].kind = "self" THEN {"create", "persist", "grant", "commit"}
                   ELSE {"save", "create", "link", "grant", "commit"}
    /\ tx.db = Image(r)
    /\ "account" \in Written(r) =>
         db.account[s] \in IF req[r].kind = "self" THEN {"none"} ELSE {"none", "same"}
    /\ "linked" \in Written(r) => db.linked[s] \in {None, s}

\* A request that is at work is still waited for.
Attended == \A r \in Requests : step[r] # "idle" => r \in open

\* What a request that has yet to enter an account remembers: what its subject has now,
\* and that it had an active account.
Remembered ==
  \A r \in Requests :
    step[r] \in {"drain", "hooks", "linking"} /\ "login" \in req[r].todo =>
      /\ Held(db, req[r].subject) \subseteq seen[r]
      /\ \E h \in seen[r] : h[2]

IInv == TypeOK /\ Staged /\ Attended /\ Remembered

----------------------------------------------------------------------------
(* Types *)

InTransaction(r) == step[r] \in {"save", "create", "persist", "link", "grant", "commit"}

\* The parts of TypeOK: the database and its transaction, and the requests.
StoreTyped ==
  /\ db \in Databases
  /\ tx \in [by : Requests, db : Databases] \cup {None}
  /\ \A s \in Ids : db.linked[s] # None => db.account[db.linked[s]] # "none"

RequestsTyped ==
  /\ open \subseteq Requests
  /\ step \in [Requests -> Steps] /\ req \in [Requests -> Locals \cup {Idle}]
  /\ session \in [Requests -> Ids \cup {None}]
  /\ \A r \in Requests : step[r] = "idle" <=> req[r] = Idle

HoldersTyped == \A r \in Requests : InTransaction(r) => Holder = r

LEMMA TypeParts == TypeOK <=> StoreTyped /\ RequestsTyped /\ HoldersTyped
  BY DEF TypeOK, StoreTyped, RequestsTyped, HoldersTyped, InTransaction

LEMMA TypePartsNext == (StoreTyped /\ RequestsTyped /\ HoldersTyped)' => TypeOK'
  BY DEF TypeOK, StoreTyped, RequestsTyped, HoldersTyped, InTransaction

LEMMA IdleIsNoLocals == Idle \notin Locals
  BY DEF Idle, Locals

\* A request's locals, unless it is between two calls.
LEMMA Running ==
  ASSUME TypeOK, NEW r \in Requests, step[r] # "idle"
  PROVE  req[r] \in Locals
  BY DEF TypeOK

LEMMA Holding ==
  ASSUME TypeOK, NEW r \in Requests, Holder = r
  PROVE  tx # None /\ tx \in [by : Requests, db : Databases] /\ tx.by = r
  BY NoneAssumption DEF Holder, TypeOK

LEMMA NobodyHolds ==
  ASSUME NEW r \in Requests, tx = None
  PROVE  Holder # r
  BY NoneAssumption DEF Holder

\* The steps, locals and sessions of the requests other than r do not change.
Alone(r) ==
  \A q \in Requests \ {r} :
    step'[q] = step[q] /\ req'[q] = req[q] /\ session'[q] = session[q]

LEMMA Moves ==
  ASSUME TypeOK, NEW r \in Requests, NEW s, Go(r, s)
  PROVE  step'[r] = s /\ \A q \in Requests \ {r} : step'[q] = step[q]
  BY DEF TypeOK, Go

LEMMA Finishes ==
  ASSUME TypeOK, NEW r \in Requests, Finish(r)
  PROVE  /\ RequestsTyped' /\ Alone(r)
         /\ step'[r] = "idle" /\ session'[r] = None /\ open' = open \ {r}
  BY DEF TypeOK, Finish, Go, RequestsTyped, Alone, Steps

LEMMA Starts ==
  ASSUME TypeOK, NEW r \in Requests, NEW kind \in Kinds, NEW s \in Ids, NEW c \in Ids,
         NEW t \in Steps \ {"idle"}, Start(r, kind, s, c), Go(r, t)
  PROVE  /\ RequestsTyped' /\ Alone(r)
         /\ step[r] = "idle" /\ Holder # r
         /\ step'[r] = t /\ req'[r].subject = s /\ r \in open' /\ open \subseteq open'
         /\ UNCHANGED <<db, tx, session>>
  <1> DEFINE q == [kind |-> kind, subject |-> s, cred |-> c,
                   cancelled |-> FALSE, todo |-> Hooks]
  <1>1. q \in Locals
    BY DEF Locals
  <1>2. req' = [req EXCEPT ![r] = q] /\ step[r] = "idle" /\ Holder # r
        /\ open' = open \cup {r} /\ UNCHANGED <<db, tx, session>>
    BY DEF Start
  <1>3. req'[r] = q
    BY <1>2 DEF TypeOK
  <1>4. QED
    BY <1>1, <1>2, <1>3, IdleIsNoLocals, Moves DEF TypeOK, Go, RequestsTyped, Alone

\* A request at work goes on, with some of its locals changed.
LEMMA GoesOn ==
  ASSUME TypeOK, NEW r \in Requests, NEW t \in Steps \ {"idle"}, Go(r, t),
         NEW q \in Locals, req' = [req EXCEPT ![r] = q],
         UNCHANGED <<open, session>>
  PROVE  RequestsTyped' /\ Alone(r) /\ step'[r] = t /\ req'[r] = q
  BY IdleIsNoLocals, Moves DEF TypeOK, Go, RequestsTyped, Alone

LEMMA Proceeds ==
  ASSUME TypeOK, NEW r \in Requests, step[r] # "idle",
         NEW t \in Steps \ {"idle"}, Go(r, t), UNCHANGED <<open, req, session>>
  PROVE  RequestsTyped' /\ Alone(r) /\ step'[r] = t /\ req'[r] = req[r]
  <1>1. req[r] \in Locals /\ req' = [req EXCEPT ![r] = req[r]]
    BY Running DEF TypeOK
  <1>2. QED
    BY <1>1, GoesOn

LEMMA InitTyped == ASSUME Init PROVE TypeOK
  BY NoneAssumption DEF Init, TypeOK, Databases, Accounts, Steps

----------------------------------------------------------------------------
(* The steps of a transaction *)

LEMMA AddsMember ==
  ASSUME NEW a, NEW l, NEW p, NEW g, NEW s, NEW d,
         d = [account |-> a, linked |-> l, stored |-> p, granted |-> g]
  PROVE  /\ [d EXCEPT !.stored = @ \cup {s}] =
              [account |-> a, linked |-> l, stored |-> p \cup {s}, granted |-> g]
         /\ [d EXCEPT !.granted = @ \cup {s}] =
              [account |-> a, linked |-> l, stored |-> p, granted |-> g \cup {s}]
  OBVIOUS

LEMMA ImageTyped ==
  ASSUME TypeOK, NEW r \in Requests, step[r] # "idle"
  PROVE  Image(r) \in Databases
  <1>1. req[r].subject \in Ids
    BY Running DEF Locals
  <1>2. db.account \in [Ids -> Accounts] /\ db.linked \in [Ids -> Ids \cup {None}]
        /\ db.stored \in SUBSET Ids /\ db.granted \in SUBSET Ids
    BY DEF TypeOK, Databases
  <1>3. QED
    BY <1>1, <1>2 DEF Image, Databases, Accounts

LEMMA WritesTyped ==
  ASSUME TypeOK, NEW r \in Requests, InTransaction(r), NEW d \in Databases,
         NEW t \in {"create", "persist", "link", "grant", "commit"}, Writes(r, d, t)
  PROVE  /\ TypeOK' /\ Alone(r)
         /\ step'[r] = t /\ req'[r] = req[r]
         /\ tx' = [by |-> r, db |-> d] /\ UNCHANGED <<db, open>>
         /\ Holder' = r
  <1>1. Holder = r /\ step[r] # "idle" /\ t \in Steps \ {"idle"}
    BY DEF TypeOK, InTransaction, Steps
  <1>2. RequestsTyped' /\ Alone(r) /\ step'[r] = t /\ req'[r] = req[r]
    BY <1>1, Proceeds DEF Writes
  <1>3. tx' = [by |-> r, db |-> d] /\ tx' # None
    BY <1>1, Holding, NoneAssumption DEF Writes
  <1>4. Holder' = r
    BY <1>3 DEF Holder
  <1>5. StoreTyped'
    <2>1. db' = db
      BY DEF Writes
    <2>2. tx' \in [by : Requests, db : Databases]
      BY <1>3
    <2>3. QED
      BY <2>1, <2>2, TypeParts DEF StoreTyped
  <1>6. HoldersTyped'
    BY <1>1, <1>2, <1>4, TypeParts DEF HoldersTyped, InTransaction, Alone
  <1>7. QED
    BY <1>2, <1>3, <1>4, <1>5, <1>6, TypePartsNext DEF Writes

\* What each step finds written, and writes.
LEMMA Stages ==
  ASSUME TypeOK, Staged, NEW r \in Requests, InTransaction(r)
  PROVE  /\ tx.db = Image(r)
         /\ step[r] \in IF req[r].kind = "self" THEN {"create", "persist", "grant", "commit"}
                        ELSE {"save", "create", "link", "grant", "commit"}
         /\ req[r].subject \in Ids /\ req[r] \in Locals
         /\ "account" \in Written(r) =>
              db.account[req[r].subject] \in IF req[r].kind = "self" THEN {"none"}
                                             ELSE {"none", "same"}
         /\ "linked" \in Written(r) => db.linked[req[r].subject] \in {None, req[r].subject}
  <1>1. Holder = r /\ step[r] # "idle"
    BY DEF TypeOK, InTransaction
  <1>2. req[r] \in Locals
    BY <1>1, Running
  <1>3. QED
    BY <1>1, <1>2 DEF Staged, Locals

\* While one request holds the transaction, no other is concerned by Staged.
LEMMA StagedByOne ==
  ASSUME TypeOK, NEW r \in Requests, Holder' = r, 
         LET s == req'[r].subject IN
         /\ step'[r] \in IF req'[r].kind = "self" THEN {"create", "persist", "grant", "commit"}
                         ELSE {"save", "create", "link", "grant", "commit"}
         /\ tx'.db = Image(r)'
         /\ "account" \in Written(r)' =>
              db'.account[s] \in IF req'[r].kind = "self" THEN {"none"} ELSE {"none", "same"}
         /\ "linked" \in Written(r)' => db'.linked[s] \in {None, s}
  PROVE  Staged'
  BY DEF Staged

LEMMA SaveStages ==
  ASSUME TypeOK, Staged, NEW r \in Requests, Save(r)
  PROVE  TypeOK' /\ Staged' /\ Alone(r) /\ step'[r] = "create" /\ req'[r] = req[r]
         /\ UNCHANGED <<db, open>>
  <1>1. InTransaction(r)
    BY DEF Save, InTransaction
  <1>2. tx.db = Image(r) /\ req[r].kind # "self" /\ req[r].subject \in Ids
    BY <1>1, Stages DEF Save
  <1>3. Saved(r) \in Databases
    <2>1. Image(r) \in Databases
      BY <1>1, ImageTyped DEF InTransaction
    <2>2. QED
      BY <1>2, <2>1 DEF Saved, Databases
  <1>4. /\ TypeOK' /\ Alone(r) /\ step'[r] = "create" /\ req'[r] = req[r]
        /\ tx' = [by |-> r, db |-> Saved(r)] /\ UNCHANGED <<db, open>> /\ Holder' = r
    BY <1>1, <1>3, WritesTyped DEF Save
  <1>5. Written(r)' = {"stored"}
    BY <1>2, <1>4 DEF Written
  <1>6. Image(r)' = Saved(r)
    <2>1. Written(r) = {}
      BY <1>2 DEF Written, Save
    <2>2. QED
      BY <1>2, <1>4, <1>5, <2>1 DEF Image, Saved
  <1>7. Staged'
    BY <1>2, <1>4, <1>5, <1>6, StagedByOne
  <1>8. QED
    BY <1>4, <1>7

LEMMA CreateStages ==
  ASSUME TypeOK, Staged, NEW r \in Requests, Create(r)
  PROVE  TypeOK' /\ Staged' /\ Alone(r) /\ step'[r] \in {"persist", "link"} /\ req'[r] = req[r]
         /\ UNCHANGED <<db, open>>
  <1> DEFINE s == req[r].subject
             self == req[r].kind = "self"
             t == IF self THEN "persist" ELSE "link"
  <1>1. InTransaction(r)
    BY DEF Create, InTransaction
  <1>2. /\ tx.db = Image(r) /\ s \in Ids /\ Image(r) \in Databases
        /\ step[r] = "create"
    BY <1>1, Stages, ImageTyped DEF Create, InTransaction
  <1>3. /\ Written(r) = IF self THEN {} ELSE {"stored"}
        /\ db.account[s] \in IF self THEN {"none"} ELSE {"none", "same"}
    <2>1. Written(r) = IF self THEN {} ELSE {"stored"}
      BY <1>2 DEF Written
    <2>2. Image(r).account = db.account
      BY <2>1 DEF Image
    <2>3. db.account[s] \in Accounts
      BY <1>2 DEF TypeOK, Databases
    <2>4. QED
      BY <1>2, <2>1, <2>2, <2>3 DEF Create, Accounts
  <1>4. Created(r) \in Databases
    BY <1>2 DEF Created, Databases, Accounts
  <1>5. /\ TypeOK' /\ Alone(r) /\ step'[r] = t /\ req'[r] = req[r]
        /\ tx' = [by |-> r, db |-> Created(r)] /\ UNCHANGED <<db, open>> /\ Holder' = r
    <2>1. t \in {"create", "persist", "link", "grant", "commit"} /\ Writes(r, Created(r), t)
      BY DEF Create
    <2>2. QED
      BY <1>1, <1>4, <2>1, WritesTyped
  <1>6. Written(r)' = IF self THEN {"account"} ELSE {"stored", "account"}
    <2>1. CASE self
      BY <1>5, <2>1 DEF Written
    <2>2. CASE ~self
      BY <1>5, <2>2 DEF Written
    <2>3. QED
      BY <2>1, <2>2
  <1>7. Image(r)' = Created(r)
    <2>1. tx.db = [account |-> db.account, linked |-> db.linked,
                 stored |-> IF self THEN db.stored ELSE db.stored \cup {s}, granted |-> db.granted]
      BY <1>2, <1>3 DEF Image
    <2>2. Image(r)' = [account |-> [db.account EXCEPT ![s] = "same"], linked |-> db.linked,
                 stored |-> IF self THEN db.stored ELSE db.stored \cup {s}, granted |-> db.granted]
      BY <1>5, <1>6 DEF Image
    <2>3. QED
      BY <2>1, <2>2 DEF Created
  <1>8. Staged'
    <2>1. step'[r] \in IF self THEN {"create", "persist", "grant", "commit"}
                       ELSE {"save", "create", "link", "grant", "commit"}
      BY <1>5
    <2>2. "linked" \notin Written(r)'
      BY <1>6
    <2>3. "account" \in Written(r)' => db'.account[s] \in IF self THEN {"none"} ELSE {"none", "same"}
      BY <1>3, <1>5
    <2>4. QED
      BY <1>5, <1>7, <2>1, <2>2, <2>3, StagedByOne
  <1>9. QED
    BY <1>5, <1>8

LEMMA PersistStages ==
  ASSUME TypeOK, Staged, NEW r \in Requests, Persist(r)
  PROVE  TypeOK' /\ Staged' /\ Alone(r) /\ step'[r] \in {"grant"} /\ req'[r] = req[r]
         /\ UNCHANGED <<db, open>>
  <1> DEFINE s == req[r].subject
             self == req[r].kind = "self"
  <1>1. InTransaction(r)
    BY DEF Persist, InTransaction
  <1>2. /\ tx.db = Image(r) /\ s \in Ids /\ Image(r) \in Databases
        /\ step[r] = "persist" /\ self
    BY <1>1, Stages, ImageTyped DEF Persist, InTransaction
  <1>3. /\ Written(r) = {"account"}
        /\ db.account[s] = "none"
    BY <1>1, <1>2, Stages DEF Persist, Written
  <1>4. Saved(r) \in Databases
    BY <1>2 DEF Saved, Databases, Accounts
  <1>5. /\ TypeOK' /\ Alone(r) /\ step'[r] = "grant" /\ req'[r] = req[r]
        /\ tx' = [by |-> r, db |-> Saved(r)] /\ UNCHANGED <<db, open>> /\ Holder' = r
    BY <1>1, <1>2, <1>4, WritesTyped DEF Persist
  <1>6. Written(r)' = {"account", "stored"}
    BY <1>2, <1>5 DEF Written
  <1>7. Image(r)' = Saved(r)
    <2>1. tx.db = [account |-> [db.account EXCEPT ![s] = "same"], linked |-> db.linked,
                 stored |-> db.stored, granted |-> db.granted]
      BY <1>2, <1>3 DEF Image
    <2>2. Image(r)' = [account |-> [db.account EXCEPT ![s] = "same"], linked |-> db.linked,
                 stored |-> db.stored \cup {s}, granted |-> db.granted]
      BY <1>5, <1>6 DEF Image
    <2>3. QED
      <3>1. [tx.db EXCEPT !.stored = @ \cup {s}] =
              [account |-> [db.account EXCEPT ![s] = "same"], linked |-> db.linked,
               stored |-> db.stored \cup {s}, granted |-> db.granted]
        BY <2>1, AddsMember
      <3>2. QED
        BY <2>2, <3>1 DEF Saved
  <1>8. Staged'
    BY <1>1, <1>2, <1>3, <1>5, <1>6, <1>7, Stages, StagedByOne
  <1>9. QED
    BY <1>5, <1>8

LEMMA LinkStages ==
  ASSUME TypeOK, Staged, NEW r \in Requests, Link(r)
  PROVE  TypeOK' /\ Staged' /\ Alone(r) /\ step'[r] \in {"grant"} /\ req'[r] = req[r]
         /\ UNCHANGED <<db, open>>
  <1> DEFINE s == req[r].subject
             self == req[r].kind = "self"
  <1>1. InTransaction(r)
    BY DEF Link, InTransaction
  <1>2. /\ tx.db = Image(r) /\ s \in Ids /\ Image(r) \in Databases
        /\ step[r] = "link" /\ ~self
    BY <1>1, Stages, ImageTyped DEF Link, InTransaction
  <1>3. /\ Written(r) = {"stored", "account"}
        /\ db.account[s] \in {"none", "same"} /\ db.linked[s] \in {None, s}
    <2>1. Written(r) = {"stored", "account"}
      BY <1>2 DEF Written
    <2>2. Image(r).linked = db.linked
      BY <2>1 DEF Image
    <2>3. QED
      BY <1>1, <1>2, <2>1, <2>2, Stages DEF Link
  <1>4. [tx.db EXCEPT !.linked[s] = s] \in Databases
    BY <1>2 DEF Databases, Accounts
  <1>5. /\ TypeOK' /\ Alone(r) /\ step'[r] = "grant" /\ req'[r] = req[r]
        /\ tx' = [by |-> r, db |-> [tx.db EXCEPT !.linked[s] = s]] /\ UNCHANGED <<db, open>> /\ Holder' = r
    BY <1>1, <1>2, <1>4, WritesTyped DEF Link
  <1>6. Written(r)' = {"stored", "account", "linked"}
    BY <1>2, <1>5 DEF Written
  <1>7. Image(r)' = [tx.db EXCEPT !.linked[s] = s]
    <2>1. tx.db = [account |-> [db.account EXCEPT ![s] = "same"], linked |-> db.linked,
                 stored |-> db.stored \cup {s}, granted |-> db.granted]
      BY <1>2, <1>3 DEF Image
    <2>2. Image(r)' = [account |-> [db.account EXCEPT ![s] = "same"], linked |-> [db.linked EXCEPT ![s] = s],
                 stored |-> db.stored \cup {s}, granted |-> db.granted]
      BY <1>5, <1>6 DEF Image
    <2>3. QED
      BY <2>1, <2>2
  <1>8. Staged'
    BY <1>1, <1>2, <1>3, <1>5, <1>6, <1>7, Stages, StagedByOne
  <1>9. QED
    BY <1>5, <1>8

LEMMA GrantStages ==
  ASSUME TypeOK, Staged, NEW r \in Requests, Grant(r)
  PROVE  TypeOK' /\ Staged' /\ Alone(r) /\ step'[r] \in {"commit"} /\ req'[r] = req[r]
         /\ UNCHANGED <<db, open>>
  <1> DEFINE s == req[r].subject
             self == req[r].kind = "self"
  <1>1. InTransaction(r)
    BY DEF Grant, InTransaction
  <1>2. /\ tx.db = Image(r) /\ s \in Ids /\ Image(r) \in Databases
        /\ step[r] = "grant"
    BY <1>1, Stages, ImageTyped DEF Grant, InTransaction
  <1>3. /\ Written(r) = IF self THEN {"account", "stored"} ELSE {"stored", "account", "linked"}
        /\ db.account[s] \in IF self THEN {"none"} ELSE {"none", "same"}
        /\ ~self => db.linked[s] \in {None, s}
    BY <1>1, <1>2, Stages DEF Grant, Written
  <1>4. [tx.db EXCEPT !.granted = @ \cup {s}] \in Databases
    BY <1>2 DEF Databases, Accounts
  <1>5. /\ TypeOK' /\ Alone(r) /\ step'[r] = "commit" /\ req'[r] = req[r]
        /\ tx' = [by |-> r, db |-> [tx.db EXCEPT !.granted = @ \cup {s}]] /\ UNCHANGED <<db, open>> /\ Holder' = r
    BY <1>1, <1>2, <1>4, WritesTyped DEF Grant
  <1>6. Written(r)' = IF self THEN {"account", "stored", "granted"} ELSE {"stored", "account", "linked", "granted"}
    BY <1>2, <1>5 DEF Written
  <1>7. Image(r)' = [tx.db EXCEPT !.granted = @ \cup {s}]
    <2> DEFINE account == [db.account EXCEPT ![s] = "same"]
               linked == IF self THEN db.linked ELSE [db.linked EXCEPT ![s] = s]
               stored == db.stored \cup {s}
    <2>1. tx.db = [account |-> account, linked |-> linked, stored |-> stored, granted |-> db.granted]
      BY <1>2, <1>3 DEF Image
    <2>2. Image(r)' = [account |-> account, linked |-> linked, stored |-> stored,
                       granted |-> db.granted \cup {s}]
      <3>1. CASE self
        BY <1>5, <1>6, <3>1 DEF Image
      <3>2. CASE ~self
        BY <1>5, <1>6, <3>2 DEF Image
      <3>3. QED
        BY <3>1, <3>2
    <2> HIDE DEF account, linked, stored
    <2>3. [tx.db EXCEPT !.granted = @ \cup {s}] =
            [account |-> account, linked |-> linked, stored |-> stored,
             granted |-> db.granted \cup {s}]
      BY <2>1, AddsMember
    <2>4. QED
      BY <2>2, <2>3
  <1>8. Staged'
    BY <1>1, <1>2, <1>3, <1>5, <1>6, <1>7, Stages, StagedByOne
  <1>9. QED
    BY <1>5, <1>8

----------------------------------------------------------------------------
(* The transaction begins and ends *)

LEMMA StagedFree == ASSUME tx' = None PROVE Staged'
  BY NoneAssumption DEF Staged, Holder

LEMMA BeginStages ==
  ASSUME TypeOK, NEW r \in Requests, Begin(r)
  PROVE  TypeOK' /\ Staged' /\ Alone(r) /\ step'[r] \in {"create", "save"}
         /\ UNCHANGED <<db, open>>
  <1> DEFINE t == IF req[r].kind = "self" THEN "create" ELSE "save"
  <1>1. step[r] # "idle" /\ t \in Steps \ {"idle"} /\ Go(r, t)
        /\ tx = None /\ UNCHANGED <<db, open, req, session>>
    BY DEF Begin, Steps
  <1>2. RequestsTyped' /\ Alone(r) /\ step'[r] = t /\ req'[r] = req[r]
    BY <1>1, Proceeds
  <1>3. tx' = [by |-> r, db |-> db] /\ db \in Databases
    BY DEF Begin, TypeOK
  <1>4. tx' # None /\ Holder' = r
    BY <1>3, NoneAssumption DEF Holder
  <1>5. StoreTyped'
    BY <1>1, <1>3, TypeParts DEF StoreTyped
  <1>6. HoldersTyped'
    <2>1. \A q \in Requests : ~InTransaction(q)
      BY <1>1, NobodyHolds, TypeParts DEF HoldersTyped
    <2>2. QED
      BY <1>2, <1>4, <2>1 DEF HoldersTyped, InTransaction, Alone
  <1>7. Staged'
    <2>1. Written(r)' = {}
      BY <1>2 DEF Written
    <2>2. Image(r)' = [account |-> db.account, linked |-> db.linked,
                       stored |-> db.stored, granted |-> db.granted]
      BY <1>1, <2>1 DEF Image
    <2>3. tx'.db = Image(r)'
      BY <1>3, <2>2 DEF Databases
    <2>4. step'[r] \in IF req'[r].kind = "self" THEN {"create", "persist", "grant", "commit"}
                       ELSE {"save", "create", "link", "grant", "commit"}
      BY <1>2
    <2>5. QED
      BY <1>4, <2>1, <2>3, <2>4, StagedByOne
  <1>8. QED
    BY <1>1, <1>2, <1>5, <1>6, <1>7, TypePartsNext

\* What a commit makes of the database.
Owner(r) == IF req[r].kind = "self" THEN db.linked[req[r].subject] ELSE req[r].subject

LEMMA Commits ==
  ASSUME TypeOK, Staged, NEW r \in Requests, Commit(r)
  PROVE  LET s == req[r].subject
             self == req[r].kind = "self" IN
         /\ s \in Ids
         /\ db.account[s] \in IF self THEN {"none"} ELSE {"none", "same"}
         /\ ~self => db.linked[s] \in {None, s}
         /\ db'.account = [db.account EXCEPT ![s] = "same"]
         /\ db'.linked = [db.linked EXCEPT ![s] = Owner(r)]
         /\ db'.stored = db.stored \cup {s}
         /\ db'.granted = db.granted \cup {s}
         /\ db' \in Databases
  <1> DEFINE s == req[r].subject
             self == req[r].kind = "self"
  <1>1. InTransaction(r) /\ step[r] = "commit" /\ db' = tx.db
    BY DEF Commit, InTransaction
  <1>2. /\ db' = Image(r) /\ s \in Ids /\ Image(r) \in Databases
    BY <1>1, Stages, ImageTyped DEF InTransaction
  <1>3. Written(r) = IF self THEN {"account", "stored", "granted"}
                     ELSE {"stored", "account", "linked", "granted"}
    BY <1>1 DEF Written
  <1>4. /\ db.account[s] \in IF self THEN {"none"} ELSE {"none", "same"}
        /\ ~self => db.linked[s] \in {None, s}
    BY <1>1, <1>3, Stages
  <1>5. /\ db'.account = [db.account EXCEPT ![s] = "same"]
        /\ db'.stored = db.stored \cup {s}
        /\ db'.granted = db.granted \cup {s}
    BY <1>2, <1>3 DEF Image
  <1>6. db'.linked = [db.linked EXCEPT ![s] = Owner(r)]
    <2>1. CASE self
      <3>1. db'.linked = db.linked
        BY <1>2, <1>3, <2>1 DEF Image
      <3>2. db.linked = [db.linked EXCEPT ![s] = db.linked[s]]
        BY <1>2 DEF TypeOK, Databases
      <3>3. QED
        BY <2>1, <3>1, <3>2 DEF Owner
    <2>2. CASE ~self
      BY <1>2, <1>3, <2>2 DEF Image, Owner
    <2>3. QED
      BY <2>1, <2>2
  <1>7. QED
    BY <1>2, <1>4, <1>5, <1>6

\* A step that ends the transaction, or finds none and opens none.
LEMMA NoTransaction ==
  ASSUME StoreTyped', RequestsTyped', tx' = None, \A q \in Requests : ~InTransaction(q)'
  PROVE  TypeOK' /\ Staged'
  BY StagedFree, TypePartsNext DEF HoldersTyped

LEMMA CommitTyped ==
  ASSUME TypeOK, Staged, NEW r \in Requests, Commit(r)
  PROVE  TypeOK' /\ Staged' /\ Alone(r) 
         /\ \/ step'[r] = "idle" /\ open' = open \ {r}
            \/ /\ req[r].kind # "self" /\ step'[r] = "drain" /\ req'[r] = req[r]
               /\ open' = open
  <1> DEFINE s == req[r].subject
  <1>1. InTransaction(r) /\ tx' = None /\ step[r] # "idle"
    BY DEF Commit, InTransaction
  <1>2. /\ RequestsTyped' /\ Alone(r)
        /\ \/ step'[r] = "idle" /\ open' = open \ {r}
           \/ /\ req[r].kind # "self" /\ step'[r] = "drain" /\ req'[r] = req[r]
              /\ open' = open
    <2>1. CASE req[r].kind = "self"
      BY <2>1, Finishes DEF Commit
    <2>2. CASE req[r].kind # "self"
      <3>1. Go(r, "drain") /\ UNCHANGED <<open, req, session>>
        BY <2>2 DEF Commit
      <3>2. QED
        BY <1>1, <2>2, <3>1, Proceeds DEF Steps
    <2>3. QED
      BY <2>1, <2>2
  <1>3. \A q \in Requests : ~InTransaction(q)'
    BY <1>1, <1>2 DEF TypeOK, InTransaction, Alone
  <1>4. StoreTyped'
    <2>1. \A p \in Ids : db'.linked[p] # None => db'.account[db'.linked[p]] # "none"
      <3>1. /\ s \in Ids
            /\ db'.account = [db.account EXCEPT ![s] = "same"]
            /\ db'.linked = [db.linked EXCEPT ![s] = Owner(r)]
        BY Commits
      <3>2. \A p \in Ids : db'.linked[p] \in {s, db.linked[p]}
        BY <3>1 DEF Owner, TypeOK, Databases
      <3>3. QED
        BY <3>1, <3>2 DEF TypeOK, Databases
    <2>2. QED
      BY <1>1, <2>1, Commits DEF StoreTyped
  <1>5. QED
    BY <1>1, <1>2, <1>3, <1>4, NoTransaction

LEMMA FinishStages ==
  ASSUME TypeOK, Staged, NEW r \in Requests, Finish(r), db' = db,
         tx' = tx \/ (tx' = None /\ Holder = r)
  PROVE  TypeOK' /\ Staged'
  <1>1. RequestsTyped' /\ Alone(r) /\ step'[r] = "idle"
    BY Finishes
  <1>2. StoreTyped'
    BY TypeParts DEF StoreTyped
  <1>3. CASE tx' = tx
    <2>1. HoldersTyped'
      BY <1>1, <1>3 DEF TypeOK, HoldersTyped, InTransaction, Alone, Holder
    <2>2. Staged'
      BY <1>1, <1>3 DEF Staged, Alone, Holder, Image, Written
    <2>3. QED
      BY <1>1, <1>2, <2>1, <2>2, TypePartsNext
  <1>4. CASE tx' = None /\ Holder = r
    <2>1. \A q \in Requests : ~InTransaction(q)'
      BY <1>1, <1>4 DEF TypeOK, InTransaction, Alone
    <2>2. QED
      BY <1>1, <1>2, <1>4, <2>1, NoTransaction
  <1>5. QED
    BY <1>3, <1>4

\* A step of a request that has no transaction.
LEMMA OutsideStages ==
  ASSUME TypeOK, Staged, NEW r \in Requests, Holder # r, RequestsTyped', Alone(r),
         ~InTransaction(r)', UNCHANGED <<db, tx>>
  PROVE  TypeOK' /\ Staged'
  <1>1. StoreTyped'
    BY TypeParts DEF StoreTyped
  <1>2. HoldersTyped'
    BY DEF TypeOK, HoldersTyped, InTransaction, Alone, Holder
  <1>3. Staged'
    BY DEF Staged, Alone, Holder, Image, Written
  <1>4. QED
    BY <1>1, <1>2, <1>3, TypePartsNext

LEMMA OutsideHolds ==
  ASSUME Staged, NEW r \in Requests, step[r] \in {"begin", "drain", "hooks", "linking"}
  PROVE  Holder # r
  BY DEF Staged

----------------------------------------------------------------------------
(* Every step *)

After == {"drain", "hooks", "linking"}

\* Who has yet to enter an account had to do so before the step, or its subject has an
\* active account now.
Entering ==
  \A r \in Requests : step'[r] \in After /\ "login" \in req'[r].todo =>
    \/ step[r] \in After /\ "login" \in req[r].todo
    \/ \E h \in Held(db', req'[r].subject) : h[2]

Kept == TypeOK' /\ Staged' /\ Attended' /\ Entering

LEMMA AttendedByOne ==
  ASSUME Attended, NEW r \in Requests, Alone(r), open \ {r} \subseteq open',
         step'[r] = "idle" \/ r \in open'
  PROVE  Attended'
  BY DEF Attended, Alone

LEMMA EnteringByOne ==
  ASSUME NEW r \in Requests, Alone(r),
         \/ step'[r] \notin After
         \/ step[r] \in After /\ req'[r].todo \subseteq req[r].todo
  PROVE  Entering
  BY DEF Entering, Alone

LEMMA WorksKept ==
  ASSUME TypeOK, Staged, Attended, NEW r \in Requests, step[r] # "idle", Alone(r),
         TypeOK', Staged', UNCHANGED open,
         \/ step'[r] \notin After
         \/ step[r] \in After /\ req'[r].todo \subseteq req[r].todo
  PROVE  Kept
  <1>1. r \in open
    BY DEF Attended
  <1>2. QED
    BY <1>1, AttendedByOne, EnteringByOne DEF Kept

LEMMA FinishKept ==
  ASSUME TypeOK, Staged, Attended, NEW r \in Requests, Finish(r), db' = db,
         tx' = tx \/ (tx' = None /\ Holder = r)
  PROVE  Kept
  <1>1. TypeOK' /\ Staged'
    BY FinishStages
  <1>2. Alone(r) /\ step'[r] = "idle" /\ open' = open \ {r}
    BY Finishes
  <1>3. QED
    BY <1>1, <1>2, AttendedByOne, EnteringByOne DEF Kept, After

LEMMA StartKept ==
  ASSUME TypeOK, Staged, Attended, NEW r \in Requests, NEW s \in Ids, NEW c \in Ids,
         Login(r, s, c) \/ Register(r, s) \/ SelfRegister(r, s)
  PROVE  Kept
  <1>1. CASE Login(r, s, c)
    <2>1. /\ RequestsTyped' /\ Alone(r)
          /\ step[r] = "idle" /\ Holder # r
          /\ step'[r] = "hooks" /\ req'[r].subject = s /\ r \in open' /\ open \subseteq open'
          /\ UNCHANGED <<db, tx, session>>
      BY <1>1, Starts DEF Login, Kinds, Steps
    <2>2. TypeOK' /\ Staged'
      BY <2>1, OutsideStages DEF InTransaction
    <2>3. Attended'
      BY <2>1, AttendedByOne
    <2>4. \E h \in Held(db', s) : h[2]
      <3>1. db.linked[s] # None /\ db.account[db.linked[s]] # "disabled"
        BY <1>1 DEF Login, AuthUser
      <3>2. <<db'.linked[s], TRUE>> \in Held(db', s)
        BY <2>1, <3>1, Zenon DEF Held
      <3>3. QED
        BY <3>2
    <2>5. Entering
      BY <2>1, <2>4 DEF Entering, Alone
    <2>6. QED
      BY <2>2, <2>3, <2>5 DEF Kept
  <1>2. CASE Register(r, s) \/ SelfRegister(r, s)
    <2>1. /\ RequestsTyped' /\ Alone(r)
          /\ step[r] = "idle" /\ Holder # r
          /\ step'[r] = "begin" /\ r \in open' /\ open \subseteq open'
          /\ UNCHANGED <<db, tx, session>>
      BY <1>2, Starts DEF Register, SelfRegister, Kinds, Steps
    <2>2. TypeOK' /\ Staged'
      BY <2>1, OutsideStages DEF InTransaction
    <2>3. Attended' /\ Entering
      BY <2>1, AttendedByOne, EnteringByOne DEF After
    <2>4. QED
      BY <2>2, <2>3 DEF Kept
  <1>3. QED
    BY <1>1, <1>2

LEMMA CommitKept ==
  ASSUME TypeOK, Staged, Attended, NEW r \in Requests, Commit(r)
  PROVE  Kept
  <1> DEFINE s == req[r].subject
  <1>1. /\ TypeOK' /\ Staged' /\ Alone(r) 
        /\ \/ step'[r] = "idle" /\ open' = open \ {r}
           \/ /\ req[r].kind # "self" /\ step'[r] = "drain" /\ req'[r] = req[r]
              /\ open' = open
    BY CommitTyped
  <1>2. r \in open
    BY DEF Attended, Commit
  <1>3. Attended'
    BY <1>1, <1>2, AttendedByOne
  <1>4. CASE step'[r] = "idle"
    BY <1>1, <1>3, <1>4, EnteringByOne DEF Kept, After
  <1>5. CASE req[r].kind # "self" /\ req'[r] = req[r]
    <2>1. s \in Ids /\ db'.linked[s] = s /\ db'.account[s] = "same"
      <3>1. /\ s \in Ids
            /\ db'.account = [db.account EXCEPT ![s] = "same"]
            /\ db'.linked = [db.linked EXCEPT ![s] = Owner(r)]
        BY Commits
      <3>2. QED
        BY <1>5, <3>1 DEF Owner, TypeOK, Databases
    <2>2. Held(db', req'[r].subject) = {<<s, TRUE>>}
      <3>1. s # None
        BY <2>1, NoneAssumption
      <3>2. ("same" # "disabled") = TRUE
        OBVIOUS
      <3>3. QED
        BY <1>5, <2>1, <3>1, <3>2, Zenon DEF Held
    <2>3. \E h \in Held(db', req'[r].subject) : h[2]
      BY <2>2
    <2>4. Entering
      BY <1>1, <2>3 DEF Entering, Alone
    <2>5. QED
      BY <1>1, <1>3, <2>4 DEF Kept
  <1>6. QED
    BY <1>1, <1>4, <1>5

\* The hooks after a ceremony.
LEMMA HookKept ==
  ASSUME TypeOK, Staged, Attended, NEW r \in Requests, ResolveLink(r) \/ WritePrincipal(r)
  PROVE  Kept
  <1>1. step[r] = "hooks" /\ UNCHANGED <<db, tx, open>> /\ Holder # r
    BY OutsideHolds DEF ResolveLink, WritePrincipal
  <1>2. PICK hook \in Hooks : req' = [req EXCEPT ![r] = [req[r] EXCEPT !.todo = @ \ {hook}]]
    BY DEF ResolveLink, WritePrincipal, Done, Hooks
  <1> DEFINE q == [req[r] EXCEPT !.todo = @ \ {hook}]
  <1>3. q \in Locals /\ q.todo \subseteq req[r].todo
    <2>1. req[r] \in Locals
      BY <1>1, Running
    <2>2. QED
      BY <2>1 DEF Locals
  <1>4. /\ RequestsTyped' /\ Alone(r) /\ req'[r] = q
        /\ step'[r] \in {"hooks", "linking"}
    <2>1. CASE ResolveLink(r)
      <3>1. PICK t \in {"hooks", "linking"} : Go(r, t)
        BY <2>1 DEF ResolveLink
      <3>2. t \in Steps \ {"idle"}
        BY DEF Steps
      <3>3. UNCHANGED <<open, session>> /\ req' = [req EXCEPT ![r] = q]
        BY <1>2, <2>1 DEF ResolveLink
      <3>4. QED
        BY <1>3, <3>1, <3>2, <3>3, GoesOn
    <2>2. CASE WritePrincipal(r)
      <3>1. UNCHANGED <<open, step>>
        BY <2>2 DEF WritePrincipal
      <3>2. db.linked[req[r].subject] \in Ids
        <4>1. req[r].subject \in Ids
          BY <1>1, Running DEF Locals
        <4>2. QED
          BY <2>2, <4>1 DEF WritePrincipal, TypeOK, Databases
      <3>3. session' = [session EXCEPT ![r] = db.linked[req[r].subject]]
        BY <2>2 DEF WritePrincipal
      <3>4. QED
        BY <1>1, <1>2, <1>3, <3>1, <3>2, <3>3, IdleIsNoLocals
           DEF TypeOK, RequestsTyped, Alone
    <2>3. QED
      BY <2>1, <2>2
  <1>5. TypeOK' /\ Staged'
    BY <1>1, <1>4, OutsideStages DEF InTransaction
  <1>6. QED
    BY <1>1, <1>3, <1>4, <1>5, WorksKept DEF After

LEMMA RelinkKept ==
  ASSUME TypeOK, Staged, Attended, NEW r \in Requests, Relink(r)
  PROVE  Kept
  <1> DEFINE s == req[r].subject
  <1>1. step[r] = "linking" /\ tx = None /\ tx' = None /\ UNCHANGED <<open, req, session>>
        /\ Go(r, "hooks") /\ db.account[s] # "none" /\ db.linked[s] \in {None, s}
        /\ db' = [db EXCEPT !.linked[s] = s]
    BY DEF Relink
  <1>2. RequestsTyped' /\ Alone(r) /\ step'[r] = "hooks" /\ req'[r] = req[r]
    BY <1>1, Proceeds DEF Steps
  <1>3. s \in Ids
    BY <1>1, Running DEF Locals
  <1>4. StoreTyped'
    BY <1>1, <1>3 DEF TypeOK, StoreTyped, Databases
  <1>5. \A q \in Requests : ~InTransaction(q)'
    <2>1. \A q \in Requests : ~InTransaction(q)
      BY <1>1, NobodyHolds, TypeParts DEF HoldersTyped
    <2>2. QED
      BY <1>2, <2>1 DEF InTransaction, Alone
  <1>6. TypeOK' /\ Staged'
    BY <1>1, <1>2, <1>4, <1>5, NoTransaction
  <1>7. QED
    BY <1>1, <1>2, <1>6, WorksKept DEF After

LEMMA CancelKept ==
  ASSUME TypeOK, Staged, Attended, NEW r \in Requests, Cancel(r)
  PROVE  Kept
  <1> DEFINE q == [req[r] EXCEPT !.cancelled = TRUE]
  <1>1. step[r] # "idle" /\ req' = [req EXCEPT ![r] = q]
        /\ UNCHANGED <<db, tx, open, step, session>>
    BY DEF Cancel
  <1>2. q \in Locals /\ q.kind = req[r].kind /\ q.subject = req[r].subject /\ q.todo = req[r].todo
    <2>1. req[r] \in Locals
      BY <1>1, Running
    <2>2. QED
      BY <2>1 DEF Locals
  <1>3. Alone(r) /\ req'[r] = q /\ step'[r] = step[r]
    BY <1>1 DEF TypeOK, Alone
  <1>4. RequestsTyped'
    BY <1>1, <1>2, IdleIsNoLocals DEF TypeOK, RequestsTyped
  <1>5. StoreTyped'
    BY <1>1, TypeParts DEF StoreTyped
  <1>6. HoldersTyped'
    BY <1>1 DEF TypeOK, HoldersTyped, InTransaction, Holder
  <1>7. Staged'
    <2>1. \A p \in Requests : Written(p)' = Written(p) /\ Image(p)' = Image(p)
            /\ req'[p].kind = req[p].kind /\ req'[p].subject = req[p].subject
      <3>1. \A p \in Requests : step'[p] = step[p]
              /\ req'[p].kind = req[p].kind /\ req'[p].subject = req[p].subject
        BY <1>1, <1>2, <1>3 DEF Alone
      <3>2. \A p \in Requests : Written(p)' = Written(p)
        BY <3>1 DEF Written
      <3>3. ASSUME NEW p \in Requests PROVE Image(p)' = Image(p)
        <4>1. Written(p)' = Written(p) /\ req'[p].subject = req[p].subject /\ db' = db
          BY <1>1, <3>1, <3>2
        <4>2. QED
          BY <4>1 DEF Image
      <3>4. QED
        BY <3>1, <3>2, <3>3
    <2>2. QED
      BY <1>1, <2>1 DEF Staged, Holder
  <1>8. TypeOK'
    BY <1>4, <1>5, <1>6, TypePartsNext
  <1>9. QED
    BY <1>1, <1>2, <1>3, <1>7, <1>8, WorksKept

LEMMA AdministerKept ==
  ASSUME TypeOK, Staged, Attended, NEW d \in Databases, Administer(d),
         \A s \in Ids : d.linked[s] # None => d.account[d.linked[s]] # "none"
  PROVE  Kept
  <1>1. tx = None /\ tx' = None /\ db' = d /\ UNCHANGED <<open, step, req, session>>
    BY DEF Administer, requestVars
  <1>2. StoreTyped' /\ RequestsTyped'
    BY <1>1, TypeParts DEF StoreTyped, RequestsTyped
  <1>3. \A q \in Requests : ~InTransaction(q)'
    BY <1>1, NobodyHolds, TypeParts DEF HoldersTyped, InTransaction
  <1>4. TypeOK' /\ Staged'
    BY <1>1, <1>2, <1>3, NoTransaction
  <1>5. Attended' /\ Entering
    BY <1>1 DEF Attended, Entering
  <1>6. QED
    BY <1>4, <1>5 DEF Kept

LEMMA CrashKept ==
  ASSUME TypeOK, Crash
  PROVE  Kept
  <1>1. StoreTyped' /\ RequestsTyped'
    BY DEF Crash, TypeOK, StoreTyped, RequestsTyped, Steps
  <1>2. \A q \in Requests : step'[q] = "idle"
    BY DEF Crash
  <1>3. TypeOK' /\ Staged'
    BY <1>1, <1>2, NoTransaction DEF Crash, InTransaction
  <1>4. QED
    BY <1>2, <1>3 DEF Kept, Attended, Entering, After

LEMMA CloseKept ==
  ASSUME TypeOK, Staged, Attended, NEW r \in Requests, CloseConnection(r)
  PROVE  Kept
  <1>1. Holder = r /\ step[r] = "idle" /\ tx' = None
        /\ UNCHANGED <<db, open, step, req, session>>
    BY DEF CloseConnection, requestVars
  <1>2. StoreTyped' /\ RequestsTyped'
    BY <1>1, TypeParts DEF StoreTyped, RequestsTyped
  <1>3. \A q \in Requests : ~InTransaction(q)'
    BY <1>1 DEF TypeOK, InTransaction
  <1>4. TypeOK' /\ Staged'
    BY <1>1, <1>2, <1>3, NoTransaction
  <1>5. QED
    BY <1>1, <1>4 DEF Kept, Attended, Entering

LEMMA StepKept == ASSUME TypeOK, Staged, Attended, Step PROVE Kept
  <1>1. ASSUME NEW r \in Requests, NEW s \in Ids, NEW c \in Ids, Login(r, s, c) PROVE Kept
    BY <1>1, StartKept
  <1>2. ASSUME NEW r \in Requests, NEW s \in Ids, Register(r, s) \/ SelfRegister(r, s)
        PROVE  Kept
    BY <1>2, StartKept
  <1>3. ASSUME NEW r \in Requests, Begin(r) PROVE Kept
    BY <1>3, BeginStages, WorksKept DEF Begin, After
  <1>4. ASSUME NEW r \in Requests, Save(r) PROVE Kept
    BY <1>4, SaveStages, WorksKept DEF Save, After
  <1>5. ASSUME NEW r \in Requests, Create(r) PROVE Kept
    BY <1>5, CreateStages, WorksKept DEF Create, After
  <1>6. ASSUME NEW r \in Requests, Persist(r) PROVE Kept
    BY <1>6, PersistStages, WorksKept DEF Persist, After
  <1>7. ASSUME NEW r \in Requests, Link(r) PROVE Kept
    BY <1>7, LinkStages, WorksKept DEF Link, After
  <1>8. ASSUME NEW r \in Requests, Grant(r) PROVE Kept
    BY <1>8, GrantStages, WorksKept DEF Grant, After
  <1>9. ASSUME NEW r \in Requests, Commit(r) PROVE Kept
    BY <1>9, CommitKept
  <1>10. ASSUME NEW r \in Requests, Drain(r) PROVE Kept
    <2>1. CASE req[r].cancelled
      <3>1. Finish(r) /\ db' = db /\ (tx' = tx \/ (tx' = None /\ Holder = r))
        BY <1>10, <2>1 DEF Drain
      <3>2. QED
        BY <1>10, <3>1, FinishKept
    <2>2. CASE ~req[r].cancelled
      <3>1. step[r] = "drain" /\ Go(r, "hooks") /\ UNCHANGED <<db, tx, open, req, session>>
        BY <1>10, <2>2 DEF Drain
      <3>2. RequestsTyped' /\ Alone(r) /\ step'[r] = "hooks" /\ req'[r] = req[r]
        BY <3>1, Proceeds DEF Steps
      <3>3. TypeOK' /\ Staged'
        BY <3>1, <3>2, OutsideHolds, OutsideStages DEF InTransaction
      <3>4. QED
        BY <3>1, <3>2, <3>3, WorksKept DEF After
    <2>3. QED
      BY <2>1, <2>2
  <1>11. ASSUME NEW r \in Requests, ResolveLink(r) \/ WritePrincipal(r) PROVE Kept
    BY <1>11, HookKept
  <1>12. ASSUME NEW r \in Requests, Relink(r) PROVE Kept
    BY <1>12, RelinkKept
  <1>13. ASSUME NEW r \in Requests, Fails(r) \/ Answer(r) \/ HookRaises(r) \/ Interrupt(r)
         PROVE  Kept
    <2>1. Finish(r) /\ db' = db /\ (tx' = tx \/ (tx' = None /\ Holder = r))
      <3>1. CASE Fails(r)
        BY <3>1 DEF Fails
      <3>2. CASE Answer(r) \/ HookRaises(r) \/ Interrupt(r)
        BY <3>2 DEF Answer, HookRaises, Interrupt
      <3>3. QED
        BY <1>13, <3>1, <3>2
    <2>2. QED
      BY <1>13, <2>1, FinishKept
  <1>14. ASSUME NEW r \in Requests, Cancel(r) PROVE Kept
    BY <1>14, CancelKept
  <1>15. ASSUME NEW r \in Requests, CloseConnection(r) PROVE Kept
    BY <1>15, CloseKept
  <1>16. ASSUME NEW u \in Ids, NEW kind \in Accounts, AddAccount(u, kind) PROVE Kept
    <2> DEFINE d == [db EXCEPT !.account[u] = kind]
    <2>1. Administer(d) /\ kind # "none"
      BY <1>16 DEF AddAccount
    <2>2. d \in Databases /\ \A s \in Ids : d.linked[s] # None => d.account[d.linked[s]] # "none"
      BY <2>1 DEF TypeOK, Databases
    <2>3. QED
      BY <2>1, <2>2, AdministerKept
  <1>17. ASSUME NEW u \in Ids, Disable(u) PROVE Kept
    <2> DEFINE d == [db EXCEPT !.account[u] = "disabled"]
    <2>1. Administer(d)
      BY <1>17 DEF Disable
    <2>2. d \in Databases /\ \A s \in Ids : d.linked[s] # None => d.account[d.linked[s]] # "none"
      BY DEF TypeOK, Databases, Accounts
    <2>3. QED
      BY <2>1, <2>2, AdministerKept
  <1>18. ASSUME NEW u \in Ids, Purge(u) PROVE Kept
    <2> DEFINE d == [db EXCEPT !.account[u] = "none", !.granted = @ \ {u},
                       !.linked = [s \in Ids |-> IF db.linked[s] = u THEN None ELSE db.linked[s]]]
    <2>1. Administer(d)
      BY <1>18 DEF Purge
    <2>2. d \in Databases
      BY DEF TypeOK, Databases, Accounts
    <2>3. d.account = [db.account EXCEPT ![u] = "none"] /\ d.linked =
            [s \in Ids |-> IF db.linked[s] = u THEN None ELSE db.linked[s]]
      BY DEF TypeOK, Databases
    <2>4. \A s \in Ids : d.linked[s] # None => d.account[d.linked[s]] # "none"
      BY <2>3 DEF TypeOK, Databases
    <2>5. QED
      BY <2>1, <2>2, <2>4, AdministerKept
  <1>19. ASSUME NEW s \in Ids, NEW u \in Ids, LinkTo(s, u) PROVE Kept
    <2> DEFINE d == [db EXCEPT !.linked[s] = u]
    <2>1. Administer(d) /\ db.account[u] # "none"
      BY <1>19 DEF LinkTo
    <2>2. d \in Databases /\ \A p \in Ids : d.linked[p] # None => d.account[d.linked[p]] # "none"
      BY <2>1 DEF TypeOK, Databases
    <2>3. QED
      BY <2>1, <2>2, AdministerKept
  <1>20. ASSUME Crash PROVE Kept
    BY <1>20, CrashKept
  <1>21. QED
    BY <1>1, <1>2, <1>3, <1>4, <1>5, <1>6, <1>7, <1>8, <1>9, <1>10, <1>11, <1>12, <1>13,
       <1>14, <1>15, <1>16, <1>17, <1>18, <1>19, <1>20 DEF Step, Work

LEMMA RememberedNext ==
  ASSUME Remembered, Entering, Remember
  PROVE  Remembered'
  <1> SUFFICES ASSUME NEW r \in Requests,
                      step'[r] \in {"drain", "hooks", "linking"}, "login" \in req'[r].todo
               PROVE  /\ Held(db', req'[r].subject) \subseteq seen'[r]
                      /\ \E h \in seen'[r] : h[2]
    BY DEF Remembered, Held
  <1>1. seen'[r] = seen[r] \cup Held(db', req'[r].subject)
    BY DEF Remember
  <1>2. \E h \in seen'[r] : h[2]
    BY <1>1 DEF Remembered, Entering, After
  <1>3. QED
    BY <1>1, <1>2

LEMMA InitIInv == Init => IInv
  <1> SUFFICES ASSUME Init PROVE IInv
    OBVIOUS
  <1>1. TypeOK
    BY InitTyped
  <1>2. Staged /\ Attended /\ Remembered
    BY NobodyHolds DEF Init, Staged, Attended, Remembered
  <1>3. QED
    BY <1>1, <1>2 DEF IInv

LEMMA StepIInv == IInv /\ [Next]_vars => IInv'
  <1> SUFFICES ASSUME IInv, [Next]_vars PROVE IInv'
    OBVIOUS
  <1>1. CASE Next
    <2>1. Kept
      BY <1>1, StepKept DEF IInv, Next
    <2>2. Remembered'
      BY <1>1, <2>1, RememberedNext DEF IInv, Next, Kept
    <2>3. QED
      BY <2>1, <2>2 DEF IInv, Kept
  <1>2. CASE UNCHANGED vars
    <2>1. UNCHANGED <<db, tx, open, step, req, session, seen>>
      BY <1>2 DEF vars, requestVars
    <2>2. TypeOK'
      BY <2>1 DEF IInv, TypeOK, Holder
    <2>3. Staged'
      BY <2>1 DEF IInv, Staged, Holder, Image, Written
    <2>4. Attended' /\ Remembered'
      BY <2>1 DEF IInv, Attended, Remembered, Held
    <2>5. QED
      BY <2>2, <2>3, <2>4 DEF IInv
  <1>3. QED
    BY <1>1, <1>2

THEOREM Invariance == Spec => []IInv
  BY InitIInv, StepIInv, PTL DEF Spec

\* Types; who is in a transaction holds it; no identity is linked to an account that is
\* not there, whatever registrations, links and purges overlap.
THEOREM TypeCorrect == Spec => []TypeOK
  <1>1. IInv => TypeOK
    BY DEF IInv
  <1>2. QED
    BY <1>1, Invariance, PTL

----------------------------------------------------------------------------
(* Nothing is committed for a caller that has been answered *)

LEMMA StepQuiet == IInv /\ [Next]_vars => [tx # None /\ db' # db => tx.by \in open]_vars
  <1> SUFFICES ASSUME IInv, Step, tx # None, db' # db PROVE tx.by \in open
    BY DEF Next, vars
  <1>1. PICK r \in Requests : Commit(r)
    BY DEF Step, Work, Login, Register, SelfRegister, Start, Begin, Save, Create, Persist,
           Link, Grant, Writes, Fails, Drain, ResolveLink, Relink, WritePrincipal, Answer,
           HookRaises, Cancel, Interrupt, CloseConnection, AddAccount, Disable, Purge,
           LinkTo, Administer, Crash
  <1>2. InTransaction(r) /\ step[r] # "idle"
    BY <1>1 DEF Commit, InTransaction
  <1>3. tx.by = r
    BY <1>2, Holding DEF IInv, TypeOK, InTransaction
  <1>4. QED
    BY <1>2, <1>3 DEF IInv, Attended

\* Only a commit changes the database while a transaction is open, and its request is
\* still waiting: a completion that is cancelled is drained, and a registration that was
\* interrupted has no way to its commit.
THEOREM NothingAfterAnswer == Spec => QuietAfterAnswer
  <1>1. Spec => [][tx # None /\ db' # db => tx.by \in open]_vars
    BY Invariance, StepQuiet, PTL DEF Spec
  <1>2. QED
    BY <1>1 DEF QuietAfterAnswer

----------------------------------------------------------------------------
(* A session enters an account of its subject *)

Justified ==
  \A r \in Requests :
    session'[r] # None /\ session[r] = None =>
      /\ \E h \in seen[r] : h[1] = session'[r]
      /\ \E h \in seen[r] : h[2]

LEMMA WriterJustified ==
  ASSUME IInv, NEW r \in Requests, WritePrincipal(r)
  PROVE  Justified
  <1> DEFINE s == req[r].subject
  <1>1. step[r] = "hooks" /\ "login" \in req[r].todo /\ db.linked[s] # None
        /\ session' = [session EXCEPT ![r] = db.linked[s]]
    BY DEF WritePrincipal
  <1>2. Held(db, s) \subseteq seen[r] /\ \E h \in seen[r] : h[2]
    BY <1>1 DEF IInv, Remembered
  <1>3. PICK active : Held(db, s) = {<<db.linked[s], active>>}
    BY <1>1 DEF Held
  <1>4. \E h \in seen[r] : h[1] = db.linked[s]
    BY <1>2, <1>3
  <1>5. session'[r] = db.linked[s] /\ \A q \in Requests \ {r} : session'[q] = session[q]
    BY <1>1 DEF IInv, TypeOK
  <1>6. QED
    BY <1>2, <1>4, <1>5 DEF Justified

LEMMA OthersEnterNobody ==
  ASSUME TypeOK, Step, ~ \E r \in Requests : WritePrincipal(r), NEW r \in Requests
  PROVE  session'[r] = session[r] \/ session'[r] = None
  <1>1. CASE session' = session
    BY <1>1
  <1>2. CASE \E q \in Requests : Finish(q)
    BY <1>2, Finishes DEF Alone
  <1>3. CASE Crash
    BY <1>3 DEF Crash
  <1>4. session' = session \/ (\E q \in Requests : Finish(q)) \/ Crash
    BY DEF Step, Work, Login, Register, SelfRegister, Start, Begin, Save, Create, Persist,
           Link, Grant, Writes, Commit, Fails, Drain, ResolveLink, Relink, Answer,
           HookRaises, Cancel, Interrupt, CloseConnection, AddAccount, Disable, Purge,
           LinkTo, Administer, requestVars
  <1>5. QED
    BY <1>1, <1>2, <1>3, <1>4

LEMMA StepJustified == IInv /\ [Next]_vars => [Justified]_vars
  <1> SUFFICES ASSUME IInv, Step PROVE Justified
    BY DEF Next
  <1>1. CASE \E r \in Requests : WritePrincipal(r)
    BY <1>1, WriterJustified
  <1>2. CASE ~ \E r \in Requests : WritePrincipal(r)
    BY <1>2, OthersEnterNobody DEF IInv, Justified
  <1>3. QED
    BY <1>1, <1>2

\* A login or a registration writes a session only for an account its subject was linked
\* to while the request ran, and the subject was linked to an active account in that time.
THEOREM SessionsAreJustified == Spec => LoginsJustified
  <1>1. Spec => [][Justified]_vars
    BY Invariance, StepJustified, PTL DEF Spec
  <1>2. QED
    BY <1>1 DEF LoginsJustified, Justified

----------------------------------------------------------------------------
(* Registration implements RegisteredAccounts *)

\* A commit is one registration of the abstract specification.
LEMMA CommitIsWhole ==
  ASSUME IInv, NEW r \in Requests, Commit(r)
  PROVE  LET s == req[r].subject IN
         s \in Ids /\ (Promise!Complete(s) \/ Promise!SelfRegister(s))
  <1> DEFINE s == req[r].subject
             self == req[r].kind = "self"
  <1>1. /\ s \in Ids
        /\ db.account[s] \in IF self THEN {"none"} ELSE {"none", "same"}
        /\ ~self => db.linked[s] \in {None, s}
        /\ db'.account = [db.account EXCEPT ![s] = "same"]
        /\ db'.linked = [db.linked EXCEPT ![s] = Owner(r)]
        /\ db'.stored = db.stored \cup {s}
        /\ db'.granted = db.granted \cup {s}
        /\ db' \in Databases
    BY Commits DEF IInv
  <1>2. db' = Promise!Whole(s, Owner(r))
    <2>1. db' = [account |-> db'.account, linked |-> db'.linked,
                 stored |-> db'.stored, granted |-> db'.granted]
      BY <1>1 DEF Databases
    <2>2. QED
      BY <1>1, <2>1 DEF Promise!Whole
  <1>3. CASE self
    BY <1>1, <1>2, <1>3 DEF Owner, Promise!SelfRegister
  <1>4. CASE ~self
    BY <1>1, <1>2, <1>4 DEF Owner, Promise!Complete
  <1>5. QED
    BY <1>1, <1>3, <1>4

\* The login hook and the host's administration take the steps of that name.
LEMMA OthersAreSteps ==
  ASSUME IInv, Step, db' # db, ~ \E r \in Requests : Commit(r)
  PROVE  \/ \E s, u \in Ids : Promise!LinkTo(s, u)
         \/ \E u \in Ids, kind \in {"same", "disabled"} : Promise!Administer(u, kind)
         \/ \E u \in Ids : Promise!Purge(u)
  <1>1. \/ \E r \in Requests : Relink(r)
        \/ \E u \in Ids, kind \in Accounts : AddAccount(u, kind)
        \/ \E u \in Ids : Disable(u) \/ Purge(u)
        \/ \E s, u \in Ids : LinkTo(s, u)
    BY DEF Step, Work, Login, Register, SelfRegister, Start, Begin, Save, Create, Persist,
           Link, Grant, Writes, Fails, Drain, ResolveLink, WritePrincipal, Answer,
           HookRaises, Cancel, Interrupt, CloseConnection, Crash
  <1>2. ASSUME NEW r \in Requests, Relink(r)
        PROVE  \E s, u \in Ids : Promise!LinkTo(s, u)
    <2>1. req[r].subject \in Ids
      BY <1>2, Running DEF IInv, Relink, Locals
    <2>2. Promise!LinkTo(req[r].subject, req[r].subject)
      BY <1>2 DEF Relink, Promise!LinkTo
    <2>3. QED
      BY <2>1, <2>2
  <1>3. ASSUME NEW u \in Ids, NEW kind \in Accounts, AddAccount(u, kind)
        PROVE  kind \in {"same", "disabled"} /\ Promise!Administer(u, kind)
    BY <1>3 DEF AddAccount, Administer, Accounts, Promise!Administer
  <1>4. ASSUME NEW u \in Ids, Disable(u) PROVE Promise!Administer(u, "disabled")
    BY <1>4 DEF Disable, Administer, Promise!Administer
  <1>5. ASSUME NEW u \in Ids, Purge(u) PROVE Promise!Purge(u)
    BY <1>5 DEF Purge, Administer, Promise!Purge
  <1>6. ASSUME NEW s \in Ids, NEW u \in Ids, LinkTo(s, u) PROVE Promise!LinkTo(s, u)
    BY <1>6 DEF LinkTo, Administer, Promise!LinkTo
  <1>7. QED
    BY <1>1, <1>2, <1>3, <1>4, <1>5, <1>6

LEMMA InitIsWhole == Init => Promise!Init
  BY DEF Init, Promise!Init

LEMMA StepIsWhole == IInv /\ [Next]_vars => [Promise!Next]_db
  <1> SUFFICES ASSUME IInv, Step, db' # db PROVE Promise!Next
    BY DEF Next, vars
  <1>1. CASE \E r \in Requests : Commit(r)
    <2>1. PICK r \in Requests : Commit(r)
      BY <1>1
    <2>2. QED
      BY <2>1, CommitIsWhole DEF Promise!Next
  <1>2. CASE ~ \E r \in Requests : Commit(r)
    BY <1>2, OthersAreSteps DEF Promise!Next
  <1>3. QED
    BY <1>1, <1>2

\* What is committed goes by the steps of RegisteredAccounts, however the requests of
\* any number of callers overlap, fail, are cancelled or die: a registration appears
\* whole or not at all, and no account or link that is there gives way to it.
THEOREM RegistrationsAreWhole == Spec => WholeRegistrations
  BY Invariance, InitIsWhole, StepIsWhole, PTL DEF Spec, WholeRegistrations, Promise!Spec
=============================================================================
