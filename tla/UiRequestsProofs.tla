-------------------------- MODULE UiRequestsProofs --------------------------
(***************************************************************************)
(* Proofs about UiRequests, for every set of accounts, sessions, requests  *)
(* and step-up proofs: what a request changes it may change, sessions that *)
(* have ended do not come back, and a disabled account's stay ended.       *)
(***************************************************************************)
EXTENDS UiRequests, TLAPS

----------------------------------------------------------------------------
(* The inductive invariant *)

Over(s) == sessions[s] = None \/ sessions[s].state # "current"

\* The sessions that a disabling has ended are over, or gone.
Spent == \A s \in cut : Over(s)

\* Those it is about to end are still of that account, or gone: an id is not used again.
Doomed ==
  \A r \in Requests : step[r] = "after" =>
    /\ req[r].target \in Users
    /\ ~req[r].disabled => req[r].had = {}
    /\ \A s \in req[r].had : sessions[s] = None \/ sessions[s].user = req[r].target

\* A request remembers what it has been admitted for.
Watched ==
  \A r \in Requests : step[r] \in Running =>
    /\ "live" \in seen[r]
    /\ req[r].route = "admin" /\ step[r] # "admin" => "admin" \in seen[r]
    /\ step[r] = "delete" => req[r].route = "admin"

\* A proof is in the store, or held by one deletion, or has opened one.
Proven ==
  /\ \A p \in opened : issued[p] # None /\ p \notin proofs
  /\ \A r \in Requests : step[r] = "delete" =>
       LET q == req[r] IN
       /\ q.proof \in Proofs /\ q.target \in Users /\ issued[q.proof] # None
       /\ issued[q.proof] = [sid |-> q.sid, target |-> q.target]
       /\ q.proof \notin proofs \cup opened
       /\ \A p \in Requests \ {r} : step[p] = "delete" => req[p].proof # q.proof

IInv == TypeOK /\ Spent /\ Doomed /\ Watched /\ Proven

----------------------------------------------------------------------------
(* Types, and the steps of a request *)

\* The parts of TypeOK: what is stored, and the requests.
AccountsTyped == SessionsTypeOK /\ admins \subseteq {u \in Users : status[u] # "absent"}

Owned == \A s \in Stored : status[sessions[s].user] # "absent"

ProofsTyped ==
  /\ issued \in [Proofs -> Issues \cup {None}]
  /\ proofs \subseteq {p \in Proofs : issued[p] # None}
  /\ opened \subseteq Proofs

RequestsTyped ==
  /\ step \in [Requests -> Steps] /\ req \in [Requests -> Locals \cup {None}]
  /\ \A r \in Requests : step[r] = "idle" <=> req[r] = None

LEMMA TypeParts ==
  TypeOK <=> /\ AccountsTyped /\ Owned /\ ProofsTyped /\ RequestsTyped
             /\ setup \in {"hooks", "owner", "cookie"} /\ cut \subseteq Sids
  BY DEF TypeOK, AccountsTyped, Owned, ProofsTyped, RequestsTyped

LEMMA TypePartsNext ==
  ASSUME AccountsTyped', Owned', ProofsTyped', RequestsTyped',
         setup' \in {"hooks", "owner", "cookie"}, cut' \subseteq Sids
  PROVE  TypeOK'
  BY DEF TypeOK, AccountsTyped, Owned, ProofsTyped, RequestsTyped

\* A request's locals, unless it is between two calls.
LEMMA AtWork ==
  ASSUME TypeOK, NEW r \in Requests, step[r] # "idle"
  PROVE  req[r] \in Locals
  BY DEF TypeOK

Alone(r) == \A q \in Requests \ {r} : step'[q] = step[q] /\ req'[q] = req[q]

LEMMA Moves ==
  ASSUME TypeOK, NEW r \in Requests, NEW s, Go(r, s)
  PROVE  step'[r] = s /\ \A q \in Requests \ {r} : step'[q] = step[q]
  BY DEF TypeOK, Go

LEMMA Ends ==
  ASSUME TypeOK, NEW r \in Requests, Ended(r)
  PROVE  RequestsTyped' /\ Alone(r) /\ step'[r] = "idle" /\ req'[r] = None
  BY DEF TypeOK, Ended, Go, RequestsTyped, Alone, Steps

LEMMA GoesOn ==
  ASSUME TypeOK, NEW r \in Requests, NEW t \in Steps \ {"idle"}, Go(r, t),
         NEW q \in Locals, req' = [req EXCEPT ![r] = q]
  PROVE  RequestsTyped' /\ Alone(r) /\ step'[r] = t /\ req'[r] = q
  BY NoneAssumption, Moves DEF TypeOK, Go, RequestsTyped, Alone

LEMMA Proceeds ==
  ASSUME TypeOK, NEW r \in Requests, step[r] # "idle",
         NEW t \in Steps \ {"idle"}, Proceed(r, t)
  PROVE  /\ RequestsTyped' /\ Alone(r)
         /\ \/ step'[r] = "idle"
            \/ step'[r] = t /\ req'[r] = req[r]
  <1>1. CASE Go(r, t) /\ UNCHANGED req
    <2>1. req[r] \in Locals /\ req' = [req EXCEPT ![r] = req[r]]
      BY <1>1, AtWork DEF TypeOK
    <2>2. QED
      BY <1>1, <2>1, GoesOn
  <1>2. CASE Ended(r)
    BY <1>2, Ends
  <1>3. QED
    BY <1>1, <1>2 DEF Proceed

LEMMA InitTyped == ASSUME Init PROVE TypeOK
  <1>1. PICK f \in [Sids -> Users] : sessions = [s \in Sids |-> Record(f[s])]
    BY DEF Init
  <1>2. sessions \in [Sids -> [user : Users, state : States]]
    BY <1>1 DEF Record, States
  <1>3. AccountsTyped
    BY <1>2 DEF Init, AccountsTyped, SessionsTypeOK
  <1>4. Owned
    BY <1>2 DEF Init, Owned, Stored
  <1>5. ProofsTyped /\ RequestsTyped
    BY DEF Init, ProofsTyped, RequestsTyped, Steps
  <1>6. QED
    BY <1>3, <1>4, <1>5, TypeParts DEF Init

----------------------------------------------------------------------------
(* What happens to sessions *)

SessionSet == [Sids -> [user : Users, state : States] \cup {None}]

\* A session stays as it is, ends, or goes.
Fades ==
  \A s \in Sids :
    \/ sessions'[s] = sessions[s]
    \/ sessions'[s] = None
    \/ /\ s \in Stored /\ sessions'[s] # None
       /\ sessions'[s].user = sessions[s].user /\ sessions'[s].state # "current"

LEMMA RevokedFades ==
  ASSUME TypeOK, NEW S, sessions' = Revoked(S)
  PROVE  /\ sessions' \in SessionSet /\ Fades
         /\ \A s \in Sids : s \in S => sessions'[s] = None \/ sessions'[s].state # "current"
  <1>1. sessions \in SessionSet
    BY DEF TypeOK, SessionsTypeOK, SessionSet
  <1>2. ASSUME NEW s \in Sids, s \in S, s \in Stored
        PROVE  /\ sessions'[s] \in [user : Users, state : States]
               /\ sessions'[s].user = sessions[s].user /\ sessions'[s].state = "revoked"
    <2>1. sessions[s] \in [user : Users, state : States]
      BY <1>1, <1>2 DEF SessionSet, Stored
    <2>2. sessions'[s] = [sessions[s] EXCEPT !.state = "revoked"]
      BY <1>2 DEF Revoked
    <2>3. QED
      BY <2>1, <2>2 DEF States
  <1>3. ASSUME NEW s \in Sids, ~(s \in S /\ s \in Stored)
        PROVE  sessions'[s] = sessions[s]
    BY <1>3 DEF Revoked
  <1>4. DOMAIN sessions' = Sids /\ sessions' = [s \in Sids |-> sessions'[s]]
    BY DEF Revoked
  <1>5. sessions' \in SessionSet
    BY <1>1, <1>2, <1>3, <1>4 DEF SessionSet
  <1>6. Fades
    BY <1>2, <1>3, NoneAssumption DEF Fades
  <1>7. \A s \in Sids : s \in S => sessions'[s] = None \/ sessions'[s].state # "current"
    BY <1>2, <1>3 DEF Stored
  <1>8. QED
    BY <1>5, <1>6, <1>7

LEMMA DeletedFades ==
  ASSUME TypeOK, NEW S, sessions' = Deleted(S)
  PROVE  /\ sessions' \in SessionSet /\ Fades
         /\ \A s \in Sids : s \in S => sessions'[s] = None
  BY DEF TypeOK, SessionsTypeOK, SessionSet, Fades, Deleted

LEMMA ExpiredFades ==
  ASSUME TypeOK, NEW s \in Sids, s \in Stored,
         sessions' = [sessions EXCEPT ![s].state = "expired"]
  PROVE  sessions' \in SessionSet /\ Fades
  <1>1. sessions[s] \in [user : Users, state : States]
    BY DEF TypeOK, SessionsTypeOK, Stored
  <1>2. /\ [sessions[s] EXCEPT !.state = "expired"] \in [user : Users, state : States]
        /\ [sessions[s] EXCEPT !.state = "expired"].user = sessions[s].user
        /\ [sessions[s] EXCEPT !.state = "expired"].state = "expired"
    BY <1>1 DEF States
  <1>3. sessions' = [sessions EXCEPT ![s] = [sessions[s] EXCEPT !.state = "expired"]]
    OBVIOUS
  <1>4. QED
    BY <1>2, <1>3, NoneAssumption DEF TypeOK, SessionsTypeOK, SessionSet, Fades

LEMMA UnchangedFades ==
  ASSUME TypeOK, UNCHANGED sessions
  PROVE  sessions' \in SessionSet /\ Fades
  BY DEF TypeOK, SessionsTypeOK, SessionSet, Fades

LEMMA FadesOwned ==
  ASSUME TypeOK, Fades, \A u \in Users : status[u] # "absent" => status'[u] # "absent"
  PROVE  Owned'
  <1> SUFFICES ASSUME NEW s \in Sids, sessions'[s] # None
               PROVE  status'[sessions'[s].user] # "absent"
    BY DEF Owned, Stored
  <1>1. s \in Stored /\ sessions'[s].user = sessions[s].user
    BY DEF Fades, Stored
  <1>2. sessions[s].user \in Users /\ status[sessions[s].user] # "absent"
    BY <1>1 DEF TypeOK, SessionsTypeOK, Stored
  <1>3. QED
    BY <1>1, <1>2

LEMMA FadesSpent ==
  ASSUME TypeOK, Spent, Fades, cut' \subseteq Sids,
         \A s \in cut' \ cut : Over(s)'
  PROVE  Spent'
  BY DEF Spent, Over, Fades, TypeOK

\* A request leaves the effect of a change to the next hook.
Marks(r) ==
  /\ req'[r].target \in Users /\ req'[r].had \subseteq Of(req'[r].target)
  /\ ~req'[r].disabled => req'[r].had = {}

LEMMA FadesDoomed ==
  ASSUME TypeOK, Doomed, Fades,
         \A r \in Requests : step'[r] = "after" =>
           \/ step[r] = "after" /\ req'[r] = req[r]
           \/ Marks(r)
  PROVE  Doomed'
  <1> SUFFICES ASSUME NEW r \in Requests, step'[r] = "after"
               PROVE  /\ req'[r].target \in Users
                      /\ ~req'[r].disabled => req'[r].had = {}
                      /\ \A s \in req'[r].had :
                           sessions'[s] = None \/ sessions'[s].user = req'[r].target
    BY DEF Doomed
  <1>1. CASE step[r] = "after" /\ req'[r] = req[r]
    <2>1. req[r].had \subseteq Sids
      BY <1>1, AtWork DEF Locals
    <2>2. QED
      BY <1>1, <2>1 DEF Doomed, Fades, Stored
  <1>2. CASE Marks(r)
    BY <1>2 DEF Marks, Of, Stored, Fades
  <1>3. QED
    BY <1>1, <1>2

----------------------------------------------------------------------------
(* What requests remember and hold *)

\* What brings a request to a step in which it may change something.
Advance(r) ==
  step'[r] \in Running =>
    \/ step'[r] = step[r] /\ req'[r] = req[r]
    \/ /\ step'[r] = IF req'[r].route = "admin" THEN "admin" ELSE "form"
       /\ Accepted(req[r].sid)'
    \/ /\ step[r] = "admin" /\ step'[r] = "form" /\ req'[r] = req[r]
       /\ (req[r].actor \in admins)'
    \/ /\ step[r] = "form" /\ step'[r] = "delete"
       /\ req[r].route = "admin" /\ req'[r].route = "admin"

LEMMA WatchedNext ==
  ASSUME Watched, Remember, \A r \in Requests : Advance(r)
  PROVE  Watched'
  <1> SUFFICES ASSUME NEW r \in Requests, step'[r] \in Running
               PROVE  /\ "live" \in seen'[r]
                      /\ req'[r].route = "admin" /\ step'[r] # "admin" => "admin" \in seen'[r]
                      /\ step'[r] = "delete" => req'[r].route = "admin"
    BY DEF Watched, Running
  <1>1. seen'[r] = seen[r] \cup Facts'[r]
    BY DEF Remember
  <1>2. /\ Accepted(req[r].sid)' => "live" \in Facts'[r]
        /\ (req[r].actor \in admins)' => "admin" \in Facts'[r]
    BY DEF Facts
  <1>3. CASE step'[r] = step[r] /\ req'[r] = req[r]
    BY <1>1, <1>3 DEF Watched
  <1>4. CASE /\ step'[r] = IF req'[r].route = "admin" THEN "admin" ELSE "form"
             /\ Accepted(req[r].sid)'
    BY <1>1, <1>2, <1>4
  <1>5. CASE /\ step[r] = "admin" /\ step'[r] = "form" /\ req'[r] = req[r]
             /\ (req[r].actor \in admins)'
    BY <1>1, <1>2, <1>5 DEF Watched, Running
  <1>6. CASE /\ step[r] = "form" /\ step'[r] = "delete"
             /\ req[r].route = "admin" /\ req'[r].route = "admin"
    BY <1>1, <1>6 DEF Watched, Running
  <1>7. QED
    BY <1>3, <1>4, <1>5, <1>6 DEF Advance

\* A step that neither issues nor takes a proof.
LEMMA ProvenKept ==
  ASSUME Proven, UNCHANGED proofVars,
         \A r \in Requests : step'[r] = "delete" => step[r] = "delete" /\ req'[r] = req[r]
  PROVE  Proven'
  BY DEF Proven, proofVars

Kept ==
  /\ TypeOK' /\ Spent' /\ Doomed' /\ Proven'
  /\ Fades \/ \E r \in Requests, s \in Sids : InsertSession(r, s)
  /\ \A r \in Requests : Advance(r)

\* A step of a request that neither issues nor takes a proof, nor creates a session.
LEMMA PlainKept ==
  ASSUME IInv, NEW r \in Requests, Alone(r), RequestsTyped', Fades, UNCHANGED proofVars,
         AccountsTyped', Owned', setup' = setup,
         cut' \subseteq Sids, \A s \in cut' \ cut : Over(s)',
         step'[r] # "delete",
         step'[r] = "after" => Marks(r),
         Advance(r)
  PROVE  Kept
  <1>1. ProofsTyped'
    BY TypeParts DEF IInv, ProofsTyped, proofVars
  <1>2. TypeOK'
    BY <1>1, TypeParts, TypePartsNext DEF IInv
  <1>3. Spent'
    BY FadesSpent DEF IInv
  <1>4. Doomed'
    BY FadesDoomed DEF IInv, Alone
  <1>5. Proven'
    BY ProvenKept DEF IInv, Alone
  <1>6. \A q \in Requests : Advance(q)
    BY DEF Advance, Alone
  <1>7. QED
    BY <1>2, <1>3, <1>4, <1>5, <1>6 DEF Kept

\* A step after which the request has ended.
LEMMA EndKept ==
  ASSUME IInv, NEW r \in Requests, Ended(r), Fades, UNCHANGED proofVars,
         AccountsTyped', Owned', setup' = setup,
         cut' \subseteq Sids, \A s \in cut' \ cut : Over(s)'
  PROVE  Kept
  <1>1. RequestsTyped' /\ Alone(r) /\ step'[r] = "idle"
    BY Ends DEF IInv
  <1>2. Advance(r)
    BY <1>1 DEF Advance, Running
  <1>3. QED
    BY <1>1, <1>2, PlainKept

\* A step that leaves accounts and sessions alone.
LEMMA DataKept ==
  ASSUME TypeOK, UNCHANGED <<data, setup, cut>>
  PROVE  /\ Fades /\ AccountsTyped' /\ Owned' /\ setup' = setup
         /\ cut' \subseteq Sids /\ \A s \in cut' \ cut : Over(s)'
  <1>1. UNCHANGED <<status, sessions, admins, setup, cut>>
    BY DEF data
  <1>2. Fades
    BY <1>1, UnchangedFades
  <1>3. QED
    BY <1>1, <1>2, TypeParts DEF AccountsTyped, SessionsTypeOK, Owned, Stored

----------------------------------------------------------------------------
(* Every step *)

LEMMA CurrentUserKept ==
  ASSUME IInv, NEW r \in Requests, NEW s \in Sids, NEW route \in {"admin", "own"},
         CurrentUser(r, s, route)
  PROVE  Kept
  <1> DEFINE q == [route |-> route, sid |-> s, actor |-> sessions[s].user,
                   target |-> None, proof |-> None, disabled |-> FALSE, had |-> {}]
             t == IF route = "admin" THEN "admin" ELSE "form"
  <1>1. TypeOK /\ s \in Stored /\ Accepted(s)
        /\ req' = [req EXCEPT ![r] = q] /\ Go(r, t) /\ UNCHANGED <<setup, data, proofVars, cut>>
    BY DEF IInv, CurrentUser, Begin
  <1>2. q \in Locals
    BY <1>1 DEF Locals, TypeOK, SessionsTypeOK, Stored
  <1>3. RequestsTyped' /\ Alone(r) /\ step'[r] = t /\ req'[r] = q
    BY <1>1, <1>2, GoesOn DEF Steps
  <1>4. Accepted(req[r].sid)'
    BY <1>1, <1>3 DEF Accepted, Live, Stored, data
  <1>5. Advance(r)
    BY <1>3, <1>4 DEF Advance
  <1>6. QED
    BY <1>1, <1>3, <1>5, DataKept, PlainKept

LEMMA LoginKept ==
  ASSUME IInv, NEW r \in Requests, NEW u \in Users, Login(r, u)
  PROVE  Kept
  <1> DEFINE q == [route |-> "login", sid |-> None, actor |-> u,
                   target |-> None, proof |-> None, disabled |-> FALSE, had |-> {}]
  <1>1. TypeOK /\ req' = [req EXCEPT ![r] = q] /\ Go(r, "insert")
        /\ UNCHANGED <<setup, data, proofVars, cut>>
    BY DEF IInv, Login
  <1>2. q \in Locals
    BY DEF Locals
  <1>3. RequestsTyped' /\ Alone(r) /\ step'[r] = "insert" /\ req'[r] = q
    BY <1>1, <1>2, GoesOn DEF Steps
  <1>4. Advance(r)
    BY <1>3 DEF Advance, Running
  <1>5. QED
    BY <1>1, <1>3, <1>4, DataKept, PlainKept

LEMMA RequireAdminKept ==
  ASSUME IInv, NEW r \in Requests, RequireAdmin(r)
  PROVE  Kept
  <1>1. TypeOK /\ step[r] = "admin" /\ req[r].actor \in admins /\ Proceed(r, "form")
        /\ UNCHANGED <<setup, data, proofVars, cut>>
    BY DEF IInv, RequireAdmin
  <1>2. /\ RequestsTyped' /\ Alone(r)
        /\ step'[r] = "idle" \/ (step'[r] = "form" /\ req'[r] = req[r])
    BY <1>1, Proceeds DEF Steps
  <1>3. (req'[r] = req[r]) => (req[r].actor \in admins)'
    BY <1>1 DEF data
  <1>4. Advance(r)
    BY <1>1, <1>2, <1>3 DEF Advance, Running
  <1>5. step'[r] \in {"idle", "form"}
    BY <1>2
  <1>6. QED
    BY <1>1, <1>2, <1>4, <1>5, DataKept, PlainKept

LEMMA FailsKept ==
  ASSUME IInv, NEW r \in Requests, Fails(r)
  PROVE  Kept
  <1>1. TypeOK /\ Ended(r) /\ UNCHANGED <<setup, data, proofVars, cut>>
    BY DEF IInv, Fails
  <1>2. QED
    BY <1>1, DataKept, EndKept

\* The accounts after a change of one status or of the roles.
LEMMA StatusTyped ==
  ASSUME TypeOK, NEW u \in Users, NEW st \in {"active", "disabled"},
         status' = [status EXCEPT ![u] = st], admins' = admins, sessions' \in SessionSet, Fades
  PROVE  AccountsTyped' /\ Owned'
  <1>1. status' \in [Users -> {"active", "disabled", "absent"}]
        /\ \A v \in Users : status[v] # "absent" => status'[v] # "absent"
    BY DEF TypeOK, SessionsTypeOK
  <1>2. AccountsTyped'
    BY <1>1 DEF TypeOK, AccountsTyped, SessionsTypeOK, SessionSet
  <1>3. QED
    BY <1>1, <1>2, FadesOwned

LEMMA SameAccountsTyped ==
  ASSUME TypeOK, status' = status, admins' \subseteq {u \in Users : status[u] # "absent"},
         sessions' \in SessionSet, Fades
  PROVE  AccountsTyped' /\ Owned'
  <1>1. AccountsTyped'
    BY DEF TypeOK, AccountsTyped, SessionsTypeOK, SessionSet
  <1>2. QED
    BY <1>1, FadesOwned

\* The effect of a change of the account is left to a hook of its own, or to no one.
LEMMA AnswersLaterKept ==
  ASSUME IInv, NEW r \in Requests, NEW u \in Users, NEW d \in BOOLEAN, step[r] = "form",
         AnswersLater(r, u, d), AccountsTyped', Owned',
         UNCHANGED <<setup, sessions, proofVars, cut>>
  PROVE  Kept
  <1> DEFINE had == IF d THEN Of(u) ELSE {}
             q == [req[r] EXCEPT !.target = u, !.disabled = d, !.had = had]
  <1>1. TypeOK /\ sessions' \in SessionSet /\ Fades
    BY UnchangedFades DEF IInv
  <1>2. cut' \subseteq Sids /\ \A s \in cut' \ cut : Over(s)'
    BY <1>1 DEF TypeOK
  <1>3. CASE Ended(r)
    BY <1>1, <1>2, <1>3, EndKept
  <1>4. CASE Go(r, "after") /\ req' = [req EXCEPT ![r] = q]
    <2>1. req[r] \in Locals
      BY <1>1, AtWork
    <2>2. had \subseteq Of(u) /\ had \subseteq Sids
      BY DEF Of, Stored
    <2>3. q \in Locals /\ q.target = u /\ q.disabled = d /\ q.had = had
      BY <2>1, <2>2 DEF Locals
    <2>4. RequestsTyped' /\ Alone(r) /\ step'[r] = "after" /\ req'[r] = q
      BY <1>1, <1>4, <2>3, GoesOn DEF Steps
    <2>5. Advance(r)
      BY <2>4 DEF Advance, Running
    <2>6. Of(u)' = Of(u)
      BY DEF Of, Stored
    <2>7. Marks(r)
      BY <2>2, <2>3, <2>4, <2>6 DEF Marks
    <2>8. QED
      BY <1>1, <1>2, <2>4, <2>5, <2>7, PlainKept
  <1>5. QED
    BY <1>3, <1>4 DEF AnswersLater

LEMMA DisableKept ==
  ASSUME IInv, NEW r \in Requests, NEW u \in Users, Disable(r, u)
  PROVE  Kept
  <1>1. TypeOK /\ step[r] = "form" /\ UNCHANGED <<setup, admins, proofVars>>
        /\ status' = [status EXCEPT ![u] = "disabled"]
    BY DEF IInv, Disable, Disabled, Form
  <1>2. ASSUME sessions' \in SessionSet, Fades
        PROVE  AccountsTyped' /\ Owned'
    BY <1>1, <1>2, StatusTyped
  <1>3. CASE sessions' = RevokedAll(u) /\ cut' = cut \cup Of(u) /\ Ended(r)
    <2>1. /\ sessions' \in SessionSet /\ Fades
          /\ \A s \in Sids : s \in Of(u) => sessions'[s] = None \/ sessions'[s].state # "current"
      BY <1>1, <1>3, RevokedFades DEF RevokedAll
    <2>2. cut' \subseteq Sids /\ \A s \in cut' \ cut : Over(s)'
      BY <1>1, <1>3, <2>1 DEF TypeOK, Of, Stored, Over
    <2>3. QED
      BY <1>1, <1>2, <1>3, <2>1, <2>2, EndKept
  <1>4. CASE UNCHANGED <<sessions, cut>> /\ Ended(r)
    <2>1. sessions' \in SessionSet /\ Fades
      BY <1>1, <1>4, UnchangedFades
    <2>2. cut' \subseteq Sids /\ \A s \in cut' \ cut : Over(s)'
      BY <1>1, <1>4 DEF TypeOK
    <2>3. QED
      BY <1>1, <1>2, <1>4, <2>1, <2>2, EndKept
  <1>5. CASE setup = "hooks" /\ UNCHANGED <<sessions, cut>> /\ AnswersLater(r, u, TRUE)
    <2>1. sessions' \in SessionSet /\ Fades
      BY <1>1, <1>5, UnchangedFades
    <2>2. QED
      BY <1>1, <1>2, <1>5, <2>1, AnswersLaterKept
  <1>6. QED
    BY <1>3, <1>4, <1>5 DEF Disable

LEMMA AfterDisabledKept ==
  ASSUME IInv, NEW r \in Requests, AfterDisabled(r)
  PROVE  Kept
  <1> DEFINE u == req[r].target
  <1>1. /\ TypeOK /\ step[r] = "after" /\ cut' = cut \cup req[r].had
        /\ sessions' = RevokedAll(u) \/ (~req[r].disabled /\ UNCHANGED sessions)
        /\ Ended(r) /\ UNCHANGED <<setup, status, admins, proofVars>>
    BY DEF IInv, AfterDisabled
  <1>2. sessions' \in SessionSet /\ Fades
    BY <1>1, RevokedFades, UnchangedFades DEF RevokedAll
  <1>3. req[r].had \subseteq Sids
    BY <1>1, AtWork DEF Locals
  <1>4. \A s \in req[r].had : sessions'[s] = None \/ sessions'[s].state # "current"
    <2>1. CASE sessions' = RevokedAll(u)
      <3>1. \A s \in req[r].had : sessions[s] = None \/ s \in Of(u)
        BY <1>1, <1>3 DEF IInv, Doomed, Of, Stored
      <3>2. \A s \in Sids : sessions[s] = None => sessions'[s] = None
        BY <1>2 DEF Fades, Stored
      <3>3. \A s \in Sids : s \in Of(u) => sessions'[s] = None \/ sessions'[s].state # "current"
        BY <1>1, <2>1, RevokedFades DEF RevokedAll
      <3>4. QED
        BY <1>3, <3>1, <3>2, <3>3
    <2>2. CASE ~req[r].disabled
      BY <1>1, <2>2 DEF IInv, Doomed
    <2>3. QED
      BY <1>1, <2>1, <2>2
  <1>5. cut' \subseteq Sids /\ \A s \in cut' \ cut : Over(s)'
    BY <1>1, <1>3, <1>4 DEF TypeOK, Over
  <1>6. AccountsTyped' /\ Owned'
    BY <1>1, <1>2, SameAccountsTyped DEF TypeOK
  <1>7. QED
    BY <1>1, <1>2, <1>5, <1>6, EndKept

LEMMA AccountKept ==
  ASSUME IInv, NEW r \in Requests, NEW u \in Users,
         Enable(r, u) \/ GrantRole(r, u) \/ RevokeRole(r, u)
  PROVE  Kept
  <1>1. CASE Enable(r, u)
    <2>1. /\ TypeOK /\ step[r] = "form" /\ UNCHANGED <<setup, admins, proofVars, cut>>
          /\ status' = [status EXCEPT ![u] = "active"]
          /\ sessions' \in {sessions, RevokedAll(u)}
          /\ Ended(r) \/ (UNCHANGED sessions /\ AnswersLater(r, u, FALSE))
      BY <1>1 DEF IInv, Enable, Form
    <2>2. sessions' \in SessionSet /\ Fades
      BY <2>1, RevokedFades, UnchangedFades DEF RevokedAll
    <2>3. AccountsTyped' /\ Owned'
      BY <2>1, <2>2, StatusTyped
    <2>4. CASE Ended(r)
      BY <2>1, <2>2, <2>3, <2>4, EndKept DEF TypeOK
    <2>5. CASE UNCHANGED sessions /\ AnswersLater(r, u, FALSE)
      BY <2>1, <2>3, <2>5, AnswersLaterKept
    <2>6. QED
      BY <2>1, <2>4, <2>5
  <1>2. CASE GrantRole(r, u) \/ RevokeRole(r, u)
    <2>1. TypeOK /\ Ended(r) /\ UNCHANGED <<setup, sessions, proofVars, cut>>
      BY <1>2 DEF IInv, GrantRole, RevokeRole
    <2>2. sessions' \in SessionSet /\ Fades
      BY <2>1, UnchangedFades
    <2>3. AccountsTyped' /\ Owned'
      BY <1>2, <2>2, SameAccountsTyped, TypeParts DEF IInv, GrantRole, RevokeRole, TypeOK
    <2>4. QED
      BY <2>1, <2>2, <2>3, EndKept DEF TypeOK
  <1>3. QED
    BY <1>1, <1>2

LEMMA RevokeSessionKept ==
  ASSUME IInv, NEW r \in Requests, NEW s \in Sids, RevokeSession(r, s)
  PROVE  Kept
  <1>1. TypeOK /\ Ended(r) /\ sessions' = Revoked({s} \cap Of(req[r].actor))
        /\ UNCHANGED <<setup, status, admins, proofVars, cut>>
    BY DEF IInv, RevokeSession, RevokedBy
  <1>2. sessions' \in SessionSet /\ Fades
    BY <1>1, RevokedFades
  <1>3. AccountsTyped' /\ Owned'
    BY <1>1, <1>2, SameAccountsTyped DEF TypeOK
  <1>4. QED
    BY <1>1, <1>2, <1>3, EndKept DEF TypeOK

LEMMA BecomesKept ==
  ASSUME IInv, NEW new, Becomes(new), sessions' \in SessionSet, Fades
  PROVE  Kept
  <1>1. TypeOK /\ UNCHANGED <<setup, status, admins, proofVars, cut, step, req>>
    BY DEF IInv, Becomes
  <1>2. AccountsTyped' /\ Owned'
    BY <1>1, SameAccountsTyped DEF TypeOK
  <1>3. TypeOK'
    BY <1>1, <1>2, TypeParts, TypePartsNext DEF ProofsTyped, RequestsTyped, proofVars
  <1>4. Spent' /\ Doomed'
    BY <1>1, FadesSpent, FadesDoomed DEF IInv, TypeOK
  <1>5. Proven'
    BY <1>1, ProvenKept DEF IInv
  <1>6. QED
    BY <1>1, <1>3, <1>4, <1>5 DEF Kept, Advance

LEMMA HostKept ==
  ASSUME IInv,
         (\E s \in Sids : Logout(s) \/ Expire(s)) \/ PurgeExpired
  PROVE  Kept
  <1>1. TypeOK
    BY DEF IInv
  <1>2. ASSUME NEW S, Becomes(Deleted(S)) PROVE Kept
    BY <1>1, <1>2, DeletedFades, BecomesKept DEF Becomes
  <1>3. ASSUME NEW s \in Sids, Expire(s) PROVE Kept
    BY <1>1, <1>3, ExpiredFades, BecomesKept DEF Expire, Becomes
  <1>4. QED
    BY <1>2, <1>3 DEF Logout, PurgeExpired, WithoutExpired

\* A session is created under an id that nothing speaks of.
LEMMA InsertKept ==
  ASSUME IInv, NEW r \in Requests, NEW s \in Sids, InsertSession(r, s)
  PROVE  Kept
  <1> DEFINE u == req[r].actor
  <1>1. TypeOK /\ step[r] = "insert" /\ ~Known(s) /\ status[u] # "absent" /\ Ended(r)
        /\ sessions' = [sessions EXCEPT ![s] = Record(u)]
        /\ UNCHANGED <<setup, status, admins, proofVars, cut>>
    BY DEF IInv, InsertSession, Inserted
  <1>2. RequestsTyped' /\ Alone(r) /\ step'[r] = "idle" /\ req'[r] = None
    BY <1>1, Ends
  <1>3. u \in Users /\ Record(u) \in [user : Users, state : States] /\ Record(u).user = u
    BY <1>1, AtWork DEF Locals, Record, States
  <1>4. sessions' \in SessionSet
    BY <1>1, <1>3 DEF TypeOK, SessionsTypeOK, SessionSet
  <1>5. sessions'[s] = Record(u) /\ \A z \in Sids \ {s} : sessions'[z] = sessions[z]
    BY <1>1 DEF TypeOK, SessionsTypeOK
  <1>6. TypeOK'
    <2>1. AccountsTyped'
      BY <1>1, <1>4 DEF TypeOK, AccountsTyped, SessionsTypeOK, SessionSet
    <2>2. Owned'
      BY <1>1, <1>3, <1>5 DEF TypeOK, Owned, Stored
    <2>3. ProofsTyped'
      BY <1>1, TypeParts DEF ProofsTyped, proofVars
    <2>4. QED
      BY <1>1, <1>2, <2>1, <2>2, <2>3, TypeParts, TypePartsNext
  <1>7. Spent'
    BY <1>1, <1>5 DEF IInv, Spent, Over, Known, TypeOK
  <1>8. Doomed'
    <2>1. ASSUME NEW q \in Requests, step'[q] = "after"
          PROVE  /\ step[q] = "after" /\ req'[q] = req[q] 
                 /\ req[q].had \subseteq Sids /\ s \notin req[q].had
      <3>1. step[q] = "after" /\ req'[q] = req[q]
        BY <1>2, <2>1 DEF Alone
      <3>2. req[q] \in Locals /\ req[q] # None
        BY <1>1, <3>1, AtWork, NoneAssumption
      <3>3. QED
        BY <1>1, <3>1, <3>2 DEF Known, Locals
    <2>2. QED
      BY <1>5, <2>1 DEF IInv, Doomed
  <1>9. Proven'
    BY <1>1, <1>2, ProvenKept DEF IInv, Alone
  <1>10. \A q \in Requests : Advance(q)
    BY <1>2 DEF Advance, Alone, Running
  <1>11. QED
    BY <1>6, <1>7, <1>8, <1>9, <1>10 DEF Kept

LEMMA IssueKept ==
  ASSUME IInv, NEW p \in Proofs, NEW s \in Sids, NEW u \in Users, Issue(p, s, u)
  PROVE  Kept
  <1> DEFINE i == [sid |-> s, target |-> u]
  <1>1. TypeOK /\ issued[p] = None /\ issued' = [issued EXCEPT ![p] = i]
        /\ proofs' = proofs \cup {p} /\ UNCHANGED <<setup, data, step, req, opened, cut>>
    BY DEF IInv, Issue
  <1>2. i \in Issues /\ i # None
    BY NoneAssumption DEF Issues
  <1>3. issued'[p] = i /\ \A q \in Proofs \ {p} : issued'[q] = issued[q]
    BY <1>1 DEF TypeOK
  <1>4. Fades /\ AccountsTyped' /\ Owned' /\ setup' = setup
        /\ cut' \subseteq Sids /\ \A z \in cut' \ cut : Over(z)'
    BY <1>1, DataKept
  <1>5. TypeOK'
    <2>1. ProofsTyped'
      BY <1>1, <1>2, <1>3 DEF TypeOK, ProofsTyped
    <2>2. RequestsTyped'
      BY <1>1, TypeParts DEF RequestsTyped
    <2>3. QED
      BY <1>1, <1>4, <2>1, <2>2, TypeParts, TypePartsNext
  <1>6. Spent' /\ Doomed'
    BY <1>1, <1>4, FadesSpent, FadesDoomed DEF IInv
  <1>7. Proven'
    BY <1>1, <1>2, <1>3 DEF IInv, Proven, TypeOK
  <1>8. QED
    BY <1>1, <1>4, <1>5, <1>6, <1>7 DEF Kept, Advance

LEMMA ConsumeKept ==
  ASSUME IInv, NEW r \in Requests, NEW p \in Proofs, NEW u \in Users, Consume(r, p, u)
  PROVE  Kept
  <1> DEFINE q == [req[r] EXCEPT !.target = u, !.proof = p]
  <1>1. TypeOK /\ step[r] = "form" /\ req[r].route = "admin" /\ p \in proofs
        /\ proofs' = proofs \ {p} /\ UNCHANGED <<setup, data, issued, opened, cut>>
        /\ (Opens(r, p, u) \/ Ended(r))
    BY DEF IInv, Consume, Form
  <1>2. Fades /\ AccountsTyped' /\ Owned' /\ setup' = setup
        /\ cut' \subseteq Sids /\ \A z \in cut' \ cut : Over(z)'
    BY <1>1, DataKept
  <1>3. q \in Locals /\ q.route = "admin" /\ q.target = u /\ q.proof = p /\ q.sid = req[r].sid
    <2>1. req[r] \in Locals
      BY <1>1, AtWork
    <2>2. QED
      BY <1>1, <2>1 DEF Locals
  <1>4. /\ RequestsTyped' /\ Alone(r)
        /\ \/ step'[r] = "idle"
           \/ step'[r] = "delete" /\ req'[r] = q /\ issued[p] = [sid |-> req[r].sid, target |-> u]
    <2>1. CASE Ended(r)
      BY <1>1, <2>1, Ends
    <2>2. CASE Opens(r, p, u)
      <3>1. Go(r, "delete") /\ req' = [req EXCEPT ![r] = q]
            /\ issued[p] = [sid |-> req[r].sid, target |-> u]
        BY <2>2 DEF Opens, Fits
      <3>2. QED
        BY <1>1, <1>3, <3>1, GoesOn DEF Steps
    <2>3. QED
      BY <1>1, <2>1, <2>2
  <1>5. TypeOK'
    <2>1. ProofsTyped'
      BY <1>1 DEF TypeOK, ProofsTyped
    <2>2. QED
      BY <1>1, <1>2, <1>4, <2>1, TypeParts, TypePartsNext
  <1>6. Spent'
    BY <1>1, <1>2, FadesSpent DEF IInv
  <1>7. Doomed'
    <2>1. \A z \in Requests : step'[z] = "after" => step[z] = "after" /\ req'[z] = req[z]
      BY <1>4 DEF Alone
    <2>2. QED
      BY <1>1, <1>2, <2>1, FadesDoomed DEF IInv
  <1>8. Proven'
    <2>1. \A z \in Requests \ {r} : step'[z] = step[z] /\ req'[z] = req[z]
      BY <1>4 DEF Alone
    <2>2. \A z \in opened' : issued'[z] # None /\ z \notin proofs'
      BY <1>1 DEF IInv, Proven
    <2>3. \A z \in Requests \ {r} : step[z] = "delete" =>
            /\ req[z].proof \in Proofs /\ req[z].target \in Users
            /\ issued[req[z].proof] # None
            /\ issued[req[z].proof] = [sid |-> req[z].sid, target |-> req[z].target]
            /\ req[z].proof \notin proofs \cup opened
            /\ req[z].proof # p
            /\ \A y \in Requests \ {z} : step[y] = "delete" => req[y].proof # req[z].proof
      BY <1>1 DEF IInv, Proven
    <2>4. p \notin opened /\ issued[p] # None
      BY <1>1 DEF IInv, Proven, TypeOK
    <2>5. ASSUME NEW z \in Requests, step'[z] = "delete"
          PROVE  /\ req'[z].proof \in Proofs /\ req'[z].target \in Users
                 /\ issued'[req'[z].proof] # None
                 /\ issued'[req'[z].proof] = [sid |-> req'[z].sid, target |-> req'[z].target]
                 /\ req'[z].proof \notin proofs' \cup opened'
                 /\ \A y \in Requests \ {z} : step'[y] = "delete" => req'[y].proof # req'[z].proof
      <3>1. CASE z = r
        <4>1. req'[r] = q /\ issued[p] = [sid |-> req[r].sid, target |-> u]
          BY <1>4, <2>5, <3>1
        <4>2. \A y \in Requests \ {r} : step'[y] = "delete" => req'[y].proof # p
          BY <2>1, <2>3
        <4>3. p \in Proofs /\ p \notin proofs' \cup opened' /\ issued'[p] = issued[p]
          BY <1>1, <2>4
        <4>4. QED
          BY <1>3, <2>4, <3>1, <4>1, <4>2, <4>3
      <3>2. CASE z # r
        <4>1. step[z] = "delete" /\ req'[z] = req[z]
          BY <2>1, <2>5, <3>2
        <4>2. \A y \in Requests \ {z} : step'[y] = "delete" => req'[y].proof # req[z].proof
          <5>1. step'[r] = "delete" => req'[r].proof = p
            BY <1>3, <1>4
          <5>2. req[z].proof # p
            BY <2>3, <3>2, <4>1
          <5>3. \A y \in Requests \ {z} : y # r =>
                  (step'[y] = "delete" => req'[y].proof # req[z].proof)
            BY <2>1, <2>3, <3>2, <4>1
          <5>4. QED
            BY <5>1, <5>2, <5>3
        <4>3. QED
          BY <1>1, <2>3, <3>2, <4>1, <4>2
      <3>3. QED
        BY <3>1, <3>2
    <2>6. QED
      BY <2>2, <2>5 DEF Proven
  <1>9. \A z \in Requests : Advance(z)
    BY <1>1, <1>3, <1>4 DEF Advance, Alone, Running
  <1>10. QED
    BY <1>2, <1>5, <1>6, <1>7, <1>8, <1>9 DEF Kept

LEMMA HardDeleteKept ==
  ASSUME IInv, NEW r \in Requests, NEW u \in Users, HardDelete(r, u)
  PROVE  Kept
  <1>1. TypeOK /\ step[r] = "delete" /\ Ended(r) /\ status' = [status EXCEPT ![u] = "absent"]
        /\ admins' = admins \ {u} /\ opened' = opened \cup {req[r].proof}
        /\ UNCHANGED <<setup, proofs, issued, cut>> /\ sessions' = Deleted(Of(u))
    BY DEF IInv, HardDelete, Purged, Cascaded
  <1>2. /\ sessions' \in SessionSet /\ Fades
        /\ \A s \in Sids : s \in Of(u) => sessions'[s] = None
    BY <1>1, DeletedFades
  <1>3. RequestsTyped' /\ Alone(r) /\ step'[r] = "idle"
    BY <1>1, Ends
  <1>4. /\ req[r].proof \in Proofs /\ issued[req[r].proof] # None
        /\ req[r].proof \notin proofs
        /\ \A q \in Requests \ {r} : step[q] = "delete" => req[q].proof # req[r].proof
    BY <1>1 DEF IInv, Proven
  <1>5. TypeOK'
    <2>1. status' \in [Users -> {"active", "disabled", "absent"}]
          /\ \A v \in Users \ {u} : status'[v] = status[v]
      BY <1>1 DEF TypeOK, SessionsTypeOK
    <2>2. AccountsTyped'
      BY <1>1, <1>2, <2>1 DEF TypeOK, AccountsTyped, SessionsTypeOK, SessionSet
    <2>3. Owned'
      <3>1. SUFFICES ASSUME NEW s \in Sids, sessions'[s] # None
                     PROVE  status'[sessions'[s].user] # "absent"
        BY DEF Owned, Stored
      <3>2. s \notin Of(u)
        BY <1>2, <3>1
      <3>3. sessions'[s] = sessions[s]
        BY <1>1, <3>2 DEF Deleted
      <3>4. s \in Stored /\ sessions[s].user # u /\ sessions[s].user \in Users
        BY <3>1, <3>2, <3>3, <1>1 DEF Of, Stored, TypeOK, SessionsTypeOK
      <3>5. QED
        BY <1>1, <2>1, <3>3, <3>4 DEF TypeOK
    <2>4. ProofsTyped'
      BY <1>1, <1>4 DEF TypeOK, ProofsTyped
    <2>5. QED
      BY <1>1, <1>3, <2>2, <2>3, <2>4, TypeParts, TypePartsNext
  <1>6. Spent'
    BY <1>1, <1>2, FadesSpent DEF IInv, TypeOK
  <1>7. Doomed'
    BY <1>1, <1>2, <1>3, FadesDoomed DEF IInv, Alone
  <1>8. Proven'
    BY <1>1, <1>3, <1>4 DEF IInv, Proven, Alone
  <1>9. \A z \in Requests : Advance(z)
    BY <1>3 DEF Advance, Alone, Running
  <1>10. QED
    BY <1>2, <1>5, <1>6, <1>7, <1>8, <1>9 DEF Kept

LEMMA StepKept == ASSUME IInv, Step PROVE Kept
  <1>1. CASE \E r \in Requests, s \in Sids, route \in {"admin", "own"} : CurrentUser(r, s, route)
    BY <1>1, CurrentUserKept
  <1>2. ASSUME NEW r \in Requests, NEW u \in Users,
               \/ Login(r, u)
               \/ Disable(r, u) \/ Enable(r, u) \/ GrantRole(r, u) \/ RevokeRole(r, u)
               \/ HardDelete(r, u)
        PROVE  Kept
    BY <1>2, LoginKept, DisableKept, AccountKept, HardDeleteKept
  <1>3. CASE \E r \in Requests, s \in Sids : InsertSession(r, s) \/ RevokeSession(r, s)
    BY <1>3, InsertKept, RevokeSessionKept
  <1>4. CASE \E r \in Requests, p \in Proofs, u \in Users : Consume(r, p, u)
    BY <1>4, ConsumeKept
  <1>5. CASE \E r \in Requests : Fails(r) \/ RequireAdmin(r) \/ AfterDisabled(r)
    BY <1>5, FailsKept, RequireAdminKept, AfterDisabledKept
  <1>6. CASE \E p \in Proofs, s \in Sids, u \in Users : Issue(p, s, u)
    BY <1>6, IssueKept
  <1>7. CASE (\E s \in Sids : Logout(s) \/ Expire(s)) \/ PurgeExpired
    BY <1>7, HostKept
  <1>8. QED
    BY <1>1, <1>2, <1>3, <1>4, <1>5, <1>6, <1>7 DEF Step

----------------------------------------------------------------------------
(* The invariant, and what follows from it *)

LEMMA InitIInv == Init => IInv
  <1> SUFFICES ASSUME Init PROVE IInv
    OBVIOUS
  <1>1. TypeOK
    BY InitTyped
  <1>2. Spent /\ Doomed /\ Watched /\ Proven
    BY DEF Init, Spent, Doomed, Watched, Proven, Running
  <1>3. QED
    BY <1>1, <1>2 DEF IInv

LEMMA StepIInv == IInv /\ [Next]_vars => IInv'
  <1> SUFFICES ASSUME IInv, [Next]_vars PROVE IInv'
    OBVIOUS
  <1>1. CASE Next
    <2>1. Kept
      BY <1>1, StepKept DEF Next
    <2>2. Watched'
      BY <1>1, <2>1, WatchedNext DEF IInv, Next, Kept
    <2>3. QED
      BY <2>1, <2>2 DEF IInv, Kept
  <1>2. CASE UNCHANGED vars
    <2>1. UNCHANGED <<setup, status, sessions, admins, proofs, issued, opened, step, req, seen, cut>>
      BY <1>2 DEF vars, data, proofVars
    <2>2. TypeOK'
      BY <2>1, TypeParts, TypePartsNext
         DEF IInv, AccountsTyped, SessionsTypeOK, Owned, Stored, ProofsTyped, RequestsTyped
    <2>3. Spent' /\ Doomed' /\ Watched' /\ Proven'
      BY <2>1 DEF IInv, Spent, Over, Doomed, Watched, Proven
    <2>4. QED
      BY <2>2, <2>3 DEF IInv
  <1>3. QED
    BY <1>1, <1>2

THEOREM Invariance == Spec => []IInv
  BY InitIInv, StepIInv, PTL DEF Spec

\* Types; roles and sessions belong to accounts that are there, whatever requests,
\* logins and permanent deletions overlap.
THEOREM TypeCorrect == Spec => []TypeOK
  <1>1. IInv => TypeOK
    BY DEF IInv
  <1>2. QED
    BY <1>1, Invariance, PTL

\* The sessions an account had when it was disabled are never live again: not when the
\* effect comes late, the account is enabled, or a login creates another session.
THEOREM DisabledStaysOut == Spec => []DisabledIsOut
  <1>1. IInv => DisabledIsOut
    BY DEF IInv, Spent, Over, DisabledIsOut, Live, Stored
  <1>2. QED
    BY <1>1, Invariance, PTL

----------------------------------------------------------------------------
(* Sessions that have ended *)

Kindly ==
  \A s \in Stored :
    /\ sessions'[s] # None => sessions'[s].user = sessions[s].user
    /\ sessions[s].state # "current" =>
         sessions'[s] = None \/ sessions'[s].state # "current"

LEMMA StepEnds == IInv /\ [Next]_vars => [Kindly]_vars
  <1> SUFFICES ASSUME IInv, Step, NEW s \in Stored
               PROVE  /\ sessions'[s] # None => sessions'[s].user = sessions[s].user
                      /\ sessions[s].state # "current" =>
                           sessions'[s] = None \/ sessions'[s].state # "current"
    BY DEF Next, Kindly
  <1>1. s \in Sids
    BY DEF Stored
  <1>2. CASE Fades
    BY <1>1, <1>2 DEF Fades
  <1>3. CASE \E r \in Requests, z \in Sids : InsertSession(r, z)
    <2>1. PICK r \in Requests, z \in Sids : InsertSession(r, z)
      BY <1>3
    <2>2. z # s /\ sessions' = [sessions EXCEPT ![z] = Record(req[r].actor)]
      BY <2>1 DEF InsertSession, Inserted, Known
    <2>3. sessions'[s] = sessions[s]
      BY <1>1, <2>2 DEF IInv, TypeOK, SessionsTypeOK
    <2>4. QED
      BY <2>3
  <1>4. QED
    BY <1>2, <1>3, StepKept DEF Kept

\* A session that was revoked, has expired, was deleted or went with its account does
\* not come back, and keeps its owner, whatever requests write it at the same time.
THEOREM SessionsEndForGood == Spec => EndedForGood
  <1>1. Spec => [][Kindly]_vars
    BY Invariance, StepEnds, PTL DEF Spec
  <1>2. QED
    BY <1>1 DEF EndedForGood, Kindly

----------------------------------------------------------------------------
(* What a request changes, it may *)

Justified(r) ==
  Mutates(r) =>
    LET q == req[r] IN
    /\ "live" \in seen[r]
    /\ \/ q.route = "admin" /\ "admin" \in seen[r]
       \/ \A s \in Sids : sessions'[s] # sessions[s] => sessions[s].user = q.actor
    /\ step[r] = "delete" =>
         issued[q.proof] = [sid |-> q.sid, target |-> q.target] /\ q.proof \notin opened


\* A change that comes from a request's form or permanent deletion is one of these.
LEMMA MutationSteps ==
  ASSUME IInv, Step, NEW r \in Requests, Mutates(r)
  PROVE  \/ \E u \in Users : Disable(r, u) \/ Enable(r, u) \/ GrantRole(r, u)
                               \/ RevokeRole(r, u) \/ HardDelete(r, u)
         \/ \E s \in Sids : RevokeSession(r, s)
  <1>1. TypeOK /\ step[r] \in {"form", "delete"} /\ step'[r] # step[r] /\ data' # data
    BY DEF IInv, Mutates
  <1>2. ASSUME NEW q \in Requests, Ended(q) PROVE q = r
    BY <1>1, <1>2, Ends DEF Alone
  <1>3. ASSUME NEW q \in Requests, NEW s, Go(q, s) PROVE q = r
    BY <1>1, <1>3, Moves
  <1>4. ~ \E q \in Requests, s \in Sids, route \in {"admin", "own"} : CurrentUser(q, s, route)
    BY <1>1 DEF CurrentUser, Begin
  <1>5. ~ \E q \in Requests, u \in Users : Login(q, u)
    BY <1>1 DEF Login
  <1>6. ~ \E q \in Requests, p \in Proofs, u \in Users : Consume(q, p, u)
    BY <1>1 DEF Consume
  <1>7. ~ \E q \in Requests : Fails(q) \/ RequireAdmin(q)
    BY <1>1 DEF Fails, RequireAdmin
  <1>8. ~ \E p \in Proofs, s \in Sids, u \in Users : Issue(p, s, u)
    BY <1>1 DEF Issue
  <1>9. ~ ((\E s \in Sids : Logout(s) \/ Expire(s)) \/ PurgeExpired)
    BY <1>1 DEF Logout, Expire, PurgeExpired, Becomes
  <1>10. ~ \E q \in Requests : AfterDisabled(q)
    BY <1>1, <1>2 DEF AfterDisabled
  <1>11. ~ \E q \in Requests, s \in Sids : InsertSession(q, s)
    BY <1>1, <1>2 DEF InsertSession
  <1>12. ASSUME NEW q \in Requests, NEW u \in Users, Disable(q, u)
         PROVE  q = r
    BY <1>2, <1>3, <1>12 DEF Disable, AnswersLater
  <1>13. ASSUME NEW q \in Requests, NEW u \in Users,
                Enable(q, u) \/ GrantRole(q, u) \/ RevokeRole(q, u) \/ HardDelete(q, u)
         PROVE  q = r
    BY <1>2, <1>3, <1>13 DEF Enable, AnswersLater, GrantRole, RevokeRole, HardDelete, Purged
  <1>14. ASSUME NEW q \in Requests, NEW s \in Sids, RevokeSession(q, s)
         PROVE  q = r
    BY <1>2, <1>14 DEF RevokeSession
  <1>15. QED
    BY <1>4, <1>5, <1>6, <1>7, <1>8, <1>9, <1>10, <1>11, <1>12, <1>13, <1>14 DEF Step

LEMMA StepJustified ==
  ASSUME IInv, Step, NEW r \in Requests
  PROVE  Justified(r)
  <1> SUFFICES ASSUME Mutates(r)
               PROVE  LET q == req[r] IN
                      /\ "live" \in seen[r]
                      /\ \/ q.route = "admin" /\ "admin" \in seen[r]
                         \/ \A s \in Sids : sessions'[s] # sessions[s] => sessions[s].user = q.actor
                      /\ step[r] = "delete" =>
                           /\ issued[q.proof] = [sid |-> q.sid, target |-> q.target]
                           /\ q.proof \notin opened
    BY DEF Justified
  <1>1. step[r] \in {"form", "delete"}
    BY DEF Mutates
  <1>2. /\ "live" \in seen[r]
        /\ req[r].route = "admin" => "admin" \in seen[r]
        /\ step[r] = "delete" => req[r].route = "admin"
    BY <1>1 DEF IInv, Watched, Running
  <1>3. step[r] = "delete" =>
          /\ issued[req[r].proof] = [sid |-> req[r].sid, target |-> req[r].target]
          /\ req[r].proof \notin opened
    BY DEF IInv, Proven
  <1>4. CASE \E u \in Users : Disable(r, u) \/ Enable(r, u) \/ GrantRole(r, u)
                                \/ RevokeRole(r, u) \/ HardDelete(r, u)
    <2>1. req[r].route = "admin"
      BY <1>2, <1>4
         DEF Disable, Disabled, Enable, GrantRole, RevokeRole, HardDelete, Purged, Form
    <2>2. QED
      BY <1>2, <1>3, <2>1
  <1>5. CASE \E s \in Sids : RevokeSession(r, s)
    <2>1. PICK z \in Sids : sessions' = Revoked({z} \cap Of(req[r].actor))
      BY <1>5 DEF RevokeSession, RevokedBy
    <2>2. \A s \in Sids : sessions'[s] # sessions[s] => sessions[s].user = req[r].actor
      BY <2>1 DEF Revoked, Of
    <2>3. QED
      BY <1>2, <1>3, <2>2
  <1>6. QED
    BY <1>4, <1>5, MutationSteps

\* A request that changes an account, a role or a session had a live session while it
\* ran, and an administrator for its actor unless the sessions are its own; a permanent
\* deletion had the proof issued for it, and no other deletion has that proof.
THEOREM ChangesAreJustified == Spec => MutationsJustified
  <1>1. IInv /\ [Next]_vars => [\A r \in Requests : Justified(r)]_vars
    BY StepJustified DEF Next
  <1>2. Spec => [][\A r \in Requests : Justified(r)]_vars
    BY <1>1, Invariance, PTL DEF Spec
  <1>3. QED
    BY <1>2 DEF MutationsJustified, Justified
=============================================================================
