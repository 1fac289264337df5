--------------------------- MODULE OidcLoginProofs ---------------------------
(***************************************************************************)
(* Proofs about OidcLogin, for every set of flows, browsers, callbacks,    *)
(* accounts and keys, and every lifetime.                                  *)
(***************************************************************************)
EXTENDS OidcLogin, TLAPS

----------------------------------------------------------------------------
(* The inductive invariant *)

\* A request has taken a flow out of the store, and will log in with it or give it back.
Holds(r) == step[r] \notin {"idle", "consume"}
Admitted(r) == step[r] \notin {"idle", "consume", "put_back"}
Resolved(r) == step[r] \in {"resolve", "project", "write"}

\* What a stored flow, a cookie and a callback name has been started.
Known ==
  /\ \A f \in DOMAIN flows : started[f] # None /\ flows[f] = started[f].at + FlowTtl
  /\ \A b \in Browsers : cookie[b] # None =>
       started[cookie[b]] # None /\ started[cookie[b]].by = b
  /\ \A r \in Requests : step[r] # "idle" =>
       started[req[r].state] # None /\ authAs[req[r].code] # None
  /\ \A l \in logins :
       l.flow \in Flows /\ started[l.flow] # None /\ authAs[l.flow] # None

\* What a callback has established of the flow it names.
Established ==
  \A r \in Requests :
    LET q == req[r] IN
    /\ step[r] = "consume" /\ q.bound => started[q.state].by = q.browser
    /\ step[r] = "put_back" => q.expires = started[q.state].at + FlowTtl
    /\ Admitted(r) => started[q.state].by = q.browser
                        /\ q.now < started[q.state].at + FlowTtl
    /\ Resolved(r) => q.code = q.state /\ q.subject = authAs[q.state]

\* A flow is in the store, or held by one callback, or has logged in.
Once ==
  /\ \A r \in Requests : Holds(r) =>
       /\ req[r].state \notin DOMAIN flows
       /\ \A q \in Requests \ {r} : Holds(q) => req[q].state # req[r].state
  /\ \A l \in logins :
       /\ l.flow \notin DOMAIN flows
       /\ \A r \in Requests : Holds(r) => req[r].state # l.flow

\* What a callback has fetched was published when it had begun, or later.
Fetched ==
  /\ [at |-> clock, keys |-> published] \in log
  /\ \A r \in Requests : step[r] # "idle" => req[r].now <= clock
  /\ \A r \in Requests : step[r] = "store" =>
       \E e \in log : e.keys = req[r].payload /\ e.at >= req[r].now

\* The check of the account has been passed at some moment.
Checked == \A r \in Requests : step[r] \in {"project", "write"} => r \in sound

FlowInv == Known /\ Established /\ Once /\ LoginsBelong
KeyInv == Fetched /\ CacheFaithful

----------------------------------------------------------------------------
(* Types *)

LEMMA IdleIsNoLocals == Idle \notin Locals
  BY DEF Idle, Locals

LEMMA InitTyped == ASSUME Init PROVE TypeOK
  <1>1. [at |-> 0, keys |-> published] \in [at : Times, keys : SUBSET Kids]
    BY LifetimesAssumption DEF Init, Times
  <1>2. log \subseteq [at : Times, keys : SUBSET Kids]
    BY <1>1 DEF Init
  <1>3. flows = [f \in {} |-> 0] => DOMAIN flows = {}
    OBVIOUS
  <1>4. QED
    BY <1>2, <1>3, LifetimesAssumption, StoresAssumption DEF Init, TypeOK, Times, Steps

\* A request's locals, unless it is between two calls.
LEMMA Running ==
  ASSUME TypeOK, NEW r \in Requests, step[r] # "idle"
  PROVE  req[r] \in Locals
  BY DEF TypeOK

LEMMA DenyTyped ==
  ASSUME TypeOK, NEW r \in Requests, Deny(r)
  PROVE  /\ step' \in [Requests -> Steps] /\ req' \in [Requests -> Locals \cup {Idle}]
         /\ \A q \in Requests : (step[q] = "idle" <=> req[q] = Idle)'
  BY DEF TypeOK, Deny, Go, Steps

LEMMA GoTyped ==
  ASSUME TypeOK, NEW r \in Requests, NEW s \in Steps \ {"idle"}, Go(r, s),
         NEW q \in Locals, req' = [req EXCEPT ![r] = q]
  PROVE  /\ step' \in [Requests -> Steps] /\ req' \in [Requests -> Locals \cup {Idle}]
         /\ \A p \in Requests : (step[p] = "idle" <=> req[p] = Idle)'
  BY IdleIsNoLocals DEF TypeOK, Go, Steps

\* The store without the expired flows, and without another one.
LEMMA UnexpiredFlows ==
  ASSUME NEW at
  PROVE  /\ DOMAIN Unexpired(at) \subseteq DOMAIN flows
         /\ \A g \in DOMAIN Unexpired(at) : Unexpired(at)[g] = flows[g] /\ flows[g] > at
  BY DEF Unexpired

LEMMA WithoutFlow ==
  ASSUME NEW fl, NEW f
  PROVE  /\ DOMAIN Without(fl, f) = DOMAIN fl \ {f}
         /\ \A g \in DOMAIN fl \ {f} : Without(fl, f)[g] = fl[g]
  BY DEF Without

\* A key that is asked for counts as an attempt, up to MaxRefreshes.
LEMMA JudgeTyped ==
  ASSUME TypeOK, NEW r \in Requests, step[r] # "idle", NEW keys, Judge(r, keys)
  PROVE  /\ attempts' \in [Kids -> 0..MaxRefreshes]
         /\ step' \in [Requests -> Steps] /\ req' \in [Requests -> Locals \cup {Idle}]
         /\ \A q \in Requests : (step[q] = "idle" <=> req[q] = Idle)'
  <1> DEFINE k == req[r].kid
  <1>1. req[r] \in Locals
    BY Running
  <1>2. CASE k \in keys /\ attempts' = [attempts EXCEPT ![k] = 0] /\ Go(r, "verify") /\ UNCHANGED req
    <2>1. attempts' \in [Kids -> 0..MaxRefreshes]
      <3>1. 0 \in 0..MaxRefreshes
        BY LifetimesAssumption
      <3>2. QED
        BY <1>2, <3>1 DEF TypeOK
    <2>2. req' = [req EXCEPT ![r] = req[r]]
      BY <1>2 DEF TypeOK
    <2>3. QED
      BY <1>1, <1>2, <2>1, <2>2, GoTyped DEF Steps
  <1>3. CASE /\ attempts[k] < MaxRefreshes
             /\ attempts' = [attempts EXCEPT ![k] = @ + 1]
             /\ Go(r, "fetch") /\ req' = [req EXCEPT ![r].retried = TRUE]
    <2>1. [req[r] EXCEPT !.retried = TRUE] \in Locals
      BY <1>1 DEF Locals
    <2>2. req' = [req EXCEPT ![r] = [req[r] EXCEPT !.retried = TRUE]]
      BY <1>3
    <2>3. attempts' \in [Kids -> 0..MaxRefreshes]
      <3>1. k \in Kids => attempts[k] + 1 \in 0..MaxRefreshes
        BY <1>3, LifetimesAssumption DEF TypeOK
      <3>2. QED
        BY <1>3, <3>1 DEF TypeOK
    <2>4. QED
      BY <1>3, <2>1, <2>2, <2>3, GoTyped DEF Steps
  <1>4. CASE Deny(r) /\ UNCHANGED attempts
    BY <1>4, DenyTyped DEF TypeOK
  <1>5. QED
    BY <1>2, <1>3, <1>4 DEF Judge

LEMMA ResolveTyped ==
  ASSUME TypeOK, NEW r \in Requests, Resolve(r) \/ Project(r)
  PROVE  /\ step' \in [Requests -> Steps] /\ req' \in [Requests -> Locals \cup {Idle}]
         /\ \A q \in Requests : (step[q] = "idle" <=> req[q] = Idle)'
  BY DEF TypeOK, Resolve, Project, Go, Steps

LEMMA StepTyped == ASSUME TypeOK, Known, [Next]_vars PROVE TypeOK'
  <1> USE DEF oidcStore, keyVars, provider, accounts, ghosts
  <1>0. sound' \subseteq Requests
    BY DEF Next, Remember, vars, TypeOK
  <1> USE <1>0
  <1>1. ASSUME Tick PROVE TypeOK'
    <2>1. clock' \in Times
      BY <1>1, LifetimesAssumption DEF Tick, TypeOK, Times
    <2>2. [at |-> clock + 1, keys |-> published] \in [at : Times, keys : SUBSET Kids]
      BY <1>1, <2>1 DEF Tick, TypeOK
    <2>3. QED
      BY <1>1, <2>1, <2>2 DEF Tick, TypeOK
  <1>2. ASSUME NEW b \in Browsers, NEW f \in Flows, Login(b, f) PROVE TypeOK'
    <2>1. started' \in [Flows -> [by : Browsers, at : Times] \cup {None}]
      BY <1>2 DEF Login, TypeOK
    <2>2. clock + FlowTtl \in 0..(MaxTime + FlowTtl)
      BY LifetimesAssumption DEF TypeOK, Times
    <2>3. DOMAIN WithFlow(f) \subseteq Flows /\ \A g \in DOMAIN WithFlow(f) : 
            WithFlow(f)[g] \in 0..(MaxTime + FlowTtl)
      BY <2>2 DEF TypeOK, WithFlow, Unexpired
    <2>4. QED
      BY <1>2, <2>1, <2>3 DEF Login, TypeOK
  <1>3. ASSUME NEW f \in Flows, NEW s \in Subjects, Authenticate(f, s) PROVE TypeOK'
    BY <1>3 DEF Authenticate, TypeOK
  <1>4. ASSUME NEW k \in Kids, Rotate(k) PROVE TypeOK'
    <2>1. [at |-> clock, keys |-> published'] \in [at : Times, keys : SUBSET Kids]
      BY <1>4 DEF Rotate, TypeOK
    <2>2. QED
      BY <1>4, <2>1 DEF Rotate, TypeOK
  <1>5. ASSUME NEW u \in Users, Disable(u) \/ Enable(u) PROVE TypeOK'
    BY <1>5 DEF Disable, Enable, TypeOK
  <1>6. ASSUME NEW s \in Subjects, NEW u \in Users, Relink(s, u) PROVE TypeOK'
    BY <1>6 DEF Relink, TypeOK
  <1>7. ASSUME NEW r \in Requests, NEW b \in Browsers, NEW c \in Flows, NEW f \in Flows,
               Callback(r, b, c, f)
        PROVE  TypeOK'
    <2> DEFINE q == [browser |-> b, code |-> c, state |-> f, bound |-> cookie[b] = f,
                     now |-> clock, kid |-> None, subject |-> None, retried |-> FALSE,
                     payload |-> {}, user |-> None, expires |-> 0]
    <2>1. 0 \in 0..(MaxTime + FlowTtl)
      BY LifetimesAssumption
    <2>2. q \in Locals
      BY <2>1 DEF Locals, TypeOK
    <2>3. Go(r, "consume") /\ req' = [req EXCEPT ![r] = q]
      BY <1>7 DEF Callback, Go
    <2>4. /\ step' \in [Requests -> Steps] /\ req' \in [Requests -> Locals \cup {Idle}]
          /\ \A p \in Requests : (step[p] = "idle" <=> req[p] = Idle)'
      BY <2>2, <2>3, GoTyped DEF Steps
    <2>5. QED
      BY <1>7, <2>4 DEF Callback, TypeOK
  <1>8. ASSUME NEW r \in Requests, Consume(r) PROVE TypeOK'
    <2> DEFINE q == req[r]
               kept == Unexpired(q.now)
    <2>1. q \in Locals
      BY <1>8, Running DEF Consume
    <2>2. CASE q.state \in DOMAIN kept /\ (q.bound \/ store = "memory")
      <3>1. kept[q.state] = flows[q.state] /\ q.state \in DOMAIN flows
        BY <2>2, UnexpiredFlows
      <3>2. [q EXCEPT !.expires = kept[q.state]] \in Locals
        BY <2>1, <3>1 DEF Locals, TypeOK
      <3>3. req' = [req EXCEPT ![r] = [q EXCEPT !.expires = kept[q.state]]]
        BY <1>8, <2>2 DEF Consume
      <3>4. Go(r, IF q.bound THEN "redeem" ELSE "put_back")
            /\ flows' = Without(kept, q.state)
        BY <1>8, <2>2 DEF Consume
      <3>5. /\ step' \in [Requests -> Steps] /\ req' \in [Requests -> Locals \cup {Idle}]
            /\ \A p \in Requests : (step[p] = "idle" <=> req[p] = Idle)'
        BY <3>2, <3>3, <3>4, GoTyped DEF Steps
      <3>6. DOMAIN flows' \subseteq Flows /\ \A g \in DOMAIN flows' :
              flows'[g] \in 0..(MaxTime + FlowTtl)
        <4>1. /\ DOMAIN kept \subseteq DOMAIN flows
              /\ \A g \in DOMAIN kept : kept[g] = flows[g]
          BY UnexpiredFlows
        <4>2. /\ DOMAIN flows' = DOMAIN kept \ {q.state}
              /\ \A g \in DOMAIN flows' : flows'[g] = kept[g]
          BY <3>4, WithoutFlow
        <4>3. QED
          BY <4>1, <4>2 DEF TypeOK
      <3>7. QED
        BY <1>8, <3>5, <3>6 DEF Consume, TypeOK
    <2>3. CASE ~(q.state \in DOMAIN kept /\ (q.bound \/ store = "memory"))
      <3>1. flows' = kept /\ Deny(r)
        BY <1>8, <2>3 DEF Consume
      <3>2. DOMAIN flows' \subseteq Flows /\ \A g \in DOMAIN flows' :
              flows'[g] \in 0..(MaxTime + FlowTtl)
        BY <3>1, UnexpiredFlows DEF TypeOK
      <3>3. QED
        BY <1>8, <3>1, <3>2, DenyTyped DEF Consume, TypeOK
    <2>4. QED
      BY <2>2, <2>3
  <1>9. ASSUME NEW r \in Requests, PutBack(r) PROVE TypeOK'
    <2>1. req[r] \in Locals
      BY <1>9, Running DEF PutBack
    <2>2. DOMAIN flows' \subseteq Flows /\ \A g \in DOMAIN flows' :
            flows'[g] \in 0..(MaxTime + FlowTtl)
      BY <1>9, <2>1 DEF PutBack, TypeOK, Locals
    <2>3. QED
      BY <1>9, <2>2, DenyTyped DEF PutBack, TypeOK
  <1>10. ASSUME NEW r \in Requests, Redeem(r) PROVE TypeOK'
    <2>1. req[r] \in Locals
      BY <1>10, Running DEF Redeem
    <2>2. PICK k \in published :
            req' = [req EXCEPT ![r] = [@ EXCEPT !.kid = k, !.bound = FALSE, !.expires = 0]]
      BY <1>10 DEF Redeem
    <2>3. [req[r] EXCEPT !.kid = k, !.bound = FALSE, !.expires = 0] \in Locals
      <3>1. 0 \in 0..(MaxTime + FlowTtl) /\ k \in Kids
        BY LifetimesAssumption DEF TypeOK
      <3>2. QED
        BY <2>1, <3>1 DEF Locals
    <2>4. /\ step' \in [Requests -> Steps] /\ req' \in [Requests -> Locals \cup {Idle}]
          /\ \A p \in Requests : (step[p] = "idle" <=> req[p] = Idle)'
      BY <1>10, <2>2, <2>3, GoTyped DEF Redeem, Steps
    <2>5. QED
      BY <1>10, <2>4 DEF Redeem, TypeOK
  <1>11. ASSUME NEW r \in Requests, AskKey(r) PROVE TypeOK'
    <2>1. /\ attempts' \in [Kids -> 0..MaxRefreshes]
          /\ step' \in [Requests -> Steps] /\ req' \in [Requests -> Locals \cup {Idle}]
          /\ \A q \in Requests : (step[q] = "idle" <=> req[q] = Idle)'
      <3>1. CASE Go(r, "fetch") /\ UNCHANGED <<attempts, req>>
        BY <1>11, <3>1 DEF AskKey, Go, TypeOK, Steps
      <3>2. CASE Judge(r, cache.keys)
        BY <1>11, <3>2, JudgeTyped DEF AskKey
      <3>3. QED
        BY <1>11, <3>1, <3>2 DEF AskKey
    <2>2. QED
      BY <1>11, <2>1 DEF AskKey, TypeOK
  <1>12. ASSUME NEW r \in Requests, FetchKeys(r) PROVE TypeOK'
    <2>1. req[r] \in Locals
      BY <1>12, Running DEF FetchKeys
    <2>2. [req[r] EXCEPT !.payload = published] \in Locals
      BY <2>1 DEF Locals, TypeOK
    <2>3. req' = [req EXCEPT ![r] = [req[r] EXCEPT !.payload = published]]
      BY <1>12 DEF FetchKeys
    <2>4. /\ step' \in [Requests -> Steps] /\ req' \in [Requests -> Locals \cup {Idle}]
          /\ \A p \in Requests : (step[p] = "idle" <=> req[p] = Idle)'
      BY <1>12, <2>2, <2>3, GoTyped DEF FetchKeys, Steps
    <2>5. QED
      BY <1>12, <2>4 DEF FetchKeys, TypeOK
  <1>13. ASSUME NEW r \in Requests, StoreKeys(r) PROVE TypeOK'
    <2>1. req[r] \in Locals
      BY <1>13, Running DEF StoreKeys
    <2>2. cache' \in [keys : SUBSET Kids, expires : 0..(MaxTime + KeyTtl)]
      <3>1. req[r].payload \in SUBSET Kids /\ req[r].now + KeyTtl \in 0..(MaxTime + KeyTtl)
        BY <2>1, LifetimesAssumption DEF Locals, Times
      <3>2. QED
        BY <1>13, <3>1 DEF StoreKeys
    <2>3. /\ attempts' \in [Kids -> 0..MaxRefreshes]
          /\ step' \in [Requests -> Steps] /\ req' \in [Requests -> Locals \cup {Idle}]
          /\ \A q \in Requests : (step[q] = "idle" <=> req[q] = Idle)'
      BY <1>13, JudgeTyped DEF StoreKeys
    <2>4. QED
      BY <1>13, <2>2, <2>3 DEF StoreKeys, TypeOK
  <1>14. ASSUME NEW r \in Requests, Verify(r) PROVE TypeOK'
    <2> DEFINE s == authAs[req[r].code]
               q == [req[r] EXCEPT !.subject = s, !.user = linked[s], !.kid = None,
                                   !.payload = {}, !.retried = FALSE]
    <2>1. req[r] \in Locals
      BY <1>14, Running DEF Verify
    <2>2. s \in Subjects
      BY <1>14, <2>1 DEF Verify, Known, TypeOK, Locals
    <2>3. q \in Locals
      BY <2>1, <2>2 DEF Locals, TypeOK
    <2>4. Go(r, "resolve") /\ req' = [req EXCEPT ![r] = q]
      BY <1>14 DEF Verify, ResolveAs
    <2>5. /\ step' \in [Requests -> Steps] /\ req' \in [Requests -> Locals \cup {Idle}]
          /\ \A p \in Requests : (step[p] = "idle" <=> req[p] = Idle)'
      BY <2>3, <2>4, GoTyped DEF Steps
    <2>6. QED
      BY <1>14, <2>5 DEF Verify, ResolveAs, TypeOK
  <1>15. ASSUME NEW r \in Requests, Resolve(r) \/ Project(r) PROVE TypeOK'
    BY <1>15, ResolveTyped DEF Resolve, Project, TypeOK
  <1>19. ASSUME NEW r \in Requests, Enter(r) PROVE TypeOK'
    <2>1. req[r] \in Locals
      BY <1>19, Running DEF Enter
    <2>2. cookie' \in [Browsers -> Flows \cup {None}]
      BY <1>19, <2>1 DEF Enter, Locals, TypeOK
    <2>3. QED
      BY <1>19, <2>2, DenyTyped DEF Enter, TypeOK
  <1>16. ASSUME NEW r \in Requests, Fail(r) PROVE TypeOK'
    BY <1>16, DenyTyped DEF Fail, TypeOK
  <1>17. CASE UNCHANGED vars
    BY <1>17 DEF vars, TypeOK
  <1>18. QED
    BY <1>1, <1>2, <1>3, <1>4, <1>5, <1>6, <1>7, <1>8, <1>9, <1>10, <1>11, <1>12, <1>13,
       <1>14, <1>15, <1>16, <1>17, <1>19 DEF Next, Step

----------------------------------------------------------------------------
(* One callback moves, the others stay *)

\* The steps and locals of the callbacks other than r do not change.
Alone(r) ==
  \A q \in Requests \ {r} : step'[q] = step[q] /\ req'[q] = req[q]

LEMMA Moves ==
  ASSUME TypeOK, NEW r \in Requests, NEW s, Go(r, s)
  PROVE  step'[r] = s /\ \A q \in Requests \ {r} : step'[q] = step[q]
  BY DEF TypeOK, Go

LEMMA Denies ==
  ASSUME TypeOK, NEW r \in Requests, Deny(r)
  PROVE  step'[r] = "idle" /\ Alone(r)
  BY DEF TypeOK, Deny, Go, Alone

\* What a step between the redemption of the code and the login keeps.
Continues(r) ==
  /\ Alone(r)
  /\ \/ step'[r] = "idle"
     \/ /\ Admitted(r) /\ step'[r] \in {"redeem", "key", "fetch", "store", "verify"}
        /\ req'[r].state = req[r].state /\ req'[r].code = req[r].code
        /\ req'[r].browser = req[r].browser /\ req'[r].now = req[r].now

LEMMA JudgeContinues ==
  ASSUME TypeOK, NEW r \in Requests, Admitted(r), NEW keys, Judge(r, keys)
  PROVE  Continues(r) /\ step'[r] \notin {"store", "key"}
  <1>1. req[r] \in Locals
    BY Running DEF Admitted
  <1>2. CASE Go(r, "verify") /\ UNCHANGED req
    BY <1>2, Moves DEF Continues, Alone
  <1>3. CASE Go(r, "fetch") /\ req' = [req EXCEPT ![r].retried = TRUE]
    <2>1. /\ Alone(r)
          /\ req'[r] = [req[r] EXCEPT !.retried = TRUE]
      BY <1>3, Moves DEF Alone, TypeOK
    <2>2. QED
      BY <1>1, <1>3, <2>1, Moves DEF Continues, Locals
  <1>4. CASE Deny(r)
    BY <1>4, Denies DEF Continues
  <1>5. QED
    BY <1>2, <1>3, <1>4 DEF Judge

\* A step that continues a callback, or ends it, and leaves the flows alone.
LEMMA ContinuesFlowInv ==
  ASSUME TypeOK, FlowInv, NEW r \in Requests, Continues(r),
         UNCHANGED <<flows, cookie, started, authAs, logins>>
  PROVE  FlowInv'
  <1>1. Known'
    BY DEF FlowInv, Known, Continues, Alone, Admitted
  <1>2. Established'
    BY DEF FlowInv, Established, Continues, Alone, Admitted, Resolved
  <1>3. Once'
    BY DEF FlowInv, Once, Holds, Continues, Alone, Admitted
  <1>4. LoginsBelong'
    BY DEF FlowInv, LoginsBelong
  <1>5. QED
    BY <1>1, <1>2, <1>3, <1>4 DEF FlowInv

\* A step of a callback that neither fetches nor stores keys.
LEMMA ContinuesKeyInv ==
  ASSUME TypeOK, KeyInv, NEW r \in Requests, Alone(r),
         UNCHANGED <<clock, published, log, cache>>,
         \/ step'[r] = "idle"
         \/ step[r] # "idle" /\ step'[r] # "store" /\ req'[r].now = req[r].now
  PROVE  KeyInv'
  BY DEF KeyInv, Fetched, CacheFaithful, Alone

\* What the steps that a callback makes between redemption and login are.
LEMMA MiddleSteps ==
  ASSUME TypeOK, NEW r \in Requests,
         Redeem(r) \/ AskKey(r) \/ FetchKeys(r) \/ StoreKeys(r) \/ Fail(r)
  PROVE  Continues(r) /\ UNCHANGED <<flows, cookie, started, authAs, logins>>
  <1> USE DEF oidcStore, keyVars, provider, accounts, ghosts
  <1>1. CASE Redeem(r)
    <2>1. req[r] \in Locals
      BY <1>1, Running DEF Redeem
    <2>2. PICK k \in published :
            req' = [req EXCEPT ![r] = [@ EXCEPT !.kid = k, !.bound = FALSE, !.expires = 0]]
      BY <1>1 DEF Redeem
    <2>3. /\ Alone(r)
          /\ req'[r] = [req[r] EXCEPT !.kid = k, !.bound = FALSE, !.expires = 0]
      BY <1>1, <2>2, Moves DEF Redeem, Alone, TypeOK
    <2>4. /\ req'[r].state = req[r].state /\ req'[r].code = req[r].code
          /\ req'[r].browser = req[r].browser /\ req'[r].now = req[r].now
      BY <2>1, <2>3 DEF Locals
    <2>5. step[r] = "redeem" /\ step'[r] = "key"
      BY <1>1, Moves DEF Redeem
    <2>6. QED
      BY <1>1, <2>3, <2>4, <2>5 DEF Redeem, Continues, Admitted
  <1>2. CASE AskKey(r)
    <2>1. CASE Go(r, "fetch") /\ UNCHANGED req
      BY <1>2, <2>1, Moves DEF AskKey, Continues, Alone, Admitted
    <2>2. CASE Judge(r, cache.keys)
      BY <1>2, <2>2, JudgeContinues DEF AskKey, Admitted
    <2>3. QED
      BY <1>2, <2>1, <2>2 DEF AskKey
  <1>3. CASE FetchKeys(r)
    <2>1. req[r] \in Locals
      BY <1>3, Running DEF FetchKeys
    <2>2. /\ Alone(r)
          /\ req'[r] = [req[r] EXCEPT !.payload = published]
      BY <1>3, Moves DEF FetchKeys, Alone, TypeOK
    <2>3. QED
      BY <1>3, <2>1, <2>2, Moves DEF FetchKeys, Continues, Admitted, Locals
  <1>4. CASE StoreKeys(r)
    BY <1>4, JudgeContinues DEF StoreKeys, Admitted
  <1>5. CASE Fail(r)
    BY <1>5, Denies DEF Fail, Continues
  <1>6. QED
    BY <1>1, <1>2, <1>3, <1>4, <1>5

LEMMA CallbackShape ==
  ASSUME TypeOK, NEW r \in Requests, NEW b \in Browsers, NEW c \in Flows, NEW f \in Flows,
         Callback(r, b, c, f)
  PROVE  /\ Alone(r) /\ step'[r] = "consume"
         /\ req'[r].browser = b /\ req'[r].code = c /\ req'[r].state = f
         /\ req'[r].bound = (cookie[b] = f)
         /\ req'[r].now = clock
  <1>1. req'[r] = [browser |-> b, code |-> c, state |-> f, bound |-> cookie[b] = f,
                   now |-> clock, kid |-> None, subject |-> None, retried |-> FALSE,
                   payload |-> {}, user |-> None, expires |-> 0]
    BY DEF Callback, TypeOK
  <1>2. step'[r] = "consume" /\ Alone(r)
    BY DEF Callback, TypeOK, Alone
  <1>3. QED
    BY <1>1, <1>2

LEMMA VerifyShape ==
  ASSUME TypeOK, NEW r \in Requests, Verify(r)
  PROVE  /\ Alone(r) /\ step[r] = "verify" /\ step'[r] = "resolve"
         /\ req'[r].state = req[r].state /\ req'[r].code = req[r].code
         /\ req'[r].browser = req[r].browser /\ req'[r].now = req[r].now
         /\ req[r].code = req[r].state /\ req'[r].subject = authAs[req[r].state]
  <1>1. req[r] \in Locals
    BY Running DEF Verify
  <1>2. req'[r] = [req[r] EXCEPT !.subject = authAs[req[r].code],
                     !.user = linked[authAs[req[r].code]],
                     !.kid = None, !.payload = {}, !.retried = FALSE]
    BY DEF Verify, ResolveAs, TypeOK
  <1>3. Alone(r) /\ step[r] = "verify" /\ step'[r] = "resolve" /\ req[r].code = req[r].state
    BY Moves DEF Verify, ResolveAs, Alone, TypeOK
  <1>4. QED
    BY <1>1, <1>2, <1>3 DEF Locals

LEMMA ConsumeShape ==
  ASSUME TypeOK, NEW r \in Requests, Consume(r)
  PROVE  /\ Alone(r) /\ step[r] = "consume"
         /\ DOMAIN flows' \subseteq DOMAIN flows
         /\ \A f \in DOMAIN flows' : flows'[f] = flows[f]
         /\ \/ step'[r] = "idle"
            \/ /\ req[r].state \in DOMAIN flows /\ req[r].state \notin DOMAIN flows'
               /\ req[r].now < flows[req[r].state]
               /\ step'[r] = IF req[r].bound THEN "redeem" ELSE "put_back"
               /\ req'[r].state = req[r].state /\ req'[r].code = req[r].code
               /\ req'[r].browser = req[r].browser /\ req'[r].now = req[r].now
               /\ req'[r].expires = flows[req[r].state]
  <1> DEFINE q == req[r]
             kept == Unexpired(q.now)
  <1>1. q \in Locals /\ step[r] = "consume"
    BY Running DEF Consume
  <1>2. /\ DOMAIN kept \subseteq DOMAIN flows
        /\ \A f \in DOMAIN kept : kept[f] = flows[f] /\ flows[f] > q.now
    BY UnexpiredFlows
  <1>3. CASE q.state \in DOMAIN kept /\ (q.bound \/ store = "memory")
    <2>1. /\ flows' = Without(kept, q.state)
          /\ Go(r, IF q.bound THEN "redeem" ELSE "put_back")
          /\ req' = [req EXCEPT ![r].expires = kept[q.state]]
      BY <1>3 DEF Consume
    <2>2. /\ DOMAIN flows' = DOMAIN kept \ {q.state}
          /\ \A f \in DOMAIN flows' : flows'[f] = kept[f]
      BY <2>1, WithoutFlow
    <2>3. /\ Alone(r) /\ step'[r] = IF q.bound THEN "redeem" ELSE "put_back"
          /\ req'[r] = [q EXCEPT !.expires = kept[q.state]]
      BY <2>1, Moves DEF Alone, TypeOK
    <2>4. kept[q.state] = flows[q.state] /\ q.now < flows[q.state]
      BY <1>1, <1>2, <1>3, LifetimesAssumption DEF TypeOK, Locals, Times
    <2>5. QED
      BY <1>1, <1>2, <1>3, <2>2, <2>3, <2>4 DEF Locals
  <1>4. CASE ~(q.state \in DOMAIN kept /\ (q.bound \/ store = "memory"))
    <2>1. flows' = kept /\ Deny(r)
      BY <1>4 DEF Consume
    <2>2. QED
      BY <1>1, <1>2, <2>1, Denies
  <1>5. QED
    BY <1>3, <1>4

\* The second look-up and the projection change nothing but the callback's next step.
LEMMA ResolveShape ==
  ASSUME TypeOK, NEW r \in Requests, Resolve(r) \/ Project(r)
  PROVE  /\ Alone(r) /\ Resolved(r) /\ step'[r] \in {"project", "write"} /\ UNCHANGED req
         /\ UNCHANGED <<clock, flows, cookie, started, authAs, published, log, cache, logins>>
  BY Moves DEF Resolve, Project, Resolved, Alone, oidcStore, keyVars, provider, ghosts

LEMMA EnterShape ==
  ASSUME TypeOK, NEW r \in Requests, Enter(r)
  PROVE  /\ Alone(r) /\ step[r] = "write" /\ step'[r] = "idle"
         /\ cookie' = [cookie EXCEPT ![req[r].browser] = None]
         /\ UNCHANGED <<flows, started, authAs>>
         /\ \E l : /\ logins' = logins \cup {l}
                   /\ l.flow = req[r].state /\ l.browser = req[r].browser
                   /\ l.now = req[r].now /\ l.subject = req[r].subject
                   /\ l.user = req[r].user
                   /\ l.again = \E m \in logins : m.flow = req[r].state
  <1> DEFINE entry ==
        [flow |-> req[r].state, browser |-> req[r].browser, now |-> req[r].now,
         subject |-> req[r].subject, user |-> req[r].user,
         again |-> \E m \in logins : m.flow = req[r].state]
  <1>1. Alone(r) /\ step'[r] = "idle"
    BY Denies DEF Enter
  <1>2. /\ step[r] = "write" /\ UNCHANGED <<flows, started, authAs>>
        /\ cookie' = [cookie EXCEPT ![req[r].browser] = None]
        /\ logins' = logins \cup {entry}
    BY DEF Enter, oidcStore, provider
  <1>3. /\ entry.flow = req[r].state /\ entry.browser = req[r].browser
        /\ entry.now = req[r].now /\ entry.subject = req[r].subject
        /\ entry.user = req[r].user
        /\ entry.again = \E m \in logins : m.flow = req[r].state
    OBVIOUS
  <1>4. QED
    BY <1>1, <1>2, <1>3

----------------------------------------------------------------------------
(* The flow invariant *)

LEMMA InitFlowInv == ASSUME Init PROVE FlowInv
  BY DEF Init, FlowInv, Known, Established, Once, LoginsBelong, Holds, Admitted, Resolved

LEMMA StepFlowInv == ASSUME TypeOK, FlowInv, [Next]_vars PROVE FlowInv'
  <1> USE DEF oidcStore, keyVars, provider, accounts, ghosts
  \* Steps that change nothing the invariant speaks of, but who has authenticated.
  <1>1. ASSUME \/ Tick \/ (\E k \in Kids : Rotate(k)) \/ (\E u \in Users : Disable(u) \/ Enable(u))
               \/ (\E s \in Subjects, u \in Users : Relink(s, u)) \/ UNCHANGED vars
        PROVE  FlowInv'
    <2>1. UNCHANGED <<flows, cookie, started, authAs, logins, step, req>>
      BY <1>1 DEF Tick, Rotate, Disable, Enable, Relink, vars
    <2>2. QED
      BY <2>1 DEF FlowInv, Known, Established, Once, LoginsBelong, Holds, Admitted, Resolved
  <1>2. ASSUME NEW f \in Flows, NEW s \in Subjects, Authenticate(f, s) PROVE FlowInv'
    <2>1. /\ UNCHANGED <<flows, cookie, started, logins, step, req>>
          /\ \A g \in Flows : authAs[g] # None => authAs'[g] = authAs[g]
      BY <1>2 DEF Authenticate, TypeOK
    <2>2. \A r \in Requests : step[r] # "idle" => req[r].code \in Flows /\ req[r].state \in Flows
      BY Running DEF Locals
    <2>3. Known'
      BY <2>1, <2>2 DEF FlowInv, Known
    <2>4. Established'
      BY <2>1, <2>2 DEF FlowInv, Known, Established, Admitted, Resolved
    <2>5. Once'
      BY <2>1 DEF FlowInv, Once, Holds
    <2>6. LoginsBelong'
      BY <2>1 DEF FlowInv, Known, LoginsBelong
    <2>7. QED
      BY <2>3, <2>4, <2>5, <2>6 DEF FlowInv
  <1>3. ASSUME NEW b \in Browsers, NEW f \in Flows, Login(b, f) PROVE FlowInv'
    <2>1. /\ started[f] = None /\ UNCHANGED <<authAs, logins, step, req>>
          /\ started'[f] # None /\ started'[f].by = b /\ started'[f].at = clock
          /\ \A g \in Flows \ {f} : started'[g] = started[g]
          /\ cookie'[b] = f /\ \A a \in Browsers \ {b} : cookie'[a] = cookie[a]
      <3>1. started' = [started EXCEPT ![f] = [by |-> b, at |-> clock]]
        BY <1>3 DEF Login
      <3>2. started'[f] = [by |-> b, at |-> clock]
        BY <3>1 DEF TypeOK
      <3>3. started'[f] # None
        BY <3>2, NoneAssumption DEF TypeOK, Times
      <3>4. QED
        BY <1>3, <3>1, <3>2, <3>3 DEF Login, TypeOK
    <2>2. /\ f \in DOMAIN flows' /\ flows'[f] = clock + FlowTtl
          /\ DOMAIN flows' \subseteq DOMAIN flows \cup {f}
          /\ \A g \in DOMAIN flows' \ {f} : flows'[g] = flows[g]
      BY <1>3, UnexpiredFlows DEF Login, WithFlow
    <2>3. \A r \in Requests : step[r] # "idle" => req[r].state \in Flows /\ req[r].state # f
      BY <2>1, Running DEF Locals, FlowInv, Known
    <2>4. Known'
      BY <2>1, <2>2, <2>3 DEF FlowInv, Known, TypeOK
    <2>5. Established'
      BY <2>1, <2>3 DEF FlowInv, Established, Admitted, Resolved
    <2>6. Once'
      BY <2>1, <2>2, <2>3 DEF FlowInv, Known, Once, Holds
    <2>7. LoginsBelong'
      BY <2>1 DEF FlowInv, Known, LoginsBelong
    <2>8. QED
      BY <2>4, <2>5, <2>6, <2>7 DEF FlowInv
  <1>4. ASSUME NEW r \in Requests, NEW b \in Browsers, NEW c \in Flows, NEW f \in Flows,
               Callback(r, b, c, f)
        PROVE  FlowInv'
    <2>1. /\ UNCHANGED <<flows, cookie, started, authAs, logins>>
          /\ started[f] # None /\ authAs[c] # None
      BY <1>4 DEF Callback
    <2>2. Known'
      BY <1>4, <2>1, CallbackShape DEF FlowInv, Known, Alone
    <2>3. Established'
      <3>1. cookie[b] = f => started[f].by = b
        BY NoneAssumption DEF FlowInv, Known
      <3>2. req'[r].bound = (cookie[b] = f)
        BY <1>4, CallbackShape
      <3>3. req'[r].bound => started[f].by = b
        BY <3>1, <3>2, Zenon
      <3>4. QED
        BY <1>4, <2>1, <3>3, CallbackShape DEF FlowInv, Established, Admitted, Resolved, Alone
    <2>4. Once'
      BY <1>4, <2>1, CallbackShape DEF FlowInv, Once, Holds, Alone
    <2>5. LoginsBelong'
      BY <2>1 DEF FlowInv, LoginsBelong
    <2>6. QED
      BY <2>2, <2>3, <2>4, <2>5 DEF FlowInv
  <1>5. ASSUME NEW r \in Requests, Consume(r) PROVE FlowInv'
    <2>1. UNCHANGED <<cookie, started, authAs, logins>>
      BY <1>5 DEF Consume
    <2>2. Known'
      BY <1>5, <2>1, ConsumeShape DEF FlowInv, Known, Alone
    <2>3. Established'
      BY <1>5, <2>1, ConsumeShape DEF FlowInv, Known, Established, Admitted, Resolved, Alone
    <2>4. Once'
      BY <1>5, <2>1, ConsumeShape DEF FlowInv, Once, Holds, Alone
    <2>5. LoginsBelong'
      BY <2>1 DEF FlowInv, LoginsBelong
    <2>6. QED
      BY <2>2, <2>3, <2>4, <2>5 DEF FlowInv
  <1>6. ASSUME NEW r \in Requests, PutBack(r) PROVE FlowInv'
    <2> DEFINE f == req[r].state
    <2>1. /\ UNCHANGED <<cookie, started, authAs, logins>>
          /\ step[r] = "put_back" /\ step'[r] = "idle" /\ Alone(r)
      BY <1>6, Denies DEF PutBack
    <2>2. /\ DOMAIN flows' = DOMAIN flows \cup {f}
          /\ flows'[f] = started[f].at + FlowTtl
          /\ \A g \in DOMAIN flows \ {f} : flows'[g] = flows[g]
      BY <1>6 DEF PutBack, FlowInv, Established
    <2>3. Known'
      BY <2>1, <2>2 DEF FlowInv, Known, Alone
    <2>4. Established'
      BY <2>1 DEF FlowInv, Established, Admitted, Resolved, Alone
    <2>5. Once'
      BY <2>1, <2>2 DEF FlowInv, Once, Holds, Alone
    <2>6. LoginsBelong'
      BY <2>1 DEF FlowInv, LoginsBelong
    <2>7. QED
      BY <2>3, <2>4, <2>5, <2>6 DEF FlowInv
  <1>7. ASSUME NEW r \in Requests,
               Redeem(r) \/ AskKey(r) \/ FetchKeys(r) \/ StoreKeys(r) \/ Fail(r)
        PROVE  FlowInv'
    BY <1>7, MiddleSteps, ContinuesFlowInv
  <1>8. ASSUME NEW r \in Requests, Verify(r) PROVE FlowInv'
    <2>1. UNCHANGED <<flows, cookie, started, authAs, logins>>
      BY <1>8 DEF Verify, ResolveAs
    <2>2. Known'
      BY <1>8, <2>1, VerifyShape DEF FlowInv, Known, Alone
    <2>3. Established'
      BY <1>8, <2>1, VerifyShape DEF FlowInv, Established, Admitted, Resolved, Alone
    <2>4. Once'
      BY <1>8, <2>1, VerifyShape DEF FlowInv, Once, Holds, Alone
    <2>5. LoginsBelong'
      BY <2>1 DEF FlowInv, LoginsBelong
    <2>6. QED
      BY <2>2, <2>3, <2>4, <2>5 DEF FlowInv
  <1>11. ASSUME NEW r \in Requests, Resolve(r) \/ Project(r) PROVE FlowInv'
    <2>1. /\ UNCHANGED <<flows, cookie, started, authAs, logins, req>>
          /\ Alone(r) /\ Resolved(r) /\ step'[r] \in {"project", "write"}
      BY <1>11, ResolveShape
    <2>2. Known'
      BY <2>1 DEF FlowInv, Known, Resolved, Alone
    <2>3. Established'
      BY <2>1 DEF FlowInv, Established, Admitted, Resolved, Alone
    <2>4. Once'
      BY <2>1 DEF FlowInv, Once, Holds, Resolved, Alone
    <2>5. LoginsBelong'
      BY <2>1 DEF FlowInv, LoginsBelong
    <2>6. QED
      BY <2>2, <2>3, <2>4, <2>5 DEF FlowInv
  <1>9. ASSUME NEW r \in Requests, Enter(r) PROVE FlowInv'
    <2>1. PICK l : /\ logins' = logins \cup {l}
                   /\ l.flow = req[r].state /\ l.browser = req[r].browser
                   /\ l.now = req[r].now /\ l.subject = req[r].subject
                   /\ l.user = req[r].user
                   /\ l.again = \E m \in logins : m.flow = req[r].state
      BY <1>9, EnterShape
    <2>2. /\ UNCHANGED <<flows, started, authAs>>
          /\ Alone(r) /\ step[r] = "write" /\ step'[r] = "idle"
          /\ \A b \in Browsers : cookie'[b] \in {cookie[b], None}
      BY <1>9, EnterShape DEF TypeOK
    <2>3. req[r] \in Locals
      BY <2>2, Running
    <2>4. Known'
      BY <2>1, <2>2, <2>3 DEF FlowInv, Known, Established, Admitted, Resolved, Alone, Locals
    <2>5. Established'
      BY <2>2 DEF FlowInv, Established, Admitted, Resolved, Alone
    <2>6. Once'
      BY <2>1, <2>2 DEF FlowInv, Once, Holds, Alone
    <2>7. LoginsBelong'
      <3>1. ~l.again
        BY <2>1, <2>2 DEF FlowInv, Once, Holds
      <3>2. /\ started[l.flow].by = l.browser /\ l.now < started[l.flow].at + FlowTtl
            /\ authAs[l.flow] = l.subject
        BY <2>1, <2>2 DEF FlowInv, Established, Admitted, Resolved
      <3>3. QED
        BY <2>1, <2>2, <3>1, <3>2 DEF FlowInv, LoginsBelong
    <2>8. QED
      BY <2>4, <2>5, <2>6, <2>7 DEF FlowInv
  <1>10. QED
    BY <1>1, <1>2, <1>3, <1>4, <1>5, <1>6, <1>7, <1>8, <1>9, <1>11 DEF Next, Step

----------------------------------------------------------------------------
(* The key cache *)

LEMMA InitKeyInv == ASSUME Init PROVE KeyInv
  BY DEF Init, KeyInv, Fetched, CacheFaithful

LEMMA StepKeyInv == ASSUME TypeOK, KeyInv, [Next]_vars PROVE KeyInv'
  <1> USE DEF oidcStore, keyVars, provider, accounts, ghosts
  \* Times and lifetimes are numbers.
  <1>1. clock \in Int /\ KeyTtl \in Int
    BY LifetimesAssumption DEF TypeOK, Times
  <1>2. \A r \in Requests : step[r] # "idle" => req[r].now \in Int
    BY Running DEF Locals, Times
  <1>3. ASSUME \/ \E b \in Browsers, f \in Flows : Login(b, f)
               \/ \E f \in Flows, s \in Subjects : Authenticate(f, s)
               \/ \E u \in Users : Disable(u) \/ Enable(u)
               \/ \E s \in Subjects, u \in Users : Relink(s, u)
               \/ UNCHANGED vars
        PROVE  KeyInv'
    <2>1. UNCHANGED <<clock, published, log, cache, step, req>>
      BY <1>3 DEF Login, Authenticate, Disable, Enable, Relink, vars
    <2>2. QED
      BY <2>1 DEF KeyInv, Fetched, CacheFaithful
  <1>4. ASSUME Tick PROVE KeyInv'
    BY <1>1, <1>2, <1>4 DEF Tick, KeyInv, Fetched, CacheFaithful
  <1>5. ASSUME NEW k \in Kids, Rotate(k) PROVE KeyInv'
    BY <1>5 DEF Rotate, KeyInv, Fetched, CacheFaithful
  <1>6. ASSUME NEW r \in Requests, NEW b \in Browsers, NEW c \in Flows, NEW f \in Flows,
               Callback(r, b, c, f)
        PROVE  KeyInv'
    <2>1. UNCHANGED <<clock, published, log, cache>>
      BY <1>6 DEF Callback
    <2>2. QED
      BY <1>1, <1>6, <2>1, CallbackShape DEF KeyInv, Fetched, CacheFaithful, Alone
  <1>7. ASSUME NEW r \in Requests, 
               Consume(r) \/ PutBack(r) \/ Verify(r) \/ Resolve(r) \/ Project(r) \/ Enter(r)
        PROVE  KeyInv'
    <2>1. UNCHANGED <<clock, published, log, cache>>
      BY <1>7 DEF Consume, PutBack, Verify, ResolveAs, Resolve, Project, Enter
    <2>2. /\ Alone(r)
          /\ \/ step'[r] = "idle"
             \/ step[r] # "idle" /\ step'[r] # "store" /\ req'[r].now = req[r].now
      BY <1>7, ConsumeShape, Denies, VerifyShape, ResolveShape, EnterShape
         DEF PutBack, Resolved
    <2>3. QED
      BY <2>1, <2>2, ContinuesKeyInv
  <1>8. ASSUME NEW r \in Requests, Redeem(r) \/ Fail(r) PROVE KeyInv'
    <2>1. UNCHANGED <<clock, published, log, cache>>
      BY <1>8 DEF Redeem, Fail
    <2>2. Alone(r) /\ step'[r] \in {"idle", "key"} /\ (step'[r] # "idle" => step[r] # "idle")
      BY <1>8, MiddleSteps, Moves, Denies DEF Redeem, Fail, Continues
    <2>3. step'[r] # "idle" => req'[r].now = req[r].now
      BY <1>8, MiddleSteps DEF Continues
    <2>4. QED
      BY <2>1, <2>2, <2>3, ContinuesKeyInv
  <1>9. ASSUME NEW r \in Requests, AskKey(r) PROVE KeyInv'
    <2>1. UNCHANGED <<clock, published, log, cache>> /\ step[r] = "key"
      BY <1>9 DEF AskKey
    <2>2. Continues(r)
      BY <1>9, MiddleSteps
    <2>3. step'[r] # "store"
      BY <1>9, Moves, JudgeContinues DEF AskKey, Admitted
    <2>4. QED
      BY <2>1, <2>2, <2>3, ContinuesKeyInv DEF Continues
  <1>10. ASSUME NEW r \in Requests, FetchKeys(r) PROVE KeyInv'
    <2>1. req[r] \in Locals
      BY <1>10, Running DEF FetchKeys
    <2>2. /\ UNCHANGED <<clock, published, log, cache>>
          /\ step[r] = "fetch" /\ step'[r] = "store" /\ Alone(r)
          /\ req'[r] = [req[r] EXCEPT !.payload = published]
      BY <1>10, Moves DEF FetchKeys, Alone, TypeOK
    <2>3. req'[r].payload = published /\ req'[r].now = req[r].now
      BY <2>1, <2>2 DEF Locals
    <2>4. QED
      BY <2>2, <2>3 DEF KeyInv, Fetched, CacheFaithful, Alone
  <1>11. ASSUME NEW r \in Requests, StoreKeys(r) PROVE KeyInv'
    <2>1. step[r] = "store" /\ UNCHANGED <<clock, published, log>>
      BY <1>11 DEF StoreKeys
    <2>2. cache'.keys = req[r].payload /\ cache'.expires = req[r].now + KeyTtl
      BY <1>11 DEF StoreKeys
    <2>3. Continues(r) /\ step'[r] # "store"
      BY <1>11, MiddleSteps, JudgeContinues DEF StoreKeys, Admitted
    <2>4. Fetched'
      BY <2>1, <2>3 DEF KeyInv, Fetched, Continues, Alone
    <2>5. CacheFaithful'
      <3>1. cache'.expires - KeyTtl = req[r].now
        BY <1>1, <1>2, <2>1, <2>2
      <3>2. \E e \in log : e.keys = req[r].payload /\ e.at >= req[r].now
        BY <2>1 DEF KeyInv, Fetched
      <3>3. QED
        BY <2>1, <2>2, <3>1, <3>2 DEF CacheFaithful
    <2>6. QED
      BY <2>4, <2>5 DEF KeyInv
  <1>12. QED
    BY <1>3, <1>4, <1>5, <1>6, <1>7, <1>8, <1>9, <1>10, <1>11 DEF Next, Step

----------------------------------------------------------------------------
(* The account *)

\* No other step takes a callback to the host's projection.
LEMMA OnlyResolve ==
  ASSUME TypeOK, Step, NEW r \in Requests, step'[r] \in {"project", "write"},
         step[r] \notin {"project", "write"}
  PROVE  Resolve(r)
  <1> SUFFICES ASSUME ~Resolve(r) PROVE FALSE
    OBVIOUS
  <1>1. ASSUME UNCHANGED step PROVE FALSE
    BY <1>1
  <1>2. ASSUME NEW q \in Requests, NEW s, Go(q, s), s \notin {"project", "write"} PROVE FALSE
    BY <1>2 DEF TypeOK, Go
  <1>3. ASSUME NEW q \in Requests, Go(q, "project"), q # r PROVE FALSE
    BY <1>3 DEF TypeOK, Go
  <1>4. ASSUME NEW q \in Requests, Go(q, "write"), step[q] = "project" PROVE FALSE
    BY <1>4 DEF TypeOK, Go
  <1>5. ASSUME NEW q \in Requests, NEW keys, Judge(q, keys) PROVE FALSE
    BY <1>2, <1>5 DEF Judge, Deny
  <1>6. ASSUME NEW q \in Requests,
               Consume(q) \/ PutBack(q) \/ Redeem(q) \/ FetchKeys(q) \/ Verify(q) \/ Enter(q) \/ Fail(q)
        PROVE  FALSE
    BY <1>2, <1>6 DEF Consume, PutBack, Redeem, FetchKeys, Verify, ResolveAs, Enter, Fail, Deny
  <1>7. ASSUME NEW q \in Requests, AskKey(q) \/ StoreKeys(q) PROVE FALSE
    BY <1>2, <1>5, <1>7 DEF AskKey, StoreKeys
  <1>8. ASSUME NEW q \in Requests, Resolve(q) \/ Project(q) PROVE FALSE
    BY <1>3, <1>4, <1>8 DEF Resolve, Project
  <1>9. ASSUME NEW q \in Requests, NEW b \in Browsers, NEW c \in Flows, NEW f \in Flows,
               Callback(q, b, c, f)
        PROVE  FALSE
    BY <1>2, <1>9 DEF Callback, Go
  <1>10. QED
    BY <1>1, <1>6, <1>7, <1>8, <1>9
       DEF Step, Tick, Login, Authenticate, Rotate, Disable, Enable, Relink

\* What passes the check of the account has been active and the subject's at a moment.
LEMMA StepChecked == ASSUME TypeOK, Checked, [Next]_vars PROVE Checked'
  <1>1. CASE UNCHANGED vars
    BY <1>1 DEF vars, Checked
  <1>2. ASSUME Step, Remember, NEW r \in Requests, step'[r] \in {"project", "write"}
        PROVE  r \in sound'
    <2>1. CASE step[r] \in {"project", "write"}
      BY <1>2, <2>1 DEF Checked, Remember
    <2>2. CASE step[r] \notin {"project", "write"}
      <3>1. Resolve(r)
        BY <1>2, <2>2, OnlyResolve
      <3>2. Sound(r)'
        BY <3>1 DEF Resolve, Sound, accounts
      <3>3. QED
        BY <1>2, <3>2 DEF Remember
    <2>3. QED
      BY <2>1, <2>2
  <1>3. QED
    BY <1>1, <1>2 DEF Next, Checked

----------------------------------------------------------------------------
(* Theorems *)

LEMMA Invariance == Spec => [](TypeOK /\ FlowInv /\ KeyInv /\ Checked)
  <1>1. Init => TypeOK /\ FlowInv /\ KeyInv /\ Checked
    <2>1. Init => Checked
      BY DEF Init, Checked
    <2>2. QED
      BY <2>1, InitTyped, InitFlowInv, InitKeyInv
  <1>2. TypeOK /\ FlowInv /\ KeyInv /\ Checked /\ [Next]_vars => (TypeOK /\ FlowInv /\ KeyInv /\ Checked)'
    <2> SUFFICES ASSUME TypeOK, FlowInv, KeyInv, Checked, [Next]_vars
                 PROVE  (TypeOK /\ FlowInv /\ KeyInv /\ Checked)'
      OBVIOUS
    <2>1. TypeOK'
      BY StepTyped DEF FlowInv
    <2>2. QED
      BY <2>1, StepFlowInv, StepKeyInv, StepChecked
  <1>3. QED
    BY <1>1, <1>2, PTL DEF Spec

\* The flow stores, the cookies, the key cache with its bounded refreshes and the locals
\* of every callback keep their types.
THEOREM TypeCorrect == Spec => []TypeOK
  BY Invariance, PTL

\* However callbacks interleave, and whatever code and state reach whatever browser: a
\* flow of either store logs in once, where it began, before it expires, and as the
\* subject that authenticated for it.
THEOREM LoginsAlwaysBelong == Spec => []LoginsBelong
  <1>1. FlowInv => LoginsBelong
    BY DEF FlowInv
  <1>2. QED
    BY <1>1, Invariance, PTL

\* Overlapping fetches of the key set never make the cache trust keys for longer than
\* their lifetime from a moment at which the provider published them.
THEOREM CacheAlwaysFaithful == Spec => []CacheFaithful
  <1>1. KeyInv => CacheFaithful
    BY DEF KeyInv
  <1>2. QED
    BY <1>1, Invariance, PTL

\* However accounts are disabled, enabled and linked anew between the steps of any
\* number of callbacks: a session is written only for an account that was active and
\* linked to the token's subject, both at one moment after the token was verified.
THEOREM LoginsAlwaysSound == Spec => LoginsAreSound
  <1> DEFINE Founded == \A r \in Requests : Enters(r) => r \in sound
  <1>1. Checked => Founded
    BY DEF Checked, Enters
  <1>2. Checked /\ [Next]_vars => [Founded]_vars
    BY <1>1
  <1>3. QED
    BY <1>2, Invariance, PTL DEF Spec, LoginsAreSound
=============================================================================
