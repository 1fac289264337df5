----------------------------- MODULE OidcLogin -----------------------------
(***************************************************************************)
(* Login through an OpenID provider (adapters/oidc.py, oidc_fastapi.py and *)
(* sqlite_oidc_flows.py): one-time flows bound to a browser's cookie, the  *)
(* callback that consumes a flow, redeems the code, verifies the token and *)
(* resolves the local account, and the cache of the provider's keys that   *)
(* the verification asks.                                                  *)
(*                                                                         *)
(* /oidc/login draws a state, a nonce, a verifier and a binding together:  *)
(* the flow stands for all four.  Callbacks run in a thread pool, so their *)
(* steps interleave; a callback keeps the time at which it began.  No      *)
(* transaction spans the look-ups of the account, the host's projection    *)
(* and the write of the session: accounts change between any two of them.  *)
(***************************************************************************)
EXTENDS Integers

CONSTANTS
  Flows,      \* authorization flows, each started at most once
  Browsers,
  Requests,   \* threads that run a callback
  Subjects,   \* end users at the provider
  Users,      \* local accounts
  Kids,       \* identifiers of the provider's keys
  None,
  Stores,     \* the flow stores of a product: "sqlite", "memory"
  FlowTtl, KeyTtl, MaxRefreshes,  \* ttl_seconds, ttl_seconds, max_unknown_kid_refreshes
  MaxTime     \* bound of the clock

ASSUME LifetimesAssumption ==
  {FlowTtl, KeyTtl} \subseteq Nat \ {0} /\ {MaxRefreshes, MaxTime} \subseteq Nat
ASSUME NoneAssumption ==
  None \notin Flows \cup Users /\ None \notin [by : Browsers, at : Nat]
ASSUME StoresAssumption == Stores \subseteq {"sqlite", "memory"}

Times == 0..MaxTime

VARIABLES
  clock,
  store,      \* the flow store in use
  flows,      \* stored flow -> its expiry
  cookie,     \* browser -> the binding its oidc_flow cookie holds
  started,    \* history: flow -> the browser that began it, and when
  authAs,     \* provider: flow -> the subject that authenticated for its code
  published,  \* provider: the keys it publishes
  log,        \* history: what was published when
  cache,      \* OidcJwksCache: keys, and when they expire
  attempts,   \* OidcJwksCache._unknown_kid_refreshes
  linked,     \* subject -> the account its identity is linked to
  active,     \* accounts that are active
  logins,     \* history: the logins written to the browsers' sessions
  step,       \* request -> its next step
  req,        \* request -> its locals
  sound       \* history: the requests whose account was once active and the subject's

oidcStore == <<store, flows>>
keyVars == <<cache, attempts>>
provider == <<authAs, published, log>>
accounts == <<linked, active>>
ghosts == <<started, logins>>
vars == <<clock, oidcStore, cookie, provider, keyVars, accounts, ghosts, step, req, sound>>

\* bound: the cookie sent with the callback holds the binding of its state.
Locals ==
  [browser : Browsers, code : Flows, state : Flows, bound : BOOLEAN,
   now : Times, kid : Kids \cup {None}, subject : Subjects \cup {None},
   retried : BOOLEAN, payload : SUBSET Kids, user : Users \cup {None},
   expires : 0..(MaxTime + FlowTtl)]

Idle == [browser |-> None, now |-> 0]

Steps == {"idle", "consume", "put_back", "redeem", "key", "fetch", "store", "verify",
          "resolve", "project", "write"}

TypeOK ==
  /\ clock \in Times /\ store \in Stores
  /\ DOMAIN flows \subseteq Flows /\ \A f \in DOMAIN flows : flows[f] \in 0..(MaxTime + FlowTtl)
  /\ cookie \in [Browsers -> Flows \cup {None}]
  /\ started \in [Flows -> [by : Browsers, at : Times] \cup {None}]
  /\ authAs \in [Flows -> Subjects \cup {None}]
  /\ published \subseteq Kids /\ log \subseteq [at : Times, keys : SUBSET Kids]
  /\ cache \in [keys : SUBSET Kids, expires : 0..(MaxTime + KeyTtl)]
  /\ attempts \in [Kids -> 0..MaxRefreshes]
  /\ linked \in [Subjects -> Users \cup {None}] /\ active \subseteq Users
  /\ step \in [Requests -> Steps] /\ req \in [Requests -> Locals \cup {Idle}]
  /\ \A r \in Requests : step[r] = "idle" <=> req[r] = Idle
  /\ sound \subseteq Requests

Init ==
  /\ clock = 0
  /\ store \in Stores
  /\ flows = [f \in {} |-> 0]
  /\ cookie = [b \in Browsers |-> None]
  /\ started = [f \in Flows |-> None]
  /\ authAs = [f \in Flows |-> None]
  /\ \E k \in Kids : published = {k}
  /\ log = {[at |-> 0, keys |-> published]}
  /\ cache = [keys |-> {}, expires |-> 0]
  /\ attempts = [k \in Kids |-> 0]
  /\ linked \in [Subjects -> Users]
  /\ active = Users
  /\ logins = {}
  /\ step = [r \in Requests |-> "idle"]
  /\ req = [r \in Requests |-> Idle]
  /\ sound = {}

----------------------------------------------------------------------------
(* The environment: time, the provider, account administration *)

Tick ==
  /\ clock < MaxTime
  /\ clock' = clock + 1
  /\ log' = log \cup {[at |-> clock + 1, keys |-> published]}
  /\ UNCHANGED <<oidcStore, cookie, authAs, published, keyVars, accounts,
                 ghosts, step, req>>

\* The end user authenticates for the flow the browser was redirected with.
Authenticate(f, s) ==
  /\ started[f] # None
  /\ authAs[f] = None
  /\ authAs' = [authAs EXCEPT ![f] = s]
  /\ UNCHANGED <<clock, oidcStore, cookie, published, log, keyVars, accounts,
                 ghosts, step, req>>

\* The provider replaces its key by a new one.
Rotate(k) ==
  /\ \A e \in log : k \notin e.keys
  /\ published' = {k}
  /\ log' = log \cup {[at |-> clock, keys |-> published']}
  /\ UNCHANGED <<clock, oidcStore, cookie, authAs, keyVars, accounts,
                 ghosts, step, req>>

Disable(u) ==
  /\ active = Users \* one account at most is disabled
  /\ active' = active \ {u}
  /\ UNCHANGED <<clock, oidcStore, cookie, provider, keyVars, linked,
                 ghosts, step, req>>

Enable(u) ==
  /\ u \notin active
  /\ active' = active \cup {u}
  /\ UNCHANGED <<clock, oidcStore, cookie, provider, keyVars, linked,
                 ghosts, step, req>>

\* An account is purged and the identity linked to another one.
Relink(s, u) ==
  /\ linked[s] # u
  /\ linked' = [linked EXCEPT ![s] = u]
  /\ UNCHANGED <<clock, oidcStore, cookie, provider, keyVars, active,
                 ghosts, step, req>>

----------------------------------------------------------------------------
(* Flow stores *)

Unexpired(at) == [f \in {g \in DOMAIN flows : flows[g] > at} |-> flows[f]]
Without(fl, f) == [g \in DOMAIN fl \ {f} |-> fl[g]]

\* The store's start.
WithFlow(f) ==
  [g \in DOMAIN Unexpired(clock) \cup {f} |-> IF g = f THEN clock + FlowTtl ELSE flows[g]]

\* GET /oidc/login: the cookie of the browser is replaced.
Login(b, f) ==
  /\ started[f] = None
  /\ started' = [started EXCEPT ![f] = [by |-> b, at |-> clock]]
  /\ flows' = WithFlow(f)
  /\ cookie' = [cookie EXCEPT ![b] = f]
  /\ UNCHANGED <<clock, store, provider, keyVars, accounts, logins, step, req>>

\* GET /oidc/callback with any code and state, in any browser.
Callback(r, b, code, state) ==
  /\ step[r] = "idle"
  /\ {code, state} \subseteq {f \in Flows : started[f] # None}
  /\ authAs[code] # None
  /\ req' = [req EXCEPT ![r] =
       [browser |-> b, code |-> code, state |-> state, bound |-> cookie[b] = state,
        now |-> clock, kid |-> None, subject |-> None, retried |-> FALSE,
        payload |-> {}, user |-> None, expires |-> 0]]
  /\ step' = [step EXCEPT ![r] = "consume"]
  /\ UNCHANGED <<clock, oidcStore, cookie, provider, keyVars, accounts, ghosts>>

Go(r, s) == step' = [step EXCEPT ![r] = s]

\* PermissionError: the callback answers 401.
Deny(r) ==
  /\ Go(r, "idle")
  /\ req' = [req EXCEPT ![r] = Idle]

Consume_Reusable(r) ==
  LET q == req[r]  kept == Unexpired(q.now) IN
  /\ step[r] = "consume"
  /\ flows' = kept
  /\ IF q.state \in DOMAIN kept /\ q.bound
     THEN Go(r, "redeem") /\ UNCHANGED req
     ELSE Deny(r)
  /\ UNCHANGED <<clock, store, cookie, provider, keyVars, accounts, ghosts>>

\* The expired flows go, and the flow of this state and binding if it is there.
\* The memory store takes the flow out first and puts it back (PutBack).
Consume(r) ==
  LET q == req[r]  kept == Unexpired(q.now) IN
  /\ step[r] = "consume"
  /\ IF q.state \in DOMAIN kept /\ (q.bound \/ store = "memory")
     THEN /\ flows' = Without(kept, q.state)
          /\ Go(r, IF q.bound THEN "redeem" ELSE "put_back")
          /\ req' = [req EXCEPT ![r].expires = kept[q.state]]
     ELSE /\ flows' = kept
          /\ Deny(r)
  /\ UNCHANGED <<clock, store, cookie, provider, keyVars, accounts, ghosts>>

\* Another browser's flow goes back into the memory store as it was.
PutBack(r) ==
  /\ step[r] = "put_back"
  /\ flows' = [f \in DOMAIN flows \cup {req[r].state} |->
                 IF f = req[r].state THEN req[r].expires ELSE flows[f]]
  /\ Deny(r)
  /\ UNCHANGED <<clock, store, cookie, provider, keyVars, accounts, ghosts>>

\* The provider gives a token for a code it has issued; that it does so once, and
\* for the verifier of the code's own flow, is not relied on.
Redeem(r) ==
  /\ step[r] = "redeem"
  /\ \E k \in published :
       req' = [req EXCEPT ![r] = [@ EXCEPT !.kid = k, !.bound = FALSE, !.expires = 0]]
  /\ Go(r, "key")
  /\ UNCHANGED <<clock, oidcStore, cookie, provider, keyVars, accounts, ghosts>>

----------------------------------------------------------------------------
(* The key of the token: OidcJwksCache.key_for *)

Judge_Unbounded(r, keys) ==
  LET k == req[r].kid IN
  \/ /\ k \in keys
     /\ attempts' = [attempts EXCEPT ![k] = 0]
     /\ Go(r, "verify")
     /\ UNCHANGED req
  \/ /\ k \notin keys
     /\ ~req[r].retried
     /\ attempts' = [attempts EXCEPT ![k] = @ + 1]
     /\ Go(r, "fetch")
     /\ req' = [req EXCEPT ![r].retried = TRUE]
  \/ /\ k \notin keys
     /\ req[r].retried
     /\ Deny(r)
     /\ UNCHANGED attempts

\* A key that is not cached is fetched for at most MaxRefreshes times until it
\* has been found.
Judge(r, keys) ==
  LET k == req[r].kid IN
  \/ /\ k \in keys
     /\ attempts' = [attempts EXCEPT ![k] = 0]
     /\ Go(r, "verify")
     /\ UNCHANGED req
  \/ /\ k \notin keys
     /\ ~req[r].retried
     /\ attempts[k] < MaxRefreshes
     /\ attempts' = [attempts EXCEPT ![k] = @ + 1]
     /\ Go(r, "fetch")
     /\ req' = [req EXCEPT ![r].retried = TRUE]
  \/ /\ k \notin keys
     /\ req[r].retried \/ attempts[k] >= MaxRefreshes
     /\ Deny(r)
     /\ UNCHANGED attempts

AskKey(r) ==
  /\ step[r] = "key"
  /\ IF req[r].now >= cache.expires
     THEN Go(r, "fetch") /\ UNCHANGED <<attempts, req>>
     ELSE Judge(r, cache.keys)
  /\ UNCHANGED <<clock, oidcStore, cookie, provider, cache, accounts, ghosts>>

FetchKeys(r) ==
  /\ step[r] = "fetch"
  /\ req' = [req EXCEPT ![r].payload = published]
  /\ Go(r, "store")
  /\ UNCHANGED <<clock, oidcStore, cookie, provider, keyVars, accounts, ghosts>>

StoreKeys_LateExpiry(r) ==
  /\ step[r] = "store"
  /\ cache' = [keys |-> req[r].payload, expires |-> clock + KeyTtl]
  /\ Judge(r, req[r].payload)
  /\ UNCHANGED <<clock, oidcStore, cookie, provider, accounts, ghosts>>

\* The keys expire counted from the time at which the callback began.
StoreKeys(r) ==
  /\ step[r] = "store"
  /\ cache' = [keys |-> req[r].payload, expires |-> req[r].now + KeyTtl]
  /\ Judge(r, req[r].payload)
  /\ UNCHANGED <<clock, oidcStore, cookie, provider, accounts, ghosts>>

----------------------------------------------------------------------------
(* The token and the account *)

ResolveAs(r, subject) ==
  /\ linked[subject] # None
  /\ req' = [req EXCEPT ![r] = [@ EXCEPT !.subject = subject, !.user = linked[subject],
                 !.kid = None, !.payload = {}, !.retried = FALSE]]
  /\ Go(r, "resolve")
  /\ UNCHANGED <<clock, oidcStore, cookie, provider, keyVars, accounts, ghosts>>

\* The nonce in the token is that of the flow the code was issued for.  The
\* identity of its subject is resolved to an account.
Verify(r) ==
  /\ step[r] = "verify"
  /\ req[r].code = req[r].state
  /\ ResolveAs(r, authAs[req[r].code])

\* The status of the account resolved before, without a second look-up.
Resolve_FirstLookup(r) ==
  /\ step[r] = "resolve"
  /\ req[r].user \in active
  /\ Go(r, "project")
  /\ UNCHANGED <<clock, oidcStore, cookie, provider, keyVars, accounts, ghosts, req>>

\* resolve_authenticated_principal resolves the identity a second time, and to the
\* same account, and asks for its status.
Resolve(r) ==
  /\ step[r] = "resolve"
  /\ linked[req[r].subject] = req[r].user
  /\ req[r].user \in active
  /\ Go(r, "project")
  /\ UNCHANGED <<clock, oidcStore, cookie, provider, keyVars, accounts, ghosts, req>>

\* The host projects the account it was given, to a principal of that account.
Project(r) ==
  /\ step[r] = "project"
  /\ Go(r, "write")
  /\ UNCHANGED <<clock, oidcStore, cookie, provider, keyVars, accounts, ghosts, req>>

\* The principal is written to the session of the browser, whose cookie is cleared.
Enter(r) ==
  LET q == req[r] IN
  /\ step[r] = "write"
  /\ cookie' = [cookie EXCEPT ![q.browser] = None]
  /\ logins' = logins \cup
       {[flow |-> q.state, browser |-> q.browser, now |-> q.now, subject |-> q.subject,
         user |-> q.user, again |-> \E l \in logins : l.flow = q.state]}
  /\ Deny(r)
  /\ UNCHANGED <<clock, oidcStore, provider, keyVars, accounts, started>>

\* A check fails, the token is bad in another way, or a call to the provider or
\* to the store raises: nothing that was consumed comes back.
Fail(r) ==
  /\ step[r] \notin {"idle", "put_back"}
  /\ Deny(r)
  /\ UNCHANGED <<clock, oidcStore, cookie, provider, keyVars, accounts, ghosts>>

Step ==
  \/ Tick
  \/ \E b \in Browsers, f \in Flows : Login(b, f)
  \/ \E f \in Flows, s \in Subjects : Authenticate(f, s)
  \/ \E k \in Kids : Rotate(k)
  \/ \E u \in Users : Disable(u) \/ Enable(u)
  \/ \E s \in Subjects, u \in Users : Relink(s, u)
  \/ \E r \in Requests, b \in Browsers, c, f \in Flows : Callback(r, b, c, f)
  \/ \E r \in Requests :
       \/ Consume(r) \/ PutBack(r) \/ Redeem(r) \/ AskKey(r) \/ FetchKeys(r)
       \/ StoreKeys(r) \/ Verify(r) \/ Resolve(r) \/ Project(r) \/ Enter(r) \/ Fail(r)

\* The account that a callback has resolved is active, and its subject's.
Sound(r) == linked[req[r].subject] = req[r].user /\ req[r].user \in active

Remember ==
  sound' = {r \in Requests :
              step'[r] \in {"resolve", "project", "write"} /\ (r \in sound \/ Sound(r)')}

Next == Step /\ Remember
Spec == Init /\ [][Next]_vars

----------------------------------------------------------------------------
(* Properties *)

\* Every login is the only one of its flow, in the browser that began the flow,
\* before the flow expired, and as the subject that authenticated for it: a
\* state or a code that reaches another browser, or arrives twice, logs nobody in.
LoginsBelong ==
  \A l \in logins :
    /\ started[l.flow].by = l.browser
    /\ l.now < started[l.flow].at + FlowTtl
    /\ authAs[l.flow] = l.subject
    /\ ~l.again

\* What a callback writes into a session.
Enters(r) == step[r] = "write" /\ step'[r] # "write" /\ logins' # logins

\* However accounts are disabled, enabled, purged and linked anew between its reads,
\* its host's projection and its write: a callback logs in to an account only if, at
\* one moment after the token was verified, the account was active and linked to the
\* token's subject, both at once.  That the account still is when the session is
\* written, no one promises (docs/authentication-boundary.md:46-52).
LoginsAreSound == [][\A r \in Requests : Enters(r) => r \in sound]_vars

\* The keys the cache holds were published at a moment within KeyTtl of their
\* expiry, also when slow fetches overlap: a withdrawn key is not trusted longer.
CacheFaithful ==
  cache.keys # {} =>
    \E e \in log : e.keys = cache.keys /\ e.at >= cache.expires - KeyTtl
=============================================================================
