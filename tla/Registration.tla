---------------------------- MODULE Registration ----------------------------
(***************************************************************************)
(* Registration and login with passkeys: the hooks that this package gives *)
(* to my-auth (adapters/my_auth_fastapi.py, local_identity.py), the atomic *)
(* completion of a registration on a connection of its own                 *)
(* (my_auth_sqlite.py), and the registration a host runs on its own        *)
(* connection (sqlite_registration.py).                                    *)
(*                                                                         *)
(* A completion runs in a worker thread while its request waits, and the   *)
(* request may be cancelled.  Writers of the database exclude each other   *)
(* from BEGIN IMMEDIATE to the commit; other connections read what is      *)
(* committed.  The ceremonies are my-auth's, as is the order of its calls  *)
(* of the hooks after a login: the model takes any.                        *)
(***************************************************************************)
EXTENDS Naturals

CONSTANTS
  Ids,        \* user ids; a passkey's subject is the id its owner asked for
  Requests,   \* requests, each with its worker; hosts with their connection
  None

\* What a registration would create is "same"; an account that differs from it is
\* one that is not active.
Accounts == {"none", "same", "disabled"}
Kinds == {"register", "login", "self"}
Hooks == {"link", "login"}

VARIABLES
  db,        \* what is committed
  tx,        \* the open write transaction: who runs it, what it would commit
  open,      \* the requests whose caller is still waiting
  step,      \* request -> the next step of its work
  req,       \* request -> its locals
  session,   \* request -> the account its response enters, if any
  seen       \* history: request -> the accounts its subject had meanwhile

requestVars == <<step, req, session>>
vars == <<db, tx, open, requestVars, seen>>

Databases ==
  [account : [Ids -> Accounts],
   linked : [Ids -> Ids \cup {None}],   \* subject -> the account it is linked to
   stored : SUBSET Ids,                 \* subjects with a passkey
   granted : SUBSET Ids]                \* accounts with the initial grant

ASSUME NoneAssumption ==
  None \notin Ids \cup Requests /\ None \notin [by : Requests, db : Databases]

Holder == IF tx = None THEN None ELSE tx.by

Steps == {"idle", "begin", "save", "create", "persist", "link", "grant", "commit",
          "drain", "hooks", "linking"}

\* What a passkey is registered for, or who logs in with whose passkey.
Locals ==
  [kind : Kinds, subject : Ids, cred : Ids, cancelled : BOOLEAN, todo : SUBSET Hooks]
Idle == [kind |-> None]

TypeOK ==
  /\ db \in Databases
  /\ tx \in [by : Requests, db : Databases] \cup {None}
  /\ \A s \in Ids : db.linked[s] # None => db.account[db.linked[s]] # "none"
  /\ open \subseteq Requests
  /\ step \in [Requests -> Steps] /\ req \in [Requests -> Locals \cup {Idle}]
  /\ session \in [Requests -> Ids \cup {None}]
  /\ \A r \in Requests :
       /\ step[r] \in {"save", "create", "persist", "link", "grant", "commit"}
            => Holder = r
       /\ step[r] = "idle" <=> req[r] = Idle

Init ==
  /\ db = [account |-> [u \in Ids |-> "none"], linked |-> [s \in Ids |-> None],
           stored |-> {}, granted |-> {}]
  /\ tx = None
  /\ open = {}
  /\ step = [r \in Requests |-> "idle"]
  /\ req = [r \in Requests |-> Idle]
  /\ session = [r \in Requests |-> None]
  /\ seen = [r \in Requests |-> {}]

----------------------------------------------------------------------------
(* Requests *)

Go(r, s) == step' = [step EXCEPT ![r] = s]

\* A ceremony has been verified, for a subject, with a passkey of subject c.
Start(r, kind, s, c) ==
  /\ step[r] = "idle" /\ Holder # r
  /\ req' = [req EXCEPT ![r] = [kind |-> kind, subject |-> s, cred |-> c,
                                 cancelled |-> FALSE, todo |-> Hooks]]
  /\ open' = open \cup {r}
  /\ UNCHANGED <<db, tx, session>>

\* prepare_registration writes nothing; the work goes to a worker thread.  It may
\* be a retry, or another passkey for an id that has been registered.
Register(r, s) == Start(r, "register", s, s) /\ Go(r, "begin")

\* get_auth_user: the subject is linked to an active account.
AuthUser(s) == db.linked[s] # None /\ db.account[db.linked[s]] # "disabled"

Login_AnyStatus(r, s, c) ==
  /\ Start(r, "login", s, c)
  /\ db.linked[s] # None
  /\ {s, c} \subseteq db.stored
  /\ Go(r, "hooks")

\* The subject has an account to enter and a passkey.
Login(r, s, c) ==
  /\ Start(r, "login", s, c)
  /\ AuthUser(s)
  /\ {s, c} \subseteq db.stored
  /\ Go(r, "hooks")

\* SQLiteSelfRegistrationService.register, for an active user and with no
\* transaction open on the host's connection.
SelfRegister(r, s) == Start(r, "self", s, s) /\ Go(r, "begin")

\* The caller gets its answer, or an exception.
Finish(r) ==
  /\ Go(r, "idle")
  /\ open' = open \ {r}
  /\ req' = [req EXCEPT ![r] = Idle]
  /\ session' = [session EXCEPT ![r] = None]

----------------------------------------------------------------------------
(* The transaction of a registration *)

\* BEGIN IMMEDIATE; the wait for another writer may end with an error (Fails).
Begin(r) ==
  /\ step[r] = "begin"
  /\ tx = None
  /\ tx' = [by |-> r, db |-> db]
  /\ Go(r, IF req[r].kind = "self" THEN "create" ELSE "save")
  /\ UNCHANGED <<db, open, req, session>>

\* A step of the transaction that writes d and goes on to step s.
Writes(r, d, s) ==
  /\ tx' = [tx EXCEPT !.db = d]
  /\ Go(r, s)
  /\ UNCHANGED <<db, open, req, session>>

Saved(r) == [tx.db EXCEPT !.stored = @ \cup {req[r].subject}]

\* save_registration, my-auth's, on the transaction's connection.
Save(r) ==
  /\ step[r] = "save"
  /\ Writes(r, Saved(r), "create")

Created(r) == [tx.db EXCEPT !.account[req[r].subject] = "same"]

Create_AnyAccount(r) ==
  /\ step[r] = "create"
  /\ \/ tx.db.account[req[r].subject] = "none"
     \/ req[r].kind = "register"
  /\ Writes(r, Created(r), IF req[r].kind = "self" THEN "persist" ELSE "link")

\* The account is new; a completion also goes on with one that is what it would
\* have created, identities apart.
Create(r) ==
  /\ step[r] = "create"
  /\ \/ tx.db.account[req[r].subject] = "none"
     \/ req[r].kind = "register" /\ tx.db.account[req[r].subject] = "same"
  /\ Writes(r, Created(r), IF req[r].kind = "self" THEN "persist" ELSE "link")

\* The host's persist_auth, on the connection the service was given.
Persist(r) ==
  /\ step[r] = "persist"
  /\ Writes(r, Saved(r), "grant")

\* The identity is not linked to another account.
Link(r) ==
  LET s == req[r].subject IN
  /\ step[r] = "link"
  /\ tx.db.linked[s] \in {None, s}
  /\ Writes(r, [tx.db EXCEPT !.linked[s] = s], "grant")

\* A grant that is there already is accepted by a completion; an account that a
\* host's registration creates has none.
Grant(r) ==
  /\ step[r] = "grant"
  /\ Writes(r, [tx.db EXCEPT !.granted = @ \cup {req[r].subject}], "commit")

\* commit; a completion then closes its connection and is answered by its request.
Commit(r) ==
  /\ step[r] = "commit"
  /\ db' = tx.db
  /\ tx' = None
  /\ IF req[r].kind = "self"
     THEN Finish(r)
     ELSE Go(r, "drain") /\ UNCHANGED <<open, req, session>>

\* A step of the registration raises: rollback.
Fails(r) ==
  /\ step[r] \in {"begin", "save", "create", "persist", "link", "grant", "commit"}
  /\ tx' = IF Holder = r THEN None ELSE tx
  /\ Finish(r)
  /\ UNCHANGED db

\* An interrupt, which is no Exception, leaves the host's registration with its
\* transaction open; register refuses that connection until the host closes it.
Interrupt(r) ==
  /\ req[r].kind = "self"
  /\ step[r] \in {"create", "persist", "grant", "commit"}
  /\ Finish(r)
  /\ UNCHANGED <<db, tx>>

CloseConnection(r) ==
  /\ Holder = r /\ step[r] = "idle"
  /\ tx' = None
  /\ UNCHANGED <<db, open, requestVars>>

----------------------------------------------------------------------------
(* The request of a completion: _drain_registration *)

\* The client goes away while the request waits for the worker.
Cancel(r) ==
  /\ req[r].kind = "register"
  /\ step[r] \notin {"idle", "hooks", "linking"}
  /\ ~req[r].cancelled
  /\ req' = [req EXCEPT ![r].cancelled = TRUE]
  /\ UNCHANGED <<db, tx, open, step, session>>

Drain_Impatient(r) ==
  /\ req[r].kind = "register"
  /\ r \in open
  /\ \/ /\ step[r] = "drain"
        /\ IF req[r].cancelled
           THEN Finish(r)
           ELSE Go(r, "hooks") /\ UNCHANGED <<open, req, session>>
     \/ /\ step[r] # "drain" /\ req[r].cancelled
        /\ open' = open \ {r}
        /\ UNCHANGED requestVars
  /\ UNCHANGED <<db, tx>>

\* Only when the work is done does the request go on, or end if it was cancelled.
Drain(r) ==
  /\ step[r] = "drain"
  /\ IF req[r].cancelled
     THEN Finish(r)
     ELSE Go(r, "hooks") /\ UNCHANGED <<open, req, session>>
  /\ UNCHANGED <<db, tx>>

----------------------------------------------------------------------------
(* The hooks after a ceremony, in my-auth's order *)

Done(r, hook) == req' = [req EXCEPT ![r].todo = @ \ {hook}]

\* The linkers refuse a passkey of another subject; a linked identity is left.
ResolveLink(r) ==
  /\ step[r] = "hooks" /\ "link" \in req[r].todo
  /\ req[r].cred = req[r].subject
  /\ Done(r, "link")
  /\ Go(r, IF db.linked[req[r].subject] = None THEN "linking" ELSE "hooks")
  /\ UNCHANGED <<db, tx, open, session>>

Relink_NoUser(r) ==
  LET s == req[r].subject IN
  /\ step[r] = "linking" /\ tx = None
  /\ db.linked[s] \in {None, s}
  /\ db' = [db EXCEPT !.linked[s] = s]
  /\ Go(r, "hooks")
  /\ UNCHANGED <<tx, open, req, session>>

\* link_external_identity, a transaction of its own, to the account of that id.
Relink(r) ==
  LET s == req[r].subject IN
  /\ step[r] = "linking" /\ tx = None
  /\ db.account[s] # "none"
  /\ db.linked[s] \in {None, s}
  /\ db' = [db EXCEPT !.linked[s] = s]
  /\ Go(r, "hooks")
  /\ UNCHANGED <<tx, open, req, session>>

\* The principal is that of the linked account; it goes with the response.
WritePrincipal(r) ==
  /\ step[r] = "hooks" /\ "login" \in req[r].todo
  /\ db.linked[req[r].subject] # None
  /\ session' = [session EXCEPT ![r] = db.linked[req[r].subject]]
  /\ Done(r, "login")
  /\ UNCHANGED <<db, tx, open, step>>

Answer(r) ==
  /\ step[r] = "hooks" /\ req[r].todo = {}
  /\ Finish(r)
  /\ UNCHANGED <<db, tx>>

\* A hook raises: the response is not sent, nor the session it carries.
HookRaises(r) ==
  /\ step[r] \in {"hooks", "linking"}
  /\ Finish(r)
  /\ UNCHANGED <<db, tx>>

----------------------------------------------------------------------------
(* The environment: the host's administration, and a crash *)

Administer(d) ==
  /\ tx = None
  /\ db' = d
  /\ UNCHANGED <<tx, open, requestVars>>

AddAccount(u, kind) ==
  /\ db.account[u] = "none"
  /\ kind # "none"
  /\ Administer([db EXCEPT !.account[u] = kind])

Disable(u) ==
  /\ db.account[u] = "same"
  /\ Administer([db EXCEPT !.account[u] = "disabled"])

\* SQLiteUserStore.delete: identities and grants go, my-auth's passkeys stay.
Purge(u) ==
  /\ db.account[u] # "none"
  /\ Administer([db EXCEPT
       !.account[u] = "none", !.granted = @ \ {u},
       !.linked = [s \in Ids |-> IF db.linked[s] = u THEN None ELSE db.linked[s]]])

LinkTo(s, u) ==
  /\ db.account[u] # "none" /\ db.linked[s] = None
  /\ Administer([db EXCEPT !.linked[s] = u])

\* The process dies: the open transaction is gone, what is committed stays.
Crash ==
  /\ tx' = None
  /\ open' = {}
  /\ step' = [r \in Requests |-> "idle"]
  /\ req' = [r \in Requests |-> Idle]
  /\ session' = [r \in Requests |-> None]
  /\ UNCHANGED db

Work(r) ==
  \/ Begin(r) \/ Save(r) \/ Create(r) \/ Persist(r) \/ Link(r) \/ Grant(r)
  \/ Commit(r) \/ Fails(r) \/ Drain(r)
  \/ ResolveLink(r) \/ Relink(r) \/ WritePrincipal(r)
  \/ Answer(r) \/ HookRaises(r)

Step ==
  \/ \E r \in Requests, s, c \in Ids : Login(r, s, c)
  \/ \E r \in Requests, s \in Ids : Register(r, s) \/ SelfRegister(r, s)
  \/ \E r \in Requests : Work(r) \/ Cancel(r) \/ Interrupt(r) \/ CloseConnection(r)
  \/ \E u \in Ids, kind \in Accounts : AddAccount(u, kind)
  \/ \E u \in Ids : Disable(u) \/ Purge(u)
  \/ \E s, u \in Ids : LinkTo(s, u)
  \/ Crash

Held(d, s) == IF d.linked[s] = None THEN {}
              ELSE {<<d.linked[s], d.account[d.linked[s]] # "disabled">>}

\* The accounts a request's subject is linked to, and whether active, from the
\* commit of its registration or the beginning of its login until it is entered.
Remember ==
  seen' = [r \in Requests |->
    IF step'[r] \in {"drain", "hooks", "linking"} /\ "login" \in req'[r].todo
    THEN seen[r] \cup Held(db', req'[r].subject)
    ELSE {}]

Next == Step /\ Remember
Spec == Init /\ [][Next]_vars

----------------------------------------------------------------------------
(* Properties *)

\* What is committed goes by the steps of RegisteredAccounts: a registration leaves
\* passkey, account, link and grant all at once or nothing of them, whatever raises,
\* is cancelled, is interrupted or dies, and on a retry; neither it nor a login hook
\* changes an account that is there or moves an identity from its account.
Promise == INSTANCE RegisteredAccounts WITH committed <- db
WholeRegistrations == Promise!Spec

\* Nothing is committed for a caller that has been answered: a cancelled
\* completion is waited for, and an interrupted registration is never committed.
QuietAfterAnswer == [][tx # None /\ db' # db => tx.by \in open]_vars

\* The session a request writes enters an account its subject was linked to while
\* the request ran, and in that time the subject was linked to an active account.
\* The two differ only if the account is purged and the identity linked again
\* meanwhile: the session writer does not look at the status.
LoginsJustified ==
  [][\A r \in Requests :
       session'[r] # None /\ session[r] = None =>
         /\ \E h \in seen[r] : h[1] = session'[r]
         /\ \E h \in seen[r] : h[2]]_vars
=============================================================================
