----------------------------- MODULE UiRequests -----------------------------
(***************************************************************************)
(* Requests to the server-rendered user manager (adapters/fastapi_htmx)    *)
(* over the sessions and accounts they read and change: the chain of       *)
(* current user, administrator, form, CSRF token and confirmation that     *)
(* every mutation passes, the hooks behind it, and logins at the same      *)
(* time.  Each hook is awaited by resolve; between two hooks anything      *)
(* happens.                                                                *)
(*                                                                         *)
(* A host puts the parts together in one of three ways.  "hooks": stored   *)
(* sessions; the manager's change of an account and the effect the host    *)
(* adds to it are two hooks.  "owner": stored sessions; a hook is one job  *)
(* of a thread that owns a connection, and one transaction.  "cookie"      *)
(* (local_identity.py): an owner, principals in cookies, no effects of the *)
(* host, and no routes for sessions and permanent deletions.               *)
(***************************************************************************)
EXTENDS Sessions, FiniteSets

CONSTANTS
  Requests,
  Proofs     \* step-up proofs, each issued at most once

VARIABLES
  setup,     \* how the host has put the parts together
  admins,    \* accounts with the administrator role
  proofs,    \* the step-up proofs that are in MemoryStepUpStore
  step,      \* request -> its next step
  req,       \* request -> its locals
  seen,      \* history: request -> what was true of its actor meanwhile
  issued,    \* history: proof -> the session and the account it was issued for
  opened,    \* history: the proofs that have opened a mutation
  cut        \* history: sessions that a disabling has ended

data == <<status, sessions, admins>>
proofVars == <<proofs, issued, opened>>
vars == <<setup, data, proofVars, step, req, seen, cut>>

Steps == {"idle", "admin", "form", "delete", "after", "insert"}

Locals ==
  [route : {"admin", "own", "login"}, sid : Sids \cup {None}, actor : Users,
   target : Users \cup {None}, proof : Proofs \cup {None}, disabled : BOOLEAN,
   had : SUBSET Sids]

Issues == [sid : Sids, target : Users]

ASSUME NoneAssumption ==
  None \notin Locals /\ None \notin Issues /\ None \notin [user : Users, state : States]

TypeOK ==
  /\ SessionsTypeOK
  /\ setup \in {"hooks", "owner", "cookie"}
  /\ admins \subseteq {u \in Users : status[u] # "absent"}
  /\ \A s \in Stored : status[sessions[s].user] # "absent"
  /\ issued \in [Proofs -> Issues \cup {None}]
  /\ proofs \subseteq {p \in Proofs : issued[p] # None}
  /\ opened \subseteq Proofs /\ cut \subseteq Sids
  /\ step \in [Requests -> Steps] /\ req \in [Requests -> Locals \cup {None}]
  /\ \A r \in Requests : step[r] = "idle" <=> req[r] = None

Init ==
  /\ setup \in {"hooks", "owner", "cookie"}
  /\ status = [u \in Users |-> "active"]
  /\ \E f \in [Sids -> Users] : sessions = [s \in Sids |-> Record(f[s])]
  /\ admins \in SUBSET Users \ {{}}
  /\ proofs = {}
  /\ step = [r \in Requests |-> "idle"]
  /\ req = [r \in Requests |-> None]
  /\ seen = [r \in Requests |-> {}]
  /\ issued = [p \in Proofs |-> None]
  /\ opened = {}
  /\ cut = {}

----------------------------------------------------------------------------
(* Requests *)

Go(r, s) == step' = [step EXCEPT ![r] = s]

Ended(r) == Go(r, "idle") /\ req' = [req EXCEPT ![r] = None]

\* resolve waits for the hook whatever happens; a request that was cancelled
\* meanwhile ends there.
Proceed(r, s) == (Go(r, s) /\ UNCHANGED req) \/ Ended(r)

\* A check refuses, or a hook raises; the owner's transaction is rolled back, and
\* after its shutdown every job is refused.
Fails(r) ==
  /\ step[r] # "idle"
  /\ Ended(r)
  /\ UNCHANGED <<setup, data, proofVars, cut>>

Accepted(s) == setup = "cookie" \/ Live(s)

Begin(r, s, route) ==
  /\ step[r] = "idle"
  /\ req' = [req EXCEPT ![r] = [route |-> route, sid |-> s, actor |-> sessions[s].user,
                                target |-> None, proof |-> None, disabled |-> FALSE,
                                had |-> {}]]
  /\ Go(r, IF route = "admin" THEN "admin" ELSE "form")
  /\ UNCHANGED <<setup, data, proofVars, cut>>

CurrentUser_Unchecked(r, s, route) == s \in Stored /\ Begin(r, s, route)

\* current_user: the principal of a live session, or the one the cookie holds.
CurrentUser(r, s, route) == s \in Stored /\ Accepted(s) /\ Begin(r, s, route)

\* require_admin reads the role of the account, not its status.
RequireAdmin(r) ==
  /\ step[r] = "admin"
  /\ req[r].actor \in admins
  /\ Proceed(r, "form")
  /\ UNCHANGED <<setup, data, proofVars, cut>>

\* A form that is complete, with a valid CSRF token and, for a permanent deletion,
\* the account's id as its confirmation; other forms are refused.
Form(r, route) == step[r] = "form" /\ req[r].route = route

----------------------------------------------------------------------------
(* Step-up proofs: the host's hook asks for one before a permanent deletion *)

Issue(p, s, u) ==
  /\ setup # "cookie" /\ issued[p] = None /\ Live(s)
  /\ issued' = [issued EXCEPT ![p] = [sid |-> s, target |-> u]]
  /\ proofs' = proofs \cup {p}
  /\ UNCHANGED <<setup, data, step, req, opened, cut>>

Fits(r, p, u) == issued[p] = [sid |-> req[r].sid, target |-> u]

Opens(r, p, u) ==
  /\ Fits(r, p, u)
  /\ Go(r, "delete")
  /\ req' = [req EXCEPT ![r] = [@ EXCEPT !.target = u, !.proof = p]]

Consume_Kept(r, p, u) ==
  /\ Form(r, "admin") /\ p \in proofs
  /\ Opens(r, p, u)
  /\ UNCHANGED <<setup, data, proofVars, cut>>

\* The proof is taken out of the store, whether it is one for this session and
\* account or not; one that has expired is as good as another's.
Consume(r, p, u) ==
  /\ Form(r, "admin") /\ p \in proofs
  /\ proofs' = proofs \ {p}
  /\ Opens(r, p, u) \/ Ended(r)
  /\ UNCHANGED <<setup, data, issued, opened, cut>>

----------------------------------------------------------------------------
(* The mutations *)

\* The manager refuses to disable or delete the last active administrator.
Spares(u) == {a \in admins : status[a] = "active"} # {u}

\* The manager's part of set_user_disabled.
Disabled(r, u) ==
  /\ Form(r, "admin")
  /\ status[u] = "disabled" \/ (status[u] = "active" /\ Spares(u))
  /\ status' = [status EXCEPT ![u] = "disabled"]
  /\ UNCHANGED <<setup, admins, proofVars>>

\* The row of the account goes to the host's effect, a hook of its own.
AnswersLater(r, u, disabled) ==
  \/ /\ Go(r, "after")
     /\ req' = [req EXCEPT ![r] = [@ EXCEPT !.target = u, !.disabled = disabled,
                                    !.had = IF disabled THEN Of(u) ELSE {}]]
  \/ Ended(r)

Disable_EffectLater(r, u) ==
  /\ Disabled(r, u)
  /\ UNCHANGED sessions
  /\ AnswersLater(r, u, TRUE)
  /\ cut' = IF setup = "owner" THEN cut \cup Of(u) ELSE cut

\* The host's effect of a disabling, which revokes the sessions, is part of the
\* owner's transaction; without an executor it is a hook of its own, for the row
\* that this one returns.
Disable(r, u) ==
  /\ Disabled(r, u)
  /\ \/ setup = "owner" /\ sessions' = RevokedAll(u) /\ cut' = cut \cup Of(u) /\ Ended(r)
     \/ setup = "hooks" /\ UNCHANGED <<sessions, cut>> /\ AnswersLater(r, u, TRUE)
     \/ setup = "cookie" /\ UNCHANGED <<sessions, cut>> /\ Ended(r)

\* after_user_disabled_changed; the sessions are cut when the request is answered.  An
\* account that was enabled comes this way too: the host looks at the row, or does not.
AfterDisabled(r) ==
  /\ step[r] = "after"
  /\ sessions' = RevokedAll(req[r].target) \/ (~req[r].disabled /\ UNCHANGED sessions)
  /\ cut' = cut \cup req[r].had
  /\ Ended(r)
  /\ UNCHANGED <<setup, status, admins, proofVars>>

Enable(r, u) ==
  /\ Form(r, "admin")
  /\ status[u] # "absent"
  /\ status' = [status EXCEPT ![u] = "active"]
  /\ \/ setup = "owner" /\ sessions' \in {sessions, RevokedAll(u)} /\ Ended(r)
     \/ setup = "hooks" /\ UNCHANGED sessions /\ AnswersLater(r, u, FALSE)
     \/ setup = "cookie" /\ UNCHANGED sessions /\ Ended(r)
  /\ UNCHANGED <<setup, admins, proofVars, cut>>

\* The manager asks for the actor's authority again, within the hook; revoke_role
\* knows no last administrator.
GrantRole(r, u) ==
  /\ Form(r, "admin") /\ Ended(r)
  /\ req[r].actor \in admins
  /\ status[u] # "absent"
  /\ admins' = admins \cup {u}
  /\ UNCHANGED <<setup, status, sessions, proofVars, cut>>

RevokeRole(r, u) ==
  /\ Form(r, "admin") /\ Ended(r)
  /\ {req[r].actor, u} \subseteq admins
  /\ admins' = admins \ {u}
  /\ UNCHANGED <<setup, status, sessions, proofVars, cut>>

\* The host's hook has the manager soft-delete and purge the account; sessions and
\* grants go with it.
Purged(r, u) ==
  /\ step[r] = "delete" /\ u = req[r].target
  /\ Ended(r)
  /\ status[u] # "absent" /\ Spares(u)
  /\ status' = [status EXCEPT ![u] = "absent"]
  /\ admins' = admins \ {u}
  /\ opened' = opened \cup {req[r].proof}
  /\ UNCHANGED <<setup, proofs, issued, cut>>

HardDelete_NoCascade(r, u) == Purged(r, u) /\ UNCHANGED sessions

HardDelete(r, u) == Purged(r, u) /\ sessions' = Cascaded(u)

\* A user revokes a session of his own.
RevokeSession(r, s) ==
  /\ setup # "cookie" /\ Form(r, "own") /\ Ended(r)
  /\ sessions' = RevokedBy(req[r].actor, s)
  /\ UNCHANGED <<setup, status, admins, proofVars, cut>>

----------------------------------------------------------------------------
(* Logins, time and the host *)

\* SQLiteSessionStore.create reads the status of the account first ...
Login(r, u) ==
  /\ step[r] = "idle"
  /\ status[u] = "active"
  /\ req' = [req EXCEPT ![r] = [route |-> "login", sid |-> None, actor |-> u,
                                target |-> None, proof |-> None, disabled |-> FALSE,
                                had |-> {}]]
  /\ Go(r, "insert")
  /\ UNCHANGED <<setup, data, proofVars, cut>>

InsertSession_Replaces(r, s) ==
  /\ step[r] = "insert"
  /\ status[req[r].actor] # "absent"
  /\ sessions' = Inserted(s, req[r].actor)
  /\ Ended(r)
  /\ UNCHANGED <<setup, status, admins, proofVars, cut>>

\* Whether anything still speaks of a session of this id.
Known(s) ==
  \/ s \in Stored \cup cut
  \/ \E q \in Requests : req[q] # None /\ s \in req[q].had \cup {req[q].sid}
  \/ \E p \in Proofs : issued[p] # None /\ issued[p].sid = s

\* ... and inserts the record, under a fresh id, if the account is still there.
InsertSession(r, s) ==
  /\ step[r] = "insert"
  /\ ~Known(s)
  /\ status[req[r].actor] # "absent"
  /\ sessions' = Inserted(s, req[r].actor)
  /\ Ended(r)
  /\ UNCHANGED <<setup, status, admins, proofVars, cut>>

\* A change of the stored sessions that no request's step makes.
Becomes(new) ==
  /\ sessions' = new
  /\ UNCHANGED <<setup, status, admins, proofVars, cut, step, req>>

\* A logout, or a client that drops its cookie.
Logout(s) == s \in Stored /\ Becomes(Deleted({s}))
Expire(s) == setup # "cookie" /\ s \in Stored /\ Becomes([sessions EXCEPT ![s].state = "expired"])
PurgeExpired == setup # "cookie" /\ Becomes(WithoutExpired)

Step ==
  \/ \E r \in Requests, s \in Sids, route \in {"admin", "own"} : CurrentUser(r, s, route)
  \/ \E r \in Requests, u \in Users :
       \/ Login(r, u)
       \/ Disable(r, u) \/ Enable(r, u) \/ GrantRole(r, u) \/ RevokeRole(r, u) \/ HardDelete(r, u)
  \/ \E r \in Requests, s \in Sids : InsertSession(r, s) \/ RevokeSession(r, s)
  \/ \E r \in Requests, p \in Proofs, u \in Users : Consume(r, p, u)
  \/ \E r \in Requests : Fails(r) \/ RequireAdmin(r) \/ AfterDisabled(r)
  \/ \E p \in Proofs, s \in Sids, u \in Users : Issue(p, s, u)
  \/ \E s \in Sids : Logout(s) \/ Expire(s)
  \/ PurgeExpired

Running == {"admin", "form", "delete"}

\* Whether the session of a request is live, and its actor an administrator.
Facts ==
  [r \in Requests |->
     IF step[r] \notin Running THEN {}
     ELSE (IF Accepted(req[r].sid) THEN {"live"} ELSE {})
       \cup (IF req[r].actor \in admins THEN {"admin"} ELSE {})]

Remember ==
  seen' = [r \in Requests |->
    IF step'[r] \notin Running THEN {} ELSE seen[r] \cup Facts'[r]]

Next == Step /\ Remember
Spec == Init /\ [][Next]_vars

----------------------------------------------------------------------------
(* Properties *)

\* The request of a step that changes an account, a role or another session.
Mutates(r) == step[r] \in {"form", "delete"} /\ step'[r] # step[r] /\ data' # data

\* What a request changes, it may: its session was live and, but for the sessions of
\* its own account, its actor an administrator while it ran, and a permanent deletion
\* had a proof issued for this session and account that no other deletion has used.
MutationsJustified ==
  [][\A r \in Requests : Mutates(r) =>
       LET q == req[r] IN
       /\ "live" \in seen[r]
       /\ \/ q.route = "admin" /\ "admin" \in seen[r]
          \/ \A s \in Sids : sessions'[s] # sessions[s] => sessions[s].user = q.actor
       /\ step[r] = "delete" =>
            issued[q.proof] = [sid |-> q.sid, target |-> q.target] /\ q.proof \notin opened]_vars

\* The sessions an account had when it was disabled are never live again, also not
\* when it is enabled: at once in the owner's transaction, cancelled or not, and
\* otherwise when the request that disabled it has been answered.
DisabledIsOut == \A s \in cut : ~Live(s)

\* A session that was revoked, has expired, was deleted or went with its account
\* does not come back; a session keeps its owner.
EndedForGood ==
  [][\A s \in Stored :
       /\ sessions'[s] # None => sessions'[s].user = sessions[s].user
       /\ sessions[s].state # "current" =>
            sessions'[s] = None \/ sessions'[s].state # "current"]_vars
=============================================================================
