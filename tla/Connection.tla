----------------------------- MODULE Connection -----------------------------
(***************************************************************************)
(* Threads that write through the SQLite stores                            *)
(* (adapters/sqlite_stores.py, sqlite_invitations.py), statement by        *)
(* statement, on connections to one database file.  A mutation writes two  *)
(* parts, a user's row and his identities, say.                            *)
(*                                                                         *)
(* In operation mode a mutation holds the connection's lock and ends the   *)
(* transaction its first statement began.  In external mode it is a        *)
(* savepoint in a transaction that its caller began with                   *)
(* ImmediateTransaction.  The invitation store knows neither: it writes    *)
(* and commits.  Threads may share a connection for mutations in operation *)
(* mode; the other calls are for the only user of a connection, as the     *)
(* README demands (one connection per thread, or coordinated access).      *)
(***************************************************************************)
EXTENDS Naturals, SequencesExt

CONSTANTS
  Callers, Conns,
  MaxMutations,   \* bound on the mutations of a caller
  None

ASSUME MaxMutationsAssumption == MaxMutations \in Nat \ {0}
ASSUME NoneAssumption == None \notin Callers \cup Conns

VARIABLES
  on,        \* caller -> its connection
  holder,    \* connection -> the caller that holds its lock
  open,      \* connections with an open transaction (in_transaction)
  writer,    \* the connection with the file's write lock
  journal,   \* connection -> the writes and savepoints of its transaction
  db,        \* the writes that are committed
  step,      \* caller -> its next step
  within,    \* the callers in an ImmediateTransaction of their own
  n,         \* caller -> its mutations so far
  answer,    \* history: mutation -> what its caller knows of it
  left       \* history: the connections on which a call that raised left a transaction

conns == <<on, holder, left>>
file == <<open, writer, journal, db>>
vars == <<on, holder, left, file, step, within, n, answer>>

Mutations == Callers \X (1..MaxMutations)
Pieces == Mutations \X (1..2)
Writes(m) == {<<m, part>> : part \in 1..2}
Mark == <<"um_store_mutation">>

Mine(c) == <<c, n[c]>>
\* The host's part (README.md:239): calls that take no lock of the connection come from
\* the one thread that uses it.
Alone(c) == \A d \in Callers \ {c} : on[d] # on[c]

Steps == {"idle", "wait", "first", "second", "exit", "commit"}

TypeOK ==
  /\ on \in [Callers -> Conns]
  /\ holder \in [Conns -> Callers \cup {None}]
  /\ open \subseteq Conns /\ left \subseteq open
  /\ within \subseteq Callers
  /\ writer \in open \cup {None}
  /\ db \subseteq Pieces
  /\ journal \in [Conns -> Seq(Pieces \cup {Mark})]
  /\ \A k \in Conns : k \notin open => journal[k] = <<>>
  /\ \A k \in Conns : journal[k] # <<>> => writer = k
  /\ step \in [Callers -> Steps]
  /\ n \in [Callers -> 0..MaxMutations]
  /\ answer \in [Mutations -> {"none", "pending", "returned", "raised", "unknown"}]

Init ==
  /\ on \in [Callers -> Conns]
  /\ holder = [k \in Conns |-> None]
  /\ open = {} /\ writer = None
  /\ journal = [k \in Conns |-> <<>>]
  /\ db = {}
  /\ step = [c \in Callers |-> "idle"]
  /\ within = {}
  /\ n = [c \in Callers |-> 0]
  /\ answer = [m \in Mutations |-> "none"]
  /\ left = {}

----------------------------------------------------------------------------
(* The file and its connections *)

Go(c, s) == step' = [step EXCEPT ![c] = s]
Answers(c, a) == answer' = [answer EXCEPT ![Mine(c)] = a]

\* A transaction of another connection makes this one wait, and raise in the end.
Writable(k) == writer \in {None, k}

\* The transaction of a connection ends: its writes are committed, or gone.
Closed(k) ==
  /\ open' = open \ {k}
  /\ writer' = IF writer = k THEN None ELSE writer
  /\ journal' = [journal EXCEPT ![k] = <<>>]

Committed(k) == Closed(k) /\ db' = db \cup (ToSet(journal[k]) \ {Mark})
RolledBack(k) == Closed(k) /\ UNCHANGED db

\* A statement that writes begins a transaction, if none is open.
Wrote(k, writes) ==
  /\ Writable(k)
  /\ open' = open \cup {k}
  /\ writer' = k
  /\ journal' = [journal EXCEPT ![k] = @ \o writes]
  /\ UNCHANGED db

----------------------------------------------------------------------------
(* Mutations *)

\* A store is called; in operation mode the mutation waits for the lock.
Call(c) ==
  /\ step[c] = "idle" /\ c \notin within /\ n[c] < MaxMutations
  /\ n' = [n EXCEPT ![c] = @ + 1]
  /\ Go(c, "wait")
  /\ UNCHANGED <<conns, file, within, answer>>

Acquire_Unlocked(c) ==
  /\ step[c] = "wait"
  /\ on[c] \notin open
  /\ Go(c, "first")
  /\ UNCHANGED <<conns, file, within, n, answer>>

Acquire(c) ==
  /\ step[c] = "wait"
  /\ holder[on[c]] = None
  /\ on[c] \notin open
  /\ holder' = [holder EXCEPT ![on[c]] = c]
  /\ Go(c, "first")
  /\ UNCHANGED <<on, left, file, within, n, answer>>

Refuse_KeepsLock(c) ==
  /\ step[c] = "wait"
  /\ holder[on[c]] = None
  /\ on[c] \in open
  /\ holder' = [holder EXCEPT ![on[c]] = c]
  /\ Go(c, "idle") /\ Answers(c, "raised")
  /\ UNCHANGED <<on, left, file, within, n>>

\* __enter__ finds a transaction open, releases the lock and raises.
Refuse(c) ==
  /\ step[c] = "wait"
  /\ holder[on[c]] = None
  /\ on[c] \in open
  /\ Go(c, "idle") /\ Answers(c, "raised")
  /\ UNCHANGED <<conns, file, within, n>>

\* SAVEPOINT, within the caller's transaction.
Savepoint(c) ==
  /\ step[c] = "idle" /\ c \in within /\ n[c] < MaxMutations
  /\ n' = [n EXCEPT ![c] = @ + 1]
  /\ journal' = [journal EXCEPT ![on[c]] = Append(@, Mark)]
  /\ Go(c, "first")
  /\ UNCHANGED <<conns, open, writer, db, within, answer>>

Statement(c) ==
  /\ \/ step[c] = "first" /\ Wrote(on[c], << <<Mine(c), 1>> >>) /\ Go(c, "second")
     \/ step[c] = "second" /\ Wrote(on[c], << <<Mine(c), 2>> >>) /\ Go(c, "exit")
  /\ UNCHANGED <<conns, within, n, answer>>

Released(c) == holder' = [holder EXCEPT ![on[c]] = None]

\* The innermost savepoint, and the transaction before it.
MarkAt(s) == CHOOSE i \in DOMAIN s : s[i] = Mark /\ \A j \in i+1..Len(s) : s[j] # Mark
BeforeMark(s) == SubSeq(s, 1, MarkAt(s) - 1)

Fails_KeepsSavepoint(c) ==
  /\ step[c] \in {"first", "second", "exit"}
  /\ Go(c, "idle") /\ Answers(c, "raised")
  /\ IF c \in within
     THEN journal' = [journal EXCEPT ![on[c]] = Append(BeforeMark(@), Mark)]
          /\ UNCHANGED <<open, writer, db, holder>>
     ELSE RolledBack(on[c]) /\ Released(c)
  /\ UNCHANGED <<on, left, within, n>>

\* A statement fails, an interrupt arrives, or COMMIT fails: __exit__ with an exception
\* undoes the mutation, ROLLBACK TO or ROLLBACK, and releases the savepoint or the lock.
Fails(c) ==
  /\ step[c] \in {"first", "second", "exit"}
  /\ Go(c, "idle") /\ Answers(c, "raised")
  /\ IF c \in within
     THEN journal' = [journal EXCEPT ![on[c]] = BeforeMark(@)]
          /\ UNCHANGED <<open, writer, db, holder>>
     ELSE RolledBack(on[c]) /\ Released(c)
  /\ UNCHANGED <<on, left, within, n>>

\* __exit__ without one: RELEASE, or COMMIT.
Exit(c) ==
  /\ step[c] = "exit"
  /\ Go(c, "idle")
  /\ IF c \in within
     THEN journal' = [journal EXCEPT ![on[c]] = RemoveAt(@, MarkAt(@))] /\ Answers(c, "pending")
          /\ UNCHANGED <<open, writer, db, holder>>
     ELSE Committed(on[c]) /\ Answers(c, "returned") /\ Released(c)
  /\ UNCHANGED <<on, left, within, n>>

----------------------------------------------------------------------------
(* ImmediateTransaction *)

Begin_Deferred(c) ==
  /\ step[c] = "idle" /\ c \notin within /\ Alone(c)
  /\ n[c] < MaxMutations
  /\ on[c] \notin open
  /\ open' = open \cup {on[c]}
  /\ within' = within \cup {c}
  /\ UNCHANGED <<conns, writer, journal, db, step, n, answer>>

\* BEGIN IMMEDIATE, on a connection without a transaction.
Begin(c) ==
  /\ step[c] = "idle" /\ c \notin within /\ Alone(c)
  /\ n[c] < MaxMutations
  /\ on[c] \notin open /\ writer = None
  /\ open' = open \cup {on[c]} /\ writer' = on[c]
  /\ within' = within \cup {c}
  /\ UNCHANGED <<conns, journal, db, step, n, answer>>

\* What the caller knows of the mutations of his transaction when it has ended.
Settled(c, a) ==
  answer' = [m \in Mutations |-> IF m[1] = c /\ answer[m] = "pending" THEN a ELSE answer[m]]

Ends(c) ==
  /\ step[c] = "idle" /\ c \in within
  /\ within' = within \ {c}
  /\ UNCHANGED <<on, holder, step, n>>

CommitAll(c) == Ends(c) /\ Committed(on[c]) /\ Settled(c, "returned") /\ UNCHANGED left

Rollback(c) == Ends(c) /\ RolledBack(on[c]) /\ Settled(c, "raised") /\ UNCHANGED left

\* COMMIT fails: __exit__ raises and leaves the transaction as it is.
CommitRaises(c) ==
  /\ Ends(c) /\ Settled(c, "unknown")
  /\ left' = left \cup {on[c]}
  /\ UNCHANGED file

----------------------------------------------------------------------------
(* SQLiteInvitationStore.create, update *)

Invites(c) ==
  /\ step[c] = "idle" /\ c \notin within /\ Alone(c) /\ n[c] < MaxMutations
  /\ n' = [n EXCEPT ![c] = @ + 1]
  /\ UNCHANGED <<on, holder, within>>

\* One row is written ...
Invite(c) ==
  /\ Invites(c)
  /\ LET m == <<c, n[c] + 1>> IN Wrote(on[c], << <<m, 1>>, <<m, 2>> >>)
  /\ Go(c, "commit")
  /\ UNCHANGED <<left, answer>>

\* ... or the statement finds no row to update, breaks a constraint or gets no lock:
\* the transaction it has begun stays open.
InviteRaises(c) ==
  /\ Invites(c)
  /\ open' = open \cup {on[c]}
  /\ writer' \in IF writer = None THEN {None, on[c]} ELSE {writer}
  /\ left' = left \cup {on[c]}
  /\ answer' = [answer EXCEPT ![<<c, n[c] + 1>>] = "raised"]
  /\ UNCHANGED <<journal, db, step>>

\* COMMIT, of all that is open on the connection; when it fails, that stays.
InviteCommit(c) ==
  /\ step[c] = "commit"
  /\ Go(c, "idle")
  /\ \/ Committed(on[c]) /\ Answers(c, "returned") /\ left' = left \ {on[c]}
     \/ Answers(c, "unknown") /\ left' = left \cup {on[c]} /\ UNCHANGED file
  /\ UNCHANGED <<on, holder, within, n>>

Next == \E c \in Callers :
  \/ Call(c) \/ Acquire(c) \/ Refuse(c) \/ Savepoint(c)
  \/ Statement(c) \/ Fails(c) \/ Exit(c)
  \/ Begin(c) \/ CommitAll(c) \/ Rollback(c) \/ CommitRaises(c)
  \/ Invite(c) \/ InviteRaises(c) \/ InviteCommit(c)

\* A thread goes on with the call it is in; what a host does in a transaction of its
\* own, and whether it ends, is left open.
Fairness == \A c \in Callers :
  /\ WF_vars(Acquire(c) \/ Refuse(c))
  /\ WF_vars(Statement(c) \/ Fails(c))
  /\ WF_vars(Exit(c))

Spec == Init /\ [][Next]_vars /\ Fairness

----------------------------------------------------------------------------
(* Properties *)

\* When nobody is in a call on a connection, its lock is free, no savepoint is left,
\* and a transaction is open only where a call that raised left one.
CleanWhenIdle ==
  \A k \in Conns :
    (\A c \in Callers : on[c] = k => step[c] \in {"idle", "wait"} /\ c \notin within) =>
      /\ holder[k] = None
      /\ k \in open => k \in left
      /\ Mark \notin ToSet(journal[k])

\* What a caller was told is true: a mutation that returned is in the database, whole;
\* one that raised, or whose transaction was rolled back, is not; one in a transaction
\* that is still open is not there yet; where COMMIT failed it is there whole or not.
AnswersTrue ==
  \A m \in Mutations :
    LET there == Writes(m) \cap db IN
    /\ answer[m] = "returned" => there = Writes(m)
    /\ answer[m] \in {"none", "pending", "raised"} => there = {}
    /\ there \in {{}, Writes(m)}

\* A mutation in operation mode comes to an end, whoever shares its connection.
MutationsEnd == \A c \in Callers : step[c] = "wait" ~> step[c] = "idle"
=============================================================================
