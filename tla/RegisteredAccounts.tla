------------------------- MODULE RegisteredAccounts -------------------------
(***************************************************************************)
(* What a registration promises to those who see the committed database    *)
(* only: passkey, account, identity and grant appear in one step, and no   *)
(* account or link that is there is touched by it.  Registration is shown  *)
(* to implement it.                                                        *)
(***************************************************************************)
CONSTANTS Ids, None

VARIABLE committed  \* the database as others see it: Registration's db

Init ==
  /\ committed.account = [u \in Ids |-> "none"]
  /\ committed.linked = [s \in Ids |-> None]
  /\ committed.stored = {} /\ committed.granted = {}

Whole(s, owner) ==
  [account |-> [committed.account EXCEPT ![s] = "same"],
   linked |-> [committed.linked EXCEPT ![s] = owner],
   stored |-> committed.stored \cup {s},
   granted |-> committed.granted \cup {s}]

\* complete_registration: a new account, or one that is what it would create.
Complete(s) ==
  /\ committed.account[s] \in {"none", "same"}
  /\ committed.linked[s] \in {None, s}
  /\ committed' = Whole(s, s)

\* SQLiteSelfRegistrationService.register: a new account; the link is the host's.
SelfRegister(s) ==
  /\ committed.account[s] = "none"
  /\ committed' = Whole(s, committed.linked[s])

\* link_external_identity: an identity that is linked to no other account.
LinkTo(s, u) ==
  /\ committed.account[u] # "none"
  /\ committed.linked[s] \in {None, u}
  /\ committed' = [committed EXCEPT !.linked[s] = u]

\* An account is added or changed by its administration.
Administer(u, kind) ==
  /\ kind # "none"
  /\ committed' = [committed EXCEPT !.account[u] = kind]

Purge(u) ==
  committed' = [committed EXCEPT
    !.account[u] = "none", !.granted = @ \ {u},
    !.linked = [s \in Ids |-> IF committed.linked[s] = u THEN None ELSE committed.linked[s]]]

Next ==
  /\ committed' # committed
  /\ \/ \E s \in Ids : Complete(s) \/ SelfRegister(s)
     \/ \E s, u \in Ids : LinkTo(s, u)
     \/ \E u \in Ids, kind \in {"same", "disabled"} : Administer(u, kind)
     \/ \E u \in Ids : Purge(u)

Spec == Init /\ [][Next]_committed
=============================================================================
