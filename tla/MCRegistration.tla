--------------------------- MODULE MCRegistration ---------------------------
(* Two requests over two accounts and their passkeys, all interchangeable. *)
EXTENDS Registration, TLC

CONSTANTS u1, u2, r1, r2

Interchangeable ==
  Permutations(Ids) \cup Permutations(Requests)
=============================================================================
