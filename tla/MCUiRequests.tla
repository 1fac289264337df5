---------------------------- MODULE MCUiRequests ----------------------------
(* Two requests in two sessions of two accounts, and one step-up proof. *)
EXTENDS UiRequests, TLC

CONSTANTS u1, u2, s1, s2, r1, r2, p1

Interchangeable ==
  Permutations(Users) \cup Permutations(Sids) \cup Permutations(Requests)
=============================================================================
