---------------------------- MODULE MCOidcLogin ----------------------------
(* Two callbacks, two flows and two browsers; users, flows, browsers, keys and
   threads are interchangeable. *)
EXTENDS OidcLogin, TLC

CONSTANTS f1, f2, b1, b2, r1, r2, s1, u1, u2, k1, k2

Interchangeable ==
  Permutations(Flows) \cup Permutations(Browsers) \cup Permutations(Requests)
    \cup Permutations(Users) \cup Permutations(Kids)
=============================================================================
