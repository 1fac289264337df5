------------------------------ MODULE MCListing ------------------------------
(* Three users and three events, on pages of one row or two. *)
EXTENDS Listing

CONSTANTS n1, n2, n3, a1, a2

R(n, s) == [name |-> n, status |-> s]
MCRows == {R(n1, "active"), R(n1, "disabled"), R(n2, "active"), R(n3, "disabled")}
\* A plain text, one with a wildcard, and one that only str.casefold finds.
Text(l, p) == [literal |-> l, pattern |-> p]
MCTexts == {Text({n1, n2}, {n1, n2}), Text({n1}, {n1, n3}), Text({n2}, {})}

E(i, a, t, z) == [id |-> i, actor |-> a, at |-> [wall |-> t, zone |-> z]]
MCEvents == {E(1, a1, 0, 0), E(1, a2, 1, 0), E(2, a2, 0, 0), E(2, a1, 1, 1), E(3, a1, 1, 0)}
=============================================================================
