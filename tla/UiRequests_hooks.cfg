SPECIFICATION Spec
CONSTANTS
  u1 = u1
  u2 = u2
  s1 = s1
  s2 = s2
  r1 = r1
  r2 = r2
  p1 = p1
  None = None
  Users = {u1, u2}
  Sids = {s1, s2}
  Requests = {r1, r2}
  Proofs = {p1}
SYMMETRY Interchangeable
INVARIANTS TypeOK DisabledIsOut
PROPERTIES MutationsJustified EndedForGood
CHECK_DEADLOCK FALSE
