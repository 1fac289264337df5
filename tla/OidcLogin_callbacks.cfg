SPECIFICATION Spec
CONSTANTS
  f1 = f1
  f2 = f2
  b1 = b1
  b2 = b2
  r1 = r1
  r2 = r2
  s1 = s1
  u1 = u1
  u2 = u2
  k1 = k1
  k2 = k2
  None = None
  Flows = {f1, f2}
  Browsers = {b1, b2}
  Requests = {r1, r2}
  Subjects = {s1}
  Users = {u1, u2}
  Kids = {k1, k2}
  Stores = {"sqlite", "memory"}
  FlowTtl = 1
  KeyTtl = 1
  MaxRefreshes = 1
  MaxTime = 1
SYMMETRY Interchangeable
INVARIANTS TypeOK LoginsBelong CacheFaithful
PROPERTIES LoginsAreSound
