SPECIFICATION Spec
CONSTANTS
  u1 = u1
  u2 = u2
  r1 = r1
  r2 = r2
  None = None
  Ids = {u1, u2}
  Requests = {r1, r2}
SYMMETRY Interchangeable
INVARIANTS TypeOK
PROPERTIES LoginsJustified WholeRegistrations QuietAfterAnswer
