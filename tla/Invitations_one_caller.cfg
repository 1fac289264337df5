SPECIFICATION Spec
CONSTANTS
  Users = {u1}
  InitialGrants = {g1, g2}
  InvitationIds = {i1, i2}
  Capabilities = {k1, k2, k3}
  Callers = {c1}
  Ops <- AllOps
  AdminTargets = {"active", "disabled", "deleted"}
  Purges = TRUE
  FailingSteps <- AllWrites
  Crashes = TRUE
  None = None
  u1 = u1
  i1 = i1
  i2 = i2
  k1 = k1
  k2 = k2
  k3 = k3
  c1 = c1
  c2 = c2
  g1 = g1
  g2 = g2
SYMMETRY CapabilitySymmetry
INVARIANTS TypeOK InvitedFullyGranted UsedIsComplete
