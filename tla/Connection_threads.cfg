SPECIFICATION Spec
CONSTANTS
  c1 = c1
  c2 = c2
  c3 = c3
  k1 = k1
  k2 = k2
  None = None
  Callers = {c1, c2, c3}
  Conns = {k1, k2}
  MaxMutations = 2
INVARIANTS TypeOK CleanWhenIdle AnswersTrue
PROPERTIES MutationsEnd
CHECK_DEADLOCK FALSE
