SPECIFICATION Spec
CONSTANTS
  n1 = n1
  n2 = n2
  n3 = n3
  a1 = a1
  a2 = a2
  None = None
  Ids = {1, 2, 3}
  Rows <- MCRows
  Texts <- MCTexts
  Events <- MCEvents
  PageSize = 2
INVARIANTS TypeOK StoresAgree PagesTrue
