CONSTANTS
  c1 = c1
  c2 = c2
  p1 = p1
  p2 = p2
  a1 = a1
  a2 = a2
  Caller <- Callers
  Person <- People
  Account <- Accounts
  NoOwner = NoOwner
  None = None
SPECIFICATION Spec
SYMMETRY Symmetries
INVARIANTS TypeOK LastListUnlessMixed
PROPERTY SavedIsOwned
