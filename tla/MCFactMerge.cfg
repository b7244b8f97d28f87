CONSTANTS
  c1 = c1
  c2 = c2
  k1 = k1
  k2 = k2
  e1 = e1
  e2 = e2
  Client <- Clients2
  Key <- Keys1
  MaxItems = 1
  Event <- NoEvents
  Citations <- Uncited
  Free = Free
  Shown <- ShownCut
SPECIFICATION Spec
INVARIANT MergesSurvive
