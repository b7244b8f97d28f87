CONSTANTS
  c1 = c1
  c2 = c2
  t1 = t1
  t2 = t2
  Caller <- Callers
  Text <- Texts
  NoText = NoText
  Nobody = Nobody
  MaxRows = 2
SPECIFICATION Spec
SYMMETRY SymmetryCallers
INVARIANTS TypeOK PolicyHasDate TextApprovedUnlessRaced WorksInAProject NoStrayProject
PROPERTIES UnbindApprovedUnlessRaced BindNeedsApproval
