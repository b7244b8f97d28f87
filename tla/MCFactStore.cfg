CONSTANTS
  c1 = c1
  c2 = c2
  k1 = k1
  k2 = k2
  e1 = e1
  e2 = e2
  Client <- Clients2
  Key <- Keys2
  MaxItems = 2
  Event <- Events2
  Citations <- CitedBothWays
  Free = Free
  Shown <- ShownWhole
SPECIFICATION Spec
SYMMETRY Symmetry2
INVARIANTS TypeOK HistoryExplainsFact NoLostUpdate OncePerTruth AnswersAreCommitted
PROPERTY ImplementsRegister
