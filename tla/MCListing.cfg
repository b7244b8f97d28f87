CONSTANTS
  r1 = r1
  r2 = r2
  r3 = r3
  r4 = r4
  Row <- Rows4
  Asked <- Limits
  Unsaid = Unsaid
  Default = 1
  Cap = 2
SPECIFICATION Spec
INVARIANTS TypeOK SeesWhatStayed
PROPERTIES HintOrAllShown ReadingEnds
