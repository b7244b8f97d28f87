CONSTANTS
  w1 = w1
  NumFacts = 3
  Writer <- Writers1
  Script = Script
  Free = Free
  Batch = 2
  Refused <- Refused3
  MaxRev = 2
SPECIFICATION Spec
INVARIANTS TypeOK VectorOfTextUnlessOverlapped ExitZeroMeansComplete
PROPERTY BackfillEnds
