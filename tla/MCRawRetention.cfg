CONSTANTS
  a1 = a1
  a2 = a2
  e1 = e1
  Agent <- Agents2
  Event <- Events1
  Nobody = Nobody
  MonthDays = 2
  Window = 1
  TouchMin = 2
  FirstDay = 20
  MaxDay = 29
SPECIFICATION Spec
SYMMETRY SymmetryAgents
INVARIANTS TypeOK CallsFindPartition RunClears WaitLosesNothing
PROPERTY KeptAfterUse
