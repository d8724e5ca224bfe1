SPECIFICATION DeploySpec
CONSTANTS
  Runs = {r1, r2}
  Owners = {ann, ben}
  Movements <- MCMovements
  None = None
  Images = 2
INVARIANTS
  TypeOK
  OneHistory
  AppliedIsComplete
  TwiceIsNoOp
  ServesMigrated
  ReportedIsReseeded
SYMMETRY RunSymmetry
