SPECIFICATION DeploySpec
CONSTANTS
  Runs = {r1, r2}
  Owners = {ann}
  Movements <- MCMovements
  None = None
  Images = 1
INVARIANTS
  AlreadyIsApplied
