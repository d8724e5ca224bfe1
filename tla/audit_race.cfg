CONSTANTS
  None = None
  Alice = Alice
  Requests = {r1, r2, r3}
  Inputs <- MoveInputs
  Accounts <- MCAccounts
  Refs <- MCAccounts
  AccountOf <- MCAccountOf
  SystemAccounts <- MCSystem
  OwnerOf <- MCOwnerOf
  CurrencyOf <- MCCurrencyOf
  InitiallyOpen <- MCOpen
  Owners = {Alice}
  Currencies = {"USD"}
  Keys <- MCKeys
  MaxBigint = 3
  PoolSize = 3
  DriverErrorWrapped = FALSE
  Watched = 1
  PageSize = 1
  User = Alice
  Openings = {o1, o2}
SPECIFICATION PageSpec
CONSTRAINT AccountsPageBound
SYMMETRY ReadersSymmetry
INVARIANTS AuditNeverFalseAlarm
