CONSTANTS
  None = None
  Alice = Alice
  Bob = Bob
  K = K
  Requests = {r1, r2, r3, r4}
  Inputs <- TransferInputs
  Accounts <- MCAccounts
  Refs <- MCAccounts
  AccountOf <- MCAccountOf
  SystemAccounts <- MCSystem
  OwnerOf <- MCOwnerOf
  CurrencyOf <- MCCurrencyOf
  InitiallyOpen <- MCAccounts
  Owners = {Alice, Bob}
  Currencies = {"USD"}
  Keys = {K}
  MaxBigint = 3
  PoolSize = 4
  DriverErrorWrapped = FALSE
SPECIFICATION Spec
SYMMETRY RequestSymmetry
INVARIANTS TypeOK Reconciled ChainsVerify NoOverdraft Conserved NoWaitCycle ReversedOnce OutboxExact
PROPERTIES RefusalsCurrent
