CONSTANTS
  None = None
  Alice = Alice
  Bob = Bob
  K = K
  Requests = {r1, r2, r3}
  Inputs <- RefusalsAndRetries
  Accounts <- MCAccounts
  Refs <- MCAccounts
  AccountOf <- MCAccountOf
  SystemAccounts <- MCSystem
  OwnerOf <- MCOwnerOf
  CurrencyOf <- MCCurrencyOf
  InitiallyOpen = {1, 2}
  Owners = {Alice, Bob}
  Currencies = {"USD", "EUR"}
  Keys = {K}
  MaxBigint = 3
  PoolSize = 3
  DriverErrorWrapped = FALSE
SPECIFICATION Spec
SYMMETRY RequestSymmetry
INVARIANTS KeyExactlyOnce AnswersTruthful
PROPERTIES HistoryAppendOnly
