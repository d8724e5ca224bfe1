CONSTANTS
  None = None
  Alice = Alice
  Bob = Bob
  K = K
  Requests = {r1, r2, r3}
  Inputs <- MixedInputs
  Accounts <- MCAccounts
  Refs <- MCAccounts
  AccountOf <- MCAccountOf
  SystemAccounts <- MCSystem
  OwnerOf <- MCOwnerOf
  CurrencyOf <- MCCurrencyOf
  InitiallyOpen <- MCAccounts
  Owners = {Alice, Bob}
  Currencies = {"USD"}
  Keys = {K}
  MaxBigint = 3
  PoolSize = 2
  DriverErrorWrapped = TRUE
SPECIFICATION FairSpec
PROPERTIES EveryRequestAnswered ImplementsAtomicLedger
