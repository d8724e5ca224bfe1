CONSTANTS
  None = None
  Alice = Alice
  Requests = {r1, r2}
  Inputs <- SpelledInputs
  Accounts <- MCAccounts
  Refs <- MCRefs
  AccountOf <- MCAccountOf
  SystemAccounts <- MCSystem
  OwnerOf <- MCOwnerOf
  CurrencyOf <- MCCurrencyOf
  InitiallyOpen <- MCAccounts
  Owners = {Alice}
  Currencies = {"USD"}
  Keys <- MCKeys
  MaxBigint = 3
  PoolSize = 2
  DriverErrorWrapped = FALSE
SPECIFICATION Spec
INVARIANTS NoOverdraft
