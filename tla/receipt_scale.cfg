SPECIFICATION Spec
CONSTANTS
  Accounts <- MCAccounts
  CurrencyOf <- MCCurrencyOf
  Lists <- MCLists
  Decimals <- MCDecimals
  Texts <- MCTexts
  Keys = {k}
  Calls = {c1}
  None = None
INVARIANTS
  ReceiptInItsCurrency
