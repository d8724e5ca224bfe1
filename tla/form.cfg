SPECIFICATION Spec
CONSTANTS
  Accounts <- MCAccounts
  CurrencyOf <- MCCurrencyOf
  Lists <- MCLists
  Decimals <- MCDecimals
  Texts <- MCTexts
  Keys = {k}
  Calls = {c1, c2}
  None = None
INVARIANTS
  TypeOK
  KeySpendsOnce
  PostedIsTrue
  ToldNothingMoved
  SendingWaits
  AmountsExact
PROPERTIES
  NothingTwiceUnasked
  BreaksOnlyPosted
SYMMETRY CallSymmetry
ACTION_CONSTRAINT TypedToBeSent
