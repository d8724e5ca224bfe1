CONSTANTS
  Accounts = {1, 2}
  SystemAccounts = {2}
  Transactions = {t1, t2, t3}
  Amounts = {1}
  EditedValues = {0, 2}
  MaxEdits = 3
SPECIFICATION Spec
SYMMETRY TransactionSymmetry
INVARIANTS TypeOK IntactIsTrue BrokenAtFirstDeparture WrongNeedsTwoRewrites
PROPERTIES AlarmStays
CHECK_DEADLOCK FALSE
