SPECIFICATION FairSpec
CONSTANTS
  c1 = c1
  w = w
  Account = {1, 2}
  Caller = {c1}
  Worker = w
  NoAccount = 0
  Renewable = {1, 2}
  Lead = 1
  Life = 1
  Interval = 1
  NullsFirst = TRUE
  MaxCount = 1
INVARIANT TypeOK
PROPERTY BestUsableIsChosen
PROPERTY DueAccountsAreRefreshed
