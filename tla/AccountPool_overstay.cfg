\* Two calls that compete for one account, banned on its first error.
SPECIFICATION Spec
CONSTANTS
  a1 = a1
  a2 = a2
  g1 = g1
  g2 = g2
  NoAccount = NoAccount
  Account = {a1}
  Call = {g1, g2}
  Timeouts = {2}
  Threshold = 1
INVARIANT ExclusiveUse
