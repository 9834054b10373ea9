\* Two calls over two accounts, banned on their first error.
SPECIFICATION Spec
CONSTANTS
  a1 = a1
  a2 = a2
  g1 = g1
  g2 = g2
  NoAccount = NoAccount
  Account = {a1, a2}
  Call = {g1, g2}
  Timeouts = {2}
  Threshold = 1
SYMMETRY PoolSymmetry
INVARIANT TypeOK
INVARIANT LeaseCoversCall
INVARIANT BanIsDeserved
PROPERTY ImplementsExclusive
