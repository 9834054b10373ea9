\* Two requests of two addresses: one use of each address and two of all are allowed.
SPECIFICATION GuestFairSpec
CONSTANTS
  i1 = i1
  i2 = i2
  r1 = r1
  r2 = r2
  NoIP = NoIP
  IP = {i1, i2}
  GuestRequest = {r1, r2}
  MaxDaily = 1
  GlobalMax = 2
  MaxCount = 4
INVARIANT GuestTypeOK
INVARIANT SlotsAreOwned
INVARIANT IPOvershootIsBounded
INVARIANT GlobalOvershootIsBounded
PROPERTY SlotsAreFreed
