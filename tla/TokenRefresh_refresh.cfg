\* Two refreshers of an account that tries its tokens first.
SPECIFICATION FairSpec
CONSTANTS
  p1 = p1
  p2 = p2
  NoOne = NoOne
  Refresher = {p1, p2}
  CookieMode = FALSE
  TokenInJwt = FALSE
  MaxRotations = 2
INVARIANT TypeOK
INVARIANT RotatedTokenIsKept
INVARIANT NoTokenIsSpentTwice
PROPERTY EveryRefreshEnds
