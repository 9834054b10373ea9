\* One refresher, and an administrator who edits the account's remark.
SPECIFICATION Spec
CONSTANTS
  p1 = p1
  p2 = p2
  NoOne = NoOne
  Refresher = {p1}
  CookieMode = FALSE
  TokenInJwt = FALSE
  MaxRotations = 2
PROPERTY EditPreservesTokens
