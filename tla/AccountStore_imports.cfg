\* Two requests, of which each may import two items, and two accounts ever created.
SPECIFICATION Spec
SYMMETRY Symmetry
CONSTANTS
  r1 = r1
  r2 = r2
  e1 = e1
  e2 = e2
  NoEmail = NoEmail
  Same = Same
  Nothing = Nothing
  Request = {r1, r2}
  Email = {e1, e2}
  Item <- Brought
  Field <- Given
  Seed = e1
  MaxId = 2
  MaxItems = 2
INVARIANT TypeOK
INVARIANT HandledItemsAreStored
INVARIANT StatementsHitTheirAccount
INVARIANT DisabledStaysDisabled
