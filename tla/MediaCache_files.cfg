\* Two downloads of one medium, and the sweep.
SPECIFICATION FairSpec
CONSTANTS
  d1 = d1
  d2 = d2
  m1 = m1
  t1 = t1
  t2 = t2
  Nothing = Nothing
  Download = {d1, d2}
  Medium = {m1}
  Temp = {t1, t2}
  Timeouts = {0, 1}
  Fallback = 1
  MaxAge = 2
INVARIANT TypeOK
INVARIANT MediaAreWhole
PROPERTY MediaLastTheirTime
PROPERTY OrphansAreSwept
