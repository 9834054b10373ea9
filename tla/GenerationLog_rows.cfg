\* One generation, which may fall back once; the timeout may be changed.
SPECIFICATION FairSpec
CONSTANTS
  g1 = g1
  Call = {g1}
  MaxLogs = 2
  Timeouts = {1, 2}
  Default = 2
  Grace = 1
  MaxAge = 4
INVARIANT TypeOK
INVARIANT ActiveRowsAreOwned
INVARIANT RowTellsOutcome
INVARIANT NoLiveRowIsStale
PROPERTY NoRowIsRevived
PROPERTY EveryRowEnds
