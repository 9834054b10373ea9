\* Three tables, each with a column of a later version, and two updates at once.
SPECIFICATION FairSpec
CONSTANTS
  settings = settings
  accounts = accounts
  debugEnabled = debugEnabled
  logs = logs
  lastUsedAt = lastUsedAt
  createdAt = createdAt
  activeUsed = activeUsed
  logsCreated = logsCreated
  r1 = r1
  r2 = r2
  Table = {settings, accounts, logs}
  Config = {settings}
  Numbered = {accounts, logs}
  Column = {debugEnabled, lastUsedAt, createdAt}
  TableOf <- ColumnTables
  Index = {activeUsed, logsCreated}
  Needs <- IndexColumns
  Accounts = accounts
  MaxRow = 2
  Request = {r1, r2}
  SettingsTable = settings
  Value = {0, 1}
  Zero = 0
  Default = 1
  Unset = 2
INVARIANT TypeOK
INVARIANT StartedMeansReady
 
PROPERTY StartsUnlessDisturbed
