---------------------------- MODULE MCConfiguration ----------------------------
(* Instances of Configuration for TLC. *)
EXTENDS Configuration, TLC

CONSTANTS settings, accounts, logs, debugEnabled, lastUsedAt, createdAt, activeUsed,
          logsCreated, r1, r2

\* A column later versions added to each table; two of them are in an index.
ColumnTables == debugEnabled :> settings @@ lastUsedAt :> accounts @@ createdAt :> logs
IndexColumns == activeUsed :> {lastUsedAt} @@ logsCreated :> {createdAt}
=============================================================================
