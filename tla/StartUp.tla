-------------------------------- MODULE StartUp --------------------------------
(***************************************************************************)
(* The start of the server: main of cmd/server, Migrate of internal/store/ *)
(* store.go with the statements of schema.go, and EnsureDefaults of        *)
(* config_store.go, on a database an earlier version may have left, and    *)
(* with a process that may die or be refused a statement anywhere.         *)
(*                                                                         *)
(* There is no version number and no transaction: every start goes through *)
(* all statements, each of which does nothing if its work is done.  Within *)
(* a stage they come in a fixed order the model does not rely on.  On      *)
(* SQLite, where the database numbers the rows itself, Numbered is empty.  *)
(***************************************************************************)
EXTENDS Naturals, Sequences

CONSTANTS
  Table,     \* the tables of schema.go
  Config,    \* those with one row of settings
  Numbered,  \* accounts and request_logs on PostgreSQL
  Column,    \* compatibilityColumns: columns later versions added
  TableOf,   \* the table of each of them
  Index,     \* the indexes of schema.go
  Needs,     \* the columns of later versions an index covers
  Accounts,  \* the table that gets the account of the environment
  MaxRow     \* bound of the model: rows of a numbered table

ASSUME StartAssumption ==
  /\ Config \subseteq Table /\ Numbered \subseteq Table /\ Accounts \in Table
  /\ Table \cap Column = {} /\ Table \cap Index = {} /\ Column \cap Index = {}
  /\ TableOf \in [Column -> Table]
  /\ Needs \in [Index -> SUBSET Column]
  /\ MaxRow \in Nat \ {0}

VARIABLES
  stage,     \* how far the start is, or "down" or "up"
  todo,      \* what the stage has still to execute statements for
  tables,    \* tables that exist
  columns,   \* those of Column that exist
  indexes,   \* indexes that exist
  filled,    \* tables of Config that have their row
  top,       \* the largest id of a numbered table
  sequence,  \* the next value of its sequence, 0 while it has none
  linked,    \* numbered tables whose ids default to the sequence
  step       \* where ensurePostgresIDDefault stands for each of them

startVars == <<stage, todo, tables, columns, indexes, filled, top, sequence,
               linked, step>>
numbers == <<top, sequence, linked, step>>

Stages == <<"tables", "columns", "numbers", "indexes", "rows", "account">>
Stage == {"down", "up"} \cup {Stages[i] : i \in DOMAIN Stages}
Steps == {"check", "setval", "default"}

\* Mutant of Work: the statements of schema.go are executed as they come.
WorkInOneGo(s) ==
  CASE s = "tables" -> Table \cup Index
    [] s = "columns" -> Column
    [] s = "numbers" -> Numbered
    [] s = "rows" -> Config
    [] s = "account" -> {Accounts}
    [] OTHER -> {}

\* What each stage goes through: indexes wait for the columns they may need
\* (isIndexStatement).
Work(s) ==
  CASE s = "tables" -> Table
    [] s = "columns" -> Column
    [] s = "numbers" -> Numbered
    [] s = "indexes" -> Index
    [] s = "rows" -> Config
    [] s = "account" -> {Accounts}
    [] OTHER -> {}

Missing(t) == {c \in Column \ columns : TableOf[c] = t}

StartTypeOK ==
  /\ stage \in Stage
  /\ todo \subseteq Work(stage)
  /\ tables \subseteq Table /\ columns \subseteq Column /\ indexes \subseteq Index
  /\ filled \subseteq Config
  /\ top \in [Numbered -> 0 .. MaxRow]
  /\ sequence \in [Numbered -> 0 .. MaxRow + 1]
  /\ linked \subseteq Numbered
  /\ step \in [Numbered -> Steps]
  /\ \A c \in columns : TableOf[c] \in tables
  /\ \A i \in indexes : Needs[i] \subseteq columns
  /\ filled \cup linked \subseteq tables
  /\ \A t \in Numbered : step[t] # "check" => stage = "numbers" /\ t \in todo \ linked

\* Nothing, or what an earlier version left; on PostgreSQL its rows may have been
\* copied from elsewhere, ids included.
StartInit ==
  /\ stage = "down"
  /\ todo = {}
  /\ tables \in SUBSET Table
  /\ columns \in SUBSET {c \in Column : TableOf[c] \in tables}
  /\ indexes = {}
  /\ filled \in SUBSET (Config \cap tables)
  /\ linked \in SUBSET (Numbered \cap tables)
  /\ top \in [Numbered -> 0 .. MaxRow - 1]
  /\ \A t \in Numbered \ tables : top[t] = 0
  /\ sequence = [t \in Numbered |-> IF t \in linked THEN top[t] + 1 ELSE 0]
  /\ step = [t \in Numbered |-> "check"]
-----------------------------------------------------------------------------
Boot ==
  /\ stage = "down"
  /\ stage' = "tables"
  /\ todo' = Work("tables")
  /\ UNCHANGED <<tables, columns, indexes, filled, numbers>>

\* Mutant of Advance: a statement that failed is only logged.
AdvanceAnyway ==
  /\ \E i \in DOMAIN Stages :
       /\ stage = Stages[i]
       /\ stage' = IF i = Len(Stages) THEN "up" ELSE Stages[i + 1]
  /\ todo' = Work(stage')
  /\ step' = [t \in Numbered |-> "check"]
  /\ UNCHANGED <<tables, columns, indexes, filled, top, sequence, linked>>

\* A stage is done and the next one begins; after the last the server listens.
Advance ==
  /\ \E i \in DOMAIN Stages :
       /\ stage = Stages[i]
       /\ stage' = IF i = Len(Stages) THEN "up" ELSE Stages[i + 1]
  /\ todo = {}
  /\ todo' = Work(stage')
  /\ UNCHANGED <<tables, columns, indexes, filled, numbers>>

Executed(x) == x \in todo /\ todo' = todo \ {x} /\ UNCHANGED stage

\* CREATE TABLE IF NOT EXISTS: a new table has all columns and numbers its rows.
CreateTable(t) ==
  /\ stage = "tables"
  /\ Executed(t)
  /\ IF t \in tables
       THEN UNCHANGED <<tables, columns, sequence, linked>>
       ELSE /\ tables' = tables \cup {t}
            /\ columns' = columns \cup Missing(t)
            /\ linked' = linked \cup ({t} \cap Numbered)
            /\ sequence' = [u \in Numbered |-> IF u = t THEN 1 ELSE sequence[u]]
  /\ UNCHANGED <<indexes, filled, top, step>>

\* ensureColumn: the catalogue, then ALTER TABLE ADD COLUMN.
EnsureColumn(c) ==
  /\ Executed(c)
  /\ TableOf[c] \in tables
  /\ columns' = columns \cup {c}
  /\ UNCHANGED <<tables, indexes, filled, numbers>>

\* CREATE INDEX IF NOT EXISTS.
CreateIndex(i) ==
  /\ Executed(i)
  /\ Needs[i] \subseteq columns
  /\ indexes' = indexes \cup {i}
  /\ UNCHANGED <<tables, columns, filled, numbers>>

\* Mutant of CheckNumbers: a sequence that exists is taken to be set.
CheckNumbersTrusting(t) ==
  /\ stage = "numbers"
  /\ step[t] = "check"
  /\ IF t \in linked
       THEN Executed(t) /\ UNCHANGED <<sequence, step>>
       ELSE /\ t \in todo
            /\ sequence' = [sequence EXCEPT ![t] = IF @ = 0 THEN 1 ELSE @]
            /\ step' = [step EXCEPT ![t] = IF sequence[t] = 0 THEN "setval" ELSE "default"]
            /\ UNCHANGED <<stage, todo>>
  /\ UNCHANGED <<tables, columns, indexes, filled, top, linked>>

\* ensurePostgresIDDefault: there is a default, or CREATE SEQUENCE IF NOT EXISTS
\* is the first of the statements.
CheckNumbers(t) ==
  /\ stage = "numbers"
  /\ step[t] = "check"
  /\ IF t \in linked
       THEN Executed(t) /\ UNCHANGED <<sequence, step>>
       ELSE /\ t \in todo
            /\ sequence' = [sequence EXCEPT ![t] = IF @ = 0 THEN 1 ELSE @]
            /\ step' = [step EXCEPT ![t] = "setval"]
            /\ UNCHANGED <<stage, todo>>
  /\ UNCHANGED <<tables, columns, indexes, filled, top, linked>>

\* setval, to MAX(id) + 1.
SetValue(t) ==
  /\ step[t] = "setval"
  /\ sequence' = [sequence EXCEPT ![t] = top[t] + 1]
  /\ step' = [step EXCEPT ![t] = "default"]
  /\ UNCHANGED <<stage, todo, tables, columns, indexes, filled, top, linked>>

\* ALTER COLUMN id SET DEFAULT.
SetDefault(t) ==
  /\ step[t] = "default"
  /\ Executed(t)
  /\ linked' = linked \cup {t}
  /\ step' = [step EXCEPT ![t] = "check"]
  /\ UNCHANGED <<tables, columns, indexes, filled, top, sequence>>

\* EnsureDefaults: the row is inserted unless there is one.
InsertDefault(t) ==
  /\ stage = "rows"
  /\ Executed(t)
  /\ t \in tables
  /\ Missing(t) = {}
  /\ filled' = filled \cup {t}
  /\ UNCHANGED <<tables, columns, indexes, numbers>>

\* An INSERT without an id; a taken id is refused, and its number is spent.
Number(t) ==
  /\ t \in linked
  /\ sequence[t] <= MaxRow
  /\ sequence' = [sequence EXCEPT ![t] = @ + 1]
  /\ top' = [top EXCEPT ![t] = IF @ < sequence[t] THEN sequence[t] ELSE @]
  /\ UNCHANGED <<linked, step>>

\* ensureInitialAccount: nothing, an update, or a new account.
InitialAccount ==
  /\ stage = "account"
  /\ Executed(Accounts)
  /\ (Accounts \in Numbered /\ Number(Accounts)) \/ UNCHANGED numbers
  /\ UNCHANGED <<tables, columns, indexes, filled>>

\* Accounts and logs are created while the server is up.
AddRow(t) ==
  /\ stage = "up"
  /\ Number(t)
  /\ UNCHANGED <<stage, todo, tables, columns, indexes, filled>>

\* Mutant of Stop: where it was is not forgotten.
StopMidway ==
  /\ stage # "down"
  /\ stage' = "down"
  /\ todo' = {}
  /\ UNCHANGED <<tables, columns, indexes, filled, numbers>>

\* A statement or a check of the environment fails (log.Fatalf), or the process is
\* stopped or killed.
Stop ==
  /\ stage # "down"
  /\ stage' = "down"
  /\ todo' = {}
  /\ step' = [t \in Numbered |-> "check"]
  /\ UNCHANGED <<tables, columns, indexes, filled, top, sequence, linked>>

StartStep ==
  \/ Boot \/ Advance \/ InitialAccount
  \/ \E t \in Table : CreateTable(t) \/ InsertDefault(t)
  \/ \E c \in Column : EnsureColumn(c)
  \/ \E i \in Index : CreateIndex(i)
  \/ \E t \in Numbered : CheckNumbers(t) \/ SetValue(t) \/ SetDefault(t)

StartNext == StartStep \/ Stop \/ \E t \in Numbered : AddRow(t)
-----------------------------------------------------------------------------
\* A sequence that numbers rows is ahead of all of them: no INSERT hits a taken id.
NewIdsAreFresh == \A t \in linked : sequence[t] > top[t]

\* A server that listens has its whole schema and every row of settings, and will
\* not number a row with an id that is taken, whatever an earlier version left and
\* wherever earlier starts broke off, ensurePostgresIDDefault included (Migrate and
\* EnsureDefaults before ListenAndServe).
StartedMeansReady ==
  stage = "up" =>
    /\ tables = Table /\ columns = Column /\ indexes = Index
    /\ filled = Config /\ linked = Numbered
    /\ NewIdsAreFresh
=============================================================================
