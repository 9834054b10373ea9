# FlowMusic2API in TLA+

FlowMusic2API is a Go server that offers an OpenAI-style API in front of the
FlowMusic web service. It keeps a pool of upstream accounts in a database,
lends one of them to each generation, keeps the accounts' credentials fresh,
logs every generation, rations a guest trial, and caches the generated media.
This directory holds TLA+ models of its core, TLC configurations that check
them on small instances, and theorems about them that TLAPS checks for all
values of the constants. Paths like `service/accounts.go` are relative to
`src/internal/`. `PROJECT.json` maps every definition to the lines it models.

## 1. The system

| Component | State | Operations | Talks to |
|---|---|---|---|
| Account pool (`service/accounts.go`, `service/generation.go`) | `leases` under `leaseMu`; in the row `is_active`, the error counters, `last_used_at` | `AcquireLeaseExcluding`, `acquireExcluding`, `orderAccountsForCallMode`, `tryLease`, `releaseLease`, `waitForLeaseRetry`, `recordFailure`, fallback | store, token refresh |
| Token refresh (`service/accounts.go`, credential exchanges of `service/flowmusic.go`) | `refreshLocks`, one mutex per account; the credential columns of the row | `RunRefreshOnce`, `shouldRefreshAccount`, `RefreshAccount`, `RefreshSupabase`, `refreshWithProviderCredentials`, `RefreshFromCookies` | Supabase, Google, FlowMusic, store |
| Generation and its log (`service/generation.go`, `store/logs.go`, log handlers of `httpapi/handlers.go`) | `request_logs`; `generation_config.timeout` | `GenerateWithProgress`, `CreateRequestLog`, `UpdateRequestLog`, `failLog`, `FinalizeStaleActiveLogs`, `ClearLogs` | pool, upstream client, media cache |
| Guest trial (`httpapi/server.go`, `httpapi/handlers.go`, `store/guest_usage.go`) | `guestBusy` under `guestMu`; `guest_usage` | `guestDailyLimitReached`, `acquireGuestSlot`, `incrementGuestUsage` | generation, store |
| Upstream client (`service/flowmusic.go`) | none beyond a request: the stream's idle timer and its flag | event stream with an idle timer, polling of operations, clips | FlowMusic |
| Account store, import (`store/accounts.go`, `httpapi/server.go`, `httpapi/import_cookie.go`) | `accounts` | create, upsert, update, delete, import | database |
| Configuration store (`store/config_store.go`, its handlers in `httpapi/handlers.go`) | one-row tables | `EnsureDefaults`, get, read-modify-write by the admin's handlers | database |
| Database schema (`store/store.go`, `store/schema.go`) | tables, columns, indexes, sequences | `Migrate`, `ensureCompatibilityColumns`, `ensurePostgresIDDefault` | database |
| Media cache (`storage/cache.go`) | files of the cache directory, or an S3 bucket | `CacheURL`, `saveLocal`, `replaceFile`, `CleanupLoop` | upstream CDN |
| HTTP API (`httpapi`) | admin sessions (signed, stateless) | routing, authentication, chat and audio adapters | all services |
| Start-up, shutdown (`cmd/server/main.go`) | none | migrate, insert the defaults, seed the environment's account, delete old logs, start the workers, listen, stop | all |

The accounts service, the generation service and the HTTP handlers run in one
process and share memory (the lease table, the refresh locks, `guestBusy`);
everything else they share is in the database, which they reach with single
statements and no transaction. Each HTTP request is a goroutine with a context;
a generation derives one with a deadline from it. Two more goroutines run in
the background: the refresh worker and the hourly cleanup of the cache.

What makes each part hard, and what makes it correct:

* **Account pool.** A lease is taken in three steps (a snapshot of the table, a
  choice from the database, a second look under the mutex), may end by its own
  clock while its owner still works, and is released by closures that may fire
  late or twice. *Correct:* no account is lent to two calls, a lease covers
  its call, a ban is deserved, every call returns.
* **Token refresh.** Upstream accepts a refresh token once and hands out its
  successor, so the only copy of the live token travels through a chain of
  exchanges, each of which may fail, to a row that others write too.
  *Correct:* the token that was handed out is the one stored, none is spent
  twice, nobody waits for the lock for ever.
* **Request log.** Several writers, none of which looks at the row's status or
  at its own error; contexts that end before the last write; crashes.
  *Correct:* a row tells what the client was told, an active row has an owner,
  the finalizer marks nobody alive, every row ends.
* **Guest trial.** Check, then act, then count, in three steps of which only
  the slot is atomic. *Correct:* one generation per address, no slot lost, the
  limits overrun by a known number at most.
* **Media cache.** Downloads of one medium, the sweep and the file server meet
  in a directory without a lock, and the sweep reads a file's age before it
  removes whatever has the name by then. *Correct:* a name hands out whole
  media only, nothing is removed early or left behind for ever.

* **Upstream client.** The reader of the event stream, the callback of its idle timer
  and the context race over one flag and one cancellation; what upstream answers to
  a retry or a poll decides which account is blamed. *Correct:* a stream that is read
  has a guard, it is cut only after silence, an authentication failure is the last
  answer and is reported as one, and the attempt ends though upstream never stops talking.
* **Account store.** Administrators look a row up, read it and write it in statements
  between which others delete, ban, rename and create. *Correct:* a statement reaches the
  account that was looked up or none, no edit enables what was disabled, an import that
  stops has stored the items before it.

* **Choice of an account.** A round judges every row by one list and one look at
  the clock, while refreshes that take minutes, its own among them, edits and bans
  change the rows; the order depends on statistics and on the database.
  *Correct:* a search comes back empty only if no account was usable all along,
  passes no better one over, and the worker gets to every account that is due.
* **Start-up and settings.** There is no schema version and no transaction: a
  start repeats every statement on whatever an earlier version, or a start that
  broke off, has left; updates of the settings write columns their requests leave
  out, as they read them or as Go left the fields.
  *Correct:* a server that listens has its schema, its rows and numbers nobody has,
  and a setting is lost only to an update that replaces its row without it, to an
  overlapping one, or, in the cache's table, to a failed read.

`PROJECT.json` lists 40 hazards at their lines, each with the properties that
cover it or the reason why none does.

## 2. Modules

| Module | What it is |
|---|---|
| `ExclusiveAccounts` | abstract: what the pool promises of accounts and calls |
| `AccountPool` | the lease table, the calls and the ban counter; implements `ExclusiveAccounts` |
| `AccountPoolProofs` | its theorems |
| `AccountChoice`, `AccountChoiceProofs` | which account a generation gets, and which ones the worker refreshes |
| `TokenRefresh`, `TokenRefreshProofs` | `RefreshAccount` on one account, the admin's edits of its row |
| `GenerationLog`, `GenerationLogProofs` | every writer of `request_logs` |
| `RefreshChain` | abstract: what refreshing promises of an account's refresh token; implemented by `TokenRefresh` |
| `GuestQuota` | slots and daily counters of the guest trial |
| `MediaCache`, `MediaCacheProofs` | the cache directory, its downloads and its sweep |
| `UpstreamDialogue`, `UpstreamDialogueProofs` | one attempt with upstream: requests, retries, stream, polling |
| `AccountStore`, `AccountStoreProofs` | the table of accounts under creations, imports and edits |
| `StartUp` | a start: schema, migration, sequences, defaults, the first account |
| `Configuration` | extends `StartUp` by the settings and their updates |
| `ServerProofs` | theorems about `GuestQuota`, `StartUp` and `Configuration` |
| `MC...` | constants for TLC: model values, symmetry |

Conventions. An atomic step of a model is one database statement, one
upstream exchange, or one critical section of a mutex. A client that leaves is a
`Disconnect` or `Cancel` action, possible at any time. Time is not a clock but
what is left until a deadline or has passed since a write, which is all the code
ever compares; one `Tick` moves all of them. Variables named *history* in a
module are not state of the code: properties use them, no guard reads them.
A definition introduced by a comment "Mutant of X" is not part of the model:
it is a bug X might have had, kept to show which property would notice it.

### AccountPool

`leases[a]` is the time left of the entry of `AccountService.leases`; an
expired entry and a missing one are both 0. `pc[g]` places a
call inside `GenerateWithProgress`: `looking` and `loading` are the two halves
of one round of `AcquireLeaseExcluding` (`activeLeases`; the query and choice
of `acquireExcluding`), `picked` is before `tryLease`, `waiting` is
`waitForLeaseRetry`, `generating` the upstream work, `judging` and `banning`
the second and third statement of `recordFailure`, `rejected` the fallback,
`returning` the deferred releases. `owed[g]` is the set of accounts whose
release closure has not fired: `sync.Once` is why firing removes it. Which
usable row is chosen depends on statistics and credentials; this model allows
any, or none, and `AccountChoice` says which.

### AccountChoice

`row[a]` is what the choice looks at: `is_active`, the time left of the bearer
and the time since `last_refresh_at`, where `NoExpiry` and `Never` stand for a
missing one. A round of `acquireExcluding` is `List` (the active rows that are not
excluded, in an order that comes from any statistics at all), `Judge` (the
policy, then one look at the clock) and then, row by row, `TakeReady`,
`RefreshSucceeds` or `RefreshFails`; `Fail` is the empty end. What the code keeps as
copies of rows shrinks after `Judge` to two sets, `renew` and `ready`, because
nothing else is read from them. `CallOrder` and `DatabaseOrder` are the two
orders of `orderAccountsForCallMode`; `Promised` is what the repository's `README.md:208-209`
says of them. `RefreshAccount`, which `TokenRefresh` details, is one step that
may do to the row what that module allows (`Refreshed`, `Attempted`). The worker's
round is `WorkerLists`, then `WorkerPasses` (the account is leased) or
`WorkerRefreshes` for every due row of its list. `steady` is history: the accounts that were
listed, active and current ever since.

### TokenRefresh

The refresh tokens of one account form a chain 1, 2, ...; `live` is the one
upstream accepts. `row`, `seen[p]`, `copy[p]` are the row, what
`RefreshAccount` read and its working copy, reduced to what decides the
control: which token, which other credentials exist, whether the bearer's expiry
is unknown, ahead or behind. Each credential exchange is the set of ways it may
end (`RefreshSupabase`, `RefreshWithProvider`, `RefreshFromCookies`), including
the one where upstream rotated the token and the reply was lost. `EditRead` and
`EditWrite` are the two statements of `UpdateAccount`. A start whose environment
configures the account writes the environment's refresh token into the row
(`Reseeded`); if that token is spent by then, the stored one counts as lost.
`RefreshChain` is the same account without lock, copies and row: one token, the live one,
replaced by its successor in the step that spends it, until a successor gets lost.

### GenerationLog

`log[l]` is `status_text`, from which `status_code` follows. `Advance`,
`Fail`, `GiveUp` and `Succeed` are the writes of an attempt, all ignoring the
database's error, all but `failLog`'s in the call's own context. `Finalize` is
the finalizer that runs before logs are listed, with the timeout configured *now*;
`Start` uses the one configured *then*.

### GuestQuota

`slot` is `guestBusy`, `used` today's `guest_usage`. `CheckIP`, `CheckGlobal`,
`AcquireSlot`, `Generated` or `Panic`, `Count` and `ReleaseSlot` are the steps of
the two guest handlers, in the code's order. A failed read of a counter lets
the request through, as in the code; `failedOpen` remembers it for a live request.
A counter is the set of its uses (`Uses`), and the sum over all addresses, which
`GetTodayGlobalGuestUsage` asks the database for, is their number (`Total`). `Restart`
drops slots and requests and keeps the counters, which are rows.

### MediaCache

`dir` is the cache directory, temporary files included (`Medium` are the names
handed out, `Temp` those of `os.CreateTemp`); a file is what it holds (the download
still writing it, `"whole"` or `"torn"`) and its age. `config` is
`cache_config.timeout`, or `Nothing` while the cache is off. `Begin` to `Copied`
are the steps of `CacheURL`, `saveLocal` and `replaceFile`; `Leave` contains
the deferred `os.Remove`. `RenameFails` followed by `OpenBoth` and `Copied` is
the fallback that copies in place. A file that is removed while a
download writes it keeps no name (`WriteTemp`). `sweep`, `limit` and `doomed`
are what a round of `CleanupLoopWithStore` has still to look at, the age it removes
at, and the file it is about to remove: `Look` and `Remove` are two steps because
`cleanupDir` makes them two system calls.

### UpstreamDialogue

`pc` is where `GenerateWithProgress` (or `LookupResult`) stands in its
dialogue: `starting`, `opening` and `loading` are requests, the steps of `Reading` lie
between two lines of the stream, `asking` and `pausing` are the halves of a
round of polling. `timer` is the idle timer (0 is stopped or fired), `callback` its
function, a goroutine of its own that first stores `idleTimedOut` and then cancels
(`cut`). `stopping` to `resetting` are the three steps of `resetIdleTimer`, between
which the callback may run. What upstream tells is a set of operations,
of lyrics, and whether there was a clip. `left` and `pollLeft` are the
times until the context and the poll end, `quiet` the time since the last line.

### AccountStore

`rows[id]` is a row of `accounts`, reduced to its address, `is_active`, and the
account it was created for; `lastId` is the database's sequence. A
request is a list of items (an edit or a creation has one) and the statement it is at:
`Look` is `GetAccountByEmail`, `Read` and `Write` the two halves of `UpdateAccount`,
`Insert` is `CreateAccount`, `Activate` the `SetAccountActive` that an import does after
the upsert. Any statement may fail, which ends the request with the items before
it stored. `Delete` and `SetActive` are the statements of other routes and of
`recordFailure`; `Restart` drops all requests and seeds the environment's account.

### StartUp and Configuration

`stage` is how far `main` got and `todo` what the stage has still to execute
statements for: the tables of `schema.go`, `compatibilityColumns`, the sequences of
PostgreSQL, the indexes (which `isIndexStatement` holds back until the columns
exist), the rows of `EnsureDefaults`, the account of the environment. Within a stage the
model takes the statements in any order. `CheckNumbers`, `SetValue` and `SetDefault` are the
three statements of `ensurePostgresIDDefault`; a `Stop` between any two is a
failed statement, a refused check of the environment or a kill. `StartInit` is any database an
earlier version may have left, an empty one included. The seeded account is
created, updated or left alone here; what becomes of its credentials is in
`TokenRefresh`, of its address in `AccountStore`.

`Configuration` adds one column of the settings, `watched`, which TLC chooses among all
of them (those every update treats alike are one). `Updates` lists the handlers of
`handlers.go` by what they do with each column their statement writes:

| Field of an update | The column is | Handlers |
|---|---|---|
| `must` | refused if left out | `api_key` |
| `keeps` | left out: written as it was read | the administrator's (`httpapi/handlers.go:245`), the S3 secret (43), the name beside a password |
| `resets` | left out: written as Go left the field, or as the default the store makes of it (`LeftOut`) | generation, refresh, proxy, call mode, debug and the full update of the cache, which decode into an empty struct; the switch of `/enabled` paths |
| `back` | never mentioned, written as it was read | the rest of the row for `/api/cache/enabled`, `/api/cache/base-url` and the refresh switch |
| `voids` | blanked for another field's sake, mentioned or not | the URL of a proxy that is off (437), the public URL of an `r2` storage (`store/config_store.go:234`) |

`blind` updates, those of the cache, go on when their read failed, with empty fields.
`Receive` is the read; `WriteAsked`, `Reset` and `WriteBack` are the statement, for a column
that is mentioned, replaced or copied. History: `asked` is what the last request that
mentions the column wants, `past` what it has held, and `causes` why it may differ since:
it was reset, or written back by an update whose copy was `"stale"` when it wrote, or which
had read `"nothing"`.

## 3. Runs

Passing runs. Every property of every run has a mutant in `PROJECT.json` that
makes it fail under the same configuration.

| Run | Shows | Instance |
|---|---|---|
| `AccountPool_safety` | `LeaseCoversCall`, `BanIsDeserved`, and that the pool implements `ExclusiveAccounts` (`ImplementsExclusive`), which lends no account to two calls | 2 calls, 2 accounts, timeout 2, ban at the first error; symmetric |
| `AccountPool_liveness` | `EveryCallReturns` | 2 calls, 1 account |
| `AccountChoice_rounds` | `BestUsableIsChosen`, `DueAccountsAreRefreshed` | 1 generation beside the worker, 2 accounts, both renewable, bearers of length 1, lead and interval 1, counters up to 1 |
| `Configuration_starts` | `StartedMeansReady`, `SettingsAreKept`, `StartsUnlessDisturbed` | PostgreSQL; 3 tables with a later column each, 2 of them numbered, 2 indexes, up to 2 rows; 2 updates at a time, 2 values |
| `TokenRefresh_refresh` | `RotatedTokenIsKept`, `NoTokenIsSpentTwice`, `EveryRefreshEnds` | 2 refreshers, 2 rotations, every initial account |
| `GenerationLog_rows` | `ActiveRowsAreOwned`, `RowTellsOutcome`, `NoLiveRowIsStale`, `NoRowIsRevived`, `EveryRowEnds` | 1 generation at a time, 2 rows, timeouts 1 and 2, grace 1 |
| `MediaCache_files` | `MediaAreWhole`, `MediaLastTheirTime`, `OrphansAreSwept` | 2 downloads of 1 medium, 2 temporary names, sweep at age 1 or off, ages up to 2 |
| `UpstreamDialogue_attempt` | `StreamIsGuarded`, `CutMeansSilence`, `AuthFailureEndsAttempt`, `AttemptEnds` | 2 operations, 1 lyric, 2 attempts, timeouts 4 (context), 2 (poll), 2 (idle) |
| `AccountStore_imports` | `HandledItemsAreStored`, `StatementsHitTheirAccount`, `DisabledStaysDisabled` | 2 requests of up to 2 items, 2 addresses, 2 accounts ever created; symmetric |
| `GuestQuota_trial` | `SlotsAreOwned` (with one running generation per address), `IPOvershootIsBounded`, `GlobalOvershootIsBounded`, `SlotsAreFreed` | 2 requests, 2 addresses, limits 1 and 2 |

Why these bounds. A conflict over a lease, a slot or a token needs two actors;
two accounts let a call fall back while the other one waits for what it gave
up. A timeout of 2 gives a lease and a context that start in different ticks,
so they can end in a different order. One generation at a time with two rows
includes a fallback (two rows of one call) and a successor of a crashed or
cleared row; rows of different calls do not share state. Two timeouts let an
administrator shorten or lengthen it between start and listing, and the
grace of 1 is the code's two minutes against timeouts of minutes. Two rotations let a
spent token be followed by a live one and that by a third. The guest limits are
smaller than the number of requests, so every limit is met and overrun. Two
downloads of one medium have a temporary file each and meet at the name; a third
would only repeat what the second does, and media of different names share
nothing but the sweep, which looks at one file at a time.
A stream needs an idle time of two ticks for a line to come between
silence and its end, and a context that outlives it, so that either may cut it;
two attempts are a retry and its refusal, two operations let one be answered and
the other asked again. Two requests with two items each let one overtake the
other between any two of its statements; two accounts are one that is
deleted and one created after it, which is where an id could be reused.
Two accounts and a search suffice for a better and a worse one, of which the
better one is refreshed, fails, expires or is banned; what `AccountChoice`
compares of the statistics is a pair of accounts, so counters up to 1 give every
order, with `NullsFirst` as on SQLite (the theorem covers both). A bearer of
length 1 and `Lead` 1 are due from the beginning and expire under a round that
listed them. Three tables are one of settings and two numbered ones, as
in `schema.go`: a column of a later version that no index needs, and two that
one needs. With `MaxRow` 2, a table has a row before and gets one after the sequence
was set. Two updates overlap; a third one only repeats the second.
`MaxCount`, `MaxRow`, `MaxRotations`, `MaxLogs`, `MaxAge`, `MaxId` and `MaxItems` are bounds of
the models, named as such where they are declared; counters saturate, an upstream
that reached `MaxRotations` refuses, and so does a table that reached `MaxId`.

Runs that end in a counterexample: what the repository says, and the code does not do.

| Run | Property | What happens |
|---|---|---|
| `AccountPool_overstay` | `ExclusiveUse` | A call that returns after its lease ended deletes the lease of its successor (`service/accounts.go:313`), and a third call gets the account |
| `TokenRefresh_edit` | `EditPreservesTokens` | `UpdateAccount` undoes a refresh that came between its read and its write |

Other deviations are part of the models, which are faithful to the code, and are
stated as bounds, exceptions or assumptions of the properties:

* The guest limits are overrun by up to one less than the number of requests
  (`IPOvershootIsBounded`, `GlobalOvershootIsBounded`), since a counter is read before
  the slot is taken. A client that leaves before the end is not counted at all
  (`httpapi/server.go:177`, `Count` may fail).
* Where the cookies' JWT carries a refresh token (`TokenInJwt`), the fallback of
  `service/flowmusic.go:434` can store a spent token: `RotatedTokenIsKept` is checked and
  proved for accounts without one.
* A bearer obtained with the provider token keeps the expiry of the old one
  (`service/accounts.go:459`), so a row may be passed over, and refreshed again
  and again, though its bearer works (`Refreshed` of `AccountChoice`).
* A generation whose context ends while its media are cached is answered, and logged as
  a timeout (`service/generation.go:257`); it is the outcome `late` of `GenerationLog`.
* `NULL` sorts last on PostgreSQL, so that polling reaches an account that was never used
  after all others (`store/accounts.go:32`; `README.md:209` speaks of the order of
  `last_used_at` only). `Promised` promises nothing for it there (`NullsFirst`).
* Most updates of the settings replace the row: a field the request leaves out is erased, or
  becomes a default (`httpapi/handlers.go:138`, 160, 432 and the full path of 33). An update
  of the cache's configuration whose read failed writes empty fields over what it does not mention
  (line 34), the S3 secret included, which `internal/httpapi/server_test.go:1842` wants preserved
  where the read succeeds. Overlapping updates undo each other. These are the three
  exceptions of `SettingsAreKept`, which says for each what it can cost: no replacing update
  takes the secret, the administrator's name, the key or the limits; an overlap brings back
  only a value the column once had; a failed read costs nothing outside the cache's table.
* An authentication failure met while polling for the ids of lyrics is not reported as one, and
  no other account is tried (`service/generation.go:187`): the exception of
  `AuthFailureEndsAttempt`, confined to that poll.

Met while modelling, but outside of the models: on PostgreSQL the guest counters
compare a `TEXT` with a `DATE` column (`store/guest_usage.go:10`), so that reading them
fails and lets everybody through; `FLOWMUSIC_GUEST_DAILY_LIMIT` and its
global sibling are loaded (`config/config.go:163`) and never used.

## 4. Fairness

One assumption is common to all models of calls: writing to a client takes no time. Progress
is written in the goroutine of the generation (`httpapi/handlers.go:774`), and the server
sets no `WriteTimeout` (`cmd/server/main.go:57`), so a client that stays connected and stops
reading can block that write when the connection's buffers are full, and with it the call, past
its context. `EveryCallReturns`, `AttemptEnds` and `SlotsAreFreed`, which relies on the first,
are about executions without such a client; one that leaves is a `Disconnect` or `Cancel`,
and included. The account is not held up: its lease ends by its own time.

* `AccountPool`: time passes (`WF(Tick)`); a call that waits for nothing but
  the scheduler goes on. Nothing is assumed of upstream: the work ends,
  at the latest, because its context does (`StopOnCtx`), which Go's HTTP client
  honours. The run has one account, so the calls wait for each other's lease of the same one.
  Two calls that each wait for the account the other gave up need two; the behaviour
  graph of that instance is too large for the liveness check. That wait ends for the same
  reasons, the time of the lease and of the context, which do not depend on the number
  of accounts, but this is an argument and not a result of the run.
* `TokenRefresh`: every exchange ends, since the HTTP clients have timeouts
  (`WF` of the steps of the lock's holder); a waiter for the account's mutex gets it eventually
  (`SF(Lock)`): Go's mutex hands over to a waiter that starved for 1 ms.
* `GenerationLog`: time passes, and the finalizer runs again and again while
  there are stale rows. The second holds while somebody lists logs: the admin
  page polls the active ones (`src/web/static/manage.html:1092`).
  Nothing is assumed of the generations.
* `AccountChoice`: the worker goes on (`WF(Work)`): its ticker fires and a refresh ends,
  which is `EveryRefreshEnds`. `DueAccountsAreRefreshed` is about executions where refreshing
  stays enabled; nothing is assumed of callers, refreshes' outcomes or time.
* `Configuration`: the process runs, and is started again when it ends, which is
  `restart: unless-stopped` in `docker-compose.yml` (`WF(StartStep)`).
  `StartsUnlessDisturbed` is about executions in which nothing fails any more.
* `GuestQuota`: handlers run, and a generation ends, which is
  `EveryCallReturns` of the pool.
* `UpstreamDialogue`: requests end, as the HTTP client has a timeout; the
  timer's callback runs once it started; time passes (`SF(Tick)`: the steps between two
  lines take no time, and a stream that never stops talking must not stop the clock); a
  read whose context ended fails in the end. Nothing is assumed of what upstream says.
* `MediaCache`: time passes, and the sweep goes on (`WF(Sweep)`): its ticker fires
  hourly for the life of the process. Nothing is assumed of the downloads.
  `OrphansAreSwept` is about executions whose crashes end.

## 5. Proofs

The theorems are of the forms `Spec => []P`, `Spec => [][A]_vars` and, for the two
refinements, `Spec => Abstract!Spec`, for every value of the constants allowed by the
module's `ASSUME`. One is about an operator, the order of accounts. Each of the others
rests on an inductive invariant that was first checked with TLC.

* **AccountPool.** `ExclusiveLease` alone is not inductive: that `tryLease`
  finds no lease must mean that nobody owes a release. `IInv` adds that a call owes
  exactly the account it works with (`HoldsWhatItChose`), never
  tries an account twice, that its context has no more time than its timeout
  (`DeadlineWithinTimeout`), and `LeaseCoversCall`: while no call outlived its
  lease, whoever owes a release has an entry in the table. `BanIsDeserved`
  follows from `IInv`: only the owner's success could reset the run of errors.
  `LeasesComeBack` states the two parts of `IInv` that every fallback and every
  disconnection must keep: a call owes the account it works with and no other, from
  its lease to its return, and goes back to none it excluded.
  `PoolImplementsExclusive` shows every step of the pool to be a step or a
  stutter of `ExclusiveAccounts`, action by action.
* **AccountChoice.** `SteadyIsReady`: an account that stayed usable is among those the round
  has still to look at, and was ready by the list and the clock. `PromisedIsKept`
  relates the order of a round to what was promised of it; that the code's orders keep the
  promise for every pair of accounts and all statistics, with either place for
  `NULL`, is the lemma `PromiseInOrder`. `BestUsableIsChosen` then follows: whoever
  is taken is first, and a better steady account would come before it.
  `ChoiceIsWellOrdered` is about the orders alone: for all statistics and both call modes,
  any two accounts are ordered and every non-empty set has a first one. Its proof takes the
  least number of each criterion in turn (`SmallestNumber`, `SmallestAccount`), so that
  it needs no finite set of accounts. `SearchGoesOn` carries this through the
  rounds, where a list shrinks while its order stays (`ListsAreWellOrdered`): a search with
  accounts left has exactly one that is next, which is the safety half of its ending.
* **TokenRefresh.** `LockInvariant`: only the holder of the lock is past it.
  `TokenInvariant`: without a lost rotation, the row (or, during a refresh, the
  holder's copy) has the live token. `RotatedTokenIsKept` and
  `NoTokenIsSpentTwice` follow, for any number of refreshers, any number of
  rotations and both protocol modes, from the assumption that no JWT carries a refresh
  token; without it the first is false. `RefreshesExclude`, which needs no such
  assumption, says that two callers are never inside `RefreshAccount` for one account and that a
  lock that is held is held by one that is: no ending of an exchange leaves it behind.
  `RefreshImplementsChain` maps the token that counts (`carried`: the holder's copy
  while it has one, the row otherwise) to the one token of `RefreshChain`. Each step, the
  edits, the seeding at a restart and the crashes included, is then a rotation, the
  learning of the live token from the cookies' session, or a loss, or changes nothing
  (`StepExtendsChain`; `Carried` and `CarriedNext` say which copy counts before and after). No
  run has it as a property: its content on an instance is that of the two properties
  of `TokenRefresh_refresh`. It was first checked with TLC on the instance of that run.
* **GenerationLog.** `IdsInvariant` (a row has one attempt, ids are not
  reused), `TextInvariant` and `EndInvariant` (what the row says, what its attempt
  came to), `AgeInvariant` (`age + left <= timeout`: a live generation's row
  cannot be older than the generation). The last one is why the
  finalizer's two minutes are safe.
* **GuestQuota.** `SlotInvariant` gives `SlotsAreOwned`, exclusion per address included.
  `IPOvershootIsBounded` is inductive by counting: the request that passes the
  check with `used < MaxDaily` joins at most all the others among the uncounted.
  `GlobalOvershootIsBounded` (`GlobalInvariant`) is the same count for the sum. A sum
  over all addresses is out of the provers' reach as a fold and within it as the number of
  a set of uses: `CountAddsOneUse` says that counting adds at most one element.

* **MediaCache.** `TempInvariant` (a temporary name belongs to one download, what
  it holds tells how far that is), `CopyInvariant` (copies in place
  happen only after a failed rename) and `SweepInvariant` (the doomed file is still
  too old unless it was written again) make `MediaAreWhole`,
  `TempsAreOwned` (proved only: `MediaAreWhole` rests on it) and `MediaLastTheirTime` inductive, for any number of downloads
  and media. The delicate case is a download whose temporary file the sweep took: its
  rename fails with nothing to rename, and `OpenBoth` must not truncate the target
  then.

* **UpstreamDialogue.** `TimerInvariant` says in which steps of `resetIdleTimer` the timer may
  be stopped without a callback under way, `SilenceInvariant` that a timer with
  little time left, or a callback, means a long silence. With typing they give
  `StreamIsGuarded` and `CutMeansSilence`; `AuthFailureEndsAttempt` is
  inductive with them: `refused` is set when upstream's status arrives, and from there until the
  end only the body is read, whatever the clock and the client do meanwhile. `AsksForWhatWasTold` is inductive with the typing alone: a poll asks
  for something, only for operations and lyrics that the conversation or the stream
  mentioned, and clips are returned only where upstream told of some; the delicate steps are
  the retries, which come back to the request that failed (`FailureAsksForNothing`), and the
  end of a stream, which decides between polling and loading (`StreamTells`).
* **AccountStore.** `Shape` (an edit has one item and never looks anything up; a
  request about to write has a row to write) carries the typing. `Ids` (a row's
  id is its account's number, no id is ahead of the sequence, nothing was said
  of an account to come) and `Known` make `StatementsHitTheirAccount` inductive, and
  `DisabledStaysDisabled` follows step by step: whoever says that an account is disabled
  either writes it at once or is about to (`Owed`). `HandledInvariant` strengthens
  `HandledItemsAreStored` by the item at hand once its row was found: a row that
  another request deletes or renames between the look-up and the update is in
  `gone`, because its address is among those the request has reached (`Carried`).
* **StartUp and Configuration.** The theorems hold for every schema, not only that of
  the instance: any tables, columns, indexes and settings, as long as these are different
  things and what an index needs is among the columns (`StartAssumption`, `SettingsAssumption`).
  `StartInvariant` says what each stage has behind it (`Progress`: everything of the
  stage but what is `todo`, everything of the stages before) and that a sequence is ahead of
  its table before it numbers anything (`NumbersAhead`); that a step of the start keeps
  `Progress` needs the order of the stages, spelled out in `StageNames` and `Follows`.
  `StartedMeansReady` follows, and so does `StatementsFindWhatTheyNeed`: whatever
  an earlier version left and wherever earlier starts broke off, the order of the
  statements is never why one fails. `SettingsInvariant` adds, for `SettingsAreKept`, that a copy
  an update took is what the row says unless the row was written since, and is then
  at least what it once said, and that only updates of the cache write back what they have
  not read (`Copies`, `PastIsComplete`). Which columns an update can reset is a fact about the table of
  updates, shown entry by entry (`UpdateFacts`). The types of the settings rest on `StartedMeansReady`,
  as an update runs only where the row exists.

Proved and in no run: `LeaseIsExclusive` (`ImplementsExclusive`, which TLC checks,
implies it), `TempsAreOwned`, `LeasesComeBack`, `SearchGoesOn`, `ChoiceIsWellOrdered`,
`RefreshesExclude`, `RefreshImplementsChain`, `AttemptsAskForWhatWasTold` and
`StatementsFindWhatTheyNeed`, which are lemmas of the properties that are checked, or say
of all constants what an instance could show little of.

Only TLC checks the eight liveness properties (`EveryCallReturns`, `SlotsAreFreed`,
`EveryRefreshEnds`, `EveryRowEnds`, `OrphansAreSwept`, `AttemptEnds`,
`DueAccountsAreRefreshed`, `StartsUnlessDisturbed`): their proofs need `ENABLED`, which the
installed provers do not handle. Every safety property of a passing run is a theorem.

## 6. What is not modelled

* A generation timeout of 0, where the context has no deadline but the lease
  lasts ten minutes.
* Changes of the guest limits while requests run; days other than today.
* The order of clips and the text of progress events; in imports the defaults of
  names, capabilities and concurrency limits, and how a browser's cookies are put
  together: data without a step of their own.
* An import that brings new credentials to a row under refresh (it writes like the edit of
  `TokenRefresh`), and the columns a refresh stores besides credentials.
* Uploads to S3 (the local side of them is a `GiveUp`: the temporary file is
  removed) and `TestConfig`, which writes under a name of its own.
* Shutdown beyond what a crash does. `ListenAndServe` returns as soon as `Shutdown` is
  called, so `main` closes the database without waiting for the ten seconds
  of its drain: to requests under way that is a failed statement, which
  every model allows.
* HTTP routing, authentication (tokens are checked per request, nothing is kept) and
  formatting, the parsing of environment variables, the translation of SQL placeholders and
  of times, web pages: stateless, or run once before anything else.

## 7. Plan

1. Done: account pool, token refresh, request log, guest trial, each with
   an abstract or inductive account of why it is right.
2. Done: `MediaCache`, `UpstreamDialogue`, `AccountStore`.
3. Done: `AccountChoice`, the order and choice of accounts against refreshes, edits and bans.
4. Done: `StartUp` and `Configuration`, migration on any earlier database and the
   administrators' updates across restarts.
5. Done: theorems for all safety properties of the passing runs; `ExclusiveAccounts` and
   `RefreshChain` implemented.
6. Left: a generation timeout of 0 in `AccountPool`; the reassembly of cookies and
   `orderClipsByIDs` against reference definitions; that `UpstreamDialogue`
   implements what `AccountPool` and `GenerationLog` assume of an attempt.
