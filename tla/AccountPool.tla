----------------------------- MODULE AccountPool -----------------------------
(***************************************************************************)
(* The account pool of internal/service/accounts.go and the control of     *)
(* GenerateWithProgress (internal/service/generation.go) around it.        *)
(*                                                                         *)
(* A call is one GenerateWithProgress, or one LookupResult without an      *)
(* account id.  It leases an account in memory (AcquireLeaseExcluding),    *)
(* works upstream with it, records the outcome in the account's row, falls *)
(* back to another account when the upstream rejects its credentials, and  *)
(* runs the deferred release when it returns.                              *)
(*                                                                         *)
(* Time.  The code stores absolute times; every reader compares them with  *)
(* the present, so the model keeps the time left: leases[a] is what        *)
(* remains of a's lease (0: no entry, or an expired one, which no reader   *)
(* tells apart) and left[g] what remains of g's context deadline.  Tick    *)
(* counts all of them down.                                                *)
(*                                                                         *)
(* Which of the candidate rows acquireExcluding returns depends on their   *)
(* statistics (orderAccountsForCallMode) and credentials; here any of them *)
(* may be returned, or none.                                               *)
(***************************************************************************)
EXTENDS Naturals, FiniteSets

CONSTANTS
  Account,     \* the rows of the accounts table
  Call,        \* concurrent calls (each may run again once it returned)
  NoAccount,   \* no account chosen yet
  Timeouts,    \* values of the generation timeout the admin may configure
  Threshold    \* admin_config.error_ban_threshold (3 when unset)

ASSUME PoolAssumption ==
  /\ NoAccount \notin Account
  /\ Timeouts \subseteq Nat \ {0}
  /\ Threshold \in Nat \ {0}

VARIABLES
  leases,      \* AccountService.leases: account -> time left, 0 for none
  row,         \* the account's row: "active", "disabled" or "deleted"
  errors,      \* consecutive_error_count, counted up to Threshold
  pc,          \* where each call stands
  timeout,     \* runtime.Timeout of the call, read once when it starts
  left,        \* time left before the deadline of the call's context
  canceled,    \* the caller's own context was canceled (client went away)
  busy,        \* the call's snapshot of the active leases
  excluded,    \* excludedAccounts: accounts that rejected this call
  acct,        \* the account chosen or leased
  owed,        \* accounts whose release closure is deferred and not yet fired
  rejected,    \* the failure being recorded was an authentication failure
  overstay     \* history: a call past its deadline still owed a lapsed lease

lookVars == <<timeout, left, canceled>>
vars == <<leases, row, errors, pc, timeout, left, canceled, busy, excluded,
          acct, owed, rejected, overstay>>

Steps == {"idle", "looking", "loading", "picked", "waiting", "generating",
          "judging", "banning", "rejected", "returning"}

TypeOK ==
  /\ leases \in [Account -> Nat]
  /\ row \in [Account -> {"active", "disabled", "deleted"}]
  /\ errors \in [Account -> 0 .. Threshold]
  /\ pc \in [Call -> Steps]
  /\ timeout \in [Call -> Timeouts \cup {0}]
  /\ left \in [Call -> Nat]
  /\ canceled \in [Call -> BOOLEAN]
  /\ busy \in [Call -> SUBSET Account]
  /\ excluded \in [Call -> SUBSET Account]
  /\ acct \in [Call -> Account \cup {NoAccount}]
  /\ owed \in [Call -> SUBSET Account]
  /\ rejected \in [Call -> BOOLEAN]
  /\ overstay \in BOOLEAN

Leased(a) == leases[a] > 0

\* ctx.Err() != nil: every statement or request made with the context fails.
CtxDone(g) == canceled[g] \/ left[g] = 0

\* g may have a request running upstream with its account.
Using(g) == pc[g] = "generating" /\ ~CtxDone(g)

Init ==
  /\ leases = [a \in Account |-> 0]
  /\ row = [a \in Account |-> "active"]
  /\ errors = [a \in Account |-> 0]
  /\ pc = [g \in Call |-> "idle"]
  /\ timeout = [g \in Call |-> 0]
  /\ left = [g \in Call |-> 0]
  /\ canceled = [g \in Call |-> FALSE]
  /\ busy = [g \in Call |-> {}]
  /\ excluded = [g \in Call |-> {}]
  /\ acct = [g \in Call |-> NoAccount]
  /\ owed = [g \in Call |-> {}]
  /\ rejected = [g \in Call |-> FALSE]
  /\ overstay = FALSE
-----------------------------------------------------------------------------
(* Taking a lease.                                                          *)

\* GenerateWithProgress reads the timeout and derives its context from it.
Start(g) ==
  /\ pc[g] = "idle"
  /\ \E t \in Timeouts :
       /\ timeout' = [timeout EXCEPT ![g] = t]
       /\ left' = [left EXCEPT ![g] = t]
  /\ canceled' = [canceled EXCEPT ![g] = FALSE]
  /\ pc' = [pc EXCEPT ![g] = "looking"]
  /\ UNCHANGED <<leases, row, errors, busy, excluded, acct, owed, rejected, overstay>>

\* activeLeases: one pass over the lease table under leaseMu.
SnapshotLeases(g) ==
  /\ pc[g] = "looking"
  /\ busy' = [busy EXCEPT ![g] = {a \in Account : Leased(a)}]
  /\ pc' = [pc EXCEPT ![g] = "loading"]
  /\ UNCHANGED <<leases, row, errors, timeout, left, canceled, excluded, acct,
                 owed, rejected, overstay>>

\* Mutant of Candidates: the fallback forgets which accounts rejected the call.
CandidatesAgain(g) == {a \in Account : row[a] = "active"} \ busy[g]

Candidates(g) == {a \in Account : row[a] = "active"} \ (excluded[g] \cup busy[g])

\* What a call forgets when it returns.
Forget(g) ==
  /\ pc' = [pc EXCEPT ![g] = "idle"]
  /\ timeout' = [timeout EXCEPT ![g] = 0]
  /\ left' = [left EXCEPT ![g] = 0]
  /\ canceled' = [canceled EXCEPT ![g] = FALSE]
  /\ busy' = [busy EXCEPT ![g] = {}]
  /\ excluded' = [excluded EXCEPT ![g] = {}]
  /\ acct' = [acct EXCEPT ![g] = NoAccount]
  /\ rejected' = [rejected EXCEPT ![g] = FALSE]

\* acquireExcluding found a row with a current bearer (refreshing it if due).
Pick(g, a) ==
  /\ pc[g] = "loading"
  /\ ~CtxDone(g)
  /\ a \in Candidates(g)
  /\ acct' = [acct EXCEPT ![g] = a]
  /\ pc' = [pc EXCEPT ![g] = "picked"]
  /\ UNCHANGED <<leases, row, errors, timeout, left, canceled, busy, excluded,
                 owed, rejected, overstay>>

\* acquireExcluding failed: no usable row, or a dead context.  Only when the
\* snapshot held no lease does the call give up; otherwise it waits.
NoneUsable(g) ==
  /\ pc[g] = "loading"
  /\ IF busy[g] = {}
       THEN Forget(g)
       ELSE /\ pc' = [pc EXCEPT ![g] = "waiting"]
            /\ UNCHANGED <<timeout, left, canceled, busy, excluded, acct, rejected>>
  /\ UNCHANGED <<leases, row, errors, owed, overstay>>

\* Mutants of TryLease: it trusts the snapshot, or leases for a fixed time.
TryLeaseBlindly(g) ==
  /\ pc[g] = "picked"
  /\ busy' = [busy EXCEPT ![g] = {}]
  /\ leases' = [leases EXCEPT ![acct[g]] = timeout[g]]
  /\ owed' = [owed EXCEPT ![g] = @ \cup {acct[g]}]
  /\ pc' = [pc EXCEPT ![g] = "generating"]
  /\ UNCHANGED <<row, errors, timeout, left, canceled, excluded, acct, rejected, overstay>>

TryLeaseBriefly(g) ==
  /\ pc[g] = "picked"
  /\ ~Leased(acct[g])
  /\ busy' = [busy EXCEPT ![g] = {}]
  /\ leases' = [leases EXCEPT ![acct[g]] = 1]
  /\ owed' = [owed EXCEPT ![g] = @ \cup {acct[g]}]
  /\ pc' = [pc EXCEPT ![g] = "generating"]
  /\ UNCHANGED <<row, errors, timeout, left, canceled, excluded, acct, rejected, overstay>>

\* tryLease, which looks again under the mutex; a lease lasts runtime.Timeout.
TryLease(g) ==
  LET a == acct[g]
  IN  /\ pc[g] = "picked"
      /\ busy' = [busy EXCEPT ![g] = {}]
      /\ IF Leased(a)
           THEN /\ pc' = [pc EXCEPT ![g] = "waiting"]
                /\ acct' = [acct EXCEPT ![g] = NoAccount]
                /\ UNCHANGED <<leases, owed>>
           ELSE /\ leases' = [leases EXCEPT ![a] = timeout[g]]
                /\ owed' = [owed EXCEPT ![g] = @ \cup {a}]
                /\ pc' = [pc EXCEPT ![g] = "generating"]
                /\ UNCHANGED acct
      /\ UNCHANGED <<row, errors, timeout, left, canceled, excluded, rejected, overstay>>

\* Mutant of AwaitRetry: a sleep that does not look at the context.
AwaitRetryAsleep(g) ==
  /\ pc[g] = "waiting"
  /\ pc' = [pc EXCEPT ![g] = "looking"]
  /\ busy' = [busy EXCEPT ![g] = {}]
  /\ UNCHANGED <<leases, row, errors, timeout, left, canceled, excluded, acct,
                 owed, rejected, overstay>>

\* waitForLeaseRetry: 200 ms, or the end of the context.
AwaitRetry(g) ==
  /\ pc[g] = "waiting"
  /\ IF CtxDone(g)
       THEN Forget(g)
       ELSE /\ pc' = [pc EXCEPT ![g] = "looking"]
            /\ busy' = [busy EXCEPT ![g] = {}]
            /\ UNCHANGED <<timeout, left, canceled, excluded, acct, rejected>>
  /\ UNCHANGED <<leases, row, errors, owed, overstay>>
-----------------------------------------------------------------------------
(* Working with the account, and recording how it went.                     *)

\* The outcome of the upstream work sets pc alone, or pc and the row's errors.
Outcome(g, step) ==
  /\ pc[g] = "generating"
  /\ pc' = [pc EXCEPT ![g] = step]
  /\ UNCHANGED <<leases, row, timeout, left, canceled, busy, excluded, acct,
                 owed, overstay>>

\* Mutant of Succeed: a success forgives one error instead of all.
SucceedOnce(g) ==
  /\ Outcome(g, "returning")
  /\ errors' = IF CtxDone(g) THEN errors ELSE [errors EXCEPT ![acct[g]] = @ - 1]
  /\ UNCHANGED rejected

\* Success: IncrementAccountStat(ctx, true) resets the row's run of errors,
\* if the context lives; optional media may have outlived it.
Succeed(g) ==
  /\ Outcome(g, "returning")
  /\ errors' = IF CtxDone(g) THEN errors ELSE [errors EXCEPT ![acct[g]] = 0]
  /\ UNCHANGED rejected

\* A result that touches no statistics: no tool call came back, or a lookup.
EndQuietly(g) == Outcome(g, "returning") /\ UNCHANGED <<errors, rejected>>

\* shouldFallback on a canceled context or a passed deadline: no statistics.
StopOnCtx(g) == CtxDone(g) /\ EndQuietly(g)

\* Where shouldFallback leads once the failure is recorded: only an
\* authentication failure is tried again with another account.
Recorded(auth) == IF auth THEN "rejected" ELSE "returning"

\* recordFailure's first statement; with a dead context it is its last.
Fail(g, auth) ==
  /\ Outcome(g, IF CtxDone(g) THEN Recorded(auth) ELSE "judging")
  /\ rejected' = [rejected EXCEPT ![g] = auth]
  /\ errors' = IF CtxDone(g) \/ row[acct[g]] = "deleted" \/ errors[acct[g]] = Threshold
                 THEN errors
                 ELSE [errors EXCEPT ![acct[g]] = @ + 1]

\* recordFailure re-reads the row and compares its run of errors.
Judge(g) ==
  LET a == acct[g]
  IN  /\ pc[g] = "judging"
      /\ pc' = [pc EXCEPT ![g] =
                  IF ~CtxDone(g) /\ row[a] # "deleted" /\ errors[a] >= Threshold
                    THEN "banning" ELSE Recorded(rejected[g])]
      /\ UNCHANGED <<leases, row, errors, timeout, left, canceled, busy, excluded,
                     acct, owed, rejected, overstay>>

\* SetAccountActive(ctx, id, false).
Ban(g) ==
  LET a == acct[g]
  IN  /\ pc[g] = "banning"
      /\ row' = IF ~CtxDone(g) /\ row[a] = "active"
                  THEN [row EXCEPT ![a] = "disabled"] ELSE row
      /\ pc' = [pc EXCEPT ![g] = Recorded(rejected[g])]
      /\ UNCHANGED <<leases, errors, timeout, left, canceled, busy, excluded, acct,
                     owed, rejected, overstay>>

\* releaseLease: deletes the entry, whoever wrote it.
Release(S) == leases' = [a \in Account |-> IF a \in S THEN 0 ELSE leases[a]]

\* Mutant of FallBack: the release closure fires again when the call returns.
FallBackTwice(g) ==
  /\ pc[g] = "rejected"
  /\ excluded' = [excluded EXCEPT ![g] = @ \cup {acct[g]}]
  /\ Release({acct[g]})
  /\ acct' = [acct EXCEPT ![g] = NoAccount]
  /\ rejected' = [rejected EXCEPT ![g] = FALSE]
  /\ pc' = [pc EXCEPT ![g] = "looking"]
  /\ UNCHANGED <<row, errors, timeout, left, canceled, busy, owed, overstay>>

\* An authentication failure excludes the account, fires its release closure
\* (sync.Once: the deferred call will do nothing) and starts over.
FallBack(g) ==
  /\ pc[g] = "rejected"
  /\ excluded' = [excluded EXCEPT ![g] = @ \cup {acct[g]}]
  /\ Release({acct[g]})
  /\ owed' = [owed EXCEPT ![g] = @ \ {acct[g]}]
  /\ acct' = [acct EXCEPT ![g] = NoAccount]
  /\ rejected' = [rejected EXCEPT ![g] = FALSE]
  /\ pc' = [pc EXCEPT ![g] = "looking"]
  /\ UNCHANGED <<row, errors, timeout, left, canceled, busy, overstay>>

\* The call returns: the deferred release closures that never fired do now.
Return(g) ==
  /\ pc[g] = "returning"
  /\ Release(owed[g])
  /\ owed' = [owed EXCEPT ![g] = {}]
  /\ Forget(g)
  /\ UNCHANGED <<row, errors, overstay>>
-----------------------------------------------------------------------------
(* The environment: time, the clients and the administrator.                *)

CountDown(n) == IF n = 0 THEN 0 ELSE n - 1

Tick ==
  /\ \/ \E a \in Account : leases[a] > 0
     \/ \E g \in Call : left[g] > 0
  /\ leases' = [a \in Account |-> CountDown(leases[a])]
  /\ left' = [g \in Call |-> CountDown(left[g])]
  /\ overstay' = (overstay \/ \E g \in Call : \E a \in owed[g] :
                                left[g] <= 1 /\ leases[a] <= 1)
  /\ UNCHANGED <<row, errors, pc, timeout, canceled, busy, excluded, acct, owed,
                 rejected>>

Disconnect(g) ==
  /\ pc[g] # "idle"
  /\ ~canceled[g]
  /\ canceled' = [canceled EXCEPT ![g] = TRUE]
  /\ UNCHANGED <<leases, row, errors, pc, timeout, left, busy, excluded, acct,
                 owed, rejected, overstay>>

\* setTokenActiveValue: the run of errors is left as it is.
SetTokenActive(a, to) ==
  /\ row[a] \in {"active", "disabled"} \ {to}
  /\ row' = [row EXCEPT ![a] = to]
  /\ UNCHANGED <<leases, errors, pc, timeout, left, canceled, busy, excluded,
                 acct, owed, rejected, overstay>>

\* handleDeleteToken.
DeleteToken(a) ==
  /\ row[a] # "deleted"
  /\ row' = [row EXCEPT ![a] = "deleted"]
  /\ errors' = [errors EXCEPT ![a] = 0]
  /\ UNCHANGED <<leases, pc, timeout, left, canceled, busy, excluded,
                 acct, owed, rejected, overstay>>

Acquire(g) == SnapshotLeases(g) \/ (\E a \in Account : Pick(g, a))
              \/ NoneUsable(g) \/ TryLease(g) \/ AwaitRetry(g)
Work(g) == Succeed(g) \/ EndQuietly(g) \/ (\E auth \in BOOLEAN : Fail(g, auth))
Record(g) == Judge(g) \/ Ban(g) \/ FallBack(g) \/ Return(g)

Next ==
  \/ \E g \in Call : Start(g) \/ Acquire(g) \/ Work(g) \/ StopOnCtx(g)
                     \/ Record(g) \/ Disconnect(g)
  \/ \E a \in Account : DeleteToken(a)
                        \/ \E to \in {"active", "disabled"} : SetTokenActive(a, to)
  \/ Tick

Spec == Init /\ [][Next]_vars

\* Time passes; a runnable goroutine runs; a request ends when its context does.
Fairness ==
  /\ WF_vars(Tick)
  /\ \A g \in Call : WF_vars(Acquire(g) \/ StopOnCtx(g) \/ Record(g))

FairSpec == Spec /\ Fairness
-----------------------------------------------------------------------------
(* Properties.                                                              *)

\* Two calls at work upstream use different accounts.  The code does not
\* ensure it: releaseLease deletes whatever lease it finds.
ExclusiveUse ==
  \A g, h \in Call : g # h /\ Using(g) /\ Using(h) => acct[g] # acct[h]

\* As long as no call outlived its lease, two calls that must still release
\* an account must release different ones: tryLease's second look, the lease
\* time and sync.Once together make the lease exclusive.
ExclusiveLease ==
  ~overstay => \A g, h \in Call : g # h => owed[g] \cap owed[h] = {}

\* As long as no call outlived its lease, the lease of every call is in the
\* table and lasts at least as long as the call's context: nobody else deletes
\* or shortens it.
LeaseCoversCall ==
  ~overstay => \A g \in Call : \A a \in owed[g] : Leased(a) /\ leases[a] >= left[g]

\* recordFailure bans an account only on a run of Threshold errors that is
\* still unbroken when it writes, although it read the run in an earlier
\* statement: no other call can have succeeded with the account in between.
BanIsDeserved ==
  ~overstay => \A g \in Call :
    pc[g] = "banning" /\ row[acct[g]] # "deleted" => errors[acct[g]] >= Threshold

\* Every call returns: waiting for a lease, falling back and working upstream
\* all end with the call's context.
EveryCallReturns == \A g \in Call : pc[g] # "idle" ~> pc[g] = "idle"

\* The pool keeps the promise of ExclusiveAccounts: a call holds the account it
\* owes a release for, and the accounts it excluded are those it gave back.
holder == [g \in Call |-> IF owed[g] = {} THEN NoAccount ELSE acct[g]]

Exclusive == INSTANCE ExclusiveAccounts
               WITH user <- holder, tried <- excluded, lapsed <- overstay
ImplementsExclusive == Exclusive!Spec
=============================================================================
