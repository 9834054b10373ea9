----------------------------- MODULE AccountChoice -----------------------------
(***************************************************************************)
(* Which account a generation gets: acquireExcluding of                    *)
(* internal/service/accounts.go, with the order of orderAccountsForCallMode,*)
(* beside the refresh worker (RunRefreshOnce), the administrator's manual  *)
(* refreshes and edits, and time.  AccountPool models what happens to the  *)
(* account afterwards, TokenRefresh what happens inside RefreshAccount,    *)
(* which is one step here.                                                 *)
(*                                                                         *)
(* A round lists the active rows, reads two configurations, looks at the   *)
(* clock once, and then judges every row by that list and that clock, while*)
(* refreshes that may take minutes go on, its own among them.              *)
(*                                                                         *)
(* Of a row only what the choice looks at is kept.  A bearer is the time   *)
(* left until at_expires; one that is missing counts like one that expired.*)
(***************************************************************************)
EXTENDS Naturals, FiniteSets

CONSTANTS
  Account,     \* rows of accounts, by their ids
  Caller,      \* generations that look for an account
  Worker,      \* the refresh worker
  NoAccount,   \* what a round without a result has picked
  Renewable,   \* rows with auto_refresh_enabled for which canRefreshAccount holds
  Lead,        \* refresh_before_expiry_seconds
  Life,        \* how long a bearer lasts
  Interval,    \* refresh_interval_minutes
  NullsFirst,  \* ORDER BY puts NULLs first (SQLite) or last (PostgreSQL)
  MaxCount     \* bound of the model: error counters and times of use

ASSUME ChoiceAssumption ==
  /\ Account \subseteq Nat
  /\ NoAccount \notin Account
  /\ Worker \notin Caller
  /\ Renewable \subseteq Account
  /\ Lead \in Nat /\ Life \in Nat \ {0} /\ Interval \in Nat /\ MaxCount \in Nat
  /\ NullsFirst \in BOOLEAN

VARIABLES
  row,      \* the table of accounts
  pc,       \* where each round stands
  copy,     \* the rows as a caller listed them, until it looks at the clock
  listed,   \* the accounts a round has still to look at
  renew,    \* those of them a caller refreshes first
  ready,    \* those of them with a current bearer, by the list and the clock
  order,    \* which accounts of a caller's list come before which
  promised, \* history: the same, as far as README.md promises it
  pick,     \* the account a caller was given
  steady    \* history: listed accounts with a current bearer ever since

vars == <<row, pc, copy, listed, renew, ready, order, promised, pick, steady>>

Round == Caller \cup {Worker}

NoExpiry == Life + 1     \* a bearer without at_expires
Never == Interval + 1    \* no last_refresh_at
Row == [active : BOOLEAN, left : 0 .. NoExpiry, since : 0 .. Never]
Blank == [active |-> FALSE, left |-> 0, since |-> 0]
Steps == {"idle", "listed", "trying"}

\* hasCurrentFlowBearer.
Current(r) == r.left > 0

\* shouldRefreshAccount.
ShouldRefresh(r) ==
  \/ r.left # NoExpiry /\ r.left <= Lead
  \/ r.since = Interval
  \/ r.left = NoExpiry /\ r.since = Never
-----------------------------------------------------------------------------
(* The order of the rows.                                                   *)

\* What the order depends on: call_mode, consecutive_error_count, error_count
\* and last_used_at of every row, where 0 is NULL.
Statistics ==
  [polling : BOOLEAN, run : [Account -> 0 .. MaxCount],
   total : [Account -> 0 .. MaxCount], used : [Account -> 0 .. MaxCount]]

\* ORDER BY a.last_used_at ASC, a.id ASC of GetActiveAccounts.
DatabaseOrder(s, a, b) ==
  LET stamp(c) == IF s.used[c] = 0 /\ ~NullsFirst THEN MaxCount + 1 ELSE s.used[c]
  IN  \/ stamp(a) < stamp(b)
      \/ stamp(a) = stamp(b) /\ a < b

\* Mutant of CallOrder: all errors count before those in a row.
TotalOrder(s, a, b) ==
  \/ s.total[a] < s.total[b]
  \/ /\ s.total[a] = s.total[b]
     /\ \/ s.run[a] < s.run[b]
        \/ s.run[a] = s.run[b] /\ a < b

\* The order of sort.SliceStable, where a missing time is the zero time.
CallOrder(s, a, b) ==
  \/ s.run[a] < s.run[b]
  \/ /\ s.run[a] = s.run[b]
     /\ \/ s.total[a] < s.total[b]
        \/ /\ s.total[a] = s.total[b]
           /\ \/ s.used[a] < s.used[b]
              \/ s.used[a] = s.used[b] /\ a < b

\* orderAccountsForCallMode: polling, or an unreadable mode, keeps the
\* database's order.
Before(s, a, b) == IF s.polling THEN DatabaseOrder(s, a, b) ELSE CallOrder(s, a, b)

\* What README.md:208-209 says of it: fewer errors in a row first, and polling by
\* the time of the last use.
Promised(s, a, b) ==
  IF s.polling THEN s.used[a] < s.used[b] /\ (s.used[a] # 0 \/ NullsFirst)
               ELSE s.run[a] < s.run[b]

Pairs == Account \X Account
Rankings ==
  {[order |-> {p \in Pairs : Before(s, p[1], p[2])},
    promised |-> {p \in Pairs : Promised(s, p[1], p[2])}] : s \in Statistics}

\* The account at the head of what is left of a round's list.
IsFirst(p, a) ==
  a \in listed[p] /\ \A b \in listed[p] : <<b, a>> \notin order[p]
-----------------------------------------------------------------------------
TypeOK ==
  /\ row \in [Account -> Row]
  /\ pc \in [Round -> Steps]
  /\ copy \in [Caller -> [Account -> Row]]
  /\ listed \in [Round -> SUBSET Account]
  /\ renew \in [Caller -> SUBSET Account]
  /\ ready \in [Caller -> SUBSET Account]
  /\ order \in [Caller -> SUBSET Pairs]
  /\ promised \in [Caller -> SUBSET Pairs]
  /\ pick \in [Caller -> Account \cup {NoAccount}]
  /\ steady \in [Caller -> SUBSET Account]
  /\ \A p \in Caller : pc[p] = "trying" => listed[p] = renew[p] \cup ready[p]

Init ==
  /\ row \in [Account -> Row]
  /\ pc = [p \in Round |-> "idle"]
  /\ copy = [p \in Caller |-> [a \in Account |-> Blank]]
  /\ listed = [p \in Round |-> {}]
  /\ renew = [p \in Caller |-> {}]
  /\ ready = [p \in Caller |-> {}]
  /\ order = [p \in Caller |-> {}]
  /\ promised = [p \in Caller |-> {}]
  /\ pick = [p \in Caller |-> NoAccount]
  /\ steady = [p \in Caller |-> {}]

\* RefreshAccount as TokenRefresh details it: whether it succeeds or fails, the
\* bearer may be as before (with a missing one found, or kept with its old
\* expiry) or a new one, and last_refresh_at is now.
Refreshed(r) ==
  {[r EXCEPT !.left = n, !.since = 0] :
     n \in {r.left, Life, NoExpiry} \cup (IF r.left = 0 THEN 1 .. Life ELSE {})}

\* A failed one may also leave the row alone.
Attempted(r) == Refreshed(r) \cup {r}

Rewrite(a, r) == row' = [row EXCEPT ![a] = r]
-----------------------------------------------------------------------------
(* A caller's round.                                                        *)

\* GetActiveAccounts and GetCallLogicConfig: the rows that are active and not
\* excluded (leased, or tried before by this generation), in their order.
List(p) ==
  /\ pc[p] = "idle"
  /\ \E excluded \in SUBSET Account, k \in Rankings :
       LET found == {a \in Account \ excluded : row[a].active}
       IN  /\ listed' = [listed EXCEPT ![p] = found]
           /\ copy' = [copy EXCEPT ![p] = [a \in Account |->
                                             IF a \in found THEN row[a] ELSE Blank]]
           /\ order' = [order EXCEPT ![p] = k.order \cap (found \X found)]
           /\ promised' = [promised EXCEPT ![p] = k.promised \cap (found \X found)]
  /\ pc' = [pc EXCEPT ![p] = "listed"]
  /\ pick' = [pick EXCEPT ![p] = NoAccount]
  /\ UNCHANGED <<row, renew, ready>>

\* Mutant of Judge: every listed row is left to be tried.
JudgeNone(p) ==
  /\ pc[p] = "listed"
  /\ \E enabled \in BOOLEAN :
       LET due == {a \in listed[p] \cap Renewable : enabled /\ ShouldRefresh(copy[p][a])}
           good == {a \in listed[p] : Current(copy[p][a])}
       IN  /\ renew' = [renew EXCEPT ![p] = due]
           /\ ready' = [ready EXCEPT ![p] = good]
  /\ copy' = [copy EXCEPT ![p] = [a \in Account |-> Blank]]
  /\ pc' = [pc EXCEPT ![p] = "trying"]
  /\ UNCHANGED <<row, listed, order, promised, pick>>

\* tokenRefreshPolicy, then the time: rows that are neither refreshed nor have a
\* current bearer are passed over.
Judge(p) ==
  /\ pc[p] = "listed"
  /\ \E enabled \in BOOLEAN :
       LET due == {a \in listed[p] \cap Renewable : enabled /\ ShouldRefresh(copy[p][a])}
           good == {a \in listed[p] : Current(copy[p][a])}
       IN  /\ renew' = [renew EXCEPT ![p] = due]
           /\ ready' = [ready EXCEPT ![p] = good]
           /\ listed' = [listed EXCEPT ![p] = due \cup good]
  /\ copy' = [copy EXCEPT ![p] = [a \in Account |-> Blank]]
  /\ pc' = [pc EXCEPT ![p] = "trying"]
  /\ UNCHANGED <<row, order, promised, pick>>

\* The round ends, with an account or NoAccount for AcquireLeaseExcluding.
End(p, a) ==
  /\ pc' = [pc EXCEPT ![p] = "idle"]
  /\ pick' = [pick EXCEPT ![p] = a]
  /\ listed' = [listed EXCEPT ![p] = {}]
  /\ renew' = [renew EXCEPT ![p] = {}]
  /\ ready' = [ready EXCEPT ![p] = {}]
  /\ order' = [order EXCEPT ![p] = {}]
  /\ promised' = [promised EXCEPT ![p] = {}]

Skip(p, a) ==
  /\ listed' = [listed EXCEPT ![p] = @ \ {a}]
  /\ renew' = [renew EXCEPT ![p] = @ \ {a}]
  /\ ready' = [ready EXCEPT ![p] = @ \ {a}]
  /\ UNCHANGED <<pc, pick, order, promised>>

IsNext(p, a) == pc[p] = "trying" /\ IsFirst(p, a)

\* A row that is not due is taken as it was listed.
TakeReady(p, a) ==
  /\ IsNext(p, a)
  /\ a \notin renew[p]
  /\ End(p, a)
  /\ UNCHANGED <<row, copy>>

\* A due row whose refresh succeeds is taken if its bearer outlasts the time the
\* round saw, which one that has expired since may do too.
RefreshSucceeds(p, a) ==
  /\ IsNext(p, a)
  /\ a \in renew[p]
  /\ \E r \in Refreshed(row[a]) :
       /\ Rewrite(a, r)
       /\ End(p, a) \/ (~Current(r) /\ Skip(p, a))
  /\ UNCHANGED copy

\* Mutant of RefreshFails: the row is passed over.
RefreshFailsFor(p, a) ==
  /\ IsNext(p, a)
  /\ a \in renew[p]
  /\ \E r \in Attempted(row[a]) : Rewrite(a, r)
  /\ Skip(p, a)
  /\ UNCHANGED copy

\* A due row whose refresh fails, or cannot be stored, is taken as it was listed
\* if that bearer is still current.
RefreshFails(p, a) ==
  /\ IsNext(p, a)
  /\ a \in renew[p]
  /\ \E r \in Attempted(row[a]) : Rewrite(a, r)
  /\ IF a \in ready[p] THEN End(p, a) ELSE Skip(p, a)
  /\ UNCHANGED copy

\* "no active FlowMusic account with usable Bearer token".
Fail(p) ==
  /\ pc[p] = "trying"
  /\ listed[p] = {}
  /\ End(p, NoAccount)
  /\ UNCHANGED <<row, copy>>

Search(p) ==
  \/ List(p) \/ Judge(p) \/ Fail(p)
  \/ \E a \in Account : TakeReady(p, a) \/ RefreshSucceeds(p, a) \/ RefreshFails(p, a)
-----------------------------------------------------------------------------
(* The worker's round.                                                      *)

OtherRounds == <<copy, renew, ready, order, promised, pick>>

\* RunRefreshOnce while refreshing is enabled: GetActiveAccounts, the time, and
\* which rows are due by both.
WorkerLists ==
  /\ pc[Worker] = "idle"
  /\ listed' = [listed EXCEPT ![Worker] =
                  {a \in Renewable : row[a].active /\ ShouldRefresh(row[a])}]
  /\ pc' = [pc EXCEPT ![Worker] = "trying"]
  /\ UNCHANGED <<row, OtherRounds>>

WorkerLeaves(a) ==
  /\ a \in listed[Worker]
  /\ listed' = [listed EXCEPT ![Worker] = @ \ {a}]
  /\ UNCHANGED <<pc, OtherRounds>>

\* isLeased: an account some call works with is left alone.
WorkerPasses(a) == WorkerLeaves(a) /\ UNCHANGED row

\* Mutant of WorkerRefreshes: the first error ends the round.
WorkerGivesUp(a) ==
  /\ a \in listed[Worker]
  /\ \/ /\ \E r \in Refreshed(row[a]) : Rewrite(a, r)
        /\ listed' = [listed EXCEPT ![Worker] = @ \ {a}]
     \/ /\ \E r \in Attempted(row[a]) : Rewrite(a, r)
        /\ listed' = [listed EXCEPT ![Worker] = {}]
  /\ UNCHANGED <<pc, OtherRounds>>

\* RefreshAccount, whose result and error are ignored.
WorkerRefreshes(a) ==
  WorkerLeaves(a) /\ \E r \in Attempted(row[a]) : Rewrite(a, r)

WorkerEnds ==
  /\ pc[Worker] = "trying"
  /\ listed[Worker] = {}
  /\ pc' = [pc EXCEPT ![Worker] = "idle"]
  /\ UNCHANGED <<row, listed, OtherRounds>>

Work == WorkerLists \/ WorkerEnds
        \/ \E a \in Account : WorkerPasses(a) \/ WorkerRefreshes(a)
-----------------------------------------------------------------------------
(* Others, and time.                                                        *)

\* handleRefreshAT, and RefreshCredits where ensureFreshBearerForManualRequest
\* asks for it: RefreshAccount at any time.
ManualRefresh(a) ==
  /\ \E r \in Refreshed(row[a]) : Rewrite(a, r)
  /\ UNCHANGED <<pc, listed, OtherRounds>>

\* An edit or an import gives the row another bearer, or none.
Edit(a) ==
  /\ \E n \in 0 .. NoExpiry : Rewrite(a, [row[a] EXCEPT !.left = n])
  /\ UNCHANGED <<pc, listed, OtherRounds>>

\* SetAccountActive, by an administrator or by a ban; a deleted row is as good
\* as a disabled one.
SetActive(a) ==
  /\ Rewrite(a, [row[a] EXCEPT !.active = ~@])
  /\ UNCHANGED <<pc, listed, OtherRounds>>

Aged(r) ==
  [r EXCEPT !.left = IF @ \in {0, NoExpiry} THEN @ ELSE @ - 1,
            !.since = IF @ >= Interval THEN @ ELSE @ + 1]

Tick ==
  /\ row' = [a \in Account |-> Aged(row[a])]
  /\ copy' = [p \in Caller |-> IF pc[p] = "listed"
                                 THEN [a \in Account |-> Aged(copy[p][a])] ELSE copy[p]]
  /\ UNCHANGED <<pc, listed, renew, ready, order, promised, pick>>

\* history: steady accounts are listed, active and, by the list until the round
\* looks at the clock and by the row ever since, current.
Watch ==
  steady' = [p \in Caller |->
    IF pc'[p] = "idle" THEN {}
    ELSE {a \in IF pc[p] = "idle" THEN listed'[p] ELSE steady[p] :
            /\ row'[a].active
            /\ Current(row'[a])
            /\ pc'[p] = "listed" => Current(copy'[p][a])}]

Next ==
  /\ \/ \E p \in Caller : Search(p)
     \/ Work
     \/ \E a \in Account : ManualRefresh(a) \/ Edit(a) \/ SetActive(a)
     \/ Tick
  /\ Watch

Spec == Init /\ [][Next]_vars

\* The worker's ticker fires and RefreshAccount ends (TokenRefresh!EveryRefreshEnds),
\* while refreshing stays enabled and the database answers.
Fairness == WF_vars(Work /\ Watch)

FairSpec == Spec /\ Fairness
-----------------------------------------------------------------------------
\* The end of a search (acquireExcluding): it comes back empty only if no listed
\* account was usable all the time it looked, and never with an account while a
\* better one, by the order README.md:208-209 promises, was: whatever refreshes
\* fail, and whatever others do to the rows meanwhile.
EndsWithBest(p) ==
  IF pick'[p] = NoAccount THEN steady[p] = {}
  ELSE \A b \in steady[p] : <<b, pick'[p]>> \notin promised[p]

BestUsableIsChosen ==
  [][\A p \in Caller : pc[p] = "trying" /\ pc'[p] = "idle" => EndsWithBest(p)]_vars

\* An account that stays due is looked at again and again, and refreshed unless
\* it is leased at that time: those before it on the list cannot keep the worker
\* from it by failing.
DueAccountsAreRefreshed ==
  \A a \in Renewable :
    \/ []<>~(row[a].active /\ ShouldRefresh(row[a]))
    \/ []<><<WorkerPasses(a) \/ WorkerRefreshes(a)>>_vars
=============================================================================
