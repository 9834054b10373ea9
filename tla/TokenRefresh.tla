----------------------------- MODULE TokenRefresh -----------------------------
(***************************************************************************)
(* RefreshAccount of internal/service/accounts.go on one account, the      *)
(* chain of credentials it tries (internal/service/flowmusic.go), and the  *)
(* admin's UpdateAccount (internal/store/accounts.go) of the same row.     *)
(* Accounts have locks and rows of their own, so one stands for all.       *)
(*                                                                         *)
(* The worker, a generation that needs an account and the admin's manual   *)
(* requests all call RefreshAccount, with no agreement but the account's   *)
(* mutex: each is a refresher here and may start at any time.              *)
(*                                                                         *)
(* Supabase rotates refresh tokens: using the live one returns its         *)
(* successor and spends it.  A token is its place in that chain; 0 is the  *)
(* empty string.  Of the other credentials only their presence matters,    *)
(* and of at_expires whether it is unknown, ahead or behind.               *)
(***************************************************************************)
EXTENDS Naturals

CONSTANTS
  Refresher,     \* goroutines that may refresh the account
  NoOne,         \* holder of a free lock
  CookieMode,    \* protocol_mode is one of "protocol", "cookie", "cookies"
  TokenInJwt,    \* the JWT in the cookies carries a refresh_token claim
  MaxRotations   \* bound of the model: how often Supabase rotates

ASSUME RefreshAssumption ==
  /\ NoOne \notin Refresher
  /\ CookieMode \in BOOLEAN /\ TokenInJwt \in BOOLEAN
  /\ MaxRotations \in Nat \ {0}

VARIABLES
  row,       \* the account's row
  live,      \* upstream: the refresh token that is not spent
  lock,      \* AccountService.refreshLocks[id]
  pc,        \* where each refresher stands
  canceled,  \* its context is canceled
  seen,      \* the row as it read it
  copy,      \* its working copy of the account
  edit,      \* the row as an UpdateAccount under way read it
  lost,      \* history: a rotation whose token was never stored, or overwritten
  reused     \* history: a spent token was presented to Supabase

vars == <<row, live, lock, pc, canceled, seen, copy, edit, lost, reused>>

Token == 0 .. MaxRotations
Row == [rt : Token,            \* refresh_token
        pt : BOOLEAN,          \* provider_token is set
        prt : BOOLEAN,         \* provider_refresh_token is set
        jar : Token,           \* cookies, by the refresh token of their session
        bearer : BOOLEAN,      \* flow_bearer is set
        exp : {"unknown", "future", "past"}]   \* at_expires
Blank == [rt |-> 0, pt |-> FALSE, prt |-> FALSE, jar |-> 0, bearer |-> FALSE,
          exp |-> "unknown"]

Methods == {"supabase", "provider", "session"}
Steps == {"idle", "locking", "reading", "storing", "failing"} \cup Methods

TypeOK ==
  /\ row \in Row
  /\ live \in Token
  /\ lock \in Refresher \cup {NoOne}
  /\ pc \in [Refresher -> Steps]
  /\ canceled \in [Refresher -> BOOLEAN]
  /\ seen \in [Refresher -> Row]
  /\ copy \in [Refresher -> Row]
  /\ edit \in Row \cup {NoOne}
  /\ lost \in BOOLEAN
  /\ reused \in BOOLEAN

\* Any account an administrator may have imported, with a live refresh token,
\* with cookies of the same session, or with neither.
Init ==
  /\ row \in {r \in Row : r.rt <= 1 /\ r.jar <= 1}
  /\ live = 1
  /\ lock = NoOne
  /\ pc = [p \in Refresher |-> "idle"]
  /\ canceled = [p \in Refresher |-> FALSE]
  /\ seen = [p \in Refresher |-> Blank]
  /\ copy = [p \in Refresher |-> Blank]
  /\ edit = NoOne
  /\ lost = FALSE
  /\ reused = FALSE
-----------------------------------------------------------------------------
(* The exchanges with upstream, each as the set of ways it may end: the     *)
(* account handed back, whether it succeeded, the live token afterwards,    *)
(* whether a rotation was lost and whether a spent token was presented.     *)

Success(a) == [account |-> a, ok |-> TRUE, live |-> live, lost |-> FALSE,
               reused |-> FALSE]
Failure(a) == [Success(a) EXCEPT !.ok = FALSE]

\* Supabase rotated the token; its reply dates the session (parseExpires) and
\* may bring provider credentials.  Without a provider token the rotated
\* account is returned with an error; with one, a bearer always results (if
\* need be the provider token itself) and the cookies are rebuilt.
Rotated(a, pt, prt) ==
  LET b == [a EXCEPT !.rt = live + 1, !.pt = @ \/ pt, !.prt = @ \/ prt, !.exp = "future"]
  IN  [Success(IF b.pt THEN [b EXCEPT !.bearer = TRUE, !.jar = live + 1] ELSE b)
         EXCEPT !.ok = b.pt, !.live = live + 1]

\* RefreshSupabase: refused or never sent; rotated; or rotated, reply lost.
RefreshSupabase(a) ==
  {Failure(a), [Failure(a) EXCEPT !.reused = (a.rt # live)]} \cup
  (IF a.rt # live \/ live = MaxRotations THEN {}
   ELSE {[Failure(a) EXCEPT !.live = live + 1, !.lost = TRUE]} \cup
        {Rotated(a, pt, prt) : pt, prt \in BOOLEAN})

\* refreshWithProviderCredentials: Google may renew the provider token, FlowMusic
\* may turn it into a bearer.  at_expires is left as it is.
RefreshWithProvider(a) ==
  {Failure(a), Success([a EXCEPT !.pt = TRUE, !.bearer = TRUE])} \cup
  (IF a.prt THEN {Failure([a EXCEPT !.pt = TRUE])} ELSE {})

\* The session endpoint answers: with a bearer, or without one.
Answered(a, rt, pt, prt, ok, exp) ==
  [Failure([a EXCEPT !.rt = rt, !.pt = @ \/ pt, !.prt = @ \/ prt,
                     !.bearer = @ \/ ok, !.exp = IF ok THEN exp ELSE @])
     EXCEPT !.ok = ok]

SessionAnswers(a) ==
  {Answered(a, rt, pt, prt, ok, exp) :
     rt \in {a.rt, live}, pt \in BOOLEAN, prt \in BOOLEAN, ok \in BOOLEAN,
     exp \in {a.exp, "future", "unknown"}}

\* It does not: the cookies' JWT becomes the bearer and is tested.  When the
\* test fails, RefreshSupabase is tried with the JWT's own refresh token; if
\* that fails too, what it handed back is dropped.
SessionFails(a) ==
  LET b == [a EXCEPT !.bearer = TRUE]
      c == [b EXCEPT !.rt = a.jar]
  IN  {Failure(a), Failure(b), Success(b)} \cup
      (IF ~TokenInJwt THEN {}
       ELSE {IF o.ok THEN o ELSE [o EXCEPT !.account = c] : o \in RefreshSupabase(c)})

\* RefreshFromCookies.
RefreshFromCookies(a) == SessionAnswers(a) \cup SessionFails(a)

Exchange(method, a) ==
  CASE method = "supabase" -> RefreshSupabase(a)
    [] method = "provider" -> RefreshWithProvider(a)
    [] method = "session" -> RefreshFromCookies(a)

\* refreshAccountByProtocol, refreshAccountByAvailableCredentials: the first
\* method, and what follows a refused refresh token.
FirstMethod(a) ==
  IF ~CookieMode /\ a.rt # 0 THEN "supabase"
  ELSE IF ~CookieMode /\ (a.pt \/ a.prt) THEN "provider"
  ELSE IF a.jar # 0 THEN "session" ELSE "failing"

NextMethod(method, o) ==
  IF o.ok THEN "storing"
  ELSE IF method = "supabase" /\ (o.account.pt \/ o.account.prt) THEN "provider"
  ELSE "failing"
-----------------------------------------------------------------------------
(* RefreshAccount.                                                          *)

Begin(p) ==
  /\ pc[p] = "idle"
  /\ pc' = [pc EXCEPT ![p] = "locking"]
  /\ UNCHANGED <<row, live, lock, canceled, seen, copy, edit, lost, reused>>

\* Mutant of Lock: a lock of the caller's own.
LockOwn(p) ==
  /\ pc[p] = "locking"
  /\ lock' = p
  /\ pc' = [pc EXCEPT ![p] = "reading"]
  /\ UNCHANGED <<row, live, canceled, seen, copy, edit, lost, reused>>

\* lockAccountRefresh: waits without looking at the context.
Lock(p) ==
  /\ pc[p] = "locking"
  /\ lock = NoOne
  /\ lock' = p
  /\ pc' = [pc EXCEPT ![p] = "reading"]
  /\ UNCHANGED <<row, live, canceled, seen, copy, edit, lost, reused>>

\* RefreshAccount returns; the deferred unlock runs.
Finish(p) ==
  /\ lock' = NoOne
  /\ pc' = [pc EXCEPT ![p] = "idle"]
  /\ canceled' = [canceled EXCEPT ![p] = FALSE]
  /\ seen' = [seen EXCEPT ![p] = Blank]
  /\ copy' = [copy EXCEPT ![p] = Blank]

\* Mutants of Read: it goes on without an account, or keeps the lock.
ReadUnchecked(p) ==
  /\ pc[p] = "reading"
  /\ seen' = [seen EXCEPT ![p] = row]
  /\ copy' = IF canceled[p] THEN [copy EXCEPT ![p] = NoOne] ELSE [copy EXCEPT ![p] = row]
  /\ pc' = [pc EXCEPT ![p] = FirstMethod(row)]
  /\ UNCHANGED <<row, live, lock, canceled, edit, lost, reused>>

ReadHolding(p) ==
  /\ pc[p] = "reading"
  /\ IF canceled[p]
       THEN /\ pc' = [pc EXCEPT ![p] = "idle"]
            /\ canceled' = [canceled EXCEPT ![p] = FALSE]
            /\ UNCHANGED <<lock, seen, copy>>
       ELSE /\ seen' = [seen EXCEPT ![p] = row]
            /\ copy' = [copy EXCEPT ![p] = row]
            /\ pc' = [pc EXCEPT ![p] = FirstMethod(row)]
            /\ UNCHANGED <<lock, canceled>>
  /\ UNCHANGED <<row, live, edit, lost, reused>>

\* GetAccount under the lock: what an earlier refresh stored is seen.
Read(p) ==
  /\ pc[p] = "reading"
  /\ IF canceled[p]
       THEN Finish(p)
       ELSE /\ seen' = [seen EXCEPT ![p] = row]
            /\ copy' = [copy EXCEPT ![p] = row]
            /\ pc' = [pc EXCEPT ![p] = FirstMethod(row)]
            /\ UNCHANGED <<lock, canceled>>
  /\ UNCHANGED <<row, live, edit, lost, reused>>

\* Mutant of Try: a refresh that fails forgets what upstream handed out.
TryOrForget(p, method) ==
  /\ pc[p] = method
  /\ \E o \in Exchange(method, copy[p]) :
       /\ canceled[p] => ~o.ok
       /\ copy' = [copy EXCEPT ![p] = IF o.ok THEN o.account ELSE @]
       /\ live' = o.live
       /\ lost' = (lost \/ o.lost)
       /\ reused' = (reused \/ o.reused)
       /\ pc' = [pc EXCEPT ![p] = NextMethod(method, o)]
  /\ UNCHANGED <<row, lock, canceled, seen, edit>>

\* One method of the chain.  Under a canceled context no method succeeds.
Try(p, method) ==
  /\ pc[p] = method
  /\ \E o \in Exchange(method, copy[p]) :
       /\ canceled[p] => ~o.ok
       /\ copy' = [copy EXCEPT ![p] = o.account]
       /\ live' = o.live
       /\ lost' = (lost \/ o.lost)
       /\ reused' = (reused \/ o.reused)
       /\ pc' = [pc EXCEPT ![p] = NextMethod(method, o)]
  /\ UNCHANGED <<row, lock, canceled, seen, edit>>

\* The write of UpdateAccountFields: it may fail, and does when canceled.
Write(p, to) ==
  \/ /\ ~canceled[p]
     /\ row' = to
     /\ UNCHANGED lost
  \/ /\ UNCHANGED row
     /\ lost' = (lost \/ copy[p].rt # seen[p].rt)

\* The success path stores every token; empty cookies are not stored.
StoreSuccess(p) ==
  /\ pc[p] = "storing"
  /\ Write(p, [copy[p] EXCEPT !.jar = IF @ = 0 THEN row.jar ELSE @])
  /\ Finish(p)
  /\ UNCHANGED <<live, edit, reused>>

\* Of a field, the error path stores the value the exchange changed it to.
Changed(p, field) ==
  IF copy[p][field] # seen[p][field] THEN copy[p][field] ELSE row[field]

\* The error path stores what a partial refresh obtained, and at_expires when
\* it is known.
StoreFailure(p) ==
  /\ pc[p] = "failing"
  /\ Write(p, [row EXCEPT !.rt = Changed(p, "rt"), !.pt = Changed(p, "pt"),
                          !.prt = Changed(p, "prt"), !.bearer = Changed(p, "bearer"),
                          !.exp = IF copy[p].exp # "unknown" THEN copy[p].exp ELSE @])
  /\ Finish(p)
  /\ UNCHANGED <<live, edit, reused>>
-----------------------------------------------------------------------------
(* The administrator, the clients, time and crashes.                        *)

\* UpdateAccount of fields other than the tokens reads the row ...
EditRead ==
  /\ edit = NoOne
  /\ edit' = row
  /\ UNCHANGED <<row, live, lock, pc, canceled, seen, copy, lost, reused>>

\* ... and writes every column, the tokens as it read them.
EditWrite ==
  /\ edit # NoOne
  /\ row' = edit
  /\ lost' = (lost \/ edit.rt # row.rt)
  /\ edit' = NoOne
  /\ UNCHANGED <<live, lock, pc, canceled, seen, copy, reused>>

Cancel(p) ==
  /\ pc[p] # "idle"
  /\ ~canceled[p]
  /\ canceled' = [canceled EXCEPT ![p] = TRUE]
  /\ UNCHANGED <<row, live, lock, pc, seen, copy, edit, lost, reused>>

\* The bearer expires, in the row and in the copies of it; one that was just
\* obtained lasts until it is stored.
Passed(a) == IF a.exp = "future" THEN [a EXCEPT !.exp = "past"] ELSE a
Expire ==
  /\ row.exp = "future"
  /\ \A p \in Refresher : pc[p] \notin {"storing", "failing", "provider"}
  /\ row' = Passed(row)
  /\ edit' = IF edit = NoOne THEN NoOne ELSE Passed(edit)
  /\ seen' = [p \in Refresher |-> Passed(seen[p])]
  /\ copy' = [p \in Refresher |-> Passed(copy[p])]
  /\ UNCHANGED <<live, lock, pc, canceled, lost, reused>>

\* ensureInitialAccount of a start whose environment configures this account:
\* the refresh token it brings is the one the chain began with.
Reseeded(a) == [a EXCEPT !.rt = 1]

\* The process is killed and started again: only the row survives, unless the
\* start seeds it anew.
Crash ==
  /\ lock' = NoOne
  /\ pc' = [p \in Refresher |-> "idle"]
  /\ canceled' = [p \in Refresher |-> FALSE]
  /\ seen' = [p \in Refresher |-> Blank]
  /\ copy' = [p \in Refresher |-> Blank]
  /\ edit' = NoOne
  /\ row' \in {row, Reseeded(row)}
  /\ lost' = \/ lost
             \/ \E p \in Refresher : copy[p].rt # seen[p].rt
             \/ row'.rt \notin {row.rt, live}
  /\ UNCHANGED <<live, reused>>

Refresh(p) == Read(p) \/ (\E method \in Methods : Try(p, method))
              \/ StoreSuccess(p) \/ StoreFailure(p)

Next ==
  \/ \E p \in Refresher : Begin(p) \/ Lock(p) \/ Refresh(p) \/ Cancel(p)
  \/ EditRead \/ EditWrite \/ Expire \/ Crash

Spec == Init /\ [][Next]_vars

\* The refresher that has the lock runs, its requests end with the client's
\* timeout, and Go's mutex does not starve a waiter.
Fairness == (\A p \in Refresher : SF_vars(Lock(p))) /\ WF_vars(\E p \in Refresher : Refresh(p))

FairSpec == Spec /\ Fairness
-----------------------------------------------------------------------------
\* Unless a rotation was lost (the reply, the write, the process in between, or
\* a start that seeds the account again),
\* a row with a refresh token holds the live one whenever nobody refreshes the
\* account: success and partial failure both keep what Supabase handed out.
RotatedTokenIsKept ==
  lock = NoOne /\ ~lost => row.rt \in {0, live}

\* Unless a rotation was lost, no refresher presents a token that another one,
\* or an earlier one, already spent.
NoTokenIsSpentTwice == ~lost => ~reused

\* Every refresh ends and gives the lock back: nobody waits for it forever.
EveryRefreshEnds == \A p \in Refresher : pc[p] # "idle" ~> pc[p] = "idle"

\* An edit of other fields leaves the tokens as they are in the row.
EditPreservesTokens == [][EditWrite => row' = row]_vars
=============================================================================
